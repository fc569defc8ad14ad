------------------------------ MODULE PanelLeaves ------------------------------
(***************************************************************************)
(* What the panels of one schema hide from their team: over all the rows   *)
(* at once (evaluate_suppression, src/suppression/evaluate.py) and in one  *)
(* pass that keeps no row (src/suppression/stream.py).                     *)
(*                                                                         *)
(* A panel is [parsed, leaves] as interpret_panel leaves it; a leaf is     *)
(* [kind, attribute, values], "values" being the texts it equals or, for   *)
(* LIKE, matches.  A leaf is named by <<panel, position>>.                 *)
(***************************************************************************)
EXTENDS AlertRules

\* A missing value is neither excluded nor hidden: a leaf must match positively.
ExcludesRow(leaf, row) == row[leaf.attribute] # Null /\ row[leaf.attribute] \in leaf.values
HidesRow(leaf, row) == row[leaf.attribute] # Null /\ row[leaf.attribute] \notin leaf.values

Leaf(panels, id) == panels[id[1]].leaves[id[2]]

LeavesOf(panels, kind) ==
    UNION {{<<p, i>> : i \in {k \in DOMAIN panels[p].leaves : panels[p].leaves[k].kind = kind}} :
           p \in DOMAIN panels}

Unparsed(panels) == Cardinality({p \in DOMAIN panels : ~panels[p].parsed})

\* BLAST_RADIUS_LIMIT: a leaf may not exclude more than half of the rows.
TooWide(matched, total) == 2 * matched > total

\* Unanimity: every panel must have such a leaf, and there must be a panel.
InEveryPanel(panels, leaves) ==
    panels # <<>> /\ \A p \in DOMAIN panels : \E id \in leaves : id[1] = p

HidingLeaves(panels, row) ==
    {id \in LeavesOf(panels, "identity") : HidesRow(Leaf(panels, id), row)}

UnmeasuredLeaves(panels, active) ==
    Unparsed(panels) + Cardinality(LeavesOf(panels, "unmeasured"))
        + Cardinality(LeavesOf(panels, "suppression") \ active)

UnseenUnmeasured(panels) ==
    Unparsed(panels) + Cardinality(LeavesOf(panels, "identity_unmeasured"))

-------------------------------------------------------------------------------
\* Over all rows, a sequence; rows are named by their positions.
MatchedRows(panels, id, rows) == {i \in DOMAIN rows : ExcludesRow(Leaf(panels, id), rows[i])}

ActiveLeaves(panels, rows) ==
    {id \in LeavesOf(panels, "suppression") :
        ~TooWide(Cardinality(MatchedRows(panels, id, rows)), Len(rows))}

SuppressedRows(panels, rows) ==
    {i \in DOMAIN rows :
        InEveryPanel(panels, {id \in ActiveLeaves(panels, rows) :
                                 i \in MatchedRows(panels, id, rows)})}

\* Disjoint from the suppressed rows: a row counts once.
UnseenRows(panels, rows) ==
    {i \in DOMAIN rows : InEveryPanel(panels, HidingLeaves(panels, rows[i]))}
        \ SuppressedRows(panels, rows)

-------------------------------------------------------------------------------
\* In one pass: a row leaves its mask behind, the set of leaves that exclude it.
NoVisibility(panels) ==
    [total |-> 0, matches |-> [id \in LeavesOf(panels, "suppression") |-> 0]]

Mask(panels, row) ==
    {id \in LeavesOf(panels, "suppression") : ExcludesRow(Leaf(panels, id), row)}

IsHidden(panels, row) == InEveryPanel(panels, HidingLeaves(panels, row))

AddVisibility(panels, vis, row) ==
    [total |-> vis.total + 1,
     matches |-> [id \in DOMAIN vis.matches |->
                     vis.matches[id] + (IF id \in Mask(panels, row) THEN 1 ELSE 0)]]

\* A mutant: the limit itself is too wide.
ActiveBelowHalf(vis) == {id \in DOMAIN vis.matches : 2 * vis.matches[id] < vis.total}

\* Only after the last page is the share of all the rows known.
ActiveMask(vis) == {id \in DOMAIN vis.matches : ~TooWide(vis.matches[id], vis.total)}

IsSuppressed(panels, active, mask) == InEveryPanel(panels, mask \cap active)
===============================================================================
