------------------------------- MODULE PanelDesk -------------------------------
(***************************************************************************)
(* The desk of ReviewDesk whose subject is the tree of a panel's WHERE     *)
(* clause.  Nothing happens at it: what the suppression and the operators' *)
(* page make of the text is a function of the text.  It is apart from the  *)
(* others because the parser is recursive.                                 *)
(***************************************************************************)
EXTENDS PanelMeaning, ReviewDesk

CONSTANTS PanelRows, Variables   \* what the panels are read against

\* What the suppression concludes from a panel's text is true of what the text
\* means to the database: a row it counts as excluded is one the panel cannot
\* show, and one it counts as hidden likewise; the text is read as the tree it
\* was written from; and the clauses marked on the operators' page are the
\* suppression predicates and nothing else (src/suppression/parser.py,
\* evaluate.py; src/admin/summary.py, highlight_panel_sql).
PanelReadingIsSound ==
    desk.kind = "panel" =>
        /\ ParsePanelSql(Query(desk.tree)).node = desk.tree
        /\ ConclusionsHold(desk.tree, PanelRows, Variables)
        /\ MarksAreClauses(desk.tree)
===============================================================================
