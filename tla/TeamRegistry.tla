----------------------------- MODULE TeamRegistry -----------------------------
(***************************************************************************)
(* Which document of teams is accepted and which entry a run takes from it *)
(* (src/registry.py).  The JSON Schema has been checked before: an entry   *)
(* is [team_id, v1_operators, v2_operator, panels], the operators exact    *)
(* strings, v2_operator Null when there is none; a panel is [id,           *)
(* variables] and a variable [name, type, value, values].                  *)
(***************************************************************************)
EXTENDS AlertRules, SequencesExt

Problem(kind, team, what) == [kind |-> kind, team |-> team, what |-> what]

V1Operators(team) == {team.v1_operators[i] : i \in DOMAIN team.v1_operators}

\* One team may carry the same string as a v1 and as its v2 operator.
OwnOperators(team) == V1Operators(team) \union ({team.v2_operator} \ {Null})

OperatorProblems(team, seen) ==
    {Problem("operator", team.team_id, o) :
        o \in {p \in OwnOperators(team) : p \in DOMAIN seen /\ seen[p] # team.team_id}}

\* The first owner of an operator keeps it, so a third claim is told of the first.
SeenOperators(team, seen) ==
    [o \in DOMAIN seen \union OwnOperators(team) |->
        IF o \in DOMAIN seen THEN seen[o] ELSE team.team_id]

Repeated(seq, i, name) == \E j \in 1 .. i - 1 : seq[j][name] = seq[i][name]

VariableProblems(team, panel) ==
    UNION {LET v == panel.variables[i]
           IN  {Problem("variable", team.team_id, w) :
                   w \in {w \in {"twice", "no value", "no values"} :
                             CASE w = "twice" -> Repeated(panel.variables, i, "name")
                               [] w = "no value" ->
                                      v.type \in {"constant", "interval"} /\ v.value = Null
                               [] OTHER -> v.type = "custom" /\ v.values = Null}} :
           i \in DOMAIN panel.variables}

PanelProblems(team) ==
    UNION {(IF Repeated(team.panels, i, "id")
            THEN {Problem("panel", team.team_id, team.panels[i].id)} ELSE {})
           \union VariableProblems(team, team.panels[i]) : i \in DOMAIN team.panels}

\* One pass over the document; every problem is reported, not only the first.
WithEntry(acc, team) ==
    [ids |-> acc.ids \union {team.team_id},
     seen |-> SeenOperators(team, acc.seen),
     problems |-> acc.problems
         \union (IF team.team_id \in acc.ids
                 THEN {Problem("team_id", team.team_id, "duplicate")} ELSE {})
         \union (IF team.v1_operators = <<>> /\ team.v2_operator = Null
                 THEN {Problem("operators", team.team_id, "none")} ELSE {})
         \union OperatorProblems(team, acc.seen)
         \union PanelProblems(team)]

NothingSeen == [ids |-> {}, seen |-> [o \in {} |-> Null], problems |-> {}]

Validated(document) == FoldLeft(WithEntry, NothingSeen, document)

ValidateRegistry(document) == Validated(document).problems

\* The first entry of that name; Null stands for the error that lists the names.
SelectTeam(document, id) ==
    LET named == {i \in DOMAIN document : document[i].team_id = id}
    IN  IF named = {} THEN Null ELSE document[CHOOSE i \in named : \A j \in named : i <= j]

\* What is stored with the run: the entry as the document has it.
SnapshotTeamEntry(team) == team

\* What the JSON Schema has made sure of before (config/teams.schema.json).
IsArray(seq) == seq \in Seq({seq[i] : i \in DOMAIN seq})

IsDocument(document, operators) ==
    /\ IsArray(document)
    /\ \A i \in DOMAIN document :
           /\ document[i].v1_operators \in Seq(operators)
           /\ document[i].v2_operator \in operators \union {Null}
           /\ IsArray(document[i].panels)
           /\ \A k \in DOMAIN document[i].panels : IsArray(document[i].panels[k].variables)

-------------------------------------------------------------------------------
\* An accepted document attributes every alert to one team: an operator is
\* claimed by one entry at most, every entry can be queried, a name selects the
\* one entry of that name, and every variable of a panel has one meaning.  A
\* document of which this is true is accepted (registry.py, "the rules that span
\* entries, and those are precisely the ones that corrupt attribution").
OneOwner(document, operators) ==
    LET Claims(i, o) == o = document[i].v2_operator \/ \E k \in DOMAIN document[i].v1_operators :
                                                          document[i].v1_operators[k] = o
        Unambiguous(panel) ==
            \A v \in {panel.variables[k] : k \in DOMAIN panel.variables} :
                /\ Cardinality({k \in DOMAIN panel.variables :
                                   panel.variables[k].name = v.name}) = 1
                /\ CASE v.type \in {"constant", "interval"} -> v.value # Null
                     [] v.type = "custom" -> v.values # Null
                     [] OTHER -> TRUE
    IN  ValidateRegistry(document) = {} <=>
            /\ \A o \in operators : \A i, j \in DOMAIN document :
                   Claims(i, o) /\ Claims(j, o) => i = j
            /\ \A i \in DOMAIN document : \E o \in operators : Claims(i, o)
            /\ \A i \in DOMAIN document :
                   SelectTeam(document, document[i].team_id) = document[i]
            /\ \A i, j \in DOMAIN document :
                   document[i].team_id = document[j].team_id => i = j
            /\ \A i \in DOMAIN document :
                   LET panels == document[i].panels
                   IN  /\ \A k \in DOMAIN panels : Unambiguous(panels[k])
                       /\ \A k, l \in DOMAIN panels : panels[k].id = panels[l].id => k = l
===============================================================================
