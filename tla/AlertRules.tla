------------------------------ MODULE AlertRules ------------------------------
(***************************************************************************)
(* One alert event and the rules a single event decides: src/domain/       *)
(* normalize.py, src/domain/severity.py, src/rules/core.py, readiness.py,  *)
(* phase.py.  Text is taken in its normalized form, so a message or a      *)
(* field is a member of a small set; Null stands for a missing value.      *)
(***************************************************************************)
EXTENDS RunWindow, Sequences, FiniteSets, TLC

CONSTANTS
    Null,          \* a missing value
    NotAString,    \* a value of a type that is no string
    Unparseable    \* a time_created that is no instant

CORE == {"R1", "R2", "R3", "R4", "R5", "R6", "R7"}
READINESS == {"R8", "R9", "R10"}

GENERIC == {"error occurred"}
HEARTBEAT == {"i am alive", "ok"}
PLACEHOLDER == {"unknown", "test", "default", "n/a"}
TECHNICAL_CAUSE == {"high cpu"}
HTTP_URLS == {"https://runbook"}

Blank(v) == v \in {Null, NotAString, ""}

\* A severity is stored as a number, and each schema names its levels.
SeverityLabel(schema, code) ==
    CASE code = Null -> Null
      [] code = 5 -> IF schema = "v1" THEN "error" ELSE "critical"
      [] code = 4 -> IF schema = "v1" THEN "major" ELSE "high"
      [] code = 3 -> "warning"
      [] code = 1 -> "clear"
      [] OTHER -> ToString(code)

\* Any other type is turned into its text, except where a rule must see the type.
Str(v) == IF v = NotAString THEN "<text>" ELSE v
OrEmpty(v) == IF v = Null THEN "" ELSE Str(v)
OfV2(schema, v) == IF schema = "v2" THEN v ELSE Null

\* A document as the record the rules read.  "doc" is the rank of its hash.
NormalizeRow(schema, d) ==
    [schema |-> schema,
     application |-> OrEmpty(d.application),
     key_field |-> OrEmpty(d.key_field),
     identity |-> <<OrEmpty(d.application), OrEmpty(d.key_field)>>,
     component |-> Str(d.component),
     message |-> Str(d.message),
     severity |-> SeverityLabel(schema, d.severity),
     operator |-> Str(d.operator),
     node_name |-> Str(d.node_name),
     alert_rule_url |-> Str(d.alert_rule_url),
     provider |-> Str(d.provider),
     status |-> OfV2(schema, d.status),
     impact |-> OfV2(schema, d.impact),
     runbook_url |-> OfV2(schema, d.runbook_url),
     time_created |-> d.time_created,
     at |-> d.at,
     date |-> DateOf(d.at),
     doc |-> d.doc]

\* Where an alert comes from, without its node: the unit of the diagnostics.
Scope(row) == <<row.application, OrEmpty(row.component)>>

IsClear(row) == IF row.schema = "v1" THEN row.severity = "clear"
                ELSE row.status = "resolved"

-------------------------------------------------------------------------------
R1(row) == row.message \in GENERIC
R2(row) == row.message \in HEARTBEAT

\* Missing or placeholder ownership; a missing node name is valid.
R3(row) ==
    \/ \E v \in {row.application, row.operator, row.component} :
           Blank(v) \/ v \in PLACEHOLDER
    \/ row.node_name \in PLACEHOLDER

R4(row) == row.provider = "grafana" /\ Blank(row.alert_rule_url)

\* time_created must lie in the day before the receipt, both ends included.
R7(row) ==
    /\ row.schema = "v1"
    /\ \/ row.time_created \in {Null, Unparseable}
       \/ row.time_created > row.at
       \/ row.time_created < row.at - DAY

CoreRules(row) ==
    {r \in {"R1", "R2", "R3", "R4", "R7"} :
        CASE r = "R1" -> R1(row) [] r = "R2" -> R2(row) [] r = "R3" -> R3(row)
          [] r = "R4" -> R4(row) [] OTHER -> R7(row)}

R8(row) == row.schema = "v2" /\ (Blank(row.impact) \/ row.impact \in PLACEHOLDER)
R9(row) == row.schema = "v2" /\ row.runbook_url \notin HTTP_URLS
R10(row) == row.schema = "v2" /\ row.impact \in TECHNICAL_CAUSE

ReadinessRules(row) ==
    {r \in READINESS :
        CASE r = "R8" -> R8(row) [] r = "R9" -> R9(row) [] OTHER -> R10(row)}

-------------------------------------------------------------------------------
\* A missing runbook blocks completion of a critical alert only.
CompletionReady(row) ==
    ~R8(row) /\ ~R10(row) /\ ~(row.severity = "critical" /\ R9(row))

\* The readiness percentage as its two operands; Null when nothing was measured.
Phase2Readiness(reps) ==
    IF reps = {} THEN Null
    ELSE [ready |-> Cardinality({r \in reps : CompletionReady(r)}),
          total |-> Cardinality(reps)]

DerivePhase(v1, v2, readiness) ==
    CASE v1 = 0 /\ v2 = 0 -> "no_data"
      [] v1 > 0 /\ v2 = 0 -> "phase_0"
      [] v1 > 0 /\ v2 > 0 -> "phase_1"
      [] OTHER -> IF readiness # Null /\ readiness.ready >= readiness.total
                  THEN "done" ELSE "phase_2"
===============================================================================
