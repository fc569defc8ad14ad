------------------------------ MODULE ReviewDesk ------------------------------
(***************************************************************************)
(* What the team's review says and how it is read: the parts of the system *)
(* that turn one thing into another, each at a desk of its own.  A desk is *)
(* given its subject in the initial state:                                 *)
(*   panel     the tree of a WHERE clause, for the suppression's reading;  *)
(*   exchange  alerts to assess, whose batches the model answers in turn;  *)
(*   manifest  a stored run and the run the acceptance check is shown;     *)
(*   registry  a document of teams;                                        *)
(*   weeks     the published weeks, read while operators change them.      *)
(***************************************************************************)
EXTENDS LlmExchange, PortalPages, Acceptance, TeamRegistry

CONSTANTS
    Desks,             \* the subjects, [kind, ...]
    Responses(_),      \* what the model may answer to a batch
    Operators,         \* of the documents
    Requests           \* that readers send

\* A request whose page is no integer is refused before it is read (app.py, Page).
ASSUME RequestsAssumption == \A request \in Requests : request.number \in Int

\* A document is checked against its JSON Schema first; an operator is a string.
ASSUME DocumentsAssumption ==
    /\ Null \notin Operators
    /\ \A d \in Desks : d.kind = "registry" => IsDocument(d.document, Operators)

\* The run of a manifest is one the pipeline wrote; the run shown in its place is
\* any that the tables can hold.
ASSUME ManifestsAssumption ==
    \A d \in Desks : d.kind = "manifest" => IsWritten(d.run) /\ IsStored(d.other)

\* What is assessed are findings of one run, whose transport identity is their
\* key (pk_alert_findings), with documents of named fields.
IsToAssess(alerts) ==
    /\ IsArray(alerts)
    /\ \A i \in DOMAIN alerts :
           /\ alerts[i].key_field \in Int /\ alerts[i].application \in Int
           /\ alerts[i].rule \in Int \union {NoRule}
           /\ alerts[i].source = [f \in DOMAIN alerts[i].source |-> alerts[i].source[f]]
    /\ \A i, j \in DOMAIN alerts : TransportId(alerts[i]) = TransportId(alerts[j]) => i = j

\* A configured batch is positive (config/llm.py); a response with verdicts that
\* are no array is refused before anything else.
ASSUME ExchangesAssumption ==
    /\ MAX_BATCH_SIZE \in Nat \ {0}
    /\ \A d \in Desks :
           d.kind = "exchange" =>
               /\ IsToAssess(d.alerts) /\ d.configured \in Nat \ {0}
               /\ LET batches == BuildBatches(d.alerts, d.configured)
                  IN  \A b \in DOMAIN batches : \A r \in Responses(batches[b]) : IsArray(r.verdicts)

VARIABLES
    desk,
    asked,             \* the batch that has been sent
    response,          \* to it, once there is one
    outcomes           \* AssessmentResult.outcomes: [identity -> state]

deskVars == <<desk, asked, response, outcomes>>
vars == <<ledger, page, moves, desk, asked, response, outcomes>>

NoResponse == [batch_id |-> <<>>, verdicts |-> <<>>]

Init ==
    /\ desk \in Desks
    /\ LedgerInit /\ page = NoPage /\ moves = 0
    /\ asked = 0 /\ response = NoResponse /\ outcomes = [i \in {} |-> Null]

-------------------------------------------------------------------------------
\* assess_alerts: the batches one after the other, each until it has its answer.
\* A batch whose attempts all failed is one that was answered with nothing.
Batches == BuildBatches(desk.alerts, desk.configured)

Ask ==
    /\ desk.kind = "exchange"
    /\ asked = 0 \/ response # NoResponse
    /\ asked < Len(Batches)
    /\ asked' = asked + 1 /\ response' = NoResponse
    /\ UNCHANGED <<ledger, page, moves, desk, outcomes>>

\* The outcomes of a batch replace those of the same identities.
WithOutcomes(old, new) ==
    [i \in DOMAIN old \union DOMAIN new |-> IF i \in DOMAIN new THEN new[i] ELSE old[i]]

Answered ==
    /\ desk.kind = "exchange"
    /\ asked > 0 /\ response = NoResponse
    /\ response' \in Responses(Batches[asked])
    /\ outcomes' = WithOutcomes(outcomes, OutcomesOf(response', Batches[asked]))
    /\ UNCHANGED <<ledger, page, moves, desk, asked>>

Reading ==
    /\ desk.kind = "weeks"
    /\ (\E request \in Requests : Open(request)) \/ Read \/ Close
    /\ UNCHANGED deskVars

Operating == desk.kind = "weeks" /\ Move /\ UNCHANGED deskVars

Next == Ask \/ Answered \/ Reading \/ Operating

Spec == Init /\ [][Next]_vars

-------------------------------------------------------------------------------
\* Every alert is asked about once, in a batch of its own group that is neither
\* too large nor lopsided, and its document can be read back from the request.
BatchesAreWhole(alerts, configured) ==
    LET batches == BuildBatches(alerts, configured)
        sent == FlattenSeq([b \in DOMAIN batches |-> batches[b].alerts])
    IN  /\ Len(sent) = Len(alerts) /\ Range(sent) = Range(alerts)
        /\ \A b \in DOMAIN batches :
               /\ Len(batches[b].alerts) \in 1 .. Cap(configured)
               /\ \A a \in Range(batches[b].alerts) : GroupKey(a) = batches[b].key
               /\ IsLossless(batches[b])
               /\ \A c \in DOMAIN batches :
                      batches[c].key = batches[b].key =>
                          Len(batches[c].alerts) - Len(batches[b].alerts) \in -1 .. 1

\* The verdict stated for the alert by name, if there is exactly one.
StatedFor(id) ==
    LET named == {k \in DOMAIN response.verdicts : response.verdicts[k].alert_id = id}
    IN  IF Cardinality(named) = 1 THEN {response.verdicts[k] : k \in named} ELSE {}

\* No verdict is attached to an alert it was not given for ("a verdict attached
\* to the wrong alert is the worst output this system can produce"): the answer
\* to a batch is taken whole, when it names each alert once with a verdict that
\* can be said of it, in whatever order, or not at all; and then the identity of
\* each alert has the state of a verdict stated for an alert of that identity
\* (src/llm/grouping.py, request.py, response.py, assess.py).
AnswersBind ==
    desk.kind = "exchange" =>
        /\ BatchesAreWhole(desk.alerts, desk.configured)
        /\ response # NoResponse =>
            LET batch == Batches[asked]
                members == DOMAIN batch.alerts
                Said(k) == {v \in StatedFor(batch.ids[k]) :
                               ValidVerdict(v) /\ Applicable(v, batch.alerts[k])}
                whole == /\ response.batch_id = BatchId(batch)
                         /\ Len(response.verdicts) = Len(batch.ids)
                         /\ \A k \in members : Said(k) # {}
            IN  \A k \in members :
                    LET identity == IdentityOf(batch.alerts[k])
                        same == {j \in members : IdentityOf(batch.alerts[j]) = identity}
                    IN  IF whole
                        THEN \E j \in same : outcomes[identity] \in
                                                 {StateForVerdict(v) : v \in Said(j)}
                        ELSE outcomes[identity] = "unassessed"

\* A published week shows an operator and a reader the same figures, the same
\* projection and the same alerts, whatever else is published
\* (src/admin/summary.py, src/portal/summary_queries.py, src/portal/tabs.py).
SurfacesAgree ==
    desk.kind = "weeks" /\ page = NoPage => SameFigures /\ SameLists

\* A page never tells anything of a week that is not published, and of one that
\* stayed published it tells what the operators see, although it is read
\* statement by statement (src/portal/app.py, queries.py, migration 005).
PagesAreOfPublishedWeeks ==
    /\ [](desk.kind = "weeks" => ShowsTheWeek)
    /\ [][desk.kind = "weeks" => ReadsOnlyPublished]_vars

\* The acceptance check accepts, in place of the run its manifest was made of,
\* exactly the runs that agree with it in what the manifest lists: a listed day, a
\* rule's count, an alert or a line of the report that is missing, changed or one
\* too many fails it.  Which alert is in which state, and whether a bucket without
\* alerts is there, it does not tell (src/run/verify.py).
AcceptanceIsExact ==
    desk.kind = "manifest" => AcceptsExactly(desk.run, desk.other)

\* Every alert of an accepted registry belongs to one team (src/registry.py).
RegistryIsUnambiguous ==
    desk.kind = "registry" => OneOwner(desk.document, Operators)
===============================================================================
