------------------------------ MODULE PortalPages ------------------------------
(***************************************************************************)
(* The portal answering a request while operators publish and withdraw     *)
(* (src/portal/app.py, src/portal/queries.py).  A page is read statement   *)
(* by statement over an autocommit connection: nothing holds the ledger    *)
(* still between two of them.  The operator's work list is here too, for   *)
(* the two lists are to hold the same alerts.                              *)
(***************************************************************************)
EXTENDS SummaryPages

CONSTANTS
    Filters,     \* [schema, state, rule, attention]: what a reader may filter by
    PAGE_SIZE,   \* rows of a page of either list
    MAX_MOVES    \* bound: ledger changes while one page is being read

ASSUME PageSizeAssumption == PAGE_SIZE \in Nat \ {0}

VARIABLES
    page,        \* the request being answered, and the answers so far
    moves        \* ledger changes since it was opened

-------------------------------------------------------------------------------
(* Work lists.                                                             *)

Matching(alerts, f) ==
    {a \in alerts : /\ f.schema \in SCHEMAS => a.schema = f.schema
                    /\ f.state \in STATES => a.state = f.state
                    /\ f.rule # "" => f.rule \in a.core \union a.readiness}

NeedingAttention(alerts) == {a \in alerts : AttentionRank(a) < 4}

LastPage(total) == Later(1, CeilDiv(total, PAGE_SIZE))
Clamped(n, total) == Earlier(Later(n, 1), LastPage(total))
PageOf(order, n) ==
    SubSeq(order, (n - 1) * PAGE_SIZE + 1, Earlier(n * PAGE_SIZE, Len(order)))

\* Rounded down, a last page that is not full cannot be reached.
FullPages(total) == Later(1, total \div PAGE_SIZE)

ReaderOrder(alerts) ==
    SortedBy(alerts, LAMBDA a, b :
        Smaller(<<AttentionRank(a), -a.row_count>> \o Identity(a),
                <<AttentionRank(b), -b.row_count>> \o Identity(b)))

ReaderList(alerts, f) ==
    LET found == Matching(alerts, f)
    IN  IF f.attention THEN NeedingAttention(found) ELSE found

WorklistCounts(alerts, f) ==
    [attention |-> Cardinality(NeedingAttention(Matching(alerts, f))),
     all |-> Cardinality(Matching(alerts, f))]

OperatorOrder(alerts, sort) ==
    SortedBy(alerts, LAMBDA a, b :
        LET id(x) == Identity(x)
            key(x) == IF sort = "application" THEN <<id(x)[2], id(x)[1], id(x)[3]>>
                      ELSE <<-x.row_count, id(x)[2], id(x)[3], id(x)[1]>>
        IN  Smaller(key(a), key(b)))

AllPages(order) ==
    LET Pages[n \in 0 .. LastPage(Len(order))] ==
            IF n = 0 THEN <<>> ELSE Pages[n - 1] \o PageOf(order, Clamped(n, Len(order)))
    IN  Pages[LastPage(Len(order))]

\* The pages of a list, one after the other, are the list; the operator's list,
\* in either order, holds the alerts the reader's does; and the number on the
\* fix list's tab is the number of alerts behind it.
SameLists ==
    \A t \in Teams : \A r \in ledger[t] : \A f \in Filters :
        LET all == Matching(PortalAlerts(r), f)
            listed == ReaderList(PortalAlerts(r), f)
            counts == WorklistCounts(PortalAlerts(r), f)
        IN  /\ AllPages(ReaderOrder(listed)) = ReaderOrder(listed)
            /\ \A sort \in {"events", "application"} :
                   LET shown == AllPages(OperatorOrder(Matching(Facts[r].alerts, f), sort))
                   IN  {shown[i] : i \in DOMAIN shown} = all /\ Len(shown) = Cardinality(all)
            /\ Cardinality(listed) = IF f.attention THEN counts.attention ELSE counts.all
            /\ (f.schema = "all" /\ f.state = "all" /\ f.rule = "") =>
                   counts.attention = MapThenSumSet(LAMBDA s : s.needs_attention,
                                                    PortalSchemaTotals(r))

-------------------------------------------------------------------------------
(* Requests.                                                               *)

NoPage == [status |-> "none"]
SUMMARY == <<"review", "totals", "rules", "daily", "alerts", "weeks", "week_rules">>

\* The address of the overview once held the work list: it looks for the week,
\* redirects an old link, and only then answers as the tab it is now.
Statements(tab) ==
    CASE tab = "history" -> <<"reviews">>
      [] tab = "alert" -> <<"reviews", "detail">>
      [] tab = "fix" -> <<"reviews", "count", "rows", "counts">> \o SUMMARY
      [] tab = "overview" -> <<"reviews", "reviews">> \o SUMMARY
      [] OTHER -> <<"reviews">> \o SUMMARY

\* "reviews", joined with its totals: every published week of the team.
TeamReviews(team) ==
    {[review |-> v, totals |-> PortalSchemaTotals(v.run)] :
        v \in {w \in PortalReviews : w.team = team}}

\* The week of the URL is the date it ends on; without one, the latest week.
Selected(reviews, week) ==
    {v \in reviews : IF week = Null THEN \A w \in reviews : w.review.end <= v.review.end
                     ELSE v.review.end = week}

\* What the server answers to the page's next statement.
Answer(stmt) ==
    LET run == page.selected.review.run
        team == page.selected.review.team
        listed == ReaderList(PortalAlerts(run), page.filter)
    IN  CASE stmt = "count" -> Cardinality(listed)
          [] stmt = "rows" -> PageOf(ReaderOrder(listed), Clamped(page.number, page.got["count"]))
          [] stmt = "counts" -> WorklistCounts(PortalAlerts(run), page.filter)
          [] stmt = "detail" -> {a \in PortalAlerts(run) : Identity(a) = page.alert}
          [] stmt = "review" -> {v \in PortalReviews : v.run = run /\ v.team = team}
          [] stmt = "totals" -> PortalSchemaTotals(run)
          [] stmt = "rules" -> PortalRuleTotals(run)
          [] stmt = "daily" -> PortalDailyMetrics(run)
          [] stmt = "alerts" -> PortalAlerts(run)
          [] stmt = "weeks" ->
                 HistoryWeeks(team, (CHOOSE v \in page.got["review"] : TRUE).end)
          [] stmt = "week_rules" -> HistoryRules(page.got["weeks"])

\* The request, before its first statement has run.
Open(request) ==
    /\ page = NoPage
    /\ page' = [tab |-> request.tab, team |-> request.team, week |-> request.week,
                filter |-> request.filter, number |-> request.number, alert |-> request.alert,
                status |-> "reading", at |-> 1, selected |-> Null,
                got |-> [s \in {} |-> Null], left |-> {}]
    /\ moves' = 0
    /\ UNCHANGED ledger

Finish(status) == page' = [page EXCEPT !.status = status]

\* _reviews and _week: a team or a week without a published review is not found.
ReadReviews ==
    LET reviews == TeamReviews(page.team)
        found == Selected(reviews, page.week)
    IN  /\ Statements(page.tab)[page.at] = "reviews"
        /\ IF found = {} THEN Finish("404")
           ELSE page' = [page EXCEPT !.selected = CHOOSE v \in found : TRUE, !.at = @ + 1,
                                     !.status = IF page.tab = "history" THEN "shown" ELSE @]

WithAnswer(got, stmt, answer) ==
    [s \in DOMAIN got \union {stmt} |-> IF s = stmt THEN answer ELSE got[s]]

\* An alert that is not in the week is not found; a week that is gone when its
\* summary is read makes the whole request fail, as a database error does.
ReadNext ==
    LET stmts == Statements(page.tab)
        stmt == stmts[page.at]
        answer == Answer(stmt)
    IN  /\ stmt # "reviews"
        /\ IF stmt = "detail" /\ answer = {} THEN Finish("404")
           ELSE IF stmt = "review" /\ answer = {} THEN Finish("503")
           ELSE page' = [page EXCEPT !.got = WithAnswer(@, stmt, answer), !.at = @ + 1,
                                     !.status = IF page.at = Len(stmts) THEN "shown" ELSE @]

Read ==
    /\ page.status = "reading"
    /\ ReadReviews \/ ReadNext
    /\ UNCHANGED <<ledger, moves>>

Close ==
    /\ page.status \notin {"none", "reading"}
    /\ page' = NoPage /\ moves' = 0
    /\ UNCHANGED ledger

\* An operator publishes or withdraws, whatever is being read.
Move ==
    /\ page.status = "none" \/ (page.status = "reading" /\ moves < MAX_MOVES)
    /\ \E r \in Runs : \/ \E replace, allowGap \in BOOLEAN : Publish(r, replace, allowGap)
                      \/ Withdraw(r)
    /\ IF page = NoPage THEN UNCHANGED <<page, moves>>
       ELSE /\ moves' = moves + 1
            /\ page' = [page EXCEPT
                   !.left = @ \union (PublishedRuns \ UNION {ledger'[t] : t \in Teams})]

PageInputs ==
    PortalInputs(CHOOSE v \in page.got["review"] : TRUE, page.got["totals"], page.got["rules"],
                 page.got["daily"], page.got["alerts"], page.got["weeks"],
                 page.got["week_rules"])

-------------------------------------------------------------------------------
\* Once a week is withdrawn no statement of any page reads a thing of it: not
\* an alert, a total or a day, and of no earlier week either.
ReadsOnlyPublished ==
    /\ page'.status # "none" /\ page.status = "reading"
    /\ page'.at > page.at /\ Statements(page.tab)[page.at] # "reviews"
    =>  LET stmt == Statements(page.tab)[page.at]
            answer == page'.got[stmt]
            gone == page.selected.review.run \notin PublishedRuns
        IN  CASE stmt = "count" -> gone => answer = 0
              [] stmt = "rows" -> gone => answer = <<>>
              [] stmt = "counts" -> gone => answer.all = 0
              [] stmt = "weeks" -> \A k \in DOMAIN answer : answer[k].run \in PublishedRuns
              [] stmt = "week_rules" ->
                     \A k \in DOMAIN answer :
                         page.got["weeks"][k].run \notin PublishedRuns => answer[k] = {}
              [] OTHER -> gone => answer = {}

\* A page shown of a week that stayed published says of it what an operator
\* sees, and a request fails only over a week that was withdrawn under it.
ShowsTheWeek ==
    page.status \in {"shown", "503"} =>
        LET run == page.selected.review.run
            facts == AdminSummary(run)
            listed == ReaderOrder(ReaderList(facts.alerts, page.filter))
        IN  \/ run \in page.left
            \/ /\ page.status = "shown"
               /\ page.tab = "alert" =>
                      page.got["detail"] = {a \in facts.alerts : Identity(a) = page.alert}
               /\ page.tab = "fix" =>
                      /\ page.got["rows"] = PageOf(listed, Clamped(page.number, Len(listed)))
                      /\ page.got["count"] = Len(listed)
               /\ page.tab \notin {"alert", "history"} =>
                      /\ [PageInputs EXCEPT !.history = <<>>, !.schemas = <<>>]
                             = [facts EXCEPT !.history = <<>>, !.schemas = <<>>, !.published = TRUE]
                      /\ \A s \in SCHEMAS : PageInputs.schemas[s].events = facts.schemas[s].events
                      /\ \E k \in DOMAIN page.got["weeks"] :
                             /\ page.got["weeks"][k].run = run
                             /\ k = Len(page.got["weeks"])
                             /\ page.got["week_rules"][k] = V1Rules(facts.alerts)
===============================================================================
