------------------------------ MODULE FiringFacts ------------------------------
(***************************************************************************)
(* R6 of one identity by its definition: src/rules/firing.py reads all the *)
(* rows, orders them and cuts them into episodes.                          *)
(***************************************************************************)
EXTENDS AlertRules, FiniteSetsExt, Orders

CONSTANTS
    FLAP_WINDOW,   \* R6_FLAP_WINDOW: cycles are counted inside this many ticks
    FLAP_CYCLES,   \* R6_FLAP_CYCLES
    RATE_WINDOW,   \* R6_API_RATE_WINDOW
    SPAM_ROWS,     \* R6_API_SPAM_PER_24H: rows per rate window
    MIN_SPAN,      \* R6_API_MIN_SPAN
    STUCK_OPEN     \* R6_STUCK_OPEN

ASSUME FiringAssumption ==
    {FLAP_WINDOW, FLAP_CYCLES, RATE_WINDOW, SPAM_ROWS, MIN_SPAN, STUCK_OPEN} \subseteq Nat \ {0}

\* At one instant firing rows come before clears, then the hash decides.
Before(a, b) ==
    \/ a.at < b.at
    \/ a.at = b.at /\ ~IsClear(a) /\ IsClear(b)
    \/ a.at = b.at /\ IsClear(a) = IsClear(b) /\ a.doc < b.doc

\* sorted() is stable: rows that it cannot tell apart stay as they came.
Precedes(rows, i, j) == Before(rows[i], rows[j]) \/ (~Before(rows[j], rows[i]) /\ i < j)
Ordered(rows, I) ==
    LET position == SortedBy(I, LAMBDA i, j : Precedes(rows, i, j))
    IN  [k \in DOMAIN position |-> rows[position[k]]]

CycleEnds(s) == {i \in 2 .. Len(s) : IsClear(s[i]) /\ ~IsClear(s[i - 1])}

MaxCycles(s) ==
    Max({0} \cup {Cardinality({j \in CycleEnds(s) :
                                  j <= i /\ s[i].at - s[j].at < FLAP_WINDOW}) :
                  i \in CycleEnds(s)})

\* The runs of consecutive firing rows, as pairs of first and last position.
Runs(s) ==
    {r \in (1 .. Len(s)) \X (1 .. Len(s)) :
        r[1] <= r[2] /\ \A k \in r[1] .. r[2] : ~IsClear(s[k])}

OpenStarts(s) == {i \in DOMAIN s : <<i, Len(s)>> \in Runs(s)}
OpenSince(s) == IF OpenStarts(s) = {} THEN Null ELSE s[Min(OpenStarts(s))].at

\* Flapping outranks the rest; spamming is never said of Grafana, stuck only of it.
Pattern(cycles, rows, span, openSpan, provider) ==
    IF cycles >= FLAP_CYCLES THEN "flapping"
    ELSE IF /\ provider # "grafana"
            /\ span >= MIN_SPAN
            /\ rows * RATE_WINDOW >= SPAM_ROWS * span THEN "spamming"
    ELSE IF provider = "grafana" /\ openSpan # Null /\ openSpan >= STUCK_OPEN THEN "stuck"
    ELSE Null

\* Of a sequence of rows in order.
Facts(s, provider) ==
    LET span == s[Len(s)].at - s[1].at
        since == OpenSince(s)
        openSpan == IF since = Null THEN Null ELSE s[Len(s)].at - since
    IN  [clear_count |-> Cardinality({i \in DOMAIN s : IsClear(s[i])}),
         max_cycles |-> MaxCycles(s),
         max_episode |-> Max({0} \cup {r[2] - r[1] + 1 : r \in Runs(s)}),
         open_since |-> since,
         open_span |-> openSpan,
         span |-> span,
         pattern |-> Pattern(MaxCycles(s), Len(s), span, openSpan, provider)]
===============================================================================
