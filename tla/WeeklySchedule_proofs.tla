---- MODULE WeeklySchedule_proofs ----
\* Proofs about WeeklySchedule for every week length, hold, retention, horizon and
\* set of windows: the type invariant, that an unhealthy week is published only
\* after it was held, and that the schedule skips only expired weeks.
\*
\* The two action properties hold because of what an invocation still knows when
\* it publishes: that it judged this very week (Judged), and that a gap it may
\* leave lies below every week its plan found missing (GapIsExpired).
EXTENDS WeeklySchedule, TLAPS

Judged ==
    job.phase = "publish" =>
        \A e \in Ends : Oldest(job.due, e) /\ HasProblems(e) => Overdue(e, job.now)

\* An invocation that has decided to publish has had no problem before.
Publishing == job.phase = "publish" => job.publishing

Working == job.phase \in {"run", "judge", "publish"}

GapIsExpired ==
    Working /\ job.publishing /\ job.allowGap =>
        \A f \in Ends :
            Aligned(f) /\ (\A d \in job.due : f < d) => PastRetention(f, job.now)

----------------------------------------------------------------------------
\* Whole weeks

\* Division with remainder, as TLA+ defines it.
LEMMA Division ==
    ASSUME NEW n \in Int, NEW k \in Nat \ {0}
    PROVE  /\ n \div k \in Int
           /\ n % k \in 0 .. k - 1
           /\ n = k * (n \div k) + (n % k)
  OBVIOUS

LEMMA DivisionIsUnique ==
    ASSUME NEW k \in Nat \ {0}, NEW p \in Int, NEW q \in Int,
           NEW r \in 0 .. k - 1, NEW s \in 0 .. k - 1,
           k * p + r = k * q + s
    PROVE  r = s
  <1>1. ASSUME NEW x \in Int, NEW y \in Int, x < y
        PROVE  k * x + k <= k * y
    <2>1. k * (x + 1) <= k * y
      <3>1. x + 1 <= y
        BY <1>1
      <3> QED
        BY <3>1
    <2> QED
      BY <2>1
  <1>2. ~(p < q) /\ ~(q < p)
    BY <1>1
  <1> QED
    BY <1>2

\* latest_week_end is a week boundary not after `now`.
LEMMA LatestWeekEndIsABoundary ==
    ASSUME NEW now \in Nat
    PROVE  LatestWeekEnd(now) \in 0 .. now /\ Aligned(LatestWeekEnd(now))
  <1> DEFINE m == now - (now % WeekLength)
  <1>1. m \in 0 .. now
    BY WeekLengthAssumption
  <1>2. m = WeekLength * (now \div WeekLength) /\ now \div WeekLength \in Int
    BY WeekLengthAssumption, Division
  <1>3. /\ m = WeekLength * (m \div WeekLength) + (m % WeekLength)
        /\ m \div WeekLength \in Int
        /\ m % WeekLength \in 0 .. WeekLength - 1
    BY <1>1, WeekLengthAssumption, Division
  <1>4. 0 \in 0 .. WeekLength - 1
    BY WeekLengthAssumption
  <1>5. WeekLength * (m \div WeekLength) + (m % WeekLength)
            = WeekLength * (now \div WeekLength) + 0
    BY <1>2, <1>3, WeekLengthAssumption
  <1>6. m % WeekLength = 0
    <2> HIDE DEF m
    <2> QED
      BY <1>2, <1>3, <1>4, <1>5, WeekLengthAssumption, DivisionIsUnique
  <1> QED
    BY <1>1, <1>6 DEF LatestWeekEnd, Aligned

\* Two boundaries are at least a week apart.
LEMMA BoundariesAreWeeksApart ==
    ASSUME NEW a \in Int, NEW b \in Int, Aligned(a), Aligned(b), a < b
    PROVE  a <= b - WeekLength
  <1> DEFINE x == a \div WeekLength
             y == b \div WeekLength
  <1>1. a = WeekLength * x /\ b = WeekLength * y /\ x \in Int /\ y \in Int
    BY WeekLengthAssumption, Division DEF Aligned
  <1> HIDE DEF x, y
  <1>2. x < y
    <2> SUFFICES ASSUME y <= x PROVE FALSE
      BY <1>1
    <2>1. WeekLength * y <= WeekLength * x
      BY <1>1, WeekLengthAssumption
    <2> QED
      BY <1>1, <2>1
  <1>3. WeekLength * (x + 1) <= WeekLength * y
    <2>1. x + 1 <= y
      BY <1>1, <1>2
    <2> QED
      BY <1>1, <2>1, WeekLengthAssumption
  <1> QED
    BY <1>1, <1>3, WeekLengthAssumption

----------------------------------------------------------------------------
\* Publishing without --replace adds one week, next to what is published.
LEMMA PublishAdds ==
    ASSUME TypeOK, NEW e \in Ends, NEW allowGap \in BOOLEAN,
           Store!Publish(e, FALSE, allowGap)
    PROVE  /\ ledger' \in [{Team} -> SUBSET Ends]
           /\ ledger'[Team] = Published \union {e}
           /\ \A p \in Published : p <= e - WeekLength \/ p >= e + WeekLength
           /\ ~allowGap /\ (\E p \in Published : p <= e - WeekLength)
              => e - WeekLength \in Published
  <1> DEFINE window(r) == [run |-> r, start |-> r - WeekLength, end |-> r]
             current == {window(r) : r \in Published}
  <1>1. Published \subseteq Ends /\ Ends \subseteq Int
    BY ScheduleAssumption DEF TypeOK, Published
  <1>2. \A r \in Ends : Store!WeekOf(r) = window(r)
    BY DEF Store!WeekOf
  <1>3. Store!Weeks(Team) = current
    BY <1>1, <1>2 DEF Store!Weeks, Published
  <1>4. /\ ledger' = [ledger EXCEPT ![Team] =
               {q \in @ : ~Store!SameWindow(Store!WeekOf(q), Store!WeekOf(e))} \union {e}]
        /\ Store!Accepts(window(e), current, FALSE, allowGap)
    BY <1>2, <1>3 DEF Store!Publish
  <1>5. \A q \in Published : ~Store!SameWindow(window(q), window(e))
    BY <1>1, <1>4 DEF Store!Accepts, Store!SameWeek
  <1>6. ledger'[Team] = Published \union {e} /\ ledger' \in [{Team} -> SUBSET Ends]
    BY <1>1, <1>2, <1>4, <1>5 DEF TypeOK, Published
  <1>7. \A q \in Published : ~Store!Overlaps(window(e), window(q))
    BY <1>1, <1>4, <1>5 DEF Store!Accepts, Store!SameWeek
  <1>8. \A p \in Published : p <= e - WeekLength \/ p >= e + WeekLength
    BY <1>1, <1>7, WeekLengthAssumption DEF Store!Overlaps
  <1>9. ASSUME ~allowGap, NEW p \in Published, p <= e - WeekLength
        PROVE  e - WeekLength \in Published
    <2>1. Store!LeavesNoGap(window(e), current)
      BY <1>4, <1>9 DEF Store!Accepts
    <2>2. window(p) \in current /\ window(p).end <= window(e).start
      BY <1>9
    <2>3. PICK w \in current : w.end = window(e).start
      BY <2>1, <2>2 DEF Store!LeavesNoGap
    <2> QED
      BY <2>3
  <1> QED
    BY <1>6, <1>8, <1>9

----------------------------------------------------------------------------
\* The invariant

IInv == TypeOK /\ Publishing /\ GapIsExpired

JobType ==
    [phase : {"off", "run", "judge", "publish", "log"},
     now : 0 .. MaxTime, due : SUBSET {e \in Ends : Aligned(e)},
     allowGap : BOOLEAN, publishing : BOOLEAN, held : SUBSET Ends]

\* What leaving a week behind does to the job.
LEMMA ProceedMoves ==
    ASSUME TypeOK, NEW e \in Ends, NEW publishing \in BOOLEAN,
           NEW allowGap \in BOOLEAN, NEW held \in SUBSET Ends, e \in job.due,
           held \intersect job.due \subseteq {e},
           Proceed(e, publishing, allowGap, held)
    PROVE  /\ job' \in JobType
           /\ job'.now = job.now
           /\ job'.held \intersect job'.due = {}
           /\ job'.publishing = publishing /\ job'.allowGap = allowGap
           /\ job'.phase \in {"run", "log"}
           /\ job' # job
  <1>1. job \in JobType
    BY DEF TypeOK, JobType
  <1>2. job' = [phase |-> IF job.due \ {e} = {} THEN "log" ELSE "run", now |-> job.now,
                due |-> job.due \ {e}, allowGap |-> allowGap,
                publishing |-> publishing, held |-> held]
    BY DEF Proceed
  <1>3. job'.due # job.due
    BY <1>2
  <1> QED
    BY <1>1, <1>2, <1>3 DEF JobType

LEMMA InitInv == Init => IInv
  <1> SUFFICES ASSUME Init PROVE IInv
    OBVIOUS
  <1>1. Off \in JobType /\ Off.now = 0 /\ Off.held = {} /\ Off.phase = "off"
    BY ScheduleAssumption DEF Off, JobType
  <1>2. TypeOK
    <2>1. clock \in 0 .. MaxTime /\ clock = 0
      BY ScheduleAssumption DEF Init
    <2>2. ledger \in [{Team} -> SUBSET Ends]
      BY ScheduleAssumption DEF Init
    <2>3. /\ stored \in [Ends -> {"none", "healthy", "unhealthy"}]
          /\ firstHeld \in [Ends -> 0 .. Never]
      BY ScheduleAssumption DEF Init, Never
    <2> QED
      BY <1>1, <2>1, <2>2, <2>3 DEF Init, TypeOK, JobType
  <1>3. GapIsExpired
    BY <1>1 DEF Init, GapIsExpired, Working
  <1>4. Publishing
    BY <1>1 DEF Init, Publishing
  <1> QED
    BY <1>2, <1>3, <1>4 DEF IInv

\* The plan: every week below the oldest due one is expired when a gap is allowed.
LEMMA StartInv ==
    ASSUME IInv, Start
    PROVE  IInv'
  <1>1. /\ job' = [phase |-> "run", now |-> clock, due |-> Due(clock),
                   allowGap |-> Expired(clock) # {}, publishing |-> TRUE, held |-> {}]
        /\ UNCHANGED <<clock, ledger, stored, firstHeld>>
        /\ Due(clock) # {}
        /\ TypeOK
    BY DEF Start, IInv
  <1>2. clock \in 0 .. MaxTime /\ clock \in Nat /\ Ends \subseteq Int /\ WeekLength \in Int
        /\ RetentionTicks \in Int /\ Published \subseteq Ends
    BY <1>1, ScheduleAssumption, WeekLengthAssumption DEF TypeOK, Published
  <1>3. LatestWeekEnd(clock) \in 0 .. clock /\ Aligned(LatestWeekEnd(clock))
    BY <1>2, LatestWeekEndIsABoundary
  <1>4. LatestWeekEnd(clock) \in Ends
    BY <1>2, <1>3, ScheduleAssumption
  <1>5. Due(clock) \subseteq {e \in Ends : Aligned(e)}
    BY <1>3, <1>4 DEF Due, Missing
  <1>6. TypeOK'
    BY <1>1, <1>2, <1>5 DEF TypeOK
  <1>7. ASSUME Expired(clock) # {}, NEW f \in Ends, Aligned(f),
               \A d \in Due(clock) : f < d
        PROVE  PastRetention(f, clock)
    <2> SUFFICES ASSUME ~PastRetention(f, clock) PROVE FALSE
      OBVIOUS
    <2>1. PICK g \in Missing(clock) : PastRetention(g, clock)
      BY <1>7 DEF Expired
    <2>2. Due(clock) = {e \in Missing(clock) : ~PastRetention(e, clock)}
      BY <1>7 DEF Due, Expired
    <2>3. g < f
      BY <1>2, <2>1 DEF PastRetention, Missing
    <2>4. \A p \in Published : p < f
      BY <1>2, <2>1, <2>3 DEF Missing
    <2>5. PICK d \in Due(clock) : f < d
      BY <1>1, <1>7
    <2>6. f <= LatestWeekEnd(clock)
      <3>1. d \in Int /\ d <= LatestWeekEnd(clock)
        BY <1>2, <2>2 DEF Missing
      <3>2. f \in Int /\ LatestWeekEnd(clock) \in Int
        BY <1>2, <1>3
      <3> QED
        BY <2>5, <3>1, <3>2
    <2>7. f \in Due(clock)
      BY <1>7, <2>2, <2>4, <2>6 DEF Missing
    <2> QED
      BY <1>2, <1>7, <2>7
  <1>8. GapIsExpired'
    BY <1>1, <1>7 DEF GapIsExpired, PastRetention
  <1>9. Publishing'
    BY <1>1 DEF Publishing
  <1> QED
    BY <1>6, <1>8, <1>9 DEF IInv

\* A week the invocation leaves behind without publishing it holds back the rest.
LEMMA LeftBehindInv ==
    ASSUME IInv, NEW e \in Ends, Oldest(job.due, e), NEW held \in SUBSET Ends,
           held \intersect job.due \subseteq {e},
           Proceed(e, FALSE, job.allowGap, held),
           UNCHANGED <<clock, ledger, firstHeld>>,
           stored' \in [Ends -> {"none", "healthy", "unhealthy"}]
    PROVE  IInv'
  <1>1. TypeOK /\ e \in job.due /\ job.allowGap \in BOOLEAN
    BY DEF IInv, TypeOK, Oldest
  <1>2. /\ job' \in JobType
        /\ job'.now = job.now
        /\ job'.held \intersect job'.due = {}
        /\ job'.publishing = FALSE
        /\ job'.phase # "publish"
    BY <1>1, ProceedMoves
  <1>3. TypeOK'
    BY <1>1, <1>2 DEF TypeOK, JobType
  <1>4. GapIsExpired'
    BY <1>2 DEF GapIsExpired
  <1> QED
    BY <1>2, <1>3, <1>4 DEF IInv, Publishing

LEMMA PublishWeekInv ==
    ASSUME IInv, NEW e \in Ends, PublishWeek(e)
    PROVE  IInv'
  <1>1. /\ TypeOK /\ e \in job.due /\ job.allowGap \in BOOLEAN
        /\ job.held \in SUBSET Ends /\ job.held \intersect job.due = {}
        /\ Store!Publish(e, FALSE, job.allowGap)
        /\ Proceed(e, TRUE, FALSE, job.held)
        /\ UNCHANGED <<clock, stored, firstHeld>>
    BY DEF IInv, TypeOK, PublishWeek, Oldest
  <1>2. /\ job' \in JobType
        /\ job'.now = job.now
        /\ job'.held \intersect job'.due = {}
        /\ job'.allowGap = FALSE
        /\ job'.phase # "publish"
    BY <1>1, ProceedMoves
  <1>3. ledger' \in [{Team} -> SUBSET Ends]
    BY <1>1, PublishAdds
  <1>4. TypeOK'
    BY <1>1, <1>2, <1>3 DEF TypeOK, JobType
  <1>5. GapIsExpired'
    BY <1>2 DEF GapIsExpired
  <1> QED
    BY <1>2, <1>4, <1>5 DEF IInv, Publishing

LEMMA WorkInv ==
    ASSUME IInv, NEW e \in Ends, Work(e)
    PROVE  IInv'
  <1>1. /\ TypeOK /\ job \in JobType
        /\ job.held \in SUBSET Ends /\ job.held \intersect job.due = {}
    BY DEF IInv, TypeOK, JobType
  <1>2. CASE RunWeek(e) \/ Pass(e)
    <2>1. /\ \E p \in {"judge", "publish"} : job' = [job EXCEPT !.phase = p]
          /\ Working
          /\ stored' \in [Ends -> {"none", "healthy", "unhealthy"}]
          /\ UNCHANGED <<clock, ledger, firstHeld>>
      BY <1>1, <1>2 DEF RunWeek, Pass, Working, TypeOK
    <2>2. TypeOK'
      BY <1>1, <2>1 DEF TypeOK, JobType
    <2>3. GapIsExpired'
      BY <1>1, <2>1 DEF IInv, GapIsExpired, PastRetention, JobType
    <2>4. Publishing'
      BY <1>1, <1>2 DEF RunWeek, Pass, Publishing, JobType
    <2> QED
      BY <2>2, <2>3, <2>4 DEF IInv
  <1>3. CASE RunWeekFails(e) \/ PublishWeekFails(e)
    <2>1. /\ Oldest(job.due, e)
          /\ Proceed(e, FALSE, job.allowGap, job.held)
          /\ stored' \in [Ends -> {"none", "healthy", "unhealthy"}]
          /\ UNCHANGED <<clock, ledger, firstHeld>>
      BY <1>1, <1>3 DEF RunWeekFails, PublishWeekFails, Fail, TypeOK
    <2> QED
      BY <1>1, <2>1, LeftBehindInv
  <1>4. CASE Hold(e)
    <2>1. job.held \union {e} \in SUBSET Ends
          /\ (job.held \union {e}) \intersect job.due \subseteq {e}
      BY <1>1
    <2>2. stored' \in [Ends -> {"none", "healthy", "unhealthy"}]
      BY <1>1, <1>4 DEF Hold, TypeOK
    <2> QED
      BY <1>4, <2>1, <2>2, LeftBehindInv DEF Hold
  <1>5. CASE Keep(e)
    <2>1. stored' \in [Ends -> {"none", "healthy", "unhealthy"}]
      BY <1>1, <1>5 DEF Keep, TypeOK
    <2> QED
      BY <1>1, <1>5, <2>1, LeftBehindInv DEF Keep
  <1>6. CASE PublishWeek(e)
    BY <1>6, PublishWeekInv
  <1>7. CASE LogHeld(e)
    <2>1. /\ job' = [job EXCEPT !.held = @ \ {e}]
          /\ job.phase = "log"
          /\ firstHeld' = [firstHeld EXCEPT ![e] = FirstHeld(e)]
          /\ UNCHANGED <<clock, ledger, stored>>
      BY <1>7 DEF LogHeld
    <2>2. FirstHeld(e) \in 0 .. Never
      BY <1>1, ScheduleAssumption DEF FirstHeld, TypeOK, JobType, Never
    <2>3. TypeOK'
      BY <1>1, <2>1, <2>2 DEF TypeOK, JobType
    <2>4. GapIsExpired'
      BY <1>1, <2>1 DEF GapIsExpired, Working, JobType
    <2>5. Publishing'
      BY <1>1, <2>1 DEF Publishing, JobType
    <2> QED
      BY <2>3, <2>4, <2>5 DEF IInv
  <1> QED
    BY <1>2, <1>3, <1>4, <1>5, <1>6, <1>7 DEF Work

LEMMA NextInv == IInv /\ [Next]_vars => IInv'
  <1> SUFFICES ASSUME IInv, [Next]_vars PROVE IInv'
    OBVIOUS
  <1>1. TypeOK
    BY DEF IInv
  <1>2. CASE UNCHANGED vars
    BY <1>2 DEF vars, IInv, TypeOK, Publishing, GapIsExpired, Working, PastRetention
  <1>3. CASE Tick
    <2>1. TypeOK'
      BY <1>1, <1>3, ScheduleAssumption DEF Tick, TypeOK
    <2> QED
      BY <1>3, <2>1 DEF Tick, IInv, Publishing, GapIsExpired, Working, PastRetention
  <1>4. CASE Start
    BY <1>4, StartInv
  <1>5. CASE Release \/ Crash
    <2>1. job' = Off /\ UNCHANGED <<clock, ledger, stored, firstHeld>>
      BY <1>5 DEF Release, Crash
    <2>2. Off \in JobType /\ Off.now = 0 /\ Off.held = {} /\ Off.phase = "off"
      BY ScheduleAssumption DEF Off, JobType
    <2>3. TypeOK'
      BY <1>1, <2>1, <2>2 DEF TypeOK, JobType
    <2> QED
      BY <2>1, <2>2, <2>3 DEF IInv, Publishing, GapIsExpired, Working
  <1>6. ASSUME NEW e \in Ends, Work(e)
        PROVE  IInv'
    BY <1>6, WorkInv
  <1>7. ASSUME NEW e \in Ends, OperatorRun(e) \/ OperatorPublish(e) \/ OperatorWithdraw(e)
        PROVE  IInv'
    <2>1. ledger' \in [{Team} -> SUBSET Ends]
      <3>1. CASE OperatorRun(e)
        BY <1>1, <3>1 DEF OperatorRun, TypeOK
      <3>2. CASE OperatorPublish(e)
        BY <1>1, <3>2, PublishAdds DEF OperatorPublish
      <3>3. CASE OperatorWithdraw(e)
        BY <1>1, <3>3 DEF OperatorWithdraw, Store!Withdraw, TypeOK
      <3> QED
        BY <1>7, <3>1, <3>2, <3>3
    <2>2. /\ stored' \in [Ends -> {"none", "healthy", "unhealthy"}]
          /\ UNCHANGED <<clock, firstHeld, job>>
      BY <1>1, <1>7 DEF OperatorRun, OperatorPublish, OperatorWithdraw, TypeOK
    <2>3. TypeOK'
      BY <1>1, <2>1, <2>2 DEF TypeOK
    <2> QED
      BY <2>2, <2>3 DEF IInv, Publishing, GapIsExpired, Working, PastRetention
  <1> QED
    BY <1>2, <1>3, <1>4, <1>5, <1>6, <1>7 DEF Next

LEMMA Inductive == Spec => []IInv
  BY InitInv, NextInv, PTL DEF Spec

\* Every variable keeps its type.
THEOREM TypeCorrect == Spec => []TypeOK
  BY Inductive, PTL DEF IInv

----------------------------------------------------------------------------
\* What the schedule publishes

\* Only PublishWeek adds to the ledger and moves the job.
LEMMA ScheduleStep ==
    ASSUME IInv, Next, NEW e \in Ends, SchedulePublishes(e)
    PROVE  /\ PublishWeek(e)
           /\ Working /\ Oldest(job.due, e)
           /\ job.now \in Int /\ clock \in Int /\ job.now <= clock
           /\ ledger'[Team] = Published \union {e}
  <1>1. PICK x \in Ends : PublishWeek(x)
    BY DEF Next, SchedulePublishes, Published, Tick, Start, Release, Crash, Work, RunWeek,
           RunWeekFails, Hold, Keep, Pass, PublishWeekFails, LogHeld, OperatorRun,
           OperatorPublish, OperatorWithdraw
  <1>2. ledger'[Team] = Published \union {x}
    BY <1>1, PublishAdds DEF IInv, TypeOK, PublishWeek
  <1>3. x = e
    BY <1>2 DEF SchedulePublishes
  <1>4. job.now \in Int /\ clock \in Int /\ job.now <= clock
    BY ScheduleAssumption DEF IInv, TypeOK
  <1> QED
    BY <1>1, <1>2, <1>3, <1>4 DEF PublishWeek, Working

\* Whatever operators do meanwhile and wherever invocations fail, the schedule
\* leaves unpublished below a week it publishes only weeks past retention.
THEOREM SkipsOnlyExpired == Spec => HolesAreExpired
  <1>1. ASSUME IInv, Next, NEW e \in Ends, NEW latest \in Ends, NEW f \in Ends,
               SchedulePublishes(e), Latest(Published, latest),
               Aligned(f), latest < f, f < e
        PROVE  PastRetention(f, job.now)
    <2>1. /\ PublishWeek(e) /\ Working /\ Oldest(job.due, e)
      BY <1>1, ScheduleStep
    <2>2. /\ TypeOK /\ e \in job.due /\ Aligned(e)
          /\ job.allowGap \in BOOLEAN /\ WeekLength \in Nat \ {0}
          /\ e \in Int /\ latest \in Int /\ f \in Int
      BY <1>1, <2>1, ScheduleAssumption, WeekLengthAssumption DEF IInv, TypeOK, Oldest
    <2>3. CASE job.allowGap
      <3>1. job.publishing
        BY <2>1, <1>1 DEF IInv, Publishing, PublishWeek
      <3>2. \A d \in job.due : f < d
        <4>1. \A d \in job.due : d \in Int /\ e <= d
          BY <2>1, <2>2, ScheduleAssumption DEF Oldest, TypeOK
        <4> QED
          BY <1>1, <2>2, <4>1
      <3> QED
        BY <1>1, <2>1, <2>3, <3>1, <3>2 DEF IInv, GapIsExpired
    <2>4. CASE ~job.allowGap
      <3>1. /\ \A p \in Published : p <= e - WeekLength \/ p >= e + WeekLength
            /\ (\E p \in Published : p <= e - WeekLength) => e - WeekLength \in Published
        BY <2>1, <2>2, <2>4, PublishAdds DEF PublishWeek
      <3>2. latest \in Published /\ \A p \in Published : latest >= p
        BY <1>1 DEF Latest
      <3>3. latest <= e - WeekLength
        BY <1>1, <2>2, <3>1, <3>2
      <3>4. latest >= e - WeekLength
        BY <3>1, <3>2, <3>3
      <3>5. f <= e - WeekLength
        BY <1>1, <2>2, BoundariesAreWeeksApart
      <3> QED
        BY <1>1, <2>2, <3>3, <3>4, <3>5
    <2> QED
      BY <2>2, <2>3, <2>4
  <1>2. IInv /\ [Next]_vars =>
            [\A e, latest, f \in Ends :
                /\ SchedulePublishes(e)
                /\ Latest(Published, latest)
                /\ Aligned(f) /\ latest < f /\ f < e
                => PastRetention(f, job.now)]_vars
    BY <1>1
  <1> QED
    BY <1>2, Inductive, PTL DEF Spec, HolesAreExpired

\* As long as nobody re-runs weeks by hand, a week the schedule publishes is still
\* the week it judged: healthy, or held for HOLD_DAYS.
THEOREM HeldFirst ==
    ASSUME "run" \notin OperatorMay
    PROVE  Spec => UnhealthyIsHeldFirst
  <1>1. Init => Judged
    BY DEF Init, Off, Judged
  <1>2. IInv /\ Judged /\ [Next]_vars => Judged'
    <2> SUFFICES ASSUME IInv, Judged, [Next]_vars PROVE Judged'
      OBVIOUS
    <2>1. TypeOK /\ job \in JobType
      BY DEF IInv, TypeOK, JobType
    <2>2. CASE UNCHANGED <<stored, firstHeld, job>>
      BY <2>2 DEF Judged, HasProblems, Overdue
    <2>3. CASE job'.phase # "publish"
      BY <2>3 DEF Judged
    <2>4. ASSUME NEW e \in Ends, Pass(e)
          PROVE  Judged'
      <3>1. /\ Oldest(job.due, e) /\ (HasProblems(e) => Overdue(e, job.now))
            /\ job' = [job EXCEPT !.phase = "publish"]
            /\ UNCHANGED <<stored, firstHeld>>
        BY <2>4 DEF Pass
      <3>2. job'.due = job.due /\ job'.now = job.now
        BY <2>1, <3>1 DEF JobType
      <3>3. \A x \in Ends : Oldest(job.due, x) => x = e
        BY <3>1, ScheduleAssumption DEF Oldest
      <3> QED
        BY <3>1, <3>2, <3>3 DEF Judged, Oldest, HasProblems, Overdue
    <2>5. ASSUME NEW e \in Ends, Work(e), ~Pass(e)
          PROVE  job'.phase # "publish"
      <3>1. CASE RunWeek(e) \/ LogHeld(e)
        <4>1. \/ job' = [job EXCEPT !.phase = "judge"]
              \/ job' = [job EXCEPT !.held = @ \ {e}] /\ job.phase = "log"
          BY <3>1 DEF RunWeek, LogHeld
        <4> QED
          BY <2>1, <4>1 DEF JobType
      <3>2. CASE ~RunWeek(e) /\ ~LogHeld(e)
        <4>1. PICK publishing, allowGap, held : Proceed(e, publishing, allowGap, held)
          BY <2>5, <3>2 DEF Work, RunWeekFails, Hold, Keep, PublishWeek, PublishWeekFails,
                            Fail
        <4> QED
          BY <4>1 DEF Proceed
      <3> QED
        BY <3>1, <3>2
    <2>6. CASE Start \/ Release \/ Crash
      <3>1. job'.phase # "publish"
        BY <2>6 DEF Start, Release, Crash, Off
      <3> QED
        BY <2>3, <3>1
    <2>7. CASE \/ UNCHANGED vars \/ Tick
               \/ \E e \in Ends :
                      OperatorRun(e) \/ OperatorPublish(e) \/ OperatorWithdraw(e)
      <3>1. UNCHANGED <<stored, firstHeld, job>>
        BY <2>7 DEF vars, Tick, OperatorRun, OperatorPublish, OperatorWithdraw
      <3> QED
        BY <2>2, <3>1
    <2> QED
      BY <2>3, <2>4, <2>5, <2>6, <2>7 DEF Next
  <1>3. Spec => []Judged
    BY <1>1, <1>2, Inductive, PTL DEF Spec
  <1>4. ASSUME IInv, Judged, Next, NEW e \in Ends,
               SchedulePublishes(e), stored[e] # "healthy"
        PROVE  clock - firstHeld[e] >= HoldTicks
    <2>1. /\ PublishWeek(e) /\ Oldest(job.due, e)
          /\ job.now \in Int /\ clock \in Int /\ job.now <= clock
      BY <1>4, ScheduleStep
    <2>2. job.now - firstHeld[e] >= HoldTicks
      BY <1>4, <2>1 DEF Judged, PublishWeek, HasProblems, Overdue
    <2>3. firstHeld[e] \in Int /\ HoldTicks \in Int
      BY <1>4, ScheduleAssumption DEF IInv, TypeOK, Never
    <2> QED
      BY <2>1, <2>2, <2>3
  <1>5. IInv /\ Judged /\ [Next]_vars =>
            [\A e \in Ends :
                SchedulePublishes(e) /\ stored[e] # "healthy"
                => clock - firstHeld[e] >= HoldTicks]_vars
    BY <1>4
  <1> QED
    BY <1>3, <1>5, Inductive, PTL DEF Spec, UnhealthyIsHeldFirst

====
