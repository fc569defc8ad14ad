---- MODULE ReviewStore_proofs ----
\* Proofs about ReviewStore for every set of runs, teams and sessions: the type
\* invariant, that published weeks never overlap, and that the published weeks
\* are a WeekLedger.
\*
\* The strengthening that makes WeeksNeverOverlap inductive says what the locks
\* buy: a verdict reached under the key-range lock is still right when the
\* transaction commits (VerdictHolds), because no second publisher and no
\* withdrawal of that team is under way (PublisherIsAlone), and a withdrawal that
\* has found its row still finds it there (FoundIsCurrent).
EXTENDS ReviewStore, SequenceTheorems, TLAPS

PublisherIsAlone ==
    \A s \in Sessions : session[s].step = "accepted" =>
        \A q \in Sessions : q # s =>
            /\ ~LocksTeamWeeks(q, RunTeam[session[s].run])
            /\ \A r \in Runs :
                   RunTeam[r] = RunTeam[session[s].run] => ~LocksWeek(q, r)

VerdictHolds ==
    \A s \in Sessions : session[s].step = "accepted" =>
        Accepts(WeekOf(session[s].run), CurrentWeeks(RunTeam[session[s].run]),
                session[s].replace, session[s].allowGap)

FoundIsCurrent ==
    \A s \in Sessions : session[s].step = "found" =>
        /\ IsPublished(session[s].run)
        /\ \A q \in Sessions : q # s => ~LocksWeek(q, session[s].run)

\* A busy session works on a run.
BusyOnARun == \A s \in Sessions : session[s].step # "idle" => session[s].run \in Runs

IInv ==
    /\ TypeOK
    /\ BusyOnARun
    /\ PublisherIsAlone
    /\ VerdictHolds
    /\ FoundIsCurrent
    /\ WeeksNeverOverlap

Row == [run : Runs, withdrawn : BOOLEAN]

----------------------------------------------------------------------------
\* What the two committing transactions do to the rows

\* Withdrawing keeps every row in place and marks the rows of the given runs.
LEMMA WithdrawnRows ==
    ASSUME TypeOK, NEW runs
    PROVE  /\ Withdrawn(runs) \in Seq(Row)
           /\ Len(Withdrawn(runs)) = Len(publications)
           /\ DOMAIN Withdrawn(runs) = DOMAIN publications
           /\ \A i \in DOMAIN publications :
                  /\ publications[i] \in Row
                  /\ Withdrawn(runs)[i].run = publications[i].run
                  /\ Withdrawn(runs)[i].withdrawn =
                         (publications[i].withdrawn \/ publications[i].run \in runs)
  <1>1. publications \in Seq(Row)
    BY DEF TypeOK, Row
  <1>2. /\ Len(publications) \in Nat
        /\ DOMAIN publications = 1 .. Len(publications)
        /\ \A i \in DOMAIN publications : publications[i] \in Row
    BY <1>1, LenProperties, ElementOfSeq
  <1>3. DOMAIN Withdrawn(runs) = 1 .. Len(publications)
    BY <1>2 DEF Withdrawn
  <1>4. \A i \in DOMAIN publications :
            /\ Withdrawn(runs)[i] \in Row
            /\ Withdrawn(runs)[i].run = publications[i].run
            /\ Withdrawn(runs)[i].withdrawn =
                   (publications[i].withdrawn \/ publications[i].run \in runs)
    BY <1>2 DEF Withdrawn, Row
  <1>5. Withdrawn(runs) \in [1 .. Len(publications) -> Row]
    BY <1>2, <1>3, <1>4 DEF Withdrawn
  <1>6. Withdrawn(runs) \in Seq(Row)
    BY <1>2, <1>5, SeqDef
  <1>7. Len(Withdrawn(runs)) = Len(publications)
    BY <1>2, <1>3, <1>6, LenProperties
  <1> QED
    BY <1>2, <1>3, <1>4, <1>6, <1>7

\* Unpublishing takes exactly the run out of what readers see.
LEMMA PublishedAfterUnpublishing ==
    ASSUME TypeOK, NEW r \in Runs, publications' = RowsAfterUnpublishing(r)
    PROVE  /\ publications' \in Seq(Row)
           /\ DOMAIN publications' = DOMAIN publications
           /\ \A i \in DOMAIN publications :
                  /\ publications'[i].run = publications[i].run
                  /\ publications'[i].withdrawn =
                         (publications[i].withdrawn \/ publications[i].run = r)
           /\ \A q \in Runs : IsPublished(q)' <=> IsPublished(q) /\ q # r
  <1> DEFINE rows == Withdrawn({r})
  <1>1. publications' = rows
    BY DEF RowsAfterUnpublishing
  <1>2. /\ rows \in Seq(Row)
        /\ DOMAIN rows = DOMAIN publications
        /\ \A i \in DOMAIN publications :
               /\ publications[i] \in Row
               /\ rows[i].run = publications[i].run
               /\ rows[i].withdrawn =
                      (publications[i].withdrawn \/ publications[i].run \in {r})
    BY WithdrawnRows
  <1> HIDE DEF rows
  <1>a. \A i \in DOMAIN publications : publications[i].withdrawn \in BOOLEAN
    BY <1>2 DEF Row
  <1>3. ASSUME NEW q \in Runs
        PROVE  IsPublished(q)' <=> IsPublished(q) /\ q # r
    <2>1. IsPublished(q)' <=>
              \E i \in DOMAIN publications :
                  ~publications'[i].withdrawn /\ publications'[i].run = q
      BY <1>1, <1>2 DEF IsPublished, Current
    <2>2. IsPublished(q) <=>
              \E i \in DOMAIN publications :
                  ~publications[i].withdrawn /\ publications[i].run = q
      BY DEF IsPublished, Current
    <2>3. \A i \in DOMAIN publications :
              /\ publications'[i].run = publications[i].run
              /\ ~publications'[i].withdrawn <=>
                     ~publications[i].withdrawn /\ publications[i].run # r
      BY <1>1, <1>2, <1>a
    <2> QED
      BY <2>1, <2>2, <2>3
  <1>4. \A i \in DOMAIN publications :
            publications'[i].withdrawn =
                (publications[i].withdrawn \/ publications[i].run = r)
    BY <1>1, <1>2, <1>a
  <1> QED
    BY <1>1, <1>2, <1>3, <1>4

\* The runs a publication of r replaces.
Replaced(r) == {q \in CurrentRuns(RunTeam[r]) : SameWindow(WeekOf(q), WeekOf(r))}

\* Publishing adds a row for the run at the end and takes the runs it replaces
\* out of what readers see.
LEMMA PublishedAfterPublishing ==
    ASSUME TypeOK, NEW r \in Runs, publications' = RowsAfterPublishing(r)
    PROVE  /\ publications' \in Seq(Row)
           /\ DOMAIN publications' = 1 .. Len(publications) + 1
           /\ DOMAIN publications = 1 .. Len(publications)
           /\ Len(publications) \in Nat
           /\ publications'[Len(publications) + 1] = NewRow(r)
           /\ \A i \in DOMAIN publications :
                  /\ publications'[i].run = publications[i].run
                  /\ publications'[i].withdrawn =
                         (publications[i].withdrawn \/ publications[i].run \in Replaced(r))
           /\ \A q \in Runs :
                  IsPublished(q)' <=> q = r \/ (IsPublished(q) /\ q \notin Replaced(r))
  <1> DEFINE kept == Withdrawn(Replaced(r))
             n    == Len(publications)
  <1>1. publications' = Append(kept, NewRow(r))
    BY DEF RowsAfterPublishing, Replaced
  <1>2. /\ kept \in Seq(Row)
        /\ Len(kept) = n
        /\ n \in Nat
        /\ DOMAIN publications = 1 .. n
        /\ \A i \in DOMAIN publications :
               /\ publications[i] \in Row
               /\ kept[i].run = publications[i].run
               /\ kept[i].withdrawn =
                      (publications[i].withdrawn \/ publications[i].run \in Replaced(r))
    <2>1. publications \in Seq(Row)
      BY DEF TypeOK, Row
    <2> QED
      BY <2>1, WithdrawnRows, LenProperties
  <1> HIDE DEF kept
  <1>3. NewRow(r) \in Row
    BY DEF NewRow, Row
  <1>4. /\ publications' \in Seq(Row)
        /\ Len(publications') = n + 1
        /\ \A i \in 1 .. n : publications'[i] = kept[i]
        /\ publications'[n + 1] = NewRow(r)
    BY <1>1, <1>2, <1>3, AppendProperties
  <1>5. DOMAIN publications' = 1 .. n + 1
    BY <1>4, LenProperties
  <1>6. \A i \in DOMAIN publications :
            /\ publications'[i].run = publications[i].run
            /\ publications'[i].withdrawn =
                   (publications[i].withdrawn \/ publications[i].run \in Replaced(r))
    BY <1>2, <1>4
  <1>7. ASSUME NEW q \in Runs
        PROVE  IsPublished(q)' <=> q = r \/ (IsPublished(q) /\ q \notin Replaced(r))
    <2>1. IsPublished(q)' <=>
              \E i \in 1 .. n + 1 :
                  ~publications'[i].withdrawn /\ publications'[i].run = q
      BY <1>5 DEF IsPublished, Current
    <2>2. IsPublished(q) <=>
              \E i \in 1 .. n : ~publications[i].withdrawn /\ publications[i].run = q
      BY <1>2 DEF IsPublished, Current
    <2>3. /\ publications'[n + 1].run = r
          /\ publications'[n + 1].withdrawn = FALSE
      BY <1>4 DEF NewRow
    <2>4. \A i \in 1 .. n : publications[i].withdrawn \in BOOLEAN
      BY <1>2 DEF Row
    <2>5. \A i \in 1 .. n + 1 : i \in 1 .. n \/ i = n + 1
      BY <1>2
    <2>6. /\ n + 1 \in 1 .. n + 1
          /\ \A i \in 1 .. n : i \in 1 .. n + 1
      BY <1>2
    <2> QED
      BY <1>2, <1>6, <2>1, <2>2, <2>3, <2>4, <2>5, <2>6
  <1> QED
    BY <1>2, <1>4, <1>5, <1>6, <1>7

----------------------------------------------------------------------------
\* The session variable

Steps == {"idle", "runLocked", "accepted", "found", "unpublishedSeen",
          "publishedSeen"}

Work == [step : Steps, run : Runs \union {NoRun}, replace : BOOLEAN, allowGap : BOOLEAN]

\* A session moves alone.
LEMMA GotoMoves ==
    ASSUME TypeOK, NEW s \in Sessions, NEW step \in Steps, NEW r \in Runs,
           NEW replace \in BOOLEAN, NEW allowGap \in BOOLEAN,
           Goto(s, step, r, replace, allowGap)
    PROVE  /\ session' \in [Sessions -> Work]
           /\ session'[s].step = step /\ session'[s].run = r
           /\ session'[s].replace = replace /\ session'[s].allowGap = allowGap
           /\ \A q \in Sessions : q # s => session'[q] = session[q]
  BY DEF TypeOK, Goto, Work, Steps

LEMMA EndMoves ==
    ASSUME TypeOK, NEW s \in Sessions, End(s)
    PROVE  /\ session' \in [Sessions -> Work]
           /\ session'[s].step = "idle"
           /\ \A q \in Sessions : q # s => session'[q] = session[q]
  BY DEF TypeOK, End, Idle, Work, Steps

\* What the other conjuncts of the invariant need of a step that touches no row:
\* the session it moves ends outside the two steps the locks are about.
LEMMA QuietStep ==
    ASSUME BusyOnARun, PublisherIsAlone, VerdictHolds, FoundIsCurrent,
           WeeksNeverOverlap,
           publications' = publications,
           NEW s \in Sessions,
           \A q \in Sessions : q # s => session'[q] = session[q],
           session'[s].step \notin {"accepted", "found"},
           session'[s].step # "idle" => session'[s].run \in Runs
    PROVE  (BusyOnARun /\ PublisherIsAlone /\ VerdictHolds /\ FoundIsCurrent
               /\ WeeksNeverOverlap)'
  <1>1. BusyOnARun'
    BY DEF BusyOnARun
  <1>2. \A q \in Sessions :
            session'[q].step \in {"accepted", "found"} => session'[q] = session[q]
    OBVIOUS
  <1>3. PublisherIsAlone'
    BY <1>2 DEF PublisherIsAlone, LocksTeamWeeks, LocksWeek
  <1>4. /\ \A t : CurrentWeeks(t)' = CurrentWeeks(t)
        /\ \A r : IsPublished(r)' = IsPublished(r)
    BY DEF CurrentWeeks, CurrentRuns, IsPublished, Current
  <1>5. VerdictHolds'
    BY <1>2, <1>4 DEF VerdictHolds
  <1>6. FoundIsCurrent'
    BY <1>2, <1>4 DEF FoundIsCurrent, LocksWeek
  <1>7. WeeksNeverOverlap'
    BY DEF WeeksNeverOverlap, Current
  <1> QED
    BY <1>1, <1>3, <1>5, <1>6, <1>7

----------------------------------------------------------------------------
\* The invariant, action by action

LEMMA InitInv == Init => IInv
  <1> SUFFICES ASSUME Init PROVE IInv
    OBVIOUS
  <1>1. TypeOK
    BY DEF Init, TypeOK, Idle
  <1>2. BusyOnARun /\ PublisherIsAlone /\ VerdictHolds /\ FoundIsCurrent
    BY DEF Init, Idle, BusyOnARun, PublisherIsAlone, VerdictHolds, FoundIsCurrent
  <1>3. WeeksNeverOverlap
    BY DEF Init, WeeksNeverOverlap, Current
  <1> QED
    BY <1>1, <1>2, <1>3 DEF IInv

LEMMA PublishBeginInv ==
    ASSUME IInv, NEW s \in Sessions, NEW r \in Runs,
           NEW replace \in BOOLEAN, NEW allowGap \in BOOLEAN,
           PublishBegin(s, r, replace, allowGap)
    PROVE  IInv'
  <1>1. /\ session' \in [Sessions -> Work]
        /\ session'[s].step = "runLocked" /\ session'[s].run = r
        /\ \A q \in Sessions : q # s => session'[q] = session[q]
    BY GotoMoves DEF PublishBegin, IInv, Steps
  <1>2. TypeOK'
    BY <1>1 DEF PublishBegin, IInv, TypeOK, Work, Steps
  <1> QED
    BY <1>1, <1>2, QuietStep DEF PublishBegin, IInv

LEMMA PublishCheckInv ==
    ASSUME IInv, NEW s \in Sessions, PublishCheck(s)
    PROVE  IInv'
  <1> DEFINE r       == session[s].run
             verdict == Accepts(WeekOf(r), CurrentWeeks(RunTeam[r]),
                                session[s].replace, session[s].allowGap)
  <1>1. /\ r \in Runs /\ session[s].replace \in BOOLEAN /\ session[s].allowGap \in BOOLEAN
        /\ TeamWeeksFree(RunTeam[r])
        /\ UNCHANGED <<content, publications, decisions>>
    BY DEF PublishCheck, IInv, BusyOnARun, TypeOK
  <1>2. CASE ~verdict
    <2>1. End(s)
      BY <1>2 DEF PublishCheck
    <2>2. TypeOK'
      BY <1>1, <2>1, EndMoves DEF IInv, TypeOK, Work, Steps
    <2> QED
      BY <1>1, <2>1, <2>2, EndMoves, QuietStep DEF IInv
  <1>3. CASE verdict
    <2>1. Goto(s, "accepted", r, session[s].replace, session[s].allowGap)
      BY <1>3 DEF PublishCheck
    <2>2. /\ session' \in [Sessions -> Work]
          /\ session'[s].step = "accepted" /\ session'[s].run = r
          /\ session'[s].replace = session[s].replace
          /\ session'[s].allowGap = session[s].allowGap
          /\ \A q \in Sessions : q # s => session'[q] = session[q]
      BY <1>1, <2>1, GotoMoves DEF IInv, Steps
    <2>3. TypeOK'
      BY <1>1, <2>2 DEF IInv, TypeOK, Work, Steps
    <2>4. BusyOnARun'
      BY <1>1, <2>2 DEF IInv, BusyOnARun
    <2>5. PublisherIsAlone'
      BY <1>1, <2>2
         DEF IInv, PublisherIsAlone, TeamWeeksFree, LocksTeamWeeks, LocksWeek
    <2>6. /\ \A t : CurrentWeeks(t)' = CurrentWeeks(t)
          /\ \A q : IsPublished(q)' = IsPublished(q)
      BY <1>1 DEF CurrentWeeks, CurrentRuns, IsPublished, Current
    <2>7. VerdictHolds'
      BY <1>3, <2>2, <2>6 DEF IInv, VerdictHolds
    <2>8. FoundIsCurrent'
      BY <2>2, <2>6 DEF IInv, FoundIsCurrent, LocksWeek
    <2>9. WeeksNeverOverlap'
      BY <1>1 DEF IInv, WeeksNeverOverlap, Current
    <2> QED
      BY <2>3, <2>4, <2>5, <2>7, <2>8, <2>9 DEF IInv
  <1> QED
    BY <1>2, <1>3

\* The commit of a publication: the week it inserts was accepted against the
\* weeks that are still current, and no other session has a verdict or a found
\* row on this team.
LEMMA PublishCommitInv ==
    ASSUME IInv, NEW s \in Sessions, PublishCommit(s)
    PROVE  IInv'
  <1> DEFINE r == session[s].run
             n == Len(publications)
             t == RunTeam[r]
  <1>1. /\ session[s].step = "accepted"
        /\ publications' = RowsAfterPublishing(r)
        /\ End(s)
        /\ UNCHANGED <<content, decisions>>
        /\ TypeOK
    BY DEF PublishCommit, IInv
  <1>2. /\ session' \in [Sessions -> Work]
        /\ session'[s].step = "idle"
        /\ \A q \in Sessions : q # s => session'[q] = session[q]
    BY <1>1, EndMoves
  <1>3. r \in Runs
    BY <1>1 DEF IInv, BusyOnARun
  <1>4. /\ publications' \in Seq(Row)
        /\ DOMAIN publications' = 1 .. n + 1
        /\ DOMAIN publications = 1 .. n
        /\ n \in Nat
        /\ publications'[n + 1] = NewRow(r)
        /\ \A i \in DOMAIN publications :
               /\ publications'[i].run = publications[i].run
               /\ publications'[i].withdrawn =
                      (publications[i].withdrawn \/ publications[i].run \in Replaced(r))
    BY <1>1, <1>3, PublishedAfterPublishing
  <1>5. \A q \in Runs :
            IsPublished(q)' <=> q = r \/ (IsPublished(q) /\ q \notin Replaced(r))
    BY <1>1, <1>3, PublishedAfterPublishing
  <1>6. TypeOK'
    BY <1>1, <1>2, <1>4 DEF TypeOK, Row, Work, Steps
  <1>7. BusyOnARun'
    BY <1>2 DEF IInv, BusyOnARun
  <1>8. PublisherIsAlone'
    BY <1>2 DEF IInv, PublisherIsAlone, LocksTeamWeeks, LocksWeek
  <1>9. \A q \in Sessions :
            q # s => ~LocksTeamWeeks(q, t) /\ \A p \in Runs : RunTeam[p] = t => ~LocksWeek(q, p)
    BY <1>1 DEF IInv, PublisherIsAlone
  <1>10. \A p \in Runs : RunTeam[p] # t => (IsPublished(p)' <=> IsPublished(p))
    BY <1>5 DEF Replaced, CurrentRuns
  <1>11. VerdictHolds'
    <2> SUFFICES ASSUME NEW q \in Sessions, session'[q].step = "accepted"
                 PROVE  Accepts(WeekOf(session[q].run),
                                CurrentWeeks(RunTeam[session[q].run])',
                                session[q].replace, session[q].allowGap)
                        /\ session'[q] = session[q]
      BY DEF VerdictHolds
    <2>1. q # s /\ session'[q] = session[q] /\ session[q].step = "accepted"
      BY <1>2
    <2>2. RunTeam[session[q].run] # t
      BY <1>9, <2>1 DEF LocksTeamWeeks
    <2>3. CurrentRuns(RunTeam[session[q].run])' = CurrentRuns(RunTeam[session[q].run])
      BY <1>10, <2>1, <2>2 DEF CurrentRuns
    <2>4. CurrentWeeks(RunTeam[session[q].run])' = CurrentWeeks(RunTeam[session[q].run])
      BY <2>1, <2>3 DEF CurrentWeeks
    <2> QED
      BY <2>1, <2>4 DEF IInv, VerdictHolds
  <1>12. FoundIsCurrent'
    <2> SUFFICES ASSUME NEW q \in Sessions, session'[q].step = "found"
                 PROVE  (/\ IsPublished(session[q].run)
                         /\ \A p \in Sessions : p # q => ~LocksWeek(p, session[q].run))'
      BY DEF FoundIsCurrent
    <2>1. q # s /\ session'[q] = session[q] /\ session[q].step = "found"
      BY <1>2
    <2>2. /\ session[q].run \in Runs
          /\ IsPublished(session[q].run)
          /\ \A p \in Sessions : p # q => ~LocksWeek(p, session[q].run)
      BY <2>1 DEF IInv, BusyOnARun, FoundIsCurrent
    <2>3. RunTeam[session[q].run] # t
      BY <1>9, <2>1, <2>2 DEF LocksWeek
    <2>4. IsPublished(session[q].run)'
      BY <1>10, <2>1, <2>2, <2>3
    <2>5. (\A p \in Sessions : p # q => ~LocksWeek(p, session[q].run))'
      BY <1>2, <2>1, <2>2 DEF LocksWeek
    <2> QED
      BY <2>4, <2>5
  <1>13. WeeksNeverOverlap'
    <2>1. \A q \in CurrentRuns(t) \ Replaced(r) : ~Overlaps(WeekOf(r), WeekOf(q))
      BY <1>1, ZenonT(30) DEF IInv, VerdictHolds, Accepts, SameWeek, CurrentWeeks, Replaced, WeekOf,
                  SameWindow, Overlaps
    <2>2. \A i \in 1 .. n : ~publications'[i].withdrawn =>
              /\ i \in Current
              /\ publications[i].run \in Runs
              /\ publications[i].run \notin Replaced(r)
              /\ IsPublished(publications[i].run)
      <3>1. \A i \in 1 .. n : publications[i] \in Row
        BY <1>1, <1>4, ElementOfSeq DEF TypeOK, Row
      <3> QED
        BY <1>4, <3>1 DEF Current, IsPublished, Row
    <2>3. \A i \in 1 .. n :
              /\ ~publications'[i].withdrawn
              /\ RunTeam[publications[i].run] = t
              => /\ ~Overlaps(WeekOf(r), WeekOf(publications[i].run))
                 /\ ~Overlaps(WeekOf(publications[i].run), WeekOf(r))
      BY <2>1, <2>2 DEF CurrentRuns, Overlaps
    <2>4. \A i \in Current' : (i \in 1 .. n \/ i = n + 1) /\ ~publications'[i].withdrawn
      BY <1>4 DEF Current
    <2>5. publications'[n + 1].run = r
      BY <1>4 DEF NewRow
    <2>6. ASSUME NEW i \in Current', NEW j \in Current', i # j,
                 RunTeam[publications'[i].run] = RunTeam[publications'[j].run]
          PROVE  ~Overlaps(WeekOf(publications'[i].run), WeekOf(publications'[j].run))
      <3>1. CASE i \in 1 .. n /\ j \in 1 .. n
        BY <1>4, <2>2, <2>4, <2>6, <3>1 DEF IInv, WeeksNeverOverlap
      <3>2. CASE i = n + 1 /\ j \in 1 .. n
        BY <1>4, <2>3, <2>4, <2>5, <2>6, <3>2
      <3>3. CASE i \in 1 .. n /\ j = n + 1
        BY <1>4, <2>3, <2>4, <2>5, <2>6, <3>3
      <3> QED
        BY <2>4, <2>6, <3>1, <3>2, <3>3
    <2> QED
      BY <2>6 DEF WeeksNeverOverlap, Overlaps, WeekOf
  <1> QED
    BY <1>6, <1>7, <1>8, <1>11, <1>12, <1>13 DEF IInv

LEMMA UnpublishFindInv ==
    ASSUME IInv, NEW s \in Sessions, NEW r \in Runs, UnpublishFind(s, r)
    PROVE  IInv'
  <1>1. /\ IsPublished(r)
        /\ WeekFree(r)
        /\ Goto(s, "found", r, FALSE, FALSE)
        /\ UNCHANGED <<content, publications, decisions>>
    BY DEF UnpublishFind
  <1>2. /\ session' \in [Sessions -> Work]
        /\ session'[s].step = "found" /\ session'[s].run = r
        /\ \A q \in Sessions : q # s => session'[q] = session[q]
    BY <1>1, GotoMoves DEF IInv, Steps
  <1>3. TypeOK'
    BY <1>1, <1>2 DEF IInv, TypeOK, Work, Steps
  <1>4. BusyOnARun'
    BY <1>2 DEF IInv, BusyOnARun
  <1>5. PublisherIsAlone'
    BY <1>1, <1>2 DEF IInv, PublisherIsAlone, WeekFree, LocksTeamWeeks, LocksWeek
  <1>6. /\ \A t : CurrentWeeks(t)' = CurrentWeeks(t)
        /\ \A q : IsPublished(q)' = IsPublished(q)
    BY <1>1 DEF CurrentWeeks, CurrentRuns, IsPublished, Current
  <1>7. VerdictHolds'
    BY <1>2, <1>6 DEF IInv, VerdictHolds
  <1>8. FoundIsCurrent'
    BY <1>1, <1>2, <1>6 DEF IInv, FoundIsCurrent, WeekFree, LocksWeek
  <1>9. WeeksNeverOverlap'
    BY <1>1 DEF IInv, WeeksNeverOverlap, Current
  <1> QED
    BY <1>3, <1>4, <1>5, <1>7, <1>8, <1>9 DEF IInv

\* The commit of a withdrawal: nobody publishes to this team meanwhile, so no
\* verdict is affected, and no other session has found the same row.
LEMMA UnpublishCommitInv ==
    ASSUME IInv, NEW s \in Sessions, UnpublishCommit(s)
    PROVE  IInv'
  <1> DEFINE r == session[s].run
  <1>1. /\ session[s].step = "found"
        /\ publications' = RowsAfterUnpublishing(r)
        /\ End(s)
        /\ UNCHANGED <<content, decisions>>
        /\ TypeOK
    BY DEF UnpublishCommit, IInv
  <1>2. /\ session' \in [Sessions -> Work]
        /\ session'[s].step = "idle"
        /\ \A q \in Sessions : q # s => session'[q] = session[q]
    BY <1>1, EndMoves
  <1>3. r \in Runs
    BY <1>1 DEF IInv, BusyOnARun
  <1>4. /\ publications' \in Seq(Row)
        /\ DOMAIN publications' = DOMAIN publications
        /\ \A i \in DOMAIN publications :
               /\ publications'[i].run = publications[i].run
               /\ publications'[i].withdrawn =
                      (publications[i].withdrawn \/ publications[i].run = r)
        /\ \A q \in Runs : IsPublished(q)' <=> IsPublished(q) /\ q # r
    BY <1>1, <1>3, PublishedAfterUnpublishing
  <1>5. TypeOK'
    BY <1>1, <1>2, <1>4 DEF TypeOK, Row, Work, Steps
  <1>6. BusyOnARun'
    BY <1>2 DEF IInv, BusyOnARun
  <1>7. PublisherIsAlone'
    BY <1>2 DEF IInv, PublisherIsAlone, LocksTeamWeeks, LocksWeek
  <1>8. VerdictHolds'
    <2> SUFFICES ASSUME NEW q \in Sessions, session'[q].step = "accepted"
                 PROVE  Accepts(WeekOf(session[q].run), CurrentWeeks(RunTeam[session[q].run]),
                                session[q].replace, session[q].allowGap)'
      BY DEF VerdictHolds
    <2>1. q # s /\ session'[q] = session[q] /\ session[q].step = "accepted"
      BY <1>2
    <2>2. RunTeam[session[q].run] # RunTeam[r]
      BY <1>1, <1>3, <2>1 DEF IInv, PublisherIsAlone, LocksWeek
    <2>3. CurrentRuns(RunTeam[session[q].run])' = CurrentRuns(RunTeam[session[q].run])
      BY <1>4, <2>1, <2>2 DEF CurrentRuns
    <2>4. CurrentWeeks(RunTeam[session[q].run])' = CurrentWeeks(RunTeam[session[q].run])
      BY <2>1, <2>3 DEF CurrentWeeks
    <2> QED
      BY <2>1, <2>4 DEF IInv, VerdictHolds
  <1>9. FoundIsCurrent'
    <2> SUFFICES ASSUME NEW q \in Sessions, session'[q].step = "found"
                 PROVE  (/\ IsPublished(session[q].run)
                         /\ \A p \in Sessions : p # q => ~LocksWeek(p, session[q].run))'
      BY DEF FoundIsCurrent
    <2>1. q # s /\ session'[q] = session[q] /\ session[q].step = "found"
      BY <1>2
    <2>2. /\ session[q].run \in Runs
          /\ IsPublished(session[q].run)
          /\ \A p \in Sessions : p # q => ~LocksWeek(p, session[q].run)
      BY <2>1 DEF IInv, BusyOnARun, FoundIsCurrent
    <2>3. session[q].run # r
      BY <1>1, <2>1, <2>2 DEF LocksWeek
    <2>4. IsPublished(session[q].run)'
      BY <1>4, <2>1, <2>2, <2>3
    <2>5. (\A p \in Sessions : p # q => ~LocksWeek(p, session[q].run))'
      BY <1>2, <2>1, <2>2 DEF LocksWeek
    <2> QED
      BY <2>4, <2>5
  <1>10. WeeksNeverOverlap'
    <2>1. \A i \in DOMAIN publications : publications[i].withdrawn \in BOOLEAN
      <3>1. publications \in Seq(Row) /\ DOMAIN publications = 1 .. Len(publications)
        BY <1>1, LenProperties DEF TypeOK, Row
      <3>2. \A i \in DOMAIN publications : publications[i] \in Row
        BY <3>1, ElementOfSeq
      <3> QED
        BY <3>2 DEF Row
    <2>2. \A i \in Current' : i \in Current /\ publications'[i].run = publications[i].run
      BY <1>4, <2>1 DEF Current
    <2> QED
      BY <2>2 DEF IInv, WeeksNeverOverlap, Overlaps, WeekOf
  <1> QED
    BY <1>5, <1>6, <1>7, <1>8, <1>9, <1>10 DEF IInv

\* persist_run, record_decision and a rollback take no lock on publications.
LEMMA OtherStepsInv ==
    ASSUME IInv, NEW s \in Sessions,
           \/ \E r \in Runs : PersistCheck(s, r) \/ DecideCheck(s, r)
           \/ PersistCommit(s) \/ DecideCommit(s) \/ Rollback(s)
    PROVE  IInv'
  <1>1. ASSUME NEW r \in Runs, PersistCheck(s, r) \/ DecideCheck(s, r)
        PROVE  IInv'
    <2>1. /\ \/ Goto(s, "unpublishedSeen", r, FALSE, FALSE)
             \/ Goto(s, "publishedSeen", r, FALSE, FALSE)
          /\ UNCHANGED <<content, publications, decisions>>
      BY <1>1 DEF PersistCheck, DecideCheck
    <2>2. /\ session' \in [Sessions -> Work]
          /\ session'[s].step \in {"unpublishedSeen", "publishedSeen"}
          /\ session'[s].run = r
          /\ \A q \in Sessions : q # s => session'[q] = session[q]
      <3>1. CASE Goto(s, "unpublishedSeen", r, FALSE, FALSE)
        BY <3>1, GotoMoves DEF IInv, Steps
      <3>2. CASE Goto(s, "publishedSeen", r, FALSE, FALSE)
        BY <3>2, GotoMoves DEF IInv, Steps
      <3> QED
        BY <2>1, <3>1, <3>2
    <2>3. TypeOK'
      BY <2>1, <2>2 DEF IInv, TypeOK, Work, Steps
    <2> QED
      BY <2>1, <2>2, <2>3, QuietStep DEF IInv
  <1>2. ASSUME PersistCommit(s) \/ DecideCommit(s) \/ Rollback(s)
        PROVE  IInv'
    <2>1. End(s) /\ UNCHANGED publications /\ session[s].step # "idle"
      BY <1>2 DEF PersistCommit, DecideCommit, Rollback
    <2>2. /\ session' \in [Sessions -> Work]
          /\ session'[s].step = "idle"
          /\ \A q \in Sessions : q # s => session'[q] = session[q]
      BY <2>1, EndMoves DEF IInv
    <2>3. session[s].run \in Runs
      BY <2>1 DEF IInv, BusyOnARun
    <2>4. content' \in [Runs -> Nat] /\ decisions' \subseteq [run : Runs, on : Nat]
      BY <1>2, <2>3 DEF IInv, TypeOK, PersistCommit, DecideCommit, Rollback
    <2>5. TypeOK'
      BY <2>1, <2>2, <2>4 DEF IInv, TypeOK, Work, Steps
    <2> QED
      BY <2>1, <2>2, <2>5, QuietStep DEF IInv
  <1> QED
    BY <1>1, <1>2

LEMMA NextInv == IInv /\ [Next]_vars => IInv'
  <1> SUFFICES ASSUME IInv, [Next]_vars PROVE IInv'
    OBVIOUS
  <1>1. CASE UNCHANGED vars
    <2>1. TypeOK' /\ BusyOnARun' /\ PublisherIsAlone'
      BY <1>1 DEF vars, IInv, TypeOK, BusyOnARun, PublisherIsAlone, LocksTeamWeeks,
                  LocksWeek
    <2>2. VerdictHolds' /\ FoundIsCurrent'
      BY <1>1 DEF vars, IInv, VerdictHolds, FoundIsCurrent, LocksWeek, CurrentWeeks,
                  CurrentRuns, IsPublished, Current
    <2>3. WeeksNeverOverlap'
      BY <1>1 DEF vars, IInv, WeeksNeverOverlap, Current
    <2> QED
      BY <2>1, <2>2, <2>3 DEF IInv
  <1>2. ASSUME NEW s \in Sessions, NEW r \in Runs, Begin(s, r)
        PROVE  IInv'
    BY <1>2, PublishBeginInv, UnpublishFindInv, OtherStepsInv DEF Begin
  <1>3. ASSUME NEW s \in Sessions,
               \/ PublishCheck(s) \/ PublishCommit(s)
               \/ UnpublishCommit(s)
               \/ PersistCommit(s) \/ DecideCommit(s) \/ Rollback(s)
        PROVE  IInv'
    BY <1>3, PublishCheckInv, PublishCommitInv, UnpublishCommitInv, OtherStepsInv
  <1> QED
    BY <1>1, <1>2, <1>3 DEF Next

----------------------------------------------------------------------------
\* Theorems

LEMMA Inductive == Spec => []IInv
  BY InitInv, NextInv, PTL DEF Spec

\* Every variable keeps its type, whatever the sessions interleave.
THEOREM TypeCorrect == Spec => []TypeOK
  BY Inductive, PTL DEF IInv

\* For any teams, runs and number of sessions, a team's published weeks never
\* overlap: check_publication's verdict outlives the wait for the commit.
THEOREM NoOverlap == Spec => []WeeksNeverOverlap
  BY Inductive, PTL DEF IInv

----------------------------------------------------------------------------
\* The audit trail

\* A step of the store keeps every row of review_publications.
RowsKept ==
    \A i \in DOMAIN publications :
        /\ i \in DOMAIN publications'
        /\ publications'[i].run = publications[i].run
        /\ publications[i].withdrawn => publications'[i].withdrawn

LEMMA StepKeepsRows == IInv /\ Next => RowsKept
  <1> SUFFICES ASSUME IInv, NEW s \in Sessions,
                      \/ \E r \in Runs : Begin(s, r)
                      \/ PublishCheck(s) \/ PublishCommit(s)
                      \/ UnpublishCommit(s)
                      \/ PersistCommit(s) \/ DecideCommit(s) \/ Rollback(s)
               PROVE  RowsKept
    BY DEF Next
  <1>1. CASE PublishCommit(s)
    <2>1. session[s].run \in Runs /\ publications' = RowsAfterPublishing(session[s].run)
      BY <1>1 DEF IInv, BusyOnARun, PublishCommit
    <2>2. /\ DOMAIN publications' = 1 .. Len(publications) + 1
          /\ DOMAIN publications = 1 .. Len(publications)
          /\ Len(publications) \in Nat
          /\ \A i \in DOMAIN publications :
                 /\ publications'[i].run = publications[i].run
                 /\ publications[i].withdrawn => publications'[i].withdrawn
      BY <2>1, PublishedAfterPublishing DEF IInv
    <2> QED
      BY <2>2 DEF RowsKept
  <1>2. CASE UnpublishCommit(s)
    <2>1. session[s].run \in Runs /\ publications' = RowsAfterUnpublishing(session[s].run)
      BY <1>2 DEF IInv, BusyOnARun, UnpublishCommit
    <2> QED
      BY <2>1, PublishedAfterUnpublishing DEF IInv, RowsKept
  <1>3. CASE ~PublishCommit(s) /\ ~UnpublishCommit(s)
    <2>1. publications' = publications
      BY <1>3 DEF Begin, PublishBegin, UnpublishFind, PersistCheck, DecideCheck,
                  PublishCheck, PersistCommit, DecideCommit, Rollback
    <2> QED
      BY <2>1 DEF RowsKept
  <1> QED
    BY <1>1, <1>2, <1>3

\* A publication once made is never removed, renamed or brought back.
THEOREM HistoryKept == Spec => HistoryIsKept
  <1>1. IInv /\ [Next]_vars =>
            [\A i \in DOMAIN publications :
                /\ i \in DOMAIN publications'
                /\ publications'[i].run = publications[i].run
                /\ publications[i].withdrawn => publications'[i].withdrawn]_vars
    BY StepKeepsRows DEF RowsKept
  <1> QED
    BY <1>1, Inductive, PTL DEF Spec, HistoryIsKept

WasPublished(r) == \E i \in DOMAIN publications : publications[i].run = r

\* A session about to append a decision works on a run that was published.
DecidersSawAPublication ==
    \A s \in Sessions :
        session[s].step = "publishedSeen" => WasPublished(session[s].run)

\* record_decision asks once, without a lock, and the week may be withdrawn
\* before it commits; the decision still stands on a week that was published.
THEOREM DecisionsRest == Spec => []DecisionsRestOnPublications
  <1> DEFINE J == DecidersSawAPublication /\ DecisionsRestOnPublications
  <1>1. Init => J
    BY DEF Init, Idle, DecidersSawAPublication, DecisionsRestOnPublications
  <1>2. IInv /\ J /\ [Next]_vars => J'
    <2> SUFFICES ASSUME IInv, J, [Next]_vars PROVE J'
      OBVIOUS
    <2>1. CASE UNCHANGED vars
      BY <2>1 DEF vars, DecidersSawAPublication, DecisionsRestOnPublications, WasPublished
    <2>2. CASE Next
      <3>1. \A r : WasPublished(r) => WasPublished(r)'
        BY <2>2, StepKeepsRows DEF RowsKept, WasPublished
      <3>2. PICK s \in Sessions :
                \/ \E r \in Runs : Begin(s, r)
                \/ PublishCheck(s) \/ PublishCommit(s)
                \/ UnpublishCommit(s)
                \/ PersistCommit(s) \/ DecideCommit(s) \/ Rollback(s)
        BY <2>2 DEF Next
      <3>3. ASSUME NEW r \in Runs, DecideCheck(s, r)
            PROVE  /\ decisions' = decisions /\ session'[s].run = r /\ WasPublished(r)
                   /\ \A q \in Sessions : q # s => session'[q] = session[q]
        <4>1. Goto(s, "publishedSeen", r, FALSE, FALSE)
          BY <3>3 DEF DecideCheck
        <4> QED
          BY <3>3, <4>1, GotoMoves
             DEF IInv, Steps, DecideCheck, MayDecide, IsPublished, Current, WasPublished
      <3>4. ASSUME NEW r \in Runs, Begin(s, r), ~DecideCheck(s, r)
            PROVE  /\ decisions' = decisions /\ session'[s].step # "publishedSeen"
                   /\ \A q \in Sessions : q # s => session'[q] = session[q]
        <4>1. PICK step \in {"runLocked", "found", "unpublishedSeen"},
                   replace \in BOOLEAN, allowGap \in BOOLEAN :
                  Goto(s, step, r, replace, allowGap)
          BY <3>4 DEF Begin, PublishBegin, UnpublishFind, PersistCheck
        <4>2. decisions' = decisions
          BY <3>4 DEF Begin, PublishBegin, UnpublishFind, PersistCheck
        <4> QED
          BY <4>1, <4>2, GotoMoves DEF IInv, Steps
      <3>5. ASSUME PublishCheck(s) \/ PublishCommit(s) \/ UnpublishCommit(s)
                       \/ PersistCommit(s) \/ Rollback(s)
            PROVE  /\ decisions' = decisions /\ session'[s].step # "publishedSeen"
                   /\ \A q \in Sessions : q # s => session'[q] = session[q]
        <4>1. \/ End(s)
              \/ Goto(s, "accepted", session[s].run, session[s].replace,
                      session[s].allowGap)
          BY <3>5 DEF PublishCheck, PublishCommit, UnpublishCommit, PersistCommit, Rollback
        <4>2. decisions' = decisions /\ session[s].run \in Runs
          BY <3>5 DEF PublishCheck, PublishCommit, UnpublishCommit, PersistCommit, Rollback,
                      IInv, BusyOnARun
        <4>3. session[s].replace \in BOOLEAN /\ session[s].allowGap \in BOOLEAN
          BY DEF IInv, TypeOK
        <4>4. CASE End(s)
          BY <4>2, <4>4, EndMoves DEF IInv
        <4>5. CASE Goto(s, "accepted", session[s].run, session[s].replace,
                        session[s].allowGap)
          BY <4>2, <4>3, <4>5, GotoMoves DEF IInv, Steps
        <4> QED
          BY <4>1, <4>4, <4>5
      <3>6. ASSUME DecideCommit(s)
            PROVE  /\ \A d \in decisions' : d \in decisions \/ WasPublished(d.run)
                   /\ session'[s].step # "publishedSeen"
                   /\ \A q \in Sessions : q # s => session'[q] = session[q]
        <4>1. End(s) /\ WasPublished(session[s].run)
          BY <3>6 DEF DecideCommit, DecidersSawAPublication
        <4>2. decisions' = decisions \union
                  {[run |-> session[s].run, on |-> content[session[s].run]]}
          BY <3>6 DEF DecideCommit
        <4> QED
          BY <4>1, <4>2, EndMoves DEF IInv
      <3>7. DecidersSawAPublication'
        BY <3>1, <3>2, <3>3, <3>4, <3>5, <3>6 DEF DecidersSawAPublication
      <3>8. \A d \in decisions' : d \in decisions \/ WasPublished(d.run)
        BY <3>2, <3>3, <3>4, <3>5, <3>6
      <3>9. DecisionsRestOnPublications'
        BY <3>1, <3>8 DEF DecisionsRestOnPublications, WasPublished
      <3> QED
        BY <3>7, <3>9
    <2> QED
      BY <2>1, <2>2
  <1> QED
    BY <1>1, <1>2, Inductive, PTL DEF Spec

----------------------------------------------------------------------------
\* The refinement

\* The instance's rule is the rule.
LEMMA SameRule ==
    ASSUME NEW w, NEW current, NEW replace, NEW allowGap
    PROVE  Ledger!Accepts(w, current, replace, allowGap)
               <=> Accepts(w, current, replace, allowGap)
  BY DEF Ledger!Accepts, Accepts, Ledger!SameWeek, SameWeek, Ledger!SameWindow, SameWindow,
         Ledger!Overlaps, Overlaps, Ledger!LeavesNoGap, LeavesNoGap

\* What a team's readers see is its current runs.
LEMMA SameWeeks ==
    ASSUME NEW t \in Teams
    PROVE  Ledger!Weeks(t) = CurrentWeeks(t)
  BY DEF Ledger!Weeks, Ledger!WeekOf, CurrentWeeks, WeekOf

LEMMA CommitPublishes ==
    ASSUME IInv, NEW s \in Sessions, NEW r \in Runs, session[s].run = r, PublishCommit(s)
    PROVE  Ledger!LedgerNext
  <1> DEFINE t == RunTeam[r]
             before == [u \in Teams |-> CurrentRuns(u)]
  <1>1. publications' = RowsAfterPublishing(r)
    BY DEF PublishCommit
  <1>2. t \in Teams
    BY <1>1, StoreAssumption
  <1>3. Accepts(WeekOf(r), CurrentWeeks(t), session[s].replace, session[s].allowGap)
    BY DEF PublishCommit, IInv, VerdictHolds
  <1>4. \A q \in Runs :
            IsPublished(q)' <=> q = r \/ (IsPublished(q) /\ q \notin Replaced(r))
    BY <1>1, PublishedAfterPublishing DEF IInv
  <1>5. r \notin CurrentRuns(t)
    BY <1>3 DEF Accepts, CurrentWeeks, WeekOf
  <1>6. CurrentRuns(t)' =
            {q \in CurrentRuns(t) : ~SameWindow(WeekOf(q), WeekOf(r))} \union {r}
    BY <1>1, <1>4 DEF CurrentRuns, Replaced
  <1>7. \A u \in Teams : u # t => CurrentRuns(u)' = CurrentRuns(u)
    BY <1>1, <1>4 DEF CurrentRuns, Replaced
  <1>8. before' = [before EXCEPT ![t] =
                      {q \in @ : ~SameWindow(WeekOf(q), WeekOf(r))} \union {r}]
    BY <1>2, <1>6, <1>7
  <1>9. before' # before
    <2>1. r \in before'[t] /\ r \notin before[t]
      BY <1>2, <1>5, <1>6
    <2> QED
      BY <2>1
  <1>10. Ledger!Publish(r, session[s].replace, session[s].allowGap)
    BY <1>2, <1>3, <1>8, SameRule, SameWeeks
       DEF Ledger!Publish, Ledger!SameWindow, SameWindow, Ledger!WeekOf, WeekOf
  <1> QED
    BY <1>1, <1>9, <1>10 DEF Ledger!LedgerNext, IInv, TypeOK

LEMMA CommitWithdraws ==
    ASSUME IInv, NEW s \in Sessions, NEW r \in Runs, session[s].run = r, UnpublishCommit(s)
    PROVE  Ledger!LedgerNext
  <1> DEFINE t == RunTeam[r]
             before == [u \in Teams |-> CurrentRuns(u)]
  <1>1. publications' = RowsAfterUnpublishing(r) /\ IsPublished(r)
    BY DEF IInv, FoundIsCurrent, UnpublishCommit
  <1>2. t \in Teams
    BY <1>1, StoreAssumption
  <1>3. \A q \in Runs : IsPublished(q)' <=> IsPublished(q) /\ q # r
    BY <1>1, PublishedAfterUnpublishing DEF IInv
  <1>4. r \in CurrentRuns(t)
    BY <1>1 DEF CurrentRuns
  <1>5. \A u \in Teams :
            CurrentRuns(u)' = IF u = t THEN CurrentRuns(u) \ {r} ELSE CurrentRuns(u)
    BY <1>1, <1>3 DEF CurrentRuns
  <1>6. before' = [before EXCEPT ![t] = @ \ {r}]
    BY <1>2, <1>5
  <1>7. before' # before
    <2>1. r \in before[t] /\ r \notin before'[t]
      BY <1>2, <1>4, <1>5
    <2> QED
      BY <2>1
  <1>8. Ledger!Withdraw(r)
    BY <1>2, <1>4, <1>6 DEF Ledger!Withdraw
  <1> QED
    BY <1>1, <1>7, <1>8 DEF Ledger!LedgerNext

\* The store implements the ledger: every commit is one ledger operation whose
\* rule holds at that instant, and nothing else readers can see happens.
THEOREM Refinement == Spec => LedgerIsAtomic
  <1>1. Init => Ledger!LedgerInit
    BY DEF Init, Ledger!LedgerInit, CurrentRuns, IsPublished, Current
  <1>2. IInv /\ [Next]_vars => [Ledger!LedgerNext]_([t \in Teams |-> CurrentRuns(t)])
    <2> SUFFICES ASSUME IInv, [Next]_vars,
                        ~UNCHANGED [t \in Teams |-> CurrentRuns(t)]
                 PROVE  Ledger!LedgerNext
      OBVIOUS
    <2>1. publications' # publications
      BY DEF CurrentRuns, IsPublished, Current
    <2>2. PICK s \in Sessions :
              \/ \E r \in Runs : Begin(s, r)
              \/ PublishCheck(s) \/ PublishCommit(s)
              \/ UnpublishCommit(s)
              \/ PersistCommit(s) \/ DecideCommit(s) \/ Rollback(s)
      BY <2>1 DEF Next, vars
    <2>3. PublishCommit(s) \/ UnpublishCommit(s)
      BY <2>1, <2>2 DEF Begin, PublishBegin, UnpublishFind, PersistCheck, DecideCheck,
                        PublishCheck, PersistCommit, DecideCommit, Rollback
    <2>4. session[s].run \in Runs
      BY <2>3 DEF PublishCommit, UnpublishCommit, IInv, BusyOnARun
    <2> QED
      BY <2>3, <2>4, CommitPublishes, CommitWithdraws
  <1> QED
    BY <1>1, <1>2, Inductive, PTL DEF Spec, LedgerIsAtomic, Ledger!LedgerSpec

====
