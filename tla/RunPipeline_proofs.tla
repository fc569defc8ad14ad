-------------------------- MODULE RunPipeline_proofs --------------------------
(***************************************************************************)
(* Runs of every length, with any page size and feed: no point in time is  *)
(* left open, and the analysis of the pages is that of the feed.           *)
(***************************************************************************)
EXTENDS RunPipeline, SchemaStream_proofs, SequenceTheorems

PCs == {"open", "search", "consume", "close", "reconcile", "assess", "build", "done", "failed"}
PitStates == {"none", "open", "leaked", "gone"}

\* At most the schema being read has an open point in time, and only between its
\* opening and the end of the finally block: no error leaves by another way.
OpenOnlyWhileRead ==
    \A s \in SCHEMAS :
        pits[s] = "open" => s = schema /\ pc \in {"search", "consume", "close"}

PitInv ==
    /\ pc \in PCs
    /\ schema \in SCHEMAS
    /\ pits \in [SCHEMAS -> PitStates]
    /\ OpenOnlyWhileRead

-------------------------------------------------------------------------------
LEMMA PitInvInit == Init => PitInv
BY DEF Init, PitInv, OpenOnlyWhileRead, PCs, PitStates, SCHEMAS

\* Once nothing is open, the schema may change.
LEMMA FinishSchemaKeeps ==
    ASSUME PitInv, pc \notin {"search", "consume", "close"}, FinishSchema, UNCHANGED pits
    PROVE  PitInv'
<1>1. schema' \in SCHEMAS /\ pc' \in PCs
    BY DEF FinishSchema, SCHEMAS, PCs
<1>2. \A s \in SCHEMAS : pits[s] # "open"
    BY DEF PitInv, OpenOnlyWhileRead
<1> QED
    BY <1>1, <1>2 DEF PitInv, OpenOnlyWhileRead

\* Steps of the reader that leave its point in time alone.
LEMMA ReaderKeeps ==
    ASSUME PitInv, UNCHANGED <<schema, pits>>,
           pc \in {"search", "consume"}, pc' \in {"search", "consume", "close"}
    PROVE  PitInv'
BY DEF PitInv, OpenOnlyWhileRead, PCs

\* Steps after which the reader is no longer at work, and before which it was not.
LEMMA OthersKeep ==
    ASSUME PitInv, UNCHANGED <<schema, pits>>,
           pc \notin {"search", "consume", "close"}, pc' \in PCs
    PROVE  PitInv'
BY DEF PitInv, OpenOnlyWhileRead

LEMMA OpenPitKeeps == PitInv /\ OpenPit => PitInv'
<1> SUFFICES ASSUME PitInv, OpenPit PROVE PitInv'
    OBVIOUS
<1>1. CASE pc' = "search" /\ pits' = [pits EXCEPT ![schema] = "open"]
    <2>1. \A s \in SCHEMAS : pits[s] # "open"
        BY DEF PitInv, OpenOnlyWhileRead, OpenPit
    <2> QED
        BY <1>1, <2>1 DEF PitInv, OpenOnlyWhileRead, OpenPit, PCs, PitStates
<1>2. CASE pc' = "failed" /\ UNCHANGED pits
    BY <1>2, OthersKeep DEF OpenPit, PCs
<1> QED
    BY <1>1, <1>2 DEF OpenPit

\* However the close ends, the cluster has been asked.
LEMMA ClosePitKeeps == PitInv /\ ClosePit => PitInv'
<1> SUFFICES ASSUME PitInv, ClosePit PROVE PitInv'
    OBVIOUS
<1>1. PICK asked \in {"gone", "leaked"} :
          pits' = [pits EXCEPT ![schema] = IF @ = "open" THEN asked ELSE @]
    BY DEF ClosePit
<1>2. schema' = schema /\ pc' \in {"failed", "reconcile"}
    BY DEF ClosePit
<1>3. pits' \in [SCHEMAS -> PitStates]
    BY <1>1 DEF PitInv, PitStates
<1>4. \A s \in SCHEMAS : pits'[s] # "open"
    BY <1>1 DEF PitInv, OpenOnlyWhileRead
<1> QED
    BY <1>2, <1>3, <1>4 DEF PitInv, OpenOnlyWhileRead, PCs

LEMMA ExpirePitKeeps == PitInv /\ ExpirePit => PitInv'
<1> SUFFICES ASSUME PitInv, ExpirePit PROVE PitInv'
    OBVIOUS
<1>1. PICK s \in SCHEMAS : pits' = [pits EXCEPT ![s] = "gone"]
    BY DEF ExpirePit
<1> QED
    BY <1>1 DEF PitInv, OpenOnlyWhileRead, ExpirePit, PitStates

-------------------------------------------------------------------------------
LEMMA PitInvNext == PitInv /\ [Next]_vars => PitInv'
<1> SUFFICES ASSUME PitInv, [Next]_vars PROVE PitInv'
    OBVIOUS
<1>1. CASE SkipSchema
    BY <1>1, FinishSchemaKeeps DEF SkipSchema
<1>2. CASE OpenPit
    BY <1>2, OpenPitKeeps
<1>3. CASE SearchPage
    BY <1>3, ReaderKeeps DEF SearchPage
<1>4. CASE SearchFails
    BY <1>4, ReaderKeeps DEF SearchFails
<1>5. CASE ConsumeRow
    <2>1. pc = "consume" /\ pc' \in {"consume", "close"} /\ UNCHANGED <<schema, pits>>
        BY <1>5 DEF ConsumeRow
    <2> QED
        BY <2>1, ReaderKeeps
<1>6. CASE EndPage
    BY <1>6, ReaderKeeps DEF EndPage
<1>7. CASE ClosePit
    BY <1>7, ClosePitKeeps
<1>8. CASE Reconcile
    <2>1. pc = "reconcile" /\ UNCHANGED pits
        BY <1>8 DEF Reconcile
    <2>2. CASE FinishSchema
        BY <2>1, <2>2, FinishSchemaKeeps
    <2>3. CASE pc' = "failed" /\ UNCHANGED schema
        BY <2>1, <2>3, OthersKeep DEF PCs
    <2> QED
        BY <1>8, <2>2, <2>3 DEF Reconcile
<1>9. CASE Assess
    <2>1. pc = "assess" /\ pc' \in {"build", "failed"} /\ UNCHANGED <<schema, pits>>
        BY <1>9 DEF Assess
    <2> QED
        BY <2>1, OthersKeep DEF PCs
<1>10. CASE Build
    BY <1>10, OthersKeep DEF Build, PCs
<1>11. CASE ExpirePit
    BY <1>11, ExpirePitKeeps
<1>12. CASE Stopped \/ UNCHANGED vars
    BY <1>12 DEF Stopped, vars, PitInv, OpenOnlyWhileRead
<1> QED
    BY <1>1, <1>2, <1>3, <1>4, <1>5, <1>6, <1>7, <1>8, <1>9, <1>10, <1>11, <1>12
       DEF Next, Work

\* However a run ends, by its result or by an error at any request, page or row, it
\* has asked the cluster to close the points in time it opened (reader.py, scan_schema).
THEOREM PitsClosed == Spec => []PitsAreClosed
<1>1. PitInv => PitsAreClosed
    BY DEF PitInv, OpenOnlyWhileRead, PitsAreClosed, Ended
<1> QED
    BY <1>1, PitInvInit, PitInvNext, PTL DEF Spec

-------------------------------------------------------------------------------
\* The rows of a schema.
AllRows(s) == {Rows(s)[i] : i \in DOMAIN Rows(s)}
IsRow(row) == row.at \in Int /\ row.doc \in Int

LEMMA FeedIs ==
    ASSUME input \in Inputs, NEW s \in SCHEMAS
    PROVE  /\ Rows(s) \in Seq(AllRows(s)) /\ Len(Rows(s)) \in Nat
           /\ DOMAIN Rows(s) = 1 .. Len(Rows(s))
           /\ \A row \in AllRows(s) : IsRow(row)
           /\ s \notin input.operators => Rows(s) = <<>>
<1> DEFINE feed == input.feed[s]
           n == Len(feed)
<1>1. /\ n \in Nat /\ DOMAIN feed = 1 .. n
      /\ \A k \in DOMAIN feed : feed[k].at \in Int /\ feed[k].doc \in Int
      /\ s \notin input.operators => feed = <<>>
    BY PipelineAssumption
<1>2. DOMAIN Rows(s) = 1 .. n /\ \A k \in 1 .. n : Rows(s)[k] = NormalizeRow(s, feed[k])
    BY <1>1 DEF Rows
<1>3. Rows(s) \in [1 .. n -> AllRows(s)]
    <2>1. Rows(s) = [k \in 1 .. n |-> Rows(s)[k]]
        BY <1>1 DEF Rows
    <2> QED
        BY <1>2, <2>1 DEF AllRows
<1>4. Rows(s) \in Seq(AllRows(s))
    BY <1>1, <1>3, SeqDef
<1>5. \A k \in 1 .. n : IsRow(Rows(s)[k])
    <2>1. \A d : NormalizeRow(s, d).at = d.at /\ NormalizeRow(s, d).doc = d.doc
        BY DEF NormalizeRow
    <2> HIDE DEF feed, n
    <2> QED
        BY <1>1, <1>2, <2>1 DEF IsRow
<1>6. \A row \in AllRows(s) : IsRow(row)
    BY <1>2, <1>5 DEF AllRows
<1>7. s \notin input.operators => Rows(s) = <<>>
    BY <1>1 DEF Rows
<1> QED
    BY <1>4, <1>6, <1>7, LenProperties

\* Rows of one schema, however they were read, are a feed.
LEMMA ReadRows ==
    ASSUME NEW R, \A row \in R : IsRow(row), NEW read \in Seq(R)
    PROVE  IsFeed(read)
BY LenProperties, ElementOfSeq DEF IsFeed, IsTimed, IsRow

\* One more row.
LEMMA OneMore ==
    ASSUME NEW R, \A row \in R : IsRow(row), NEW read \in Seq(R), NEW row \in R
    PROVE  Extends(read, Append(read, row), Len(read) + 1)
<1> DEFINE new == Append(read, row)
<1>1. /\ new \in Seq(R) /\ Len(new) = Len(read) + 1 /\ new[Len(read) + 1] = row
      /\ \A i \in 1 .. Len(read) : new[i] = read[i]
    BY AppendProperties
<1>2. Len(read) \in Nat /\ DOMAIN read = 1 .. Len(read) /\ DOMAIN new = 1 .. Len(new)
    BY <1>1, LenProperties
<1>3. IsFeed(new)
    BY <1>1, ReadRows
<1> HIDE DEF new
<1> QED
    BY <1>1, <1>2, <1>3 DEF Extends, IsFeed, new

-------------------------------------------------------------------------------
\* The reader's local state.
ScanTypes ==
    /\ scan \in [after : Nat, hits : Seq(AllRows(schema)), last : BOOLEAN, pages : Nat,
                 rows : Nat, total : Nat, failed : BOOLEAN]
    /\ Len(scan.hits) <= PAGE
    /\ faults \in 0 .. input.faults

\* A search comes after the page before it is used up; a page that is not full ends
\* the feed, and the first one says how long the feed is.
Feed == Rows(schema)
PagesInv ==
    /\ scan.after <= Len(Feed)
    /\ scan.pages # 0 => scan.total = Len(Feed)
    /\ pc = "open" => scan = NoScan /\ acc = NoAnalysis(Panels(schema))
    /\ pc = "search" => scan.hits = <<>>
    /\ pc = "consume" => scan.pages # 0 /\ (scan.last => scan.after = Len(Feed))
    /\ pc \in {"close", "reconcile"} /\ ~scan.failed =>
           scan.hits = <<>> /\ scan.pages # 0 /\ scan.after = Len(Feed)
    /\ pc = "reconcile" => ~scan.failed

Reading == pc \in {"open", "search", "consume", "close", "reconcile"}

\* The rows read so far, and those of the page at hand: the next ones of the feed; or,
\* once a page was wrong, more or fewer than these; or a page that will be refused.
Straight(read) ==
    /\ scan.rows + Len(scan.hits) = scan.after
    /\ \A i \in 1 .. scan.rows : read[i] = Feed[i]
    /\ \A i \in 1 .. Len(scan.hits) : scan.hits[i] = Feed[scan.rows + i]
Shifted == faults > 0 /\ scan.rows + Len(scan.hits) # scan.after
Refused ==
    /\ faults > 0 /\ scan.hits # <<>>
    /\ LET last == scan.hits[Len(scan.hits)]
       IN  \/ acc.last_at # Null /\ last.at < acc.last_at
           \/ \E i \in 1 .. Len(scan.hits) - 1 : last.at < scan.hits[i].at

\* Of two wrong pages, one that loses a row and one that repeats one, the count of
\* the rows says nothing.
OneFault == \A i \in Inputs : i.faults <= 1

HasRead(read) ==
    /\ read \in Seq(AllRows(schema)) /\ InOrder(read)
    /\ Len(read) = scan.rows
    /\ AccumulatorIs(acc, Panels(schema), read)
    /\ OneFault => Straight(read) \/ Shifted \/ Refused

\* A finished analysis is that of the feed, or of some rows of it.
AnalysisOf(s, read) ==
    /\ read \in Seq(AllRows(s)) /\ InOrder(read)
    /\ FinishedIs(analysis[s], Panels(s), read)
    /\ OneFault => read = Rows(s)

AnalysedSchemas ==
    IF Reading THEN IF schema = "v1" THEN {} ELSE {"v1"}
    ELSE IF pc \in {"assess", "build", "done"} THEN SCHEMAS ELSE DOMAIN analysis

AnalysesInv ==
    /\ DOMAIN analysis = AnalysedSchemas /\ DOMAIN analysis \subseteq SCHEMAS
    /\ \A s \in DOMAIN analysis : \E read : AnalysisOf(s, read)

ReadersInv == Reading => PagesInv /\ \E read : HasRead(read)

ReadInv == input \in Inputs /\ PitInv /\ ScanTypes /\ ReadersInv /\ AnalysesInv

-------------------------------------------------------------------------------
\* Nothing has been read.
LEMMA FreshScan ==
    ASSUME input \in Inputs, schema \in SCHEMAS, scan = NoScan, acc = NoAnalysis(Panels(schema)),
           faults \in 0 .. input.faults
    PROVE  ScanTypes /\ HasRead(<<>>) /\ scan.after <= Len(Feed)
<1>1. ScanTypes
    <2>1. <<>> \in Seq(AllRows(schema)) /\ Len(<<>>) = 0
        BY EmptySeq
    <2> QED
        BY <2>1, PipelineAssumption DEF ScanTypes, NoScan
<1>2. AccumulatorIs(acc, Panels(schema), <<>>)
    BY NothingRead
<1>3. <<>> \in Seq(AllRows(schema)) /\ InOrder(<<>>) /\ Len(<<>>) = scan.rows
    BY EmptySeq DEF InOrder, NoScan
<1>4. Straight(<<>>)
    BY DEF Straight, NoScan
<1>5. scan.after <= Len(Feed)
    BY FeedIs DEF NoScan, Feed
<1> QED
    BY <1>1, <1>2, <1>3, <1>4, <1>5 DEF HasRead

LEMMA OrderKept ==
    ASSUME NEW R, \A row \in R : IsRow(row), NEW read \in Seq(R), InOrder(read), NEW row \in R,
           read # <<>> => read[Len(read)].at <= row.at
    PROVE  InOrder(Append(read, row))
<1> DEFINE new == Append(read, row)
           n == Len(read)
<1>1. /\ Len(new) = n + 1 /\ new[n + 1] = row /\ \A i \in 1 .. n : new[i] = read[i]
      /\ n \in Nat /\ DOMAIN read = 1 .. n /\ DOMAIN new = 1 .. n + 1
    BY AppendProperties, LenProperties
<1>2. \A i \in 1 .. n : read[i].at \in Int /\ read[i].at <= read[n].at
    BY <1>1, ElementOfSeq DEF InOrder, IsRow
<1>3. row.at \in Int
    BY DEF IsRow
<1>4. n # 0 => read[n].at <= row.at /\ read[n].at \in Int
    BY <1>1, <1>2, EmptySeq
<1> HIDE DEF new, n
<1>5. ASSUME NEW i \in 1 .. n + 1, NEW j \in 1 .. n + 1, i <= j
      PROVE  new[i].at <= new[j].at
    <2>1. CASE j <= n
        <3>1. i \in 1 .. n /\ j \in 1 .. n
            BY <1>1, <1>5, <2>1
        <3> QED
            BY <1>1, <1>5, <3>1 DEF InOrder
    <2>2. CASE j = n + 1 /\ i <= n
        <3>1. i \in 1 .. n /\ n # 0
            BY <1>1, <2>2
        <3>2. new[i].at = read[i].at /\ new[j].at = row.at
            BY <1>1, <2>2, <3>1
        <3> QED
            BY <1>2, <1>3, <1>4, <3>1, <3>2
    <2>3. CASE j = n + 1 /\ i = n + 1
        BY <1>1, <1>3, <2>3
    <2> QED
        BY <1>1, <1>5, <2>1, <2>2, <2>3
<1> QED
    BY <1>1, <1>5 DEF InOrder, new

\* The last instant read is that of the last row.
LEMMA LastInstant ==
    ASSUME NEW read, NEW panels, AccumulatorIs(acc, panels, read)
    PROVE  acc.last_at = IF read = <<>> THEN Null ELSE read[Len(read)].at
BY DEF AccumulatorIs

\* The head of a page, accepted.
LEMMA RowConsumed ==
    ASSUME input \in Inputs, schema \in SCHEMAS, ScanTypes, NEW read, HasRead(read),
           scan.hits # <<>>, NEW row, row = Head(scan.hits), Accepts(row),
           acc' = AddRow(acc, Panels(schema), row),
           scan' = [scan EXCEPT !.rows = @ + 1, !.hits = Tail(@)],
           UNCHANGED <<input, schema, faults>>
    PROVE  HasRead(Append(read, row))'
<1> DEFINE R == AllRows(schema)
           hits == scan.hits
           n == Len(read)
           m == Len(hits)
           new == Append(read, row)
<1>1. /\ hits \in Seq(R) /\ scan.rows \in Nat /\ scan.after \in Nat /\ faults \in Nat
      /\ scan'.rows = scan.rows + 1 /\ scan'.hits = Tail(hits) /\ scan'.after = scan.after
    BY DEF ScanTypes
<1>2. \A r \in R : IsRow(r)
    BY FeedIs
<1>3. read \in Seq(R) /\ InOrder(read) /\ n = scan.rows /\ AccumulatorIs(acc, Panels(schema), read)
    BY DEF HasRead
<1>4. /\ row \in R /\ m \in Nat \ {0} /\ row = hits[1]
      /\ Tail(hits) \in Seq(R) /\ Len(Tail(hits)) = m - 1
      /\ \A i \in 1 .. m - 1 : Tail(hits)[i] = hits[i + 1]
    BY <1>1, HeadTailProperties, EmptySeq
<1>5. \A i \in 1 .. m : IsRow(hits[i])
    BY <1>1, <1>2, ElementOfSeq
<1>6. /\ new \in Seq(R) /\ Len(new) = n + 1 /\ new[n + 1] = row
      /\ \A i \in 1 .. n : new[i] = read[i]
    BY <1>3, <1>4, AppendProperties
<1>7. acc'.last_at = row.at /\ row.at \in Int
    BY <1>2, <1>4 DEF AddRow, IsRow
<1>8. acc.last_at = IF read = <<>> THEN Null ELSE read[n].at
    BY <1>3, LastInstant
<1>9. read # <<>> => n \in 1 .. n /\ read[n] \in R
    BY <1>3, EmptySeq, ElementOfSeq
<1>10. acc.last_at # Null => acc.last_at \in Int /\ acc.last_at <= row.at
    <2>1. acc.last_at # Null => acc.last_at \in Int
        BY <1>2, <1>8, <1>9 DEF IsRow
    <2> QED
        BY <1>7, <2>1 DEF Accepts
<1>11. InOrder(new)
    <2>1. read # <<>> => read[n].at <= row.at
        <3>1. read # <<>> => read[n].at \in Int
            BY <1>2, <1>9 DEF IsRow
        <3> QED
            BY <1>8, <1>10, <3>1, PipelineAssumption
    <2> QED
        BY <1>2, <1>3, <1>4, <2>1, OrderKept
<1>12. AccumulatorIs(acc', Panels(schema), new)
    <2>1. Extends(read, new, n + 1)
        BY <1>2, <1>3, <1>4, OneMore
    <2>2. Null \notin Int
        BY PipelineAssumption
    <2> HIDE DEF new, n
    <2>3. AccumulatorIs(AddRow(acc, Panels(schema), new[n + 1]), Panels(schema), new)
        BY <1>3, <1>11, <2>1, <2>2, RowAdded
    <2> QED
        BY <1>6, <2>3
<1>13. Feed' = Feed /\ AllRows(schema)' = R /\ Panels(schema)' = Panels(schema)
    BY DEF Feed, AllRows, Rows, Panels
<1> HIDE DEF new, R, hits, n, m
<1> DEFINE r == scan.rows
<1>14. r \in Nat /\ m \in Nat /\ m >= 1 /\ n = r /\ scan.after \in Nat
    BY <1>1, <1>3, <1>4
<1>15. /\ scan'.rows = r + 1 /\ scan'.hits = Tail(hits) /\ Len(Tail(hits)) = m - 1
       /\ scan'.after = scan.after
    BY <1>1, <1>4
<1>16. Straight(read) => Straight(new)'
    <2> SUFFICES ASSUME Straight(read) PROVE Straight(new)'
        OBVIOUS
    <2>1. /\ r + m = scan.after
          /\ \A i \in 1 .. r : read[i] = Feed[i]
          /\ \A i \in 1 .. m : hits[i] = Feed[r + i]
        BY DEF Straight, m, hits
    <2> HIDE DEF r
    <2>2. scan'.rows + Len(scan'.hits) = scan'.after
        <3>1. (r + 1) + (m - 1) = r + m
            BY <1>14
        <3> QED
            BY <1>15, <2>1, <3>1
    <2>3. \A i \in 1 .. scan'.rows : new[i] = Feed[i]
        <3>1. \A i \in 1 .. r : new[i] = Feed[i]
            BY <1>6, <1>14, <2>1
        <3>2. new[r + 1] = Feed[r + 1]
            <4>1. new[r + 1] = hits[1] /\ 1 \in 1 .. m
                BY <1>4, <1>6, <1>14
            <4> QED
                BY <2>1, <4>1
        <3>3. \A i \in 1 .. r + 1 : i \in 1 .. r \/ i = r + 1
            BY <1>14
        <3> QED
            BY <1>15, <3>1, <3>2, <3>3
    <2>4. \A i \in 1 .. Len(scan'.hits) : scan'.hits[i] = Feed[scan'.rows + i]
        <3> SUFFICES ASSUME NEW i \in 1 .. m - 1 PROVE Tail(hits)[i] = Feed[(r + 1) + i]
            BY <1>15
        <3>1. i + 1 \in 1 .. m /\ r + (i + 1) = (r + 1) + i
            BY <1>14
        <3>2. Tail(hits)[i] = Feed[r + (i + 1)]
            BY <1>4, <2>1, <3>1
        <3> QED
            BY <3>1, <3>2
    <2>5. Straight(new)' <=>
              /\ scan'.rows + Len(scan'.hits) = scan'.after
              /\ \A i \in 1 .. scan'.rows : new[i] = Feed[i]
              /\ \A i \in 1 .. Len(scan'.hits) : scan'.hits[i] = Feed[scan'.rows + i]
        BY <1>13 DEF Straight
    <2> QED
        BY <2>2, <2>3, <2>4, <2>5
<1>17. Shifted => Shifted'
    BY <1>1, <1>4 DEF Shifted, m, hits
<1>18. Refused => Refused'
    <2> SUFFICES ASSUME Refused PROVE Refused'
        OBVIOUS
    <2> DEFINE last == hits[m]
    <2>1. /\ faults > 0
          /\ \/ acc.last_at # Null /\ last.at < acc.last_at
             \/ \E i \in 1 .. m - 1 : last.at < hits[i].at
        BY DEF Refused, hits, m
    <2>2. last.at \in Int /\ \A i \in 1 .. m : hits[i].at \in Int
        BY <1>4, <1>5 DEF IsRow
    <2>3. m # 1
        BY <1>4, <1>7, <1>10, <2>1, <2>2 DEF hits
    <2>4. Tail(hits) # <<>> /\ Tail(hits)[m - 1] = last
        BY <1>4, <2>3, EmptySeq
    <2>5. \/ acc'.last_at # Null /\ last.at < acc'.last_at
          \/ \E i \in 1 .. m - 2 : last.at < Tail(hits)[i].at
        <3>1. acc'.last_at # Null
            BY <1>7, PipelineAssumption
        <3>2. CASE acc.last_at # Null /\ last.at < acc.last_at
            BY <1>7, <1>10, <2>2, <3>1, <3>2
        <3>3. CASE last.at < hits[1].at
            BY <1>4, <1>7, <3>1, <3>3
        <3>4. ASSUME NEW i \in 2 .. m - 1, last.at < hits[i].at
              PROVE  \E k \in 1 .. m - 2 : last.at < Tail(hits)[k].at
            <4>1. i - 1 \in 1 .. m - 2 /\ i - 1 \in 1 .. m - 1 /\ (i - 1) + 1 = i
                BY <1>4, <3>4
            <4>2. Tail(hits)[i - 1] = hits[i]
                BY <1>4, <4>1
            <4> QED
                BY <3>4, <4>1, <4>2
        <3> QED
            BY <1>4, <2>1, <3>2, <3>3, <3>4
    <2>6. Len(scan'.hits) = m - 1 /\ scan'.hits = Tail(hits) /\ (m - 1) - 1 = m - 2
        BY <1>1, <1>4
    <2> QED
        BY <2>1, <2>4, <2>5, <2>6 DEF Refused
<1>19. HasRead(new)'
    BY <1>1, <1>3, <1>6, <1>12, <1>11, <1>13, <1>16, <1>17, <1>18 DEF HasRead
<1> QED
    BY <1>19 DEF new

\* Steps that leave the finished analyses alone.
LEMMA AnalysesStay ==
    ASSUME AnalysesInv, UNCHANGED <<input, analysis>>,
           AnalysedSchemas' = AnalysedSchemas \/ pc' = "failed"
    PROVE  AnalysesInv'
<1>1. DOMAIN analysis' = AnalysedSchemas'
    BY DEF AnalysesInv, AnalysedSchemas, Reading
<1>2. \A s, read : AnalysisOf(s, read)' = AnalysisOf(s, read)
    BY DEF AnalysisOf, AllRows, Rows, Panels
<1>3. \A s \in DOMAIN analysis : \E read : AnalysisOf(s, read)'
    BY <1>2 DEF AnalysesInv
<1> QED
    BY <1>1, <1>3 DEF AnalysesInv

LEMMA ConsumeRowReads == ReadInv /\ ConsumeRow => ScanTypes' /\ ReadersInv' /\ AnalysesInv'
<1> SUFFICES ASSUME ReadInv, ConsumeRow PROVE ScanTypes' /\ ReadersInv' /\ AnalysesInv'
    OBVIOUS
<1>1. /\ input \in Inputs /\ schema \in SCHEMAS /\ ScanTypes /\ PagesInv /\ pc = "consume"
      /\ scan.hits # <<>> /\ UNCHANGED <<input, schema, analysis, faults>>
    BY DEF ReadInv, PitInv, ReadersInv, Reading, ConsumeRow
<1>2. PICK read : HasRead(read)
    BY DEF ReadInv, ReadersInv, Reading, ConsumeRow
<1>3. /\ scan.hits \in Seq(AllRows(schema)) /\ Tail(scan.hits) \in Seq(AllRows(schema))
      /\ Len(scan.hits) \in Nat /\ Len(Tail(scan.hits)) = Len(scan.hits) - 1
    BY <1>1, HeadTailProperties, LenProperties DEF ScanTypes
<1>4. pc' \in {"consume", "close"}
    BY DEF ConsumeRow
<1>5. AnalysesInv'
    BY <1>1, <1>4, AnalysesStay DEF ReadInv, AnalysedSchemas, Reading
<1>6. AllRows(schema)' = AllRows(schema) /\ Feed' = Feed
    BY <1>1 DEF AllRows, Rows, Feed
<1>7. CASE /\ Accepts(Head(scan.hits))
           /\ acc' = AddRow(acc, Panels(schema), Head(scan.hits))
           /\ scan' = [scan EXCEPT !.rows = @ + 1, !.hits = Tail(@)]
           /\ UNCHANGED pc
    <2>1. ScanTypes'
        <3>1. scan' \in [after : Nat, hits : Seq(AllRows(schema)), last : BOOLEAN, pages : Nat,
                         rows : Nat, total : Nat, failed : BOOLEAN]
            <4> DEFINE S == Seq(AllRows(schema))
            <4>1. /\ scan \in [after : Nat, hits : S, last : BOOLEAN, pages : Nat,
                               rows : Nat, total : Nat, failed : BOOLEAN]
                  /\ Tail(scan.hits) \in S
                BY <1>1, <1>3 DEF ScanTypes
            <4> HIDE DEF S
            <4>2. scan.rows + 1 \in Nat
                BY <4>1
            <4>3. scan' \in [after : Nat, hits : S, last : BOOLEAN, pages : Nat,
                             rows : Nat, total : Nat, failed : BOOLEAN]
                BY <1>7, <4>1, <4>2
            <4> QED
                BY <4>3 DEF S
        <3>2. Len(scan'.hits) <= PAGE
            BY <1>1, <1>3, <1>7, PipelineAssumption DEF ScanTypes
        <3> QED
            BY <1>1, <1>6, <3>1, <3>2 DEF ScanTypes
    <2>2. PagesInv'
        BY <1>1, <1>6, <1>7 DEF PagesInv, ScanTypes
    <2>3. PICK row : row = Head(scan.hits)
        OBVIOUS
    <2>4. HasRead(Append(read, row))'
        BY <1>1, <1>2, <1>7, <2>3, RowConsumed
    <2> QED
        BY <1>5, <2>1, <2>2, <2>4 DEF ReadersInv
<1>8. CASE /\ scan' = [scan EXCEPT !.failed = TRUE]
           /\ pc' = "close"
           /\ UNCHANGED acc
    <2>1. /\ scan' \in [after : Nat, hits : Seq(AllRows(schema)), last : BOOLEAN, pages : Nat,
                        rows : Nat, total : Nat, failed : BOOLEAN]
          /\ scan'.hits = scan.hits /\ scan'.rows = scan.rows /\ scan'.after = scan.after
          /\ scan'.pages = scan.pages /\ scan'.total = scan.total /\ scan'.failed
        BY <1>1, <1>8 DEF ScanTypes
    <2>2. ScanTypes'
        BY <1>1, <1>6, <2>1 DEF ScanTypes
    <2>3. PagesInv'
        BY <1>1, <1>6, <1>8, <2>1 DEF PagesInv
    <2>4. HasRead(read)'
        BY <1>1, <1>2, <1>6, <1>8, <2>1 DEF HasRead, Panels, Straight, Shifted, Refused
    <2> QED
        BY <1>5, <2>2, <2>3, <2>4 DEF ReadersInv
<1> QED
    BY <1>7, <1>8 DEF ConsumeRow

\* Steps of the reader that read no row.
LEMMA ReaderStays ==
    ASSUME ReadInv, Reading, UNCHANGED <<input, schema, analysis, acc, faults>>,
           \/ UNCHANGED scan
           \/ scan' = [scan EXCEPT !.failed = TRUE] /\ pc' = "close",
           Reading' \/ pc' = "failed", Reading' => PagesInv'
    PROVE  ScanTypes' /\ ReadersInv' /\ AnalysesInv'
<1>1. input \in Inputs /\ schema \in SCHEMAS /\ ScanTypes /\ PagesInv
    BY DEF ReadInv, PitInv, ReadersInv
<1>2. PICK read : HasRead(read)
    BY DEF ReadInv, ReadersInv
<1>3. AnalysesInv'
    BY AnalysesStay DEF ReadInv, AnalysedSchemas, Reading
<1>4. AllRows(schema)' = AllRows(schema) /\ Feed' = Feed
    BY <1>1 DEF AllRows, Rows, Feed
<1>5. /\ scan' \in [after : Nat, hits : Seq(AllRows(schema)), last : BOOLEAN, pages : Nat,
                    rows : Nat, total : Nat, failed : BOOLEAN]
      /\ scan'.hits = scan.hits /\ scan'.rows = scan.rows /\ scan'.after = scan.after
    BY <1>1 DEF ScanTypes
<1>6. ScanTypes'
    BY <1>1, <1>4, <1>5 DEF ScanTypes
<1>7. HasRead(read)'
    BY <1>1, <1>2, <1>4, <1>5 DEF HasRead, Panels, Straight, Shifted, Refused
<1> QED
    BY <1>1, <1>3, <1>6, <1>7 DEF ReadersInv, Reading

\* What the cluster returns from a position.
LEMMA PageIs ==
    ASSUME input \in Inputs, schema \in SCHEMAS, NEW f \in 0 .. Len(Feed), NEW p, p = PageFrom(f)
    PROVE  /\ p \in Seq(AllRows(schema)) /\ Len(p) \in Nat /\ Len(p) <= PAGE
           /\ f + Len(p) <= Len(Feed)
           /\ Len(p) < PAGE => f + Len(p) = Len(Feed)
           /\ \A i \in 1 .. Len(p) : p[i] = Feed[f + i]
<1> DEFINE R == AllRows(schema)
           n == Len(Feed)
           e == Earlier(f + PAGE, n)
<1>1. n \in Nat /\ f \in Nat /\ f <= n /\ PAGE \in Nat \ {0}
      /\ DOMAIN Feed = 1 .. n /\ \A i \in 1 .. n : Feed[i] \in R
    BY FeedIs, PipelineAssumption DEF Feed, AllRows
<1>2. p = SubSeq(Feed, f + 1, e)
    BY DEF PageFrom, Feed
<1> HIDE DEF e, n, R
<1>3. e \in Nat /\ f <= e /\ e <= n /\ e <= f + PAGE /\ (e < f + PAGE => e = n)
    <2>1. CASE f + PAGE <= n
        <3>1. e = f + PAGE
            BY <2>1 DEF Earlier, e
        <3> QED
            BY <1>1, <2>1, <3>1
    <2>2. CASE ~(f + PAGE <= n)
        <3>1. e = n
            BY <2>2 DEF Earlier, e
        <3> QED
            BY <1>1, <2>2, <3>1
    <2> QED
        BY <2>1, <2>2
<1>4. \A i \in f + 1 .. e : Feed[i] \in R
    BY <1>1, <1>3
<1>5. f + 1 \in Int /\ e \in Int
    BY <1>1, <1>3
<1>6. /\ p \in Seq(R)
      /\ Len(p) = IF f + 1 <= e THEN e - (f + 1) + 1 ELSE 0
      /\ \A i \in 1 .. e - (f + 1) + 1 : p[i] = Feed[(f + 1) + i - 1]
    BY <1>2, <1>4, <1>5, SubSeqProperties
<1>7. Len(p) = e - f /\ e - (f + 1) + 1 = e - f
    BY <1>1, <1>3, <1>6
<1>8. \A i \in 1 .. Len(p) : p[i] = Feed[f + i]
    <2> TAKE i \in 1 .. Len(p)
    <2>1. i \in 1 .. e - (f + 1) + 1 /\ (f + 1) + i - 1 = f + i
        BY <1>1, <1>3, <1>7
    <2> QED
        BY <1>6, <2>1
<1>9. Len(p) \in Nat /\ Len(p) <= PAGE /\ f + Len(p) <= n /\ (Len(p) < PAGE => f + Len(p) = n)
    <2> DEFINE k == Len(p)
    <2>1. k = e - f
        BY <1>7
    <2> HIDE DEF k
    <2>2. k \in Nat /\ k <= PAGE /\ f + k <= n /\ (k < PAGE => f + k = n)
        BY <1>1, <1>3, <2>1
    <2> QED
        BY <2>2 DEF k
<1> QED
    BY <1>6, <1>8, <1>9 DEF R, n

\* A page of either kind: its type, and what is left to show of it.
IsPage(from, hits) ==
    /\ from \in 0 .. Len(Feed) /\ hits \in Seq(AllRows(schema)) /\ Len(hits) \in Nat
    /\ Len(hits) <= PAGE /\ from + Len(hits) <= Len(Feed)
    /\ Len(hits) < PAGE => from + Len(hits) = Len(Feed)

Arrives(from, hits, wrong) ==
    /\ scan' = [scan EXCEPT !.after = from + Len(hits),
                            !.hits = hits,
                            !.last = Len(hits) < PAGE,
                            !.total = IF scan.pages = 0 THEN Len(Rows(schema)) ELSE @,
                            !.pages = @ + 1]
    /\ faults' = faults + wrong
    /\ pc' = "consume"
    /\ UNCHANGED <<input, schema, acc>>

LEMMA PageArrives ==
    ASSUME input \in Inputs, schema \in SCHEMAS, ScanTypes, PagesInv, pc = "search",
           NEW from, NEW hits, IsPage(from, hits),
           NEW wrong \in {0, 1}, faults + wrong <= input.faults, Arrives(from, hits, wrong)
    PROVE  ScanTypes' /\ PagesInv'
<1> DEFINE S == Seq(AllRows(schema))
           n == Len(Feed)
<1>1. n \in Nat /\ PAGE \in Nat /\ input.faults \in Nat
    BY FeedIs, PipelineAssumption DEF Feed
<1>2. /\ scan \in [after : Nat, hits : S, last : BOOLEAN, pages : Nat,
                   rows : Nat, total : Nat, failed : BOOLEAN]
      /\ hits \in S /\ faults \in Nat
    BY DEF ScanTypes, IsPage
<1>3. Feed' = Feed /\ AllRows(schema)' = AllRows(schema)
    BY DEF Arrives, Feed, AllRows, Rows
<1>4. /\ from + Len(hits) \in Nat /\ from + Len(hits) <= n
      /\ Len(hits) < PAGE => from + Len(hits) = n
    BY <1>1 DEF IsPage
<1>5. /\ scan'.after = from + Len(hits) /\ scan'.hits = hits /\ scan'.last = (Len(hits) < PAGE)
      /\ scan'.total = IF scan.pages = 0 THEN n ELSE scan.total
      /\ scan'.pages = scan.pages + 1 /\ scan'.rows = scan.rows
    BY <1>2 DEF Arrives, Feed
<1> HIDE DEF n, S
<1>6. scan' \in [after : Nat, hits : S, last : BOOLEAN, pages : Nat,
                 rows : Nat, total : Nat, failed : BOOLEAN]
    <2> DEFINE a == from + Len(hits)
               l == Len(hits) < PAGE
               t == IF scan.pages = 0 THEN n ELSE scan.total
               k == scan.pages + 1
    <2>1. a \in Nat /\ l \in BOOLEAN /\ t \in Nat /\ k \in Nat
        BY <1>1, <1>2, <1>4
    <2>2. scan' = [scan EXCEPT !.after = a, !.hits = hits, !.last = l, !.total = t, !.pages = k]
        BY DEF Arrives, Feed, n
    <2> HIDE DEF a, l, t, k
    <2> QED
        BY <1>2, <2>1, <2>2
<1>7. ScanTypes'
    <2>1. faults' \in 0 .. input'.faults
        BY <1>1, <1>2 DEF Arrives
    <2>2. Len(scan'.hits) <= PAGE
        BY <1>5 DEF IsPage
    <2>3. scan' \in [after : Nat, hits : Seq(AllRows(schema)'), last : BOOLEAN, pages : Nat,
                     rows : Nat, total : Nat, failed : BOOLEAN]
        BY <1>3, <1>6 DEF S
    <2> QED
        BY <2>1, <2>2, <2>3 DEF ScanTypes
<1>8. scan.pages # 0 => scan.total = n
    BY DEF PagesInv, n
<1>9. scan'.pages # 0 /\ scan'.total = n /\ scan'.after <= n /\ (scan'.last => scan'.after = n)
    <2>1. scan'.pages # 0
        BY <1>2, <1>5
    <2>2. scan'.total = n
        BY <1>5, <1>8
    <2>3. scan'.after <= n /\ (scan'.last => scan'.after = n)
        BY <1>4, <1>5
    <2> QED
        BY <2>1, <2>2, <2>3
<1>10. PagesInv'
    BY <1>3, <1>9 DEF PagesInv, n, Arrives
<1> QED
    BY <1>7, <1>10

\* The rows read stay; the page follows them, or is the first wrong one.
LEMMA PageFollows ==
    ASSUME input \in Inputs, schema \in SCHEMAS, ScanTypes, PagesInv, pc = "search",
           NEW read, HasRead(read), NEW from, NEW hits, IsPage(from, hits),
           NEW wrong \in {0, 1}, faults + wrong <= input.faults, Arrives(from, hits, wrong),
           OneFault /\ wrong = 0 => /\ from = scan.after
                                    /\ \A i \in 1 .. Len(hits) : hits[i] = Feed[from + i],
           OneFault /\ wrong = 1 =>
               \/ from # scan.after
               \/ from = scan.after /\ hits # <<>>
                      /\ \E i \in 1 .. Len(hits) - 1 : hits[Len(hits)].at < hits[i].at
    PROVE  HasRead(read)'
<1>1. /\ scan.hits = <<>> /\ Len(scan.hits) = 0 /\ scan.rows \in Nat /\ scan.after \in Nat
      /\ faults \in Nat /\ from \in Nat /\ Len(hits) \in Nat
    BY EmptySeq, FeedIs DEF PagesInv, ScanTypes, IsPage, Feed
<1>2. /\ scan'.after = from + Len(hits) /\ scan'.hits = hits /\ scan'.rows = scan.rows
      /\ faults' = faults + wrong
    BY DEF Arrives, ScanTypes
<1>3. AllRows(schema)' = AllRows(schema) /\ Panels(schema)' = Panels(schema) /\ Feed' = Feed
    BY DEF AllRows, Rows, Panels, Feed, Arrives
<1>4. ASSUME OneFault PROVE Straight(read)' \/ Shifted' \/ Refused'
    <2>1. Straight(read) \/ Shifted
        BY <1>1, <1>4 DEF HasRead, Refused
    <2>2. CASE wrong = 0
        <3>1. from = scan.after /\ \A i \in 1 .. Len(hits) : hits[i] = Feed[from + i]
            BY <1>4, <2>2
        <3>2. CASE Straight(read)
            <4>1. scan.rows = scan.after /\ \A i \in 1 .. scan.rows : read[i] = Feed[i]
                BY <1>1, <3>2 DEF Straight
            <4> QED
                BY <1>1, <1>2, <1>3, <3>1, <4>1 DEF Straight
        <3>3. CASE Shifted
            <4>1. scan.rows # scan.after /\ faults > 0
                BY <1>1, <3>3 DEF Shifted
            <4>2. scan.rows + Len(hits) # scan.after + Len(hits)
                BY <1>1, <4>1
            <4> QED
                BY <1>1, <1>2, <2>2, <3>1, <4>1, <4>2 DEF Shifted
        <3> QED
            BY <2>1, <3>2, <3>3
    <2>3. CASE wrong = 1
        <3>1. faults = 0
            <4>1. input.faults <= 1 /\ input.faults \in Nat
                BY <1>4, PipelineAssumption DEF OneFault
            <4> QED
                BY <1>1, <2>3, <4>1
        <3>2. scan.rows = scan.after
            BY <1>1, <2>1, <3>1 DEF Straight, Shifted
        <3>3. CASE from # scan.after
            <4>1. scan.rows + Len(hits) # from + Len(hits)
                BY <1>1, <3>2, <3>3
            <4> QED
                BY <1>2, <2>3, <3>1, <4>1 DEF Shifted
        <3>4. CASE /\ hits # <<>>
                   /\ \E i \in 1 .. Len(hits) - 1 : hits[Len(hits)].at < hits[i].at
            BY <1>2, <2>3, <3>1, <3>4 DEF Refused
        <3> QED
            BY <1>4, <2>3, <3>3, <3>4
    <2> QED
        BY <2>2, <2>3
<1>5. /\ read \in Seq(AllRows(schema)) /\ InOrder(read) /\ Len(read) = scan.rows
      /\ AccumulatorIs(acc, Panels(schema), read)
    BY DEF HasRead
<1>6. acc' = acc /\ OneFault' = OneFault
    BY DEF Arrives
<1> QED
    BY <1>2, <1>3, <1>4, <1>5, <1>6 DEF HasRead

\* The three kinds of pages.
NextPage(page) == page = [from |-> scan.after, hits |-> PageFrom(scan.after), wrong |-> 0]
ShiftedPage(page) ==
    /\ faults < input.faults
    /\ \E f \in {scan.after - 1, scan.after + 1} \cap (0 .. Len(Feed)) :
           page = [from |-> f, hits |-> PageFrom(f), wrong |-> 1]
ReversedPage(page) ==
    /\ faults < input.faults
    /\ \E p : /\ p = PageFrom(scan.after) /\ p # <<>> /\ p[1].at < p[Len(p)].at
              /\ page = [from |-> scan.after, hits |-> Reverse(p), wrong |-> 1]

LEMMA DeliveriesAre ==
    ASSUME ScanTypes, input \in Inputs, NEW page \in Deliveries
    PROVE  NextPage(page) \/ ShiftedPage(page) \/ ReversedPage(page)
<1>1. faults >= input.faults \/ faults < input.faults
    BY PipelineAssumption DEF ScanTypes
<1>2. CASE faults >= input.faults
    BY <1>2 DEF Deliveries, NextPage
<1>3. CASE faults < input.faults /\ ~(faults >= input.faults)
    BY <1>3 DEF Deliveries, NextPage, ShiftedPage, ReversedPage, Feed
<1> QED
    BY <1>1, <1>2, <1>3

LEMMA ReversedIs ==
    ASSUME NEW R, NEW p \in Seq(R), p # <<>>, NEW q, q = Reverse(p)
    PROVE  /\ q \in Seq(R) /\ Len(q) = Len(p) /\ q # <<>>
           /\ q[1] = p[Len(p)] /\ q[Len(q)] = p[1]
<1> DEFINE n == Len(p)
<1>1. n \in Nat \ {0} /\ p \in [1 .. n -> R]
    BY EmptySeq, LenProperties
<1> HIDE DEF n
<1>2. q = [i \in 1 .. n |-> p[(n - i) + 1]]
    BY DEF Reverse, n
<1>3. \A i \in 1 .. n : (n - i) + 1 \in 1 .. n
    BY <1>1
<1>4. q \in [1 .. n -> R]
    BY <1>1, <1>2, <1>3
<1>5. q \in Seq(R)
    BY <1>1, <1>4, SeqDef
<1>6. Len(q) = n
    <2>1. Len(q) \in Nat /\ 1 .. Len(q) = 1 .. n
        BY <1>4, <1>5, LenProperties
    <2> QED
        BY <1>1, <2>1
<1>7. 1 \in 1 .. n /\ n \in 1 .. n /\ (n - 1) + 1 = n /\ (n - n) + 1 = 1
    BY <1>1
<1>8. q[1] = p[n] /\ q[n] = p[1]
    BY <1>2, <1>7
<1>9. q # <<>>
    BY <1>1, <1>6, EmptySeq
<1> QED
    BY <1>5, <1>6, <1>8, <1>9 DEF n

LEMMA SearchPageReads == ReadInv /\ SearchPage => ScanTypes' /\ ReadersInv' /\ AnalysesInv'
<1> SUFFICES ASSUME ReadInv, SearchPage PROVE ScanTypes' /\ ReadersInv' /\ AnalysesInv'
    OBVIOUS
<1>1. /\ input \in Inputs /\ schema \in SCHEMAS /\ ScanTypes /\ PagesInv /\ pc = "search"
      /\ UNCHANGED <<input, schema, analysis, acc>> /\ pc' = "consume"
    BY DEF ReadInv, PitInv, ReadersInv, Reading, SearchPage
<1>2. PICK read : HasRead(read)
    BY DEF ReadInv, ReadersInv, Reading, SearchPage
<1>3. AnalysesInv'
    BY <1>1, AnalysesStay DEF ReadInv, AnalysedSchemas, Reading
<1>4. PICK page \in Deliveries :
          /\ scan' = [scan EXCEPT !.after = page.from + Len(page.hits),
                                  !.hits = page.hits,
                                  !.last = Len(page.hits) < PAGE,
                                  !.total = IF scan.pages = 0 THEN Len(Rows(schema)) ELSE @,
                                  !.pages = @ + 1]
          /\ faults' = faults + page.wrong
    BY DEF SearchPage
<1>5. Arrives(page.from, page.hits, page.wrong)
    BY <1>1, <1>4 DEF Arrives
<1>6. scan.after \in 0 .. Len(Feed) /\ faults \in Nat /\ faults <= input.faults
      /\ input.faults \in Nat
    BY <1>1, FeedIs, PipelineAssumption DEF ScanTypes, PagesInv, Feed
<1>7. IsPage(page.from, page.hits) /\ page.wrong \in {0, 1} /\ faults + page.wrong <= input.faults
    <2>1. CASE NextPage(page)
        <3>1. page.from = scan.after /\ page.hits = PageFrom(scan.after) /\ page.wrong = 0
            BY <2>1 DEF NextPage
        <3> QED
            BY <1>1, <1>6, <3>1, PageIs DEF IsPage
    <2>2. CASE ShiftedPage(page)
        <3>1. page.from \in 0 .. Len(Feed) /\ page.hits = PageFrom(page.from) /\ page.wrong = 1
              /\ faults < input.faults
            BY <2>2 DEF ShiftedPage
        <3> QED
            BY <1>1, <1>6, <3>1, PageIs DEF IsPage
    <2>3. CASE ReversedPage(page)
        <3>1. PICK p : /\ p = PageFrom(scan.after) /\ p # <<>>
                       /\ page = [from |-> scan.after, hits |-> Reverse(p), wrong |-> 1]
            BY <2>3 DEF ReversedPage
        <3>2. IsPage(scan.after, p)
            BY <1>1, <1>6, <3>1, PageIs DEF IsPage
        <3>3. Reverse(p) \in Seq(AllRows(schema)) /\ Len(Reverse(p)) = Len(p)
            BY <3>1, <3>2, ReversedIs DEF IsPage
        <3>4. IsPage(scan.after, Reverse(p))
            BY <3>2, <3>3 DEF IsPage
        <3> QED
            BY <1>6, <2>3, <3>1, <3>4 DEF ReversedPage
    <2> QED
        BY <1>1, <2>1, <2>2, <2>3, DeliveriesAre
<1>8. page.wrong = 0 => /\ page.from = scan.after
                        /\ \A i \in 1 .. Len(page.hits) : page.hits[i] = Feed[page.from + i]
    <2> SUFFICES ASSUME page.wrong = 0
                 PROVE  /\ page.from = scan.after
                        /\ \A i \in 1 .. Len(page.hits) : page.hits[i] = Feed[page.from + i]
        OBVIOUS
    <2>1. NextPage(page)
        BY <1>1, DeliveriesAre DEF ShiftedPage, ReversedPage
    <2>2. page.from = scan.after /\ page.hits = PageFrom(scan.after)
        BY <2>1 DEF NextPage
    <2> QED
        BY <1>1, <1>6, <2>2, PageIs
<1>9. page.wrong = 1 =>
          \/ page.from # scan.after
          \/ /\ page.from = scan.after /\ page.hits # <<>>
             /\ \E i \in 1 .. Len(page.hits) - 1 : page.hits[Len(page.hits)].at < page.hits[i].at
    <2>1. CASE NextPage(page)
        BY <2>1 DEF NextPage
    <2>2. CASE ShiftedPage(page)
        <3>1. page.from \in {scan.after - 1, scan.after + 1}
            BY <2>2 DEF ShiftedPage
        <3> QED
            BY <1>6, <3>1
    <2>3. CASE ReversedPage(page)
        <3>1. PICK p : /\ p = PageFrom(scan.after) /\ p # <<>> /\ p[1].at < p[Len(p)].at
                       /\ page = [from |-> scan.after, hits |-> Reverse(p), wrong |-> 1]
            BY <2>3 DEF ReversedPage
        <3>2. PICK q : q = Reverse(p)
            OBVIOUS
        <3>3. p \in Seq(AllRows(schema)) /\ Len(p) \in Nat
            BY <1>1, <1>6, <3>1, PageIs
        <3>4. q # <<>> /\ Len(q) = Len(p) /\ q[1] = p[Len(p)] /\ q[Len(q)] = p[1]
            BY <3>1, <3>2, <3>3, ReversedIs
        <3>5. p[1] \in AllRows(schema) /\ Len(p) # 0
            BY <3>1, <3>3, EmptySeq, ElementOfSeq
        <3>6. Len(p) # 1
            <4>1. p[1].at \in Int
                BY <1>1, <3>5, FeedIs DEF IsRow
            <4> QED
                BY <3>1, <4>1
        <3>7. 1 \in 1 .. Len(q) - 1 /\ q[Len(q)].at < q[1].at
            <4>1. q[Len(q)].at < q[1].at
                BY <3>1, <3>4
            <4>2. 1 \in 1 .. Len(q) - 1
                BY <3>3, <3>4, <3>5, <3>6
            <4> QED
                BY <4>1, <4>2
        <3>8. page.from = scan.after /\ page.hits = q
            BY <3>1, <3>2
        <3> QED
            BY <3>4, <3>7, <3>8
    <2> QED
        BY <1>1, <2>1, <2>2, <2>3, DeliveriesAre
<1>10. ScanTypes' /\ PagesInv'
    BY <1>1, <1>5, <1>7, PageArrives
<1>11. HasRead(read)'
    BY <1>1, <1>2, <1>5, <1>7, <1>8, <1>9, PageFollows
<1> QED
    BY <1>3, <1>10, <1>11 DEF ReadersInv

-------------------------------------------------------------------------------
\* The other steps of the reader.
LEMMA OpenPitReads == ReadInv /\ OpenPit => ScanTypes' /\ ReadersInv' /\ AnalysesInv'
<1> SUFFICES ASSUME ReadInv, OpenPit PROVE ScanTypes' /\ ReadersInv' /\ AnalysesInv'
    OBVIOUS
<1>1. /\ UNCHANGED <<input, schema, scan, analysis, acc, faults>>
      /\ pc = "open" /\ pc' \in {"search", "failed"}
    BY DEF OpenPit
<1>2. PagesInv /\ scan.hits = <<>>
    BY <1>1 DEF ReadInv, ReadersInv, Reading, PagesInv, NoScan
<1>3. Reading' => PagesInv'
    BY <1>1, <1>2 DEF PagesInv, Reading, Feed, Rows
<1> QED
    BY <1>1, <1>3, ReaderStays DEF Reading

LEMMA SearchFailsReads == ReadInv /\ SearchFails => ScanTypes' /\ ReadersInv' /\ AnalysesInv'
<1> SUFFICES ASSUME ReadInv, SearchFails PROVE ScanTypes' /\ ReadersInv' /\ AnalysesInv'
    OBVIOUS
<1>1. /\ UNCHANGED <<input, schema, analysis, acc, faults>>
      /\ pc = "search" /\ pc' = "close" /\ scan' = [scan EXCEPT !.failed = TRUE]
    BY DEF SearchFails
<1>2. PagesInv /\ ScanTypes
    BY <1>1 DEF ReadInv, ReadersInv, Reading
<1>3. PagesInv'
    BY <1>1, <1>2 DEF PagesInv, ScanTypes, Feed, Rows
<1> QED
    BY <1>1, <1>3, ReaderStays DEF Reading

LEMMA EndPageReads == ReadInv /\ EndPage => ScanTypes' /\ ReadersInv' /\ AnalysesInv'
<1> SUFFICES ASSUME ReadInv, EndPage PROVE ScanTypes' /\ ReadersInv' /\ AnalysesInv'
    OBVIOUS
<1>1. /\ UNCHANGED <<input, schema, analysis, acc, faults>>
      /\ pc = "consume" /\ scan.hits = <<>>
      /\ \/ scan.last /\ pc' = "close" /\ UNCHANGED scan
         \/ pc' = "search" /\ UNCHANGED scan
         \/ pc' = "close" /\ scan' = [scan EXCEPT !.failed = TRUE]
    BY DEF EndPage
<1>2. PagesInv /\ ScanTypes
    BY <1>1 DEF ReadInv, ReadersInv, Reading
<1>3. PagesInv'
    BY <1>1, <1>2 DEF PagesInv, ScanTypes, Feed, Rows
<1> QED
    BY <1>1, <1>3, ReaderStays DEF Reading

LEMMA ClosePitReads == ReadInv /\ ClosePit => ScanTypes' /\ ReadersInv' /\ AnalysesInv'
<1> SUFFICES ASSUME ReadInv, ClosePit PROVE ScanTypes' /\ ReadersInv' /\ AnalysesInv'
    OBVIOUS
<1>1. /\ UNCHANGED <<input, schema, scan, analysis, acc, faults>>
      /\ pc = "close" /\ pc' = IF scan.failed THEN "failed" ELSE "reconcile"
    BY DEF ClosePit
<1>2. PagesInv /\ ScanTypes
    BY <1>1 DEF ReadInv, ReadersInv, Reading
<1>3. Reading' => PagesInv'
    BY <1>1, <1>2 DEF PagesInv, ScanTypes, Feed, Rows, Reading
<1> QED
    BY <1>1, <1>3, ReaderStays DEF Reading

LEMMA ExpirePitReads == ReadInv /\ ExpirePit => ScanTypes' /\ ReadersInv' /\ AnalysesInv'
<1> SUFFICES ASSUME ReadInv, ExpirePit PROVE ScanTypes' /\ ReadersInv' /\ AnalysesInv'
    OBVIOUS
<1>1. UNCHANGED <<input, pc, schema, scan, analysis, acc, faults>>
    BY DEF ExpirePit
<1>2. ScanTypes' = ScanTypes
    BY <1>1 DEF ScanTypes, AllRows, Rows
<1>3. AnalysesInv'
    BY <1>1, AnalysesStay DEF ReadInv, AnalysedSchemas, Reading
<1>4. CASE Reading
    <2>1. Reading' => PagesInv'
        BY <1>1, <1>4 DEF PagesInv, Feed, Rows, Panels, ReadInv, ReadersInv
    <2> QED
        BY <1>1, <1>4, <2>1, ReaderStays DEF Reading
<1>5. CASE ~Reading
    BY <1>1, <1>2, <1>3, <1>5 DEF ReadersInv, Reading, ReadInv
<1> QED
    BY <1>4, <1>5

-------------------------------------------------------------------------------
\* An analysis is finished, of the rows that were read, and the next one is begun.
LEMMA FinishSchemaReads ==
    ASSUME ReadInv, Reading, FinishSchema, UNCHANGED <<input, faults>>,
           NEW read, read \in Seq(AllRows(schema)), InOrder(read),
           AccumulatorIs(acc, Panels(schema), read), OneFault => read = Rows(schema)
    PROVE  ScanTypes' /\ ReadersInv' /\ AnalysesInv'
<1>1. /\ input \in Inputs /\ schema \in SCHEMAS /\ ScanTypes
      /\ analysis' = Put(analysis, schema, Finish(acc, Panels(schema)))
      /\ scan' = NoScan /\ schema' = "v2" /\ acc' = NoAnalysis(Panels("v2"))
      /\ pc' = IF schema = "v1" THEN "open" ELSE "assess"
      /\ UNCHANGED <<input, faults>>
    BY DEF ReadInv, PitInv, FinishSchema
<1>2. \A s : Rows(s)' = Rows(s) /\ AllRows(s)' = AllRows(s) /\ Panels(s)' = Panels(s)
    BY <1>1 DEF Rows, AllRows, Panels
<1>3. AllRows(schema)' = AllRows("v2") /\ Feed' = Rows("v2") /\ Panels(schema)' = Panels("v2")
    BY <1>1 DEF Rows, AllRows, Panels, Feed
<1>4. <<>> \in Seq(AllRows("v2")) /\ Len(<<>>) = 0
    BY EmptySeq
<1>5. ScanTypes'
    <2>1. NoScan \in [after : Nat, hits : Seq(AllRows("v2")), last : BOOLEAN, pages : Nat,
                      rows : Nat, total : Nat, failed : BOOLEAN]
        BY <1>4 DEF NoScan
    <2>2. Len(NoScan.hits) <= PAGE
        BY <1>4, PipelineAssumption DEF NoScan
    <2> QED
        BY <1>1, <1>3, <2>1, <2>2 DEF ScanTypes
<1>6. (PagesInv' /\ HasRead(<<>>)') \/ pc' = "assess"
    <2>1. AccumulatorIs(acc', Panels("v2"), <<>>)
        BY <1>1, NothingRead
    <2>2. InOrder(<<>>)
        BY DEF InOrder
    <2>3. Straight(<<>>)'
        BY <1>1, <1>4 DEF Straight, NoScan
    <2>4. HasRead(<<>>)'
        BY <1>1, <1>3, <1>4, <2>1, <2>2, <2>3 DEF HasRead, NoScan
    <2>5. pc' = "assess" \/ PagesInv'
        <3>1. Len(Rows("v2")) \in Nat
            BY <1>1, FeedIs DEF SCHEMAS
        <3> QED
            BY <1>1, <1>3, <3>1 DEF PagesInv, NoScan
    <2> QED
        BY <2>4, <2>5
<1>7. ReadersInv'
    BY <1>1, <1>6 DEF ReadersInv, Reading
<1>8. DOMAIN analysis' = AnalysedSchemas' /\ DOMAIN analysis' \subseteq SCHEMAS
    <2>1. DOMAIN analysis' = DOMAIN analysis \cup {schema}
        BY <1>1 DEF Put
    <2>2. DOMAIN analysis = AnalysedSchemas
        BY DEF ReadInv, AnalysesInv
    <2>3. CASE schema = "v1"
        <3>1. DOMAIN analysis = {}
            BY <2>2, <2>3 DEF AnalysedSchemas
        <3>2. pc' = "open" /\ DOMAIN analysis' = {"v1"}
            BY <1>1, <2>1, <2>3, <3>1
        <3> QED
            BY <1>1, <3>2 DEF AnalysedSchemas, Reading, SCHEMAS
    <2>4. CASE schema = "v2"
        <3>1. DOMAIN analysis = {"v1"}
            BY <2>2, <2>4 DEF AnalysedSchemas
        <3>2. pc' = "assess" /\ DOMAIN analysis' = SCHEMAS
            BY <1>1, <2>1, <2>4, <3>1 DEF SCHEMAS
        <3> QED
            BY <3>2 DEF AnalysedSchemas, Reading
    <2> QED
        BY <1>1, <2>3, <2>4 DEF SCHEMAS
<1>9. ASSUME NEW s \in DOMAIN analysis' PROVE \E r : AnalysisOf(s, r)'
    <2>1. CASE s = schema
        <3>1. analysis'[s] = Finish(acc, Panels(s))
            BY <1>1, <2>1 DEF Put
        <3>2. IsFeed(read)
            BY <1>1, FeedIs, ReadRows
        <3>3. FinishedIs(analysis'[s], Panels(s), read)
            <4>1. Null \notin Int
                BY PipelineAssumption
            <4>2. FinishedIs(Finish(acc, Panels(schema)), Panels(schema), read)
                BY <3>2, <4>1, FinishIs
            <4> QED
                BY <2>1, <3>1, <4>2
        <3>4. AnalysisOf(s, read)'
            BY <1>2, <2>1, <3>3 DEF AnalysisOf
        <3> QED
            BY <3>4
    <2>2. CASE s # schema
        <3>1. s \in DOMAIN analysis /\ analysis'[s] = analysis[s]
            BY <1>1, <2>2 DEF Put
        <3>2. PICK r : AnalysisOf(s, r)
            BY <3>1 DEF ReadInv, AnalysesInv
        <3>3. AnalysisOf(s, r)'
            BY <1>2, <3>1, <3>2 DEF AnalysisOf
        <3> QED
            BY <3>3
    <2> QED
        BY <2>1, <2>2
<1> QED
    BY <1>5, <1>7, <1>8, <1>9 DEF AnalysesInv

\* A schema that is not queried has no rows.
LEMMA SkipSchemaReads == ReadInv /\ SkipSchema => ScanTypes' /\ ReadersInv' /\ AnalysesInv'
<1> SUFFICES ASSUME ReadInv, SkipSchema PROVE ScanTypes' /\ ReadersInv' /\ AnalysesInv'
    OBVIOUS
<1>1. /\ Reading /\ FinishSchema /\ UNCHANGED <<input, faults>> /\ schema \notin input.operators
      /\ input \in Inputs /\ schema \in SCHEMAS /\ acc = NoAnalysis(Panels(schema))
    BY DEF SkipSchema, Reading, ReadInv, PitInv, ReadersInv, PagesInv
<1>2. Rows(schema) = <<>>
    BY <1>1, FeedIs
<1>3. <<>> \in Seq(AllRows(schema)) /\ InOrder(<<>>)
    BY EmptySeq DEF InOrder
<1>4. AccumulatorIs(acc, Panels(schema), <<>>)
    BY <1>1, EmptySeq, NothingRead
<1> QED
    BY <1>1, <1>2, <1>3, <1>4, FinishSchemaReads

\* The count of the rows is that of the feed: if no page was wrong, they are the feed.
LEMMA ReconcileReads == ReadInv /\ Reconcile => ScanTypes' /\ ReadersInv' /\ AnalysesInv'
<1> SUFFICES ASSUME ReadInv, Reconcile PROVE ScanTypes' /\ ReadersInv' /\ AnalysesInv'
    OBVIOUS
<1>1. /\ Reading /\ pc = "reconcile" /\ UNCHANGED <<input, faults>> /\ input \in Inputs
      /\ schema \in SCHEMAS /\ ScanTypes /\ PagesInv
    BY DEF Reconcile, Reading, ReadInv, PitInv, ReadersInv
<1>2. PICK read : HasRead(read)
    BY <1>1 DEF ReadInv, ReadersInv
<1>3. CASE Reconciles /\ FinishSchema
    <2>1. /\ scan.hits = <<>> /\ Len(scan.hits) = 0 /\ scan.rows = Len(Feed)
          /\ scan.after = Len(Feed) /\ Len(Feed) \in Nat
        BY <1>1, <1>3, EmptySeq, FeedIs DEF PagesInv, Reconciles, Feed
    <2>2. ~Shifted /\ ~Refused
        BY <2>1 DEF Shifted, Refused
    <2>3. read \in Seq(AllRows(schema)) /\ Len(read) = Len(Feed) /\ Feed \in Seq(AllRows(schema))
        BY <1>1, <1>2, <2>1, FeedIs DEF HasRead, Feed
    <2>4. OneFault => read = Rows(schema)
        <3>1. OneFault => \A i \in 1 .. Len(read) : read[i] = Feed[i]
            BY <1>2, <2>1, <2>2, <2>3 DEF HasRead, Straight
        <3> QED
            BY <2>3, <3>1, SeqEqual DEF Feed
    <2> QED
        BY <1>1, <1>2, <1>3, <2>4, FinishSchemaReads DEF HasRead
<1>4. CASE pc' = "failed" /\ UNCHANGED <<schema, scan, acc, analysis>>
    BY <1>1, <1>4, ReaderStays DEF Reading
<1> QED
    BY <1>3, <1>4 DEF Reconcile

-------------------------------------------------------------------------------
\* Steps after the reading, and those that leave every variable but pits alone.
LEMMA OthersStay ==
    ASSUME ReadInv, UNCHANGED <<input, schema, scan, analysis, faults>>, ~Reading, ~Reading',
           AnalysedSchemas' = AnalysedSchemas \/ pc' = "failed"
    PROVE  ScanTypes' /\ ReadersInv' /\ AnalysesInv'
<1>1. ScanTypes'
    BY DEF ReadInv, ScanTypes, AllRows, Rows
<1>2. AnalysesInv'
    BY AnalysesStay DEF ReadInv
<1> QED
    BY <1>1, <1>2 DEF ReadersInv

LEMMA AssessReads == ReadInv /\ Assess => ScanTypes' /\ ReadersInv' /\ AnalysesInv'
<1> SUFFICES ASSUME ReadInv, Assess PROVE ScanTypes' /\ ReadersInv' /\ AnalysesInv'
    OBVIOUS
<1>1. /\ UNCHANGED <<input, schema, scan, analysis, faults>>
      /\ pc = "assess" /\ pc' \in {"build", "failed"}
    BY DEF Assess
<1>2. ~Reading /\ ~Reading'
    BY <1>1 DEF Reading
<1>3. AnalysedSchemas' = AnalysedSchemas \/ pc' = "failed"
    BY <1>1, <1>2 DEF AnalysedSchemas
<1> QED
    BY <1>1, <1>2, <1>3, OthersStay

LEMMA BuildReads == ReadInv /\ Build => ScanTypes' /\ ReadersInv' /\ AnalysesInv'
<1> SUFFICES ASSUME ReadInv, Build PROVE ScanTypes' /\ ReadersInv' /\ AnalysesInv'
    OBVIOUS
<1>1. UNCHANGED <<input, schema, scan, analysis, faults>> /\ pc = "build" /\ pc' = "done"
    BY DEF Build
<1>2. ~Reading /\ ~Reading'
    BY <1>1 DEF Reading
<1>3. AnalysedSchemas' = AnalysedSchemas
    BY <1>1, <1>2 DEF AnalysedSchemas
<1> QED
    BY <1>1, <1>2, <1>3, OthersStay

LEMMA StoppedReads ==
    ReadInv /\ (Stopped \/ UNCHANGED vars) => ScanTypes' /\ ReadersInv' /\ AnalysesInv'
<1> SUFFICES ASSUME ReadInv, UNCHANGED vars PROVE ScanTypes' /\ ReadersInv' /\ AnalysesInv'
    BY DEF Stopped
<1>1. UNCHANGED <<input, pc, schema, scan, analysis, acc, faults>>
    BY DEF vars
<1>2. CASE Reading
    <2>1. PagesInv'
        BY <1>1, <1>2 DEF PagesInv, Feed, Rows, Panels, ReadInv, ReadersInv
    <2> QED
        BY <1>1, <1>2, <2>1, ReaderStays DEF Reading
<1>3. CASE ~Reading
    BY <1>1, <1>3, OthersStay DEF Reading, AnalysedSchemas
<1> QED
    BY <1>2, <1>3

LEMMA ReadInvInit == Init => ReadInv
<1> SUFFICES ASSUME Init PROVE ReadInv
    OBVIOUS
<1>1. /\ input \in Inputs /\ schema = "v1" /\ scan = NoScan /\ acc = NoAnalysis(Panels(schema))
      /\ faults = 0 /\ pc = "open" /\ analysis = <<>>
    BY DEF Init, Panels
<1>2. faults \in 0 .. input.faults
    BY <1>1, PipelineAssumption
<1>3. ScanTypes /\ HasRead(<<>>) /\ scan.after <= Len(Feed)
    BY <1>1, <1>2, FreshScan DEF SCHEMAS
<1>4. PagesInv
    BY <1>1, <1>3 DEF PagesInv, NoScan
<1>5. AnalysesInv
    BY <1>1 DEF AnalysesInv, AnalysedSchemas, Reading
<1> QED
    BY <1>1, <1>3, <1>4, <1>5, PitInvInit DEF ReadInv, ReadersInv

LEMMA ReadInvNext == ReadInv /\ [Next]_vars => ReadInv'
<1> SUFFICES ASSUME ReadInv, [Next]_vars PROVE ReadInv'
    OBVIOUS
<1>1. PitInv' /\ input' = input
    BY PitInvNext DEF ReadInv, Next, Work, SkipSchema, OpenPit, SearchPage, SearchFails, ConsumeRow,
       EndPage, ClosePit, Reconcile, Assess, Build, ExpirePit, Stopped, vars
<1>2. ScanTypes' /\ ReadersInv' /\ AnalysesInv'
    BY SkipSchemaReads, OpenPitReads, SearchPageReads, SearchFailsReads, ConsumeRowReads,
       EndPageReads, ClosePitReads, ReconcileReads, AssessReads, BuildReads, ExpirePitReads,
       StoppedReads DEF Next, Work
<1> QED
    BY <1>1, <1>2 DEF ReadInv

-------------------------------------------------------------------------------
\* Who is assessed is assessed once, and the report is of what was analysed and assessed.
ResultInv ==
    /\ pc \in {"build", "done"} =>
           outcomes \in [Eligible -> IF input.llm THEN ASSESSED ELSE {"unassessed"}]
    /\ pc # "done" => report = Null
    /\ pc = "done" => report.schemas = [s \in SCHEMAS |-> SchemaPayload(s)]

LEMMA PayloadStays ==
    ASSUME UNCHANGED <<input, analysis, outcomes>>, NEW s
    PROVE  SchemaPayload(s)' = SchemaPayload(s)
BY DEF SchemaPayload, DayRow, QualityState, HasCoreFinding, ReportOf, Found, InState, GapsOn,
       FirstBucket, IfPanels, Panels, StreamVolume, StreamFlagged, StreamRules, DaySum, DayOf, PresentOn

LEMMA ResultInvInit == Init => ResultInv
BY DEF Init, ResultInv

\* Steps before there is anything to report, and those that leave a report alone.
LEMMA NoResultYet ==
    ASSUME ResultInv, UNCHANGED report, pc \notin {"build", "done"}, pc' \notin {"build", "done"}
    PROVE  ResultInv'
BY DEF ResultInv

LEMMA ResultStays ==
    ASSUME ResultInv, UNCHANGED <<input, pc, analysis, outcomes, report>>
    PROVE  ResultInv'
<1>1. Eligible' = Eligible
    BY DEF Eligible, Found, HasCoreFinding, ReportOf
<1>2. [s \in SCHEMAS |-> SchemaPayload(s)]' = [s \in SCHEMAS |-> SchemaPayload(s)]
    BY PayloadStays
<1> HIDE DEF Eligible
<1> QED
    BY <1>1, <1>2 DEF ResultInv

LEMMA ResultInvNext == ReadInv /\ ResultInv /\ [Next]_vars => ResultInv'
<1> SUFFICES ASSUME ReadInv, ResultInv, [Next]_vars PROVE ResultInv'
    OBVIOUS
<1>1. CASE \/ SkipSchema \/ OpenPit \/ SearchPage \/ SearchFails \/ EndPage
           \/ ClosePit \/ Reconcile
    <2>1. /\ UNCHANGED report /\ pc \notin {"build", "done"}
          /\ pc' \in {"open", "assess", "search", "failed", "consume", "close", "reconcile"}
        BY <1>1 DEF SkipSchema, OpenPit, SearchPage, SearchFails, EndPage,
           ClosePit, Reconcile, FinishSchema
    <2> QED
        BY <2>1, NoResultYet
<1>2. CASE ConsumeRow
    <2>1. UNCHANGED report /\ pc = "consume" /\ pc' \in {"consume", "close"}
        BY <1>2 DEF ConsumeRow
    <2> QED
        BY <2>1, NoResultYet
<1>3. CASE Assess
    <2>1. UNCHANGED <<input, analysis, report>> /\ pc = "assess" /\ pc' \in {"build", "failed"}
        BY <1>3 DEF Assess
    <2>2. Eligible' = Eligible
        BY <2>1 DEF Eligible, Found, HasCoreFinding, ReportOf
    <2>3. pc' = "build" =>
              outcomes' \in [Eligible -> IF input.llm THEN ASSESSED ELSE {"unassessed"}]
        BY <1>3 DEF Assess
    <2> HIDE DEF Eligible
    <2> QED
        BY <2>1, <2>2, <2>3 DEF ResultInv
<1>4. CASE Build
    <2>1. /\ UNCHANGED <<input, analysis, outcomes>> /\ pc = "build" /\ pc' = "done"
          /\ report'.schemas = [s \in SCHEMAS |-> SchemaPayload(s)]
        BY <1>4 DEF Build
    <2>2. Eligible' = Eligible
        BY <2>1 DEF Eligible, Found, HasCoreFinding, ReportOf
    <2>3. [s \in SCHEMAS |-> SchemaPayload(s)]' = [s \in SCHEMAS |-> SchemaPayload(s)]
        BY <2>1, PayloadStays
    <2> HIDE DEF Eligible
    <2> QED
        BY <2>1, <2>2, <2>3 DEF ResultInv
<1>5. CASE ExpirePit
    BY <1>5, ResultStays DEF ExpirePit
<1>6. CASE Stopped \/ UNCHANGED vars
    BY <1>6, ResultStays DEF Stopped, vars
<1> QED
    BY <1>1, <1>2, <1>3, <1>4, <1>5, <1>6 DEF Next, Work

RunInv == ReadInv /\ ResultInv

LEMMA RunInvHolds == Spec => []RunInv
<1>1. Init => RunInv
    BY ReadInvInit, ResultInvInit DEF RunInv
<1>2. RunInv /\ [Next]_vars => RunInv'
    BY ReadInvNext, ResultInvNext DEF RunInv
<1> QED
    BY <1>1, <1>2, PTL DEF Spec

\* Every page holds at most as many rows as it was asked for, every count of the
\* reader is a natural, and there is no report before the run is done (reader.py,
\* scan_schema; orchestrator.py, run_team).
THEOREM RunIsTyped == Spec => []TypeOK
<1>1. RunInv => TypeOK
    <2> SUFFICES ASSUME RunInv PROVE TypeOK
        OBVIOUS
    <2>1. ScanTypes /\ PitInv /\ DOMAIN analysis \subseteq SCHEMAS
        BY DEF RunInv, ReadInv, AnalysesInv
    <2> QED
        BY <2>1 DEF RunInv, ResultInv, ScanTypes, PitInv, PitStates, PCs, TypeOK
<1> QED
    BY <1>1, RunInvHolds, PTL

-------------------------------------------------------------------------------
\* At the end there is an analysis of each schema, and the report is made of it.
LEMMA AtTheEnd ==
    ASSUME RunInv, pc = "done", NEW s \in SCHEMAS
    PROVE  /\ input \in Inputs /\ s \in DOMAIN analysis
           /\ report.schemas[s] = SchemaPayload(s)
           /\ outcomes \in [Eligible -> IF input.llm THEN ASSESSED ELSE {"unassessed"}]
           /\ \E read : AnalysisOf(s, read)
<1>1. ~Reading /\ pc \in {"assess", "build", "done"}
    BY DEF Reading
<1>2. DOMAIN analysis = SCHEMAS
    BY <1>1 DEF RunInv, ReadInv, AnalysesInv, AnalysedSchemas
<1> QED
    BY <1>2 DEF RunInv, ReadInv, AnalysesInv, ResultInv

LEMMA ReadIsFeed ==
    ASSUME input \in Inputs, NEW s \in SCHEMAS, NEW read, AnalysisOf(s, read)
    PROVE  IsFeed(read)
BY FeedIs, ReadRows DEF AnalysisOf

\* An identity is withheld from the assessment, or it has an outcome.
LEMMA StateIs ==
    ASSUME outcomes \in [Eligible -> IF input.llm THEN ASSESSED ELSE {"unassessed"}],
           NEW s \in SCHEMAS, NEW id \in Found(s)
    PROVE  /\ HasCoreFinding(s, id) => QualityState(s, id) = "rule_flagged"
           /\ ~HasCoreFinding(s, id) => QualityState(s, id) \in ASSESSED
           /\ ~HasCoreFinding(s, id) /\ ~input.llm => QualityState(s, id) = "unassessed"
<1>1. CASE HasCoreFinding(s, id)
    BY <1>1 DEF QualityState
<1>2. CASE ~HasCoreFinding(s, id)
    <2>1. id \in Eligible
        BY <1>2 DEF Eligible
    <2> HIDE DEF Eligible
    <2>2. At(outcomes, id, "unassessed") = outcomes[id]
        BY <2>1 DEF At
    <2>3. outcomes[id] \in ASSESSED /\ (~input.llm => outcomes[id] = "unassessed")
        BY <2>1 DEF ASSESSED
    <2> QED
        BY <1>2, <2>2, <2>3 DEF QualityState
<1> QED
    BY <1>1, <1>2

\* A core finding of a day is one of the window.
LEMMA FlaggedIsWithheld ==
    ASSUME NEW s, NEW panels, NEW rows, IsFeed(rows), FinishedIs(analysis[s], panels, rows),
           NEW d, NEW i \in FlaggedOn(panels, rows, FiresIn(analysis[s]), d)
    PROVE  HasCoreFinding(s, rows[i].identity)
<1> DEFINE fin == analysis[s]
           id == rows[i].identity
           fires == FiresIn(fin)
<1>1. /\ i \in DOMAIN rows /\ Held(panels, rows, fires, i) \cap CORE # {}
      /\ id \in Identities(rows) /\ i \in RowsOf(rows, id)
    BY DEF FlaggedOn, RowsOn, Identities, RowsOf
<1>2. fin.identities[id].report.core_rule_ids = HeldOf(panels, rows, fires, RowsOf(rows, id)) \cap CORE
    <2>1. fin.identities[id].report
              = FinishedReport(panels, rows, fires, RowsOf(rows, id), fin.identities[id].report.firing)
        BY <1>1 DEF FinishedIs, IdentityFinished
    <2> HIDE DEF fin, fires, id
    <2> QED
        BY <2>1 DEF FinishedReport
<1>3. Held(panels, rows, fires, i) \subseteq HeldOf(panels, rows, fires, RowsOf(rows, id))
    BY <1>1 DEF HeldOf
<1> HIDE DEF fin, fires
<1>4. fin.identities[id].report.core_rule_ids # {}
    BY <1>1, <1>2, <1>3
<1> QED
    BY <1>4 DEF HasCoreFinding, ReportOf, fin

\* The figures of a day in the report.
LEMMA DayRowIs ==
    ASSUME NEW s, NEW d \in Dates(input.run_at), NEW fin, fin = analysis[s]
    PROVE  /\ SchemaPayload(s).daily[d] = DayRow(s, d)
           /\ SchemaPayload(s).rules[d] = StreamRules(fin, d)
           /\ DayRow(s, d).volume = StreamVolume(fin, d)
           /\ DayRow(s, d).flagged = StreamFlagged(fin, d)
           /\ DayRow(s, d).states = [state \in ASSESSED |-> Cardinality(InState(s, state, d))]
BY DEF SchemaPayload, DayRow

LEMMA SuppressionRowIs ==
    ASSUME NEW s, NEW d, NEW fin, fin = analysis[s]
    PROVE  /\ DayRow(s, d).suppressed = DaySum(fin, d, LAMBDA day : day.suppressed)
           /\ DayRow(s, d).unseen = IfPanels(s, DaySum(fin, d, LAMBDA day : day.unseen))
           /\ DayRow(s, d).suppression_unmeasured = FirstBucket(d, fin.unmeasured_leaves)
BY DEF DayRow

LEMMA AssessedRowsAre ==
    ASSUME NEW s, NEW rows, NEW panels, IsFeed(rows), FinishedIs(analysis[s], panels, rows), NEW d
    PROVE  DayRow(s, d).flagged_by_llm
               = Cardinality(RowsIn(rows, RowsOn(rows, d), InState(s, "llm_flagged", d)))
<1> DEFINE fin == analysis[s]
           S == InState(s, "llm_flagged", d)
           J == RowsOn(rows, d)
           f == [id \in S |-> DayOf(fin, id, d).count]
<1>1. DayRow(s, d).flagged_by_llm = SumOf(f, S)
    BY DEF DayRow
<1>2. S \in SUBSET PresentOn(fin, d) /\ IsFiniteSet(S)
    BY PresentAre, FS_Subset DEF InState
<1>3. IsFiniteSet(J)
    BY DayRows
<1>4. ASSUME NEW id \in S PROVE f[id] = Cardinality(RowsIn(rows, J, {id}))
    <2>1. DayOf(fin, id, d) = FinishedDay(panels, rows, FiresIn(fin), RowsIn(rows, J, {id}))
        BY <1>2, DayIs
    <2>2. f[id] = DayOf(fin, id, d).count
        OBVIOUS
    <2> HIDE DEF f, fin, J
    <2> QED
        BY <2>1, <2>2 DEF FinishedDay
<1> HIDE DEF f, S, J, fin
<1>5. SumOf(f, S) = Cardinality(RowsIn(rows, J, S))
    BY <1>2, <1>3, <1>4, SumOverIdentities
<1> QED
    BY <1>1, <1>5 DEF S, J

LEMMA PairIsFinite == \A a, b : IsFiniteSet({a, b})
<1> SUFFICES ASSUME NEW a, NEW b PROVE IsFiniteSet({a, b})
    OBVIOUS
<1>1. IsFiniteSet({a}) /\ IsFiniteSet({b}) /\ {a, b} = {a} \cup {b}
    BY FS_Singleton
<1> QED
    BY <1>1, FS_Union

LEMMA StatesOfADay ==
    ASSUME outcomes \in [Eligible -> IF input.llm THEN ASSESSED ELSE {"unassessed"}],
           NEW s \in SCHEMAS, NEW panels, NEW rows, IsFeed(rows),
           FinishedIs(analysis[s], panels, rows), NEW d \in Dates(input.run_at),
           NEW findings, findings = SchemaPayload(s).findings,
           NEW row, row = DayRow(s, d),
           NEW withheld,
           withheld = {id \in PresentOn(analysis[s], d) : findings[id].state = "rule_flagged"}
    PROVE  /\ row.volume.distinct_alerts = Cardinality(withheld) + SumOf(row.states, ASSESSED)
           /\ row.flagged[2] <= Cardinality(withheld)
           /\ row.flagged[1] + row.flagged_by_llm <= row.volume.alerts
           /\ input.llm \/ SumOf(row.states, ASSESSED) = row.states["unassessed"]
<1> DEFINE fin == analysis[s]
           P == PresentOn(fin, d)
           J == RowsOn(rows, d)
           T == FlaggedOn(panels, rows, FiresIn(fin), d)
           S == InState(s, "llm_flagged", d)
           U == RowsIn(rows, J, S)
           Q == {id \in P : DayOf(fin, id, d).flagged > 0}
           key == [id \in P |-> QualityState(s, id)]
<1>1. IsFiniteSet(P) /\ P = {rows[i].identity : i \in J} /\ IsFiniteSet(J) /\ P \subseteq Found(s)
    <2>1. P \subseteq Found(s)
        BY DEF PresentOn, Found
    <2> HIDE DEF fin
    <2>2. FinishedIs(fin, panels, rows)
        BY DEF fin
    <2> QED
        BY <2>1, <2>2, PresentAre, DayRows
<1>2. \A id \in P : findings[id].state = key[id]
    BY <1>1 DEF SchemaPayload
<1>3. \A id \in P : /\ HasCoreFinding(s, id) => key[id] = "rule_flagged"
                    /\ ~HasCoreFinding(s, id) => key[id] \in ASSESSED
                    /\ ~HasCoreFinding(s, id) /\ ~input.llm => key[id] = "unassessed"
    BY <1>1, StateIs
<1>4. /\ row.states = [state \in ASSESSED |-> Cardinality(InState(s, state, d))]
      /\ row.volume = StreamVolume(fin, d) /\ row.flagged = StreamFlagged(fin, d)
      /\ row.flagged_by_llm = Cardinality(U)
    <2>1. /\ row.states = [state \in ASSESSED |-> Cardinality(InState(s, state, d))]
          /\ row.volume = StreamVolume(fin, d) /\ row.flagged = StreamFlagged(fin, d)
        BY DayRowIs
    <2>2. row.flagged_by_llm = Cardinality(U)
        BY AssessedRowsAre
    <2> QED
        BY <2>1, <2>2
<1>5. \A state : InState(s, state, d) = Class(P, key, {state})
    BY DEF InState, Class
<1>6. withheld = Class(P, key, {"rule_flagged"})
    BY <1>2 DEF Class
<1>7. \A i \in T : HasCoreFinding(s, rows[i].identity)
    BY FlaggedIsWithheld
<1>8. S = {id \in P : key[id] = "llm_flagged"}
    BY DEF InState
<1>9. StreamFlagged(fin, d)[1] = Cardinality(T)
    BY FlaggedSum DEF StreamFlagged
<1>10. StreamFlagged(fin, d)[2] = Cardinality(Q)
    BY DEF StreamFlagged
<1>11. StreamVolume(fin, d).alerts = Cardinality(J)
    <2>1. StreamVolume(fin, d) = DailyVolume(rows, d)
        BY VolumeIs
    <2> QED
        BY <2>1 DEF DailyVolume
<1>12. StreamVolume(fin, d).distinct_alerts = Cardinality(P)
    BY DEF StreamVolume
<1>13. T \subseteq J
    BY DEF FlaggedOn
<1>14. \A id \in Q : HasCoreFinding(s, id)
    <2> SUFFICES ASSUME NEW id \in Q PROVE HasCoreFinding(s, id)
        OBVIOUS
    <2> DEFINE I == RowsIn(rows, J, {id})
               H == {i \in I : Held(panels, rows, FiresIn(fin), i) \cap CORE # {}}
    <2>1. DayOf(fin, id, d) = FinishedDay(panels, rows, FiresIn(fin), I) /\ DayOf(fin, id, d).flagged > 0
        BY DayIs
    <2>2. Cardinality(H) > 0
        BY <2>1 DEF FinishedDay
    <2>3. IsFiniteSet(H)
        BY <1>1, FS_Subset DEF RowsIn
    <2>4. PICK i \in H : TRUE
        BY <2>2, <2>3, SomeCounted
    <2>5. i \in T /\ rows[i].identity = id
        BY <2>4 DEF RowsIn, FlaggedOn
    <2> QED
        BY <1>7, <2>5
<1> HIDE DEF fin, P, J, T, S, U, Q, key
<1>15. Cardinality(P) = Cardinality(withheld) + Cardinality(Class(P, key, ASSESSED))
    <2>1. P = withheld \cup Class(P, key, ASSESSED)
        BY <1>3, <1>6 DEF Class
    <2>2. withheld \cap Class(P, key, ASSESSED) = {}
        BY <1>6 DEF Class, ASSESSED
    <2>3. IsFiniteSet(withheld) /\ IsFiniteSet(Class(P, key, ASSESSED))
        BY <1>1, <1>6, FS_Subset DEF Class
    <2> QED
        BY <2>1, <2>2, <2>3, DisjointUnion
<1>16. SumOf(row.states, ASSESSED) = Cardinality(Class(P, key, ASSESSED))
    <2>1. IsFiniteSet(ASSESSED)
        <3>1. ASSESSED = {"llm_flagged", "needs_review"} \cup {"assessed_good", "unassessed"}
            BY DEF ASSESSED
        <3> QED
            BY <3>1, PairIsFinite, FS_Union
    <2> DEFINE f == row.states
    <2>2. \A state \in ASSESSED : f[state] = Cardinality(Class(P, key, {state}))
        BY <1>4, <1>5
    <2> HIDE DEF f
    <2>3. IsFiniteSet(P)
        BY <1>1
    <2>4. SumOf(f, ASSESSED) = Cardinality(Class(P, key, ASSESSED))
        BY <2>1, <2>2, <2>3, SumOfClasses
    <2> QED
        BY <2>4 DEF f
<1>17. Cardinality(Q) <= Cardinality(withheld)
    <2>1. Q \subseteq withheld
        BY <1>3, <1>6, <1>14 DEF Class, Q
    <2> QED
        BY <1>1, <1>6, <2>1, FS_Subset DEF Class
<1>18. Cardinality(T) + Cardinality(U) <= Cardinality(J)
    <2>1. T \cup U \subseteq J
        BY <1>13 DEF U, RowsIn
    <2>2. T \cap U = {}
        BY <1>3, <1>7, <1>8 DEF U, RowsIn
    <2>3. IsFiniteSet(T) /\ IsFiniteSet(U) /\ Cardinality(T \cup U) <= Cardinality(J)
        BY <1>1, <2>1, FS_Subset
    <2> QED
        BY <2>2, <2>3, DisjointUnion
<1>19. input.llm \/ Class(P, key, ASSESSED) = Class(P, key, {"unassessed"})
    BY <1>3 DEF Class, ASSESSED
<1>20. row.states["unassessed"] = Cardinality(Class(P, key, {"unassessed"}))
    BY <1>4, <1>5 DEF ASSESSED
<1> QED
    BY <1>4, <1>9, <1>10, <1>11, <1>12, <1>15, <1>16, <1>17, <1>18, <1>19, <1>20

\* The states of a day account for every identity of it once, whatever the pages and
\* the assessment were, and no row is flagged by a rule and by the model
\* (orchestrator.py, _volume_payload; eligibility.py).
THEOREM StatesAccountForAll == Spec => []StatesAddUp
<1>1. RunInv => StatesAddUp
    <2> SUFFICES ASSUME RunInv, pc = "done", NEW s \in SCHEMAS, NEW d \in Dates(input.run_at)
                 PROVE  LET row == report.schemas[s].daily[d]
                            findings == report.schemas[s].findings
                            withheld == {id \in PresentOn(analysis[s], d) :
                                            findings[id].state = "rule_flagged"}
                            assessed == SumOf(row.states, ASSESSED)
                        IN  /\ row.volume.distinct_alerts = Cardinality(withheld) + assessed
                            /\ row.flagged[2] <= Cardinality(withheld)
                            /\ row.flagged[1] + row.flagged_by_llm <= row.volume.alerts
                            /\ input.llm \/ assessed = row.states["unassessed"]
        BY DEF StatesAddUp
    <2>1. PICK read : AnalysisOf(s, read)
        BY AtTheEnd
    <2>2. IsFeed(read) /\ FinishedIs(analysis[s], Panels(s), read)
        BY <2>1, AtTheEnd, ReadIsFeed DEF AnalysisOf
    <2>3. /\ report.schemas[s] = SchemaPayload(s)
          /\ outcomes \in [Eligible -> IF input.llm THEN ASSESSED ELSE {"unassessed"}]
        BY AtTheEnd
    <2>4. SchemaPayload(s).daily[d] = DayRow(s, d)
        BY DayRowIs
    <2> QED
        BY <2>2, <2>3, <2>4, StatesOfADay
<1> QED
    BY <1>1, RunInvHolds, PTL

-------------------------------------------------------------------------------
\* A later instant is not of an earlier day.
LEMMA DivIsMonotone ==
    ASSUME NEW D \in Nat \ {0}, NEW a \in Int, NEW b \in Int, a <= b
    PROVE  a \div D <= b \div D /\ a \div D \in Int /\ b \div D \in Int
<1> DEFINE p == a \div D
           q == b \div D
<1>1. p \in Int /\ q \in Int /\ D * p <= a /\ b < D * q + D
    BY SMT
<1> HIDE DEF p, q
<1>2. ASSUME q < p PROVE FALSE
    <2>1. q + 1 <= p
        BY <1>1, <1>2
    <2>2. D * (q + 1) <= D * p
        BY <1>1, <2>1, SMT
    <2>3. D * (q + 1) = D * q + D
        BY <1>1, SMT
    <2> QED
        BY <1>1, <2>2, <2>3
<1> QED
    BY <1>1, <1>2 DEF p, q

LEMMA DatesAre ==
    ASSUME NEW runAt \in Int
    PROVE  \E lo \in Int : \E hi \in Int : lo <= hi /\ Dates(runAt) = lo .. hi
<1> DEFINE a == WindowStart(runAt)
           lo == DateOf(a)
           hi == DateOf(runAt - 1)
<1>1. DAY \in Nat \ {0} /\ WINDOW_DAYS \in Nat \ {0}
    BY WindowAssumption
<1>2. WINDOW_DAYS * DAY \in Nat /\ WINDOW_DAYS * DAY >= 1
    BY <1>1, SMT
<1>3. a \in Int /\ runAt - 1 \in Int /\ a <= runAt - 1
    BY <1>2 DEF WindowStart
<1>4. lo \in Int /\ hi \in Int /\ lo <= hi
    BY <1>1, <1>3, DivIsMonotone DEF DateOf
<1> QED
    BY <1>4 DEF Dates

\* What is measured once stands once among the days.
LEMMA SumOfFirstBucket ==
    ASSUME input \in Inputs, NEW n \in Nat, NEW f,
           \A d \in Dates(input.run_at) : f[d] = FirstBucket(d, n)
    PROVE  SumOf(f, Dates(input.run_at)) = n
<1>1. input.run_at \in Int
    BY PipelineAssumption
<1>2. PICK lo \in Int, hi \in Int : lo <= hi /\ Dates(input.run_at) = lo .. hi
    BY <1>1, DatesAre
<1> DEFINE D == lo .. hi
           J == 1 .. n
           key == [i \in J |-> lo]
<1>3. \A d \in D : (\E e \in D : e < d) <=> d # lo
    BY <1>2
<1>4. \A d \in D : f[d] = IF d = lo THEN n ELSE 0
    BY <1>2, <1>3 DEF FirstBucket
<1>5. IsFiniteSet(D) /\ IsFiniteSet(J) /\ Cardinality(J) = n
    BY FS_Interval
<1>6. \A T : Class(J, key, T) = IF lo \in T THEN J ELSE {}
    BY DEF Class
<1>7. lo \in D /\ Cardinality({}) = 0
    BY <1>2, FS_EmptySet
<1> HIDE DEF D, J, key
<1>8. \A d \in D : f[d] = Cardinality(Class(J, key, {d}))
    BY <1>4, <1>5, <1>6, <1>7
<1>9. SumOf(f, D) = Cardinality(Class(J, key, D))
    BY <1>5, <1>8, SumOfClasses
<1> QED
    BY <1>2, <1>5, <1>6, <1>7, <1>9 DEF D

LEMMA LeavesAreCounted ==
    ASSUME NEW panels, IsFiniteSet(DOMAIN panels),
           \A p \in DOMAIN panels : IsFiniteSet(DOMAIN panels[p].leaves),
           NEW active
    PROVE  UnmeasuredLeaves(panels, active) \in Nat
<1> DEFINE L(p, kind) == {<<p, i>> : i \in {k \in DOMAIN panels[p].leaves :
                                              panels[p].leaves[k].kind = kind}}
<1>1. ASSUME NEW kind PROVE IsFiniteSet(LeavesOf(panels, kind))
    <2> DEFINE F == {L(p, kind) : p \in DOMAIN panels}
               g == [p \in DOMAIN panels |-> L(p, kind)]
    <2>1. \A p \in DOMAIN panels : IsFiniteSet(L(p, kind))
        <3> SUFFICES ASSUME NEW p \in DOMAIN panels PROVE IsFiniteSet(L(p, kind))
            OBVIOUS
        <3> DEFINE K == {k \in DOMAIN panels[p].leaves : panels[p].leaves[k].kind = kind}
                   h == [i \in K |-> <<p, i>>]
        <3>1. IsFiniteSet(K)
            BY FS_Subset
        <3>2. L(p, kind) = {h[i] : i \in K}
            OBVIOUS
        <3> HIDE DEF h, K
        <3>3. IsFiniteSet({h[i] : i \in K})
            BY <3>1, Image
        <3> QED
            BY <3>2, <3>3
    <2>2. F = {g[p] : p \in DOMAIN panels}
        OBVIOUS
    <2>3. LeavesOf(panels, kind) = UNION F
        BY DEF LeavesOf
    <2> HIDE DEF g
    <2>4. IsFiniteSet({g[p] : p \in DOMAIN panels})
        BY Image
    <2>5. IsFiniteSet(F) /\ \A x \in F : IsFiniteSet(x)
        BY <2>1, <2>2, <2>4
    <2> HIDE DEF F
    <2>6. IsFiniteSet(UNION F)
        BY <2>5, FS_UNION
    <2> QED
        BY <2>3, <2>6
<1>2. Unparsed(panels) \in Nat
    <2>1. IsFiniteSet({p \in DOMAIN panels : ~panels[p].parsed})
        BY FS_Subset
    <2> QED
        BY <2>1, FS_CardinalityType DEF Unparsed
<1>3. Cardinality(LeavesOf(panels, "unmeasured")) \in Nat
    BY <1>1, FS_CardinalityType
<1>4. Cardinality(LeavesOf(panels, "suppression") \ active) \in Nat
    BY <1>1, FS_Subset, FS_CardinalityType
<1> QED
    BY <1>2, <1>3, <1>4 DEF UnmeasuredLeaves

-------------------------------------------------------------------------------
\* With one wrong page at most, the rows that were analysed are those of the feed.
LEMMA FeedIsAnalysed ==
    ASSUME OneFault, RunInv, pc = "done", NEW s \in SCHEMAS
    PROVE  /\ IsFeed(Rows(s)) /\ InOrder(Rows(s))
           /\ FinishedIs(analysis[s], Panels(s), Rows(s))
           /\ report.schemas[s] = SchemaPayload(s) /\ input \in Inputs
<1>1. PICK read : AnalysisOf(s, read)
    BY AtTheEnd
<1>2. read = Rows(s) /\ IsFeed(read) /\ input \in Inputs
    BY <1>1, AtTheEnd, ReadIsFeed DEF AnalysisOf
<1> QED
    BY <1>1, <1>2, AtTheEnd DEF AnalysisOf

LEMMA SuppressionOfASchema ==
    ASSUME input \in Inputs, NEW s \in SCHEMAS, NEW rows, IsFeed(rows),
           FinishedIs(analysis[s], Panels(s), rows), NEW day, day = SchemaPayload(s).daily
    PROVE  /\ \A d \in DOMAIN day :
                  /\ day[d].suppressed
                         = Cardinality(SuppressedRows(Panels(s), rows) \cap RowsOn(rows, d))
                  /\ day[d].unseen
                         = IfPanels(s, Cardinality(UnseenRows(Panels(s), rows) \cap RowsOn(rows, d)))
           /\ SumOf([d \in DOMAIN day |-> day[d].suppression_unmeasured], DOMAIN day)
                  = UnmeasuredLeaves(Panels(s), ActiveLeaves(Panels(s), rows))
<1> DEFINE D == Dates(input.run_at)
           panels == Panels(s)
           n == UnmeasuredLeaves(panels, ActiveLeaves(panels, rows))
           f == [d \in DOMAIN day |-> day[d].suppression_unmeasured]
<1>1. PICK fin : fin = analysis[s]
    OBVIOUS
<1>2. FinishedIs(fin, panels, rows) /\ fin.unmeasured_leaves = n
    BY <1>1 DEF FinishedIs
<1>3. DOMAIN day = D /\ \A d \in D : day[d] = DayRow(s, d)
    BY DEF SchemaPayload
<1>4. ASSUME NEW d \in D
      PROVE  /\ day[d].suppressed = Cardinality(SuppressedRows(panels, rows) \cap RowsOn(rows, d))
             /\ day[d].unseen
                    = IfPanels(s, Cardinality(UnseenRows(panels, rows) \cap RowsOn(rows, d)))
             /\ day[d].suppression_unmeasured = FirstBucket(d, n)
    <2> HIDE DEF n, panels
    <2>1. /\ day[d].suppressed = DaySum(fin, d, LAMBDA x : x.suppressed)
          /\ day[d].unseen = IfPanels(s, DaySum(fin, d, LAMBDA x : x.unseen))
          /\ day[d].suppression_unmeasured = FirstBucket(d, n)
        BY <1>1, <1>2, <1>3, SuppressionRowIs
    <2>2. DaySum(fin, d, LAMBDA x : x.suppressed)
              = Cardinality(SuppressedRows(panels, rows) \cap RowsOn(rows, d))
        BY <1>2, SuppressedSum
    <2>3. DaySum(fin, d, LAMBDA x : x.unseen)
              = Cardinality(UnseenRows(panels, rows) \cap RowsOn(rows, d))
        BY <1>2, UnseenSum
    <2> QED
        BY <2>1, <2>2, <2>3
<1>5. n \in Nat
    <2>1. /\ IsFiniteSet(DOMAIN panels)
          /\ \A p \in DOMAIN panels : IsFiniteSet(DOMAIN panels[p].leaves)
        BY PipelineAssumption DEF Panels
    <2> HIDE DEF panels
    <2> QED
        BY <2>1, LeavesAreCounted
<1>6. SumOf(f, D) = n
    <2>1. \A d \in D : f[d] = FirstBucket(d, n)
        BY <1>3, <1>4
    <2> HIDE DEF f, n, D
    <2> QED
        BY <1>5, <2>1, SumOfFirstBucket DEF D
<1> QED
    BY <1>3, <1>4, <1>6

\* The suppressed and unseen rows of every day are those that all rows together
\* give, though a leaf's share is known only after the last page, and what could not
\* be measured stands once among the days (streaming.py, finish; suppression.py).
THEOREM SuppressionOfThePages ==
    ASSUME OneFault PROVE Spec => []SuppressionIsAsDefined
<1>1. RunInv => SuppressionIsAsDefined
    <2> SUFFICES ASSUME RunInv, pc = "done", NEW s \in SCHEMAS
                 PROVE  LET rows == Rows(s)
                            day == report.schemas[s].daily
                            gone == SuppressedRows(Panels(s), rows)
                            unseen == UnseenRows(Panels(s), rows)
                        IN  /\ \A d \in DOMAIN day :
                                /\ day[d].suppressed = Cardinality(gone \cap RowsOn(rows, d))
                                /\ day[d].unseen
                                       = IfPanels(s, Cardinality(unseen \cap RowsOn(rows, d)))
                            /\ SumOf([d \in DOMAIN day |-> day[d].suppression_unmeasured], DOMAIN day)
                                   = UnmeasuredLeaves(Panels(s), ActiveLeaves(Panels(s), rows))
        BY DEF SuppressionIsAsDefined
    <2>1. /\ IsFeed(Rows(s)) /\ FinishedIs(analysis[s], Panels(s), Rows(s))
          /\ report.schemas[s] = SchemaPayload(s) /\ input \in Inputs
        BY FeedIsAnalysed
    <2> QED
        BY <2>1, SuppressionOfASchema
<1> QED
    BY <1>1, RunInvHolds, PTL

-------------------------------------------------------------------------------
\* The identities of a report, the facts of each, and those that R6 holds of.
LEMMA FiresAre ==
    ASSUME OneFault, RunInv, pc = "done", NEW s \in SCHEMAS
    PROVE  /\ Found(s) = Identities(Rows(s))
           /\ \A id \in Found(s) : ReportOf(s, id).firing = FactsOf(Rows(s), id)
           /\ FiresIn(analysis[s])
                  = {id \in Identities(Rows(s)) : FactsOf(Rows(s), id).pattern # Null}
           /\ RowFindings(Rows(s), Panels(s))
                  = HeldBy(Panels(s), Rows(s), FiresIn(analysis[s]))
<1> DEFINE rows == Rows(s)
           fires == {id \in Identities(rows) : FactsOf(rows, id).pattern # Null}
<1>1. PICK fin : fin = analysis[s]
    OBVIOUS
<1>2. FinishedIs(fin, Panels(s), rows)
    BY <1>1, FeedIsAnalysed
<1>3. DOMAIN fin.identities = Identities(rows)
    BY <1>2 DEF FinishedIs
<1>4. \A id \in Identities(rows) : fin.identities[id].report.firing = FactsOf(rows, id)
    BY <1>2 DEF FinishedIs
<1>5. FiresIn(fin) = fires
    BY <1>3, <1>4 DEF FiresIn
<1>6. RowFindings(rows, Panels(s)) = HeldBy(Panels(s), rows, fires)
    BY FindingsAre
<1> QED
    BY <1>1, <1>3, <1>4, <1>5, <1>6 DEF Found, ReportOf

\* R6 and every fact of an identity's firing, added up row by row, with the rows of an
\* instant in any order and the pages split in any way, are what all its rows together
\* say once they are sorted (firing_stream.py against firing.py).
THEOREM FiringOfThePages ==
    ASSUME OneFault PROVE Spec => []FiringIsAsDefined
<1>1. RunInv => FiringIsAsDefined
    <2> SUFFICES ASSUME RunInv, pc = "done", NEW s \in SCHEMAS, NEW id \in Identities(Rows(s))
                 PROVE  /\ ReportOf(s, id).firing = FactsOf(Rows(s), id)
                        /\ ("R6" \in ReportOf(s, id).core_rule_ids)
                               <=> (FactsOf(Rows(s), id).pattern # Null)
        BY DEF FiringIsAsDefined
    <2>1. PICK fin, rows, panels : fin = analysis[s] /\ rows = Rows(s) /\ panels = Panels(s)
        OBVIOUS
    <2>2. IsFeed(rows) /\ InOrder(rows) /\ FinishedIs(fin, panels, rows)
        BY <2>1, FeedIsAnalysed
    <2>3. /\ id \in Identities(rows) /\ ReportOf(s, id) = fin.identities[id].report
          /\ ReportOf(s, id).firing = FactsOf(rows, id)
          /\ FiresIn(fin) = {x \in Identities(rows) : FactsOf(rows, x).pattern # Null}
        BY <2>1, FiresAre DEF ReportOf
    <2>4. ReportOf(s, id).core_rule_ids = CORE \cap HeldOf(panels, rows, FiresIn(fin), RowsOf(rows, id))
        <3>1. IdentityFinished(fin.identities[id], panels, rows, FiresIn(fin), RowsOf(rows, id))
            BY <2>2, <2>3 DEF FinishedIs
        <3> QED
            BY <2>3, <3>1 DEF IdentityFinished, FinishedReport
    <2>5. "R6" \in HeldOf(panels, rows, FiresIn(fin), RowsOf(rows, id)) <=> id \in FiresIn(fin)
        <3>1. \A i \in RowsOf(rows, id) :
                  "R6" \in Held(panels, rows, FiresIn(fin), i) <=> id \in FiresIn(fin)
            BY RuleNames DEF Held, RowsOf
        <3>2. RowsOf(rows, id) # {}
            BY <2>2, <2>3, FeedRows
        <3> QED
            BY <3>1, <3>2 DEF HeldOf
    <2>6. "R6" \in CORE
        BY DEF CORE
    <2> QED
        BY <2>1, <2>3, <2>4, <2>5, <2>6
<1> QED
    BY <1>1, RunInvHolds, PTL

\* An instant is of the day that it is not before and not after.
LEMMA DivIs ==
    ASSUME NEW D \in Nat \ {0}, NEW t \in Int, NEW d \in Int
    PROVE  t \div D = d <=> d * D <= t /\ t < d * D + D
<1> DEFINE q == t \div D
<1>1. q \in Int /\ D * q <= t /\ t < D * q + D
    BY SMT
<1> HIDE DEF q
<1>2. D * q = q * D
    BY <1>1, SMT
<1>3. \A x, y \in Int : x < y => x * D + D <= y * D
    <2> SUFFICES ASSUME NEW x \in Int, NEW y \in Int, x < y PROVE x * D + D <= y * D
        OBVIOUS
    <2>1. x + 1 <= y
        OBVIOUS
    <2>2. D * (x + 1) <= D * y
        BY <2>1, SMT
    <2>3. D * (x + 1) = x * D + D /\ D * y = y * D
        BY SMT
    <2> QED
        BY <2>2, <2>3
<1>4. q * D \in Int /\ d * D \in Int
    BY <1>1
<1>5. ASSUME d * D <= t, t < d * D + D PROVE q = d
    <2>1. ~(q < d)
        BY <1>1, <1>2, <1>3, <1>4, <1>5
    <2>2. ~(d < q)
        BY <1>1, <1>2, <1>3, <1>4, <1>5
    <2> QED
        BY <1>1, <2>1, <2>2
<1>6. q = d => d * D <= t /\ t < d * D + D
    BY <1>1, <1>2
<1> QED
    BY <1>5, <1>6 DEF q

LEMMA CoveredIs ==
    ASSUME NEW runAt \in Int
    PROVE  LET ticks == WindowStart(runAt) .. runAt - 1
           IN  /\ \A t \in ticks : DateOf(t) \in Dates(runAt)
               /\ \A d \in Dates(runAt) :
                      /\ CoveredTicks(runAt, d) = Cardinality({t \in ticks : DateOf(t) = d})
                      /\ CoveredTicks(runAt, d) \in 1 .. DAY
<1> DEFINE a == WindowStart(runAt)
           ticks == a .. runAt - 1
<1>1. DAY \in Nat \ {0} /\ WINDOW_DAYS \in Nat \ {0}
    BY WindowAssumption
<1>2. a \in Int /\ runAt - 1 \in Int /\ a <= runAt - 1
    <2>1. WINDOW_DAYS * DAY \in Nat /\ WINDOW_DAYS * DAY >= 1
        BY <1>1, SMT
    <2> QED
        BY <2>1 DEF WindowStart
<1>3. Dates(runAt) = DateOf(a) .. DateOf(runAt - 1)
    BY DEF Dates
<1> HIDE DEF a
<1>4. \A t \in ticks : DateOf(t) \in Dates(runAt)
    <2> TAKE t \in ticks
    <2>1. t \in Int /\ a <= t /\ t <= runAt - 1
        BY <1>2
    <2>2. DateOf(a) <= DateOf(t) /\ DateOf(t) <= DateOf(runAt - 1) /\ DateOf(t) \in Int
        BY <1>1, <1>2, <2>1, DivIsMonotone DEF DateOf
    <2>3. DateOf(a) \in Int /\ DateOf(runAt - 1) \in Int
        BY <1>1, <1>2, DivIsMonotone DEF DateOf
    <2> QED
        BY <1>3, <2>2, <2>3
<1>5. ASSUME NEW d \in Dates(runAt)
      PROVE  /\ CoveredTicks(runAt, d) = Cardinality({t \in ticks : DateOf(t) = d})
             /\ CoveredTicks(runAt, d) \in 1 .. DAY
    <2>1. DateOf(a) \in Int /\ DateOf(runAt - 1) \in Int
        BY <1>1, <1>2, DivIsMonotone DEF DateOf
    <2>2. d \in Int /\ DateOf(a) <= d /\ d <= DateOf(runAt - 1)
        BY <1>3, <2>1
    <2>3. PICK from \in Int : from = d * DAY
        BY <1>1, <2>2
    <2>4. \A t \in Int : DateOf(t) = d <=> from <= t /\ t < from + DAY
        BY <1>1, <2>2, <2>3, DivIs DEF DateOf
    <2>5. a < from + DAY
        <3>1. PICK x \in Int : x = DateOf(a)
            BY <2>1
        <3>2. a < x * DAY + DAY
            BY <1>1, <1>2, <3>1, DivIs DEF DateOf
        <3>3. x * DAY <= d * DAY
            BY <1>1, <2>2, <3>1, SMT
        <3>4. x * DAY \in Int
            BY <1>1, <3>1
        <3> QED
            BY <1>1, <1>2, <2>3, <3>2, <3>3, <3>4
    <2>6. from <= runAt - 1
        <3>1. PICK x \in Int : x = DateOf(runAt - 1)
            BY <2>1
        <3>2. x * DAY <= runAt - 1
            BY <1>1, <1>2, <3>1, DivIs DEF DateOf
        <3>3. d * DAY <= x * DAY
            BY <1>1, <2>2, <3>1, SMT
        <3>4. x * DAY \in Int
            BY <1>1, <3>1
        <3> QED
            BY <1>2, <2>3, <3>2, <3>3, <3>4
    <2>7. PICK lo, hi : lo = BucketStart(runAt, d) /\ hi = BucketEnd(runAt, d)
        OBVIOUS
    <2>8. /\ lo = IF a >= from THEN a ELSE from
          /\ hi = IF runAt <= from + DAY THEN runAt ELSE from + DAY
        BY <2>3, <2>7 DEF BucketStart, BucketEnd, Later, Earlier, a
    <2>9. lo \in Int /\ hi \in Int /\ lo <= hi - 1 /\ hi - lo <= DAY
        BY <1>1, <1>2, <2>3, <2>5, <2>6, <2>8
    <2>10. {t \in ticks : DateOf(t) = d} = lo .. hi - 1
        <3>1. \A t \in Int : a <= t /\ t <= runAt - 1 /\ from <= t /\ t < from + DAY
                                  <=> lo <= t /\ t <= hi - 1
            BY <1>1, <1>2, <2>3, <2>8
        <3> QED
            BY <1>2, <2>4, <2>9, <3>1
    <2>11. Cardinality(lo .. hi - 1) = hi - lo
        <3>1. Cardinality(lo .. hi - 1) = (hi - 1) - lo + 1
            BY <2>9, FS_Interval
        <3> QED
            BY <2>9, <3>1
    <2>12. CoveredTicks(runAt, d) = hi - lo
        BY <2>7 DEF CoveredTicks
    <2> QED
        <3>1. hi - lo \in 1 .. DAY
            BY <1>1, <2>9
        <3> HIDE DEF ticks
        <3> QED
            BY <2>10, <2>11, <2>12, <3>1
<1> QED
    BY <1>4, <1>5 DEF a

\* Every daily figure a run persists is the one its rows define, and when the cluster
\* lost, repeated or disordered a row there is no report (streaming.py; reader.py,
\* scan_schema).
THEOREM DaysOfThePages ==
    ASSUME OneFault PROVE Spec => []DaysAreAsDefined
<1>1. ASSUME RunInv, pc = "done", NEW s \in SCHEMAS, NEW t \in WindowTicks
      PROVE  DateOf(t) \in DOMAIN report.schemas[s].daily
    <2>1. report.schemas[s] = SchemaPayload(s)
        BY <1>1, FeedIsAnalysed
    <2>2. DOMAIN SchemaPayload(s).daily = Dates(input.run_at)
        BY DEF SchemaPayload
    <2>3. input.run_at \in Int
        BY <1>1, FeedIsAnalysed, PipelineAssumption
    <2> QED
        BY <2>1, <2>2, <2>3, CoveredIs DEF WindowTicks
<1>2. RunInv => DaysAreAsDefined
    <2> SUFFICES ASSUME RunInv, pc = "done", NEW s \in SCHEMAS,
                        NEW d \in Dates(input.run_at)
                 PROVE  LET rows == Rows(s)
                            findings == RowFindings(rows, Panels(s))
                            payload == report.schemas[s]
                        IN  /\ payload.daily[d].covered
                                   = Cardinality({t \in WindowTicks : DateOf(t) = d})
                            /\ payload.daily[d].covered \in 1 .. DAY
                            /\ payload.daily[d].volume = DailyVolume(rows, d)
                            /\ payload.daily[d].flagged = DailyFlagged(rows, findings, d)
                            /\ payload.rules[d] = DailyRules(rows, findings, d)
        BY <1>1 DEF DaysAreAsDefined
    <2>1. PICK fin : fin = analysis[s]
        OBVIOUS
    <2>2. /\ IsFeed(Rows(s)) /\ FinishedIs(fin, Panels(s), Rows(s))
          /\ report.schemas[s] = SchemaPayload(s) /\ input \in Inputs
        BY <2>1, FeedIsAnalysed
    <2>3. /\ SchemaPayload(s).daily[d].volume = StreamVolume(fin, d)
          /\ SchemaPayload(s).daily[d].flagged = StreamFlagged(fin, d)
          /\ SchemaPayload(s).rules[d] = StreamRules(fin, d)
        <3>1. /\ SchemaPayload(s).daily[d] = DayRow(s, d)
              /\ SchemaPayload(s).rules[d] = StreamRules(fin, d)
            BY <2>1, DayRowIs
        <3>2. DayRow(s, d).volume = StreamVolume(fin, d) /\ DayRow(s, d).flagged = StreamFlagged(fin, d)
            BY <2>1, DayRowIs
        <3> QED
            BY <3>1, <3>2
    <2>4. RowFindings(Rows(s), Panels(s)) = HeldBy(Panels(s), Rows(s), FiresIn(fin))
        BY <2>1, FiresAre
    <2>5. StreamVolume(fin, d) = DailyVolume(Rows(s), d)
        BY <2>2, VolumeIs
    <2>6. StreamFlagged(fin, d)
              = DailyFlagged(Rows(s), HeldBy(Panels(s), Rows(s), FiresIn(fin)), d)
        BY <2>2, FlaggedIs
    <2>7. StreamRules(fin, d)
              = DailyRules(Rows(s), HeldBy(Panels(s), Rows(s), FiresIn(fin)), d)
        BY <2>2, RulesAre
    <2>8. SchemaPayload(s).daily[d].covered = CoveredTicks(input.run_at, d)
        <3>1. SchemaPayload(s).daily[d] = DayRow(s, d)
            BY <2>1, DayRowIs
        <3> QED
            BY <3>1 DEF DayRow
    <2>9. /\ CoveredTicks(input.run_at, d) = Cardinality({t \in WindowTicks : DateOf(t) = d})
          /\ CoveredTicks(input.run_at, d) \in 1 .. DAY
        <3>1. input.run_at \in Int
            BY <2>2, PipelineAssumption
        <3> QED
            BY <3>1, CoveredIs DEF WindowTicks
    <2> QED
        BY <2>2, <2>3, <2>4, <2>5, <2>6, <2>7, <2>8, <2>9
<1> QED
    BY <1>2, RunInvHolds, PTL

\* A finding names the latest row, every rule that held of any row with the number
\* of rows and the first of them, and the readiness of the latest row (streaming.py,
\* finish; findings.py).
THEOREM FindingsOfThePages ==
    ASSUME OneFault PROVE Spec => []FindingsAreAsDefined
<1>1. RunInv => FindingsAreAsDefined
    <2> SUFFICES ASSUME RunInv, pc = "done", NEW s \in SCHEMAS
                 PROVE  LET rows == Rows(s)
                            findings == RowFindings(rows, Panels(s))
                        IN  /\ Found(s) = Identities(rows)
                            /\ \A id \in Found(s) :
                                   ReportOf(s, id) = IdentityReport(rows, Panels(s), findings, id)
        BY DEF FindingsAreAsDefined
    <2>1. PICK fin : fin = analysis[s]
        OBVIOUS
    <2>2. /\ IsFeed(Rows(s)) /\ InOrder(Rows(s)) /\ FinishedIs(fin, Panels(s), Rows(s))
        BY <2>1, FeedIsAnalysed
    <2>3. /\ RowFindings(Rows(s), Panels(s)) = HeldBy(Panels(s), Rows(s), FiresIn(fin))
          /\ Found(s) = Identities(Rows(s))
        BY <2>1, FiresAre
    <2>4. \A id \in Found(s) :
              ReportOf(s, id)
                  = IdentityReport(Rows(s), Panels(s), HeldBy(Panels(s), Rows(s), FiresIn(fin)), id)
        <3> SUFFICES ASSUME NEW id \in Found(s)
                     PROVE  ReportOf(s, id) = IdentityReport(Rows(s), Panels(s),
                                HeldBy(Panels(s), Rows(s), FiresIn(fin)), id)
            OBVIOUS
        <3>1. id \in Identities(Rows(s)) /\ ReportOf(s, id) = fin.identities[id].report
            BY <2>1, <2>3 DEF ReportOf
        <3> QED
            BY <2>2, <3>1, ReportIs
    <2> QED
        BY <2>3, <2>4
<1> QED
    BY <1>1, RunInvHolds, PTL
===============================================================================
