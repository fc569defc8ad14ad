------------------------------ MODULE FiringStream ------------------------------
(***************************************************************************)
(* The same facts from one pass in time order, with no row kept:           *)
(* FiringAccumulator of src/rules/firing_stream.py.  The rows of an        *)
(* instant are pending until a later instant shows that it is complete.    *)
(***************************************************************************)
EXTENDS FiringFacts

NoFiring ==
    [first |-> Null, pending_at |-> Null, fires |-> 0, clears |-> 0, count |-> 0,
     clear_count |-> 0, current |-> 0, max_episode |-> 0, open_since |-> Null,
     cycles |-> {}, max_cycles |-> 0]

Flush(a) ==
    IF a.pending_at = Null THEN a ELSE
    LET now == a.current + a.fires
        recent == {t \in a.cycles : a.pending_at - t < FLAP_WINDOW}
        closes == a.clears > 0 /\ now > 0
        cycles == IF closes THEN recent \cup {a.pending_at} ELSE recent
    IN  [a EXCEPT
           !.max_episode = Max({@, now}),
           !.cycles = cycles,
           !.max_cycles = Max({@, IF closes THEN Cardinality(cycles) ELSE 0}),
           !.current = IF a.clears > 0 THEN 0 ELSE now,
           !.open_since = IF a.clears > 0 THEN Null
                          ELSE IF a.current = 0 /\ a.fires > 0 THEN a.pending_at ELSE @,
           !.fires = 0, !.clears = 0]

\* A mutant: every row closes what came before it, its own instant included.
IsAnyRow(a, row) == a.pending_at # Null
IsNewInstant(a, row) == a.pending_at # Null /\ row.at # a.pending_at

AddFiring(a, row) ==
    LET b == IF IsNewInstant(a, row) THEN Flush(a) ELSE a
        clear == IF IsClear(row) THEN 1 ELSE 0
    IN  [b EXCEPT
           !.first = IF @ = Null THEN row.at ELSE @,
           !.pending_at = row.at,
           !.count = @ + 1,
           !.clears = @ + clear,
           !.clear_count = @ + clear,
           !.fires = @ + 1 - clear]

FinishFiring(a, provider) ==
    LET b == Flush(a)
        span == b.pending_at - b.first
        openSpan == IF b.open_since = Null THEN Null ELSE b.pending_at - b.open_since
    IN  [clear_count |-> b.clear_count,
         max_cycles |-> b.max_cycles,
         max_episode |-> b.max_episode,
         open_since |-> b.open_since,
         open_span |-> openSpan,
         span |-> span,
         pattern |-> Pattern(b.max_cycles, b.count, span, openSpan, provider)]
===============================================================================
