---- MODULE PublicationRules ----
\* The rule that decides whether a run may become a team's published week
\* (src/review/publication.py, check_publication).  It is a pure function of the
\* candidate's window and of the weeks the team currently has published, so it
\* is stated once here and used by every module that publishes.
\*
\* A week is a record [run, start, end]; instants are integers.
EXTENDS Integers

CONSTANT WeekLength      \* WINDOW_HOURS, in the model's unit of time

ASSUME WeekLengthAssumption == WeekLength \in Nat \ {0}

\* The two half-open windows share an instant.  The code compares
\* min(ends) - max(starts) with zero; for windows of positive length
\* (ck_review_publications_window) this is the same test.
Overlaps(a, b) == a.start < b.end /\ b.start < a.end

SameWindow(a, b) == a.start = b.start /\ a.end = b.end

\* The current weeks a --replace of `candidate` would withdraw.
SameWeek(candidate, current) == {w \in current : SameWindow(w, candidate)}

\* Neither side of the candidate is separated from the nearest other week.
LeavesNoGap(candidate, others) ==
    LET before == {w \in others : w.end <= candidate.start}
        after  == {w \in others : w.start >= candidate.end}
    IN  /\ before # {} => \E w \in before : w.end = candidate.start
        /\ after # {} => \E w \in after : w.start = candidate.end

\* check_publication returns instead of raising PublicationRefused.
Accepts(candidate, current, replace, allowGap) ==
    LET same == SameWeek(candidate, current)
    IN  /\ candidate.end - candidate.start = WeekLength
        /\ \A w \in current : w.run # candidate.run
        /\ replace <=> same # {}
        /\ \A v, w \in same : v = w
        /\ \A w \in current \ same : ~Overlaps(candidate, w)
        /\ allowGap \/ replace \/ LeavesNoGap(candidate, current)

====
