---- MODULE MCReviewStore ----
\* Four runs of one team, in half weeks: two adjacent Monday weeks, a second run
\* of the second week, and a run a half week out of line with both.
EXTENDS ReviewStore, TLC

CONSTANTS team, first, second, again, skewed, s1, s2

MCTeams == {team}
MCRuns == {first, second, again, skewed}
MCRunTeam == [r \in MCRuns |-> team]
MCRunStart == (first :> 0) @@ (second :> 2) @@ (again :> 2) @@ (skewed :> 3)
MCRunEnd == [r \in MCRuns |-> MCRunStart[r] + 2]
MCSessions == {s1, s2}
SessionSymmetry == Permutations(MCSessions)
====
