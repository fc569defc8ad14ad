---- MODULE MCLlmJournal ----
\* Two processes and two attempts: enough for one process to die or lose its
\* session at any point and for the other to resume or to race it.
EXTENDS LlmJournal, TLC

CONSTANTS p1, p2, s1, s2, r1, r2

MCProcesses == {p1, p2}

MCOneSettings == {s1}

MCSettings == {s1, s2}

MCRequests == {r1, r2}

MCOneBatch == {1}

MCBatches == {1, 2}

MCVerdicts == {"good", "bad"}

MCOneVerdict == {"good"}

Symmetry ==
    Permutations(MCProcesses) \union Permutations(MCSettings)
        \union Permutations(MCRequests)

====
