------------------------------- MODULE MCRollout -------------------------------
\* Two pods: one with the HTTP surface, whose two requests share a gate, and with an
\* operator's commands; the other only migrates.  Two revisions: the first makes a table and a view, the second
\* alters the view and makes an index.
EXTENDS Rollout, TLC

CONSTANTS none, api, job, post1, post2, command, get

Table == [object |-> "table", again |-> FALSE]
View == [object |-> "view", again |-> TRUE]
Index == [object |-> "index", again |-> FALSE]

First(text) == [text |-> text, down |-> none, batches |-> <<Table, View>>]
Second(text, batches) == [text |-> text, down |-> "r1", batches |-> batches]

Old == ("r1" :> First("a"))
New == Old @@ ("r2" :> Second("b", <<View, Index>>))
Fork == Old @@ ("r3" :> Second("c", <<View>>))
Edited == ("r1" :> First("x")) @@ ("r2" :> Second("y", <<View>>))

MCPods == {api, job}
MCImages == {Old, New, Fork, Edited}

ASSUME ImagesAgree == SamePlaces /\ EditedThroughout

MCSessions == {post1, post2, command, get}
MCGated == {post1, post2}
MCReaders == {get}
MCPodOf == [s \in MCSessions |-> api]

\* Four images race with nobody served; a request is served while its
\* own pod and the other go from the old image to the new one; three sessions of a pod
\* write side by side; one reads while another writes.
MCDeployments ==
    {[pods |-> MCPods, images |-> MCImages, offered |-> MCImages, sessions |-> {}, attempts |-> 0],
     [pods |-> MCPods, images |-> {Old}, offered |-> {New}, sessions |-> {post1}, attempts |-> 1],
     [pods |-> {api}, images |-> {Old}, offered |-> {}, sessions |-> {post1, post2, command}, attempts |-> 2],
     [pods |-> {api}, images |-> {Old}, offered |-> {}, sessions |-> {command, get}, attempts |-> 2]}

MCRuns == {"q1", "q2"}
MCFindings == {1}
MCVerdicts == {"v"}
\* q1 comes out differently each time; q2 stores the same verdict.
MCPayloads ==
    {[run |-> "q1", findings |-> {1}, verdicts |-> <<"v">>],
     [run |-> "q1", findings |-> {}, verdicts |-> <<>>],
     [run |-> "q2", findings |-> {}, verdicts |-> <<"v">>]}
===============================================================================
