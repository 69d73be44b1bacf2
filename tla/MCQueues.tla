------------------------------ MODULE MCQueues ------------------------------
(* What waits to be taken up, on small instances, each a scene of its own: *)
(* "tasks" is TaskQueue, a few tasks in every race; "stream" TaskStream,   *)
(* tasks without end; "review" StagingReview, staged records and those who *)
(* decide on them.  No symmetry, because liveness is checked.              *)
EXTENDS MCTaskQueue, TaskStream, StagingReview

VARIABLE scene

MCInit == QueueInit /\ StreamInit /\ ReviewInit /\ scene \in {"tasks", "stream", "review"}

MCNext ==
    /\ \/ scene = "tasks" /\ QueueNext /\ UNCHANGED <<streamVars, ingestVars, reviewVars>>
       \/ scene = "stream" /\ StreamNext /\ UNCHANGED <<queueVars, ingestVars, reviewVars>>
       \/ scene = "review" /\ ReviewNext /\ UNCHANGED <<queueVars, streamVars>>
    /\ UNCHANGED scene

MCVars == <<queueVars, streamVars, ingestVars, reviewVars, scene>>

MCSpec == MCInit /\ [][MCNext]_MCVars /\ (scene = "stream" => StreamFairness)

=============================================================================
