----------------------------- MODULE MCTaskQueue -----------------------------
(* TaskQueue on small instances: constants that a cfg cannot write down.   *)
EXTENDS TaskQueue

\* Two tasks of equal priority, so that created_at decides, and a later one
\* that is more urgent.
MCPriority == [t \in Tasks |-> IF t = 3 THEN 1 ELSE 5]

\* Every task in the one lane that every worker serves.
MCLane == [t \in Tasks |-> CHOOSE l \in Lanes : TRUE]
MCServes == [w \in Workers |-> Lanes]

=============================================================================
