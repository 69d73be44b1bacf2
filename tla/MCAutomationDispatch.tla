------------------------ MODULE MCAutomationDispatch ------------------------
(* Roadmap, approval gate and task queue together on a small instance, in  *)
(* two scenes: everything around the gate, with retries and cancellations, *)
(* one task fewer and no roadmap; and the roadmap over a gate with one     *)
(* review, where every task is one that was dispatched.                    *)
EXTENDS AutomationDispatch, TLC

VARIABLE scene

MCPriority == [t \in Tasks |-> 5]
MCLane == [t \in Tasks |-> CHOOSE l \in Lanes : TRUE]
MCServes == [w \in Workers |-> Lanes]

\* Requests of one kind are interchangeable.
MCSymmetry == Permutations(Dispatches) \union Permutations(Builds) \union Permutations(Reviews)

MCInit == DispatchInit /\ scene \in {"gate", "roadmap"}

\* What the scene "roadmap" leaves to the other.
Calm ==
    /\ \A t \in Tasks : status'[t] # "absent" => subject'[t] # NoItem
    /\ \A c \in Cancels : cancelling'[c] = NoTask
    /\ Cardinality({v \in Reviews : review'[v] # IdleReview}) <= 1

MCNext ==
    /\ \/ scene = "gate" /\ GateNext /\ status'[MaxTasks] = "absent" /\ UNCHANGED itemVars
       \/ scene = "roadmap" /\ DispatchNext /\ Calm
    /\ UNCHANGED scene

MCSpec == MCInit /\ [][MCNext]_<<dispatchVars, scene>>

=============================================================================
