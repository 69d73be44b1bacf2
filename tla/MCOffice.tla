------------------------------ MODULE MCOffice ------------------------------
(* What agents and the assistant propose and people decide, on small       *)
(* instances, each a scene of its own.  Scenes share model values, so that *)
(* one small group of permutations serves all of them: r1, r2 and q1, q2   *)
(* are whatever is interchangeable in a scene.                             *)
EXTENDS OpsLoops, CooActions, Decisions, TLC

VARIABLE scene

MCFires == [l \in Loops |-> {3}]
MCSymmetry == Permutations(Sessions) \union Permutations(Loops)

MCInit == OpsInit /\ CooInit /\ DecisionsInit /\ scene \in {"loops", "talk", "tray", "decisions"}

\* The conversation alone, and the tray with as many proposals as there are rows for them.
Talk == CooNext /\ decide' = decide
Tray == CooNext /\ Len(messages') <= 2 * MaxActions

MCNext ==
    /\ \/ scene = "loops" /\ OpsNext /\ UNCHANGED <<cooVars, decisionVars>>
       \/ scene = "talk" /\ Talk /\ UNCHANGED <<opsVars, decisionVars>>
       \/ scene = "tray" /\ Tray /\ UNCHANGED <<opsVars, decisionVars>>
       \/ scene = "decisions" /\ DecisionsNext /\ UNCHANGED <<opsVars, cooVars>>
    /\ UNCHANGED scene

MCSpec == MCInit /\ [][MCNext]_<<opsVars, cooVars, decisionVars, scene>>

=============================================================================
