--------------------------- MODULE MCApprovalGate ---------------------------
(* ApprovalGate on small instances.                                        *)
EXTENDS ApprovalGate

MCPriority == [t \in Tasks |-> 5]
MCLane == [t \in Tasks |-> CHOOSE l \in Lanes : TRUE]
MCServes == [w \in Workers |-> Lanes]

=============================================================================
