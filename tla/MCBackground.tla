---------------------------- MODULE MCBackground ----------------------------
(* Work behind the requests on small instances, without symmetry because   *)
(* liveness is checked.  Scenes: "uploads" is Ingestion; "monitor" the     *)
(* runs of Monitor, overlapping and lost; "tray" Monitor with every        *)
(* decision, on one failure and without overlaps.                          *)
EXTENDS Ingestion, Monitor

VARIABLE scene

MCInit == IngestionInit /\ MonInit /\ scene \in {"uploads", "monitor", "tray"}

MonitorScene ==
    \/ \E s \in Sources : source_fails(s)
    \/ \E r \in MonitorRuns : \/ monitor_start(r, "loop")
                              \/ monitor_start(r, "request")
                              \/ MonStep(r)
                              \/ run_lost(r)

TrayScene == MonNext /\ Cardinality(broken') <= 1 /\ overlaps' = 0

MCNext ==
    /\ \/ scene = "uploads" /\ IngestionNext /\ UNCHANGED monVars
       \/ scene = "monitor" /\ MonitorScene /\ UNCHANGED ingestVars
       \/ scene = "tray" /\ TrayScene /\ UNCHANGED ingestVars
    /\ UNCHANGED scene

\* Each scene under the fairness of its own module.
MCFairness ==
    \/ scene = "uploads" /\ IngestionFairness
    \/ scene # "uploads" /\ MonFairness

MCSpec == MCInit /\ [][MCNext]_<<ingestVars, monVars, scene>> /\ MCFairness

=============================================================================
