----------------------------- MODULE MCRecords -----------------------------
(* What comes in from outside, from providers, interviews and artifacts,   *)
(* on small instances, each a scene of its own.  Jobs and indexers share   *)
(* their model values, so that one pair of permutations serves both.       *)
(* Scenes: "sync" is every provider under the CHECK of migration 001,      *)
(* which refuses Plaid's records; "plaid" Plaid alone on a database that   *)
(* admits them, with a transaction more, so that its cursor moves while    *)
(* others sync, reconnect or fail.                                         *)
EXTENDS IntegrationSync, Interview, Knowledge, TLC

VARIABLE scene

MCSymmetry == Permutations(SyncJobs)

MCInit ==
    /\ SyncInit /\ InterviewInit /\ KnowledgeInit
    /\ scene \in {"sync", "plaid", "interview", "knowledge"}
    /\ admitted = IF scene = "sync" THEN {"quickbooks"} ELSE Providers

SyncScene == SyncNext /\ began' < MaxTx

PlaidScene ==
    /\ SyncNext
    /\ \A p \in Providers \ {"plaid"} : UNCHANGED <<feed[p], posted[p]>>
    /\ \A j \in SyncJobs : job'[j].provider \in {"none", "plaid"}

\* A synthesis has one text or a blank one.
KnowledgeScene ==
    /\ KnowledgeNext
    /\ \A x \in Indexers : indexer'[x].ref \in Syntheses => indexer'[x].version \in {1} \union Blank

MCNext ==
    /\ \/ scene = "sync" /\ SyncScene /\ UNCHANGED <<interviewVars, knowledgeVars>>
       \/ scene = "plaid" /\ PlaidScene /\ UNCHANGED <<interviewVars, knowledgeVars>>
       \/ scene = "interview" /\ InterviewNext /\ UNCHANGED <<syncVars, knowledgeVars>>
       \/ scene = "knowledge" /\ KnowledgeScene /\ UNCHANGED <<syncVars, interviewVars>>
    /\ UNCHANGED scene

MCSpec == MCInit /\ [][MCNext]_<<syncVars, interviewVars, knowledgeVars, scene>>

=============================================================================
