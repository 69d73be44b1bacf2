----------------------------- MODULE WorkLedger -----------------------------
(***************************************************************************)
(* What the agent task queue promises to whoever posts work to it, with    *)
(* no statuses, sessions or rows: a job is posted once, is in the hands of *)
(* at most one owner at a time, is handed out at most MaxAttempts times,   *)
(* and never comes back once it is off the queue.                          *)
(***************************************************************************)
EXTENDS Naturals

CONSTANTS
    Jobs,         \* the jobs that may be posted
    Owners,       \* who may take a job
    MaxAttempts   \* how often one job may be handed out

VARIABLES
    place,    \* where each job is: "new", "open", "taken" or "off"
    owners,   \* who has each job in hand
    tries     \* how often each job was handed out

ledgerVars == <<place, owners, tries>>

LedgerTypeOK ==
    /\ place \in [Jobs -> {"new", "open", "taken", "off"}]
    /\ owners \in [Jobs -> SUBSET Owners]
    /\ tries \in [Jobs -> 0..MaxAttempts]

LedgerInit ==
    /\ place = [j \in Jobs |-> "new"]
    /\ owners = [j \in Jobs |-> {}]
    /\ tries = [j \in Jobs |-> 0]

Post(j) ==
    /\ place[j] = "new"
    /\ \E p \in {"open", "off"} : place' = [place EXCEPT ![j] = p]
    /\ UNCHANGED <<owners, tries>>

Take(j, o) ==
    /\ place[j] = "open"
    /\ tries[j] < MaxAttempts
    /\ place' = [place EXCEPT ![j] = "taken"]
    /\ owners' = [owners EXCEPT ![j] = {o}]
    /\ tries' = [tries EXCEPT ![j] = @ + 1]

\* Back to the queue, which is only possible while attempts are left.
GiveBack(j) ==
    /\ place[j] = "taken"
    /\ tries[j] < MaxAttempts
    /\ place' = [place EXCEPT ![j] = "open"]
    /\ owners' = [owners EXCEPT ![j] = {}]
    /\ UNCHANGED tries

\* Done, given up, parked for a decision, withdrawn or lost with its owner.
Leave(j) ==
    /\ place[j] \in {"open", "taken"}
    /\ place' = [place EXCEPT ![j] = "off"]
    /\ owners' = [owners EXCEPT ![j] = {}]
    /\ UNCHANGED tries

LedgerNext ==
    \E j \in Jobs :
        \/ Post(j)
        \/ \E o \in Owners : Take(j, o)
        \/ GiveBack(j)
        \/ Leave(j)

LedgerSpec == LedgerInit /\ [][LedgerNext]_ledgerVars

=============================================================================
