------------------------------- MODULE Docket -------------------------------
(***************************************************************************)
(* What a tray promises to whoever decides on what lies in it, with no     *)
(* rows, sessions or statuses: a matter is raised once; only an open one   *)
(* is taken up; whoever has taken it up may act on it once and then rules  *)
(* on it or leaves it.  Two who took it up together may overrule each      *)
(* other, but when the last of them is through the matter is settled: no   *)
(* ruling changes and nothing more is done about it.                       *)
(***************************************************************************)
EXTENDS Naturals

CONSTANTS
    Matters,    \* what may be raised
    Deciders,   \* who may take a matter up
    Rulings     \* what may be ruled

VARIABLES
    raised,     \* the matters there are
    ruling,     \* the ruling on each matter: a set of one, empty while it is open
    hearing,    \* what each decider has taken up: a set of one, or empty
    acted,      \* the deciders who have acted on what they took up
    effects     \* how much was done about each matter

docketVars == <<raised, ruling, hearing, acted, effects>>

DocketInit ==
    /\ raised = {}
    /\ ruling = [m \in Matters |-> {}]
    /\ hearing = [d \in Deciders |-> {}]
    /\ acted = {}
    /\ effects = [m \in Matters |-> 0]

Raise(S) ==
    /\ S # {} /\ S \intersect raised = {}
    /\ raised' = raised \union S
    /\ UNCHANGED <<ruling, hearing, acted, effects>>

Hear(d, m) ==
    /\ hearing[d] = {}
    /\ m \in raised /\ ruling[m] = {}
    /\ hearing' = [hearing EXCEPT ![d] = {m}]
    /\ UNCHANGED <<raised, ruling, acted, effects>>

\* Something is done about the matter before the ruling, and may not come off.
Act(d, m) ==
    /\ m \in hearing[d] /\ d \notin acted
    /\ \E n \in {0, 1} : effects' = [effects EXCEPT ![m] = @ + n]
    /\ acted' = acted \union {d}
    /\ UNCHANGED <<raised, ruling, hearing>>

\* The ruling may do something about the matter, too.
Rule(d, m, x) ==
    /\ m \in hearing[d]
    /\ ruling' = [ruling EXCEPT ![m] = {x}]
    /\ \E n \in {0, 1} : effects' = [effects EXCEPT ![m] = @ + n]
    /\ hearing' = [hearing EXCEPT ![d] = {}]
    /\ acted' = acted \ {d}
    /\ UNCHANGED raised

Leave(d) ==
    /\ hearing' = [hearing EXCEPT ![d] = {}]
    /\ acted' = acted \ {d}
    /\ UNCHANGED <<raised, ruling, effects>>

DocketNext ==
    \/ \E d \in Deciders :
        \/ Leave(d)
        \/ \E m \in Matters : \/ Hear(d, m)
                              \/ Act(d, m)
                              \/ \E x \in Rulings : Rule(d, m, x)
    \/ \E S \in SUBSET Matters : Raise(S)

DocketSpec == DocketInit /\ [][DocketNext]_docketVars

=============================================================================
