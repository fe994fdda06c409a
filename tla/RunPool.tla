------------------------------- MODULE RunPool -------------------------------
(***************************************************************************)
(* What the GUI promises about agent runs, whichever of its parts starts   *)
(* them: a task has at most one run, and at most MaxLimit of the runs that *)
(* this process started execute at once.  A run adopted from an earlier    *)
(* process was started under that process's budget and does not count.     *)
(***************************************************************************)
EXTENDS Naturals, FiniteSets

CONSTANTS Tasks, MaxLimit

VARIABLES
    own,        \* tasks with a run that this process started
    adopted     \* tasks with a run that an earlier process started

poolVars == <<own, adopted>>

Init == own = {} /\ adopted = {}

Start(t) ==
    /\ t \notin own \cup adopted
    /\ Cardinality(own) < MaxLimit
    /\ own' = own \cup {t}
    /\ UNCHANGED adopted

Finish(t) ==
    /\ t \in own
    /\ own' = own \ {t}
    /\ UNCHANGED adopted

Adopt(t) ==
    /\ t \notin own \cup adopted
    /\ adopted' = adopted \cup {t}
    /\ UNCHANGED own

Depart(t) ==
    /\ t \in adopted
    /\ adopted' = adopted \ {t}
    /\ UNCHANGED own

Next == \E t \in Tasks : Start(t) \/ Finish(t) \/ Adopt(t) \/ Depart(t)

Spec == Init /\ [][Next]_poolVars

=============================================================================
