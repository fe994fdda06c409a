----------------------------- MODULE RunHistory -----------------------------
(***************************************************************************)
(* What the history of a task promises to its readers, ListRuns and the    *)
(* badges of gui/app/agent_runs.go: a run is queued, may start and gets    *)
(* one outcome, and an outcome is never taken back.                        *)
(***************************************************************************)
EXTENDS FiniteSets

CONSTANTS Runs, Outcomes

VARIABLE stage

Init == stage = [r \in Runs |-> "absent"]

Queue(r) == stage[r] = "absent" /\ stage' = [stage EXCEPT ![r] = "queued"]

Start(r) == stage[r] = "queued" /\ stage' = [stage EXCEPT ![r] = "started"]

Finish(r) ==
    /\ stage[r] \in {"queued", "started"}
    /\ \E out \in Outcomes : stage' = [stage EXCEPT ![r] = out]

Next == \E r \in Runs : Queue(r) \/ Start(r) \/ Finish(r)

Spec == Init /\ [][Next]_stage

=============================================================================
