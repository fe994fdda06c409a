----------------------------- MODULE TaskStore -----------------------------
(***************************************************************************)
(* What the board on disk promises: a task is nowhere or in one status,    *)
(* a new task appears under an id that is nowhere, a task changes status   *)
(* in one step, one task at a time, and no task is ever lost.              *)
(***************************************************************************)
CONSTANTS Tasks, Statuses, Nowhere

VARIABLE place      \* place[t]: the status of t, or Nowhere

Init == place \in [Tasks -> Statuses \cup {Nowhere}]

Create(t) ==
    /\ place[t] = Nowhere
    /\ \E s \in Statuses : place' = [place EXCEPT ![t] = s]

Move(t) ==
    /\ place[t] # Nowhere
    /\ \E s \in Statuses : place' = [place EXCEPT ![t] = s]

Next == \E t \in Tasks : Create(t) \/ Move(t)

Spec == Init /\ [][Next]_place

=============================================================================
