------------------------------ MODULE MCBoard ------------------------------
(* Instances of Board for TLC: the sets of commands the runs explore.      *)
EXTENDS Board, TLC

Symmetry == Permutations(Procs)

Cmd(ops, tasks, targets) == [op : ops, task : tasks, to : targets]

Doc(ref, failed, agent) == [ref |-> ref, failed |-> failed, agent |-> agent]

\* Ready for review.
OneDoc   == {Doc(TRUE, FALSE, "none")}
\* After a failed review, with the status of an earlier run.
WornDocs == {Doc(TRUE, TRUE, "success"), Doc(FALSE, FALSE, "none")}

\* The workflow of task 1, and pushes by hand; what another task needs to
\* compete with it for a place in a column.
FlowCommands ==
    Cmd({"ready", "pull", "submit", "pass", "fail", "clearref"},
        {1}, {"archive"})
    \cup Cmd({"mv"}, Tasks, {"in-progress"})
    \cup Cmd({"ready"}, {2}, {"archive"})

\* Everything that adds, promotes and moves entries of the directory.
StoreCommands ==
    Cmd({"attach", "submit", "assign"}, Tasks, {"archive"})
    \cup Cmd({"mv"}, Tasks, {"backlog", "in-progress"})
    \cup Cmd({"create", "createLegacy"}, {1}, {"backlog"})

\* One of each kind.
AllCommands ==
    Cmd({"start", "done", "close", "ready", "readyStrict", "pull", "submit",
         "pass", "fail", "setref", "clearref", "assign", "attach"},
        {1}, {"archive"})
    \cup Cmd({"mv"}, {1}, {"ready", "code-review"})
    \cup Cmd({"create", "createLegacy"}, {1}, {"backlog", "code-review"})

=============================================================================
