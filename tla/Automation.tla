----------------------------- MODULE Automation -----------------------------
(***************************************************************************)
(* The staged automation over one board: the coordinators of               *)
(* gui/app/auto_groom.go, auto_implement.go and auto_review.go, the        *)
(* repairs of gui/app/stage_reconciler.go, the epic order of               *)
(* gui/internal/automation/epicorder and the worker budget they share.     *)
(*                                                                         *)
(* A coordinator reads the board once per scan and then issues commands    *)
(* for tasks of that snapshot, one at a time, while agents, users and the  *)
(* reconciler change the board.  It scans when a file has changed (Alert)  *)
(* and never polls: what one scan skips waits for the next event.          *)
(*                                                                         *)
(* The commands are those of module Board in one step each, a start of a   *)
(* run is that of module AgentRun in one step.  All three stages are on,   *)
(* the default agent and the query are set, every task matches the query,  *)
(* the settle window and the startup grace are zero.                       *)
(***************************************************************************)
EXTENDS Naturals, Sequences, FiniteSets

CONSTANTS
    NumTasks,     \* tasks are numbered, as their ids are
    Parent,       \* Parent[t]: the epic of t, 0 for none
    Priority,     \* Priority[t]: 0 is P0
    Start,        \* Start[t]: the column t is in at the beginning
    MaxWorkers,   \* max_workers
    Limit,        \* Limit[s]: the WIP limit of column s, 0 for none
    MaxRuns,      \* bound on the runs queued
    MaxTroubles   \* bound on what users do and deaths of the GUI, together

Tasks  == 1..NumTasks
Stages == {"backlog", "ready", "in-progress", "code-review", "done"}

ASSUME AutomationAssumption ==
    /\ NumTasks \in Nat /\ MaxWorkers \in Nat \ {0}
    /\ Parent \in [Tasks -> Nat] /\ Priority \in [Tasks -> Nat]
    /\ Start \in [Tasks -> Stages] /\ Limit \in [Stages -> Nat]
    /\ MaxRuns \in Nat /\ MaxTroubles \in Nat

VARIABLES
    file,      \* the tasks' files
    run,       \* the latest run in each task's history
    groomed,   \* LastGroomTriageHash of each task, 0 for none
    reviewed,  \* review epochs that autoReviewAlreadyQueued finds
    scan,      \* the scan each coordinator is in
    due,       \* coordinators whose debounce timer is armed
    cool,      \* resumeAttempts that have not cooled down
    promote,   \* tryPromote goroutines
    look,      \* tasks that await ReconcileTask
    job,       \* the repair a reconciliation has decided on
    skip,      \* reconcile-skips.json
    nextRun,   \* the next run id
    budget,    \* what users and crashes may still do
    silent,    \* history: something has changed since the last event
    judged,    \* history: the verdicts of automatic reviews, in order
    closed     \* history: tasks that have ever been done

vars == <<file, run, groomed, reviewed, scan, due, cool, promote, look, job,
          skip, nextRun, budget, silent, judged, closed>>

board == <<file, silent, closed>>
runs  == <<run, groomed, reviewed, nextRun, judged>>
fixer == <<job, skip>>

Coordinators == {"groom", "implement", "review"}
Lost         == {"interrupted", "lost"}
Ended        == {"success", "failed", "cancelled"} \cup Lost

-----------------------------------------------------------------------------
(* The board and the commands of the CLI.                                  *)

\* What a task's file says, as far as automation looks at it: its column,
\* AgentStatus, what triage reports of it (0: clean), whether ReviewRef is
\* set, how often it entered code-review, the tag review-failed, and the
\* epoch its findings were written in (0: none).
NewFile(t) == [stage |-> Start[t], st |-> "none",
               triage |-> IF Start[t] = "backlog" THEN 1 ELSE 0,
               ref |-> Start[t] = "code-review",
               epoch |-> IF Start[t] = "code-review" THEN 1 ELSE 0,
               failed |-> FALSE, finds |-> 0]

In(s)    == {t \in Tasks : file[t].stage = s}
Count(s) == Cardinality(In(s))
Full(s)  == Limit[s] > 0 /\ Count(s) >= Limit[s]

Put(f, to) == [f EXCEPT !.stage = to,
                        !.epoch = IF to = "code-review" THEN @ + 1 ELSE @]

\* `tb ready --strict-wip`: the triage gate, then the move; it clears
\* AgentStatus.
CanReady(t) == file[t].stage = "backlog" /\ file[t].triage = 0 /\ ~Full("ready")

\* Fault variant: the two fields are swapped.
ReadiedSwapped(f) == [Put(f, "none") EXCEPT !.st = "ready"]

Readied(f) == [Put(f, "ready") EXCEPT !.st = "none"]

\* `tb pull ID` and `tb mv ID COLUMN` under strict enforcement.
CanPull(t)     == file[t].stage = "ready" /\ ~Full("in-progress")
CanMove(t, to) == file[t].stage # to /\ ~Full(to)

\* `tb review --submit`: no WIP limit, and the marker goes only when the
\* task does not come from in-progress.
Reworks(f)   == f.stage \in {"ready", "backlog"} /\ f.failed
CanSubmit(f) == f.ref /\ (f.stage = "in-progress" \/ Reworks(f))
Submitted(f) == [Put(f, "code-review") EXCEPT !.failed = @ /\ ~Reworks(f)]

\* `tb review --fail` with findings written in epoch e: the findings and the
\* tag in one section under the lock, the move in a second one.
Flagged(f, e)  == [f EXCEPT !.failed = TRUE, !.st = "none", !.finds = e]
FailedTo(f, e) == Put(Flagged(f, e), "ready")

\* A command changes one file, and the watcher sees it.  One that leaves the
\* file as it was counts for no event.
Write(t, f) ==
    /\ file' = [file EXCEPT ![t] = f]
    /\ silent' = (silent /\ f = file[t])
    /\ closed' = closed \cup {u \in {t} : f.stage = "done"}

-----------------------------------------------------------------------------
(* Runs.                                                                   *)

NoRun == [id |-> 0, mode |-> "none", eff |-> "none", init |-> "none",
          phase |-> "none", st |-> "none", hash |-> 0, target |-> 0]

HasActiveRun(t) == run[t].phase \in {"queued", "running", "acted"}
Actives         == {t \in Tasks : HasActiveRun(t)}
WorkersFull     == Cardinality(Actives) >= MaxWorkers
MayRun          == nextRun <= MaxRuns
Remaining       == IF WorkersFull \/ ~MayRun THEN 0
                   ELSE MaxWorkers - Cardinality(Actives)

\* startAgentRun reads the task again; it does not look at its column, nor
\* at cancelled.
CanStart(t) ==
    /\ file[t].st \notin {"queued", "running", "needs-user"}
    /\ ~HasActiveRun(t)

\* resumeAgent wants a session, which an interrupted run has, and a status
\* that is terminal.
CanResume(t) ==
    /\ run[t].phase = "finished" /\ run[t].st = "interrupted"
    /\ file[t].st \in Ended
    /\ ~HasActiveRun(t)

Queue(t, mode, eff, init, hash) ==
    /\ run' = [run EXCEPT ![t] =
                 [id |-> nextRun, mode |-> mode, eff |-> eff, init |-> init,
                  phase |-> "queued", st |-> "none", hash |-> hash,
                  target |-> file[t].epoch]]
    /\ nextRun' = nextRun + 1
    /\ Write(t, [file[t] EXCEPT !.st = "queued"])
    /\ UNCHANGED <<groomed, reviewed, judged>>

\* Fault variant: what has been reviewed is not looked up.
ProgressIgnored(t) == reviewed
Progressed(t) ==
    IF run[t].mode = "review" /\ run[t].init = "review"
    THEN [reviewed EXCEPT ![t] = @ \cup {run[t].target}] ELSE reviewed

\* An agent that has asked for its user keeps needs-user; then the file is
\* not written and no event follows.
Asked(t, st) == st \in {"success", "failed"} /\ file[t].st = "needs-user"

StatusAfter(t, st) ==
    LET f == file[t]
    IN IF run[t].eff = "review" /\ st = "success" /\ f.stage = "ready" /\ f.failed
       THEN "none" ELSE st

Record(t, st) ==
    /\ run' = [run EXCEPT ![t].phase = "finished", ![t].st = st]
    /\ IF Asked(t, st) THEN silent' = TRUE /\ UNCHANGED <<file, closed>>
       ELSE Write(t, [file[t] EXCEPT !.st = StatusAfter(t, st)])
    /\ groomed' = IF run[t].mode = "groom" /\ st = "success" /\ run[t].hash # 0
                  THEN [groomed EXCEPT ![t] = run[t].hash] ELSE groomed
    /\ reviewed' = Progressed(t)
    /\ judged' = IF run[t].eff = "review" /\ run[t].init = "review"
                    /\ st \in {"success", "failed"}
                 THEN [judged EXCEPT ![t] =
                         Append(@, [epoch |-> run[t].target,
                                    resumed |-> run[t].mode = "resume"])]
                 ELSE judged
    /\ UNCHANGED nextRun

-----------------------------------------------------------------------------
(* The stage reconciler's decision: the first repair whose conditions      *)
(* hold.  One that fails is not tried again until its fingerprint, with    *)
(* the count of the column it leads to, has changed.                       *)

NoJob == [kind |-> "none", fp |-> <<>>, blocked |-> FALSE]

Repair(kind, fp, s) == [kind |-> kind, fp |-> <<kind>> \o fp \o <<Count(s)>>,
                        blocked |-> Full(s)]

Finished(t, mode, sts) ==
    run[t].phase = "finished" /\ run[t].mode = mode /\ run[t].st \in sts
OwnSuccess(t, k) == Finished(t, k, {"success"}) /\ run[t].init = k

Protected == {"needs-user", "cancelled"} \cup Lost

RepairOf(t) ==
    LET f == file[t]
        r == run[t]
    IN CASE /\ f.stage = "in-progress" /\ f.st = "needs-user"
            /\ Finished(t, "implement", {"success", "failed"}) ->
              Repair("handoff", <<r.id>>, "ready")
         [] f.st \in Protected -> NoJob
         [] f.stage = "backlog" /\ OwnSuccess(t, "groom") /\ f.triage = 0 ->
              Repair("ready", <<r.id>>, "ready")
         [] /\ f.stage = "ready" /\ f.st \in {"queued", "running"}
            /\ r.mode = "implement" /\ r.init = "implement"
            /\ r.phase # "finished" ->
              Repair("pull", <<r.id, f.st>>, "in-progress")
         [] f.stage = "in-progress" /\ OwnSuccess(t, "implement") /\ f.ref ->
              Repair("submit", <<r.id>>, "code-review")
         [] f.stage = "code-review" /\ f.failed /\ f.finds > 0 ->
              Repair("fail", <<f.finds>>, "ready")
         [] OTHER -> NoJob

\* A reason to do nothing is recorded under the same key.
Excuse(t) ==
    LET f == file[t]
    IN IF f.st \in Protected THEN {}
       ELSE IF f.stage = "backlog" /\ OwnSuccess(t, "groom") /\ f.triage # 0
       THEN {<<t, "ready", <<"triage", run[t].id, f.triage>>>>}
       ELSE IF f.stage = "in-progress" /\ OwnSuccess(t, "implement") /\ ~f.ref
       THEN {<<t, "submit", <<"no ref", run[t].id, Count("code-review")>>>>}
       ELSE {}

ToReconcile(t) == RepairOf(t) # NoJob \/ Excuse(t) # {}

-----------------------------------------------------------------------------
(* What a scan takes from the board.                                       *)

Idle == [pc |-> "idle", left |-> 0, sweep |-> <<>>, todo |-> <<>>, wip |-> 0]

\* The column whose crashed runs a coordinator takes up again.
Home == [groom |-> "backlog", implement |-> "in-progress",
         review |-> "code-review"]

\* The elements of ts in an order.
Sorted(ts, Before(_, _)) ==
    CHOOSE q \in [1..Cardinality(ts) -> ts] :
        \A i, j \in DOMAIN q : i < j => Before(q[i], q[j])

ById(ts) == Sorted(ts, LAMBDA t, u : t < u)

\* The sweep of the snapshot: runs that a crash ended and that the
\* coordinator itself had queued.
Sweep(k) ==
    LET ts == ById({t \in In(Home[k]) : /\ file[t].st \in Lost /\ run[t].init = k
                                        /\ <<k, t>> \notin cool})
    IN [i \in DOMAIN ts |-> [task |-> ts[i], st |-> file[ts[i]].st]]

\* epicorder.EligibleForEpicOrder: earlier children of the same epic are
\* done.
EarlierSiblings(t) == {u \in Tasks : u < t /\ Parent[u] = Parent[t] /\ Parent[t] # 0}

\* Fault variant: a sibling in review counts as done.
EpicAllowsReviewed(t) ==
    \A u \in EarlierSiblings(t) : file[u].stage \in {"code-review", "done"}

EpicAllows(t) == \A u \in EarlierSiblings(t) : file[u].stage = "done"

\* The candidates of an implement scan, in the order it tries them.
Implementable(t) ==
    /\ file[t].stage = "ready"
    /\ file[t].st \notin {"cancelled", "needs-user"}
    /\ ~HasActiveRun(t)
    /\ EpicAllows(t)

Ahead(t, u) ==
    \/ Priority[t] < Priority[u]
    \/ /\ Priority[t] = Priority[u]
       /\ \/ file[t].failed /\ ~file[u].failed
          \/ file[t].failed = file[u].failed /\ t < u

\* What AutoGroomCoordinator.evaluate asks of a task that triage reports.
Groomable(t, why) ==
    /\ file[t].stage = "backlog"
    /\ file[t].st \notin {"queued", "running", "needs-user"} \cup Lost
    /\ ~HasActiveRun(t)
    /\ groomed[t] # why

\* A review scan's gates look at its snapshot; the epoch is read again.
Reviewable(t) ==
    /\ file[t].stage = "code-review"
    /\ file[t].st \notin {"queued", "running", "needs-user", "cancelled"} \cup Lost
Unreviewed(t) == ~HasActiveRun(t) /\ file[t].epoch \notin reviewed[t]

\* The tasks a scan tries.  One that it would only skip is left out here: the
\* change that lets it start brings a scan of its own.
Found(k) ==
    CASE k = "groom" ->
           IF Full("ready") THEN <<>>
           ELSE LET ts == ById({t \in Tasks : /\ file[t].triage # 0
                                              /\ Groomable(t, file[t].triage)})
                IN [i \in DOMAIN ts |-> [task |-> ts[i], why |-> file[ts[i]].triage]]
      [] k = "implement" ->
           IF Full("in-progress") THEN <<>>
           ELSE Sorted({t \in Tasks : Implementable(t)}, Ahead)
      [] k = "review" ->
           LET ts == ById({t \in Tasks : Reviewable(t) /\ (file[t].ref => Unreviewed(t))})
           IN [i \in DOMAIN ts |-> [task |-> ts[i], ref |-> file[ts[i]].ref]]

\* A scan that has nothing left to do, or no worker left, only notes skips.
Settled(r) ==
    IF \/ r.pc \in {"sweep", "try"} /\ r.left = 0
       \/ r.pc = "try" /\ r.todo = <<>>
    THEN Idle ELSE r

\* Each scan works on one snapshot, but the groom scan lists its candidates
\* after the sweep.
Scan(k) ==
    LET s == Sweep(k)
    IN Settled([pc |-> IF s = <<>> THEN "try" ELSE "sweep",
                left |-> Remaining, sweep |-> s,
                todo |-> IF k = "groom" /\ s # <<>> THEN <<>> ELSE Found(k),
                wip |-> Count("in-progress")])

\* Fault variant: a reload of the board reconciles no other task.
TouchedOnly == {t \in Tasks : file'[t] # file[t]}

\* Every change of a file is reported to the coordinators' timers and to the
\* reconciler: of all tasks when one has changed its column, else of the
\* task.
Touched == IF \E t \in Tasks : file'[t].stage # file[t].stage
           THEN Tasks ELSE {t \in Tasks : file'[t] # file[t]}

\* Alert adds these to the scans d and the tasks l, and leaves out those that
\* would find nothing to do.
Useful(k) == Scan(k) # Idle

Alert(d, l) ==
    /\ due' = {k \in IF file' = file THEN d ELSE Coordinators : Useful(k)'}
    /\ look' = {t \in look \cup l \cup Touched : ToReconcile(t)'}

-----------------------------------------------------------------------------
(* Scans.                                                                  *)

SetScan(k, r) == scan' = [scan EXCEPT ![k] = Settled(r)]

\* The debounce timer fires.
ScanBegins(k) ==
    /\ k \in due /\ scan[k].pc = "idle"
    /\ SetScan(k, Scan(k))
    /\ UNCHANGED <<board, runs, cool, promote, fixer, budget>>
    /\ Alert(due \ {k}, {})

Trying(k)   == scan[k].pc = "try"
NextTask(k) == [scan[k] EXCEPT !.pc = "try", !.todo = Tail(@)]
Started(r)  == [r EXCEPT !.left = @ - 1]

\* What a resumed run goes on with; another resume counts as an implement run.
ParentMode(t) == IF run[t].mode = "resume" THEN "implement" ELSE run[t].eff

\* tryAutoResume for the next crashed run of the sweep.
Resumes(k) ==
    LET s    == Head(scan[k].sweep)
        t    == s.task
        rest == [scan[k] EXCEPT !.sweep = Tail(@)]
        may  == /\ IF s.st = "interrupted" THEN CanResume(t) ELSE CanStart(t)
                /\ ~WorkersFull /\ MayRun
    IN /\ scan[k].pc = "sweep" /\ scan[k].sweep # <<>>
       /\ \/ /\ ~HasActiveRun(t) /\ may
             /\ IF s.st = "interrupted" THEN Queue(t, "resume", ParentMode(t), k, 0)
                ELSE Queue(t, k, k, k, 0)
             /\ SetScan(k, Started(rest)) /\ UNCHANGED cool
          \/ /\ HasActiveRun(t) \/ ~may
             /\ cool' = IF HasActiveRun(t) THEN cool ELSE cool \cup {<<k, t>>}
             /\ SetScan(k, rest) /\ UNCHANGED <<board, runs>>
       /\ UNCHANGED <<promote, fixer, budget>>
       /\ Alert(due, {})

\* resumeAttemptCooldown is over, and no timer says so.
CoolsDown(k, t) ==
    /\ <<k, t>> \in cool /\ cool' = cool \ {<<k, t>>}
    /\ silent' = TRUE
    /\ UNCHANGED <<file, closed, runs, scan, due, look, promote, fixer, budget>>

\* The sweep is over; the groom scan asks triage and loads the board.
Lists(k) ==
    /\ scan[k].pc = "sweep" /\ scan[k].sweep = <<>>
    /\ SetScan(k, [scan[k] EXCEPT !.pc = "try",
                                  !.todo = IF k = "groom" THEN Found(k) ELSE @])
    /\ UNCHANGED <<board, runs, due, look, cool, promote, fixer, budget>>

\* AutoGroomCoordinator.evaluate for the next task that triage reported.
GroomTries ==
    LET k == "groom"
        e == Head(scan[k].todo)
        t == e.task
    IN /\ Trying(k)
       /\ IF Groomable(t, e.why) /\ ~WorkersFull /\ MayRun
          THEN Queue(t, k, k, k, e.why) /\ SetScan(k, Started(NextTask(k)))
          ELSE SetScan(k, NextTask(k)) /\ UNCHANGED <<board, runs>>
       /\ UNCHANGED <<cool, promote, fixer, budget>>
       /\ Alert(due, {})

\* The next candidate of a review scan: a run, or a note to its user that
\* nothing says what to review.
ReviewTries ==
    LET k == "review"
        e == Head(scan[k].todo)
        t == e.task
    IN /\ Trying(k)
       /\ IF e.ref /\ Unreviewed(t) /\ CanStart(t) /\ ~WorkersFull /\ MayRun
          THEN Queue(t, k, k, k, 0) /\ SetScan(k, Started(NextTask(k)))
          ELSE /\ SetScan(k, NextTask(k)) /\ UNCHANGED runs
               /\ IF e.ref THEN UNCHANGED board
                  ELSE Write(t, [file[t] EXCEPT !.st = "needs-user"])
       /\ UNCHANGED <<cool, promote, fixer, budget>>
       /\ Alert(due, {})

\* startCandidate of the implement scan: pull, start, and put the task back
\* when the workers are all taken.
RoomLeft == Limit["in-progress"] = 0 \/ scan["implement"].wip < Limit["in-progress"]

ImplementPulls ==
    LET k == "implement"
        t == Head(scan[k].todo)
    IN /\ Trying(k)
       /\ IF RoomLeft /\ CanPull(t)
          THEN /\ Write(t, Put(file[t], "in-progress"))
               /\ SetScan(k, [scan[k] EXCEPT !.pc = "start"])
          ELSE SetScan(k, NextTask(k)) /\ UNCHANGED board
       /\ UNCHANGED <<runs, cool, promote, fixer, budget>>
       /\ Alert(due, {})

ImplementStarts ==
    LET k == "implement"
        t == Head(scan[k].todo)
        stays == [NextTask(k) EXCEPT !.wip = @ + 1]
    IN /\ scan[k].pc = "start"
       /\ IF CanStart(t) /\ ~WorkersFull /\ MayRun
          THEN Queue(t, k, k, k, 0) /\ SetScan(k, Started(stays))
          ELSE /\ UNCHANGED <<board, runs>>
               /\ IF CanStart(t) /\ WorkersFull
                  THEN SetScan(k, [scan[k] EXCEPT !.pc = "back"])
                  ELSE SetScan(k, stays)
       /\ UNCHANGED <<cool, promote, fixer, budget>>
       /\ Alert(due, {})

ImplementPutsBack ==
    LET k == "implement"
        t == Head(scan[k].todo)
    IN /\ scan[k].pc = "back"
       /\ IF CanMove(t, "ready")
          THEN Write(t, Put(file[t], "ready")) /\ SetScan(k, NextTask(k))
          ELSE SetScan(k, [NextTask(k) EXCEPT !.wip = @ + 1]) /\ UNCHANGED board
       /\ UNCHANGED <<runs, cool, promote, fixer, budget>>
       /\ Alert(due, {})

\* tryPromote after a successful groom run.
Promotes(t) ==
    /\ t \in promote /\ promote' = promote \ {t}
    /\ IF CanReady(t) THEN Write(t, Readied(file[t])) ELSE UNCHANGED board
    /\ UNCHANGED <<runs, scan, cool, fixer, budget>>
    /\ Alert(due, {})

-----------------------------------------------------------------------------
(* The stage reconciler: it decides from what it reads, then repairs.      *)

Reconciles(t) ==
    LET r == RepairOf(t)
    IN /\ t \in look /\ job[t] = NoJob
       /\ job' = IF <<t, r.kind, r.fp>> \in skip THEN job
                 ELSE [job EXCEPT ![t] = r]
       /\ skip' = {e \in skip : \A x \in Excuse(t) : e[1] # x[1] \/ e[2] # x[2]}
                  \cup Excuse(t)
       /\ look' = look \ {t}
       /\ UNCHANGED <<board, runs, scan, due, cool, promote, budget>>

RepairWorks(t) ==
    CASE job[t].kind = "handoff" -> CanMove(t, "ready")
      [] job[t].kind = "ready"   -> CanReady(t)
      [] job[t].kind = "pull"    -> CanPull(t)
      [] job[t].kind = "submit"  -> CanSubmit(file[t])
      [] job[t].kind = "fail"    -> file[t].stage = "code-review"

Repaired(t) ==
    CASE job[t].kind = "handoff" -> Put(file[t], "ready")
      [] job[t].kind = "ready"   -> Readied(file[t])
      [] job[t].kind = "pull"    -> Put(file[t], "in-progress")
      [] job[t].kind = "submit"  -> Submitted(file[t])
      [] job[t].kind = "fail"    -> FailedTo(file[t], file[t].finds)

Without(t, kind) == {e \in skip : ~(e[1] = t /\ e[2] = kind)}

Repairs(t) ==
    /\ job[t] # NoJob
    /\ job' = [job EXCEPT ![t] = NoJob]
    /\ IF ~job[t].blocked /\ RepairWorks(t)
       THEN Write(t, Repaired(t)) /\ skip' = Without(t, job[t].kind)
       ELSE /\ skip' = Without(t, job[t].kind) \cup {<<t, job[t].kind, job[t].fp>>}
            /\ UNCHANGED board
    /\ UNCHANGED <<runs, scan, cool, promote, budget>>
    /\ Alert(due, {})

-----------------------------------------------------------------------------
(* Agents, users and crashes.                                              *)

\* runGoroutine and OnStarted; a run that a crash left queued is picked up
\* by a worker of the daemon, which reconciles the task first.
RunBegins(t) ==
    /\ \/ run[t].phase = "queued"
       \/ run[t].phase = "waiting" /\ file[t].st = "queued" /\ ~WorkersFull
    /\ run' = [run EXCEPT ![t].phase = "running"]
    /\ Write(t, [file[t] EXCEPT !.st = "running"])
    /\ reviewed' = Progressed(t)
    /\ UNCHANGED <<groomed, nextRun, judged, scan, cool, promote, fixer, budget>>
    /\ Alert(due, {})

\* What the prompts ask of each kind of agent, whose `tb review --fail` may stop
\* halfway, or a question to the user.
AgentActs(t) ==
    LET f == file[t]
    IN /\ run[t].phase = "running"
       /\ run' = [run EXCEPT ![t].phase = "acted"]
       /\ \/ Write(t, [f EXCEPT !.st = "needs-user"])
          \/ /\ run[t].eff = "groom"
             /\ \E r \in 0..2 : r # f.triage /\ Write(t, [f EXCEPT !.triage = r])
          \/ /\ run[t].eff = "implement"
             /\ \/ Write(t, [f EXCEPT !.ref = TRUE])
                \/ CanSubmit([f EXCEPT !.ref = TRUE])
                   /\ Write(t, Submitted([f EXCEPT !.ref = TRUE]))
          \/ /\ run[t].eff = "review" /\ f.stage = "code-review"
             /\ \/ Write(t, Put(f, "done"))
                \/ Write(t, FailedTo(f, f.epoch))
                \/ Write(t, Flagged(f, f.epoch))
       /\ UNCHANGED <<groomed, reviewed, nextRun, judged, scan, cool, promote,
                      fixer, budget>>
       /\ Alert(due, {})

\* TerminalHook, once a run is recorded as ended; what is written to the file
\* is at least the mode's own status, so that an event follows.  A resumed run
\* reports the mode resume: tryPromote never follows it.
Hooks(t, st) ==
    /\ promote' = IF run[t].mode = "groom" /\ st = "success"
                  THEN promote \cup {t} ELSE promote
    /\ Alert(IF ~Asked(t, st) THEN Coordinators
             ELSE due \cup {k \in {"review"} : run[t].mode = k}, {t})

\* The process exits, or its timeout ends it.
RunEnds(t) ==
    /\ run[t].phase \in {"running", "acted"}
    /\ \E st \in {"success", "failed"} :
          /\ Record(t, st)
          /\ UNCHANGED <<scan, cool, fixer, budget>>
          /\ Hooks(t, st)

\* What the hand of a user does: cancel a run, edit a task (`tb mv`, `tb edit
\* --agent-status none`, an edit that triage reports), or start a run from
\* the GUI.
Trouble == budget > 0 /\ budget' = budget - 1

UserCancels(t) ==
    /\ Trouble /\ HasActiveRun(t)
    /\ Record(t, "cancelled")
    /\ UNCHANGED <<scan, cool, fixer>>
    /\ Hooks(t, "cancelled")

UserEdits(t) ==
    LET f == file[t]
    IN /\ Trouble
       /\ \/ \E s \in Stages : CanMove(t, s) /\ Write(t, Put(f, s))
          \/ f.st # "none" /\ Write(t, [f EXCEPT !.st = "none"])
          \/ f.stage = "backlog" /\ f.triage # 2 /\ Write(t, [f EXCEPT !.triage = 2])
       /\ UNCHANGED <<runs, scan, cool, promote, fixer>>
       /\ Alert(due, {})

UserRuns(t) ==
    /\ Trouble /\ MayRun
    /\ CanStart(t) /\ ~WorkersFull
    /\ \E mode \in {"groom", "implement", "review"} :
          /\ (mode = "groom") = (file[t].stage = "backlog")
          /\ (mode = "review") = (file[t].stage = "code-review")
          /\ Queue(t, mode, mode, "user", 0)
    /\ UNCHANGED <<scan, cool, promote, fixer>>
    /\ Alert(due, {})

\* The GUI dies and starts again: recovery ends the runs it had, unless
\* their task waits for its user, and what is queued waits for a worker.
\* Every coordinator scans, and the reconciler looks at every task.
Crash ==
    LET dies == {t \in Tasks : /\ run[t].phase \in {"running", "acted"}
                               /\ file[t].st = "running"}
    IN /\ Trouble
       /\ \E fate \in [dies -> Lost] :
             /\ run' = [t \in Tasks |->
                  IF t \in dies THEN [run[t] EXCEPT !.phase = "finished", !.st = fate[t]]
                  ELSE IF HasActiveRun(t) THEN
                     [run[t] EXCEPT !.phase = IF @ = "queued" THEN "waiting" ELSE "orphan"]
                  ELSE run[t]]
             /\ file' = [t \in Tasks |->
                  IF t \in dies THEN [file[t] EXCEPT !.st = fate[t]] ELSE file[t]]
       /\ scan' = [k \in Coordinators |-> Idle]
       /\ cool' = {} /\ promote' = {}
       /\ job' = [t \in Tasks |-> NoJob] /\ silent' = FALSE
       /\ UNCHANGED <<closed, groomed, reviewed, nextRun, judged, skip>>
       /\ due' = {k \in Coordinators : Useful(k)'}
       /\ look' = {t \in Tasks : ToReconcile(t)'}

-----------------------------------------------------------------------------
Init ==
    /\ file = [t \in Tasks |-> NewFile(t)]
    /\ run = [t \in Tasks |-> NoRun]
    /\ groomed = [t \in Tasks |-> 0] /\ reviewed = [t \in Tasks |-> {}]
    /\ scan = [k \in Coordinators |-> Idle]
    /\ cool = {} /\ promote = {}
    /\ look = {} /\ job = [t \in Tasks |-> NoJob] /\ skip = {}
    /\ nextRun = 1
    /\ budget = MaxTroubles
    /\ silent = FALSE
    /\ judged = [t \in Tasks |-> <<>>]
    /\ closed = {t \in Tasks : Start[t] = "done"}
    /\ due = {k \in Coordinators : Useful(k)}

Scans(k) ==
    \/ ScanBegins(k) \/ Resumes(k) \/ Lists(k)
    \/ k = "groom" /\ GroomTries
    \/ k = "review" /\ ReviewTries
    \/ k = "implement" /\ (ImplementPulls \/ ImplementStarts \/ ImplementPutsBack)

Works(t) == Promotes(t) \/ Reconciles(t) \/ Repairs(t) \/ RunBegins(t) \/ RunEnds(t)

Others(t) ==
    \/ AgentActs(t) \/ UserCancels(t) \/ UserEdits(t) \/ UserRuns(t)
    \/ \E k \in Coordinators : CoolsDown(k, t)

Next == \/ \E k \in Coordinators : Scans(k)
        \/ \E t \in Tasks : Works(t) \/ Others(t)
        \/ Crash

Spec == Init /\ [][Next]_vars

\* Goroutines run, timers fire and processes end.
FairSpec ==
    /\ Spec
    /\ \A k \in Coordinators : WF_vars(Scans(k))
    /\ \A t \in Tasks :
          /\ WF_vars(Promotes(t)) /\ WF_vars(Reconciles(t)) /\ WF_vars(Repairs(t))
          /\ WF_vars(RunBegins(t)) /\ WF_vars(RunEnds(t))

-----------------------------------------------------------------------------
(* What should hold.                                                       *)

TypeOK ==
    /\ file \in [Tasks -> [stage : Stages,
                           st : {"none", "queued", "running", "needs-user"} \cup Ended,
                           triage : 0..2, ref : BOOLEAN, epoch : Nat,
                           failed : BOOLEAN, finds : Nat]]
    /\ \A t \in Tasks :
          /\ run[t].id < nextRun /\ groomed[t] \in 0..2
          /\ reviewed[t] \subseteq Nat
          /\ run[t].phase \in {"none", "queued", "waiting", "running", "acted",
                               "orphan", "finished"}
          /\ job[t].kind \in {"none", "handoff", "ready", "pull", "submit", "fail"}
    /\ \A k \in Coordinators :
          /\ scan[k].pc \in {"idle", "sweep", "try", "start", "back"}
          /\ scan[k].left \in 0..MaxWorkers
    /\ due \subseteq Coordinators
    /\ cool \subseteq Coordinators \X Tasks
    /\ promote \cup look \cup closed \subseteq Tasks

\* The verdict of an automatic review is the last one of its entry into
\* code-review: crashes, restarts and later scans do not review it again
\* (auto_review.go:519).  Only a verdict of a resumed run may be followed by
\* another: that run's line says mode resume and no target, and so the entry
\* that it has judged is not found (agent_run.go:342).
ReviewedOnce ==
    \A t \in Tasks : \A i, j \in DOMAIN judged[t] :
        i < j /\ judged[t][i].epoch = judged[t][j].epoch => judged[t][i].resumed

\* The automation pulls a task of an epic only after all earlier tasks of
\* the epic have been done (epicorder.go:86), whatever has moved since its
\* scan read the board.
EpicOrderKept ==
    [][\A t \in Tasks :
          (ImplementPulls /\ file[t].stage = "ready" /\ file'[t].stage = "in-progress")
          => EarlierSiblings(t) \subseteq closed]_vars

\* What the automation owes a task as the board now stands: a run, while a
\* worker is free and the next column has room, or the move that follows an
\* ended one.
RunOwed(t) ==
    LET f == file[t]
        next == [backlog |-> "ready", ready |-> "in-progress"]
    IN /\ ~HasActiveRun(t) /\ Remaining > 0
       /\ f.stage \in DOMAIN next => ~Full(next[f.stage])
       /\ \/ f.stage = "backlog" /\ f.st \in {"none", "success"}
             /\ f.triage \notin {0, groomed[t]}
          \/ f.stage = "ready" /\ f.st \in {"none", "success"} /\ EpicAllows(t)
          \/ f.stage = "code-review" /\ f.st \in {"none", "success"} /\ f.ref
             /\ f.epoch \notin reviewed[t]
          \/ \E k \in Coordinators :
                /\ f.stage = Home[k] /\ f.st \in Lost /\ run[t].init = k
                /\ <<k, t>> \notin cool

MoveOwed(t) ==
    LET f == file[t]
    IN /\ f.st \notin Protected
       /\ \/ f.stage = "backlog" /\ OwnSuccess(t, "groom") /\ f.triage = 0 /\ ~Full("ready")
          \/ f.stage = "in-progress" /\ OwnSuccess(t, "implement") /\ f.ref
          \/ f.stage = "code-review" /\ f.failed /\ f.finds > 0 /\ ~Full("ready")
       /\ <<t, RepairOf(t).kind, RepairOf(t).fp>> \notin skip

\* No task is forgotten: the coordinators do not poll, but what they owe a
\* task is done or ceases to be owed, unless what made it so raised no event
\* (auto_groom.go:383, auto_implement.go:240, auto_review.go:188,
\* stage_reconciler.go:80).
OwedIsDone == \A t \in Tasks : []<>(silent \/ ~(RunOwed(t) \/ MoveOwed(t)))

\* The reconciler's repair of a review that failed completes that review: it
\* sends a task back only in the visit to code-review its findings come from
\* (stage_reconciler.go:246; "review fail repair may only complete
\* deterministic fallout from the managed fail flow").  `tb review --submit`
\* keeps the tag of a task that comes from in-progress, so a reworked task is
\* sent back unread.
FailsAreReviewed ==
    [][\A t \in Tasks :
          (Repairs(t) /\ job[t].kind = "fail" /\ file'[t].stage # file[t].stage)
          => file[t].finds = file[t].epoch]_vars

=============================================================================
