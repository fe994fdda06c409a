------------------------------ MODULE AgentRun ------------------------------
(***************************************************************************)
(* The life of the agent runs of one task: gui/app/agent_run.go,           *)
(* agent_cancel.go, agent_finish.go, agent_service.go, agent_runs.go and   *)
(* agent_recovery.go, over the process of gui/internal/agent/exec.go.      *)
(*                                                                         *)
(* Two files record a run: the task's JSONL history (log), which the GUI   *)
(* appends to itself, and AgentStatus in the markdown (status), which it   *)
(* changes with `tb edit`.  The agent's process outlives a GUI that dies;  *)
(* the next GUI finds it by the pid in the log.  s.active has at most one  *)
(* run of a task, so tasks do not share state here and one is modelled.    *)
(*                                                                         *)
(* An action is one access to shared state: a section under s.mu or ar.mu, *)
(* one append, one `tb edit`, one read of the log, one signal.  Of the     *)
(* daemon only the task's entry in its active set is kept (entry): queued  *)
(* and direct starts take it before they start and give it back at the     *)
(* end.  An agent edits its task only after OnStarted has returned: it     *)
(* needs seconds for that, OnStarted milliseconds.                         *)
(***************************************************************************)
EXTENDS Naturals, Sequences, FiniteSets

CONSTANTS
    MaxObjs,        \* bound on the activeRun objects created
    MaxRuns,        \* bound on the run ids generated
    Cancellers,     \* goroutines that call CancelRun or cancelRunsForBoard
    StartModes,     \* modes of the runs that a user starts
    Resumes,        \* whether the user may resume a captured session
    MaxCrashes,     \* bound on deaths of the GUI
    MaxTicks,       \* bound on scans of the periodic recovery
    MaxFaults,      \* bound on appends, edits and reads of the task that fail
    MaxHand,        \* bound on `tb edit --agent-status` by hand
    MaxAsks         \* bound on needs-user, written by the agent

ASSUME AgentRunAssumption ==
    /\ MaxObjs \in Nat /\ MaxRuns \in Nat
    /\ Cancellers \cap (1..MaxObjs) = {}
    /\ StartModes \subseteq {"work", "review"} /\ Resumes \in BOOLEAN
    /\ MaxCrashes \in Nat /\ MaxTicks \in Nat
    /\ MaxFaults \in Nat /\ MaxHand \in Nat /\ MaxAsks \in Nat

VARIABLES
    up,        \* the GUI runs and has the board open
    closing,   \* the daemon's context is cancelled, the GUI is about to go
    status,    \* AgentStatus of the task
    log,       \* the task's JSONL history, the events recovery looks at
    active,    \* AgentService.active[task], an object or 0
    entry,     \* whose entry the daemon's active set has for the task, or 0
    obj,       \* the activeRun objects and their goroutines
    proc,      \* proc[o]: the process that the goroutine of o has spawned
    canc,      \* goroutines that cancel; object o stands for its ctx watcher
    rec,       \* the recovery scan
    mon,       \* mon[r]: the monitor of the recovered run r
    nextRun,   \* the next run id
    budget     \* what is left of the bounds, and whether a read has failed

vars == <<up, closing, status, log, active, entry, obj, proc, canc, rec, mon,
          nextRun, budget>>

Objs     == 1..MaxObjs
Runs     == 1..MaxRuns
Watchers == Objs
\* A resume keeps in mind whether it goes on with a review (ParentMode).
Modes    == {"work", "review", "resume", "resumedReview"}
Reviews  == {"review", "resumedReview"}
Terminal == {"success", "failed", "cancelled", "interrupted", "lost"}
Statuses == {"none", "queued", "running", "needs-user"} \cup Terminal

-----------------------------------------------------------------------------
(* The log and what its readers make of it.                                *)

Event(r, kind, pid, st) == [run |-> r, kind |-> kind, pid |-> pid, st |-> st]

Logged == {log[i].run : i \in DOMAIN log}

Has(r, kind) == \E i \in DOMAIN log : log[i].run = r /\ log[i].kind = kind

\* The view of the first n events that readRunViews builds.
RunsIn(n)     == {log[i].run : i \in 1..n}
FirstOf(r)    == CHOOSE i \in DOMAIN log :
                    log[i].run = r /\ \A j \in 1..(i - 1) : log[j].run # r
Earliest(rs)  == CHOOSE r \in rs : \A q \in rs : FirstOf(r) <= FirstOf(q)
LatestOf(rs)  == CHOOSE r \in rs : \A q \in rs : FirstOf(q) <= FirstOf(r)
Seen(n, r, k) == {i \in 1..n : log[i].run = r /\ log[i].kind = k}
LastOf(is)    == CHOOSE i \in is : \A j \in is : j <= i
PidIn(n, r)   == LET at == Seen(n, r, "started") \cup Seen(n, r, "session")
                 IN IF at = {} THEN 0 ELSE log[LastOf(at)].pid
FinishIn(n, r) == LET at == Seen(n, r, "finished")
                  IN IF at = {} THEN "none" ELSE log[LastOf(at)].st

\* Fault variant: a run cancelled before its start still waits.
OpenQueuedOrDone == {r \in Logged : Has(r, "queued") /\ ~Has(r, "started")}

\* findQueuedRun: runs that wait for the daemon.
OpenQueued == {r \in Logged : /\ Has(r, "queued")
                              /\ ~Has(r, "started") /\ ~Has(r, "finished")}

\* The mode a run was queued with; st of a queued event holds it.
ModeOf(r) == log[LastOf(Seen(Len(log), r, "queued"))].st

\* AppendEvent and `tb edit --agent-status`, which may fail.
AppendEvent(e, ok) ==
    /\ ok \/ budget.faults > 0
    /\ log' = IF ok THEN Append(log, e) ELSE log
    /\ budget' = IF ok THEN budget ELSE [budget EXCEPT !.faults = @ - 1]

EditStatus(s, ok) ==
    /\ ok \/ budget.faults > 0
    /\ status' = IF ok THEN s ELSE status
    /\ budget' = IF ok THEN budget ELSE [budget EXCEPT !.faults = @ - 1]

-----------------------------------------------------------------------------
(* Objects.                                                                *)

Unused == [pc |-> "unused", run |-> 0, kind |-> "direct", mode |-> "work",
           pid |-> 0, cancelled |-> FALSE, ctx |-> FALSE, done |-> FALSE,
           fin |-> "free", st |-> "none"]

NoCancel == [pc |-> "idle", obj |-> 0, pid |-> 0]
NoScan   == [pc |-> "idle", tick |-> FALSE, len |-> 0, rest |-> {}, run |-> 0,
             st |-> "none"]
NoMon    == [pc |-> "off", pid |-> 0, obj |-> 0, st |-> "none"]

Init ==
    /\ up = TRUE /\ closing = FALSE
    /\ status = "none" /\ log = <<>>
    /\ active = 0 /\ entry = 0
    /\ obj = [o \in Objs |-> Unused]
    /\ proc = [o \in Objs |-> "none"]
    /\ canc = [c \in Cancellers \cup Watchers |-> NoCancel]
    /\ rec = NoScan
    /\ mon = [r \in Runs |-> NoMon]
    /\ nextRun = 1
    /\ budget = [crashes |-> MaxCrashes, ticks |-> MaxTicks,
                 faults |-> MaxFaults, misread |-> FALSE,
                 hand |-> MaxHand, asks |-> MaxAsks]

\* Objects are taken in order and never reused.
Fresh(o) == obj[o].pc = "unused" /\ \A q \in Objs : q < o => obj[q].pc # "unused"

Goto(o, pc) == obj' = [obj EXCEPT ![o].pc = pc]

At(o, pc) == up /\ obj[o].pc = pc

diskVars == <<status, log, budget>>
gateVars == <<up, closing, nextRun>>
sideVars == <<canc, rec, mon>>

-----------------------------------------------------------------------------
(* Direct starts: startAgentRun and resumeAgent.                           *)

\* The dispatcher starts after the scan of Activate.  A user's start within
\* that scan, a fraction of a second, is left out.
ScanOver == rec.pc = "idle" \/ rec.tick

\* The checks on the task, then reserveWorker: the daemon refuses a task
\* that has a run or an entry of its own.
StartAgentRun(o, m) ==
    /\ up /\ Fresh(o) /\ nextRun <= MaxRuns
    /\ status \notin {"queued", "running", "needs-user"}
    /\ ScanOver
    /\ active = 0 /\ entry = 0
    /\ entry' = o
    /\ obj' = [obj EXCEPT ![o] = [Unused EXCEPT !.pc = "register",
                                                !.run = nextRun, !.mode = m]]
    /\ nextRun' = nextRun + 1
    /\ UNCHANGED <<up, closing, diskVars, active, proc, sideVars>>

\* The mode of a resume: another resume counts as an implement run.
ResumeMode == IF ModeOf(LatestOf(Logged)) = "review" THEN "resumedReview"
              ELSE "resume"

\* The latest run must have a captured session and the status be terminal.
ResumeAgent(o) ==
    /\ up /\ Fresh(o) /\ nextRun <= MaxRuns
    /\ Resumes
    /\ status \in Terminal
    /\ log # <<>>
    /\ Has(LatestOf(Logged), "session")
    /\ ScanOver
    /\ active = 0 /\ entry = 0
    /\ entry' = o
    /\ obj' = [obj EXCEPT ![o] = [Unused EXCEPT !.pc = "register",
                                                !.run = nextRun,
                                                !.mode = ResumeMode]]
    /\ nextRun' = nextRun + 1
    /\ UNCHANGED <<up, closing, diskVars, active, proc, sideVars>>

\* The insert in s.active, of a direct or a queued start.  A stub that the
\* recovery has put there since makes it ErrAlreadyRunning, and the
\* reservation goes back.
Register(o) ==
    /\ At(o, "register")
    /\ IF active = 0
       THEN /\ active' = o
            /\ entry' = entry
            /\ Goto(o, IF obj[o].kind = "direct" THEN "queue" ELSE "go")
       ELSE /\ active' = active
            /\ entry' = IF entry = o THEN 0 ELSE entry
            /\ Goto(o, "gone")
    /\ UNCHANGED <<gateVars, diskVars, proc, sideVars>>

AppendQueued(o) ==
    /\ At(o, "queue")
    /\ \E ok \in BOOLEAN :
         /\ AppendEvent(Event(obj[o].run, "queued", 0, obj[o].mode), ok)
         /\ Goto(o, IF ok THEN "label" ELSE "undo")
    /\ UNCHANGED <<gateVars, status, active, entry, proc, sideVars>>

EditQueued(o) ==
    /\ At(o, "label")
    /\ \E ok \in BOOLEAN : /\ EditStatus("queued", ok)
                           /\ Goto(o, IF ok THEN "go" ELSE "undo")
    /\ UNCHANGED <<gateVars, log, active, entry, proc, sideVars>>

\* The closure rollback: Done stays open.
Rollback(o) ==
    /\ At(o, "undo")
    /\ active' = 0
    /\ entry' = IF entry = o THEN 0 ELSE entry
    /\ obj' = [obj EXCEPT ![o].pc = "gone", ![o].ctx = TRUE]
    /\ UNCHANGED <<gateVars, diskVars, proc, sideVars>>

-----------------------------------------------------------------------------
(* Queued starts: the daemon's worker and RunQueuedAgentSync.              *)

\* EnqueueIfReady: the task is queued and has neither a run nor an entry.
Claim(o) ==
    /\ up /\ ~closing /\ Fresh(o)
    /\ ScanOver
    /\ OpenQueued # {} \/ nextRun <= MaxRuns
    /\ status = "queued"
    /\ active = 0 /\ entry = 0
    /\ entry' = o
    /\ obj' = [obj EXCEPT ![o] = [Unused EXCEPT !.pc = "claimed",
                                                !.kind = "queued"]]
    /\ UNCHANGED <<gateVars, diskVars, active, proc, sideVars>>

\* runOne and RunQueuedAgentSync up to findQueuedRun: the open queued run is
\* taken with its mode, a run without one gets a new id.
ReadQueued(o) ==
    /\ At(o, "claimed")
    /\ active = 0 /\ status = "queued"
    /\ IF OpenQueued # {}
       THEN /\ LET r == LatestOf(OpenQueued)
               IN obj' = [obj EXCEPT ![o].pc = "register", ![o].run = r,
                                     ![o].mode = ModeOf(r)]
            /\ nextRun' = nextRun
       ELSE /\ nextRun <= MaxRuns
            /\ obj' = [obj EXCEPT ![o].pc = "synth", ![o].run = nextRun]
            /\ nextRun' = nextRun + 1
    /\ UNCHANGED <<up, closing, diskVars, active, entry, proc, sideVars>>

\* The run has surfaced elsewhere or is no longer queued.
ReadRefused(o) ==
    /\ At(o, "claimed")
    /\ active # 0 \/ status # "queued"
    /\ entry' = IF entry = o THEN 0 ELSE entry
    /\ Goto(o, "gone")
    /\ UNCHANGED <<gateVars, diskVars, active, proc, sideVars>>

\* The synthetic queued event of a run queued by hand.
Synthesise(o) ==
    /\ At(o, "synth")
    /\ \E ok \in BOOLEAN :
         /\ AppendEvent(Event(obj[o].run, "queued", 0, "work"), ok)
         /\ Goto(o, IF ok THEN "register" ELSE "gone")
         /\ entry' = IF ok THEN entry ELSE 0
    /\ UNCHANGED <<gateVars, status, active, proc, sideVars>>

-----------------------------------------------------------------------------
(* The goroutine of a run: runGoroutine over runExternal.                  *)

\* Fault variant: the early return skips the deferred closeDone.
GoCancelledLeaves(o) ==
    /\ At(o, "go")
    /\ obj[o].cancelled
    /\ Goto(o, "gone")
    /\ UNCHANGED <<gateVars, diskVars, active, entry, proc, sideVars>>

\* Cancelled before the start: nothing is spawned.
GoCancelled(o) ==
    /\ At(o, "go")
    /\ obj[o].cancelled
    /\ Goto(o, "close")
    /\ UNCHANGED <<gateVars, diskVars, active, entry, proc, sideVars>>

Spawn(o) ==
    /\ At(o, "go")
    /\ ~obj[o].cancelled
    /\ proc' = [proc EXCEPT ![o] = "alive"]
    /\ Goto(o, "started")
    /\ UNCHANGED <<gateVars, diskVars, active, entry, sideVars>>

\* ErrBinaryNotFound and its like.
SpawnFail(o) ==
    /\ At(o, "go")
    /\ ~obj[o].cancelled
    /\ obj' = [obj EXCEPT ![o].pc = "post", ![o].st = "failed"]
    /\ UNCHANGED <<gateVars, diskVars, active, entry, proc, sideVars>>

\* OnStarted, its section under ar.mu: publish the pid and see a cancel.
OnStarted(o) ==
    /\ At(o, "started")
    /\ obj' = [obj EXCEPT ![o].pid = o,
                          ![o].pc = IF obj[o].cancelled THEN "wait" ELSE "mark"]
    /\ UNCHANGED <<gateVars, diskVars, active, entry, proc, sideVars>>

EditRunning(o) ==
    /\ At(o, "mark")
    /\ \E ok \in BOOLEAN : EditStatus("running", ok)
    /\ Goto(o, "record")
    /\ UNCHANGED <<gateVars, log, active, entry, proc, sideVars>>

AppendStarted(o) ==
    /\ At(o, "record")
    /\ \E ok \in BOOLEAN : AppendEvent(Event(obj[o].run, "started", o, "none"), ok)
    /\ Goto(o, "wait")
    /\ UNCHANGED <<gateVars, status, active, entry, proc, sideVars>>

\* The session id, right after started (claude) or from the stream (codex).
AppendSession(o) ==
    /\ At(o, "wait")
    /\ Has(obj[o].run, "started") /\ ~Has(obj[o].run, "session")
    /\ \E ok \in BOOLEAN : AppendEvent(Event(obj[o].run, "session", o, "none"), ok)
    /\ UNCHANGED <<gateVars, status, active, entry, obj, proc, sideVars>>

\* The process ends by itself, by SIGTERM, or by the runner's timeout.
ProcessExit(o) ==
    /\ proc[o] = "alive"
    /\ proc' = [proc EXCEPT ![o] = "dead"]
    /\ UNCHANGED <<gateVars, diskVars, active, entry, obj, sideVars>>

\* mapRunnerOutcome: a done context outranks a clean exit.
Outcome(o) ==
    /\ At(o, "wait")
    /\ proc[o] = "dead"
    /\ \E st \in {"success", "failed"} :
         /\ st = "success" => ~obj[o].ctx
         /\ obj' = [obj EXCEPT ![o].pc = "post", ![o].st = st]
    /\ UNCHANGED <<gateVars, diskVars, active, entry, proc, sideVars>>

\* Fault variant: the status of the record is left to the caller.
ClaimedUnnamed(o, st) == [obj[o] EXCEPT !.fin = "append"]

\* finishOnce.Do: the first caller writes the record, with its status.
Claimed(o, st) == [obj[o] EXCEPT !.fin = "append", !.st = st]

\* postRun
PostRun(o) ==
    /\ At(o, "post")
    /\ IF obj[o].cancelled \/ obj[o].fin = "done"
       THEN Goto(o, "close")
       ELSE /\ obj[o].fin = "free"
            /\ obj' = [obj EXCEPT ![o] = Claimed(o, obj[o].st)]
    /\ UNCHANGED <<gateVars, diskVars, active, entry, proc, sideVars>>

\* The deferred closeDone; a direct run's goroutine ends here.
CloseDone(o) ==
    /\ At(o, "close")
    /\ obj' = [obj EXCEPT ![o].done = TRUE,
                          ![o].pc = IF obj[o].kind = "queued" THEN "after"
                                    ELSE "gone"]
    /\ UNCHANGED <<gateVars, diskVars, active, entry, proc, sideVars>>

\* The end of RunQueuedAgentSync: a cancelled run is finished by its worker,
\* and the worker gives the entry back.
AfterQueued(o) ==
    /\ At(o, "after")
    /\ IF obj[o].cancelled /\ obj[o].fin # "done"
       THEN /\ obj[o].fin = "free"
            /\ obj' = [obj EXCEPT ![o] = Claimed(o, "cancelled")]
            /\ entry' = entry
       ELSE /\ Goto(o, "gone")
            /\ entry' = IF entry = o THEN 0 ELSE entry
    /\ UNCHANGED <<gateVars, diskVars, active, proc, sideVars>>

-----------------------------------------------------------------------------
(* recordTerminal, whoever has entered finishOnce of o.                    *)

Fin(o, at) == up /\ obj[o].fin = at

SetFin(o, at) == obj' = [obj EXCEPT ![o].fin = at]

TerminalAppend(o) ==
    /\ Fin(o, "append")
    /\ \E ok \in BOOLEAN :
         AppendEvent(Event(obj[o].run, "finished", 0, obj[o].st), ok)
    /\ SetFin(o, IF obj[o].st \in {"success", "failed"} THEN "read" ELSE "edit")
    /\ UNCHANGED <<gateVars, status, active, entry, proc, sideVars>>

\* Fault variant: the exit status is written over needs-user.
TerminalReadNothing(o) ==
    /\ Fin(o, "read")
    /\ SetFin(o, "edit")
    /\ UNCHANGED <<gateVars, diskVars, active, entry, proc, sideVars>>

\* The task is read again: needs-user stays, and a review that has handed
\* the task back to ready leaves no status.  When the read fails, the exit
\* status is written whatever the task says.
TerminalRead(o) ==
    /\ Fin(o, "read")
    /\ \/ /\ SetFin(o, IF status = "needs-user" THEN "delete" ELSE "edit")
          /\ UNCHANGED budget
       \/ /\ obj[o].mode \in Reviews /\ obj[o].st = "success"
          /\ status # "needs-user"
          /\ obj' = [obj EXCEPT ![o].fin = "edit", ![o].st = "none"]
          /\ UNCHANGED budget
       \/ /\ budget.faults > 0
          /\ budget' = [budget EXCEPT !.faults = @ - 1, !.misread = TRUE]
          /\ SetFin(o, "edit")
    /\ UNCHANGED <<gateVars, status, log, active, entry, proc, sideVars>>

TerminalEdit(o) ==
    /\ Fin(o, "edit")
    /\ \E ok \in BOOLEAN : EditStatus(obj[o].st, ok)
    /\ SetFin(o, "delete")
    /\ UNCHANGED <<gateVars, log, active, entry, proc, sideVars>>

\* Fault variant: ReleaseWorker is forgotten.
TerminalDeleteOnly(o) ==
    /\ Fin(o, "delete")
    /\ active' = 0
    /\ SetFin(o, "done")
    /\ UNCHANGED <<gateVars, diskVars, entry, proc, sideVars>>

\* delete(s.active, task), whosever entry it is, and ReleaseWorker.
TerminalDelete(o) ==
    /\ Fin(o, "delete")
    /\ active' = 0
    /\ entry' = IF entry = o /\ obj[o].kind = "direct" THEN 0 ELSE entry
    /\ SetFin(o, "done")
    /\ UNCHANGED <<gateVars, diskVars, proc, sideVars>>

-----------------------------------------------------------------------------
(* Cancelling: CancelRun, cancelRunsForBoard, and the watcher that         *)
(* RunQueuedAgentSync sets on the daemon's context.                        *)

CancAt(c, pc) == up /\ canc[c].pc = pc

SetCanc(c, pc) == canc' = [canc EXCEPT ![c].pc = pc]

CancelFind(c) ==
    /\ CancAt(c, "idle") /\ c \in Cancellers
    /\ active # 0
    /\ canc' = [canc EXCEPT ![c].pc = "mark", ![c].obj = active]
    /\ UNCHANGED <<gateVars, diskVars, active, entry, obj, proc, rec, mon>>

\* The daemon's context is done while the queued run o is on its way.
WatcherFires(o) ==
    /\ CancAt(o, "idle") /\ closing
    /\ obj[o].kind = "queued"
    /\ obj[o].pc \in {"go", "started", "mark", "record", "wait", "post", "close"}
    /\ canc' = [canc EXCEPT ![o].pc = "mark", ![o].obj = o]
    /\ UNCHANGED <<gateVars, diskVars, active, entry, obj, proc, rec, mon>>

\* verifyPIDIdentity and markCancelled.  A watcher marks its own run.
CancelMark(c) ==
    /\ CancAt(c, "mark")
    /\ LET o == canc[c].obj
       IN IF obj[o].kind = "stub" /\ proc[obj[o].pid] = "dead"
          THEN /\ canc' = [canc EXCEPT ![c] = NoCancel]
               /\ obj' = obj
          ELSE /\ SetCanc(c, "kill")
               /\ obj' = [obj EXCEPT ![o].cancelled = TRUE]
    /\ UNCHANGED <<gateVars, diskVars, active, entry, proc, rec, mon>>

\* killActiveRun: the pid as it is now, the context, SIGTERM.
CancelTerm(c) ==
    /\ CancAt(c, "kill")
    /\ canc' = [canc EXCEPT ![c].pc = "grace", ![c].pid = obj[canc[c].obj].pid]
    /\ obj' = [obj EXCEPT ![canc[c].obj].ctx = TRUE]
    /\ UNCHANGED <<gateVars, diskVars, active, entry, proc, rec, mon>>

\* The grace is over and Done is still open: SIGKILL to the pid that was
\* read, and nobody else closes Done for an adopted process.
CancelKill(c) ==
    /\ CancAt(c, "grace")
    /\ ~obj[canc[c].obj].done
    /\ SetCanc(c, "await")
    /\ proc' = [o \in Objs |-> IF o = canc[c].pid /\ proc[o] = "alive"
                               THEN "dead" ELSE proc[o]]
    /\ obj' = [obj EXCEPT ![canc[c].obj].done = (obj[canc[c].obj].kind = "stub")]
    /\ UNCHANGED <<gateVars, diskVars, active, entry, rec, mon>>

\* Fault variant: the terminal record does not wait for the goroutine.
CancelDoneAtOnce(c) ==
    /\ up /\ canc[c].pc \in {"grace", "await"}
    /\ canc' = [canc EXCEPT ![c] = IF c \in Watchers THEN NoCancel
                                   ELSE [@ EXCEPT !.pc = "finish"]]
    /\ UNCHANGED <<gateVars, diskVars, active, entry, obj, proc, rec, mon>>

\* Done is closed; the watcher leaves the rest to RunQueuedAgentSync.
CancelDone(c) ==
    /\ up /\ canc[c].pc \in {"grace", "await"}
    /\ obj[canc[c].obj].done
    /\ canc' = [canc EXCEPT ![c] = IF c \in Watchers THEN NoCancel
                                   ELSE [@ EXCEPT !.pc = "finish"]]
    /\ UNCHANGED <<gateVars, diskVars, active, entry, obj, proc, rec, mon>>

\* finishCancelled: write the record, or wait for the one who does.
CancelFinish(c) ==
    /\ CancAt(c, "finish")
    /\ LET o == canc[c].obj
       IN IF obj[o].fin = "done"
          THEN /\ canc' = [canc EXCEPT ![c] = NoCancel]
               /\ obj' = obj
          ELSE /\ obj[o].fin = "free"
               /\ obj' = [obj EXCEPT ![o] = Claimed(o, "cancelled")]
               /\ canc' = canc
    /\ UNCHANGED <<gateVars, diskVars, active, entry, proc, rec, mon>>

-----------------------------------------------------------------------------
(* Recovery: recoverStale and recoverOne.                                  *)

RecAt(pc) == up /\ rec.pc = pc

\* The board is loaded and the task is listed as running.
ScanBegin(tick) ==
    /\ RecAt("idle")
    /\ tick /\ budget.ticks > 0
    /\ status = "running"
    /\ rec' = [NoScan EXCEPT !.pc = "read", !.tick = tick]
    /\ budget' = [budget EXCEPT !.ticks = @ - 1]
    /\ UNCHANGED <<gateVars, status, log, active, entry, obj, proc, canc, mon>>

\* The scan of Activate: a task that is not running is not looked at.
StartupScan ==
    /\ RecAt("startup")
    /\ rec' = IF status = "running" THEN [NoScan EXCEPT !.pc = "read"] ELSE NoScan
    /\ UNCHANGED <<gateVars, diskVars, active, entry, obj, proc, canc, mon>>

\* readRunViews; without any run the task is marked lost under a new id.
ScanRead ==
    /\ RecAt("read")
    /\ IF log # <<>>
       THEN /\ rec' = [rec EXCEPT !.pc = "next", !.len = Len(log), !.rest = Logged]
            /\ nextRun' = nextRun
       ELSE IF rec.tick /\ active # 0
       THEN rec' = NoScan /\ nextRun' = nextRun
       ELSE /\ nextRun <= MaxRuns
            /\ rec' = [rec EXCEPT !.pc = "finish", !.run = nextRun, !.st = "lost"]
            /\ nextRun' = nextRun + 1
    /\ UNCHANGED <<up, closing, diskVars, active, entry, obj, proc, canc, mon>>

Tracked(r) == active # 0 /\ obj[active].run = r

\* The run this iteration of recoverOne looks at, and what it does to it.
Current  == Earliest(rec.rest)
IsLatest == Current = LatestOf(RunsIn(rec.len))
Skipped  == rec.tick /\ Tracked(Current)
OldFinish == FinishIn(rec.len, Current)
OldPid   == PidIn(rec.len, Current)
Alive(p) == p # 0 /\ proc[p] = "alive"

ScanNext == RecAt("next") /\ rec.rest # {}

Passed == [rec EXCEPT !.rest = @ \ {Current}]

\* Fault variant: every finished run is passed over.
ScanSkipFinished ==
    /\ ScanNext
    /\ Skipped \/ OldFinish # "none"
    /\ rec' = Passed
    /\ UNCHANGED <<gateVars, diskVars, active, entry, obj, proc, canc, mon>>

\* A tracked run, or a finished one that is not the latest.
ScanSkip ==
    /\ ScanNext
    /\ Skipped \/ (OldFinish # "none" /\ ~IsLatest)
    /\ rec' = Passed
    /\ UNCHANGED <<gateVars, diskVars, active, entry, obj, proc, canc, mon>>

\* The latest run has its record: only the status is put right.
ScanSync ==
    /\ ScanNext
    /\ ~Skipped /\ OldFinish # "none" /\ IsLatest
    /\ \E ok \in BOOLEAN : EditStatus(OldFinish, ok)
    /\ rec' = Passed
    /\ UNCHANGED <<gateVars, log, active, entry, obj, proc, canc, mon>>

\* The process lives: a stub is put into s.active unless the task has an
\* entry, and a monitor is started unless the run has one.
ScanAdopt ==
    /\ ScanNext
    /\ ~Skipped /\ OldFinish = "none" /\ Alive(OldPid)
    /\ IF active = 0
       THEN \E o \in Objs :
              /\ Fresh(o)
              /\ active' = o
              /\ obj' = [obj EXCEPT ![o] =
                           [Unused EXCEPT !.pc = "stub", !.kind = "stub",
                                          !.run = Current, !.pid = OldPid,
                                          !.mode = ModeOf(Current)]]
       ELSE active' = active /\ obj' = obj
    /\ mon' = [mon EXCEPT ![Current] =
                 IF @.pc = "off" THEN [NoMon EXCEPT !.pc = "poll", !.pid = OldPid]
                 ELSE @]
    /\ rec' = Passed
    /\ UNCHANGED <<gateVars, diskVars, entry, proc, canc>>

\* A run whose session is known can be resumed.
Verdict(r) == IF Seen(rec.len, r, "session") # {} THEN "interrupted" ELSE "lost"

\* The process is dead, or its pid was never written.
ScanStale ==
    /\ ScanNext
    /\ ~Skipped /\ OldFinish = "none" /\ ~Alive(OldPid)
    /\ rec' = [rec EXCEPT !.pc = "finish", !.run = Current, !.st = Verdict(Current)]
    /\ UNCHANGED <<gateVars, diskVars, active, entry, obj, proc, canc, mon>>

\* markInterrupted, markLost, appendRecoveredFinished: the record first.  A
\* failed append ends the scan of the task.
ScanFinish ==
    /\ RecAt("finish")
    /\ \E ok \in BOOLEAN :
         /\ AppendEvent(Event(rec.run, "finished", 0, rec.st), ok)
         /\ rec' = IF ~ok THEN NoScan
                   ELSE IF rec.rest = {} \/ IsLatest
                   THEN [rec EXCEPT !.pc = "edit"]
                   ELSE [Passed EXCEPT !.pc = "next"]
    /\ UNCHANGED <<gateVars, status, active, entry, obj, proc, canc, mon>>

ScanEdit ==
    /\ RecAt("edit")
    /\ \E ok \in BOOLEAN : EditStatus(rec.st, ok)
    /\ rec' = NoScan
    /\ UNCHANGED <<gateVars, log, active, entry, obj, proc, canc, mon>>

ScanEnd ==
    /\ RecAt("next") /\ rec.rest = {}
    /\ rec' = NoScan
    /\ UNCHANGED <<gateVars, diskVars, active, entry, obj, proc, canc, mon>>

-----------------------------------------------------------------------------
(* The monitor of a recovered run: pollRecoveredRunMonitor and             *)
(* reconcileOrphanExit.  A step that fails is taken up by the next poll.   *)

MonAt(r, pc) == up /\ mon[r].pc = pc

SetMon(r, pc) == mon' = [mon EXCEPT ![r].pc = pc]

\* readLatestRun and the probe of the pid.  A live process changes nothing.
MonPoll(r) ==
    /\ MonAt(r, "poll")
    /\ LET st == FinishIn(Len(log), r)
       IN \/ LatestOf(Logged) # r /\ SetMon(r, "off")
          \/ /\ LatestOf(Logged) = r /\ st # "none"
             /\ mon' = [mon EXCEPT ![r].pc = "release", ![r].st = st]
          \/ /\ LatestOf(Logged) = r /\ st = "none"
             /\ ~Alive(mon[r].pid)
             /\ SetMon(r, "exit")
    /\ UNCHANGED <<gateVars, diskVars, active, entry, obj, proc, canc, rec>>

\* releaseRecoveredRun
MonRelease(r) ==
    /\ MonAt(r, "release")
    /\ SetMon(r, "sync")
    /\ IF Tracked(r)
       THEN obj' = [obj EXCEPT ![active].done = TRUE] /\ active' = 0
       ELSE UNCHANGED <<obj, active>>
    /\ UNCHANGED <<gateVars, diskVars, entry, proc, canc, rec>>

\* syncFinishedStatus
MonSync(r) ==
    /\ MonAt(r, "sync")
    /\ \E ok \in BOOLEAN : /\ EditStatus(mon[r].st, ok)
                           /\ SetMon(r, IF ok THEN "off" ELSE "poll")
    /\ UNCHANGED <<gateVars, log, active, entry, obj, proc, canc, rec>>

\* reconcileOrphanExit: Done is closed for whoever cancels; a cancelled stub
\* is left to CancelRun, and without a stub the run is marked lost here.
MonExit(r) ==
    /\ MonAt(r, "exit")
    /\ IF ~Tracked(r)
       THEN SetMon(r, "lose") /\ obj' = obj
       ELSE /\ obj' = [obj EXCEPT ![active].done = TRUE]
            /\ mon' = [mon EXCEPT ![r].pc = IF obj[active].cancelled THEN "off"
                                            ELSE "claim",
                                  ![r].obj = active]
    /\ UNCHANGED <<gateVars, diskVars, active, entry, proc, canc, rec>>

\* Fault variant: the exit is seen and not recorded.
MonClaimNothing(r) ==
    /\ MonAt(r, "claim")
    /\ SetMon(r, "off")
    /\ UNCHANGED <<gateVars, diskVars, active, entry, obj, proc, canc, rec>>

\* recordTerminal; whoever has entered finishOnce before writes the record.
MonClaim(r) ==
    /\ MonAt(r, "claim")
    /\ SetMon(r, "off")
    /\ LET o == mon[r].obj
       IN obj' = IF obj[o].fin = "free"
                 THEN [obj EXCEPT ![o] = Claimed(o, "lost")] ELSE obj
    /\ UNCHANGED <<gateVars, diskVars, active, entry, proc, canc, rec>>

\* markLost
MonLose(r) ==
    /\ MonAt(r, "lose")
    /\ \E ok \in BOOLEAN :
         /\ AppendEvent(Event(r, "finished", 0, "lost"), ok)
         /\ mon' = [mon EXCEPT ![r].pc = IF ok THEN "sync" ELSE "poll",
                               ![r].st = "lost"]
    /\ UNCHANGED <<gateVars, status, active, entry, obj, proc, canc, rec>>

-----------------------------------------------------------------------------
(* The GUI closes, dies and comes back; the agent and the user edit.       *)

Close ==
    /\ up /\ ~closing
    /\ budget.crashes > 0
    /\ closing' = TRUE
    /\ UNCHANGED <<up, nextRun, diskVars, active, entry, obj, proc, sideVars>>

\* What is in memory is gone; processes and files stay.
Crash ==
    /\ up /\ budget.crashes > 0
    /\ up' = FALSE
    /\ active' = 0 /\ entry' = 0
    /\ obj' = [o \in Objs |-> IF obj[o].pc = "unused" THEN obj[o]
                              ELSE [Unused EXCEPT !.pc = "gone"]]
    /\ canc' = [c \in Cancellers \cup Watchers |-> NoCancel]
    /\ rec' = NoScan
    /\ mon' = [r \in Runs |-> NoMon]
    /\ budget' = [budget EXCEPT !.crashes = @ - 1]
    /\ UNCHANGED <<closing, nextRun, status, log, proc>>

Restart ==
    /\ ~up
    /\ up' = TRUE /\ closing' = FALSE
    /\ rec' = [NoScan EXCEPT !.pc = "startup"]
    /\ UNCHANGED <<nextRun, diskVars, active, entry, obj, proc, canc, mon>>

\* tb ready, or tb edit --agent-status queued.
HandQueue ==
    /\ budget.hand > 0
    /\ status \notin {"queued", "running"}
    /\ status' = "queued"
    /\ budget' = [budget EXCEPT !.hand = @ - 1]
    /\ UNCHANGED <<gateVars, log, active, entry, obj, proc, sideVars>>

\* The agent asks, from a process whose OnStarted has returned.
NeedsUser(o) ==
    /\ proc[o] = "alive"
    /\ obj[o].pc \in {"wait", "gone"}
    /\ budget.asks > 0
    /\ status' = "needs-user"
    /\ budget' = [budget EXCEPT !.asks = @ - 1]
    /\ UNCHANGED <<gateVars, log, active, entry, obj, proc, sideVars>>

\* tb edit --agent-status none, by the user who has answered or who takes the
\* task out of the queue.
HandClear ==
    /\ \/ status = "needs-user" /\ budget' = budget
       \/ /\ status = "queued" /\ budget.hand > 0
          /\ budget' = [budget EXCEPT !.hand = @ - 1]
    /\ status' = "none"
    /\ UNCHANGED <<gateVars, log, active, entry, obj, proc, sideVars>>

-----------------------------------------------------------------------------
StartRun(o) == \/ \E m \in StartModes : StartAgentRun(o, m)
               \/ ResumeAgent(o) \/ Claim(o)

Setup(o) ==
    \/ Register(o) \/ AppendQueued(o) \/ EditQueued(o) \/ Rollback(o)
    \/ ReadQueued(o) \/ ReadRefused(o) \/ Synthesise(o)

Goroutine(o) ==
    \/ GoCancelled(o) \/ Spawn(o) \/ SpawnFail(o) \/ OnStarted(o)
    \/ EditRunning(o) \/ AppendStarted(o)
    \/ Outcome(o) \/ PostRun(o) \/ CloseDone(o) \/ AfterQueued(o)

RecordTerminal(o) == TerminalAppend(o) \/ TerminalRead(o) \/ TerminalEdit(o)
                     \/ TerminalDelete(o)

CancelRun(c) == \/ CancelMark(c) \/ CancelTerm(c) \/ CancelKill(c)
                \/ CancelDone(c) \/ CancelFinish(c)

Recover == \/ StartupScan \/ ScanRead \/ ScanSkip \/ ScanSync \/ ScanAdopt
           \/ ScanStale \/ ScanFinish \/ ScanEdit \/ ScanEnd

Monitor(r) == \/ MonPoll(r) \/ MonRelease(r) \/ MonSync(r) \/ MonExit(r)
              \/ MonClaim(r) \/ MonLose(r)

Next ==
    \/ \E o \in Objs : \/ StartRun(o) \/ Setup(o) \/ Goroutine(o)
                       \/ RecordTerminal(o) \/ AppendSession(o)
                       \/ ProcessExit(o) \/ NeedsUser(o) \/ WatcherFires(o)
    \/ \E c \in Cancellers : CancelFind(c)
    \/ \E c \in Cancellers \cup Watchers : CancelRun(c)
    \/ ScanBegin(TRUE) \/ Recover
    \/ \E r \in Runs : Monitor(r)
    \/ Close \/ Crash \/ Restart \/ HandQueue \/ HandClear

Spec == Init /\ [][Next]_vars

\* Processes that a goroutine of this GUI waits for; the runner's timeout ends
\* them.
Timed(o) == obj[o].pc \in {"started", "mark", "record", "wait"}

\* Go schedules every goroutine.  Nothing makes the GUI come back, the user
\* act, or a process end that an earlier GUI has spawned: its timeout died
\* with that GUI, and the monitor only asks whether the process lives.
Fairness ==
    /\ \A o \in Objs : /\ WF_vars(Setup(o)) /\ WF_vars(Goroutine(o))
                        /\ WF_vars(RecordTerminal(o))
                        /\ WF_vars(Timed(o) /\ ProcessExit(o))
    /\ \A c \in Cancellers \cup Watchers : WF_vars(CancelRun(c))
    /\ WF_vars(Recover)
    /\ \A r \in Runs : WF_vars(Monitor(r))

FairSpec == Spec /\ Fairness

-----------------------------------------------------------------------------
(* Correctness.                                                            *)

PCs == {"unused", "register", "queue", "label", "undo", "claimed", "synth",
        "go", "started", "mark", "record", "wait", "post", "close", "after",
        "stub", "gone"}

\* The values the variables hold; in the history only an end has a terminal
\* status and only a start has a pid.
TypeOK ==
    /\ up \in BOOLEAN /\ closing \in BOOLEAN
    /\ status \in Statuses
    /\ active \in Objs \cup {0} /\ entry \in Objs \cup {0}
    /\ obj \in [Objs -> [pc : PCs, run : Runs \cup {0},
                         kind : {"direct", "queued", "stub"}, mode : Modes,
                         pid : Objs \cup {0}, cancelled : BOOLEAN,
                         ctx : BOOLEAN, done : BOOLEAN,
                         fin : {"free", "append", "read", "edit", "delete", "done"},
                         st : Terminal \cup {"none"}]]
    /\ proc \in [Objs -> {"none", "alive", "dead"}]
    /\ log \in Seq([run : Runs, kind : {"queued"}, pid : {0}, st : Modes]
                   \cup [run : Runs, kind : {"started", "session"},
                         pid : Objs, st : {"none"}]
                   \cup [run : Runs, kind : {"finished"}, pid : {0},
                         st : Terminal])
    /\ nextRun \in 1..(MaxRuns + 1)

-----------------------------------------------------------------------------
FinishedOf(r) == {i \in DOMAIN log : log[i].run = r /\ log[i].kind = "finished"}

\* Whichever path records the end of a run first owns the record
\* (agent_recovery.go, reconcileOrphanExit): a cancellation stays one.
CancelIsDurable ==
    \A r \in Runs : \A i, j \in FinishedOf(r) :
        i < j /\ log[i].st = "cancelled" => log[j].st = "cancelled"

AtRest ==
    /\ up /\ active = 0 /\ entry = 0 /\ rec.pc = "idle"
    /\ \A r \in Runs : mon[r].pc = "off"
    /\ \A c \in Cancellers \cup Watchers : canc[c].pc = "idle"
    /\ \A o \in Objs : /\ obj[o].pc \in {"unused", "gone", "stub"}
                       /\ obj[o].fin \in {"free", "done"}

\* No append to the history and no edit or read of the task has failed.
NoFaults == budget.faults = MaxFaults

\* The GUI that the user has started, and before its first periodic scan.
FirstGui  == up /\ budget.crashes = MaxCrashes
Unscanned == FirstGui /\ budget.ticks = MaxTicks

\* Once nothing of the GUI is at work on the task, its AgentStatus is not
\* running; a terminal one is an outcome that the history has recorded, and
\* as long as only recordTerminal writes it, that of the last run that did
\* not stay queued (recordTerminal, recoverOne, syncFinishedStatus).
StatusAgrees ==
    NoFaults =>
      /\ AtRest => status # "running"
      /\ status \in Terminal =>
           \E r \in IF Unscanned THEN {LatestOf(Logged \ OpenQueued)} ELSE Logged :
              \E i \in FinishedOf(r) : log[i].st = status

\* The GUI never has two live processes of a task, whatever cancels, starts
\* by hand and retries it goes through (Register, recordTerminal's delete).
OneProcess == Cardinality({o \in Objs : proc[o] = "alive"}) <= 1

\* What the agent asks is not overwritten by how its process ends, unless
\* recordTerminal could not read the task again (TB-182).
NeedsUserKept ==
    [][status = "needs-user" /\ ~budget.misread
         => status' \notin {"success", "failed", "running"}]_vars

\* The status that ListRuns gives a run: an outcome, the last one, outranks
\* a start, and a start a place in the queue.
StageOf(r) == IF Has(r, "finished") THEN FinishIn(Len(log), r)
              ELSE IF Has(r, "started") THEN "started"
              ELSE IF Has(r, "queued") THEN "queued" ELSE "absent"

History == INSTANCE RunHistory
               WITH stage <- [r \in Runs |-> StageOf(r)], Outcomes <- Terminal

\* The history keeps its promise while one GUI is at work.
HistoryKept == History!Spec

\* Whoever cancels gets an answer: Done is closed on every way out of a run
\* (runGoroutine's defer, killActiveRun, reconcileOrphanExit).
CancelReturns ==
    \A c \in Cancellers : []<>(canc[c].pc = "idle" \/ ~up)

\* A process of an earlier GUI is still at work.
Orphaned == \E o \in Objs : proc[o] = "alive" /\ obj[o].pc = "gone"

\* A running task does not stay so while the GUI is open, not even when an
\* earlier GUI has started the run (monitorRecoveredRun, recordTerminal); only
\* a process that an earlier GUI has left behind may keep it running.
RunningResolves ==
    []<>(status # "running" \/ ~up \/ closing \/ Orphaned)

\* An entry in the daemon's active set is given back (ReleaseWorker, runOne).
EntryReturned == []<>(entry = 0)

=============================================================================
