------------------------------- MODULE Daemon -------------------------------
(***************************************************************************)
(* The background runner of the GUI process:                               *)
(* gui/internal/daemon/daemon.go, with the part of AgentService it reads   *)
(* (the map s.active, gui/app/agent_run.go and agent_service.go).          *)
(*                                                                         *)
(* A FIFO queue of task ids feeds one dispatcher; the dispatcher waits for *)
(* a worker slot and starts one goroutine per run.  Runs that the user or  *)
(* an automation coordinator starts directly reserve a slot of the same    *)
(* pool without going through the queue.  A board switch deactivates the   *)
(* daemon and activates it again under a new generation.                   *)
(*                                                                         *)
(* A mutex-protected section of the code is one action, and what the code  *)
(* does between two sections may be interleaved with anything.  Four pairs *)
(* of neighbouring sections are merged: reading two flags of the board     *)
(* lock (EnqueueGate), listing s.active and comparing the list with the    *)
(* active set (UnreservedCount), reading maxWorkers and then testing the   *)
(* active set against it (ReserveCount, ReserveInsert), and a change of    *)
(* s.active with the wake-up that follows it.                              *)
(***************************************************************************)
EXTENDS Naturals, Sequences, FiniteSets

CONSTANTS
    Tasks,          \* task ids; a board switch may bring back the same ids
    NoTask,         \* the id of a thread that works on no task
    Enqueuers,      \* goroutines that call EnqueueIfReady, RescanActive
    Starters,       \* goroutines that call AgentService.startAgentRun
    Workers,        \* goroutines spawned by dispatchOne
    QueueBuffer,    \* capacity of the channel (256 in the code)
    Limits,         \* values SetMaxWorkers may be given, after its clamp
    MaxLimit,       \* runtime.NumCPU(), the upper end of that clamp
    MaxOrphans,     \* bound on the orphan processes found at the start
    MaxGeneration   \* bound on the number of activations explored

ASSUME DaemonAssumption ==
    /\ NoTask \notin Tasks
    /\ IsFiniteSet(Tasks)
    /\ IsFiniteSet(Starters)
    /\ IsFiniteSet(Workers)
    /\ QueueBuffer \in Nat \ {0}
    /\ MaxLimit \in Nat \ {0}
    /\ Limits \subseteq 1..MaxLimit
    /\ Limits # {}
    /\ MaxOrphans \in Nat
    /\ MaxGeneration \in Nat

VARIABLES
    lifecycle,        \* where the OpenBoard / shutdown thread is
    activated,        \* Daemon.activated
    generation,       \* Daemon.generation
    cancelledGen,     \* contexts of generations up to this one are done
    graceTimer,       \* startupScanTimer # nil
    closing,          \* Close has been called
    rootDone,         \* rootCtx is done
    queue,            \* the buffered channel
    active,           \* Daemon.active
    automationActive, \* Daemon.automationActive
    runningWorkers,   \* Daemon.runningWorkers
    maxWorkers,       \* Daemon.maxWorkers
    agentActive,      \* the keys of AgentService.active
    recovered,        \* those that are stubs of adopted orphan processes
    orphans,          \* tasks whose agent process outlived an earlier GUI
    enq,              \* enq[e]: the enqueuer's local state
    disp,             \* the dispatcher's local state
    worker,           \* worker[w]: the run goroutine's local state
    starter           \* starter[s]: the direct starter's local state

lifeVars  == <<lifecycle, activated, generation, cancelledGen, graceTimer,
               closing, rootDone>>
setVars   == <<active, automationActive>>
slotVars  == <<runningWorkers, maxWorkers>>
agentVars == <<agentActive, recovered, orphans>>
vars == <<lifeVars, queue, setVars, slotVars, agentVars, enq, disp, worker,
          starter>>

-----------------------------------------------------------------------------

Idle      == [pc |-> "idle", task |-> NoTask, gen |-> 0]
IdleStart == [pc |-> "idle", task |-> NoTask, extra |-> 0]

\* The context of generation g is done.
CtxDone(g) == rootDone \/ g <= cancelledGen

\* activationContextFor(g) succeeds.
Live(g) == activated /\ generation = g

HasActiveRun(t) == t \in agentActive

\* unreservedAgentActiveCount: runs AgentService tracks that hold no entry
\* of the active set, for example recovered orphans.
UnreservedCount == Cardinality(agentActive \ active)

\* signalWorkerLimitChangedLocked: wake the dispatcher if it waits.
Signal == disp' = [disp EXCEPT !.pc = IF @ = "blocked" THEN "woken" ELSE @]

\* Fault variant: the slot comes back without a wake-up.
ReleaseWorkerSlotSilently ==
    /\ runningWorkers' = IF runningWorkers > 0 THEN runningWorkers - 1 ELSE 0
    /\ UNCHANGED <<maxWorkers, disp>>

\* releaseWorkerSlot
ReleaseWorkerSlot ==
    /\ runningWorkers' = IF runningWorkers > 0 THEN runningWorkers - 1 ELSE 0
    /\ Signal
    /\ UNCHANGED maxWorkers

-----------------------------------------------------------------------------
(* Lifecycle: one thread at a time, OpenBoard holds openMu.                *)

Activate ==
    /\ lifecycle = "off"
    /\ ~closing
    /\ generation < MaxGeneration
    /\ generation' = generation + 1
    /\ activated' = TRUE
    /\ lifecycle' = "recover"
    /\ UNCHANGED <<cancelledGen, graceTimer, closing, rootDone, queue, setVars,
                   slotVars, agentVars, enq, disp, worker, starter>>

\* RecoverStale and ReconcileActive are done: the startup scan is scheduled
\* (grace > 0), or made at once by one more caller that starts at
\* EnqueueGate.
ScheduleScan ==
    /\ lifecycle = "recover"
    /\ graceTimer' \in BOOLEAN
    /\ lifecycle' = "on"
    /\ UNCHANGED <<activated, generation, cancelledGen, closing, rootDone,
                   queue, setVars, slotVars, agentVars, enq, disp, worker,
                   starter>>

\* The startup timer fires: from now on the sink's events are let through.
\* Its own scan is one more caller of the path that starts at EnqueueGate.
GraceFires ==
    /\ graceTimer
    /\ graceTimer' = FALSE
    /\ UNCHANGED <<lifecycle, activated, generation, cancelledGen, closing,
                   rootDone, queue, setVars, slotVars, agentVars, enq, disp,
                   worker, starter>>

\* Deactivate (a board switch) or the first half of Close.
BeginDeactivate ==
    /\ lifecycle = "on"
    /\ closing' \in BOOLEAN
    /\ graceTimer' = FALSE
    /\ activated' = FALSE
    /\ lifecycle' = "cancel"
    /\ UNCHANGED <<generation, cancelledGen, rootDone, queue, setVars,
                   slotVars, agentVars, enq, disp, worker, starter>>

CancelActivation ==
    /\ lifecycle = "cancel"
    /\ cancelledGen' = generation
    /\ lifecycle' = "wait"
    /\ UNCHANGED <<activated, generation, graceTimer, closing, rootDone, queue,
                   setVars, slotVars, agentVars, enq, disp, worker, starter>>

\* waitActiveEmpty sees an empty set ...
DrainDone ==
    /\ lifecycle = "wait"
    /\ active = {}
    /\ lifecycle' = "reset"
    /\ UNCHANGED <<activated, generation, cancelledGen, graceTimer, closing,
                   rootDone, queue, setVars, slotVars, agentVars, enq, disp,
                   worker, starter>>

\* ... or the five seconds of shutdownGrace are over.  The caller only logs.
DrainTimeout ==
    /\ lifecycle = "wait"
    /\ active # {}
    /\ lifecycle' = "off"
    /\ UNCHANGED <<activated, generation, cancelledGen, graceTimer, closing,
                   rootDone, queue, setVars, slotVars, agentVars, enq, disp,
                   worker, starter>>

\* The maps are replaced under a new acquisition of activeMu.
ResetActive ==
    /\ lifecycle = "reset"
    /\ active' = {}
    /\ automationActive' = {}
    /\ lifecycle' = "off"
    /\ UNCHANGED <<activated, generation, cancelledGen, graceTimer, closing,
                   rootDone, queue, slotVars, agentVars, enq, disp, worker,
                   starter>>

\* The second half of Close; with no board open it is all of Close.
RootCancel ==
    /\ lifecycle = "off"
    /\ ~rootDone
    /\ closing' = TRUE
    /\ rootDone' = TRUE
    /\ UNCHANGED <<lifecycle, activated, generation, cancelledGen, graceTimer,
                   queue, setVars, slotVars, agentVars, enq, disp, worker,
                   starter>>

\* Fault variant: the lower end of the clamp is off by one.
SetMaxWorkersFromZero(n) ==
    /\ maxWorkers' = n - 1
    /\ Signal
    /\ UNCHANGED <<lifeVars, queue, setVars, runningWorkers, agentVars, enq,
                   worker, starter>>

SetMaxWorkers(n) ==
    /\ maxWorkers' = n
    /\ Signal
    /\ UNCHANGED <<lifeVars, queue, setVars, runningWorkers, agentVars, enq,
                   worker, starter>>

-----------------------------------------------------------------------------
(* Enqueue, called through EnqueueIfReady and RescanActive.                *)

\* isActivated and startupGraceActive, then the read of the board.
EnqueueGate(e, t) ==
    /\ enq[e].pc = "idle"
    /\ activated
    /\ ~graceTimer
    /\ enq' = [enq EXCEPT ![e] = [pc |-> "read", task |-> t, gen |-> 0]]
    /\ UNCHANGED <<lifeVars, queue, setVars, slotVars, agentVars, disp,
                   worker, starter>>

\* activationState
EnqueueRead(e) ==
    /\ enq[e].pc = "read"
    /\ enq' = [enq EXCEPT ![e] =
                 IF activated
                 THEN [pc |-> "check", task |-> enq[e].task,
                       gen |-> generation]
                 ELSE Idle]
    /\ UNCHANGED <<lifeVars, queue, setVars, slotVars, agentVars, disp,
                   worker, starter>>

\* tryEnqueue: HasActiveRun is asked before activeMu is taken.
EnqueueCheck(e) ==
    /\ enq[e].pc = "check"
    /\ enq' = [enq EXCEPT ![e] =
                 IF HasActiveRun(enq[e].task)
                 THEN Idle
                 ELSE [pc |-> "insert", task |-> enq[e].task,
                       gen |-> enq[e].gen]]
    /\ UNCHANGED <<lifeVars, queue, setVars, slotVars, agentVars, disp,
                   worker, starter>>

\* Fault variant: the active set is not asked before the insertion.
EnqueueInsertBlindly(e) ==
    /\ enq[e].pc = "insert"
    /\ enq' = [enq EXCEPT ![e].pc = "send"]
    /\ active' = active \cup {enq[e].task}
    /\ UNCHANGED <<lifeVars, queue, automationActive, slotVars, agentVars,
                   disp, worker, starter>>

EnqueueInsert(e) ==
    /\ enq[e].pc = "insert"
    /\ IF enq[e].task \in active
         THEN /\ enq' = [enq EXCEPT ![e] = Idle]
              /\ UNCHANGED active
         ELSE /\ enq' = [enq EXCEPT ![e] =
                           [pc |-> "send", task |-> enq[e].task,
                            gen |-> enq[e].gen]]
              /\ active' = active \cup {enq[e].task}
    /\ UNCHANGED <<lifeVars, queue, automationActive, slotVars, agentVars,
                   disp, worker, starter>>

\* The select statement: the send is one of its ready branches ...
EnqueueSend(e) ==
    /\ enq[e].pc = "send"
    /\ Len(queue) < QueueBuffer
    /\ queue' = Append(queue, [task |-> enq[e].task, gen |-> enq[e].gen])
    /\ enq' = [enq EXCEPT ![e] = Idle]
    /\ UNCHANGED <<lifeVars, setVars, slotVars, agentVars, disp, worker,
                   starter>>

\* ... the done contexts are another, and default is taken on a full queue.
EnqueueDrop(e) ==
    /\ enq[e].pc = "send"
    /\ CtxDone(enq[e].gen) \/ Len(queue) = QueueBuffer
    /\ active' = active \ {enq[e].task}
    /\ enq' = [enq EXCEPT ![e] = Idle]
    /\ UNCHANGED <<lifeVars, queue, automationActive, slotVars, agentVars,
                   disp, worker, starter>>

-----------------------------------------------------------------------------
(* worker() and dispatchOne: the single FIFO dispatcher.                   *)

DispatchTake ==
    /\ disp.pc = "idle"
    /\ queue # <<>>
    /\ disp' = [pc |-> "context", task |-> Head(queue).task,
                gen |-> Head(queue).gen]
    /\ queue' = Tail(queue)
    /\ UNCHANGED <<lifeVars, setVars, slotVars, agentVars, enq, worker,
                   starter>>

\* The loop's other branch; what is still queued is lost with the process.
DispatchExit ==
    /\ disp.pc = "idle"
    /\ rootDone
    /\ disp' = [disp EXCEPT !.pc = "exited"]
    /\ UNCHANGED <<lifeVars, queue, setVars, slotVars, agentVars, enq, worker,
                   starter>>

DispatchContext ==
    /\ disp.pc = "context"
    /\ Live(disp.gen)
    /\ disp' = [disp EXCEPT !.pc = "try"]
    /\ UNCHANGED <<lifeVars, queue, setVars, slotVars, agentVars, enq, worker,
                   starter>>

\* A stale item is dropped, and so is one whose wait for a slot is cancelled.
DispatchDrop ==
    /\ \/ disp.pc = "context" /\ ~Live(disp.gen)
       \/ disp.pc \in {"blocked", "woken"} /\ CtxDone(disp.gen)
    /\ active' = active \ {disp.task}
    /\ disp' = Idle
    /\ UNCHANGED <<lifeVars, queue, automationActive, slotVars, agentVars, enq,
                   worker, starter>>

\* Fault variant: one run too many.
HasCapacityOffByOne == runningWorkers + UnreservedCount <= maxWorkers

HasCapacity == runningWorkers + UnreservedCount < maxWorkers

\* acquireWorkerSlot succeeds and the run goroutine is started.
DispatchAcquire(w) ==
    /\ disp.pc \in {"try", "woken"}
    /\ HasCapacity
    /\ worker[w].pc = "idle"
    /\ runningWorkers' = runningWorkers + 1
    /\ worker' = [worker EXCEPT ![w] = [pc |-> "start", task |-> disp.task,
                                        gen |-> disp.gen]]
    /\ disp' = Idle
    /\ UNCHANGED <<lifeVars, queue, setVars, maxWorkers, agentVars, enq,
                   starter>>

DispatchWait ==
    /\ disp.pc \in {"try", "woken"}
    /\ ~HasCapacity
    /\ disp' = [disp EXCEPT !.pc = "blocked"]
    /\ UNCHANGED <<lifeVars, queue, setVars, slotVars, agentVars, enq, worker,
                   starter>>

-----------------------------------------------------------------------------
(* runOne and RunQueuedAgentSync.                                          *)

\* Fault variant: release(taskID) is called at once instead of deferred.
RunCheckReleasing(w) ==
    /\ worker[w].pc = "start"
    /\ worker' = [worker EXCEPT ![w].pc = IF Live(worker[w].gen)
                                          THEN "admit" ELSE "release"]
    /\ active' = active \ {worker[w].task}
    /\ UNCHANGED <<lifeVars, queue, automationActive, slotVars, agentVars, enq,
                   disp, starter>>

RunCheck(w) ==
    /\ worker[w].pc = "start"
    /\ worker' = [worker EXCEPT ![w].pc = IF Live(worker[w].gen)
                                          THEN "admit" ELSE "release"]
    /\ UNCHANGED <<lifeVars, queue, setVars, slotVars, agentVars, enq, disp,
                   starter>>

\* Fault variant: s.active is overwritten instead of tested.
RunAdmitBlindly(w) ==
    /\ worker[w].pc = "admit"
    /\ agentActive' = agentActive \cup {worker[w].task}
    /\ worker' = [worker EXCEPT ![w].pc = "running"]
    /\ Signal
    /\ UNCHANGED <<lifeVars, queue, setVars, slotVars, recovered, orphans,
                   enq, starter>>

\* RunQueuedAgentSync registers the run under s.mu ...
RunAdmit(w) ==
    /\ worker[w].pc = "admit"
    /\ ~HasActiveRun(worker[w].task)
    /\ agentActive' = agentActive \cup {worker[w].task}
    /\ worker' = [worker EXCEPT ![w].pc = "running"]
    /\ Signal
    /\ UNCHANGED <<lifeVars, queue, setVars, slotVars, recovered, orphans,
                   enq, starter>>

\* ... or returns an error: the task is busy, no longer queued, unreadable.
RunReject(w) ==
    /\ worker[w].pc = "admit"
    /\ worker' = [worker EXCEPT ![w].pc = "release"]
    /\ UNCHANGED <<lifeVars, queue, setVars, slotVars, agentVars, enq, disp,
                   starter>>

\* recordTerminal deletes the entry and calls NotifyAgentActiveChanged.
RunFinish(w) ==
    /\ worker[w].pc = "running"
    /\ agentActive' = agentActive \ {worker[w].task}
    /\ Signal
    /\ worker' = [worker EXCEPT ![w].pc = "release"]
    /\ UNCHANGED <<lifeVars, queue, setVars, slotVars, recovered, orphans,
                   enq, starter>>

\* The deferred release(taskID), then the deferred releaseWorkerSlot().
RunRelease(w) ==
    /\ worker[w].pc = "release"
    /\ active' = active \ {worker[w].task}
    /\ worker' = [worker EXCEPT ![w].pc = "return"]
    /\ UNCHANGED <<lifeVars, queue, automationActive, slotVars, agentVars, enq,
                   disp, starter>>

RunReturnSlot(w) ==
    /\ worker[w].pc = "return"
    /\ ReleaseWorkerSlot
    /\ worker' = [worker EXCEPT ![w] = Idle]
    /\ UNCHANGED <<lifeVars, queue, setVars, agentVars, enq, starter>>

-----------------------------------------------------------------------------
(* startAgentRun: TryReserveAutomationRun, the run, ReleaseAutomationRun.  *)

ReserveBegin(s, t) ==
    /\ starter[s].pc = "idle"
    /\ t \notin active
    /\ starter' = [starter EXCEPT ![s] = [pc |-> "hasrun", task |-> t,
                                          extra |-> 0]]
    /\ UNCHANGED <<lifeVars, queue, setVars, slotVars, agentVars, enq, disp,
                   worker>>

ReserveHasRun(s) ==
    /\ starter[s].pc = "hasrun"
    /\ starter' = [starter EXCEPT ![s] =
                     IF HasActiveRun(starter[s].task)
                     THEN IdleStart
                     ELSE [pc |-> "extra", task |-> starter[s].task,
                           extra |-> 0]]
    /\ UNCHANGED <<lifeVars, queue, setVars, slotVars, agentVars, enq, disp,
                   worker>>

\* The count of unreserved runs is taken once and used by both checks below.
ReserveExtra(s) ==
    /\ starter[s].pc = "extra"
    /\ starter' = [starter EXCEPT ![s] =
                     [pc |-> "count", task |-> starter[s].task,
                      extra |-> UnreservedCount]]
    /\ UNCHANGED <<lifeVars, queue, setVars, slotVars, agentVars, enq, disp,
                   worker>>

ReserveCount(s) ==
    /\ starter[s].pc = "count"
    /\ starter' = [starter EXCEPT ![s] =
                     IF Cardinality(active) + starter[s].extra >= maxWorkers
                     THEN IdleStart
                     ELSE [pc |-> "slot", task |-> starter[s].task,
                           extra |-> starter[s].extra]]
    /\ UNCHANGED <<lifeVars, queue, setVars, slotVars, agentVars, enq, disp,
                   worker>>

\* tryAcquireWorkerSlotNow
ReserveSlot(s) ==
    /\ starter[s].pc = "slot"
    /\ IF runningWorkers + starter[s].extra >= maxWorkers
         THEN /\ starter' = [starter EXCEPT ![s] = IdleStart]
              /\ UNCHANGED runningWorkers
         ELSE /\ starter' = [starter EXCEPT ![s] =
                               [pc |-> "insert", task |-> starter[s].task,
                                extra |-> 0]]
              /\ runningWorkers' = runningWorkers + 1
    /\ UNCHANGED <<lifeVars, queue, setVars, maxWorkers, agentVars, enq, disp,
                   worker>>

ReserveInsert(s) ==
    /\ starter[s].pc = "insert"
    /\ starter[s].task \notin active
    /\ Cardinality(active) < maxWorkers
    /\ active' = active \cup {starter[s].task}
    /\ automationActive' = automationActive \cup {starter[s].task}
    /\ starter' = [starter EXCEPT ![s].pc = "register"]
    /\ UNCHANGED <<lifeVars, queue, slotVars, agentVars, enq, disp, worker>>

\* Fault variant: the slot is not given back.
ReserveUndoKeepingSlot(s) ==
    /\ starter[s].pc = "insert"
    /\ starter[s].task \in active \/ Cardinality(active) >= maxWorkers
    /\ starter' = [starter EXCEPT ![s] = IdleStart]
    /\ UNCHANGED <<lifeVars, queue, setVars, slotVars, agentVars, enq, disp,
                   worker>>

ReserveUndo(s) ==
    /\ starter[s].pc = "insert"
    /\ starter[s].task \in active \/ Cardinality(active) >= maxWorkers
    /\ starter' = [starter EXCEPT ![s].pc = "return"]
    /\ UNCHANGED <<lifeVars, queue, setVars, slotVars, agentVars, enq, disp,
                   worker>>

\* Fault variant: s.active is overwritten instead of tested.
DirectRegisterBlindly(s) ==
    /\ starter[s].pc = "register"
    /\ starter' = [starter EXCEPT ![s].pc = "running"]
    /\ agentActive' = agentActive \cup {starter[s].task}
    /\ Signal
    /\ UNCHANGED <<lifeVars, queue, setVars, slotVars, recovered, orphans,
                   enq, worker>>

\* startAgentRun registers the run unless the task is already running.
DirectRegister(s) ==
    /\ starter[s].pc = "register"
    /\ IF HasActiveRun(starter[s].task)
         THEN /\ starter' = [starter EXCEPT ![s].pc = "giveback"]
              /\ UNCHANGED <<agentActive, disp>>
         ELSE /\ starter' = [starter EXCEPT ![s].pc = "running"]
              /\ agentActive' = agentActive \cup {starter[s].task}
              /\ Signal
    /\ UNCHANGED <<lifeVars, queue, setVars, slotVars, recovered, orphans,
                   enq, worker>>

\* Its rollback, or recordTerminal at the end of the run.
DirectEnd(s) ==
    /\ starter[s].pc = "running"
    /\ agentActive' = agentActive \ {starter[s].task}
    /\ Signal
    /\ starter' = [starter EXCEPT ![s].pc = "giveback"]
    /\ UNCHANGED <<lifeVars, queue, setVars, slotVars, recovered, orphans,
                   enq, worker>>

\* ReleaseAutomationRun: only a reservation it still finds gives a slot back.
DirectGiveBack(s) ==
    /\ starter[s].pc = "giveback"
    /\ IF starter[s].task \in automationActive
         THEN /\ automationActive' = automationActive \ {starter[s].task}
              /\ active' = active \ {starter[s].task}
              /\ starter' = [starter EXCEPT ![s].pc = "return"]
         ELSE /\ starter' = [starter EXCEPT ![s] = IdleStart]
              /\ UNCHANGED setVars
    /\ UNCHANGED <<lifeVars, queue, slotVars, agentVars, enq, disp, worker>>

DirectReturnSlot(s) ==
    /\ starter[s].pc = "return"
    /\ ReleaseWorkerSlot
    /\ starter' = [starter EXCEPT ![s] = IdleStart]
    /\ UNCHANGED <<lifeVars, queue, setVars, agentVars, enq, worker>>

-----------------------------------------------------------------------------
(* Recovery adopts the process of an earlier GUI session as a stub entry   *)
(* of s.active that holds no slot (adoptRecoveredRun, removeActiveRun).    *)

AdoptRecovered(t) ==
    /\ activated
    /\ t \in orphans
    /\ ~HasActiveRun(t)
    /\ orphans' = orphans \ {t}
    /\ agentActive' = agentActive \cup {t}
    /\ recovered' = recovered \cup {t}
    /\ Signal
    /\ UNCHANGED <<lifeVars, queue, setVars, slotVars, enq, worker, starter>>

\* Fault variant: removeActiveRun does not notify.
RemoveRecoveredSilently(t) ==
    /\ t \in recovered
    /\ agentActive' = agentActive \ {t}
    /\ recovered' = recovered \ {t}
    /\ UNCHANGED <<lifeVars, queue, setVars, slotVars, orphans, enq, disp,
                   worker, starter>>

RemoveRecovered(t) ==
    /\ t \in recovered
    /\ agentActive' = agentActive \ {t}
    /\ recovered' = recovered \ {t}
    /\ Signal
    /\ UNCHANGED <<lifeVars, queue, setVars, slotVars, orphans, enq, worker,
                   starter>>

-----------------------------------------------------------------------------

Init ==
    /\ lifecycle = "off"
    /\ activated = FALSE
    /\ generation = 0
    /\ cancelledGen = 0
    /\ graceTimer = FALSE
    /\ closing = FALSE
    /\ rootDone = FALSE
    /\ queue = <<>>
    /\ active = {}
    /\ automationActive = {}
    /\ runningWorkers = 0
    /\ maxWorkers \in Limits
    /\ agentActive = {}
    /\ recovered = {}
    /\ orphans \in {S \in SUBSET Tasks : Cardinality(S) <= MaxOrphans}
    /\ enq = [e \in Enqueuers |-> Idle]
    /\ disp = Idle
    /\ worker = [w \in Workers |-> Idle]
    /\ starter = [s \in Starters |-> IdleStart]

Lifecycle == Activate \/ ScheduleScan \/ GraceFires \/ BeginDeactivate
             \/ CancelActivation \/ DrainDone \/ DrainTimeout \/ ResetActive
             \/ RootCancel

EnqueueStep(e) == \/ EnqueueRead(e) \/ EnqueueCheck(e) \/ EnqueueInsert(e)
                  \/ EnqueueSend(e) \/ EnqueueDrop(e)

Dispatch == \/ DispatchTake \/ DispatchContext \/ DispatchDrop \/ DispatchWait
            \/ DispatchExit
            \/ \E w \in Workers : DispatchAcquire(w)

RunStep(w) == \/ RunCheck(w) \/ RunAdmit(w) \/ RunReject(w) \/ RunFinish(w)
              \/ RunRelease(w) \/ RunReturnSlot(w)

StartStep(s) == \/ ReserveHasRun(s) \/ ReserveExtra(s) \/ ReserveCount(s)
                \/ ReserveSlot(s) \/ ReserveInsert(s) \/ ReserveUndo(s)
                \/ DirectRegister(s) \/ DirectEnd(s) \/ DirectGiveBack(s)
                \/ DirectReturnSlot(s)

Next ==
    \/ Lifecycle
    \/ \E n \in Limits : SetMaxWorkers(n)
    \/ \E e \in Enqueuers : \/ EnqueueStep(e)
                            \/ \E t \in Tasks : EnqueueGate(e, t)
    \/ Dispatch
    \/ \E w \in Workers : RunStep(w)
    \/ \E s \in Starters : \/ StartStep(s)
                           \/ \E t \in Tasks : ReserveBegin(s, t)
    \/ \E t \in Tasks : AdoptRecovered(t) \/ RemoveRecovered(t)

Spec == Init /\ [][Next]_vars

\* A goroutine that can run is run; a run ends (the runner's timeout ends
\* one that would not) and the orphan process behind a stub exits.
Fairness ==
    /\ WF_vars(CancelActivation \/ DrainDone \/ DrainTimeout \/ ResetActive)
    /\ WF_vars(Dispatch)
    /\ \A e \in Enqueuers : WF_vars(EnqueueStep(e))
    /\ \A w \in Workers : WF_vars(RunStep(w))
    /\ \A s \in Starters : WF_vars(StartStep(s))
    /\ \A t \in Tasks : WF_vars(RemoveRecovered(t))

FairSpec == Spec /\ Fairness

-----------------------------------------------------------------------------
(* Properties.                                                             *)

QueueItem == [task : Tasks, gen : Nat]

\* The states of a thread with the given program points: it holds a task
\* unless it is at one of the resting points.
Threads(busy, resting) ==
    [pc : busy, task : Tasks, gen : Nat]
    \cup [pc : resting, task : Tasks \cup {NoTask}, gen : Nat]

EnqStates  == Threads({"read", "check", "insert", "send"}, {"idle"})
DispStates == Threads({"context", "try", "blocked", "woken"},
                      {"idle", "exited"})
RunStates  == Threads({"start", "admit", "running", "release", "return"},
                      {"idle"})
StartStates ==
    [pc : {"hasrun", "extra", "count", "slot", "insert", "register", "running",
           "giveback", "return"},
     task : Tasks, extra : Nat]
    \cup {IdleStart}

LifeOK ==
    /\ lifecycle \in {"off", "recover", "on", "cancel", "wait", "reset"}
    /\ activated \in BOOLEAN
    /\ graceTimer \in BOOLEAN
    /\ closing \in BOOLEAN
    /\ rootDone \in BOOLEAN
    /\ generation \in Nat
    /\ cancelledGen \in Nat

SetsOK ==
    /\ active \in SUBSET Tasks
    /\ automationActive \in SUBSET Tasks
    /\ agentActive \in SUBSET Tasks
    /\ recovered \in SUBSET Tasks
    /\ orphans \in SUBSET Tasks

SlotsOK == runningWorkers \in Nat /\ maxWorkers \in Limits

\* Every variable stays in its range, and a thread that works holds a task.
TypeOK ==
    /\ LifeOK
    /\ SetsOK
    /\ SlotsOK
    /\ queue \in Seq(QueueItem)
    /\ enq \in [Enqueuers -> EnqStates]
    /\ disp \in DispStates
    /\ worker \in [Workers -> RunStates]
    /\ starter \in [Starters -> StartStates]

BusyWorkers == {w \in Workers : worker[w].pc # "idle"}

SlotStarters ==
    {s \in Starters : starter[s].pc \in {"insert", "register", "running",
                                         "giveback", "return"}}

HeldSlots == Cardinality(BusyWorkers) + Cardinality(SlotStarters)

\* The slot counter never falls below the number of threads that hold a
\* slot, through any interleaving of runs, reservations, undone reservations
\* and board switches, and it never passes the machine's limit.  So at most
\* MaxLimit runs started by this process execute at once, releaseWorkerSlot
\* never needs its floor, and dispatchOne never starts a run without a slot.
SlotsCoverHolders ==
    /\ HeldSlots <= runningWorkers
    /\ runningWorkers <= MaxLimit

Dispatched(w) == worker[w].pc = "running"
Direct(s)     == starter[s].pc = "running"

\* A task never has two runs: one dispatched, one started directly and one
\* recovered run of a task exclude each other, and s.active lists exactly
\* the tasks that have one.  The queue, the reservation and the recovery
\* check each other without a common lock; only the insertion under s.mu
\* decides.
OneRunPerTask ==
    /\ \A w, v \in Workers :
         Dispatched(w) /\ Dispatched(v) /\ worker[w].task = worker[v].task
           => w = v
    /\ \A s, r \in Starters :
         Direct(s) /\ Direct(r) /\ starter[s].task = starter[r].task => s = r
    /\ \A w \in Workers, s \in Starters :
         Dispatched(w) /\ Direct(s) => worker[w].task # starter[s].task
    /\ \A w \in Workers :
         Dispatched(w) => worker[w].task \in agentActive \ recovered
    /\ \A s \in Starters :
         Direct(s) => starter[s].task \in agentActive \ recovered
    /\ recovered \subseteq agentActive
    /\ \A t \in agentActive \ recovered :
         \/ \E w \in Workers : Dispatched(w) /\ worker[w].task = t
         \/ \E s \in Starters : Direct(s) /\ starter[s].task = t

\* No Deactivate has emptied the active set yet.
FirstBoard == generation = 0 \/ (generation = 1 /\ activated)

\* While the first board is open no slot is lost: every slot that is counted
\* is held by a thread that will give it back.
FirstBoardConservesSlots == FirstBoard => runningWorkers = HeldSlots

\* The places that own an entry of the active set for task t.
SendsOf(t)   == {e \in Enqueuers : enq[e].pc = "send" /\ enq[e].task = t}
QueuedOf(t)  == {i \in DOMAIN queue : queue[i].task = t}
DispHas(t)   == disp.task = t
BusyOn(t)    == {w \in Workers : worker[w].task = t /\ worker[w].pc # "return"}
ReservedOf(t) ==
    {s \in Starters :
        /\ starter[s].task = t
        /\ starter[s].pc \in {"register", "running", "giveback"}}

Owners(t) ==
    Cardinality(SendsOf(t)) + Cardinality(QueuedOf(t))
    + Cardinality(BusyOn(t)) + Cardinality(ReservedOf(t))
    + (IF DispHas(t) THEN 1 ELSE 0)

\* While the first board is open an entry of the active set has exactly one
\* owner, so no release can drop the entry of somebody else, a task is never
\* queued twice, and a reservation is never freed by another run of the task.
FirstBoardOwnsEntries ==
    FirstBoard =>
      \A t \in Tasks :
        /\ Owners(t) = (IF t \in active THEN 1 ELSE 0)
        /\ t \in automationActive <=> ReservedOf(t) # {}

\* The first board's Deactivate does not end its drain while a run that has
\* an entry, dispatched or direct, executes or is about to; and no run of the
\* dispatcher begins from there until the maps are replaced.  A direct start
\* that reserves in between and adopted runs, which have no entry, go on.
FirstDrainWaitsForRuns ==
    [][generation = 1 /\ lifecycle' = "reset" =>
         /\ \A w \in Workers : worker'[w].pc \in {"idle", "return"}
         /\ lifecycle # "reset" => \A t \in Tasks : ReservedOf(t) = {}]_vars

\* Queued work is not starved: with every thread fair and runs that end, an
\* item leaves the queue and the dispatcher's hand, run or dropped, however
\* often the user and the coordinators start runs of their own and whatever
\* SetMaxWorkers does meanwhile.  The wake-ups of the waiting dispatcher come
\* from four different places.  Close abandons what is left.
QueueDrains ==
    \A t \in Tasks : []<>((QueuedOf(t) = {} /\ ~DispHas(t)) \/ rootDone)

\* What the daemon promises its callers, in terms of RunPool: the runs this
\* process executes, whatever path started them, and the adopted ones.
OwnRuns == {worker[w].task : w \in {v \in Workers : Dispatched(v)}}
           \cup {starter[s].task : s \in {r \in Starters : Direct(r)}}

Pool == INSTANCE RunPool WITH own <- OwnRuns, adopted <- recovered

\* The queue, the slots, the reservations and the generations implement the
\* pool: a run starts only for a task without one and within the limit.
ImplementsPool == Pool!Spec

=============================================================================
