---------------------------- MODULE DaemonProofs ----------------------------
(* Theorems about Daemon, for every value of its constants.                *)
EXTENDS Daemon, FiniteSetTheorems, SequenceTheorems, TLAPS

-----------------------------------------------------------------------------
(* Type correctness.                                                       *)

LEMMA IdleStates ==
    /\ Idle \in EnqStates /\ Idle \in DispStates /\ Idle \in RunStates
    /\ IdleStart \in StartStates
BY DEF Idle, IdleStart, EnqStates, DispStates, RunStates, StartStates, Threads

LEMMA TypeLifecycle == TypeOK /\ Lifecycle => TypeOK'
<1> SUFFICES ASSUME TypeOK, Lifecycle PROVE TypeOK'
  OBVIOUS
<1> USE DEF Lifecycle, Activate, ScheduleScan, GraceFires, BeginDeactivate,
      CancelActivation, DrainDone, DrainTimeout, ResetActive, RootCancel
<1>1. UNCHANGED <<queue, slotVars, agentVars, enq, disp, worker, starter>>
  OBVIOUS
<1>2. /\ activated' \in BOOLEAN /\ graceTimer' \in BOOLEAN
      /\ closing' \in BOOLEAN /\ rootDone' \in BOOLEAN
  BY Zenon DEF TypeOK, LifeOK
<1>3. /\ lifecycle' \in {"off", "recover", "on", "cancel", "wait",
                         "reset"}
      /\ generation' \in Nat /\ cancelledGen' \in Nat
  BY DEF TypeOK, LifeOK
<1>4. active' \in SUBSET Tasks /\ automationActive' \in SUBSET Tasks
  BY DEF TypeOK, SetsOK, setVars
<1> QED
  BY <1>1, <1>2, <1>3, <1>4 DEF TypeOK, LifeOK, SetsOK, SlotsOK, slotVars,
     agentVars

\* What Signal may do to the dispatcher.
LEMMA SignalType == disp \in DispStates /\ Signal => disp' \in DispStates
BY DEF Signal, DispStates, Threads

LEMMA TypeEnqueue ==
    ASSUME TypeOK, NEW e \in Enqueuers,
           EnqueueStep(e) \/ \E t \in Tasks : EnqueueGate(e, t)
    PROVE  TypeOK'
<1> USE DEF EnqueueStep, EnqueueGate, EnqueueRead, EnqueueCheck,
      EnqueueInsert, EnqueueSend, EnqueueDrop
<1>1. UNCHANGED <<lifeVars, automationActive, slotVars, agentVars, disp,
                  worker, starter>>
  BY DEF setVars
<1>2. enq' \in [Enqueuers -> EnqStates]
  BY IdleStates DEF TypeOK, LifeOK, EnqStates, Threads
<1>3. active' \in SUBSET Tasks
  BY DEF TypeOK, SetsOK, setVars, EnqStates, Threads
<1>4. queue' \in Seq(QueueItem)
  <2>1. EnqueueSend(e) =>
          [task |-> enq[e].task, gen |-> enq[e].gen] \in QueueItem
    BY DEF TypeOK, EnqStates, Threads, QueueItem
  <2>2. CASE EnqueueSend(e)
    BY <2>1, <2>2, AppendProperties DEF TypeOK
  <2> QED
    BY <2>2 DEF TypeOK
<1> QED
  BY <1>1, <1>2, <1>3, <1>4 DEF TypeOK, LifeOK, SetsOK, SlotsOK, slotVars,
     agentVars, lifeVars

LEMMA TypeDispatch == TypeOK /\ Dispatch => TypeOK'
<1> SUFFICES ASSUME TypeOK, Dispatch PROVE TypeOK'
  OBVIOUS
<1> USE DEF Dispatch, DispatchTake, DispatchExit, DispatchContext,
      DispatchDrop, DispatchWait, DispatchAcquire
<1>1. UNCHANGED <<lifeVars, automationActive, agentVars, enq, starter,
                  maxWorkers>>
  BY DEF setVars, slotVars
<1>2. queue' \in Seq(QueueItem) /\ (queue # <<>> => Head(queue) \in QueueItem)
  BY HeadTailProperties DEF TypeOK
<1>3. disp' \in DispStates
  BY <1>2, IdleStates DEF TypeOK, DispStates, Threads, QueueItem
<1>4. active' \in SUBSET Tasks /\ runningWorkers' \in Nat
  BY DEF TypeOK, SetsOK, SlotsOK, slotVars, setVars
<1>5. worker' \in [Workers -> RunStates]
  BY DEF TypeOK, DispStates, RunStates, Threads
<1> QED
  BY <1>1, <1>2, <1>3, <1>4, <1>5 DEF TypeOK, LifeOK, SetsOK, SlotsOK,
     agentVars, lifeVars

LEMMA TypeRun ==
    ASSUME TypeOK, NEW w \in Workers, RunStep(w)
    PROVE  TypeOK'
<1> USE DEF RunStep, RunCheck, RunAdmit, RunReject, RunFinish, RunRelease,
      RunReturnSlot
<1>1. UNCHANGED <<lifeVars, queue, automationActive, maxWorkers, recovered,
                  orphans, enq, starter>>
  BY DEF setVars, slotVars, agentVars, ReleaseWorkerSlot
<1>2. worker' \in [Workers -> RunStates]
  BY IdleStates DEF TypeOK, RunStates, Threads
<1>3. active' \in SUBSET Tasks /\ agentActive' \in SUBSET Tasks
  BY DEF TypeOK, SetsOK, setVars, agentVars, RunStates, Threads
<1>4. runningWorkers' \in Nat
  BY DEF TypeOK, SlotsOK, slotVars, ReleaseWorkerSlot
<1>5. disp' \in DispStates
  BY SignalType DEF TypeOK, ReleaseWorkerSlot
<1> QED
  BY <1>1, <1>2, <1>3, <1>4, <1>5 DEF TypeOK, LifeOK, SetsOK, SlotsOK, lifeVars

LEMMA UnreservedType == TypeOK => UnreservedCount \in Nat
<1>1. TypeOK => agentActive \ active \in SUBSET Tasks
  BY DEF TypeOK, SetsOK
<1> QED
  BY <1>1, DaemonAssumption, FS_Subset, FS_CardinalityType
  DEF UnreservedCount

LEMMA TypeStarter ==
    ASSUME TypeOK, NEW s \in Starters,
           StartStep(s) \/ \E t \in Tasks : ReserveBegin(s, t)
    PROVE  starter' \in [Starters -> StartStates]
<1> USE DEF TypeOK
<1>1. starter[s].pc # "idle" =>
        starter[s].task \in Tasks /\ starter[s].extra \in Nat
  BY DEF StartStates, IdleStart
<1>2. ASSUME NEW t \in Tasks, ReserveBegin(s, t)
      PROVE  starter' \in [Starters -> StartStates]
  BY <1>2 DEF ReserveBegin, StartStates
<1>3. CASE ReserveHasRun(s)
  BY <1>1, <1>3 DEF ReserveHasRun, StartStates
<1>4. CASE ReserveExtra(s) \/ ReserveCount(s)
  BY <1>1, <1>4, UnreservedType DEF ReserveExtra, ReserveCount, StartStates
<1>5. CASE ReserveSlot(s)
  BY <1>1, <1>5 DEF ReserveSlot, StartStates
<1>6. CASE ReserveInsert(s) \/ ReserveUndo(s)
  BY <1>1, <1>6 DEF ReserveInsert, ReserveUndo, StartStates, IdleStart
<1>7. CASE DirectRegister(s) \/ DirectEnd(s)
  BY <1>1, <1>7 DEF DirectRegister, DirectEnd, StartStates, IdleStart
<1>8. CASE DirectGiveBack(s) \/ DirectReturnSlot(s)
  BY <1>1, <1>8 DEF DirectGiveBack, DirectReturnSlot, StartStates, IdleStart
<1> QED
  BY <1>2, <1>3, <1>4, <1>5, <1>6, <1>7, <1>8 DEF StartStep

LEMMA TypeStart ==
    ASSUME TypeOK, NEW s \in Starters,
           StartStep(s) \/ \E t \in Tasks : ReserveBegin(s, t)
    PROVE  TypeOK'
<1>1. starter' \in [Starters -> StartStates]
  BY TypeStarter
<1> USE DEF StartStep, ReserveBegin, ReserveHasRun, ReserveExtra,
      ReserveCount, ReserveSlot,
      ReserveInsert, ReserveUndo, DirectRegister, DirectEnd, DirectGiveBack,
      DirectReturnSlot
<1>2. UNCHANGED <<lifeVars, queue, maxWorkers, recovered, orphans, enq,
                  worker>>
  BY DEF slotVars, agentVars, ReleaseWorkerSlot
<1>3. active' \in SUBSET Tasks /\ automationActive' \in SUBSET Tasks
      /\ agentActive' \in SUBSET Tasks
  BY DEF TypeOK, SetsOK, setVars, agentVars, StartStates, IdleStart
<1>4. runningWorkers' \in Nat
  BY DEF TypeOK, SlotsOK, slotVars, ReleaseWorkerSlot
<1>5. disp' \in DispStates
  BY SignalType DEF TypeOK, ReleaseWorkerSlot
<1> QED
  BY <1>1, <1>2, <1>3, <1>4, <1>5 DEF TypeOK, LifeOK, SetsOK, SlotsOK, lifeVars

LEMMA TypeOther ==
    ASSUME TypeOK,
           \/ \E n \in Limits : SetMaxWorkers(n)
           \/ \E t \in Tasks : AdoptRecovered(t) \/ RemoveRecovered(t)
    PROVE  TypeOK'
<1> USE DEF SetMaxWorkers, AdoptRecovered, RemoveRecovered
<1>1. UNCHANGED <<lifeVars, queue, setVars, runningWorkers, enq, worker,
                  starter>>
  BY DEF slotVars
<1>2. disp' \in DispStates
  BY SignalType DEF TypeOK
<1>3. maxWorkers' \in Limits /\ recovered' \in SUBSET Tasks
      /\ agentActive' \in SUBSET Tasks /\ orphans' \in SUBSET Tasks
  BY DEF TypeOK, SlotsOK, SetsOK, slotVars, agentVars
<1> QED
  BY <1>1, <1>2, <1>3 DEF TypeOK, LifeOK, SetsOK, SlotsOK, lifeVars, setVars

\* Every variable of the daemon stays in its range, and a thread that works
\* holds a task id (the state of daemon.go, under every interleaving).
THEOREM TypeCorrect == Spec => []TypeOK
<1>1. Init => TypeOK
  <2> SUFFICES ASSUME Init PROVE TypeOK
    OBVIOUS
  <2>1. LifeOK
    BY DEF Init, LifeOK
  <2>2. SetsOK /\ SlotsOK
    BY DEF Init, SetsOK, SlotsOK
  <2>3. queue \in Seq(QueueItem)
    BY DEF Init
  <2> QED
    BY <2>1, <2>2, <2>3, IdleStates DEF Init, TypeOK
<1>2. TypeOK /\ UNCHANGED vars => TypeOK'
  BY DEF TypeOK, LifeOK, SetsOK, SlotsOK, vars, lifeVars, setVars, slotVars,
     agentVars
<1>3. TypeOK /\ [Next]_vars => TypeOK'
  <2> SUFFICES ASSUME TypeOK, Next PROVE TypeOK'
    BY <1>2
  <2> QED
    BY TypeLifecycle, TypeEnqueue, TypeDispatch, TypeRun,
       TypeStart, TypeOther
    DEF Next
<1> QED
  BY <1>1, <1>3, PTL DEF Spec

-----------------------------------------------------------------------------
(* A task never has two runs.                                              *)

\* The steps that touch neither a run nor the list of runs.
LEMMA RunsUntouched ==
    ASSUME OneRunPerTask,
           UNCHANGED <<agentActive, recovered>>,
           \A w \in Workers : \/ worker'[w] = worker[w]
                              \/ ~Dispatched(w) /\ ~Dispatched(w)',
           \A s \in Starters : \/ starter'[s] = starter[s]
                               \/ ~Direct(s) /\ ~Direct(s)'
    PROVE  OneRunPerTask'
BY DEF OneRunPerTask, Dispatched, Direct

LEMMA OneRunDispatch ==
    ASSUME TypeOK, OneRunPerTask, Dispatch
    PROVE  OneRunPerTask'
<1>1. UNCHANGED <<agentActive, recovered, starter>>
  BY DEF Dispatch, DispatchTake, DispatchExit, DispatchContext, DispatchDrop,
     DispatchWait, DispatchAcquire, agentVars
<1>2. \A w \in Workers : \/ worker'[w] = worker[w]
                         \/ ~Dispatched(w) /\ ~Dispatched(w)'
  BY DEF TypeOK, Dispatch, DispatchTake, DispatchExit, DispatchContext,
     DispatchDrop, DispatchWait, DispatchAcquire, Dispatched
<1> QED
  BY <1>1, <1>2, RunsUntouched

LEMMA OneRunRun ==
    ASSUME TypeOK, OneRunPerTask, NEW w \in Workers, RunStep(w)
    PROVE  OneRunPerTask'
<1>1. CASE RunCheck(w) \/ RunReject(w) \/ RunRelease(w) \/ RunReturnSlot(w)
  <2>1. UNCHANGED <<agentActive, recovered, starter>>
    BY <1>1 DEF RunCheck, RunReject, RunRelease, RunReturnSlot, agentVars
  <2>2. \A v \in Workers : \/ worker'[v] = worker[v]
                           \/ ~Dispatched(v) /\ ~Dispatched(v)'
    <3>1. \A v \in Workers \ {w} : worker'[v] = worker[v]
      BY <1>1 DEF TypeOK, RunCheck, RunReject, RunRelease, RunReturnSlot
    <3>2. worker[w].pc # "running" /\ worker'[w].pc # "running"
      BY <1>1 DEF TypeOK, RunStates, Threads, RunCheck, RunReject, RunRelease,
         RunReturnSlot, Idle
    <3> QED
      BY <3>1, <3>2 DEF Dispatched
  <2> QED
    BY <2>1, <2>2, RunsUntouched
<1>2. CASE RunAdmit(w)
  BY <1>2 DEF TypeOK, RunStates, Threads, RunAdmit, HasActiveRun,
     OneRunPerTask, Dispatched, Direct
<1>3. CASE RunFinish(w)
  BY <1>3 DEF TypeOK, RunStates, Threads, RunFinish, OneRunPerTask,
     Dispatched, Direct
<1> QED
  BY <1>1, <1>2, <1>3 DEF RunStep

LEMMA OneRunStart ==
    ASSUME TypeOK, OneRunPerTask, NEW s \in Starters,
           StartStep(s) \/ \E t \in Tasks : ReserveBegin(s, t)
    PROVE  OneRunPerTask'
<1>1. CASE \/ \E t \in Tasks : ReserveBegin(s, t)
           \/ ReserveHasRun(s) \/ ReserveExtra(s)
           \/ ReserveCount(s) \/ ReserveSlot(s)
           \/ ReserveInsert(s) \/ ReserveUndo(s)
           \/ DirectGiveBack(s) \/ DirectReturnSlot(s)
  <2> USE DEF ReserveBegin, ReserveHasRun, ReserveExtra,
        ReserveCount, ReserveSlot,
        ReserveInsert, ReserveUndo, DirectGiveBack, DirectReturnSlot
  <2>1. UNCHANGED <<agentActive, recovered, worker>>
    BY <1>1 DEF agentVars
  <2>2. \A r \in Starters : \/ starter'[r] = starter[r]
                            \/ ~Direct(r) /\ ~Direct(r)'
    <3>1. \A r \in Starters \ {s} : starter'[r] = starter[r]
      BY <1>1 DEF TypeOK
    <3>2. starter[s].pc # "running" /\ starter'[s].pc # "running"
      BY <1>1 DEF TypeOK, StartStates, IdleStart
    <3> QED
      BY <3>1, <3>2 DEF Direct
  <2> QED
    BY <2>1, <2>2, RunsUntouched
<1>2. CASE DirectRegister(s)
  <2>1. \A r \in Starters \ {s} : starter'[r] = starter[r]
    BY <1>2 DEF DirectRegister, TypeOK
  <2>2. UNCHANGED <<worker, recovered>>
    BY <1>2 DEF DirectRegister
  <2>3. CASE HasActiveRun(starter[s].task)
    <3>1. ~Direct(s) /\ ~Direct(s)' /\ UNCHANGED agentActive
      BY <1>2, <2>3 DEF DirectRegister, Direct, TypeOK, StartStates, IdleStart
    <3> QED
      BY <2>1, <2>2, <3>1, RunsUntouched
  <2>4. CASE ~HasActiveRun(starter[s].task)
    <3>1. /\ starter'[s].task = starter[s].task
          /\ starter'[s].pc = "running"
          /\ agentActive' = agentActive \cup {starter[s].task}
          /\ starter[s].task \notin agentActive
      BY <1>2, <2>4 DEF DirectRegister, HasActiveRun, TypeOK, StartStates,
         IdleStart
    <3> QED
      BY <2>1, <2>2, <3>1 DEF OneRunPerTask, Dispatched, Direct
  <2> QED
    BY <2>3, <2>4
<1>3. CASE DirectEnd(s)
  BY <1>3 DEF TypeOK, DirectEnd, OneRunPerTask, Dispatched, Direct
<1> QED
  BY <1>1, <1>2, <1>3 DEF StartStep

LEMMA OneRunOther ==
    ASSUME TypeOK, OneRunPerTask,
           \/ Lifecycle
           \/ \E n \in Limits : SetMaxWorkers(n)
           \/ \E e \in Enqueuers : \/ EnqueueStep(e)
                                   \/ \E t \in Tasks : EnqueueGate(e, t)
           \/ \E t \in Tasks : AdoptRecovered(t) \/ RemoveRecovered(t)
    PROVE  OneRunPerTask'
<1>1. CASE Lifecycle
  <2>1. UNCHANGED <<agentActive, recovered, worker, starter>>
    BY <1>1 DEF Lifecycle, Activate, ScheduleScan, GraceFires, BeginDeactivate,
       CancelActivation, DrainDone, DrainTimeout, ResetActive, RootCancel,
       agentVars
  <2> QED
    BY <2>1, RunsUntouched
<1>2. CASE \E n \in Limits : SetMaxWorkers(n)
  BY <1>2, RunsUntouched DEF SetMaxWorkers, agentVars
<1>3. CASE \E e \in Enqueuers : \/ EnqueueStep(e)
                                \/ \E t \in Tasks : EnqueueGate(e, t)
  <2>1. UNCHANGED <<agentActive, recovered, worker, starter>>
    BY <1>3 DEF EnqueueStep, EnqueueGate, EnqueueRead, EnqueueCheck,
       EnqueueInsert, EnqueueSend, EnqueueDrop, agentVars
  <2> QED
    BY <2>1, RunsUntouched
<1>4. CASE \E t \in Tasks : AdoptRecovered(t)
  BY <1>4 DEF AdoptRecovered, HasActiveRun, OneRunPerTask, Dispatched, Direct
<1>5. CASE \E t \in Tasks : RemoveRecovered(t)
  BY <1>5 DEF RemoveRecovered, OneRunPerTask, Dispatched, Direct
<1> QED
  BY <1>1, <1>2, <1>3, <1>4, <1>5

\* A task never has two runs, whichever of the queue, the direct start and
\* the recovery started them, and s.active lists exactly the tasks with one.
THEOREM NoSecondRun == Spec => []OneRunPerTask
<1>1. Init => OneRunPerTask
  BY DEF Init, OneRunPerTask, Dispatched, Direct, Idle, IdleStart
<1>2. TypeOK /\ OneRunPerTask /\ UNCHANGED vars => OneRunPerTask'
  BY RunsUntouched DEF vars, agentVars
<1>3. TypeOK /\ OneRunPerTask /\ [Next]_vars => OneRunPerTask'
  <2> SUFFICES ASSUME TypeOK, OneRunPerTask, Next PROVE OneRunPerTask'
    BY <1>2
  <2> QED
    BY OneRunDispatch, OneRunRun, OneRunStart, OneRunOther DEF Next
<1> QED
  BY <1>1, <1>3, TypeCorrect, PTL DEF Spec

-----------------------------------------------------------------------------
(* The slot counter covers the threads that hold a slot.                   *)

LEMMA HoldersFinite ==
    /\ IsFiniteSet(BusyWorkers) /\ Cardinality(BusyWorkers) \in Nat
    /\ IsFiniteSet(BusyWorkers') /\ Cardinality(BusyWorkers') \in Nat
    /\ IsFiniteSet(SlotStarters) /\ Cardinality(SlotStarters) \in Nat
    /\ IsFiniteSet(SlotStarters') /\ Cardinality(SlotStarters') \in Nat
<1>1. /\ BusyWorkers \subseteq Workers /\ BusyWorkers' \subseteq Workers
      /\ SlotStarters \subseteq Starters /\ SlotStarters' \subseteq Starters
  BY DEF BusyWorkers, SlotStarters
<1> QED
  BY <1>1, DaemonAssumption, FS_Subset, FS_CardinalityType

\* A step that takes no slot and leaves the counter alone.
LEMMA SlotsKept ==
    ASSUME SlotsCoverHolders, TypeOK, UNCHANGED runningWorkers,
           BusyWorkers' \subseteq BusyWorkers,
           SlotStarters' \subseteq SlotStarters
    PROVE  SlotsCoverHolders'
<1>1. /\ Cardinality(BusyWorkers') <= Cardinality(BusyWorkers)
      /\ Cardinality(SlotStarters') <= Cardinality(SlotStarters)
  BY HoldersFinite, FS_Subset
<1> QED
  BY <1>1, HoldersFinite, DaemonAssumption
  DEF SlotsCoverHolders, HeldSlots, TypeOK, SlotsOK

\* A step by which one thread takes the slot that the counter adds.
LEMMA SlotTaken ==
    ASSUME SlotsCoverHolders, TypeOK, NEW x,
           runningWorkers' = runningWorkers + 1, runningWorkers < MaxLimit,
           \/ /\ BusyWorkers' = BusyWorkers \cup {x}
              /\ SlotStarters' = SlotStarters
           \/ /\ BusyWorkers' = BusyWorkers
              /\ SlotStarters' = SlotStarters \cup {x}
    PROVE  SlotsCoverHolders'
<1>1. /\ Cardinality(BusyWorkers \cup {x}) <= Cardinality(BusyWorkers) + 1
      /\ Cardinality(SlotStarters \cup {x}) <= Cardinality(SlotStarters) + 1
  <2>1. ASSUME NEW S, IsFiniteSet(S)
        PROVE  Cardinality(S \cup {x}) <= Cardinality(S) + 1
    <3>1. Cardinality(S) \in Nat
      BY <2>1, FS_CardinalityType
    <3>2. \/ Cardinality(S \cup {x}) = Cardinality(S)
          \/ Cardinality(S \cup {x}) = Cardinality(S) + 1
      BY <2>1, FS_AddElement
    <3> QED
      BY <3>1, <3>2
  <2> QED
    BY <2>1, HoldersFinite
<1>2. HeldSlots' <= HeldSlots + 1 /\ HeldSlots \in Nat /\ HeldSlots' \in Nat
  <2>1. HeldSlots \in Nat /\ HeldSlots' \in Nat
    BY HoldersFinite DEF HeldSlots
  <2>2. CASE BusyWorkers' = BusyWorkers \cup {x}
             /\ SlotStarters' = SlotStarters
    BY <1>1, <2>1, <2>2, HoldersFinite DEF HeldSlots
  <2>3. CASE SlotStarters' = SlotStarters \cup {x}
             /\ BusyWorkers' = BusyWorkers
    BY <1>1, <2>1, <2>3, HoldersFinite DEF HeldSlots
  <2> QED
    BY <2>1, <2>2, <2>3
<1> QED
  BY <1>2, DaemonAssumption DEF SlotsCoverHolders, TypeOK, SlotsOK

\* A step by which the holder x gives its slot back.
LEMMA SlotReturned ==
    ASSUME SlotsCoverHolders, TypeOK, ReleaseWorkerSlot, NEW x,
           \/ /\ x \in BusyWorkers
              /\ BusyWorkers' = BusyWorkers \ {x}
              /\ SlotStarters' = SlotStarters
           \/ /\ x \in SlotStarters
              /\ BusyWorkers' = BusyWorkers
              /\ SlotStarters' = SlotStarters \ {x}
    PROVE  SlotsCoverHolders'
<1>1. /\ x \in BusyWorkers =>
           Cardinality(BusyWorkers \ {x}) = Cardinality(BusyWorkers) - 1
      /\ x \in SlotStarters =>
           Cardinality(SlotStarters \ {x}) = Cardinality(SlotStarters) - 1
  BY HoldersFinite, FS_RemoveElement
<1>2. HeldSlots' = HeldSlots - 1 /\ HeldSlots \in Nat /\ HeldSlots' \in Nat
  <2>1. HeldSlots \in Nat /\ HeldSlots' \in Nat
    BY HoldersFinite DEF HeldSlots
  <2>2. CASE x \in BusyWorkers /\ BusyWorkers' = BusyWorkers \ {x}
             /\ SlotStarters' = SlotStarters
    BY <1>1, <2>1, <2>2, HoldersFinite DEF HeldSlots
  <2>3. CASE x \in SlotStarters /\ SlotStarters' = SlotStarters \ {x}
             /\ BusyWorkers' = BusyWorkers
    BY <1>1, <2>1, <2>3, HoldersFinite DEF HeldSlots
  <2> QED
    BY <2>1, <2>2, <2>3
<1> QED
  BY <1>2, DaemonAssumption
  DEF SlotsCoverHolders, ReleaseWorkerSlot, TypeOK, SlotsOK

LEMMA SlotsDispatch ==
    ASSUME TypeOK, SlotsCoverHolders, Dispatch
    PROVE  SlotsCoverHolders'
<1>1. CASE \E w \in Workers : DispatchAcquire(w)
  <2> PICK w \in Workers : DispatchAcquire(w)
    BY <1>1
  <2>1. BusyWorkers' = BusyWorkers \cup {w}
    BY DEF BusyWorkers, DispatchAcquire, TypeOK
  <2>2. SlotStarters' = SlotStarters
    BY DEF SlotStarters, DispatchAcquire
  <2>3. runningWorkers < MaxLimit
    BY UnreservedType, DaemonAssumption
    DEF DispatchAcquire, HasCapacity, TypeOK, SlotsOK
  <2>4. runningWorkers' = runningWorkers + 1
    BY DEF DispatchAcquire
  <2> QED
    BY <2>1, <2>2, <2>3, <2>4, SlotTaken
<1>2. CASE ~\E w \in Workers : DispatchAcquire(w)
  <2>1. UNCHANGED <<runningWorkers, worker, starter>>
    BY <1>2 DEF Dispatch, DispatchTake, DispatchExit, DispatchContext,
       DispatchDrop, DispatchWait, slotVars
  <2> QED
    BY <2>1, SlotsKept DEF BusyWorkers, SlotStarters
<1> QED
  BY <1>1, <1>2

LEMMA SlotsRun ==
    ASSUME TypeOK, SlotsCoverHolders, NEW w \in Workers, RunStep(w)
    PROVE  SlotsCoverHolders'
<1>1. SlotStarters' = SlotStarters
  BY DEF SlotStarters, RunStep, RunCheck, RunAdmit, RunReject, RunFinish,
     RunRelease, RunReturnSlot
<1>2. CASE RunReturnSlot(w)
  <2>1. w \in BusyWorkers /\ BusyWorkers' = BusyWorkers \ {w}
    BY <1>2 DEF BusyWorkers, RunReturnSlot, TypeOK, Idle
  <2> QED
    BY <1>1, <1>2, <2>1, SlotReturned DEF RunReturnSlot
<1>3. CASE \/ RunCheck(w) \/ RunAdmit(w) \/ RunReject(w) \/ RunFinish(w)
           \/ RunRelease(w)
  <2>1. UNCHANGED runningWorkers
    BY <1>3 DEF RunCheck, RunAdmit, RunReject, RunFinish, RunRelease, slotVars
  <2>2. /\ worker[w].pc # "idle"
        /\ \A v \in Workers \ {w} : worker'[v] = worker[v]
    BY <1>3 DEF TypeOK, RunCheck, RunAdmit, RunReject, RunFinish, RunRelease
  <2>3. BusyWorkers' \subseteq BusyWorkers
    BY <2>2 DEF BusyWorkers
  <2> QED
    BY <1>1, <2>1, <2>3, SlotsKept
<1> QED
  BY <1>2, <1>3 DEF RunStep

LEMMA SlotsStart ==
    ASSUME TypeOK, SlotsCoverHolders, NEW s \in Starters,
           StartStep(s) \/ \E t \in Tasks : ReserveBegin(s, t)
    PROVE  SlotsCoverHolders'
<1> DEFINE Holding == {"insert", "register", "running", "giveback", "return"}
<1>1. BusyWorkers' = BusyWorkers
  BY DEF BusyWorkers, StartStep, ReserveBegin, ReserveHasRun, ReserveExtra,
     ReserveCount,
     ReserveSlot, ReserveInsert, ReserveUndo, DirectRegister, DirectEnd,
     DirectGiveBack, DirectReturnSlot
<1>2. \A r \in Starters \ {s} : starter'[r] = starter[r]
  BY DEF TypeOK, StartStep, ReserveBegin, ReserveHasRun, ReserveExtra,
     ReserveCount,
     ReserveSlot, ReserveInsert, ReserveUndo, DirectRegister, DirectEnd,
     DirectGiveBack, DirectReturnSlot
<1>3. CASE ReserveSlot(s) /\ runningWorkers + starter[s].extra < maxWorkers
  <2>0. starter'[s].pc = "insert"
    BY <1>3, DaemonAssumption
    DEF ReserveSlot, TypeOK, SlotsOK, StartStates, IdleStart
  <2>1. SlotStarters' = SlotStarters \cup {s}
    BY <1>2, <2>0 DEF SlotStarters
  <2>2. runningWorkers < MaxLimit /\ runningWorkers' = runningWorkers + 1
    BY <1>3, DaemonAssumption
    DEF ReserveSlot, TypeOK, SlotsOK, StartStates, IdleStart
  <2> QED
    BY <1>1, <2>1, <2>2, SlotTaken
<1>4. CASE DirectReturnSlot(s)
  <2>1. s \in SlotStarters /\ SlotStarters' = SlotStarters \ {s}
    BY <1>2, <1>4 DEF SlotStarters, DirectReturnSlot, TypeOK, IdleStart
  <2> QED
    BY <1>1, <1>4, <2>1, SlotReturned DEF DirectReturnSlot
<1>5. CASE \/ ReserveSlot(s) /\ runningWorkers + starter[s].extra >= maxWorkers
           \/ \E t \in Tasks : ReserveBegin(s, t)
           \/ ReserveHasRun(s) \/ ReserveExtra(s) \/ ReserveCount(s)
  <2>1. UNCHANGED runningWorkers
    BY <1>5 DEF ReserveSlot, ReserveBegin, ReserveHasRun, ReserveExtra,
       ReserveCount,
       slotVars
  <2>2. starter'[s].pc \notin Holding
    BY <1>5 DEF ReserveSlot, ReserveBegin, ReserveHasRun, ReserveExtra,
       ReserveCount,
       TypeOK, IdleStart
  <2>3. SlotStarters' \subseteq SlotStarters
    BY <1>2, <2>2 DEF SlotStarters
  <2> QED
    BY <1>1, <2>1, <2>3, SlotsKept
<1>6. CASE \/ ReserveInsert(s) \/ ReserveUndo(s) \/ DirectRegister(s)
           \/ DirectEnd(s) \/ DirectGiveBack(s)
  <2>1. UNCHANGED runningWorkers /\ starter[s].pc \in Holding
    BY <1>6 DEF ReserveInsert, ReserveUndo, DirectRegister, DirectEnd,
       DirectGiveBack, slotVars
  <2>2. SlotStarters' \subseteq SlotStarters
    BY <1>2, <2>1 DEF SlotStarters
  <2> QED
    BY <1>1, <2>1, <2>2, SlotsKept
<1>7. starter[s].pc = "slot" => starter[s].extra \in Nat
  BY DEF TypeOK, StartStates, IdleStart
<1>8. ReserveSlot(s) => \/ runningWorkers + starter[s].extra < maxWorkers
                        \/ runningWorkers + starter[s].extra >= maxWorkers
  BY <1>7, DaemonAssumption DEF ReserveSlot, TypeOK, SlotsOK
<1> QED
  BY <1>3, <1>4, <1>5, <1>6, <1>8 DEF StartStep

LEMMA SlotsOther ==
    ASSUME TypeOK, SlotsCoverHolders,
           \/ Lifecycle
           \/ \E n \in Limits : SetMaxWorkers(n)
           \/ \E e \in Enqueuers : \/ EnqueueStep(e)
                                   \/ \E t \in Tasks : EnqueueGate(e, t)
           \/ \E t \in Tasks : AdoptRecovered(t) \/ RemoveRecovered(t)
    PROVE  SlotsCoverHolders'
<1>1. UNCHANGED <<runningWorkers, worker, starter>>
  <2>1. CASE Lifecycle
    BY <2>1 DEF Lifecycle, Activate, ScheduleScan, GraceFires, BeginDeactivate,
       CancelActivation, DrainDone, DrainTimeout, ResetActive, RootCancel,
       slotVars
  <2>2. CASE \E e \in Enqueuers : \/ EnqueueStep(e)
                                  \/ \E t \in Tasks : EnqueueGate(e, t)
    BY <2>2 DEF EnqueueStep, EnqueueGate, EnqueueRead, EnqueueCheck,
       EnqueueInsert, EnqueueSend, EnqueueDrop, slotVars
  <2> QED
    BY <2>1, <2>2 DEF SetMaxWorkers, AdoptRecovered, RemoveRecovered, slotVars
<1> QED
  BY <1>1, SlotsKept DEF BusyWorkers, SlotStarters

\* The slot counter covers every thread that holds a slot and stays within
\* runtime.NumCPU(): the counter of daemon.go never loses a holder, through
\* any interleaving of dispatches, reservations and board switches.
THEOREM SlotsCovered == Spec => []SlotsCoverHolders
<1>1. Init => SlotsCoverHolders
  <2> SUFFICES ASSUME Init PROVE SlotsCoverHolders
    OBVIOUS
  <2>1. BusyWorkers = {} /\ SlotStarters = {}
    BY DEF Init, BusyWorkers, SlotStarters, Idle, IdleStart
  <2> QED
    BY <2>1, FS_EmptySet, DaemonAssumption
    DEF Init, SlotsCoverHolders, HeldSlots
<1>2. TypeOK /\ SlotsCoverHolders /\ UNCHANGED vars => SlotsCoverHolders'
  BY SlotsKept DEF vars, slotVars, BusyWorkers, SlotStarters
<1>3. TypeOK /\ SlotsCoverHolders /\ [Next]_vars => SlotsCoverHolders'
  <2> SUFFICES ASSUME TypeOK, SlotsCoverHolders, Next
               PROVE  SlotsCoverHolders'
    BY <1>2
  <2> QED
    BY SlotsDispatch, SlotsRun, SlotsStart, SlotsOther DEF Next
<1> QED
  BY <1>1, <1>3, TypeCorrect, PTL DEF Spec

-----------------------------------------------------------------------------
(* The daemon implements RunPool.                                          *)

\* A function's image is no larger than its domain.
LEMMA ImageBound ==
    ASSUME NEW S, IsFiniteSet(S), NEW f
    PROVE  /\ IsFiniteSet({f[x] : x \in S})
           /\ Cardinality({f[x] : x \in S}) <= Cardinality(S)
<1> DEFINE T == {f[x] : x \in S}
           g == [t \in T |-> CHOOSE x \in S : f[x] = t]
<1>1. \A t \in T : g[t] \in S /\ f[g[t]] = t
  OBVIOUS
<1>2. g \in [T -> S] /\ \A a, b \in T : g[a] = g[b] => a = b
  BY <1>1
<1>3. g \in Injection(T, S)
  BY <1>2 DEF Injection, IsInjective
<1> HIDE DEF T, g
<1>4. IsFiniteSet(T) /\ Cardinality(T) <= Cardinality(S)
  BY <1>3, FS_Injection
<1> QED
  BY <1>4 DEF T

\* The runs this process executes are the entries of s.active that are no
\* recovered stubs.
LEMMA OwnIsTracked ==
    /\ OneRunPerTask  => OwnRuns = agentActive \ recovered
    /\ OneRunPerTask' => OwnRuns' = agentActive' \ recovered'
BY DEF OneRunPerTask, OwnRuns

DispatchedSet == {w \in Workers : Dispatched(w)}
DirectSet     == {s \in Starters : Direct(s)}

LEMMA OwnBound ==
    /\ Cardinality(OwnRuns) \in Nat
    /\ Cardinality(OwnRuns) <= Cardinality(DispatchedSet)
                               + Cardinality(DirectSet)
<1> DEFINE f == [w \in DispatchedSet |-> worker[w].task]
           h == [s \in DirectSet |-> starter[s].task]
           F == {f[w] : w \in DispatchedSet}
           H == {h[s] : s \in DirectSet}
<1>1. /\ IsFiniteSet(DispatchedSet) /\ Cardinality(DispatchedSet) \in Nat
      /\ IsFiniteSet(DirectSet) /\ Cardinality(DirectSet) \in Nat
  <2>1. DispatchedSet \subseteq Workers /\ DirectSet \subseteq Starters
    BY DEF DispatchedSet, DirectSet
  <2> QED
    BY <2>1, DaemonAssumption, FS_Subset, FS_CardinalityType
<1>2. OwnRuns = F \cup H
  BY DEF OwnRuns, DispatchedSet, DirectSet
<1> HIDE DEF f, h
<1>3. /\ IsFiniteSet(F) /\ Cardinality(F) <= Cardinality(DispatchedSet)
      /\ IsFiniteSet(H) /\ Cardinality(H) <= Cardinality(DirectSet)
  BY <1>1, ImageBound
<1> HIDE DEF F, H
<1>4. /\ Cardinality(F) \in Nat /\ Cardinality(H) \in Nat
      /\ Cardinality(F \cap H) \in Nat /\ Cardinality(F \cup H) \in Nat
      /\ Cardinality(F \cup H) =
           Cardinality(F) + Cardinality(H) - Cardinality(F \cap H)
  BY <1>3, FS_CardinalityType, FS_Union, FS_Intersection
<1> QED
  BY <1>1, <1>2, <1>3, <1>4

\* A thread that holds a slot and executes nothing leaves room for a run.
LEMMA RoomForRun ==
    ASSUME TypeOK, SlotsCoverHolders,
           \/ \E w \in BusyWorkers : ~Dispatched(w)
           \/ \E s \in SlotStarters : ~Direct(s)
    PROVE  Cardinality(OwnRuns) < MaxLimit
<1>1. DispatchedSet \subseteq BusyWorkers /\ DirectSet \subseteq SlotStarters
  BY DEF DispatchedSet, DirectSet, Dispatched, Direct, BusyWorkers,
     SlotStarters
<1>2. /\ Cardinality(DispatchedSet) \in Nat /\ Cardinality(DirectSet) \in Nat
      /\ Cardinality(DispatchedSet) <= Cardinality(BusyWorkers)
      /\ Cardinality(DirectSet) <= Cardinality(SlotStarters)
      /\ Cardinality(BusyWorkers) = Cardinality(DispatchedSet)
           => BusyWorkers = DispatchedSet
      /\ Cardinality(SlotStarters) = Cardinality(DirectSet)
           => SlotStarters = DirectSet
  BY <1>1, HoldersFinite, FS_Subset, FS_CardinalityType
<1>3. BusyWorkers # DispatchedSet \/ SlotStarters # DirectSet
  BY DEF DispatchedSet, DirectSet
<1>4. Cardinality(DispatchedSet) + Cardinality(DirectSet) < HeldSlots
  BY <1>2, <1>3, HoldersFinite DEF HeldSlots
<1> QED
  BY <1>2, <1>4, OwnBound, HoldersFinite, DaemonAssumption
  DEF SlotsCoverHolders, HeldSlots, TypeOK, SlotsOK

LEMMA StartRefines ==
    ASSUME TypeOK, SlotsCoverHolders, OneRunPerTask, OneRunPerTask',
           NEW t \in Tasks, ~HasActiveRun(t),
           agentActive' = agentActive \cup {t}, UNCHANGED recovered,
           \/ \E w \in BusyWorkers : ~Dispatched(w)
           \/ \E s \in SlotStarters : ~Direct(s)
    PROVE  Pool!Next
<1>1. OwnRuns = agentActive \ recovered /\ OwnRuns' = agentActive' \ recovered'
  BY OwnIsTracked
<1>2. recovered \subseteq agentActive
  BY DEF OneRunPerTask
<1>3. Cardinality(OwnRuns) < MaxLimit
  BY RoomForRun
<1>4. t \notin OwnRuns \cup recovered /\ OwnRuns' = OwnRuns \cup {t}
  BY <1>1, <1>2 DEF HasActiveRun
<1>5. Pool!Start(t)
  <2>1. Pool!Cardinality(OwnRuns) = Cardinality(OwnRuns)
    BY DEF Pool!Cardinality, Cardinality
  <2> QED
    BY <1>3, <1>4, <2>1 DEF Pool!Start
<1> QED
  BY <1>5 DEF Pool!Next

LEMMA FinishRefines ==
    ASSUME OneRunPerTask, OneRunPerTask',
           NEW t \in Tasks, t \in agentActive \ recovered,
           agentActive' = agentActive \ {t}, UNCHANGED recovered
    PROVE  Pool!Next
<1>1. OwnRuns = agentActive \ recovered /\ OwnRuns' = agentActive' \ recovered'
  BY OwnIsTracked
<1>2. Pool!Finish(t)
  BY <1>1 DEF Pool!Finish
<1> QED
  BY <1>2 DEF Pool!Next

LEMMA IdleRefines ==
    ASSUME OneRunPerTask, OneRunPerTask', UNCHANGED <<agentActive, recovered>>
    PROVE  UNCHANGED Pool!poolVars
BY OwnIsTracked DEF Pool!poolVars

LEMMA RecoveredRefines ==
    ASSUME OneRunPerTask, OneRunPerTask', NEW t \in Tasks,
           AdoptRecovered(t) \/ RemoveRecovered(t)
    PROVE  Pool!Next
<1>1. OwnRuns = agentActive \ recovered /\ OwnRuns' = agentActive' \ recovered'
  BY OwnIsTracked
<1>2. recovered \subseteq agentActive
  BY DEF OneRunPerTask
<1>3. AdoptRecovered(t) => Pool!Adopt(t)
  BY <1>1, <1>2 DEF AdoptRecovered, HasActiveRun, Pool!Adopt
<1>4. RemoveRecovered(t) => Pool!Depart(t)
  BY <1>1, <1>2 DEF RemoveRecovered, Pool!Depart
<1> QED
  BY <1>3, <1>4 DEF Pool!Next

LEMMA RunRefines ==
    ASSUME TypeOK, SlotsCoverHolders, OneRunPerTask, OneRunPerTask',
           NEW w \in Workers, RunStep(w)
    PROVE  [Pool!Next]_Pool!poolVars
<1>1. CASE RunAdmit(w)
  <2>1. worker[w].task \in Tasks /\ w \in BusyWorkers /\ ~Dispatched(w)
    BY <1>1 DEF TypeOK, RunStates, Threads, RunAdmit, BusyWorkers, Dispatched
  <2> QED
    BY <1>1, <2>1, StartRefines DEF RunAdmit
<1>2. CASE RunFinish(w)
  <2>1. worker[w].task \in Tasks /\ worker[w].task \in agentActive \ recovered
    BY <1>2 DEF TypeOK, RunStates, Threads, RunFinish, OneRunPerTask,
       Dispatched
  <2> QED
    BY <1>2, <2>1, FinishRefines DEF RunFinish
<1>3. CASE RunCheck(w) \/ RunReject(w) \/ RunRelease(w) \/ RunReturnSlot(w)
  BY <1>3, IdleRefines
  DEF RunCheck, RunReject, RunRelease, RunReturnSlot, agentVars
<1> QED
  BY <1>1, <1>2, <1>3 DEF RunStep

LEMMA StarterRefines ==
    ASSUME TypeOK, SlotsCoverHolders, OneRunPerTask, OneRunPerTask',
           NEW s \in Starters,
           StartStep(s) \/ \E t \in Tasks : ReserveBegin(s, t)
    PROVE  [Pool!Next]_Pool!poolVars
<1>1. CASE DirectRegister(s) /\ ~HasActiveRun(starter[s].task)
  <2>1. starter[s].task \in Tasks /\ s \in SlotStarters /\ ~Direct(s)
    BY <1>1 DEF TypeOK, StartStates, IdleStart, DirectRegister, SlotStarters,
       Direct
  <2> QED
    BY <1>1, <2>1, StartRefines DEF DirectRegister
<1>2. CASE DirectEnd(s)
  <2>1. starter[s].task \in Tasks
    BY <1>2 DEF TypeOK, StartStates, IdleStart, DirectEnd
  <2>2. starter[s].task \in agentActive \ recovered
    BY <1>2 DEF DirectEnd, OneRunPerTask, Direct
  <2> QED
    BY <1>2, <2>1, <2>2, FinishRefines DEF DirectEnd
<1>3. CASE \/ \E t \in Tasks : ReserveBegin(s, t)
           \/ ReserveHasRun(s) \/ ReserveExtra(s)
           \/ ReserveCount(s) \/ ReserveSlot(s)
           \/ ReserveInsert(s) \/ ReserveUndo(s)
           \/ DirectRegister(s) /\ HasActiveRun(starter[s].task)
           \/ DirectGiveBack(s) \/ DirectReturnSlot(s)
  <2>1. UNCHANGED <<agentActive, recovered>>
    BY <1>3 DEF ReserveBegin, ReserveHasRun, ReserveExtra,
       ReserveCount, ReserveSlot,
       ReserveInsert, ReserveUndo, DirectRegister, DirectGiveBack,
       DirectReturnSlot, agentVars
  <2> QED
    BY <2>1, IdleRefines
<1> QED
  BY <1>1, <1>2, <1>3 DEF StartStep

LEMMA OtherRefines ==
    ASSUME OneRunPerTask, OneRunPerTask',
           \/ Lifecycle \/ Dispatch
           \/ \E n \in Limits : SetMaxWorkers(n)
           \/ \E e \in Enqueuers : \/ EnqueueStep(e)
                                   \/ \E t \in Tasks : EnqueueGate(e, t)
    PROVE  UNCHANGED Pool!poolVars
<1>1. UNCHANGED <<agentActive, recovered>>
  <2>1. CASE Lifecycle
    BY <2>1 DEF Lifecycle, Activate, ScheduleScan, GraceFires, BeginDeactivate,
       CancelActivation, DrainDone, DrainTimeout, ResetActive, RootCancel,
       agentVars
  <2>2. CASE Dispatch
    BY <2>2 DEF Dispatch, DispatchTake, DispatchExit, DispatchContext,
       DispatchDrop, DispatchWait, DispatchAcquire, agentVars
  <2>3. CASE \E e \in Enqueuers : \/ EnqueueStep(e)
                                  \/ \E t \in Tasks : EnqueueGate(e, t)
    BY <2>3 DEF EnqueueStep, EnqueueGate, EnqueueRead, EnqueueCheck,
       EnqueueInsert, EnqueueSend, EnqueueDrop, agentVars
  <2> QED
    BY <2>1, <2>2, <2>3 DEF SetMaxWorkers, agentVars
<1> QED
  BY <1>1, IdleRefines

\* The queue, the slots, the reservations and the generations implement the
\* pool of RunPool: runs start one at a time per task and within the limit,
\* whichever path of the daemon and of AgentService starts them.
THEOREM DaemonImplementsPool == Spec => ImplementsPool
<1>1. Init => Pool!Init
  BY DEF Init, Pool!Init, OwnRuns, Dispatched, Direct, Idle, IdleStart
<1>2. TypeOK /\ SlotsCoverHolders /\ OneRunPerTask /\ OneRunPerTask'
      /\ [Next]_vars => [Pool!Next]_Pool!poolVars
  <2> SUFFICES ASSUME TypeOK, SlotsCoverHolders, OneRunPerTask,
                      OneRunPerTask', [Next]_vars
               PROVE  [Pool!Next]_Pool!poolVars
    OBVIOUS
  <2>1. CASE UNCHANGED vars
    BY <2>1, IdleRefines DEF vars, agentVars
  <2>2. CASE Next
    BY <2>2, RunRefines, StarterRefines, RecoveredRefines, OtherRefines
    DEF Next
  <2> QED
    BY <2>1, <2>2
<1> QED
  BY <1>1, <1>2, TypeCorrect, SlotsCovered, NoSecondRun, PTL
  DEF Spec, ImplementsPool, Pool!Spec

-----------------------------------------------------------------------------
(* Up to the end of the first board's drain: the inductive invariant.      *)

\* Until the first Deactivate has replaced the maps or given up waiting.
FirstLife == generation = 0 \/ (generation = 1 /\ lifecycle # "off")

\* A board is open only between Activate and Deactivate.
LifeShape ==
    /\ activated => lifecycle \in {"recover", "on"}
    /\ generation = 0 => lifecycle = "off"

\* A thread at rest holds no task.
RestHolds ==
    /\ disp.pc \in {"idle", "exited"} => disp.task = NoTask
    /\ \A w \in Workers : worker[w].pc = "idle" => worker[w].task = NoTask

Lone(S) == \A x, y \in S : x = y

\* Task t is in one hand, k, or in none.
HeldAt(t, k) ==
    /\ (SendsOf(t) # {} <=> k = "enqueuer") /\ Lone(SendsOf(t))
    /\ (QueuedOf(t) # {} <=> k = "queue") /\ Lone(QueuedOf(t))
    /\ (DispHas(t) <=> k = "dispatcher")
    /\ (BusyOn(t) # {} <=> k = "worker") /\ Lone(BusyOn(t))
    /\ (ReservedOf(t) # {} <=> k = "starter") /\ Lone(ReservedOf(t))

Owned(t, k) ==
    /\ HeldAt(t, k)
    /\ t \in active <=> k # "none"
    /\ t \in automationActive <=> k = "starter"

Hands == {"enqueuer", "queue", "dispatcher", "worker", "starter", "none"}

EntriesOwned == FirstLife => \A t \in Tasks : \E k \in Hands : Owned(t, k)

SlotsHeld == FirstLife => runningWorkers = HeldSlots

\* Once the drain has seen an empty set nobody can start a run of the first
\* board: what an enqueuer still sends is stale when it is taken.
Drained ==
    (lifecycle = "reset" /\ generation = 1) =>
      /\ disp.pc \in {"idle", "exited", "context"}
      /\ \A w \in Workers : worker[w].pc \in {"idle", "return"}

SwitchInv == LifeShape /\ RestHolds /\ EntriesOwned /\ SlotsHeld /\ Drained

-----------------------------------------------------------------------------
(* The shape of a switch and threads at rest.                              *)

\* Only the lifecycle changes where the board is.
LEMMA ThreadsLeaveLife ==
    ASSUME [Next]_vars, ~Lifecycle
    PROVE  UNCHANGED lifeVars
<1>1. \A e \in Enqueuers : EnqueueStep(e) \/ (\E t \in Tasks : EnqueueGate(e, t))
        => UNCHANGED lifeVars
  BY DEF EnqueueStep, EnqueueGate, EnqueueRead, EnqueueCheck, EnqueueInsert,
     EnqueueSend, EnqueueDrop
<1>2. Dispatch => UNCHANGED lifeVars
  BY DEF Dispatch, DispatchTake, DispatchExit, DispatchContext, DispatchDrop,
     DispatchWait, DispatchAcquire
<1>3. \A w \in Workers : RunStep(w) => UNCHANGED lifeVars
  BY DEF RunStep, RunCheck, RunAdmit, RunReject, RunFinish, RunRelease,
     RunReturnSlot
<1>4. \A s \in Starters : StartStep(s) \/ (\E t \in Tasks : ReserveBegin(s, t))
        => UNCHANGED lifeVars
  BY DEF StartStep, ReserveBegin, ReserveHasRun, ReserveExtra, ReserveCount,
     ReserveSlot, ReserveInsert, ReserveUndo, DirectRegister, DirectEnd,
     DirectGiveBack, DirectReturnSlot
<1>5. /\ \A n \in Limits : SetMaxWorkers(n) => UNCHANGED lifeVars
      /\ \A t \in Tasks : AdoptRecovered(t) \/ RemoveRecovered(t)
            => UNCHANGED lifeVars
  BY DEF SetMaxWorkers, AdoptRecovered, RemoveRecovered
<1>6. UNCHANGED vars => UNCHANGED lifeVars
  BY DEF vars
<1> QED
  BY <1>1, <1>2, <1>3, <1>4, <1>5, <1>6 DEF Next

LEMMA LifeStep == TypeOK /\ LifeShape /\ [Next]_vars => LifeShape'
<1> SUFFICES ASSUME TypeOK, LifeShape, [Next]_vars PROVE LifeShape'
  OBVIOUS
<1>1. CASE Lifecycle
  <2>1. generation \in Nat
    BY DEF TypeOK, LifeOK
  <2> QED
    BY <1>1, <2>1 DEF LifeShape, Lifecycle, Activate, ScheduleScan, GraceFires,
       BeginDeactivate, CancelActivation, DrainDone, DrainTimeout, ResetActive,
       RootCancel
<1>2. CASE UNCHANGED lifeVars
  BY <1>2 DEF LifeShape, lifeVars
<1> QED
  BY <1>1, <1>2, ThreadsLeaveLife

\* A wake-up moves the dispatcher only out of its wait.
LEMMA SignalRest ==
    ASSUME disp \in DispStates, Signal
    PROVE  /\ disp'.task = disp.task /\ disp'.gen = disp.gen
           /\ disp'.pc = IF disp.pc = "blocked" THEN "woken" ELSE disp.pc
BY DEF Signal, DispStates, Threads

LEMMA RestStep == TypeOK /\ RestHolds /\ [Next]_vars => RestHolds'
<1> SUFFICES ASSUME TypeOK, RestHolds, [Next]_vars PROVE RestHolds'
  OBVIOUS
<1> USE DEF RestHolds
<1>1. CASE Dispatch
  <2>1. CASE \E w \in Workers : DispatchAcquire(w)
    <3>1. PICK w \in Workers : DispatchAcquire(w)
      BY <2>1
    <3>2. /\ disp' = Idle /\ worker'[w].pc = "start"
          /\ \A v \in Workers \ {w} : worker'[v] = worker[v]
      BY <3>1 DEF DispatchAcquire, TypeOK
    <3> QED
      BY <3>2 DEF Idle
  <2>2. CASE DispatchTake \/ DispatchContext \/ DispatchDrop \/ DispatchWait
             \/ DispatchExit
    <3>1. UNCHANGED worker
      BY <2>2 DEF DispatchTake, DispatchContext, DispatchDrop, DispatchWait,
         DispatchExit
    <3>2. disp'.pc \in {"idle", "exited"} => disp'.task = NoTask
      BY <2>2 DEF DispatchTake, DispatchContext, DispatchDrop, DispatchWait,
         DispatchExit, Idle, TypeOK, DispStates, Threads
    <3> QED
      BY <3>1, <3>2
  <2> QED
    BY <1>1, <2>1, <2>2 DEF Dispatch
<1>2. ASSUME NEW w \in Workers, RunStep(w) PROVE RestHolds'
  <2>1. \A v \in Workers \ {w} : worker'[v] = worker[v]
    BY <1>2 DEF RunStep, RunCheck, RunAdmit, RunReject, RunFinish, RunRelease,
       RunReturnSlot, TypeOK
  <2>2. worker'[w] = Idle \/ worker'[w].pc # "idle"
    BY <1>2 DEF RunStep, RunCheck, RunAdmit, RunReject, RunFinish, RunRelease,
       RunReturnSlot, TypeOK, RunStates, Threads
  <2>3. UNCHANGED disp \/ Signal
    BY <1>2 DEF RunStep, RunCheck, RunAdmit, RunReject, RunFinish, RunRelease,
       RunReturnSlot, ReleaseWorkerSlot
  <2> QED
    BY <2>1, <2>2, <2>3, SignalRest DEF Idle, TypeOK
<1>3. CASE UNCHANGED worker /\ (UNCHANGED disp \/ Signal)
  BY <1>3, SignalRest DEF TypeOK
<1>4. Lifecycle => UNCHANGED <<worker, disp>>
  BY DEF Lifecycle, Activate, ScheduleScan, GraceFires, BeginDeactivate,
     CancelActivation, DrainDone, DrainTimeout, ResetActive, RootCancel
<1>5. \A e \in Enqueuers : EnqueueStep(e) \/ (\E t \in Tasks : EnqueueGate(e, t))
        => UNCHANGED <<worker, disp>>
  BY DEF EnqueueStep, EnqueueGate, EnqueueRead, EnqueueCheck, EnqueueInsert,
     EnqueueSend, EnqueueDrop
<1>6. \A s \in Starters : StartStep(s) \/ (\E t \in Tasks : ReserveBegin(s, t))
        => UNCHANGED worker /\ (UNCHANGED disp \/ Signal)
  BY DEF StartStep, ReserveBegin, ReserveHasRun, ReserveExtra, ReserveCount,
     ReserveSlot, ReserveInsert, ReserveUndo, DirectRegister, DirectEnd,
     DirectGiveBack, DirectReturnSlot, ReleaseWorkerSlot
<1>7. /\ \A n \in Limits : SetMaxWorkers(n) => UNCHANGED worker /\ Signal
      /\ \A t \in Tasks : AdoptRecovered(t) \/ RemoveRecovered(t)
            => UNCHANGED worker /\ Signal
  BY DEF SetMaxWorkers, AdoptRecovered, RemoveRecovered
<1>8. UNCHANGED vars => UNCHANGED <<worker, disp>>
  BY DEF vars
<1> QED
  BY <1>1, <1>2, <1>3, <1>4, <1>5, <1>6, <1>7, <1>8 DEF Next

-----------------------------------------------------------------------------
(* The entry of a task goes from hand to hand.                             *)

\* Two sets that are empty together, the second no larger if the first has
\* at most one element.
Alike(S, T) == (S = {} <=> T = {}) /\ (Lone(S) => Lone(T))

LEMMA OwnedKept ==
    ASSUME NEW t, NEW k, Owned(t, k),
           SendsOf(t)' = SendsOf(t), Alike(QueuedOf(t), QueuedOf(t)'),
           DispHas(t)' <=> DispHas(t), BusyOn(t)' = BusyOn(t),
           ReservedOf(t)' = ReservedOf(t),
           t \in active' <=> t \in active,
           t \in automationActive' <=> t \in automationActive
    PROVE  Owned(t, k)'
BY DEF Owned, HeldAt, Alike

LEMMA QueueSame == ASSUME NEW t, UNCHANGED queue
                   PROVE  Alike(QueuedOf(t), QueuedOf(t)')
BY DEF Alike, QueuedOf

LEMMA QueueAppended ==
    ASSUME NEW t, queue \in Seq(QueueItem), NEW x \in QueueItem,
           queue' = Append(queue, x)
    PROVE  QueuedOf(t)' = QueuedOf(t) \cup
                            (IF x.task = t THEN {Len(queue) + 1} ELSE {})
<1>1. /\ Len(queue') = Len(queue) + 1 /\ DOMAIN queue' = 1..(Len(queue) + 1)
      /\ queue'[Len(queue) + 1] = x
      /\ \A i \in 1..Len(queue) : queue'[i] = queue[i]
      /\ DOMAIN queue = 1..Len(queue) /\ Len(queue) \in Nat
  BY AppendProperties
<1> QED
  BY <1>1 DEF QueuedOf

LEMMA QueueTaken ==
    ASSUME NEW t, queue \in Seq(QueueItem), queue # <<>>, queue' = Tail(queue),
           Lone(QueuedOf(t))
    PROVE  IF Head(queue).task = t THEN QueuedOf(t) # {} /\ QueuedOf(t)' = {}
           ELSE Alike(QueuedOf(t), QueuedOf(t)')
<1>1. /\ DOMAIN queue' = 1..(Len(queue) - 1) /\ DOMAIN queue = 1..Len(queue)
      /\ \A i \in 1..(Len(queue) - 1) : queue'[i] = queue[i + 1]
      /\ Len(queue) \in Nat \ {0} /\ Head(queue) = queue[1]
  BY HeadTailProperties
<1>2. \A i \in QueuedOf(t)' : i \in Nat \ {0} /\ i + 1 \in QueuedOf(t)
  BY <1>1 DEF QueuedOf
<1>3. \A i \in QueuedOf(t) : i = 1 \/ i - 1 \in QueuedOf(t)'
  BY <1>1 DEF QueuedOf
<1>4. 1 \in QueuedOf(t) <=> Head(queue).task = t
  BY <1>1 DEF QueuedOf
<1>5. CASE Head(queue).task = t
  BY <1>2, <1>4, <1>5 DEF Lone
<1>6. CASE Head(queue).task # t
  <2>1. QueuedOf(t) = {} <=> QueuedOf(t)' = {}
    BY <1>2, <1>3, <1>4, <1>6
  <2>2. Lone(QueuedOf(t)')
    BY <1>2 DEF Lone
  <2> QED
    BY <1>6, <2>1, <2>2 DEF Alike
<1> QED
  BY <1>5, <1>6

LEMMA EnqueueOwned ==
    ASSUME TypeOK, NEW e \in Enqueuers,
           EnqueueStep(e) \/ (\E u \in Tasks : EnqueueGate(e, u)),
           NEW t \in Tasks, NEW k \in Hands, Owned(t, k)
    PROVE  \E j \in Hands : Owned(t, j)'
<1>1. UNCHANGED <<automationActive, disp, worker, starter>>
  BY DEF EnqueueStep, EnqueueGate, EnqueueRead, EnqueueCheck, EnqueueInsert,
     EnqueueSend, EnqueueDrop, setVars
<1>2. /\ DispHas(t)' <=> DispHas(t)
      /\ BusyOn(t)' = BusyOn(t) /\ ReservedOf(t)' = ReservedOf(t)
  BY <1>1 DEF DispHas, BusyOn, ReservedOf
<1>3. \A f \in Enqueuers \ {e} : enq'[f] = enq[f]
  BY DEF EnqueueStep, EnqueueGate, EnqueueRead, EnqueueCheck, EnqueueInsert,
     EnqueueSend, EnqueueDrop, TypeOK
<1>4. CASE EnqueueInsert(e) /\ enq[e].task = t /\ t \notin active
  <2>1. enq'[e].pc = "send" /\ enq'[e].task = t
    BY <1>4 DEF EnqueueInsert, TypeOK
  <2>2. SendsOf(t)' = {e} /\ k = "none" /\ t \in active'
    BY <1>3, <1>4, <2>1 DEF SendsOf, EnqueueInsert, Owned, HeldAt, Hands
  <2>3. QueuedOf(t)' = QueuedOf(t)
    BY <1>4 DEF EnqueueInsert, QueuedOf
  <2>4. Owned(t, "enqueuer")'
    BY <1>1, <1>2, <2>2, <2>3 DEF Owned, HeldAt, Lone
  <2> QED
    BY <2>4 DEF Hands
<1>5. CASE (EnqueueSend(e) \/ EnqueueDrop(e)) /\ enq[e].task = t
  <2>1. /\ k = "enqueuer" /\ SendsOf(t) = {e}
        /\ enq[e].pc = "send"
    BY <1>5 DEF EnqueueSend, EnqueueDrop, SendsOf, Owned, HeldAt, Lone
  <2>2. enq'[e].pc = "idle"
    BY <1>5 DEF EnqueueSend, EnqueueDrop, Idle, TypeOK
  <2>3. SendsOf(t)' = {}
    BY <1>3, <2>1, <2>2 DEF SendsOf
  <2>4. CASE EnqueueSend(e)
    <3>1. [task |-> enq[e].task, gen |-> enq[e].gen] \in QueueItem
      BY <2>1 DEF TypeOK, EnqStates, Threads, QueueItem
    <3>2. QueuedOf(t)' = QueuedOf(t) \cup {Len(queue) + 1}
      BY <1>5, <2>4, <3>1, QueueAppended DEF EnqueueSend, TypeOK
    <3>3. QueuedOf(t) = {} /\ UNCHANGED active
      BY <2>1, <2>4 DEF Owned, HeldAt, EnqueueSend, setVars
    <3>4. Owned(t, "queue")'
      BY <1>1, <1>2, <2>1, <2>3, <3>2, <3>3 DEF Owned, HeldAt, Lone
    <3> QED
      BY <3>4 DEF Hands
  <2>5. CASE EnqueueDrop(e)
    <3>1. QueuedOf(t)' = QueuedOf(t) /\ t \notin active'
      BY <1>5, <2>5 DEF EnqueueDrop, QueuedOf
    <3>2. Owned(t, "none")'
      BY <1>1, <1>2, <2>1, <2>3, <3>1 DEF Owned, HeldAt, Lone
    <3> QED
      BY <3>2 DEF Hands
  <2> QED
    BY <1>5, <2>4, <2>5
<1>6. CASE \/ EnqueueRead(e) \/ EnqueueCheck(e)
           \/ \E u \in Tasks : EnqueueGate(e, u)
           \/ EnqueueInsert(e) /\ ~(enq[e].task = t /\ t \notin active)
           \/ (EnqueueSend(e) \/ EnqueueDrop(e)) /\ enq[e].task # t
  <2>1. t \in active' <=> t \in active
    BY <1>6 DEF EnqueueRead, EnqueueCheck, EnqueueGate, EnqueueInsert,
       EnqueueSend, EnqueueDrop, setVars
  <2>2. e \notin SendsOf(t) /\ e \notin SendsOf(t)'
    BY <1>6 DEF EnqueueRead, EnqueueCheck, EnqueueGate, EnqueueInsert,
       EnqueueSend, EnqueueDrop, SendsOf, Idle, TypeOK
  <2>3. SendsOf(t)' = SendsOf(t)
    BY <1>3, <2>2 DEF SendsOf
  <2>4. Alike(QueuedOf(t), QueuedOf(t)')
    <3>1. CASE EnqueueSend(e)
      <4>1. [task |-> enq[e].task, gen |-> enq[e].gen] \in QueueItem
        BY <3>1 DEF EnqueueSend, TypeOK, EnqStates, Threads, QueueItem
      <4>2. enq[e].task # t
        BY <1>6, <3>1 DEF EnqueueSend, EnqueueRead, EnqueueCheck, EnqueueGate,
           EnqueueInsert
      <4>3. QueuedOf(t)' = QueuedOf(t) \cup {}
        BY <3>1, <4>1, <4>2, QueueAppended DEF EnqueueSend, TypeOK
      <4> QED
        BY <4>3 DEF Alike
    <3>2. CASE ~EnqueueSend(e)
      BY <1>6, <3>2, QueueSame DEF EnqueueRead, EnqueueCheck, EnqueueGate,
         EnqueueInsert, EnqueueDrop
    <3> QED
      BY <3>1, <3>2
  <2> QED
    BY <1>1, <1>2, <2>1, <2>3, <2>4, OwnedKept
<1> QED
  BY <1>4, <1>5, <1>6 DEF EnqueueStep

LEMMA DispatchOwned ==
    ASSUME TypeOK, RestHolds, Dispatch,
           NEW t \in Tasks, NEW k \in Hands, Owned(t, k)
    PROVE  \E j \in Hands : Owned(t, j)'
<1>1. /\ UNCHANGED <<automationActive, enq, starter>>
      /\ SendsOf(t)' = SendsOf(t) /\ ReservedOf(t)' = ReservedOf(t)
  BY DEF Dispatch, DispatchTake, DispatchExit, DispatchContext, DispatchDrop,
     DispatchWait, DispatchAcquire, setVars, SendsOf, ReservedOf
<1>2. NoTask # t
  BY DaemonAssumption
<1>3. CASE DispatchTake
  <2>1. /\ UNCHANGED <<active, worker>> /\ ~DispHas(t)
        /\ DispHas(t)' <=> Head(queue).task = t
    BY <1>2, <1>3 DEF DispatchTake, RestHolds, DispHas, setVars
  <2>2. BusyOn(t)' = BusyOn(t)
    BY <2>1 DEF BusyOn
  <2>3. IF Head(queue).task = t THEN QueuedOf(t) # {} /\ QueuedOf(t)' = {}
        ELSE Alike(QueuedOf(t), QueuedOf(t)')
    BY <1>3, QueueTaken DEF DispatchTake, TypeOK, Owned, HeldAt
  <2>4. CASE Head(queue).task = t
    <3>1. Owned(t, "dispatcher")'
      BY <1>1, <2>1, <2>2, <2>3, <2>4 DEF Owned, HeldAt, Lone
    <3> QED
      BY <3>1 DEF Hands
  <2>5. CASE Head(queue).task # t
    BY <1>1, <2>1, <2>2, <2>3, <2>5, OwnedKept
  <2> QED
    BY <2>4, <2>5
<1>4. CASE DispatchDrop
  <2>1. /\ QueuedOf(t)' = QueuedOf(t) /\ BusyOn(t)' = BusyOn(t) /\ ~DispHas(t)'
        /\ active' = active \ {disp.task}
    BY <1>2, <1>4 DEF DispatchDrop, QueuedOf, BusyOn, DispHas, Idle
  <2>2. CASE disp.task = t
    <3>1. Owned(t, "none")'
      BY <1>1, <2>1, <2>2 DEF Owned, HeldAt, DispHas
    <3> QED
      BY <3>1 DEF Hands
  <2>3. CASE disp.task # t
    BY <1>1, <2>1, <2>3, OwnedKept DEF DispHas, Alike
  <2> QED
    BY <2>2, <2>3
<1>5. ASSUME NEW w \in Workers, DispatchAcquire(w)
      PROVE  \E j \in Hands : Owned(t, j)'
  <2>1. /\ QueuedOf(t)' = QueuedOf(t) /\ ~DispHas(t)' /\ UNCHANGED active
        /\ worker[w].pc = "idle" /\ worker[w].task # t
        /\ \A v \in Workers \ {w} : worker'[v] = worker[v]
        /\ worker'[w].pc = "start" /\ worker'[w].task = disp.task
    BY <1>2, <1>5
    DEF DispatchAcquire, QueuedOf, DispHas, Idle, RestHolds, TypeOK, setVars
  <2>2. BusyOn(t)' = BusyOn(t) \cup (IF disp.task = t THEN {w} ELSE {})
    BY <2>1 DEF BusyOn
  <2>3. CASE disp.task = t
    <3>1. Owned(t, "worker")'
      BY <1>1, <2>1, <2>2, <2>3 DEF Owned, HeldAt, DispHas, Lone
    <3> QED
      BY <3>1 DEF Hands
  <2>4. CASE disp.task # t
    BY <1>1, <2>1, <2>2, <2>4, OwnedKept DEF DispHas, Alike
  <2> QED
    BY <2>3, <2>4
<1>6. CASE DispatchContext \/ DispatchWait \/ DispatchExit
  <2>1. UNCHANGED <<active, worker, queue>>
    BY <1>6 DEF DispatchContext, DispatchWait, DispatchExit, setVars
  <2>2. disp'.task = disp.task
    BY <1>6 DEF DispatchContext, DispatchWait, DispatchExit, TypeOK, DispStates,
       Threads
  <2> QED
    BY <1>1, <2>1, <2>2, QueueSame, OwnedKept DEF BusyOn, DispHas
<1> QED
  BY <1>3, <1>4, <1>5, <1>6 DEF Dispatch

LEMMA RunOwned ==
    ASSUME TypeOK, RestHolds, NEW w \in Workers, RunStep(w),
           NEW t \in Tasks, NEW k \in Hands, Owned(t, k)
    PROVE  \E j \in Hands : Owned(t, j)'
<1>1. /\ UNCHANGED <<automationActive, enq, starter, queue>>
      /\ UNCHANGED disp \/ Signal
      /\ \A v \in Workers \ {w} : worker'[v] = worker[v]
  BY DEF RunStep, RunCheck, RunAdmit, RunReject, RunFinish, RunRelease,
     RunReturnSlot, ReleaseWorkerSlot, setVars, TypeOK
<1>2. /\ SendsOf(t)' = SendsOf(t) /\ ReservedOf(t)' = ReservedOf(t)
      /\ QueuedOf(t)' = QueuedOf(t) /\ (DispHas(t)' <=> DispHas(t))
  BY <1>1, SignalRest DEF SendsOf, ReservedOf, QueuedOf, DispHas, TypeOK
<1>3. NoTask # t
  BY DaemonAssumption
<1>4. CASE RunRelease(w) /\ worker[w].task = t
  <2>1. /\ w \in BusyOn(t) /\ worker'[w].pc = "return" /\ t \notin active'
    BY <1>4 DEF RunRelease, BusyOn, TypeOK, RunStates, Threads
  <2>2. k = "worker" /\ BusyOn(t) = {w}
    BY <2>1 DEF Owned, HeldAt, Lone
  <2>3. BusyOn(t)' = {}
    BY <1>1, <2>1, <2>2 DEF BusyOn
  <2>4. Owned(t, "none")'
    BY <1>1, <1>2, <2>1, <2>2, <2>3 DEF Owned, HeldAt, Lone
  <2> QED
    BY <2>4 DEF Hands
<1>5. CASE ~(RunRelease(w) /\ worker[w].task = t)
  <2>1. t \in active' <=> t \in active
    BY <1>5 DEF RunStep, RunCheck, RunAdmit, RunReject, RunFinish, RunRelease,
       RunReturnSlot, setVars
  <2>2. w \in BusyOn(t) <=> w \in BusyOn(t)'
    <3>1. CASE RunReturnSlot(w)
      BY <1>3, <3>1 DEF RunReturnSlot, BusyOn, Idle, TypeOK
    <3>2. CASE RunRelease(w)
      BY <1>5, <3>2 DEF RunRelease, BusyOn, TypeOK, RunStates, Threads
    <3>3. CASE RunCheck(w) \/ RunAdmit(w) \/ RunReject(w) \/ RunFinish(w)
      BY <3>3 DEF RunCheck, RunAdmit, RunReject, RunFinish, BusyOn, TypeOK,
         RunStates, Threads
    <3> QED
      BY <3>1, <3>2, <3>3 DEF RunStep
  <2>3. BusyOn(t)' = BusyOn(t)
    BY <1>1, <2>2 DEF BusyOn
  <2> QED
    BY <1>1, <1>2, <2>1, <2>3, QueueSame, OwnedKept
<1> QED
  BY <1>4, <1>5

LEMMA StartOwned ==
    ASSUME TypeOK, NEW s \in Starters,
           StartStep(s) \/ (\E u \in Tasks : ReserveBegin(s, u)),
           NEW t \in Tasks, NEW k \in Hands, Owned(t, k)
    PROVE  \E j \in Hands : Owned(t, j)'
<1>1. /\ UNCHANGED <<enq, worker, queue>>
      /\ UNCHANGED disp \/ Signal
      /\ \A r \in Starters \ {s} : starter'[r] = starter[r]
  BY DEF StartStep, ReserveBegin, ReserveHasRun, ReserveExtra, ReserveCount,
     ReserveSlot, ReserveInsert, ReserveUndo, DirectRegister, DirectEnd,
     DirectGiveBack, DirectReturnSlot, ReleaseWorkerSlot, TypeOK
<1>2. /\ SendsOf(t)' = SendsOf(t) /\ BusyOn(t)' = BusyOn(t)
      /\ QueuedOf(t)' = QueuedOf(t) /\ (DispHas(t)' <=> DispHas(t))
  BY <1>1, SignalRest DEF SendsOf, BusyOn, QueuedOf, DispHas, TypeOK
<1>3. CASE ReserveInsert(s) /\ starter[s].task = t
  <2>1. /\ starter'[s].pc = "register" /\ starter'[s].task = t
        /\ t \notin active /\ t \in active' /\ t \in automationActive'
    BY <1>3 DEF ReserveInsert, TypeOK, StartStates, IdleStart
  <2>2. k = "none"
    BY <2>1 DEF Owned, HeldAt
  <2>3. ReservedOf(t)' = {s}
    BY <1>1, <2>1, <2>2 DEF ReservedOf, Owned, HeldAt
  <2>4. Owned(t, "starter")'
    BY <1>2, <2>1, <2>2, <2>3 DEF Owned, HeldAt, Lone
  <2> QED
    BY <2>4 DEF Hands
<1>4. CASE DirectGiveBack(s) /\ starter[s].task = t
  <2>1. s \in ReservedOf(t)
    BY <1>4 DEF DirectGiveBack, ReservedOf
  <2>2. k = "starter" /\ ReservedOf(t) = {s} /\ t \in automationActive
    BY <2>1 DEF Owned, HeldAt, Lone
  <2>3. /\ starter'[s].pc = "return" /\ t \notin active'
        /\ t \notin automationActive'
    BY <1>4, <2>2 DEF DirectGiveBack, TypeOK, StartStates, IdleStart
  <2>4. ReservedOf(t)' = {}
    BY <1>1, <2>2, <2>3 DEF ReservedOf
  <2>5. Owned(t, "none")'
    BY <1>2, <2>2, <2>3, <2>4 DEF Owned, HeldAt, Lone
  <2> QED
    BY <2>5 DEF Hands
<1>5. CASE ~((ReserveInsert(s) \/ DirectGiveBack(s)) /\ starter[s].task = t)
  <2>1. /\ t \in active' <=> t \in active
        /\ t \in automationActive' <=> t \in automationActive
    BY <1>5 DEF StartStep, ReserveBegin, ReserveHasRun, ReserveExtra,
       ReserveCount, ReserveSlot, ReserveInsert, ReserveUndo, DirectRegister,
       DirectEnd, DirectGiveBack, DirectReturnSlot, setVars
  <2>2. s \in ReservedOf(t) <=> s \in ReservedOf(t)'
    <3>1. CASE DirectRegister(s) \/ DirectEnd(s)
      BY <3>1 DEF DirectRegister, DirectEnd, ReservedOf, TypeOK, StartStates,
         IdleStart
    <3>2. CASE ReserveInsert(s) \/ ReserveUndo(s)
      BY <1>5, <3>2 DEF ReserveInsert, ReserveUndo, ReservedOf, TypeOK,
         StartStates, IdleStart
    <3>3. CASE DirectGiveBack(s) \/ DirectReturnSlot(s)
      BY <1>5, <3>3 DEF DirectGiveBack, DirectReturnSlot, ReservedOf, TypeOK,
         StartStates, IdleStart
    <3>4. CASE \/ \E u \in Tasks : ReserveBegin(s, u)
               \/ ReserveHasRun(s) \/ ReserveExtra(s) \/ ReserveCount(s)
               \/ ReserveSlot(s)
      BY <3>4 DEF ReserveBegin, ReserveHasRun, ReserveExtra, ReserveCount,
         ReserveSlot, ReservedOf, TypeOK, IdleStart
    <3> QED
      BY <3>1, <3>2, <3>3, <3>4 DEF StartStep
  <2>3. ReservedOf(t)' = ReservedOf(t)
    BY <1>1, <2>2 DEF ReservedOf
  <2> QED
    BY <1>1, <1>2, <2>1, <2>3, QueueSame, OwnedKept
<1> QED
  BY <1>3, <1>4, <1>5

\* What a step that is neither the lifecycle's nor a thread's changes.
LEMMA OtherSteps ==
    ASSUME TypeOK,
           \/ \E n \in Limits : SetMaxWorkers(n)
           \/ \E t \in Tasks : AdoptRecovered(t) \/ RemoveRecovered(t)
    PROVE  /\ UNCHANGED <<lifeVars, queue, setVars, runningWorkers, enq, worker,
                          starter>>
           /\ Signal
BY DEF SetMaxWorkers, AdoptRecovered, RemoveRecovered, slotVars

\* What the lifecycle leaves alone; only ResetActive touches the maps.
LEMMA LifecycleSteps ==
    ASSUME Lifecycle
    PROVE  /\ UNCHANGED <<queue, slotVars, enq, disp, worker, starter>>
           /\ UNCHANGED setVars \/ ResetActive
BY DEF Lifecycle, Activate, ScheduleScan, GraceFires, BeginDeactivate,
   CancelActivation, DrainDone, DrainTimeout, ResetActive, RootCancel

\* The life of the first board does not come back.
LEMMA FirstLifeEnds ==
    ASSUME TypeOK, LifeShape, [Next]_vars, FirstLife'
    PROVE  FirstLife /\ ~ResetActive
<1>1. generation \in Nat
  BY DEF TypeOK, LifeOK
<1>2. CASE Lifecycle
  BY <1>1, <1>2 DEF LifeShape, FirstLife, Lifecycle, Activate, ScheduleScan,
     GraceFires, BeginDeactivate, CancelActivation, DrainDone, DrainTimeout,
     ResetActive, RootCancel
<1>3. CASE UNCHANGED lifeVars
  <2>1. FirstLife
    BY <1>3 DEF FirstLife, lifeVars
  <2>2. ~ResetActive
    BY <1>3 DEF ResetActive, lifeVars
  <2> QED
    BY <2>1, <2>2
<1> QED
  BY <1>2, <1>3, ThreadsLeaveLife DEF Next

LEMMA EntriesStep ==
    TypeOK /\ LifeShape /\ RestHolds /\ EntriesOwned /\ [Next]_vars => EntriesOwned'
<1> SUFFICES ASSUME TypeOK, LifeShape, RestHolds, EntriesOwned, [Next]_vars,
                    FirstLife', NEW t \in Tasks
             PROVE  \E j \in Hands : Owned(t, j)'
  BY DEF EntriesOwned
<1>1. PICK k \in Hands : Owned(t, k)
  BY FirstLifeEnds DEF EntriesOwned
<1>2. CASE UNCHANGED <<setVars, queue, enq, worker, starter>>
           /\ (UNCHANGED disp \/ Signal)
  <2>1. /\ SendsOf(t)' = SendsOf(t) /\ BusyOn(t)' = BusyOn(t)
        /\ ReservedOf(t)' = ReservedOf(t) /\ (DispHas(t)' <=> DispHas(t))
        /\ UNCHANGED <<active, automationActive>>
    BY <1>2, SignalRest
    DEF SendsOf, BusyOn, ReservedOf, DispHas, setVars, TypeOK
  <2> QED
    BY <1>1, <1>2, <2>1, QueueSame, OwnedKept
<1>3. CASE Lifecycle
  BY <1>2, <1>3, LifecycleSteps, FirstLifeEnds
<1>4. CASE \/ \E n \in Limits : SetMaxWorkers(n)
           \/ \E u \in Tasks : AdoptRecovered(u) \/ RemoveRecovered(u)
  BY <1>2, <1>4, OtherSteps
<1>5. CASE UNCHANGED vars
  BY <1>2, <1>5 DEF vars
<1> QED
  BY <1>1, <1>3, <1>4, <1>5, EnqueueOwned, DispatchOwned, RunOwned, StartOwned
  DEF Next

-----------------------------------------------------------------------------
(* Every counted slot has a holder.                                        *)

LEMMA HeldTaken ==
    ASSUME NEW x,
           \/ /\ x \notin BusyWorkers /\ BusyWorkers' = BusyWorkers \cup {x}
              /\ SlotStarters' = SlotStarters
           \/ /\ x \notin SlotStarters /\ SlotStarters' = SlotStarters \cup {x}
              /\ BusyWorkers' = BusyWorkers
    PROVE  HeldSlots' = HeldSlots + 1
<1>1. \A S : IsFiniteSet(S) /\ x \notin S
                => Cardinality(S \cup {x}) = Cardinality(S) + 1
  BY FS_AddElement
<1> QED
  BY <1>1, HoldersFinite DEF HeldSlots

LEMMA HeldReturned ==
    ASSUME TypeOK, NEW x, ReleaseWorkerSlot, runningWorkers = HeldSlots,
           \/ /\ x \in BusyWorkers /\ BusyWorkers' = BusyWorkers \ {x}
              /\ SlotStarters' = SlotStarters
           \/ /\ x \in SlotStarters /\ SlotStarters' = SlotStarters \ {x}
              /\ BusyWorkers' = BusyWorkers
    PROVE  runningWorkers' = HeldSlots'
<1>1. \A S : IsFiniteSet(S) /\ x \in S
                => Cardinality(S \ {x}) = Cardinality(S) - 1
  BY FS_RemoveElement
<1>2. HeldSlots' = HeldSlots - 1 /\ HeldSlots \in Nat /\ HeldSlots' \in Nat
  BY <1>1, HoldersFinite DEF HeldSlots
<1> QED
  BY <1>2 DEF ReleaseWorkerSlot

LEMMA HeldKept ==
    ASSUME BusyWorkers' = BusyWorkers, SlotStarters' = SlotStarters
    PROVE  HeldSlots' = HeldSlots
BY DEF HeldSlots

LEMMA DispatchHeld ==
    ASSUME TypeOK, Dispatch, runningWorkers = HeldSlots
    PROVE  runningWorkers' = HeldSlots'
<1>1. SlotStarters' = SlotStarters
  BY DEF Dispatch, DispatchTake, DispatchExit, DispatchContext, DispatchDrop,
     DispatchWait, DispatchAcquire, SlotStarters
<1>2. ASSUME NEW w \in Workers, DispatchAcquire(w)
      PROVE  runningWorkers' = HeldSlots'
  <2>1. w \notin BusyWorkers /\ BusyWorkers' = BusyWorkers \cup {w}
    BY <1>2 DEF DispatchAcquire, BusyWorkers, TypeOK
  <2>2. HeldSlots' = HeldSlots + 1
    BY <1>1, <2>1, HeldTaken
  <2> QED
    BY <1>2, <2>2 DEF DispatchAcquire
<1>3. CASE ~\E w \in Workers : DispatchAcquire(w)
  <2>1. UNCHANGED <<worker, runningWorkers>>
    BY <1>3 DEF Dispatch, DispatchTake, DispatchExit, DispatchContext,
       DispatchDrop, DispatchWait, slotVars
  <2> QED
    BY <1>1, <2>1, HeldKept DEF BusyWorkers
<1> QED
  BY <1>2, <1>3

LEMMA RunHeld ==
    ASSUME TypeOK, NEW w \in Workers, RunStep(w), runningWorkers = HeldSlots
    PROVE  runningWorkers' = HeldSlots'
<1>1. /\ SlotStarters' = SlotStarters
      /\ \A v \in Workers \ {w} : worker'[v] = worker[v]
  BY DEF RunStep, RunCheck, RunAdmit, RunReject, RunFinish, RunRelease,
     RunReturnSlot, SlotStarters, TypeOK
<1>2. CASE RunReturnSlot(w)
  <2>1. w \in BusyWorkers /\ BusyWorkers' = BusyWorkers \ {w}
    BY <1>1, <1>2 DEF BusyWorkers, RunReturnSlot, TypeOK, Idle
  <2> QED
    BY <1>1, <1>2, <2>1, HeldReturned DEF RunReturnSlot
<1>3. CASE \/ RunCheck(w) \/ RunAdmit(w) \/ RunReject(w) \/ RunFinish(w)
           \/ RunRelease(w)
  <2>1. UNCHANGED runningWorkers
    BY <1>3 DEF RunCheck, RunAdmit, RunReject, RunFinish, RunRelease, slotVars
  <2>2. worker[w].pc # "idle" /\ worker'[w].pc # "idle"
    BY <1>3 DEF TypeOK, RunStates, Threads, RunCheck, RunAdmit, RunReject,
       RunFinish, RunRelease
  <2>3. BusyWorkers' = BusyWorkers
    BY <1>1, <2>2 DEF BusyWorkers
  <2> QED
    BY <1>1, <2>1, <2>3, HeldKept
<1> QED
  BY <1>2, <1>3 DEF RunStep

\* A direct start always finds its own reservation when it gives it back.
LEMMA StartHeld ==
    ASSUME TypeOK, NEW s \in Starters,
           StartStep(s) \/ (\E t \in Tasks : ReserveBegin(s, t)),
           \A t \in Tasks : \E k \in Hands : Owned(t, k),
           runningWorkers = HeldSlots
    PROVE  runningWorkers' = HeldSlots'
<1> DEFINE Holding == {"insert", "register", "running", "giveback", "return"}
<1>1. /\ BusyWorkers' = BusyWorkers
      /\ \A r \in Starters \ {s} : starter'[r] = starter[r]
  BY DEF BusyWorkers, StartStep, ReserveBegin, ReserveHasRun, ReserveExtra,
     ReserveCount, ReserveSlot, ReserveInsert, ReserveUndo, DirectRegister,
     DirectEnd, DirectGiveBack, DirectReturnSlot, TypeOK
<1>2. CASE starter'[s].pc \in Holding <=> starter[s].pc \in Holding
  <2>1. SlotStarters' = SlotStarters
    BY <1>1, <1>2 DEF SlotStarters
  <2>2. ~(ReserveSlot(s) /\ ~UNCHANGED runningWorkers)
    BY <1>2 DEF ReserveSlot, TypeOK
  <2>3. ~DirectReturnSlot(s)
    BY <1>2 DEF DirectReturnSlot, IdleStart, TypeOK
  <2>4. UNCHANGED runningWorkers
    BY <2>2, <2>3 DEF StartStep, ReserveBegin, ReserveHasRun, ReserveExtra,
       ReserveCount, ReserveInsert, ReserveUndo, DirectRegister, DirectEnd,
       DirectGiveBack, slotVars
  <2> QED
    BY <1>1, <2>1, <2>4, HeldKept
<1>3. CASE DirectReturnSlot(s)
  <2>1. s \in SlotStarters /\ SlotStarters' = SlotStarters \ {s}
    BY <1>1, <1>3 DEF SlotStarters, DirectReturnSlot, TypeOK, IdleStart
  <2> QED
    BY <1>1, <1>3, <2>1, HeldReturned DEF DirectReturnSlot
<1>4. CASE ReserveSlot(s) /\ starter'[s].pc = "insert"
  <2>1. s \notin SlotStarters /\ SlotStarters' = SlotStarters \cup {s}
    BY <1>1, <1>4 DEF SlotStarters, ReserveSlot
  <2>2. runningWorkers' = runningWorkers + 1
    BY <1>4 DEF ReserveSlot, TypeOK, IdleStart
  <2>3. HeldSlots' = HeldSlots + 1
    BY <1>1, <2>1, HeldTaken
  <2> QED
    BY <2>2, <2>3
<1>5. CASE DirectGiveBack(s)
  <2>1. starter[s].task \in Tasks /\ s \in ReservedOf(starter[s].task)
    BY <1>5 DEF DirectGiveBack, ReservedOf, TypeOK, StartStates, IdleStart
  <2>2. starter[s].task \in automationActive
    BY <2>1 DEF Owned, HeldAt
  <2>3. starter'[s].pc = "return" /\ starter[s].pc = "giveback"
    BY <1>5, <2>2 DEF DirectGiveBack, TypeOK, StartStates, IdleStart
  <2> QED
    BY <1>2, <2>3
<1>6. CASE \/ \E t \in Tasks : ReserveBegin(s, t)
           \/ ReserveHasRun(s) \/ ReserveExtra(s) \/ ReserveCount(s)
           \/ ReserveSlot(s) /\ starter'[s].pc # "insert"
  <2>1. starter[s].pc \notin Holding /\ starter'[s].pc \notin Holding
    BY <1>6 DEF ReserveBegin, ReserveHasRun, ReserveExtra, ReserveCount,
       ReserveSlot, TypeOK, IdleStart
  <2> QED
    BY <1>2, <2>1
<1>7. CASE ReserveInsert(s) \/ ReserveUndo(s) \/ DirectRegister(s) \/ DirectEnd(s)
  <2>1. starter[s].pc \in Holding /\ starter'[s].pc \in Holding
    BY <1>7 DEF ReserveInsert, ReserveUndo, DirectRegister, DirectEnd, TypeOK,
       StartStates, IdleStart
  <2> QED
    BY <1>2, <2>1
<1> QED
  BY <1>3, <1>4, <1>5, <1>6, <1>7 DEF StartStep

LEMMA SlotsStep ==
    TypeOK /\ LifeShape /\ EntriesOwned /\ SlotsHeld /\ [Next]_vars => SlotsHeld'
<1> SUFFICES ASSUME TypeOK, LifeShape, EntriesOwned, SlotsHeld, [Next]_vars,
                    FirstLife'
             PROVE  runningWorkers' = HeldSlots'
  BY DEF SlotsHeld
<1>1. /\ runningWorkers = HeldSlots
      /\ \A t \in Tasks : \E k \in Hands : Owned(t, k)
  BY FirstLifeEnds DEF SlotsHeld, EntriesOwned
<1>2. CASE UNCHANGED <<runningWorkers, worker, starter>>
  BY <1>1, <1>2, HeldKept DEF BusyWorkers, SlotStarters
<1>3. CASE Lifecycle
  BY <1>2, <1>3, LifecycleSteps DEF slotVars
<1>4. CASE \/ \E n \in Limits : SetMaxWorkers(n)
           \/ \E u \in Tasks : AdoptRecovered(u) \/ RemoveRecovered(u)
  BY <1>2, <1>4, OtherSteps
<1>5. ASSUME NEW e \in Enqueuers,
             EnqueueStep(e) \/ (\E t \in Tasks : EnqueueGate(e, t))
      PROVE  UNCHANGED <<runningWorkers, worker, starter>>
  BY <1>5 DEF EnqueueStep, EnqueueGate, EnqueueRead, EnqueueCheck,
     EnqueueInsert, EnqueueSend, EnqueueDrop, slotVars
<1>6. CASE UNCHANGED vars
  BY <1>2, <1>6 DEF vars, slotVars
<1> QED
  BY <1>1, <1>2, <1>3, <1>4, <1>5, <1>6, DispatchHeld, RunHeld, StartHeld
  DEF Next

-----------------------------------------------------------------------------
(* After the drain no run of the first board begins.                       *)

LEMMA DrainedStep ==
    TypeOK /\ LifeShape /\ RestHolds /\ EntriesOwned /\ Drained /\ [Next]_vars
      => Drained'
<1> SUFFICES ASSUME TypeOK, LifeShape, RestHolds, EntriesOwned, Drained,
                    [Next]_vars, lifecycle' = "reset", generation' = 1
             PROVE  /\ disp'.pc \in {"idle", "exited", "context"}
                    /\ \A w \in Workers : worker'[w].pc \in {"idle", "return"}
  BY DEF Drained
<1>1. CASE Lifecycle
  <2>1. UNCHANGED <<disp, worker>>
    BY <1>1, LifecycleSteps
  <2>2. DrainDone
       \/ (lifecycle = "reset" /\ generation = 1)
    BY <1>1 DEF Lifecycle, Activate, ScheduleScan, GraceFires, BeginDeactivate,
       CancelActivation, DrainDone, DrainTimeout, ResetActive, RootCancel
  <2>3. CASE DrainDone
    <3>1. FirstLife /\ active = {}
      BY <2>3 DEF DrainDone, FirstLife
    <3>2. \A t \in Tasks : ~DispHas(t) /\ BusyOn(t) = {}
      BY <3>1 DEF EntriesOwned, Owned, HeldAt, Hands
    <3>3. disp.pc \in {"idle", "exited"}
      BY <3>2 DEF DispHas, TypeOK, DispStates, Threads
    <3>4. \A w \in Workers : worker[w].pc \in {"idle", "return"}
      BY <3>2 DEF BusyOn, TypeOK, RunStates, Threads
    <3> QED
      BY <2>1, <3>3, <3>4
  <2> QED
    BY <2>1, <2>2, <2>3 DEF Drained
<1>2. CASE ~Lifecycle
  <2>1. /\ lifecycle = "reset" /\ generation = 1 /\ ~activated
        /\ disp.pc \in {"idle", "exited", "context"}
        /\ \A w \in Workers : worker[w].pc \in {"idle", "return"}
    BY <1>2, ThreadsLeaveLife DEF lifeVars, LifeShape, Drained
  <2>2. CASE UNCHANGED worker /\ (UNCHANGED disp \/ Signal)
    BY <2>1, <2>2, SignalRest DEF TypeOK
  <2>3. CASE Dispatch
    <3>1. ~DispatchContext /\ \A w \in Workers : ~DispatchAcquire(w)
      BY <2>1 DEF DispatchContext, DispatchAcquire, Live
    <3>2. UNCHANGED worker /\ disp'.pc \in {"idle", "exited", "context"}
      BY <2>1, <2>3, <3>1 DEF Dispatch, DispatchTake, DispatchExit,
         DispatchDrop, DispatchWait, Idle, TypeOK, DispStates, Threads
    <3> QED
      BY <2>1, <3>2
  <2>4. ASSUME NEW w \in Workers, RunStep(w)
        PROVE  (UNCHANGED disp \/ Signal) /\ RunReturnSlot(w)
    BY <2>1, <2>4 DEF RunStep, RunCheck, RunAdmit, RunReject, RunFinish,
       RunRelease, RunReturnSlot, ReleaseWorkerSlot
  <2>5. ASSUME NEW w \in Workers, RunStep(w)
        PROVE  /\ disp'.pc \in {"idle", "exited", "context"}
               /\ \A v \in Workers : worker'[v].pc \in {"idle", "return"}
    <3>1. worker'[w].pc = "idle" /\ \A v \in Workers \ {w} : worker'[v] = worker[v]
      BY <2>4, <2>5 DEF RunReturnSlot, Idle, TypeOK
    <3> QED
      BY <2>1, <2>4, <2>5, <3>1, SignalRest DEF TypeOK
  <2>6. ASSUME NEW e \in Enqueuers,
               EnqueueStep(e) \/ (\E t \in Tasks : EnqueueGate(e, t))
        PROVE  UNCHANGED <<worker, disp>>
    BY <2>6 DEF EnqueueStep, EnqueueGate, EnqueueRead, EnqueueCheck,
       EnqueueInsert, EnqueueSend, EnqueueDrop
  <2>7. ASSUME NEW s \in Starters,
               StartStep(s) \/ (\E t \in Tasks : ReserveBegin(s, t))
        PROVE  UNCHANGED worker /\ (UNCHANGED disp \/ Signal)
    BY <2>7 DEF StartStep, ReserveBegin, ReserveHasRun, ReserveExtra,
       ReserveCount, ReserveSlot, ReserveInsert, ReserveUndo, DirectRegister,
       DirectEnd, DirectGiveBack, DirectReturnSlot, ReleaseWorkerSlot
  <2>8. UNCHANGED vars => UNCHANGED <<worker, disp>>
    BY DEF vars
  <2> QED
    BY <1>2, <2>2, <2>3, <2>5, <2>6, <2>7, <2>8, OtherSteps DEF Next
<1> QED
  BY <1>1, <1>2

-----------------------------------------------------------------------------
(* The theorems.                                                           *)

LEMMA SwitchInit == Init => SwitchInv
<1> SUFFICES ASSUME Init PROVE SwitchInv
  OBVIOUS
<1>1. LifeShape /\ RestHolds /\ Drained
  BY DEF Init, LifeShape, RestHolds, Drained, Idle
<1>2. ASSUME NEW t \in Tasks PROVE Owned(t, "none")
  <2>1. NoTask # t
    BY DaemonAssumption
  <2>2. /\ SendsOf(t) = {} /\ QueuedOf(t) = {} /\ ~DispHas(t) /\ BusyOn(t) = {}
        /\ ReservedOf(t) = {}
    BY <2>1 DEF Init, SendsOf, QueuedOf, DispHas, BusyOn, ReservedOf, Idle,
       IdleStart
  <2> QED
    BY <2>2 DEF Init, Owned, HeldAt, Lone
<1>3. EntriesOwned
  BY <1>2 DEF EntriesOwned, Hands
<1>4. BusyWorkers = {} /\ SlotStarters = {}
  BY DEF Init, BusyWorkers, SlotStarters, Idle, IdleStart
<1>5. SlotsHeld
  BY <1>4, FS_EmptySet DEF Init, SlotsHeld, HeldSlots
<1> QED
  BY <1>1, <1>3, <1>5 DEF SwitchInv

LEMMA SwitchStep == TypeOK /\ SwitchInv /\ [Next]_vars => SwitchInv'
BY LifeStep, RestStep, EntriesStep, SlotsStep, DrainedStep DEF SwitchInv

LEMMA SwitchInvariant == Spec => []SwitchInv
BY SwitchInit, SwitchStep, TypeCorrect, PTL DEF Spec

LEMMA OwnersCounted ==
    ASSUME NEW t, NEW k \in Hands, HeldAt(t, k)
    PROVE  Owners(t) = IF k = "none" THEN 0 ELSE 1
<1>1. \A S : (S = {} => Cardinality(S) = 0)
             /\ (S # {} /\ Lone(S) => Cardinality(S) = 1)
  <2>1. ASSUME NEW S, S # {}, Lone(S) PROVE Cardinality(S) = 1
    <3>1. PICK x : S = {x}
      BY <2>1 DEF Lone
    <3> QED
      BY <3>1, FS_Singleton
  <2> QED
    BY <2>1, FS_EmptySet
<1>2. /\ Cardinality(SendsOf(t)) = IF k = "enqueuer" THEN 1 ELSE 0
      /\ Cardinality(QueuedOf(t)) = IF k = "queue" THEN 1 ELSE 0
      /\ Cardinality(BusyOn(t)) = IF k = "worker" THEN 1 ELSE 0
      /\ Cardinality(ReservedOf(t)) = IF k = "starter" THEN 1 ELSE 0
  BY <1>1 DEF HeldAt
<1> QED
  BY <1>2 DEF Owners, HeldAt, Hands

LEMMA FirstBoardLives == LifeShape /\ FirstBoard => FirstLife
BY DEF LifeShape, FirstBoard, FirstLife

\* While the first board is open every counted slot is held by a thread that
\* will give it back: no undone reservation, rejected run or late release of
\* daemon.go leaks one.
THEOREM FirstBoardSlots == Spec => []FirstBoardConservesSlots
<1>1. SwitchInv => FirstBoardConservesSlots
  BY FirstBoardLives DEF SwitchInv, SlotsHeld, FirstBoardConservesSlots
<1> QED
  BY <1>1, SwitchInvariant, PTL

\* While the first board is open an entry of the daemon's active set is in
\* exactly one hand, so no release drops the entry of somebody else and a
\* task is never queued twice.
THEOREM FirstBoardEntries == Spec => []FirstBoardOwnsEntries
<1>1. SwitchInv => FirstBoardOwnsEntries
  <2> SUFFICES ASSUME SwitchInv, FirstBoard, NEW t \in Tasks
               PROVE  /\ Owners(t) = (IF t \in active THEN 1 ELSE 0)
                      /\ t \in automationActive <=> ReservedOf(t) # {}
    BY DEF FirstBoardOwnsEntries
  <2>1. PICK k \in Hands : Owned(t, k)
    BY FirstBoardLives DEF SwitchInv, EntriesOwned
  <2> QED
    BY <2>1, OwnersCounted DEF Owned, HeldAt
<1> QED
  BY <1>1, SwitchInvariant, PTL

\* The first board's Deactivate ends its drain only when no run with an entry
\* in the active set executes or is about to, however late its enqueuers are,
\* and until the maps are replaced the dispatcher starts none.
THEOREM FirstDrainWaits == Spec => FirstDrainWaitsForRuns
<1>1. TypeOK /\ SwitchInv /\ SwitchInv' /\ [Next]_vars =>
        (generation = 1 /\ lifecycle' = "reset" =>
           /\ \A w \in Workers : worker'[w].pc \in {"idle", "return"}
           /\ lifecycle # "reset" => \A t \in Tasks : ReservedOf(t) = {})
  <2> SUFFICES ASSUME TypeOK, SwitchInv, SwitchInv', [Next]_vars,
                      generation = 1, lifecycle' = "reset"
               PROVE  /\ \A w \in Workers : worker'[w].pc \in {"idle", "return"}
                      /\ lifecycle # "reset" => \A t \in Tasks : ReservedOf(t) = {}
    OBVIOUS
  <2>1. /\ generation' = 1
        /\ lifecycle # "reset" => active = {} /\ lifecycle = "wait"
    <3>1. CASE Lifecycle
      BY <3>1 DEF Lifecycle, Activate, ScheduleScan, GraceFires, BeginDeactivate,
         CancelActivation, DrainDone, DrainTimeout, ResetActive, RootCancel
    <3>2. CASE ~Lifecycle
      BY <3>2, ThreadsLeaveLife DEF lifeVars
    <3> QED
      BY <3>1, <3>2
  <2>2. \A w \in Workers : worker'[w].pc \in {"idle", "return"}
    BY <2>1 DEF SwitchInv, Drained
  <2>3. ASSUME lifecycle # "reset", NEW t \in Tasks
        PROVE  ReservedOf(t) = {}
    <3>1. FirstLife
      BY <2>1, <2>3 DEF FirstLife
    <3>2. PICK k \in Hands : Owned(t, k)
      BY <3>1 DEF SwitchInv, EntriesOwned
    <3> QED
      BY <2>1, <2>3, <3>2 DEF Owned, HeldAt
  <2> QED
    BY <2>2, <2>3
<1> QED
  BY <1>1, SwitchInvariant, TypeCorrect, PTL DEF Spec, FirstDrainWaitsForRuns

=============================================================================
