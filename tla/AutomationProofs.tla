--------------------------- MODULE AutomationProofs ---------------------------
(* Theorems about Automation, for every value of its constants.            *)
EXTENDS Automation, WellFoundedInduction, SequenceTheorems, FiniteSetTheorems,
        TLAPS

-----------------------------------------------------------------------------
(* Sorting a finite set.                                                   *)

LEMMA LeastOf ==
    ASSUME NEW T \in SUBSET Nat, T # {}
    PROVE  \E x \in T : \A y \in T : x <= y
<1> DEFINE R == OpToRel(<, Nat)
<1>1. IsWellFoundedOn(R, Nat)
  BY NatLessThanWellFounded
<1>2. R = {ss \in Nat \X Nat : ss[1] < ss[2]}
  BY DEF OpToRel
<1> HIDE DEF R
<1>3. PICK x \in T : \A y \in T : ~ (<<y, x>> \in R)
  BY <1>1, WFMin
<1>4. \A y \in T : ~(y < x)
  BY <1>2, <1>3
<1> QED
  BY <1>4

\* A strict order of the elements of D.
Orders(R, D) ==
    /\ \A x, y \in D : x # y => <<x, y>> \in R \/ <<y, x>> \in R
    /\ \A x, y, z \in D : <<x, y>> \in R /\ <<y, z>> \in R => <<x, z>> \in R

Top(R, S)       == \E m \in S : \A x \in S \ {m} : <<x, m>> \in R
InOrder(R, q)   == \A i, j \in DOMAIN q : i < j => <<q[i], q[j]>> \in R
Sortable(R, S)  == \E q \in [1..Cardinality(S) -> S] : InOrder(R, q)

LEMMA TopExists ==
    ASSUME NEW D, NEW R, Orders(R, D), NEW S \in SUBSET D, IsFiniteSet(S), S # {}
    PROVE  Top(R, S)
<1> DEFINE Bad == {n \in Nat : \E T \in SUBSET S :
                      T # {} /\ Cardinality(T) = n /\ ~Top(R, T)}
<1>0. \A T \in SUBSET S : IsFiniteSet(T) /\ Cardinality(T) \in Nat
  BY FS_Subset, FS_CardinalityType
<1>1. SUFFICES ASSUME ~Top(R, S) PROVE FALSE
  OBVIOUS
<1>2. Bad # {}
  BY <1>0, <1>1
<1>3. PICK n \in Bad : \A k \in Bad : n <= k
  <2> HIDE DEF Bad
  <2>1. Bad \in SUBSET Nat
    BY DEF Bad
  <2> QED
    BY <1>2, <2>1, LeastOf
<1>4. PICK T \in SUBSET S : T # {} /\ Cardinality(T) = n /\ ~Top(R, T)
  OBVIOUS
<1>5. PICK x \in T : TRUE
  BY <1>4
<1>6. Cardinality(T \ {x}) = n - 1 /\ n \in Nat
  BY <1>0, <1>4, <1>5, FS_RemoveElement
<1>7. T \ {x} # {}
  BY <1>4 DEF Top
<1>8. Top(R, T \ {x})
  <2>1. n - 1 \notin Bad
    <3> HIDE DEF Bad
    <3> QED
      BY <1>3, <1>6
  <2>2. n - 1 \in Nat /\ T \ {x} \in SUBSET S
    BY <1>0, <1>6
  <2> QED
    BY <1>6, <1>7, <2>1, <2>2
<1>9. PICK m \in T \ {x} : \A y \in (T \ {x}) \ {m} : <<y, m>> \in R
  BY <1>8 DEF Top
<1>10. CASE <<x, m>> \in R
  BY <1>4, <1>9, <1>10 DEF Top
<1>11. CASE <<m, x>> \in R
  <2>1. \A y \in T \ {x} : <<y, x>> \in R
    BY <1>9, <1>11 DEF Orders
  <2> QED
    BY <1>4, <2>1 DEF Top
<1> QED
  BY <1>9, <1>10, <1>11 DEF Orders

LEMMA SortExists ==
    ASSUME NEW D, NEW R, Orders(R, D), NEW S \in SUBSET D, IsFiniteSet(S)
    PROVE  Sortable(R, S)
<1> DEFINE Bad == {n \in Nat : \E T \in SUBSET S :
                      Cardinality(T) = n /\ ~Sortable(R, T)}
<1>0. \A T \in SUBSET S : IsFiniteSet(T) /\ Cardinality(T) \in Nat
  BY FS_Subset, FS_CardinalityType
<1>1. SUFFICES ASSUME ~Sortable(R, S) PROVE FALSE
  OBVIOUS
<1>2. Bad # {}
  BY <1>0, <1>1
<1>3. PICK n \in Bad : \A k \in Bad : n <= k
  <2> HIDE DEF Bad
  <2>1. Bad \in SUBSET Nat
    BY DEF Bad
  <2> QED
    BY <1>2, <2>1, LeastOf
<1>4. PICK T \in SUBSET S : Cardinality(T) = n /\ ~Sortable(R, T)
  OBVIOUS
<1>5. T # {}
  <2> SUFFICES ASSUME T = {} PROVE FALSE
    OBVIOUS
  <2>1. Cardinality(T) = 0
    BY FS_EmptySet
  <2>2. 1..0 = {} /\ [x \in {} |-> x] \in [1..0 -> T]
    OBVIOUS
  <2> QED
    BY <1>4, <2>1, <2>2 DEF Sortable, InOrder
<1>6. PICK m \in T : \A x \in T \ {m} : <<x, m>> \in R
  BY <1>0, <1>5, TopExists DEF Top
<1>7. Cardinality(T \ {m}) = n - 1 /\ n \in Nat
  BY <1>0, <1>4, <1>6, FS_RemoveElement
<1>8. Sortable(R, T \ {m})
  <2>1. n - 1 \notin Bad
    <3> HIDE DEF Bad
    <3> QED
      BY <1>3, <1>7
  <2>2. n - 1 \in Nat /\ T \ {m} \in SUBSET S
    BY <1>0, <1>7
  <2> QED
    BY <1>7, <2>1, <2>2
<1>9. PICK p \in [1..(n - 1) -> T \ {m}] : InOrder(R, p)
  BY <1>7, <1>8 DEF Sortable
<1>10. DEFINE q == [i \in 1..n |-> IF i = n THEN m ELSE p[i]]
<1>11. q \in [1..n -> T]
  BY <1>6, <1>7, <1>9
<1>12. InOrder(R, q)
  BY <1>6, <1>7, <1>9 DEF InOrder
<1> HIDE DEF q
<1> QED
  BY <1>4, <1>11, <1>12 DEF Sortable

-----------------------------------------------------------------------------
(* The records behind TypeOK.                                              *)

Statuses == {"none", "queued", "running", "needs-user"} \cup Ended
Kinds    == {"none", "groom", "implement", "review"}

Files == [stage : Stages, st : Statuses, triage : 0..2, ref : BOOLEAN,
          epoch : Nat, failed : BOOLEAN, finds : Nat]

RunStates == [id : Nat, mode : Kinds \cup {"resume"}, eff : Kinds,
              init : Kinds \cup {"user"},
              phase : {"none", "queued", "waiting", "running", "acted",
                       "orphan", "finished"},
              st : {"none"} \cup Ended, hash : 0..2, target : Nat]

Verdicts == [epoch : Nat, resumed : BOOLEAN]

Item == [groom     |-> [task : Tasks, why : 0..2],
         implement |-> Tasks,
         review    |-> [task : Tasks, ref : BOOLEAN]]

ScanStates(k) == [pc : {"idle", "sweep", "try", "start", "back"},
                  left : 0..MaxWorkers, sweep : Seq([task : Tasks, st : Lost]),
                  todo : Seq(Item[k]), wip : Nat]

\* A scan under way has a worker left, its sweep comes first, and what it
\* tries is the head of its list.
Proper(r) == /\ r.pc # "idle" => r.left > 0
             /\ r.pc # "sweep" => r.sweep = <<>>
             /\ r.pc \in {"try", "start", "back"} => r.todo # <<>>

FilesOK == file \in [Tasks -> Files] /\ closed \subseteq Tasks
RunsOK  == /\ run \in [Tasks -> RunStates]
           /\ \A t \in Tasks : run[t].id < nextRun
           /\ nextRun \in Nat
           /\ groomed \in [Tasks -> 0..2]
           /\ reviewed \in [Tasks -> SUBSET Nat]
           /\ judged \in [Tasks -> Seq(Verdicts)]
ScansOK == /\ DOMAIN scan = Coordinators
           /\ scan = [k \in Coordinators |-> scan[k]]
           /\ \A k \in Coordinators : scan[k] \in ScanStates(k) /\ Proper(scan[k])
           /\ cool \subseteq Coordinators \X Tasks
JobsOK  == /\ job = [t \in Tasks |-> job[t]]
           /\ \A t \in Tasks : job[t].kind \in
                 {"none", "handoff", "ready", "pull", "submit", "fail"}
           /\ \A t \in Tasks : job[t].kind = "none" => job[t] = NoJob
AlertOK == due \subseteq Coordinators /\ look \subseteq Tasks
HooksOK == promote \subseteq Tasks

RangeInv == FilesOK /\ RunsOK /\ ScansOK /\ JobsOK /\ AlertOK /\ HooksOK

LEMMA RangeImpliesType == RangeInv => TypeOK
BY DEF RangeInv, FilesOK, RunsOK, ScansOK, JobsOK, AlertOK, HooksOK, TypeOK, Files,
   RunStates, ScanStates, Statuses

-----------------------------------------------------------------------------
(* Facts about the operators.                                              *)

LEMMA TasksFinite ==
    ASSUME NEW T \in SUBSET Tasks
    PROVE  IsFiniteSet(T) /\ Cardinality(T) \in Nat
<1>1. IsFiniteSet(Tasks)
  BY AutomationAssumption, FS_Interval DEF Tasks, AutomationAssumption
<1> QED
  BY <1>1, FS_Subset, FS_CardinalityType

LEMMA ByIdSorts ==
    ASSUME NEW T \in SUBSET Tasks
    PROVE  /\ ById(T) \in [1..Cardinality(T) -> T]
           /\ \A i, j \in DOMAIN ById(T) : i < j => ById(T)[i] < ById(T)[j]
<1> DEFINE R == {p \in Tasks \X Tasks : p[1] < p[2]}
<1>2. \A x, y \in Tasks : <<x, y>> \in R <=> x < y
  OBVIOUS
<1> HIDE DEF R
<1>1. Orders(R, Tasks)
  <2>1. \A x \in Tasks : x \in Int
    BY AutomationAssumption DEF Tasks, AutomationAssumption
  <2> QED
    BY <1>2, <2>1 DEF Orders
<1>3. PICK q \in [1..Cardinality(T) -> T] : InOrder(R, q)
  BY <1>1, TasksFinite, SortExists DEF Sortable
<1>4. \A i, j \in DOMAIN q : i < j => q[i] < q[j]
  BY <1>2, <1>3 DEF InOrder
<1> QED
  BY <1>4 DEF ById, Sorted

LEMMA AheadSorts ==
    ASSUME FilesOK, NEW T \in SUBSET Tasks
    PROVE  Sorted(T, Ahead) \in [1..Cardinality(T) -> T]
<1> DEFINE R == {p \in Tasks \X Tasks : Ahead(p[1], p[2])}
<1>1. Orders(R, Tasks)
  <2>1. \A t \in Tasks : /\ t \in Nat /\ Priority[t] \in Nat
                         /\ file[t].failed \in BOOLEAN
    BY AutomationAssumption DEF Tasks, AutomationAssumption, FilesOK, Files
  <2>2. \A t, u \in Tasks : t # u => Ahead(t, u) \/ Ahead(u, t)
    BY <2>1 DEF Ahead
  <2>3. \A t, u, w \in Tasks : Ahead(t, u) /\ Ahead(u, w) => Ahead(t, w)
    BY <2>1 DEF Ahead
  <2> QED
    BY <2>2, <2>3 DEF Orders
<1>2. \A x, y \in Tasks : <<x, y>> \in R <=> Ahead(x, y)
  OBVIOUS
<1> HIDE DEF R
<1>3. PICK q \in [1..Cardinality(T) -> T] : InOrder(R, q)
  BY <1>1, TasksFinite, SortExists DEF Sortable
<1>4. \A i, j \in DOMAIN q : i < j => Ahead(q[i], q[j])
  BY <1>2, <1>3 DEF InOrder
<1> QED
  BY <1>4 DEF Sorted

LEMMA WriteType ==
    ASSUME FilesOK, NEW t \in Tasks, NEW f \in Files, Write(t, f)
    PROVE  FilesOK'
BY DEF FilesOK, Write

LEMMA PutType ==
    ASSUME NEW f \in Files, NEW to \in Stages
    PROVE  Put(f, to) \in Files
<1>1. PICK e \in Nat : e = IF to = "code-review" THEN f.epoch + 1 ELSE f.epoch
  BY DEF Files
<1>2. Put(f, to) = [f EXCEPT !.stage = to, !.epoch = e]
  BY <1>1 DEF Files, Put
<1> QED
  BY <1>2 DEF Files

LEMMA FlagType ==
    ASSUME NEW f \in Files, NEW e \in Nat
    PROVE  Flagged(f, e) \in Files /\ FailedTo(f, e) \in Files
<1>1. Flagged(f, e) \in Files
  BY DEF Files, Flagged, Statuses
<1>2. "ready" \in Stages
  BY DEF Stages
<1> QED
  BY <1>1, <1>2, PutType DEF FailedTo

LEMMA MoveType ==
    ASSUME NEW f \in Files
    PROVE  /\ Readied(f) \in Files /\ Submitted(f) \in Files
           /\ \A s \in Statuses : [f EXCEPT !.st = s] \in Files
<1>1. Put(f, "ready") \in Files /\ Put(f, "code-review") \in Files
  BY PutType DEF Stages
<1>2. f.failed \in BOOLEAN /\ Reworks(f) \in BOOLEAN
  BY DEF Files, Reworks
<1> QED
  BY <1>1, <1>2 DEF Files, Readied, Submitted, Statuses

\* What a task is asked to run.
LEMMA QueueType ==
    ASSUME FilesOK, RunsOK, NEW t \in Tasks, NEW mode \in Kinds \cup {"resume"},
           NEW eff \in Kinds, NEW init \in Kinds \cup {"user"}, NEW hash \in 0..2,
           Queue(t, mode, eff, init, hash)
    PROVE  FilesOK' /\ RunsOK'
<1>1. file[t] \in Files /\ [file[t] EXCEPT !.st = "queued"] \in Files
  <2>1. file[t] \in Files /\ "queued" \in Statuses
    BY DEF FilesOK, Statuses
  <2> QED
    BY <2>1, MoveType
<1>2. FilesOK'
  BY <1>1, WriteType DEF Queue
<1>3. file[t].epoch \in Nat /\ nextRun \in Nat
  BY <1>1 DEF Files, RunsOK
<1>4. [id |-> nextRun, mode |-> mode, eff |-> eff, init |-> init,
       phase |-> "queued", st |-> "none", hash |-> hash,
       target |-> file[t].epoch] \in RunStates
  BY <1>3 DEF RunStates
<1>5. run' \in [Tasks -> RunStates]
  BY <1>4 DEF Queue, RunsOK
<1>6. \A u \in Tasks : run'[u].id < nextRun'
  <2> TAKE u \in Tasks
  <2>1. run[u].id \in Nat /\ run[u].id < nextRun
    BY DEF RunsOK, RunStates
  <2>2. run'[u].id = run[u].id \/ run'[u].id = nextRun
    BY <1>4 DEF Queue, RunsOK
  <2> QED
    BY <1>3, <2>1, <2>2 DEF Queue
<1> QED
  BY <1>2, <1>3, <1>5, <1>6 DEF RunsOK, Queue

LEMMA ProgressType ==
    ASSUME RunsOK, NEW t \in Tasks
    PROVE  Progressed(t) \in [Tasks -> SUBSET Nat]
<1>1. run[t].target \in Nat
  BY DEF RunsOK, RunStates
<1> QED
  BY <1>1 DEF RunsOK, Progressed

\* A phase is a state of the run as well.
LEMMA PhaseType ==
    ASSUME RunsOK, NEW t \in Tasks,
           NEW p \in {"waiting", "running", "acted", "orphan", "finished"},
           NEW s \in {"none"} \cup Ended
    PROVE  /\ [run[t] EXCEPT !.phase = p] \in RunStates
           /\ [run[t] EXCEPT !.phase = p, !.st = s] \in RunStates
BY ZenonT(60) DEF RunsOK, RunStates

LEMMA RecordType ==
    ASSUME FilesOK, RunsOK, NEW t \in Tasks,
           NEW st \in {"success", "failed", "cancelled"}, Record(t, st)
    PROVE  FilesOK' /\ RunsOK'
<1>1. file[t] \in Files /\ run[t] \in RunStates
  BY DEF FilesOK, RunsOK
<1>2. StatusAfter(t, st) \in Statuses
  BY DEF StatusAfter, Statuses, Ended
<1>3. FilesOK'
  <2>1. CASE Asked(t, st)
    BY <2>1 DEF Record, FilesOK
  <2>2. CASE ~Asked(t, st)
    BY <1>1, <1>2, <2>2, MoveType, WriteType DEF Record
  <2> QED
    BY <2>1, <2>2
<1>4. run' = [run EXCEPT ![t] = [run[t] EXCEPT !.phase = "finished", !.st = st]]
  BY <1>1 DEF Record, RunsOK, RunStates
<1>5. [run[t] EXCEPT !.phase = "finished", !.st = st] \in RunStates
  BY PhaseType DEF Ended
<1>6. run' \in [Tasks -> RunStates] /\ \A u \in Tasks : run'[u].id = run[u].id
  BY <1>1, <1>4, <1>5 DEF RunsOK, RunStates
<1>7. groomed' \in [Tasks -> 0..2]
  BY <1>1 DEF Record, RunsOK, RunStates
<1>8. reviewed' \in [Tasks -> SUBSET Nat]
  BY ProgressType DEF Record
<1>9. judged' \in [Tasks -> Seq(Verdicts)]
  <2>1. [epoch |-> run[t].target, resumed |-> run[t].mode = "resume"] \in Verdicts
    BY <1>1 DEF RunStates, Verdicts
  <2>2. judged[t] \in Seq(Verdicts)
    BY DEF RunsOK
  <2>3. Append(judged[t], [epoch |-> run[t].target,
                           resumed |-> run[t].mode = "resume"]) \in Seq(Verdicts)
    BY <2>1, <2>2
  <2> HIDE DEF Verdicts
  <2> QED
    BY <2>3 DEF Record, RunsOK
<1>10. nextRun' = nextRun
  BY DEF Record
<1> QED
  BY <1>3, <1>6, <1>7, <1>8, <1>9, <1>10 DEF RunsOK

LEMMA AlertType ==
    ASSUME AlertOK, NEW d \in SUBSET Coordinators, NEW l \in SUBSET Tasks, Alert(d, l)
    PROVE  AlertOK'
<1>1. due' \subseteq Coordinators
  BY DEF Alert, AlertOK
<1>2. Touched \subseteq Tasks
  BY DEF Touched
<1>3. look' \subseteq Tasks
  BY <1>2 DEF Alert, AlertOK
<1> QED
  BY <1>1, <1>3 DEF AlertOK

-----------------------------------------------------------------------------
(* Scans.                                                                  *)

\* What SetScan is given.
Settles(k, r) ==
    /\ r \in ScanStates(k)
    /\ r.pc # "sweep" => r.sweep = <<>>
    /\ r.pc \in {"start", "back"} => r.left > 0 /\ r.todo # <<>>

LEMMA IdleType ==
    ASSUME NEW k \in Coordinators
    PROVE  Idle \in ScanStates(k) /\ Proper(Idle)
<1>1. 0 \in 0..MaxWorkers
  BY AutomationAssumption DEF AutomationAssumption
<1>2. <<>> \in Seq(Item[k]) /\ <<>> \in Seq([task : Tasks, st : Lost])
  OBVIOUS
<1> QED
  BY <1>1, <1>2 DEF Idle, ScanStates, Proper

LEMMA SettledType ==
    ASSUME NEW k \in Coordinators, NEW r, Settles(k, r)
    PROVE  Settled(r) \in ScanStates(k) /\ Proper(Settled(r))
<1>1. CASE Settled(r) = Idle
  BY <1>1, IdleType
<1>2. CASE Settled(r) # Idle
  <2>1. Settled(r) = r /\ r.left \in Nat
    BY <1>2 DEF Settled, Settles, ScanStates
  <2>2. /\ r.pc \in {"sweep", "try"} => r.left # 0
        /\ r.pc = "try" => r.todo # <<>>
    BY <1>2 DEF Settled
  <2> QED
    BY <2>1, <2>2 DEF Settles, Proper, ScanStates
<1> QED
  BY <1>1, <1>2

LEMMA SetScanType ==
    ASSUME ScansOK, NEW k \in Coordinators, NEW r, Settles(k, r), SetScan(k, r),
           cool' \subseteq Coordinators \X Tasks
    PROVE  ScansOK'
<1>1. Settled(r) \in ScanStates(k) /\ Proper(Settled(r))
  BY SettledType
<1>2. \A c \in Coordinators : scan'[c] = IF c = k THEN Settled(r) ELSE scan[c]
  BY DEF SetScan, ScansOK
<1>3. DOMAIN scan' = Coordinators
  BY DEF SetScan, ScansOK
<1>4. scan' = [c \in Coordinators |-> scan'[c]]
  BY <1>3 DEF SetScan, ScansOK
<1>5. \A c \in Coordinators : scan'[c] \in ScanStates(c) /\ Proper(scan'[c])
  BY <1>1, <1>2 DEF ScansOK
<1> QED
  BY <1>3, <1>4, <1>5 DEF ScansOK, ScanStates, Proper

LEMMA RemainingType == Remaining \in 0..MaxWorkers
<1>1. Cardinality(Actives) \in Nat
  BY TasksFinite DEF Actives
<1> QED
  BY <1>1, AutomationAssumption DEF Remaining, WorkersFull, AutomationAssumption

\* The tasks of a sweep, in the order of their numbers.
LEMMA SweepType ==
    ASSUME FilesOK, NEW k \in Coordinators
    PROVE  /\ Sweep(k) \in Seq([task : Tasks, st : Lost])
           /\ \A i \in DOMAIN Sweep(k) :
                 LET t == Sweep(k)[i].task
                 IN  file[t].stage = Home[k] /\ file[t].st \in Lost /\ run[t].init = k
           /\ \A i, j \in DOMAIN Sweep(k) :
                 i < j => Sweep(k)[i].task < Sweep(k)[j].task
<1> DEFINE T == {t \in In(Home[k]) : /\ file[t].st \in Lost /\ run[t].init = k
                                     /\ <<k, t>> \notin cool}
           ts == ById(T)
<1>1. T \in SUBSET Tasks /\ \A t \in T : file[t].st \in Lost /\ run[t].init = k
                                         /\ file[t].stage = Home[k]
  BY DEF In
<1> HIDE DEF T
<1>2. PICK n \in Nat : ts \in [1..n -> T]
  BY <1>1, ByIdSorts, TasksFinite
<1>3. \A i, j \in 1..n : i < j => ts[i] < ts[j]
  BY <1>1, <1>2, ByIdSorts
<1> HIDE DEF ts
<1>4. Sweep(k) = [i \in 1..n |-> [task |-> ts[i], st |-> file[ts[i]].st]]
  BY <1>2 DEF Sweep, ts, T
<1>5. \A i \in 1..n : [task |-> ts[i], st |-> file[ts[i]].st] \in [task : Tasks, st : Lost]
  BY <1>1, <1>2
<1>6. Sweep(k) \in Seq([task : Tasks, st : Lost])
  BY <1>4, <1>5
<1> QED
  BY <1>1, <1>2, <1>3, <1>4, <1>6

LEMMA FoundType ==
    ASSUME FilesOK, NEW k \in Coordinators
    PROVE  Found(k) \in Seq(Item[k])
<1>0. \A t \in Tasks : file[t].triage \in 0..2 /\ file[t].ref \in BOOLEAN
  BY DEF FilesOK, Files
<1>1. CASE k = "groom"
  <2> DEFINE T == {t \in Tasks : file[t].triage # 0 /\ Groomable(t, file[t].triage)}
             ts == ById(T)
  <2>1. T \in SUBSET Tasks
    OBVIOUS
  <2> HIDE DEF T
  <2>2. PICK n \in Nat : ts \in [1..n -> T]
    BY <2>1, ByIdSorts, TasksFinite
  <2> HIDE DEF ts
  <2>3. \A i \in 1..n : [task |-> ts[i], why |-> file[ts[i]].triage] \in Item[k]
    BY <1>0, <1>1, <2>1, <2>2 DEF Item
  <2>4. Item[k] = [task : Tasks, why : 0..2]
    BY <1>1 DEF Item
  <2>5. \/ Found(k) = <<>>
        \/ Found(k) = [i \in 1..n |-> [task |-> ts[i], why |-> file[ts[i]].triage]]
    BY <1>1, <2>2 DEF Found, ts, T
  <2> DEFINE ItemK == Item[k]
             q == [i \in 1..n |-> [task |-> ts[i], why |-> file[ts[i]].triage]]
  <2>6. \A i \in 1..n : q[i] \in ItemK
    BY <2>3
  <2> HIDE DEF ItemK
  <2>7. q \in Seq(ItemK) /\ <<>> \in Seq(ItemK)
    BY <2>6
  <2> HIDE DEF q
  <2> QED
    BY <2>5, <2>7 DEF ItemK, q
<1>2. CASE k = "implement"
  <2> DEFINE T == {t \in Tasks : Implementable(t)}
             ts == Sorted(T, Ahead)
  <2>1. T \in SUBSET Tasks
    OBVIOUS
  <2>2. PICK n \in Nat : ts \in [1..n -> T]
    <3> HIDE DEF T
    <3> QED
      BY <2>1, AheadSorts, TasksFinite
  <2>3. Found(k) = <<>> \/ Found(k) = ts
    BY <1>2 DEF Found
  <2> HIDE DEF ts
  <2>4. ts \in Seq(Tasks)
    BY <2>1, <2>2
  <2>5. Item[k] = Tasks /\ <<>> \in Seq(Tasks)
    BY <1>2 DEF Item
  <2> QED
    BY <2>3, <2>4, <2>5
<1>3. CASE k = "review"
  <2> DEFINE T == {t \in Tasks : Reviewable(t) /\ (file[t].ref => Unreviewed(t))}
             ts == ById(T)
  <2>1. T \in SUBSET Tasks
    OBVIOUS
  <2> HIDE DEF T
  <2>2. PICK n \in Nat : ts \in [1..n -> T]
    BY <2>1, ByIdSorts, TasksFinite
  <2> HIDE DEF ts
  <2>3. \A i \in 1..n : [task |-> ts[i], ref |-> file[ts[i]].ref] \in Item[k]
    BY <1>0, <1>3, <2>1, <2>2 DEF Item
  <2>5. Found(k) = [i \in 1..n |-> [task |-> ts[i], ref |-> file[ts[i]].ref]]
    BY <1>3, <2>2 DEF Found, ts, T
  <2> QED
    BY <2>3, <2>5
<1> QED
  BY <1>1, <1>2, <1>3 DEF Coordinators

LEMMA ScanType ==
    ASSUME FilesOK, NEW k \in Coordinators
    PROVE  /\ Scan(k) \in ScanStates(k) /\ Proper(Scan(k))
           /\ Scan(k).sweep \in {<<>>, Sweep(k)}
           /\ Scan(k).todo \in {<<>>, Found(k)}
<1> DEFINE s == Sweep(k)
           r == [pc |-> IF s = <<>> THEN "try" ELSE "sweep",
                 left |-> Remaining, sweep |-> s,
                 todo |-> IF k = "groom" /\ s # <<>> THEN <<>> ELSE Found(k),
                 wip |-> Count("in-progress")]
<1>1. Scan(k) = Settled(r)
  BY DEF Scan
<1>2. s \in Seq([task : Tasks, st : Lost]) /\ Found(k) \in Seq(Item[k])
  BY SweepType, FoundType
<1>3. Count("in-progress") \in Nat /\ Remaining \in 0..MaxWorkers
  BY TasksFinite, RemainingType DEF Count, In
<1>4. Settles(k, r)
  <2> HIDE DEF s
  <2>1. <<>> \in Seq(Item[k])
    OBVIOUS
  <2> QED
    BY <1>2, <1>3, <2>1 DEF Settles, ScanStates
<1>5. Settled(r).sweep \in {<<>>, s} /\ Settled(r).todo \in {<<>>, Found(k)}
  <2> HIDE DEF s
  <2> QED
    BY DEF Settled, Idle
<1> QED
  BY <1>1, <1>4, <1>5, SettledType

LEMMA HeadTail ==
    ASSUME NEW S, NEW q \in Seq(S), q # <<>>
    PROVE  Head(q) \in S /\ Tail(q) \in Seq(S)
OBVIOUS

LEMMA ElementOf ==
    ASSUME NEW S, NEW q \in Seq(S)
    PROVE  \A i \in 1..Len(q) : q[i] \in S
OBVIOUS

LEMMA TodoHead ==
    ASSUME ScansOK, NEW k \in Coordinators, scan[k].pc \in {"try", "start", "back"}
    PROVE  Head(scan[k].todo) \in Item[k]
<1>1. scan[k].todo \in Seq(Item[k]) /\ scan[k].todo # <<>>
  BY DEF ScansOK, ScanStates, Proper
<1> QED
  BY <1>1, HeadTail

\* The scan goes on with the next task, one worker less or one task more in
\* the column.
LEMMA NextTaskType ==
    ASSUME ScansOK, NEW k \in Coordinators, scan[k].pc \in {"try", "start", "back"}
    PROVE  /\ Settles(k, NextTask(k)) /\ Settles(k, Started(NextTask(k)))
           /\ LET r == [NextTask(k) EXCEPT !.wip = @ + 1]
              IN  Settles(k, r) /\ Settles(k, Started(r))
<1> DEFINE s == scan[k]
<1>1. s \in ScanStates(k) /\ Proper(s)
  BY DEF ScansOK
<1>2. Tail(s.todo) \in Seq(Item[k]) /\ s.sweep = <<>>
  <2>1. s.todo \in Seq(Item[k]) /\ s.todo # <<>>
    BY <1>1 DEF ScanStates, Proper
  <2> QED
    BY <1>1, <2>1, HeadTail DEF Proper
<1>3. s.left - 1 \in 0..MaxWorkers /\ s.wip + 1 \in Nat
  BY <1>1, AutomationAssumption DEF ScanStates, Proper, AutomationAssumption
<1>4. /\ NextTask(k) = [s EXCEPT !.pc = "try", !.todo = Tail(s.todo)]
      /\ NextTask(k) \in ScanStates(k)
      /\ NextTask(k).pc = "try" /\ NextTask(k).sweep = <<>>
      /\ NextTask(k).left = s.left /\ NextTask(k).wip = s.wip
  BY <1>1, <1>2 DEF NextTask, ScanStates
<1> HIDE DEF s
<1>5. Settles(k, NextTask(k))
  BY <1>4 DEF Settles
<1>6. Settles(k, Started(NextTask(k)))
  BY <1>3, <1>4 DEF Settles, Started, ScanStates
<1>7. [NextTask(k) EXCEPT !.wip = @ + 1] \in ScanStates(k)
  BY <1>3, <1>4 DEF ScanStates
<1>8. Settles(k, [NextTask(k) EXCEPT !.wip = @ + 1])
  BY <1>4, <1>7 DEF Settles, ScanStates
<1>9. Settles(k, Started([NextTask(k) EXCEPT !.wip = @ + 1]))
  BY <1>3, <1>4, <1>7 DEF Settles, Started, ScanStates
<1> QED
  BY <1>5, <1>6, <1>8, <1>9

LEMMA KindsOfScans ==
    ASSUME NEW k \in Coordinators
    PROVE  k \in Kinds /\ k \in Kinds \cup {"resume"} /\ k \in Kinds \cup {"user"}
BY DEF Coordinators, Kinds

-----------------------------------------------------------------------------
(* Every step of a scan keeps the types.                                   *)

LEMMA ScanBeginsRange ==
    ASSUME RangeInv, NEW k \in Coordinators, ScanBegins(k)
    PROVE  RangeInv'
<1>1. FilesOK' /\ RunsOK' /\ JobsOK' /\ HooksOK'
  BY DEF RangeInv, ScanBegins, board, runs, fixer, FilesOK, RunsOK, JobsOK, HooksOK
<1>2. ScansOK'
  <2>1. Settles(k, Scan(k))
    BY ScanType DEF RangeInv, Settles, Proper
  <2> QED
    BY <2>1, SetScanType DEF RangeInv, ScanBegins, ScansOK
<1>3. AlertOK'
  <2>1. due \ {k} \in SUBSET Coordinators
    BY DEF RangeInv, AlertOK
  <2> QED
    BY <2>1, AlertType DEF RangeInv, ScanBegins
<1> QED
  BY <1>1, <1>2, <1>3 DEF RangeInv

LEMMA DueAlert ==
    ASSUME RangeInv, Alert(due, {})
    PROVE  AlertOK'
<1>1. due \in SUBSET Coordinators
  BY DEF RangeInv, AlertOK
<1> QED
  BY <1>1, AlertType DEF RangeInv

LEMMA ResumesRange ==
    ASSUME RangeInv, NEW k \in Coordinators, Resumes(k)
    PROVE  RangeInv'
<1> DEFINE s == scan[k]
           h == Head(s.sweep)
           rest == [s EXCEPT !.sweep = Tail(s.sweep)]
<1>1. s \in ScanStates(k) /\ Proper(s) /\ s.pc = "sweep" /\ s.sweep # <<>>
  BY DEF RangeInv, ScansOK, Resumes
<1>2. h \in [task : Tasks, st : Lost] /\ Tail(s.sweep) \in Seq([task : Tasks, st : Lost])
  BY <1>1, HeadTail DEF ScanStates
<1>3. h.task \in Tasks
  BY <1>2
<1>4. rest \in ScanStates(k) /\ rest.pc = "sweep" /\ rest.left = s.left
  BY <1>1, <1>2 DEF ScanStates
<1>5. s.left - 1 \in 0..MaxWorkers
  BY <1>1, AutomationAssumption, SMTT(30) DEF ScanStates, Proper, AutomationAssumption
<1>6. Settles(k, rest) /\ Settles(k, Started(rest))
  <2> HIDE DEF rest
  <2> QED
    BY <1>4, <1>5 DEF Settles, Started, ScanStates
<1>7. JobsOK' /\ HooksOK' /\ AlertOK'
  BY DueAlert DEF RangeInv, Resumes, fixer, JobsOK, HooksOK
<1>8. CASE /\ IF h.st = "interrupted" THEN Queue(h.task, "resume", ParentMode(h.task), k, 0)
              ELSE Queue(h.task, k, k, k, 0)
           /\ SetScan(k, Started(rest)) /\ UNCHANGED cool
  <2>1. FilesOK' /\ RunsOK'
    <3>1. "resume" \in Kinds \cup {"resume"} /\ 0 \in 0..2
      OBVIOUS
    <3>2. run[h.task].eff \in Kinds /\ "implement" \in Kinds
      BY <1>3 DEF RangeInv, RunsOK, RunStates, Kinds
    <3>3. ParentMode(h.task) \in Kinds
      BY <3>2 DEF ParentMode
    <3> HIDE DEF h
    <3> QED
      BY <1>3, <1>8, <3>1, <3>3, KindsOfScans, QueueType DEF RangeInv
  <2>2. ScansOK'
    <3> HIDE DEF rest
    <3> QED
      BY <1>6, <1>8, SetScanType DEF RangeInv, ScansOK
  <2> QED
    BY <1>7, <2>1, <2>2 DEF RangeInv
<1>9. CASE /\ cool' = IF HasActiveRun(h.task) THEN cool ELSE cool \cup {<<k, h.task>>}
           /\ SetScan(k, rest) /\ UNCHANGED <<board, runs>>
  <2>1. FilesOK' /\ RunsOK'
    BY <1>9 DEF RangeInv, board, runs, FilesOK, RunsOK
  <2>2. cool' \subseteq Coordinators \X Tasks
    <3> HIDE DEF h
    <3> QED
      BY <1>3, <1>9 DEF RangeInv, ScansOK
  <2>3. ScansOK'
    <3> HIDE DEF rest
    <3> QED
      BY <1>6, <1>9, <2>2, SetScanType DEF RangeInv
  <2> QED
    BY <1>7, <2>1, <2>3 DEF RangeInv
<1> QED
  BY <1>8, <1>9 DEF Resumes

LEMMA ListsRange ==
    ASSUME RangeInv, NEW k \in Coordinators, Lists(k)
    PROVE  RangeInv'
<1> DEFINE r == [scan[k] EXCEPT !.pc = "try",
                                !.todo = IF k = "groom" THEN Found(k) ELSE @]
<1>1. FilesOK' /\ RunsOK' /\ JobsOK' /\ HooksOK' /\ AlertOK'
  BY DEF RangeInv, Lists, board, runs, fixer, FilesOK, RunsOK, JobsOK, HooksOK, AlertOK
<1>2. scan[k] \in ScanStates(k) /\ scan[k].sweep = <<>>
  BY DEF RangeInv, ScansOK, Lists
<1>3. Found(k) \in Seq(Item[k])
  BY FoundType DEF RangeInv
<1>4. r \in ScanStates(k) /\ r.pc = "try" /\ r.sweep = <<>>
  BY <1>2, <1>3 DEF ScanStates
<1>5. SetScan(k, r) /\ cool' = cool
  BY DEF Lists
<1> HIDE DEF r
<1>6. ScansOK'
  BY <1>4, <1>5, SetScanType DEF RangeInv, ScansOK, Settles
<1> QED
  BY <1>1, <1>6 DEF RangeInv

\* A step that leaves the jobs and the promotions and alerts nobody else.
LEMMA OthersKept ==
    ASSUME RangeInv, Alert(due, {}), UNCHANGED <<promote, fixer>>
    PROVE  JobsOK' /\ HooksOK' /\ AlertOK'
BY DueAlert DEF RangeInv, fixer, JobsOK, HooksOK

LEMMA CoolKept ==
    ASSUME ScansOK, UNCHANGED cool
    PROVE  cool' \subseteq Coordinators \X Tasks
BY DEF ScansOK

LEMMA GroomTriesRange ==
    ASSUME RangeInv, GroomTries
    PROVE  RangeInv'
<1> DEFINE k == "groom"
           e == Head(scan[k].todo)
<1>0. k \in Coordinators /\ scan[k].pc \in {"try", "start", "back"}
  BY DEF Coordinators, GroomTries, Trying
<1>1. e.task \in Tasks /\ e.why \in 0..2
  <2>1. e \in [task : Tasks, why : 0..2]
    BY <1>0, TodoHead DEF RangeInv, Item
  <2> QED
    BY <2>1
<1>2. JobsOK' /\ HooksOK' /\ AlertOK' /\ cool' \subseteq Coordinators \X Tasks
  BY OthersKept, CoolKept DEF RangeInv, GroomTries
<1>3. Settles(k, NextTask(k)) /\ Settles(k, Started(NextTask(k)))
  BY <1>0, NextTaskType DEF RangeInv
<1>4. \/ Queue(e.task, k, k, k, e.why) /\ SetScan(k, Started(NextTask(k)))
      \/ SetScan(k, NextTask(k)) /\ UNCHANGED <<board, runs>>
  BY DEF GroomTries
<1> HIDE DEF e, k
<1>5. ScansOK'
  BY <1>0, <1>2, <1>3, <1>4, SetScanType DEF RangeInv
<1>6. FilesOK' /\ RunsOK'
  <2>1. CASE Queue(e.task, k, k, k, e.why)
    BY <1>0, <1>1, <2>1, KindsOfScans, QueueType DEF RangeInv
  <2>2. CASE UNCHANGED <<board, runs>>
    BY <2>2 DEF RangeInv, board, runs, FilesOK, RunsOK
  <2> QED
    BY <1>4, <2>1, <2>2
<1> QED
  BY <1>2, <1>5, <1>6 DEF RangeInv

LEMMA ReviewTriesRange ==
    ASSUME RangeInv, ReviewTries
    PROVE  RangeInv'
<1> DEFINE k == "review"
           e == Head(scan[k].todo)
           t == e.task
<1>0. k \in Coordinators /\ scan[k].pc \in {"try", "start", "back"}
  BY DEF Coordinators, ReviewTries, Trying
<1>1. t \in Tasks
  <2>1. e \in [task : Tasks, ref : BOOLEAN]
    BY <1>0, TodoHead DEF RangeInv, Item
  <2> QED
    BY <2>1
<1>2. JobsOK' /\ HooksOK' /\ AlertOK' /\ cool' \subseteq Coordinators \X Tasks
  BY OthersKept, CoolKept DEF RangeInv, ReviewTries
<1>3. Settles(k, NextTask(k)) /\ Settles(k, Started(NextTask(k)))
  BY <1>0, NextTaskType DEF RangeInv
<1>4. \/ Queue(t, k, k, k, 0) /\ SetScan(k, Started(NextTask(k)))
      \/ /\ SetScan(k, NextTask(k)) /\ UNCHANGED runs
         /\ UNCHANGED board \/ Write(t, [file[t] EXCEPT !.st = "needs-user"])
  BY DEF ReviewTries
<1> HIDE DEF t, e, k
<1>5. ScansOK'
  BY <1>0, <1>2, <1>3, <1>4, SetScanType DEF RangeInv
<1>6. FilesOK' /\ RunsOK'
  <2>1. CASE Queue(t, k, k, k, 0)
    <3>1. 0 \in 0..2
      OBVIOUS
    <3> QED
      BY <1>0, <1>1, <2>1, <3>1, KindsOfScans, QueueType DEF RangeInv
  <2>2. CASE UNCHANGED runs /\ UNCHANGED board
    BY <2>2 DEF RangeInv, board, runs, FilesOK, RunsOK
  <2>3. CASE UNCHANGED runs /\ Write(t, [file[t] EXCEPT !.st = "needs-user"])
    <3>1. RunsOK'
      BY <2>3 DEF RangeInv, runs, RunsOK
    <3>2. file[t] \in Files /\ "needs-user" \in Statuses
      BY <1>1 DEF RangeInv, FilesOK, Statuses
    <3> QED
      BY <1>1, <2>3, <3>1, <3>2, MoveType, WriteType DEF RangeInv
  <2> QED
    BY <1>4, <2>1, <2>2, <2>3
<1> QED
  BY <1>2, <1>5, <1>6 DEF RangeInv

\* The three steps of startCandidate.
LEMMA ImplementRange ==
    ASSUME RangeInv, ImplementPulls \/ ImplementStarts \/ ImplementPutsBack
    PROVE  RangeInv'
<1> DEFINE k == "implement"
           t == Head(scan[k].todo)
           stays == [NextTask(k) EXCEPT !.wip = @ + 1]
           held(pc) == [scan[k] EXCEPT !.pc = pc]
<1>0. k \in Coordinators /\ scan[k].pc \in {"try", "start", "back"}
  BY DEF Coordinators, ImplementPulls, ImplementStarts, ImplementPutsBack, Trying
<1>1. t \in Tasks
  BY <1>0, TodoHead DEF RangeInv, Item
<1>2. JobsOK' /\ HooksOK' /\ AlertOK' /\ cool' \subseteq Coordinators \X Tasks
  BY OthersKept, CoolKept DEF RangeInv, ImplementPulls, ImplementStarts,
     ImplementPutsBack
<1>3. /\ Settles(k, NextTask(k)) /\ Settles(k, stays) /\ Settles(k, Started(stays))
  BY <1>0, NextTaskType DEF RangeInv
<1>4. Settles(k, held("start")) /\ Settles(k, held("back"))
  <2>1. scan[k] \in ScanStates(k) /\ Proper(scan[k])
    BY <1>0 DEF RangeInv, ScansOK
  <2> QED
    BY <1>0, <2>1 DEF Settles, ScanStates, Proper
<1>5. PICK r \in {NextTask(k), stays, Started(stays), held("start"), held("back")} :
           SetScan(k, r)
  BY DEF ImplementPulls, ImplementStarts, ImplementPutsBack
<1>6. \/ UNCHANGED runs /\ Write(t, Put(file[t], "in-progress"))
      \/ UNCHANGED runs /\ Write(t, Put(file[t], "ready"))
      \/ UNCHANGED <<board, runs>>
      \/ Queue(t, k, k, k, 0)
  BY DEF ImplementPulls, ImplementStarts, ImplementPutsBack
<1> HIDE DEF t, k, stays, held
<1>7. ScansOK'
  BY <1>0, <1>2, <1>3, <1>4, <1>5, SetScanType DEF RangeInv
<1>8. FilesOK' /\ RunsOK'
  <2>1. CASE Queue(t, k, k, k, 0)
    <3>1. 0 \in 0..2
      OBVIOUS
    <3> QED
      BY <1>0, <1>1, <2>1, <3>1, KindsOfScans, QueueType DEF RangeInv
  <2>2. CASE UNCHANGED <<board, runs>>
    BY <2>2 DEF RangeInv, board, runs, FilesOK, RunsOK
  <2>3. ASSUME NEW s \in {"in-progress", "ready"}, UNCHANGED runs,
               Write(t, Put(file[t], s))
        PROVE  FilesOK' /\ RunsOK'
    <3>1. RunsOK'
      BY <2>3 DEF RangeInv, runs, RunsOK
    <3>2. file[t] \in Files /\ s \in Stages
      BY <1>1 DEF RangeInv, FilesOK, Stages
    <3> QED
      BY <1>1, <2>3, <3>1, <3>2, PutType, WriteType DEF RangeInv
  <2> QED
    BY <1>6, <2>1, <2>2, <2>3
<1> QED
  BY <1>2, <1>7, <1>8 DEF RangeInv

-----------------------------------------------------------------------------
(* The other steps keep the types.                                         *)

\* A step that changes at most one file and no run.
LEMMA FileStep ==
    ASSUME RangeInv, UNCHANGED runs, NEW t \in Tasks,
           UNCHANGED board \/ \E f \in Files : Write(t, f)
    PROVE  FilesOK' /\ RunsOK'
<1>1. RunsOK'
  BY DEF RangeInv, runs, RunsOK
<1>2. CASE UNCHANGED board
  BY <1>1, <1>2 DEF RangeInv, board, FilesOK
<1>3. CASE \E f \in Files : Write(t, f)
  BY <1>1, <1>3, WriteType DEF RangeInv
<1> QED
  BY <1>2, <1>3

LEMMA ScansKept ==
    ASSUME RangeInv, UNCHANGED <<scan, cool>>
    PROVE  ScansOK'
BY DEF RangeInv, ScansOK

LEMMA PromotesRange ==
    ASSUME RangeInv, NEW t \in Tasks, Promotes(t)
    PROVE  RangeInv'
<1>1. file[t] \in Files
  BY DEF RangeInv, FilesOK
<1>2. FilesOK' /\ RunsOK'
  BY <1>1, MoveType, FileStep DEF Promotes
<1>3. ScansOK' /\ AlertOK'
  BY ScansKept, DueAlert DEF Promotes
<1>4. JobsOK' /\ HooksOK'
  BY DEF RangeInv, Promotes, fixer, JobsOK, HooksOK
<1> QED
  BY <1>2, <1>3, <1>4 DEF RangeInv

LEMMA RepairKind ==
    ASSUME NEW t \in Tasks
    PROVE  /\ RepairOf(t).kind \in {"none", "handoff", "ready", "pull", "submit", "fail"}
           /\ RepairOf(t).kind = "none" => RepairOf(t) = NoJob
BY DEF RepairOf, NoJob, Repair

LEMMA ReconcilesRange ==
    ASSUME RangeInv, NEW t \in Tasks, Reconciles(t)
    PROVE  RangeInv'
<1>1. FilesOK' /\ RunsOK' /\ ScansOK' /\ HooksOK'
  BY DEF RangeInv, Reconciles, board, runs, FilesOK, RunsOK, ScansOK, HooksOK
<1>2. AlertOK'
  BY DEF RangeInv, Reconciles, AlertOK
<1>3. JobsOK'
  <2> DEFINE r == RepairOf(t)
  <2>1. /\ r.kind \in {"none", "handoff", "ready", "pull", "submit", "fail"}
        /\ r.kind = "none" => r = NoJob
    BY RepairKind
  <2>2. job' = job \/ job' = [job EXCEPT ![t] = r]
    BY DEF Reconciles
  <2> HIDE DEF r
  <2> QED
    BY <2>1, <2>2 DEF RangeInv, JobsOK
<1> QED
  BY <1>1, <1>2, <1>3 DEF RangeInv

LEMMA RepairsRange ==
    ASSUME RangeInv, NEW t \in Tasks, Repairs(t)
    PROVE  RangeInv'
<1>1. file[t] \in Files /\ file[t].finds \in Nat
  BY DEF RangeInv, FilesOK, Files
<1>2. FilesOK' /\ RunsOK'
  <2>1. ASSUME RepairWorks(t) PROVE Repaired(t) \in Files
    <3>1. job[t].kind \in {"handoff", "ready", "pull", "submit", "fail"}
      BY DEF Repairs, RangeInv, JobsOK
    <3>2. /\ Put(file[t], "ready") \in Files /\ Put(file[t], "in-progress") \in Files
          /\ Readied(file[t]) \in Files /\ Submitted(file[t]) \in Files
          /\ FailedTo(file[t], file[t].finds) \in Files
      BY <1>1, PutType, MoveType, FlagType DEF Stages
    <3> QED
      BY <3>1, <3>2 DEF Repaired
  <2> QED
    BY <2>1, FileStep DEF Repairs
<1>3. ScansOK' /\ AlertOK'
  BY ScansKept, DueAlert DEF Repairs
<1>4. HooksOK' /\ JobsOK'
  BY DEF RangeInv, Repairs, HooksOK, JobsOK, NoJob
<1> QED
  BY <1>2, <1>3, <1>4 DEF RangeInv

\* A run whose phase changes.
LEMMA PhaseStep ==
    ASSUME RangeInv, NEW t \in Tasks, NEW p \in {"running", "acted"},
           run' = [run EXCEPT ![t].phase = p],
           UNCHANGED <<groomed, nextRun, judged>>,
           reviewed' \in {reviewed, Progressed(t)}
    PROVE  RunsOK'
<1>1. [run[t] EXCEPT !.phase = p] \in RunStates /\ run[t] \in RunStates
  BY PhaseType DEF RangeInv, RunsOK
<1>2. run' = [run EXCEPT ![t] = [run[t] EXCEPT !.phase = p]]
  OBVIOUS
<1>3. run' \in [Tasks -> RunStates] /\ \A u \in Tasks : run'[u].id = run[u].id
  BY <1>1, <1>2 DEF RangeInv, RunsOK, RunStates
<1>4. reviewed' \in [Tasks -> SUBSET Nat]
  BY ProgressType DEF RangeInv, RunsOK
<1> QED
  BY <1>3, <1>4 DEF RangeInv, RunsOK

LEMMA RunBeginsRange ==
    ASSUME RangeInv, NEW t \in Tasks, RunBegins(t)
    PROVE  RangeInv'
<1>1. FilesOK'
  <2>1. file[t] \in Files /\ "running" \in Statuses
    BY DEF RangeInv, FilesOK, Statuses
  <2> QED
    BY <2>1, MoveType, WriteType DEF RangeInv, RunBegins
<1>2. RunsOK'
  BY PhaseStep DEF RunBegins
<1>3. ScansOK' /\ JobsOK' /\ HooksOK' /\ AlertOK'
  BY ScansKept, OthersKept DEF RunBegins
<1> QED
  BY <1>1, <1>2, <1>3 DEF RangeInv

LEMMA ActsType ==
    ASSUME NEW f \in Files
    PROVE  /\ [f EXCEPT !.st = "needs-user"] \in Files
           /\ \A r \in 0..2 : [f EXCEPT !.triage = r] \in Files
           /\ [f EXCEPT !.ref = TRUE] \in Files
           /\ Submitted([f EXCEPT !.ref = TRUE]) \in Files
           /\ Put(f, "done") \in Files
           /\ FailedTo(f, f.epoch) \in Files /\ Flagged(f, f.epoch) \in Files
<1>1. f.epoch \in Nat /\ "needs-user" \in Statuses /\ "done" \in Stages
  BY DEF Files, Statuses, Stages
<1>2. [f EXCEPT !.ref = TRUE] \in Files /\ \A r \in 0..2 : [f EXCEPT !.triage = r] \in Files
  BY DEF Files
<1> QED
  BY <1>1, <1>2, MoveType, PutType, FlagType

LEMMA AgentActsRange ==
    ASSUME RangeInv, NEW t \in Tasks, AgentActs(t)
    PROVE  RangeInv'
<1>1. file[t] \in Files
  BY DEF RangeInv, FilesOK
<1>2. FilesOK'
  <2>1. PICK g \in Files : Write(t, g)
    BY <1>1, ActsType DEF AgentActs
  <2> QED
    BY <2>1, WriteType DEF RangeInv
<1>3. RunsOK'
  BY PhaseStep DEF AgentActs
<1>4. ScansOK' /\ JobsOK' /\ HooksOK' /\ AlertOK'
  BY ScansKept, OthersKept DEF AgentActs
<1> QED
  BY <1>2, <1>3, <1>4 DEF RangeInv

\* An end of a run and what follows it.
LEMMA EndRange ==
    ASSUME RangeInv, NEW t \in Tasks, NEW st \in {"success", "failed", "cancelled"},
           Record(t, st), Hooks(t, st), UNCHANGED <<scan, cool, fixer>>
    PROVE  RangeInv'
<1>1. FilesOK' /\ RunsOK'
  BY RecordType DEF RangeInv
<1>2. ScansOK' /\ JobsOK'
  BY DEF RangeInv, ScansOK, fixer, JobsOK
<1>3. HooksOK'
  BY DEF RangeInv, HooksOK, Hooks
<1>4. AlertOK'
  <2>1. PICK d \in SUBSET Coordinators : Alert(d, {t})
    <3>1. due \cup {k \in {"review"} : run[t].mode = k} \in SUBSET Coordinators
      BY DEF RangeInv, AlertOK, Coordinators
    <3> QED
      BY <3>1 DEF Hooks
  <2> QED
    BY <2>1, AlertType DEF RangeInv
<1> QED
  BY <1>1, <1>2, <1>3, <1>4 DEF RangeInv

LEMMA RunEndsRange ==
    ASSUME RangeInv, NEW t \in Tasks, RunEnds(t)
    PROVE  RangeInv'
<1>1. PICK st \in {"success", "failed"} :
           Record(t, st) /\ Hooks(t, st) /\ UNCHANGED <<scan, cool, fixer>>
  BY DEF RunEnds
<1> QED
  BY <1>1, EndRange

LEMMA UserCancelsRange ==
    ASSUME RangeInv, NEW t \in Tasks, UserCancels(t)
    PROVE  RangeInv'
BY EndRange DEF UserCancels

LEMMA UserEditsRange ==
    ASSUME RangeInv, NEW t \in Tasks, UserEdits(t)
    PROVE  RangeInv'
<1>1. file[t] \in Files
  BY DEF RangeInv, FilesOK
<1>2. /\ \A s \in Stages : Put(file[t], s) \in Files
      /\ [file[t] EXCEPT !.st = "none"] \in Files
      /\ [file[t] EXCEPT !.triage = 2] \in Files
  <2>1. "none" \in Statuses /\ 2 \in 0..2
    BY DEF Statuses
  <2> QED
    BY <1>1, <2>1, PutType, MoveType, ActsType
<1>3. \E g \in Files : Write(t, g)
  BY <1>2 DEF UserEdits
<1>4. FilesOK' /\ RunsOK'
  BY <1>3, FileStep DEF UserEdits
<1>5. ScansOK' /\ JobsOK' /\ HooksOK' /\ AlertOK'
  BY ScansKept, OthersKept DEF UserEdits
<1> QED
  BY <1>4, <1>5 DEF RangeInv

LEMMA UserRunsRange ==
    ASSUME RangeInv, NEW t \in Tasks, UserRuns(t)
    PROVE  RangeInv'
<1>1. PICK mode \in {"groom", "implement", "review"} : Queue(t, mode, mode, "user", 0)
  BY DEF UserRuns
<1>2. mode \in Kinds /\ mode \in Kinds \cup {"resume"} /\ 0 \in 0..2
      /\ "user" \in Kinds \cup {"user"}
  BY DEF Kinds
<1>3. FilesOK' /\ RunsOK'
  BY <1>1, <1>2, QueueType DEF RangeInv
<1>4. ScansOK' /\ JobsOK' /\ HooksOK' /\ AlertOK'
  BY ScansKept, OthersKept DEF UserRuns
<1> QED
  BY <1>3, <1>4 DEF RangeInv

LEMMA CoolsDownRange ==
    ASSUME RangeInv, NEW k \in Coordinators, NEW t \in Tasks, CoolsDown(k, t)
    PROVE  RangeInv'
BY DEF RangeInv, CoolsDown, runs, fixer, FilesOK, RunsOK, ScansOK, JobsOK, AlertOK,
   HooksOK

\* A crash leaves each file as it is but for the status of a run that dies.
LEMMA CrashShape ==
    ASSUME RangeInv, Crash
    PROVE  \A t \in Tasks :
             \/ \E s \in Lost :
                  /\ run[t].phase \in {"running", "acted"}
                  /\ run'[t] = [run[t] EXCEPT !.phase = "finished", !.st = s]
                  /\ file'[t] = [file[t] EXCEPT !.st = s]
             \/ /\ file'[t] = file[t]
                /\ \/ run'[t] = run[t] /\ ~HasActiveRun(t)
                   \/ /\ run[t].phase = "queued"
                      /\ run'[t] = [run[t] EXCEPT !.phase = "waiting"]
                   \/ /\ run[t].phase \in {"running", "acted"}
                      /\ run'[t] = [run[t] EXCEPT !.phase = "orphan"]
<1> TAKE t \in Tasks
<1> DEFINE dies == {u \in Tasks : /\ run[u].phase \in {"running", "acted"}
                                  /\ file[u].st = "running"}
<1>1. PICK fate \in [dies -> Lost] :
        /\ run' = [u \in Tasks |->
             IF u \in dies THEN [run[u] EXCEPT !.phase = "finished", !.st = fate[u]]
             ELSE IF HasActiveRun(u) THEN
                [run[u] EXCEPT !.phase = IF @ = "queued" THEN "waiting" ELSE "orphan"]
             ELSE run[u]]
        /\ file' = [u \in Tasks |->
             IF u \in dies THEN [file[u] EXCEPT !.st = fate[u]] ELSE file[u]]
  BY DEF Crash
<1>2. run[t].phase \in {"none", "queued", "waiting", "running", "acted",
                        "orphan", "finished"} /\ run[t] \in RunStates
  BY DEF RangeInv, RunsOK, RunStates
<1>3. CASE t \in dies
  <2>1. fate[t] \in Lost
    BY <1>1, <1>3
  <2>2. run[t].phase \in {"running", "acted"}
    BY <1>3
  <2>3. /\ run'[t] = [run[t] EXCEPT !.phase = "finished", !.st = fate[t]]
        /\ file'[t] = [file[t] EXCEPT !.st = fate[t]]
    BY <1>1, <1>3
  <2> QED
    BY <2>1, <2>2, <2>3
<1>4. CASE t \notin dies /\ HasActiveRun(t)
  <2>1. /\ file'[t] = file[t]
        /\ run'[t] = [run[t] EXCEPT !.phase =
                        IF run[t].phase = "queued" THEN "waiting" ELSE "orphan"]
    BY <1>1, <1>2, <1>4 DEF RunStates
  <2>2. run[t].phase \in {"queued", "running", "acted"}
    BY <1>4 DEF HasActiveRun
  <2> HIDE DEF dies
  <2>3. CASE run[t].phase = "queued"
    BY <2>1, <2>3
  <2>4. CASE run[t].phase \in {"running", "acted"}
    BY <2>1, <2>4
  <2> QED
    BY <2>2, <2>3, <2>4
<1>5. CASE t \notin dies /\ ~HasActiveRun(t)
  BY <1>1, <1>5
<1> QED
  BY <1>3, <1>4, <1>5

LEMMA CrashRange ==
    ASSUME RangeInv, Crash
    PROVE  RangeInv'
<1>1. FilesOK'
  <2>1. \A t \in Tasks : file'[t] \in Files
    <3> TAKE t \in Tasks
    <3>1. file[t] \in Files
      BY DEF RangeInv, FilesOK
    <3>2. \A s \in Lost : s \in Statuses
      BY DEF Lost, Statuses, Ended
    <3>3. \A s \in Lost : [file[t] EXCEPT !.st = s] \in Files
      BY <3>1, <3>2, MoveType
    <3>4. file'[t] = file[t] \/ \E s \in Lost : file'[t] = [file[t] EXCEPT !.st = s]
      BY CrashShape
    <3> QED
      BY <3>1, <3>3, <3>4
  <2>2. \E F \in [Tasks -> Files] : file' = F
    <3>1. file' = [u \in Tasks |-> file'[u]]
      BY DEF Crash
    <3> QED
      BY <2>1, <3>1
  <2> QED
    BY <2>2 DEF RangeInv, FilesOK, Crash
<1>2. RunsOK'
  <2>1. \A t \in Tasks : run'[t] \in RunStates /\ run'[t].id = run[t].id
    <3> TAKE t \in Tasks
    <3>1. run[t] \in RunStates /\ \A s \in Lost : s \in Ended
      BY DEF RangeInv, RunsOK, Ended
    <3>2. CASE \E s \in Lost : run'[t] = [run[t] EXCEPT !.phase = "finished", !.st = s]
      BY <3>1, <3>2 DEF RunStates
    <3>3. CASE \E p \in {"waiting", "orphan"} : run'[t] = [run[t] EXCEPT !.phase = p]
      BY <3>1, <3>3 DEF RunStates
    <3>4. CASE run'[t] = run[t]
      BY <3>1, <3>4
    <3> QED
      BY <3>2, <3>3, <3>4, CrashShape
  <2>2. run' = [u \in Tasks |-> run'[u]]
    BY DEF Crash
  <2>3. run' \in [Tasks -> RunStates]
    BY <2>1, <2>2
  <2>4. \A t \in Tasks : run'[t].id < nextRun'
    BY <2>1 DEF RangeInv, RunsOK, Crash
  <2> QED
    BY <2>3, <2>4 DEF RangeInv, RunsOK, Crash
<1>3. ScansOK'
  <2>1. scan' = [k \in Coordinators |-> Idle] /\ cool' = {}
    BY DEF Crash
  <2> QED
    BY <2>1, IdleType DEF ScansOK, ScanStates, Proper
<1>4. JobsOK' /\ HooksOK'
  BY DEF Crash, JobsOK, HooksOK, NoJob
<1>5. AlertOK'
  BY DEF Crash, AlertOK
<1> QED
  BY <1>1, <1>2, <1>3, <1>4, <1>5 DEF RangeInv

LEMMA InitRange == Init => RangeInv
<1> SUFFICES ASSUME Init PROVE RangeInv
  OBVIOUS
<1>1. FilesOK
  <2>1. \A t \in Tasks : NewFile(t) \in Files
    <3>1. \A t \in Tasks : Start[t] \in Stages
      BY AutomationAssumption DEF AutomationAssumption
    <3> QED
      BY <3>1 DEF NewFile, Files, Statuses
  <2> QED
    BY <2>1 DEF Init, FilesOK
<1>2. RunsOK
  <2>1. NoRun \in RunStates
    BY DEF NoRun, RunStates, Kinds
  <2>2. NoRun.id < 1
    BY DEF NoRun
  <2>3. <<>> \in Seq(Verdicts)
    OBVIOUS
  <2> QED
    BY <2>1, <2>2, <2>3 DEF Init, RunsOK
<1>3. ScansOK
  BY IdleType DEF Init, ScansOK
<1>4. JobsOK /\ HooksOK /\ AlertOK
  BY DEF Init, JobsOK, HooksOK, AlertOK, NoJob
<1> QED
  BY <1>1, <1>2, <1>3, <1>4 DEF RangeInv

LEMMA RangeNext == RangeInv /\ [Next]_vars => RangeInv'
<1> SUFFICES ASSUME RangeInv, [Next]_vars PROVE RangeInv'
  OBVIOUS
<1>1. ASSUME NEW k \in Coordinators, Scans(k) PROVE RangeInv'
  BY <1>1, ScanBeginsRange, ResumesRange, ListsRange, GroomTriesRange,
     ReviewTriesRange, ImplementRange DEF Scans
<1>2. ASSUME NEW t \in Tasks, Works(t) PROVE RangeInv'
  BY <1>2, PromotesRange, ReconcilesRange, RepairsRange, RunBeginsRange,
     RunEndsRange DEF Works
<1>3. ASSUME NEW t \in Tasks, Others(t) PROVE RangeInv'
  BY <1>3, AgentActsRange, UserCancelsRange, UserEditsRange, UserRunsRange,
     CoolsDownRange DEF Others
<1>4. CASE Crash
  BY <1>4, CrashRange
<1>5. CASE UNCHANGED vars
  BY <1>5 DEF vars, RangeInv, FilesOK, RunsOK, ScansOK, JobsOK, HooksOK, AlertOK
<1> QED
  BY <1>1, <1>2, <1>3, <1>4, <1>5 DEF Next

LEMMA RangeAlways == Spec => []RangeInv
BY InitRange, RangeNext, PTL DEF Spec

\* Tasks, runs, scans and timers keep to their kinds: a scan never counts
\* fewer workers than none nor more than there are (the budget that the
\* coordinators share), and no run has an id that is still to be given.
THEOREM AutomationTypes == Spec => []TypeOK
BY RangeAlways, RangeImpliesType, PTL

-----------------------------------------------------------------------------
(* The order of an epic.                                                   *)

DoneClosed == \A t \in Tasks : file[t].stage = "done" => t \in closed

\* The tasks that the implement scan will try: the board has changed since
\* they were chosen, the history of their earlier siblings has only grown.
TodoAllowed ==
    \A i \in DOMAIN scan["implement"].todo :
        EarlierSiblings(scan["implement"].todo[i]) \subseteq closed

EpicInv == DoneClosed /\ TodoAllowed

LEMMA WriteKeepsEpic ==
    ASSUME FilesOK, DoneClosed, NEW t \in Tasks, NEW f, Write(t, f)
    PROVE  DoneClosed' /\ closed \subseteq closed'
BY DEF FilesOK, DoneClosed, Write

\* What a step of a coordinator does to the board.
LEMMA ScanBoard ==
    ASSUME RangeInv, NEW k \in Coordinators, Scans(k)
    PROVE  UNCHANGED <<file, closed>> \/ \E t \in Tasks, f \in Files : Write(t, f)
<1>0. \A t \in Tasks : file[t] \in Files
  BY DEF RangeInv, FilesOK
<1>1. CASE ScanBegins(k) \/ Lists(k)
  BY <1>1 DEF ScanBegins, Lists, board
<1>2. CASE Resumes(k)
  <2> DEFINE t == Head(scan[k].sweep).task
  <2>1. t \in Tasks
    <3>1. scan[k].sweep \in Seq([task : Tasks, st : Lost]) /\ scan[k].sweep # <<>>
      BY <1>2 DEF RangeInv, ScansOK, ScanStates, Resumes
    <3>2. Head(scan[k].sweep) \in [task : Tasks, st : Lost]
      BY <3>1, HeadTail
    <3> QED
      BY <3>2
  <2>2. UNCHANGED board \/ Write(t, [file[t] EXCEPT !.st = "queued"])
    BY <1>2 DEF Resumes, Queue
  <2> QED
    BY <1>0, <2>1, <2>2, MoveType DEF board, Statuses
<1>3. CASE GroomTries /\ k = "groom"
  <2> DEFINE t == Head(scan[k].todo).task
  <2>1. t \in Tasks
    <3>1. Head(scan[k].todo) \in [task : Tasks, why : 0..2]
      BY <1>3, TodoHead DEF RangeInv, Item, GroomTries, Trying
    <3> QED
      BY <3>1
  <2>2. UNCHANGED board \/ Write(t, [file[t] EXCEPT !.st = "queued"])
    BY <1>3 DEF GroomTries, Queue
  <2> QED
    BY <1>0, <2>1, <2>2, MoveType DEF board, Statuses
<1>4. CASE ReviewTries /\ k = "review"
  <2> DEFINE t == Head(scan[k].todo).task
  <2>1. t \in Tasks
    <3>1. Head(scan[k].todo) \in [task : Tasks, ref : BOOLEAN]
      BY <1>4, TodoHead DEF RangeInv, Item, ReviewTries, Trying
    <3> QED
      BY <3>1
  <2>2. UNCHANGED board \/ Write(t, [file[t] EXCEPT !.st = "queued"])
        \/ Write(t, [file[t] EXCEPT !.st = "needs-user"])
    BY <1>4 DEF ReviewTries, Queue
  <2> QED
    BY <1>0, <2>1, <2>2, MoveType DEF board, Statuses
<1>5. CASE k = "implement" /\ (ImplementPulls \/ ImplementStarts \/ ImplementPutsBack)
  <2> DEFINE t == Head(scan[k].todo)
  <2>1. t \in Tasks
    BY <1>5, TodoHead DEF RangeInv, Item, ImplementPulls, ImplementStarts,
       ImplementPutsBack, Trying
  <2>2. \/ UNCHANGED board \/ Write(t, [file[t] EXCEPT !.st = "queued"])
        \/ Write(t, Put(file[t], "in-progress")) \/ Write(t, Put(file[t], "ready"))
    BY <1>5 DEF ImplementPulls, ImplementStarts, ImplementPutsBack, Queue
  <2> QED
    BY <1>0, <2>1, <2>2, MoveType, PutType DEF board, Statuses, Stages
<1> QED
  BY <1>1, <1>2, <1>3, <1>4, <1>5 DEF Scans

\* What any other step but a crash does to it.
LEMMA TaskBoard ==
    ASSUME RangeInv, NEW t \in Tasks, Works(t) \/ Others(t)
    PROVE  UNCHANGED <<file, closed>> \/ \E f : Write(t, f)
<1>1. CASE Promotes(t) \/ Reconciles(t) \/ Repairs(t)
  BY <1>1 DEF Promotes, Reconciles, Repairs, board
<1>2. CASE RunBegins(t) \/ AgentActs(t)
  BY <1>2 DEF RunBegins, AgentActs
<1>3. CASE RunEnds(t) \/ UserCancels(t)
  BY <1>3 DEF RunEnds, UserCancels, Record
<1>4. CASE UserEdits(t) \/ UserRuns(t)
  BY <1>4 DEF UserEdits, UserRuns, Queue
<1>5. CASE \E k \in Coordinators : CoolsDown(k, t)
  BY <1>5 DEF CoolsDown
<1> QED
  BY <1>1, <1>2, <1>3, <1>4, <1>5 DEF Works, Others

LEMMA ClosedGrows ==
    ASSUME RangeInv, DoneClosed, [Next]_vars
    PROVE  DoneClosed' /\ closed \subseteq closed'
<1>1. CASE UNCHANGED <<file, closed>>
  BY <1>1 DEF DoneClosed
<1>2. CASE \E t \in Tasks : \E f : Write(t, f)
  BY <1>2, WriteKeepsEpic DEF RangeInv
<1>3. CASE Crash
  <2>1. \A t \in Tasks : file'[t].stage = file[t].stage
    <3> TAKE t \in Tasks
    <3>1. file[t] \in Files
      BY DEF RangeInv, FilesOK
    <3> QED
      BY <1>3, <3>1, CrashShape DEF Files
  <2> QED
    BY <1>3, <2>1 DEF DoneClosed, Crash
<1> QED
  BY <1>1, <1>2, <1>3, ScanBoard, TaskBoard DEF Next, vars

\* What a step of a coordinator does to the list of the implement scan.
LEMMA SettledTodo ==
    ASSUME NEW r
    PROVE  Settled(r).todo \in {r.todo, <<>>}
BY DEF Settled, Idle

LEMMA TodoNext ==
    ASSUME RangeInv, [Next]_vars
    PROVE  \/ scan'["implement"].todo \in {scan["implement"].todo, <<>>}
           \/ scan'["implement"].todo = Found("implement")
           \/ /\ scan["implement"].todo # <<>>
              /\ scan'["implement"].todo = Tail(scan["implement"].todo)
<1> DEFINE k == "implement"
           s == scan[k]
<1>0. /\ k \in Coordinators /\ DOMAIN scan = Coordinators
      /\ s \in ScanStates(k) /\ Proper(s)
  BY DEF Coordinators, RangeInv, ScansOK
<1>1. ASSUME NEW c \in Coordinators \ {k}, Scans(c)
      PROVE  scan'[k].todo = s.todo
  BY <1>0, <1>1 DEF Scans, ScanBegins, Resumes, Lists, GroomTries, ReviewTries, SetScan
<1>2. ASSUME NEW r, SetScan(k, r)
      PROVE  scan'[k].todo \in {r.todo, <<>>}
  BY <1>0, <1>2, SettledTodo DEF SetScan
<1>3. CASE ScanBegins(k)
  <2>1. Scan(k).todo \in {<<>>, Found(k)}
    BY <1>0, ScanType DEF RangeInv
  <2>2. scan'[k].todo \in {Scan(k).todo, <<>>}
    BY <1>2, <1>3 DEF ScanBegins
  <2> QED
    BY <2>1, <2>2
<1>4. CASE Resumes(k)
  <2> DEFINE rest == [s EXCEPT !.sweep = Tail(s.sweep)]
  <2>1. rest.todo = s.todo /\ Started(rest).todo = s.todo
    BY <1>0 DEF Started, ScanStates
  <2>2. SetScan(k, rest) \/ SetScan(k, Started(rest))
    BY <1>4 DEF Resumes
  <2> HIDE DEF rest
  <2> QED
    BY <1>2, <2>1, <2>2
<1>5. CASE Lists(k)
  <2>1. SetScan(k, [s EXCEPT !.pc = "try", !.todo = s.todo])
    BY <1>0, <1>5 DEF Lists, ScanStates
  <2>2. [s EXCEPT !.pc = "try", !.todo = s.todo].todo = s.todo
    BY <1>0 DEF ScanStates
  <2> QED
    BY <1>2, <2>1, <2>2
<1>6. CASE ImplementPulls \/ ImplementStarts \/ ImplementPutsBack
  <2> DEFINE stays == [NextTask(k) EXCEPT !.wip = @ + 1]
             held(pc) == [s EXCEPT !.pc = pc]
  <2>1. \/ SetScan(k, NextTask(k)) \/ SetScan(k, stays) \/ SetScan(k, Started(stays))
        \/ SetScan(k, held("start")) \/ SetScan(k, held("back"))
    BY <1>6 DEF ImplementPulls, ImplementStarts, ImplementPutsBack
  <2>2. /\ NextTask(k).todo = Tail(s.todo) /\ stays.todo = Tail(s.todo)
        /\ Started(stays).todo = Tail(s.todo)
        /\ \A pc \in {"start", "back"} : held(pc).todo = s.todo
    BY <1>0 DEF ScanStates, NextTask, Started
  <2>3. s.todo # <<>>
    BY <1>0, <1>6 DEF Proper, ImplementPulls, ImplementStarts, ImplementPutsBack, Trying
  <2> HIDE DEF stays, held
  <2> QED
    BY <1>2, <2>1, <2>2, <2>3
<1>7. ASSUME NEW t \in Tasks, Works(t) \/ Others(t)
      PROVE  scan' = scan
  BY <1>7 DEF Works, Others, Promotes, Reconciles, Repairs, RunBegins, RunEnds,
     AgentActs, UserCancels, UserEdits, UserRuns, CoolsDown
<1>8. CASE Crash
  BY <1>0, <1>8 DEF Crash, Idle
<1>9. CASE Scans(k)
  BY <1>3, <1>4, <1>5, <1>6, <1>9 DEF Scans
<1>10. CASE UNCHANGED vars
  BY <1>10 DEF vars
<1> QED
  BY <1>1, <1>7, <1>8, <1>9, <1>10 DEF Next

\* The candidates of the implement scan.
LEMMA FoundAllowed ==
    ASSUME FilesOK, DoneClosed
    PROVE  \A i \in DOMAIN Found("implement") :
               EarlierSiblings(Found("implement")[i]) \subseteq closed
<1> DEFINE T == {t \in Tasks : Implementable(t)}
           ts == Sorted(T, Ahead)
<1>1. T \in SUBSET Tasks
  OBVIOUS
<1>2. PICK n \in Nat : ts \in [1..n -> T]
  <2> HIDE DEF T
  <2> QED
    BY <1>1, AheadSorts, TasksFinite
<1>3. Found("implement") = <<>> \/ Found("implement") = ts
  BY DEF Found
<1>4. \A t \in T : EarlierSiblings(t) \subseteq closed
  BY DEF Implementable, EpicAllows, EarlierSiblings, DoneClosed
<1> HIDE DEF ts, T
<1> QED
  BY <1>2, <1>3, <1>4

LEMMA EpicNext ==
    ASSUME RangeInv, EpicInv, [Next]_vars
    PROVE  EpicInv'
<1>1. DoneClosed' /\ closed \subseteq closed'
  BY ClosedGrows DEF EpicInv
<1>2. \A t : EarlierSiblings(t)' = EarlierSiblings(t)
  BY DEF EarlierSiblings
<1>3. \A i \in DOMAIN scan'["implement"].todo :
          EarlierSiblings(scan'["implement"].todo[i]) \subseteq closed
  <2> DEFINE q == scan["implement"].todo
  <2>1. q \in Seq(Tasks)
    BY DEF RangeInv, ScansOK, ScanStates, Item, Coordinators
  <2>2. \A i \in DOMAIN q : EarlierSiblings(q[i]) \subseteq closed
    BY DEF EpicInv, TodoAllowed
  <2>3. q # <<>> => \A i \in DOMAIN Tail(q) : EarlierSiblings(Tail(q)[i]) \subseteq closed
    BY <2>1, <2>2
  <2>4. \A i \in DOMAIN Found("implement") :
            EarlierSiblings(Found("implement")[i]) \subseteq closed
    BY FoundAllowed DEF RangeInv, EpicInv
  <2> DEFINE p == scan'["implement"].todo
             F == Found("implement")
  <2>5. \/ p \in {q, <<>>} \/ p = F \/ (q # <<>> /\ p = Tail(q))
    BY TodoNext
  <2> HIDE DEF p, q, F
  <2>6. CASE p = <<>>
    BY <2>6 DEF p
  <2>7. CASE p = q
    BY <2>2, <2>7 DEF p
  <2>8. CASE p = F
    BY <2>4, <2>8 DEF p, F
  <2>9. CASE q # <<>> /\ p = Tail(q)
    BY <2>3, <2>9 DEF p
  <2> QED
    BY <2>5, <2>6, <2>7, <2>8, <2>9
<1>4. TodoAllowed'
  BY <1>1, <1>2, <1>3 DEF TodoAllowed
<1> QED
  BY <1>1, <1>4 DEF EpicInv

LEMMA EpicAlways == Spec => []EpicInv
<1>1. Init => EpicInv
  BY DEF Init, EpicInv, DoneClosed, TodoAllowed, NewFile, Idle, Coordinators
<1>2. RangeInv /\ EpicInv /\ [Next]_vars => EpicInv'
  BY EpicNext
<1> QED
  BY <1>1, <1>2, RangeAlways, PTL DEF Spec

\* The automation pulls a task of an epic only after every earlier task of
\* the epic has been done, for any number of tasks, workers and epics, however
\* stale the board that its scan has read is (epicorder.go:86).
THEOREM EpicOrderStays == Spec => EpicOrderKept
<1>1. RangeInv /\ EpicInv /\ [Next]_vars =>
        [\A t \in Tasks :
           (ImplementPulls /\ file[t].stage = "ready" /\ file'[t].stage = "in-progress")
           => EarlierSiblings(t) \subseteq closed]_vars
  <2> SUFFICES ASSUME RangeInv, EpicInv, NEW t \in Tasks, ImplementPulls,
                      file[t].stage = "ready", file'[t].stage = "in-progress"
               PROVE  EarlierSiblings(t) \subseteq closed
    OBVIOUS
  <2> DEFINE s == scan["implement"]
             h == Head(s.todo)
  <2>1. s.todo \in Seq(Tasks) /\ s.todo # <<>>
    BY DEF RangeInv, ScansOK, ScanStates, Proper, Item, Coordinators, ImplementPulls, Trying
  <2>2. h = s.todo[1] /\ 1 \in DOMAIN s.todo
    BY <2>1
  <2>3. t = h
    BY DEF RangeInv, FilesOK, ImplementPulls, Write, board
  <2> QED
    BY <2>2, <2>3 DEF EpicInv, TodoAllowed
<1> QED
  BY <1>1, RangeAlways, EpicAlways, PTL DEF Spec, EpicOrderKept

-----------------------------------------------------------------------------
(* One verdict for each entry into code-review.                            *)

\* The entries that a run has judged which was started for them.
Below(q, e) == \A i \in DOMAIN q : ~q[i].resumed => q[i].epoch < e

\* A run that may still give a verdict, or that a resumed one stands in for.
OpenRun(r) == \/ r.phase \in {"queued", "waiting", "running", "acted"}
              \/ r.phase = "finished" /\ r.st \in Lost

Swept(t) == \E i \in DOMAIN scan["review"].sweep : scan["review"].sweep[i].task = t

InTurn(q) == \A i, j \in DOMAIN q : i < j /\ q[i].epoch = q[j].epoch => q[i].resumed

\* A task's entry, its run and its verdicts agree.
ReviewStory(t) ==
    /\ run[t].target <= file[t].epoch
    /\ Below(judged[t], file[t].epoch + 1)
    /\ run[t].init = "review" /\ OpenRun(run[t]) => Below(judged[t], run[t].target)
    /\ file[t].st \in Lost => run[t].phase = "finished" /\ run[t].st \in Lost
    /\ run[t].mode # "resume" => run[t].mode = run[t].eff
    /\ \A i \in DOMAIN judged[t] :
          ~judged[t][i].resumed => judged[t][i].epoch \in reviewed[t]
    /\ InTurn(judged[t])

\* While the review scan is about to take a crashed run up again, nothing else
\* reviews its task.
SweptStory(t) ==
    Swept(t) => /\ Below(judged[t], file[t].epoch)
                /\ run[t].init = "review" => run[t].phase = "finished"

SweepOrdered ==
    \A i, j \in DOMAIN scan["review"].sweep :
        i < j => scan["review"].sweep[i].task < scan["review"].sweep[j].task

ReviewInv == /\ SweepOrdered
             /\ \A t \in Tasks : ReviewStory(t) /\ SweptStory(t)

\* What a step does to a task: nothing to its run; a run is queued, goes on,
\* ends.
FileGoesOn(t) == /\ file'[t].epoch >= file[t].epoch
                 /\ file'[t].st \in Lost => file[t].st \in Lost

RunKept(t) == /\ run'[t].target = run[t].target /\ run'[t].init = run[t].init
              /\ run'[t].mode = run[t].mode /\ run'[t].eff = run[t].eff

Calm(t) == /\ run'[t] = run[t] /\ judged'[t] = judged[t] /\ FileGoesOn(t)
           /\ reviewed[t] \subseteq reviewed'[t]

Queues(t) == /\ run'[t].phase = "queued" /\ run'[t].target = file[t].epoch
             /\ run'[t].mode # "resume" => run'[t].mode = run'[t].eff
             /\ run'[t].init = "review" => Below(judged[t], file[t].epoch) /\ ~Swept(t)'
             /\ file'[t].epoch = file[t].epoch /\ file'[t].st = "queued"
             /\ judged'[t] = judged[t] /\ reviewed'[t] = reviewed[t]

Goes(t) == /\ run[t].phase \in {"queued", "waiting", "running"}
           /\ run'[t].phase \in {"running", "acted"} /\ RunKept(t)
           /\ judged'[t] = judged[t] /\ FileGoesOn(t)
           /\ reviewed[t] \subseteq reviewed'[t]

Judges(t) == /\ run[t].init = "review"
             /\ judged'[t] = Append(judged[t], [epoch |-> run[t].target,
                                                resumed |-> run[t].mode = "resume"])
             /\ run[t].mode = "review" => run[t].target \in reviewed'[t]
             /\ run[t].eff = "review"

Finishes(t) == /\ run[t].phase \in {"queued", "running", "acted"}
               /\ run'[t].phase = "finished" /\ run'[t].st \notin Lost /\ RunKept(t)
               /\ file'[t].epoch = file[t].epoch /\ file'[t].st \notin Lost
               /\ reviewed[t] \subseteq reviewed'[t]
               /\ judged'[t] = judged[t] \/ Judges(t)

Effect(t) == Calm(t) \/ Queues(t) \/ Goes(t) \/ Finishes(t)

LEMMA BelowKept ==
    ASSUME NEW q \in Seq(Verdicts), NEW e \in Nat, NEW d \in Nat, e <= d, Below(q, e)
    PROVE  Below(q, d)
<1>1. \A x \in Verdicts : x.epoch \in Nat
  BY DEF Verdicts
<1>2. \A i \in DOMAIN q : q[i].epoch \in Nat
  BY <1>1
<1> QED
  BY <1>2 DEF Below

LEMMA EffectKeepsStory ==
    ASSUME RangeInv, RangeInv', NEW t \in Tasks, ReviewStory(t), SweptStory(t),
           Effect(t), Swept(t)' => Swept(t)
    PROVE  ReviewStory(t)' /\ SweptStory(t)'
<1>0. /\ file[t].epoch \in Nat /\ file'[t].epoch \in Nat
      /\ run[t].target \in Nat /\ run'[t].target \in Nat
      /\ run[t].mode \in Kinds \cup {"resume"} /\ run[t].eff \in Kinds
      /\ judged[t] \in Seq(Verdicts) /\ judged'[t] \in Seq(Verdicts)
  BY DEF RangeInv, FilesOK, RunsOK, Files, RunStates
<1>1. CASE Calm(t)
  <2>1. file[t].epoch <= file'[t].epoch
    BY <1>0, <1>1 DEF Calm, FileGoesOn
  <2>2. Below(judged[t], file[t].epoch + 1) /\ file[t].epoch + 1 <= file'[t].epoch + 1
    BY <1>0, <2>1 DEF ReviewStory
  <2>3. Below(judged'[t], file'[t].epoch + 1)
    BY <1>0, <1>1, <2>2, BelowKept DEF Calm
  <2>4. run'[t].init = "review" /\ OpenRun(run'[t]) => Below(judged'[t], run'[t].target)
    BY <1>0, <1>1, BelowKept DEF Calm, ReviewStory
  <2>5. Swept(t)' => Below(judged'[t], file'[t].epoch)
    BY <1>0, <1>1, <2>1, BelowKept DEF Calm, SweptStory
  <2>6. ReviewStory(t)'
    <3>1. run'[t].target <= file'[t].epoch
      BY <1>0, <1>1, <2>1 DEF Calm, ReviewStory
    <3>2. \A i \in DOMAIN judged'[t] :
             ~judged'[t][i].resumed => judged'[t][i].epoch \in reviewed'[t]
      BY <1>1 DEF Calm, ReviewStory
    <3>3. InTurn(judged'[t])
      BY <1>1 DEF Calm, ReviewStory
    <3>4. file'[t].st \in Lost => run'[t].phase = "finished" /\ run'[t].st \in Lost
      BY <1>1 DEF Calm, FileGoesOn, ReviewStory
    <3>5. run'[t].mode # "resume" => run'[t].mode = run'[t].eff
      BY <1>1 DEF Calm, ReviewStory
    <3> QED
      BY <2>3, <2>4, <3>1, <3>2, <3>3, <3>4, <3>5 DEF ReviewStory
  <2> QED
    BY <1>1, <2>5, <2>6 DEF Calm, SweptStory
<1>2. CASE Queues(t)
  <2>1. Below(judged'[t], file'[t].epoch + 1)
    BY <1>0, <1>2, BelowKept DEF Queues, ReviewStory
  <2>2. run'[t].init = "review" => Below(judged'[t], run'[t].target)
    BY <1>0, <1>2, BelowKept DEF Queues
  <2>3. "queued" \notin Lost
    BY DEF Lost
  <2>4. ReviewStory(t)'
    BY <1>0, <1>2, <2>1, <2>2, <2>3 DEF Queues, ReviewStory, InTurn
  <2>5. Swept(t)' => Below(judged'[t], file'[t].epoch)
    BY <1>0, <1>2, BelowKept DEF Queues, SweptStory
  <2> QED
    BY <1>2, <2>4, <2>5 DEF Queues, SweptStory
<1>3. CASE Goes(t)
  <2>1. file[t].epoch <= file'[t].epoch
    BY <1>0, <1>3 DEF Goes, FileGoesOn
  <2>2. Below(judged[t], file[t].epoch + 1) /\ file[t].epoch + 1 <= file'[t].epoch + 1
    BY <1>0, <2>1 DEF ReviewStory
  <2>3. Below(judged'[t], file'[t].epoch + 1)
    BY <1>0, <1>3, <2>2, BelowKept DEF Goes
  <2>4. run'[t].init = "review" => Below(judged'[t], run'[t].target)
    BY <1>0, <1>3, BelowKept DEF Goes, RunKept, ReviewStory, OpenRun
  <2>5. file'[t].st \notin Lost
    BY <1>3 DEF Goes, FileGoesOn, ReviewStory
  <2>6. ReviewStory(t)'
    BY <1>0, <1>3, <2>1, <2>3, <2>4, <2>5 DEF Goes, RunKept, ReviewStory, InTurn
  <2>7. Swept(t)' => Below(judged'[t], file'[t].epoch)
    BY <1>0, <1>3, <2>1, BelowKept DEF Goes, SweptStory
  <2>8. Swept(t) => run[t].init # "review"
    BY <1>3 DEF Goes, SweptStory
  <2> QED
    BY <1>3, <2>6, <2>7, <2>8 DEF Goes, RunKept, SweptStory
<1>4. CASE Finishes(t) /\ judged'[t] = judged[t]
  <2>1. Below(judged'[t], file'[t].epoch + 1)
    BY <1>0, <1>4, BelowKept DEF Finishes, ReviewStory
  <2>2. ~OpenRun(run'[t])
    BY <1>4 DEF Finishes, OpenRun
  <2>3. ReviewStory(t)'
    BY <1>0, <1>4, <2>1, <2>2 DEF Finishes, RunKept, ReviewStory, OpenRun, InTurn
  <2>4. Swept(t)' => Below(judged'[t], file'[t].epoch)
    BY <1>0, <1>4, BelowKept DEF Finishes, SweptStory
  <2> QED
    BY <1>4, <2>3, <2>4 DEF Finishes, SweptStory
<1>5. CASE Finishes(t) /\ Judges(t)
  <2> DEFINE v == [epoch |-> run[t].target, resumed |-> run[t].mode = "resume"]
             n == Len(judged[t])
  <2>0. /\ n \in Nat /\ DOMAIN judged[t] = 1..n /\ DOMAIN judged'[t] = 1..(n + 1)
        /\ judged'[t][n + 1] = v
        /\ \A i \in 1..n : judged'[t][i] = judged[t][i] /\ judged[t][i].epoch \in Nat
                           /\ judged[t][i].resumed \in BOOLEAN
    <3>1. v \in Verdicts
      BY <1>0 DEF Verdicts
    <3>2. judged'[t] = Append(judged[t], v)
      BY <1>5 DEF Judges
    <3>3. \A x \in Verdicts : x.epoch \in Nat /\ x.resumed \in BOOLEAN
      BY DEF Verdicts
    <3> HIDE DEF v, Verdicts
    <3> QED
      BY <1>0, <3>1, <3>2, <3>3
  <2>1. Below(judged[t], run[t].target) /\ v.epoch = run[t].target
    BY <1>5 DEF Finishes, Judges, ReviewStory, OpenRun
  <2>2. ~v.resumed => v.epoch \in reviewed'[t]
    BY <1>5, <1>0 DEF Judges, ReviewStory
  <2> HIDE DEF v, n
  <2>3. \A i \in DOMAIN judged'[t] :
           ~judged'[t][i].resumed => judged'[t][i].epoch < file'[t].epoch + 1
    BY <1>0, <1>5, <2>0, <2>1 DEF Finishes, ReviewStory, Below
  <2>4. \A i \in DOMAIN judged'[t] :
           ~judged'[t][i].resumed => judged'[t][i].epoch \in reviewed'[t]
    BY <1>5, <2>0, <2>2 DEF Finishes, ReviewStory
  <2>5. InTurn(judged'[t])
    <3> SUFFICES ASSUME NEW i \in 1..(n + 1), NEW j \in 1..(n + 1), i < j,
                        judged'[t][i].epoch = judged'[t][j].epoch
                 PROVE  judged'[t][i].resumed
      BY <2>0 DEF InTurn
    <3>1. i \in 1..n
      BY <2>0
    <3>2. CASE j \in 1..n
      BY <2>0, <3>1, <3>2 DEF ReviewStory, InTurn
    <3>3. CASE j = n + 1
      <4>1. judged[t][i].epoch = run[t].target
        BY <2>0, <2>1, <3>1, <3>3
      <4>2. ~judged[t][i].resumed => judged[t][i].epoch < run[t].target
        BY <2>0, <2>1, <3>1 DEF Below
      <4>3. ~(run[t].target < run[t].target)
        BY <1>0
      <4>4. judged[t][i].resumed
        BY <4>1, <4>2, <4>3
      <4>5. judged'[t][i] = judged[t][i]
        BY <2>0, <3>1
      <4> QED
        BY <4>4, <4>5
    <3> QED
      BY <2>0, <3>2, <3>3
  <2>6. ~OpenRun(run'[t])
    BY <1>5 DEF Finishes, OpenRun
  <2>7. ReviewStory(t)'
    BY <1>0, <1>5, <2>3, <2>4, <2>5, <2>6 DEF Finishes, RunKept, ReviewStory, Below
  <2>8. ~Swept(t)
    BY <1>5 DEF Finishes, Judges, SweptStory
  <2> QED
    BY <2>7, <2>8 DEF SweptStory
<1> QED
  BY <1>1, <1>2, <1>3, <1>4, <1>5 DEF Effect, Finishes

\* A file written over another.
Later(f, g) == g.epoch >= f.epoch /\ (g.st \in Lost => f.st \in Lost)

LEMMA LaterFiles ==
    ASSUME NEW f \in Files
    PROVE  /\ \A s \in Stages : Later(f, Put(f, s))
           /\ Later(f, Readied(f)) /\ Later(f, Submitted(f))
           /\ \A e \in Nat : Later(f, Flagged(f, e)) /\ Later(f, FailedTo(f, e))
           /\ \A s \in Statuses \ Lost : Later(f, [f EXCEPT !.st = s])
           /\ \A r \in 0..2 : Later(f, [f EXCEPT !.triage = r])
           /\ Later(f, [f EXCEPT !.ref = TRUE])
           /\ Later(f, Submitted([f EXCEPT !.ref = TRUE]))
<1>0. f.epoch \in Nat
  BY DEF Files
<1>1. ASSUME NEW g \in Files, NEW s \in Stages
      PROVE  Later(g, Put(g, s)) /\ Put(g, s).st = g.st
  BY <1>1 DEF Files, Put, Later
<1>2. Later(f, Readied(f))
  <2>1. Put(f, "ready").epoch >= f.epoch /\ Put(f, "ready") \in Files
    BY <1>1, PutType DEF Later, Stages
  <2>2. Readied(f).st = "none" /\ Readied(f).epoch = Put(f, "ready").epoch
    BY <2>1 DEF Readied, Files
  <2> QED
    BY <2>1, <2>2 DEF Later, Lost
<1>3. ASSUME NEW g \in Files PROVE Later(g, Submitted(g))
  <2>1. /\ Put(g, "code-review").epoch >= g.epoch /\ Put(g, "code-review") \in Files
        /\ Put(g, "code-review").st = g.st
    BY <1>1, PutType DEF Later, Stages
  <2>2. /\ Submitted(g).st = Put(g, "code-review").st
        /\ Submitted(g).epoch = Put(g, "code-review").epoch
    BY <2>1 DEF Submitted, Files
  <2> QED
    BY <2>1, <2>2 DEF Later
<1>4. ASSUME NEW e \in Nat PROVE Later(f, Flagged(f, e)) /\ Later(f, FailedTo(f, e))
  <2>1. /\ Flagged(f, e) \in Files /\ Flagged(f, e).st = "none"
        /\ Flagged(f, e).epoch = f.epoch
    BY FlagType DEF Flagged, Files
  <2>2. FailedTo(f, e).st = "none" /\ FailedTo(f, e).epoch >= f.epoch
    BY <1>1, <2>1 DEF FailedTo, Later, Stages
  <2> QED
    BY <1>0, <2>1, <2>2 DEF Later, Lost
<1>5. /\ \A s \in Statuses \ Lost : Later(f, [f EXCEPT !.st = s])
      /\ \A r \in 0..2 : Later(f, [f EXCEPT !.triage = r])
      /\ Later(f, [f EXCEPT !.ref = TRUE])
  BY <1>0 DEF Later, Files
<1>6. /\ [f EXCEPT !.ref = TRUE] \in Files /\ [f EXCEPT !.ref = TRUE].epoch = f.epoch
      /\ [f EXCEPT !.ref = TRUE].st = f.st
  BY DEF Files
<1>7. Later(f, Submitted([f EXCEPT !.ref = TRUE]))
  BY <1>3, <1>6 DEF Later
<1> QED
  BY <1>1, <1>2, <1>3, <1>4, <1>5, <1>7

LEMMA FileEffect ==
    ASSUME RangeInv, NEW t \in Tasks,
           \/ UNCHANGED <<file, closed>>
           \/ \E g : Write(t, g) /\ Later(file[t], g)
    PROVE  \A u \in Tasks : FileGoesOn(u)
<1> TAKE u \in Tasks
<1>1. file[u].epoch \in Nat /\ DOMAIN file = Tasks
  BY DEF RangeInv, FilesOK, Files
<1>2. CASE UNCHANGED file
  BY <1>1, <1>2 DEF FileGoesOn
<1>3. CASE \E g : Write(t, g) /\ Later(file[t], g)
  <2>1. CASE u = t
    BY <1>1, <1>3, <2>1 DEF FileGoesOn, Write, Later
  <2>2. CASE u # t
    BY <1>1, <1>3, <2>2 DEF FileGoesOn, Write
  <2> QED
    BY <2>1, <2>2
<1> QED
  BY <1>2, <1>3

LEMMA CalmStep ==
    ASSUME RangeInv, UNCHANGED runs, NEW t \in Tasks,
           \/ UNCHANGED <<file, closed>>
           \/ \E g : Write(t, g) /\ Later(file[t], g)
    PROVE  \A u \in Tasks : Effect(u)
BY FileEffect DEF runs, Effect, Calm

LEMMA QueueEffect ==
    ASSUME RangeInv, NEW t \in Tasks, NEW mode, NEW eff, NEW init, NEW hash,
           Queue(t, mode, eff, init, hash), mode # "resume" => mode = eff,
           init = "review" => Below(judged[t], file[t].epoch) /\ ~Swept(t)'
    PROVE  \A u \in Tasks : Effect(u)
<1> TAKE u \in Tasks
<1>1. /\ DOMAIN file = Tasks /\ DOMAIN run = Tasks /\ file[t] \in Files
      /\ file[u].epoch \in Nat
  BY DEF RangeInv, FilesOK, RunsOK, Files
<1>2. CASE u = t
  <2>1. file'[t].epoch = file[t].epoch /\ file'[t].st = "queued"
    BY <1>1 DEF Queue, Write, Files
  <2>2. /\ run'[t].phase = "queued" /\ run'[t].target = file[t].epoch
        /\ run'[t].mode = mode /\ run'[t].eff = eff /\ run'[t].init = init
    BY <1>1 DEF Queue
  <2> QED
    BY <1>2, <2>1, <2>2 DEF Queue, Effect, Queues
<1>3. CASE u # t
  BY <1>1, <1>3 DEF Queue, Write, Effect, Calm, FileGoesOn
<1> QED
  BY <1>2, <1>3

LEMMA PhaseEffect ==
    ASSUME RangeInv, NEW t \in Tasks, NEW p \in {"running", "acted"},
           run[t].phase \in {"queued", "waiting", "running"},
           run' = [run EXCEPT ![t].phase = p], judged' = judged,
           reviewed' \in {reviewed, Progressed(t)},
           \E g : Write(t, g) /\ Later(file[t], g)
    PROVE  \A u \in Tasks : Effect(u)
<1> TAKE u \in Tasks
<1>1. FileGoesOn(u)
  BY FileEffect
<1>2. reviewed[u] \subseteq reviewed'[u]
  BY DEF RangeInv, RunsOK, Progressed
<1>3. run[t] \in RunStates /\ DOMAIN run = Tasks
  BY DEF RangeInv, RunsOK
<1>4. CASE u = t
  <2>1. run'[t].phase = p /\ RunKept(t)
    BY <1>3 DEF RunKept, RunStates
  <2> QED
    BY <1>1, <1>2, <1>4, <2>1 DEF Effect, Goes
<1>5. CASE u # t
  BY <1>1, <1>2, <1>3, <1>5 DEF Effect, Calm
<1> QED
  BY <1>4, <1>5

LEMMA RecordEffect ==
    ASSUME RangeInv, NEW t \in Tasks, NEW st \in {"success", "failed", "cancelled"},
           run[t].phase \in {"queued", "running", "acted"}, Record(t, st)
    PROVE  \A u \in Tasks : Effect(u)
<1>0. /\ DOMAIN file = Tasks /\ DOMAIN run = Tasks /\ DOMAIN judged = Tasks
      /\ DOMAIN reviewed = Tasks
      /\ file[t] \in Files /\ run[t] \in RunStates
  BY DEF RangeInv, FilesOK, RunsOK
<1> TAKE u \in Tasks
<1>1. reviewed[u] \subseteq reviewed'[u]
  BY <1>0 DEF Record, Progressed
<1>2. CASE u = t
  <2>1. run'[t].phase = "finished" /\ run'[t].st = st /\ RunKept(t)
    BY <1>0 DEF Record, RunKept, RunStates
  <2>2. file'[t].epoch = file[t].epoch /\ file'[t].st \notin Lost
    <3>1. CASE Asked(t, st)
      BY <3>1 DEF Record, Asked, Lost
    <3>2. CASE ~Asked(t, st)
      <4>1. StatusAfter(t, st) \notin Lost
        BY DEF StatusAfter, Lost
      <4>2. file'[t] = [file[t] EXCEPT !.st = StatusAfter(t, st)]
        BY <1>0, <3>2 DEF Record, Write
      <4> QED
        BY <1>0, <4>1, <4>2 DEF Files
    <3> QED
      BY <3>1, <3>2
  <2>3. judged'[t] = judged[t] \/ Judges(t)
    <3>1. CASE /\ run[t].eff = "review" /\ run[t].init = "review"
               /\ st \in {"success", "failed"}
      <4>1. judged'[t] = Append(judged[t], [epoch |-> run[t].target,
                                            resumed |-> run[t].mode = "resume"])
        BY <1>0, <3>1 DEF Record
      <4>2. run[t].mode = "review" => run[t].target \in reviewed'[t]
        BY <1>0, <3>1 DEF Record, Progressed
      <4> QED
        BY <3>1, <4>1, <4>2 DEF Judges
    <3>2. CASE ~(/\ run[t].eff = "review" /\ run[t].init = "review"
                 /\ st \in {"success", "failed"})
      BY <3>2 DEF Record
    <3> QED
      BY <3>1, <3>2
  <2>4. st \notin Lost
    BY DEF Lost
  <2> QED
    BY <1>1, <1>2, <2>1, <2>2, <2>3, <2>4 DEF Effect, Finishes
<1>3. CASE u # t
  <2>1. file'[u] = file[u] /\ file[u].epoch \in Nat
    BY <1>0, <1>3 DEF Record, Write, RangeInv, FilesOK, Files
  <2>2. run'[u] = run[u] /\ judged'[u] = judged[u]
    BY <1>0, <1>3 DEF Record
  <2> QED
    BY <1>1, <2>1, <2>2 DEF Effect, Calm, FileGoesOn
<1> QED
  BY <1>2, <1>3

\* What a step does to the sweep of the review scan.
LEMMA SettledSweep ==
    ASSUME NEW r
    PROVE  Settled(r).sweep \in {r.sweep, <<>>}
BY DEF Settled, Idle

LEMMA SweepNext ==
    ASSUME RangeInv, [Next]_vars
    PROVE  \/ scan'["review"].sweep \in {scan["review"].sweep, <<>>}
           \/ ScanBegins("review") /\ scan'["review"].sweep = Sweep("review")
           \/ /\ Resumes("review") /\ scan["review"].sweep # <<>>
              /\ scan'["review"].sweep = Tail(scan["review"].sweep)
<1> DEFINE k == "review"
           s == scan[k]
<1>0. /\ k \in Coordinators /\ DOMAIN scan = Coordinators
      /\ s \in ScanStates(k) /\ Proper(s)
  BY DEF Coordinators, RangeInv, ScansOK
<1>1. ASSUME NEW c \in Coordinators \ {k}, Scans(c)
      PROVE  scan'[k].sweep = s.sweep
  BY <1>0, <1>1 DEF Scans, ScanBegins, Resumes, Lists, GroomTries, ImplementPulls,
     ImplementStarts, ImplementPutsBack, SetScan
<1>2. ASSUME NEW r, SetScan(k, r)
      PROVE  scan'[k].sweep \in {r.sweep, <<>>}
  BY <1>0, <1>2, SettledSweep DEF SetScan
<1>3. CASE ScanBegins(k)
  <2>1. Scan(k).sweep \in {<<>>, Sweep(k)}
    BY <1>0, ScanType DEF RangeInv
  <2>2. scan'[k].sweep \in {Scan(k).sweep, <<>>}
    BY <1>2, <1>3 DEF ScanBegins
  <2> QED
    BY <1>3, <2>1, <2>2
<1>4. CASE Resumes(k)
  <2> DEFINE rest == [s EXCEPT !.sweep = Tail(s.sweep)]
  <2>1. rest.sweep = Tail(s.sweep) /\ Started(rest).sweep = Tail(s.sweep)
    BY <1>0 DEF Started, ScanStates
  <2>2. (SetScan(k, rest) \/ SetScan(k, Started(rest))) /\ s.sweep # <<>>
    BY <1>4 DEF Resumes
  <2> HIDE DEF rest
  <2> QED
    BY <1>2, <1>4, <2>1, <2>2
<1>5. CASE Lists(k)
  <2>1. PICK q : SetScan(k, [s EXCEPT !.pc = "try", !.todo = q])
    BY <1>5 DEF Lists
  <2>2. [s EXCEPT !.pc = "try", !.todo = q].sweep = s.sweep
    BY <1>0 DEF ScanStates
  <2> QED
    BY <1>2, <2>1, <2>2
<1>6. CASE ReviewTries
  <2>1. SetScan(k, NextTask(k)) \/ SetScan(k, Started(NextTask(k)))
    BY <1>6 DEF ReviewTries
  <2>2. NextTask(k).sweep = s.sweep /\ Started(NextTask(k)).sweep = s.sweep
    BY <1>0 DEF ScanStates, NextTask, Started
  <2> QED
    BY <1>2, <2>1, <2>2
<1>7. ASSUME NEW t \in Tasks, Works(t) \/ Others(t)
      PROVE  scan' = scan
  BY <1>7 DEF Works, Others, Promotes, Reconciles, Repairs, RunBegins, RunEnds,
     AgentActs, UserCancels, UserEdits, UserRuns, CoolsDown
<1>8. CASE Crash
  BY <1>0, <1>8 DEF Crash, Idle
<1>9. CASE Scans(k)
  BY <1>3, <1>4, <1>5, <1>6, <1>9 DEF Scans
<1>10. CASE UNCHANGED vars
  BY <1>10 DEF vars
<1> QED
  BY <1>1, <1>7, <1>8, <1>9, <1>10 DEF Next

\* Without its head a sweep has fewer tasks, in the same order.
LEMMA SweptTail ==
    ASSUME NEW q \in Seq([task : Tasks, st : Lost]), q # <<>>,
           \A i, j \in DOMAIN q : i < j => q[i].task < q[j].task
    PROVE  /\ \A i, j \in DOMAIN Tail(q) : i < j => Tail(q)[i].task < Tail(q)[j].task
           /\ \A i \in DOMAIN Tail(q) : \E j \in DOMAIN q : q[j] = Tail(q)[i]
           /\ \A i \in DOMAIN Tail(q) : Tail(q)[i].task # Head(q).task
<1>1. /\ Len(q) \in Nat \ {0} /\ DOMAIN q = 1..Len(q) /\ Head(q) = q[1]
      /\ DOMAIN Tail(q) = 1..(Len(q) - 1)
      /\ \A i \in 1..(Len(q) - 1) : Tail(q)[i] = q[i + 1]
  OBVIOUS
<1>2. \A i \in 1..Len(q) : q[i].task \in Int
  <2>1. \A i \in 1..Len(q) : q[i] \in [task : Tasks, st : Lost]
    BY ElementOf
  <2>2. \A t \in Tasks : t \in Int
    BY AutomationAssumption DEF Tasks, AutomationAssumption
  <2> QED
    BY <2>1, <2>2
<1>3. \A i \in DOMAIN Tail(q) : \E j \in DOMAIN q : q[j] = Tail(q)[i]
  <2> TAKE i \in DOMAIN Tail(q)
  <2>1. i + 1 \in DOMAIN q /\ q[i + 1] = Tail(q)[i]
    BY <1>1
  <2> QED
    BY <2>1
<1>4. \A i, j \in DOMAIN Tail(q) : i < j => Tail(q)[i].task < Tail(q)[j].task
  <2> TAKE i, j \in DOMAIN Tail(q)
  <2>1. i + 1 \in DOMAIN q /\ j + 1 \in DOMAIN q /\ (i < j => i + 1 < j + 1)
    BY <1>1
  <2> QED
    BY <1>1, <2>1
<1>5. \A i \in DOMAIN Tail(q) : Tail(q)[i].task # Head(q).task
  <2> TAKE i \in DOMAIN Tail(q)
  <2>1. 1 \in DOMAIN q /\ i + 1 \in DOMAIN q /\ 1 < i + 1
    BY <1>1
  <2>2. q[1].task < q[i + 1].task /\ q[1].task \in Int
    BY <1>1, <1>2, <2>1
  <2> QED
    BY <1>1, <2>2
<1> QED
  BY <1>3, <1>4, <1>5

LEMMA SweptNext ==
    ASSUME RangeInv, SweepOrdered, [Next]_vars, ~ScanBegins("review")
    PROVE  /\ SweepOrdered'
           /\ \A t : Swept(t)' => Swept(t)
           /\ Resumes("review") =>
                scan'["review"].sweep \in {<<>>, Tail(scan["review"].sweep)}
<1> DEFINE q == scan["review"].sweep
           p == scan'["review"].sweep
<1>1. q \in Seq([task : Tasks, st : Lost])
  BY DEF RangeInv, ScansOK, ScanStates, Coordinators
<1>2. \/ p = q \/ p = <<>>
      \/ Resumes("review") /\ q # <<>> /\ p = Tail(q)
  BY SweepNext
<1>3. \A i, j \in DOMAIN q : i < j => q[i].task < q[j].task
  BY DEF SweepOrdered
<1>4. Resumes("review") => p \in {<<>>, Tail(q)}
  <2> SUFFICES ASSUME Resumes("review") PROVE p \in {<<>>, Tail(q)}
    OBVIOUS
  <2> DEFINE rest == [scan["review"] EXCEPT !.sweep = Tail(q)]
  <2>1. rest.sweep = Tail(q) /\ Started(rest).sweep = Tail(q)
    BY DEF Started, ScanStates, RangeInv, ScansOK, Coordinators
  <2>2. SetScan("review", rest) \/ SetScan("review", Started(rest))
    BY DEF Resumes
  <2> HIDE DEF rest
  <2>3. "review" \in DOMAIN scan
    BY DEF RangeInv, ScansOK, Coordinators
  <2> QED
    BY <2>1, <2>2, <2>3, SettledSweep DEF SetScan
<1> HIDE DEF q, p
<1>5. /\ \A i, j \in DOMAIN p : i < j => p[i].task < p[j].task
      /\ \A i \in DOMAIN p : \E j \in DOMAIN q : q[j] = p[i]
  <2>1. CASE p = q
    BY <1>3, <2>1
  <2>2. CASE p = <<>>
    BY <2>2
  <2>3. CASE q # <<>> /\ p = Tail(q)
    BY <1>1, <1>3, <2>3, SweptTail
  <2> QED
    BY <1>2, <2>1, <2>2, <2>3
<1> QED
  BY <1>4, <1>5 DEF p, q, SweepOrdered, Swept

-----------------------------------------------------------------------------
(* What each step does to the tasks, in those terms.                       *)

LEMMA FileOnlyEffect ==
    ASSUME RangeInv, UNCHANGED runs,
           \/ UNCHANGED <<file, closed>>
           \/ \E t \in Tasks : \E g : Write(t, g) /\ Later(file[t], g)
    PROVE  \A u \in Tasks : Effect(u)
<1>1. CASE UNCHANGED <<file, closed>>
  <2> TAKE u \in Tasks
  <2> QED
    BY <1>1, CalmStep
<1>2. CASE \E t \in Tasks : \E g : Write(t, g) /\ Later(file[t], g)
  <2>1. PICK t \in Tasks : \E g : Write(t, g) /\ Later(file[t], g)
    BY <1>2
  <2> QED
    BY <2>1, CalmStep
<1> QED
  BY <1>1, <1>2

LEMMA ResumesEffect ==
    ASSUME RangeInv, ReviewInv, [Next]_vars, NEW k \in Coordinators, Resumes(k)
    PROVE  \A u \in Tasks : Effect(u)
<1> DEFINE s == scan[k]
           h == Head(s.sweep)
<1>1. s.pc = "sweep" /\ s.sweep # <<>> /\ s.sweep \in Seq([task : Tasks, st : Lost])
  BY DEF Resumes, RangeInv, ScansOK, ScanStates
<1>2. h \in [task : Tasks, st : Lost] /\ h = s.sweep[1] /\ 1 \in DOMAIN s.sweep
  <2>1. h \in [task : Tasks, st : Lost]
    BY <1>1, HeadTail
  <2>2. h = s.sweep[1] /\ 1 \in DOMAIN s.sweep
    BY <1>1
  <2> QED
    BY <2>1, <2>2
<1>3. PICK t \in Tasks : t = h.task
  BY <1>2
<1>4. \/ UNCHANGED <<board, runs>>
      \/ Queue(t, "resume", ParentMode(t), k, 0)
      \/ Queue(t, k, k, k, 0)
  <2>1. \/ UNCHANGED <<board, runs>>
        \/ Queue(h.task, "resume", ParentMode(h.task), k, 0)
        \/ Queue(h.task, k, k, k, 0)
    BY DEF Resumes
  <2> HIDE DEF h
  <2> QED
    BY <1>3, <2>1
<1>5. k = "review" => Below(judged[t], file[t].epoch) /\ ~Swept(t)'
  <2> SUFFICES ASSUME k = "review"
               PROVE  Below(judged[t], file[t].epoch) /\ ~Swept(t)'
    OBVIOUS
  <2>1. Swept(t)
    BY <1>2, <1>3 DEF Swept
  <2>2. Below(judged[t], file[t].epoch)
    BY <1>3, <2>1 DEF ReviewInv, SweptStory
  <2>3. scan'["review"].sweep \in {<<>>, Tail(s.sweep)}
    <3>1. ~ScanBegins("review")
      BY <1>1 DEF ScanBegins
    <3> QED
      BY <3>1, SweptNext DEF ReviewInv
  <2>4. \A i \in DOMAIN Tail(s.sweep) : Tail(s.sweep)[i].task # t
    BY <1>1, <1>3, SweptTail DEF ReviewInv, SweepOrdered
  <2>5. ~Swept(t)'
    <3> SUFFICES ASSUME NEW i \in DOMAIN scan'["review"].sweep,
                        scan'["review"].sweep[i].task = t
                 PROVE  FALSE
      BY DEF Swept
    <3> HIDE DEF s
    <3>1. CASE scan'["review"].sweep = <<>>
      BY <3>1
    <3>2. CASE scan'["review"].sweep = Tail(s.sweep)
      BY <2>4, <3>2
    <3> QED
      BY <2>3, <3>1, <3>2
  <2> QED
    BY <2>2, <2>5
<1>6. CASE UNCHANGED <<board, runs>>
  BY <1>6, FileOnlyEffect DEF board
<1>7. CASE Queue(t, "resume", ParentMode(t), k, 0)
  BY <1>3, <1>5, <1>7, QueueEffect
<1>8. CASE Queue(t, k, k, k, 0)
  BY <1>3, <1>5, <1>8, QueueEffect
<1> QED
  BY <1>4, <1>6, <1>7, <1>8

LEMMA GroomTriesEffect ==
    ASSUME RangeInv, GroomTries
    PROVE  \A u \in Tasks : Effect(u)
<1> DEFINE e == Head(scan["groom"].todo)
<1>1. e.task \in Tasks
  <2>1. e \in [task : Tasks, why : 0..2]
    BY TodoHead DEF RangeInv, Item, Coordinators, GroomTries, Trying
  <2> QED
    BY <2>1
<1>2. Queue(e.task, "groom", "groom", "groom", e.why) \/ UNCHANGED <<board, runs>>
  BY DEF GroomTries
<1> HIDE DEF e
<1>3. CASE UNCHANGED <<board, runs>>
  BY <1>3, FileOnlyEffect DEF board
<1>4. CASE Queue(e.task, "groom", "groom", "groom", e.why)
  BY <1>1, <1>4, QueueEffect
<1> QED
  BY <1>2, <1>3, <1>4

\* A fresh review is of an entry that no run has been queued for.
LEMMA ReviewTriesEffect ==
    ASSUME RangeInv, ReviewInv, [Next]_vars, ReviewTries
    PROVE  \A u \in Tasks : Effect(u)
<1> DEFINE e == Head(scan["review"].todo)
<1>1. PICK t \in Tasks : t = e.task
  <2>1. e \in [task : Tasks, ref : BOOLEAN]
    BY TodoHead DEF RangeInv, Item, Coordinators, ReviewTries, Trying
  <2> QED
    BY <2>1
<1>2. \/ UNCHANGED <<board, runs>>
      \/ UNCHANGED runs /\ Write(t, [file[t] EXCEPT !.st = "needs-user"])
      \/ Unreviewed(t) /\ Queue(t, "review", "review", "review", 0)
  BY <1>1 DEF ReviewTries
<1>3. ~Swept(t)'
  <2>1. scan["review"].pc = "try"
    BY DEF ReviewTries, Trying
  <2>2. scan["review"].sweep = <<>>
    BY <2>1 DEF RangeInv, ScansOK, Coordinators, Proper
  <2>3. ~Swept(t)
    BY <2>2 DEF Swept
  <2>4. ~ScanBegins("review")
    BY <2>1 DEF ScanBegins
  <2> QED
    BY <2>3, <2>4, SweptNext DEF ReviewInv
<1>4. CASE UNCHANGED <<board, runs>>
  BY <1>4, FileOnlyEffect DEF board
<1>5. CASE UNCHANGED runs /\ Write(t, [file[t] EXCEPT !.st = "needs-user"])
  <2>1. file[t] \in Files /\ "needs-user" \in Statuses \ Lost
    BY <1>1 DEF RangeInv, FilesOK, Statuses, Lost
  <2> QED
    BY <1>1, <1>5, <2>1, LaterFiles, FileOnlyEffect
<1>6. CASE Unreviewed(t) /\ Queue(t, "review", "review", "review", 0)
  <2>1. Below(judged[t], file[t].epoch)
    <3> SUFFICES ASSUME NEW i \in DOMAIN judged[t], ~judged[t][i].resumed
                 PROVE  judged[t][i].epoch < file[t].epoch
      BY DEF Below
    <3>1. file[t].epoch \in Nat /\ judged[t] \in Seq(Verdicts)
      BY <1>1 DEF RangeInv, FilesOK, Files, RunsOK
    <3>2. judged[t][i].epoch \in Nat
      <4>1. judged[t][i] \in Verdicts
        BY <3>1, ElementOf
      <4> QED
        BY <4>1 DEF Verdicts
    <3>3. judged[t][i].epoch < file[t].epoch + 1
      BY <1>1 DEF ReviewInv, ReviewStory, Below
    <3>4. judged[t][i].epoch # file[t].epoch
      BY <1>1, <1>6 DEF ReviewInv, ReviewStory, Unreviewed
    <3> QED
      BY <3>1, <3>2, <3>3, <3>4
  <2> QED
    BY <1>1, <1>3, <1>6, <2>1, QueueEffect
<1> QED
  BY <1>2, <1>4, <1>5, <1>6

LEMMA ImplementEffect ==
    ASSUME RangeInv, ImplementPulls \/ ImplementStarts \/ ImplementPutsBack
    PROVE  \A u \in Tasks : Effect(u)
<1> DEFINE k == "implement"
           t == Head(scan[k].todo)
<1>1. t \in Tasks
  BY TodoHead DEF RangeInv, Item, Coordinators, ImplementPulls, ImplementStarts,
     ImplementPutsBack, Trying
<1>2. \/ UNCHANGED <<board, runs>>
      \/ \E s \in Stages : UNCHANGED runs /\ Write(t, Put(file[t], s))
      \/ Queue(t, k, k, k, 0)
  BY DEF ImplementPulls, ImplementStarts, ImplementPutsBack, Stages
<1> HIDE DEF t
<1>3. CASE UNCHANGED <<board, runs>>
  BY <1>3, FileOnlyEffect DEF board
<1>4. CASE \E s \in Stages : UNCHANGED runs /\ Write(t, Put(file[t], s))
  <2>1. file[t] \in Files
    BY <1>1 DEF RangeInv, FilesOK
  <2> QED
    BY <1>1, <1>4, <2>1, LaterFiles, FileOnlyEffect
<1>5. CASE Queue(t, k, k, k, 0)
  BY <1>1, <1>5, QueueEffect
<1> QED
  BY <1>2, <1>3, <1>4, <1>5

LEMMA PromotesEffect ==
    ASSUME RangeInv, NEW t \in Tasks, Promotes(t)
    PROVE  \A u \in Tasks : Effect(u)
<1>1. file[t] \in Files
  BY DEF RangeInv, FilesOK
<1> QED
  BY <1>1, LaterFiles, FileOnlyEffect DEF Promotes, board

LEMMA RepairsEffect ==
    ASSUME RangeInv, NEW t \in Tasks, Repairs(t)
    PROVE  \A u \in Tasks : Effect(u)
<1>1. file[t] \in Files /\ file[t].finds \in Nat
  BY DEF RangeInv, FilesOK, Files
<1>2. CASE Write(t, Repaired(t))
  <2>1. job[t].kind \in {"handoff", "ready", "pull", "submit", "fail"}
    BY DEF Repairs, RangeInv, JobsOK
  <2>2. /\ Later(file[t], Put(file[t], "ready"))
        /\ Later(file[t], Put(file[t], "in-progress"))
        /\ Later(file[t], Readied(file[t])) /\ Later(file[t], Submitted(file[t]))
        /\ Later(file[t], FailedTo(file[t], file[t].finds))
    BY <1>1, LaterFiles DEF Stages
  <2>3. Later(file[t], Repaired(t))
    BY <2>1, <2>2 DEF Repaired
  <2> QED
    BY <1>2, <2>3, FileOnlyEffect DEF Repairs
<1>3. CASE UNCHANGED board
  BY <1>3, FileOnlyEffect DEF Repairs, board
<1> QED
  BY <1>2, <1>3 DEF Repairs

LEMMA RunBeginsEffect ==
    ASSUME RangeInv, NEW t \in Tasks, RunBegins(t)
    PROVE  \A u \in Tasks : Effect(u)
<1>1. file[t] \in Files /\ "running" \in Statuses \ Lost
  BY DEF RangeInv, FilesOK, Statuses, Lost
<1>2. \E g : Write(t, g) /\ Later(file[t], g)
  BY <1>1, LaterFiles DEF RunBegins
<1> QED
  BY <1>2, PhaseEffect DEF RunBegins

LEMMA AgentActsEffect ==
    ASSUME RangeInv, NEW t \in Tasks, AgentActs(t)
    PROVE  \A u \in Tasks : Effect(u)
<1>1. file[t] \in Files /\ "needs-user" \in Statuses \ Lost
      /\ file[t].epoch \in Nat /\ "done" \in Stages
  BY DEF RangeInv, FilesOK, Files, Statuses, Lost, Stages
<1>2. \E g : Write(t, g) /\ Later(file[t], g)
  BY <1>1, LaterFiles DEF AgentActs
<1> QED
  BY <1>2, PhaseEffect DEF AgentActs

LEMMA EndEffect ==
    ASSUME RangeInv, NEW t \in Tasks, RunEnds(t) \/ UserCancels(t)
    PROVE  \A u \in Tasks : Effect(u)
<1>1. run[t].phase \in {"queued", "running", "acted"}
  BY DEF RunEnds, UserCancels, HasActiveRun
<1>2. \E st \in {"success", "failed", "cancelled"} : Record(t, st)
  BY DEF RunEnds, UserCancels
<1> QED
  BY <1>1, <1>2, RecordEffect

LEMMA UserEditsEffect ==
    ASSUME RangeInv, NEW t \in Tasks, UserEdits(t)
    PROVE  \A u \in Tasks : Effect(u)
<1>1. file[t] \in Files /\ "none" \in Statuses \ Lost /\ 2 \in 0..2
  BY DEF RangeInv, FilesOK, Statuses, Lost
<1>2. \E g : Write(t, g) /\ Later(file[t], g)
  BY <1>1, LaterFiles DEF UserEdits
<1> QED
  BY <1>2, FileOnlyEffect DEF UserEdits

LEMMA UserRunsEffect ==
    ASSUME RangeInv, NEW t \in Tasks, UserRuns(t)
    PROVE  \A u \in Tasks : Effect(u)
<1>1. PICK mode : Queue(t, mode, mode, "user", 0)
  BY DEF UserRuns
<1> QED
  BY <1>1, QueueEffect

LEMMA StepEffect ==
    ASSUME RangeInv, ReviewInv, [Next]_vars, ~Crash
    PROVE  \A u \in Tasks : Effect(u)
<1>1. ASSUME NEW k \in Coordinators, ScanBegins(k) \/ Lists(k)
      PROVE  \A u \in Tasks : Effect(u)
  BY <1>1, FileOnlyEffect DEF ScanBegins, Lists, board
<1>2. ASSUME NEW k \in Coordinators, Scans(k) PROVE \A u \in Tasks : Effect(u)
  BY <1>1, <1>2, ResumesEffect, GroomTriesEffect, ReviewTriesEffect,
     ImplementEffect DEF Scans
<1>3. ASSUME NEW t \in Tasks, Reconciles(t) PROVE \A u \in Tasks : Effect(u)
  BY <1>3, FileOnlyEffect DEF Reconciles, board
<1>4. ASSUME NEW t \in Tasks, Works(t) PROVE \A u \in Tasks : Effect(u)
  BY <1>3, <1>4, PromotesEffect, RepairsEffect, RunBeginsEffect, EndEffect DEF Works
<1>5. ASSUME NEW t \in Tasks, Others(t) PROVE \A u \in Tasks : Effect(u)
  <2>1. ASSUME NEW k \in Coordinators, CoolsDown(k, t)
        PROVE  \A u \in Tasks : Effect(u)
    BY <2>1, FileOnlyEffect DEF CoolsDown
  <2> QED
    BY <1>5, <2>1, AgentActsEffect, EndEffect, UserEditsEffect, UserRunsEffect DEF Others
<1>6. CASE UNCHANGED vars
  BY <1>6, FileOnlyEffect DEF vars, runs
<1> QED
  BY <1>2, <1>4, <1>5, <1>6 DEF Next

-----------------------------------------------------------------------------
(* The two steps that are more: a scan that notes crashed runs, a crash.   *)

LEMMA ScanBeginsStory ==
    ASSUME RangeInv, ReviewInv, [Next]_vars, ScanBegins("review")
    PROVE  ReviewInv'
<1> DEFINE p == scan'["review"].sweep
<1>1. UNCHANGED <<file, run, judged, reviewed>>
  BY DEF ScanBegins, board, runs
<1>2. p = <<>> \/ p = Sweep("review")
  <2>1. scan["review"].sweep = <<>>
    BY DEF ScanBegins, RangeInv, ScansOK, Coordinators, Proper
  <2>2. ~Resumes("review")
    BY DEF ScanBegins, Resumes
  <2> QED
    BY <2>1, <2>2, SweepNext
<1>3. /\ \A i \in DOMAIN Sweep("review") :
            LET t == Sweep("review")[i].task
            IN  file[t].st \in Lost /\ run[t].init = "review"
      /\ \A i, j \in DOMAIN Sweep("review") :
            i < j => Sweep("review")[i].task < Sweep("review")[j].task
  BY SweepType DEF RangeInv, Coordinators
<1>4. /\ \A i \in DOMAIN p : file[p[i].task].st \in Lost /\ run[p[i].task].init = "review"
      /\ \A i, j \in DOMAIN p : i < j => p[i].task < p[j].task
  <2> HIDE DEF p
  <2>1. CASE p = <<>>
    BY <2>1
  <2>2. CASE p = Sweep("review")
    BY <1>3, <2>2
  <2> QED
    BY <1>2, <2>1, <2>2
<1>5. SweepOrdered'
  BY <1>4 DEF SweepOrdered
<1>6. ASSUME NEW t \in Tasks PROVE ReviewStory(t)' /\ SweptStory(t)'
  <2>1. ReviewStory(t)
    BY DEF ReviewInv
  <2>2. ReviewStory(t)'
    BY <1>1, <2>1 DEF ReviewStory
  <2>3. Swept(t)' => file[t].st \in Lost /\ run[t].init = "review"
    BY <1>4 DEF Swept
  <2>4. ASSUME Swept(t)'
        PROVE  Below(judged[t], file[t].epoch) /\ run[t].phase = "finished"
    <3>1. Below(judged[t], run[t].target) /\ run[t].phase = "finished"
          /\ run[t].target <= file[t].epoch
      BY <2>1, <2>3, <2>4 DEF ReviewStory, OpenRun
    <3>2. /\ judged[t] \in Seq(Verdicts) /\ run[t].target \in Nat
          /\ file[t].epoch \in Nat
      BY DEF RangeInv, FilesOK, RunsOK, Files, RunStates
    <3> QED
      BY <3>1, <3>2, BelowKept
  <2>5. SweptStory(t)'
    BY <1>1, <2>4 DEF SweptStory
  <2> QED
    BY <2>2, <2>5
<1> QED
  BY <1>5, <1>6 DEF ReviewInv

LEMMA CrashStory ==
    ASSUME RangeInv, ReviewInv, Crash
    PROVE  ReviewInv'
<1>1. scan'["review"].sweep = <<>>
  BY DEF Crash, Coordinators, Idle
<1>2. SweepOrdered' /\ \A t : ~Swept(t)'
  BY <1>1 DEF SweepOrdered, Swept
<1>3. ASSUME NEW t \in Tasks PROVE ReviewStory(t)'
  <2>1. ReviewStory(t) /\ judged' = judged /\ reviewed' = reviewed
    BY DEF ReviewInv, Crash
  <2>2. /\ file'[t].epoch = file[t].epoch /\ run'[t].target = run[t].target
        /\ run'[t].init = run[t].init /\ run'[t].mode = run[t].mode
        /\ run'[t].eff = run[t].eff /\ (OpenRun(run'[t]) => OpenRun(run[t]))
        /\ file'[t].st \in Lost => run'[t].phase = "finished" /\ run'[t].st \in Lost
    <3>0. file[t] \in Files /\ run[t] \in RunStates
      BY DEF RangeInv, FilesOK, RunsOK
    <3>1. CASE \E s \in Lost :
                  /\ run[t].phase \in {"running", "acted"}
                  /\ run'[t] = [run[t] EXCEPT !.phase = "finished", !.st = s]
                  /\ file'[t] = [file[t] EXCEPT !.st = s]
      BY <3>0, <3>1 DEF Files, RunStates, OpenRun
    <3>2. CASE file'[t] = file[t] /\ run'[t] = run[t]
      BY <2>1, <3>2 DEF ReviewStory
    <3>3. ASSUME file'[t] = file[t], run[t].phase \in {"queued", "running", "acted"},
                 NEW p \in {"waiting", "orphan"},
                 run'[t] = [run[t] EXCEPT !.phase = p]
          PROVE  /\ file'[t].epoch = file[t].epoch /\ run'[t].target = run[t].target
                 /\ run'[t].init = run[t].init /\ run'[t].mode = run[t].mode
                 /\ run'[t].eff = run[t].eff /\ (OpenRun(run'[t]) => OpenRun(run[t]))
                 /\ file'[t].st \notin Lost
      <4>1. file[t].st \notin Lost
        BY <2>1, <3>3 DEF ReviewStory
      <4> QED
        BY <3>0, <3>3, <4>1 DEF RunStates, OpenRun
    <3> QED
      BY <3>1, <3>2, <3>3, CrashShape
  <2> QED
    BY <2>1, <2>2 DEF ReviewStory
<1> QED
  BY <1>2, <1>3 DEF ReviewInv, SweptStory

LEMMA ReviewNext ==
    RangeInv /\ RangeInv' /\ ReviewInv /\ [Next]_vars => ReviewInv'
<1> SUFFICES ASSUME RangeInv, RangeInv', ReviewInv, [Next]_vars PROVE ReviewInv'
  OBVIOUS
<1>1. CASE Crash
  BY <1>1, CrashStory
<1>2. CASE ScanBegins("review")
  BY <1>2, ScanBeginsStory
<1>3. CASE ~Crash /\ ~ScanBegins("review")
  <2>1. SweepOrdered' /\ \A t : Swept(t)' => Swept(t)
    BY <1>3, SweptNext DEF ReviewInv
  <2>2. \A t \in Tasks : Effect(t)
    BY <1>3, StepEffect
  <2>3. \A t \in Tasks : ReviewStory(t)' /\ SweptStory(t)'
    BY <2>1, <2>2, EffectKeepsStory DEF ReviewInv
  <2> QED
    BY <2>1, <2>3 DEF ReviewInv
<1> QED
  BY <1>1, <1>2, <1>3

LEMMA ReviewInit == Init => ReviewInv
<1> SUFFICES ASSUME Init PROVE ReviewInv
  OBVIOUS
<1>1. scan["review"].sweep = <<>>
  BY DEF Init, Coordinators, Idle
<1>2. ASSUME NEW t \in Tasks PROVE ReviewStory(t)
  <2>1. file[t] = NewFile(t) /\ run[t] = NoRun /\ judged[t] = <<>>
    BY DEF Init
  <2>2. NewFile(t).epoch \in Nat /\ NewFile(t).st = "none"
    BY DEF NewFile
  <2> QED
    BY <2>1, <2>2 DEF NoRun, ReviewStory, Below, InTurn, OpenRun, Lost
<1> QED
  BY <1>1, <1>2 DEF ReviewInv, SweepOrdered, SweptStory, Swept

LEMMA ReviewAlways == Spec => []ReviewInv
<1>1. RangeInv /\ RangeInv' /\ ReviewInv /\ [Next]_vars => ReviewInv'
  BY ReviewNext
<1> QED
  BY <1>1, ReviewInit, RangeAlways, PTL DEF Spec

\* No entry into code-review is reviewed again once a run that was started for
\* it has given its verdict (auto_review.go:519): not by a scan of a stale
\* snapshot, not by the sweep of crashed runs, not after a restart.
THEOREM ReviewedOnceAlways == Spec => []ReviewedOnce
<1>1. ReviewInv => ReviewedOnce
  BY DEF ReviewInv, ReviewStory, InTurn, ReviewedOnce
<1> QED
  BY <1>1, ReviewAlways, PTL

=============================================================================
