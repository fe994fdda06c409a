--------------------------- MODULE AgentRunProofs ---------------------------
(* Theorems about AgentRun, for every value of its constants.              *)
EXTENDS AgentRun, WellFoundedInduction, SequenceTheorems, FiniteSetTheorems,
        TLAPS

-----------------------------------------------------------------------------
(* The greatest element, for the choices that read the log.                *)

LEMMA LeastOf ==
    ASSUME NEW T \in SUBSET Nat, T # {}
    PROVE  \E x \in T : \A y \in T : x <= y
<1> DEFINE R == OpToRel(<, Nat)
<1>1. IsWellFoundedOn(R, Nat)
  BY NatLessThanWellFounded
<1>2. R = {ss \in Nat \X Nat : ss[1] < ss[2]}
  BY DEF OpToRel
<1> HIDE DEF R
<1>3. PICK x \in T : \A y \in T : ~ (<<y, x>> \in R)
  BY <1>1, WFMin
<1>4. \A y \in T : ~(y < x)
  BY <1>2, <1>3
<1> QED
  BY <1>4

LEMMA GreatestOf ==
    ASSUME NEW n \in Nat, NEW T \in SUBSET (1..n), T # {}
    PROVE  \E x \in T : \A y \in T : y <= x
<1> DEFINE U == {n - y : y \in T}
<1>1. \A y \in T : y \in Nat /\ n - y \in Nat
  OBVIOUS
<1>2. U \in SUBSET Nat /\ U # {}
  BY <1>1
<1>3. PICK u \in U : \A v \in U : u <= v
  BY <1>2, LeastOf
<1>4. PICK x \in T : u = n - x
  BY <1>3
<1>5. \A y \in T : n - x <= n - y
  BY <1>3, <1>4
<1>6. \A y \in T : y <= x
  BY <1>1, <1>5
<1> QED
  BY <1>6

-----------------------------------------------------------------------------
(* Ranges.                                                                 *)

ObjStates == [pc : PCs, run : Runs \cup {0},
              kind : {"direct", "queued", "stub"}, mode : Modes,
              pid : Objs \cup {0}, cancelled : BOOLEAN,
              ctx : BOOLEAN, done : BOOLEAN,
              fin : {"free", "append", "read", "edit", "delete", "done"},
              st : Terminal \cup {"none"}]

Events == [run : Runs, kind : {"queued"}, pid : {0}, st : Modes]
          \cup [run : Runs, kind : {"started", "session"},
                pid : Objs, st : {"none"}]
          \cup [run : Runs, kind : {"finished"}, pid : {0}, st : Terminal]

CancStates == [pc : {"idle", "mark", "kill", "grace", "await", "finish"},
               obj : Objs \cup {0}, pid : Objs \cup {0}]

RecStates == [pc : {"idle", "startup", "read", "next", "finish", "edit"},
              tick : BOOLEAN, len : Nat, rest : SUBSET Runs,
              run : Runs \cup {0}, st : Terminal \cup {"none"}]

MonStates == [pc : {"off", "poll", "release", "sync", "exit", "claim", "lose"},
              pid : Objs \cup {0}, obj : Objs \cup {0},
              st : Terminal \cup {"none"}]

Budgets == [crashes : Nat, ticks : Nat, faults : Nat, hand : Nat, asks : Nat,
            misread : BOOLEAN]

\* The variables that TypeOK leaves out.
SideTypes ==
    /\ canc \in [Cancellers \cup Watchers -> CancStates]
    /\ rec \in RecStates
    /\ mon \in [Runs -> MonStates]
    /\ budget \in Budgets

\* Whoever works on an object or a run works on one that exists.
CancOK ==
    \A c \in Cancellers \cup Watchers :
        canc[c].pc # "idle" => /\ canc[c].obj \in Objs
                               /\ obj[canc[c].obj].run \in Runs

RecOK ==
    /\ rec.len \in 0..Len(log)
    /\ rec.rest \subseteq RunsIn(rec.len)
    /\ rec.pc \in {"finish", "edit"} =>
         rec.run \in Runs /\ rec.st \in {"interrupted", "lost"}

MonOK ==
    \A r \in Runs :
        /\ mon[r].pc = "claim" => /\ mon[r].obj \in Objs
                                  /\ obj[mon[r].obj].run \in Runs
        /\ mon[r].pc \in {"release", "sync"} => mon[r].st \in Terminal

\* An object that is at work has its run, what it writes is in range, and
\* its run has a queued event once it may start a process.
Named(o) ==
    /\ obj[o].pc \in {"unused", "claimed"} => obj[o].run = 0
    /\ \/ obj[o].pc \notin {"unused", "claimed", "gone"}
       \/ obj[o].fin # "free"
       \/ active = o
       => obj[o].run \in Runs
    /\ \/ obj[o].fin \in {"append", "read"}
       \/ (obj[o].pc = "post" /\ obj[o].fin = "free")
       => obj[o].st \in Terminal
    /\ \/ obj[o].pc \in {"label", "go", "started", "mark", "record", "wait"}
       \/ (obj[o].pc = "register" /\ obj[o].kind # "direct")
       => Has(obj[o].run, "queued")

\* No start without a place in the queue before it.
QueuedFirst == \A i \in DOMAIN log : log[i].kind \in {"started", "session"}
                                       => Has(log[i].run, "queued")

RangeInv ==
    /\ TypeOK /\ SideTypes
    /\ CancOK /\ RecOK /\ MonOK /\ QueuedFirst
    /\ \A o \in Objs : Named(o)

LEMMA Types ==
    TypeOK <=> /\ up \in BOOLEAN /\ closing \in BOOLEAN
               /\ status \in Statuses
               /\ active \in Objs \cup {0} /\ entry \in Objs \cup {0}
               /\ obj \in [Objs -> ObjStates]
               /\ proc \in [Objs -> {"none", "alive", "dead"}]
               /\ log \in Seq(Events)
               /\ nextRun \in 1..(MaxRuns + 1)
BY DEF TypeOK, ObjStates, Events

LEMMA TypesNext ==
    ASSUME up' \in BOOLEAN, closing' \in BOOLEAN, status' \in Statuses,
           active' \in Objs \cup {0}, entry' \in Objs \cup {0},
           obj' \in [Objs -> ObjStates],
           proc' \in [Objs -> {"none", "alive", "dead"}],
           log' \in Seq(Events), nextRun' \in 1..(MaxRuns + 1)
    PROVE  TypeOK'
BY DEF TypeOK, ObjStates, Events

LEMMA EventKinds ==
    \A e \in Events :
      /\ e.run \in Runs
      /\ e.kind \in {"queued", "started", "session", "finished"}
      /\ e.kind = "queued" => e.st \in Modes /\ e.pid = 0
      /\ e.kind \in {"started", "session"} => e.pid \in Objs
      /\ e.kind = "finished" => e.st \in Terminal /\ e.pid = 0
BY DEF Events

LEMMA EventTypes ==
    ASSUME NEW r \in Runs
    PROVE  /\ \A m \in Modes : Event(r, "queued", 0, m) \in Events
           /\ \A o \in Objs, k \in {"started", "session"} :
                Event(r, k, o, "none") \in Events
           /\ \A s \in Terminal : Event(r, "finished", 0, s) \in Events
BY DEF Event, Events

LEMMA UnusedState == Unused \in ObjStates
BY DEF Unused, ObjStates, PCs, Modes, Terminal

LEMMA IdleStates == NoCancel \in CancStates /\ NoScan \in RecStates
                    /\ NoMon \in MonStates
BY DEF NoCancel, CancStates, NoScan, RecStates, NoMon, MonStates

-----------------------------------------------------------------------------
(* The log.                                                                *)

LEMMA LogFacts ==
    ASSUME log \in Seq(Events)
    PROVE  /\ Len(log) \in Nat /\ DOMAIN log = 1..Len(log)
           /\ \A i \in DOMAIN log : log[i] \in Events
BY LenProperties, ElementOfSeq

\* The latest of some positions of the log.
LEMMA LastOfIn ==
    ASSUME NEW n \in Nat, NEW is \in SUBSET (1..n), is # {}
    PROVE  LastOf(is) \in is /\ \A j \in is : j <= LastOf(is)
<1>1. \E x \in is : \A y \in is : y <= x
  BY GreatestOf
<1> QED
  BY <1>1 DEF LastOf

LEMMA SeenIn ==
    ASSUME log \in Seq(Events), NEW n \in 0..Len(log), NEW r, NEW k
    PROVE  /\ Seen(n, r, k) \in SUBSET (1..n)
           /\ \A i \in Seen(n, r, k) : /\ i \in DOMAIN log /\ log[i].run = r
                                       /\ log[i].kind = k
BY LogFacts DEF Seen

LEMMA ModeOfType ==
    ASSUME log \in Seq(Events), NEW r, Has(r, "queued")
    PROVE  ModeOf(r) \in Modes
<1> DEFINE at == Seen(Len(log), r, "queued")
<1>1. Len(log) \in Nat /\ at \in SUBSET (1..Len(log)) /\ at # {}
  BY LogFacts DEF Seen, Has
<1>2. LastOf(at) \in at
  BY <1>1, LastOfIn
<1>3. log[LastOf(at)] \in Events /\ log[LastOf(at)].kind = "queued"
  BY <1>2, LogFacts DEF Seen
<1> QED
  BY <1>3, EventKinds DEF ModeOf

LEMMA FinishType ==
    ASSUME log \in Seq(Events), NEW n \in 0..Len(log), NEW r
    PROVE  FinishIn(n, r) \in Terminal \cup {"none"}
<1> DEFINE at == Seen(n, r, "finished")
<1>1. n \in Nat /\ at \in SUBSET (1..n)
  BY LogFacts, SeenIn
<1>2. CASE at = {}
  BY <1>2 DEF FinishIn
<1>3. CASE at # {}
  <2>1. LastOf(at) \in at
    BY <1>1, <1>3, LastOfIn
  <2>2. log[LastOf(at)] \in Events /\ log[LastOf(at)].kind = "finished"
    BY <2>1, LogFacts, SeenIn
  <2>3. log[LastOf(at)].st \in Terminal
    BY <2>2, EventKinds
  <2> QED
    BY <1>3, <2>3 DEF FinishIn
<1> QED
  BY <1>2, <1>3

LEMMA PidType ==
    ASSUME log \in Seq(Events), NEW n \in 0..Len(log), NEW r,
           PidIn(n, r) # 0
    PROVE  /\ PidIn(n, r) \in Objs
           /\ \E i \in DOMAIN log :
                /\ log[i].run = r /\ log[i].kind \in {"started", "session"}
                /\ log[i].pid = PidIn(n, r)
<1> DEFINE at == Seen(n, r, "started") \cup Seen(n, r, "session")
<1>1. at # {}
  BY DEF PidIn
<1>2. n \in Nat /\ at \in SUBSET (1..n)
  BY LogFacts, SeenIn
<1>3. LastOf(at) \in at
  BY <1>1, <1>2, LastOfIn
<1>4. /\ LastOf(at) \in DOMAIN log /\ log[LastOf(at)] \in Events
      /\ log[LastOf(at)].kind \in {"started", "session"}
      /\ log[LastOf(at)].run = r
  BY <1>3, LogFacts, SeenIn
<1>5. PidIn(n, r) = log[LastOf(at)].pid
  BY <1>1 DEF PidIn
<1> QED
  BY <1>4, <1>5, EventKinds

\* Where a run first appears.
LEMMA FirstOfIn ==
    ASSUME log \in Seq(Events), NEW r \in Logged
    PROVE  FirstOf(r) \in DOMAIN log /\ log[FirstOf(r)].run = r
<1> DEFINE at == {i \in DOMAIN log : log[i].run = r}
<1>1. at \in SUBSET Nat /\ at # {}
  BY LogFacts DEF Logged
<1>2. PICK i \in at : \A j \in at : i <= j
  BY <1>1, LeastOf
<1>3. \A j \in 1..(i - 1) : log[j].run # r
  BY <1>2, LogFacts
<1>4. \E k \in DOMAIN log :
         log[k].run = r /\ \A j \in 1..(k - 1) : log[j].run # r
  BY <1>2, <1>3
<1> QED
  BY <1>4 DEF FirstOf

LEMMA EarliestIn ==
    ASSUME log \in Seq(Events), NEW rs \in SUBSET Logged, rs # {}
    PROVE  Earliest(rs) \in rs
<1> DEFINE at == {FirstOf(q) : q \in rs}
<1>1. at \in SUBSET Nat /\ at # {}
  BY FirstOfIn, LogFacts
<1>2. PICK i \in at : \A j \in at : i <= j
  BY <1>1, LeastOf
<1>3. \E r \in rs : \A q \in rs : FirstOf(r) <= FirstOf(q)
  BY <1>2
<1> QED
  BY <1>3 DEF Earliest

LEMMA LatestIn ==
    ASSUME log \in Seq(Events), NEW rs \in SUBSET Logged, rs # {}
    PROVE  LatestOf(rs) \in rs
<1> DEFINE at == {FirstOf(q) : q \in rs}
<1>1. at \in SUBSET (1..Len(log)) /\ at # {} /\ Len(log) \in Nat
  BY FirstOfIn, LogFacts
<1>2. PICK i \in at : \A j \in at : j <= i
  BY <1>1, GreatestOf
<1>3. \E r \in rs : \A q \in rs : FirstOf(q) <= FirstOf(r)
  BY <1>2
<1> QED
  BY <1>3 DEF LatestOf

\* What one event adds.
LEMMA HasAppended ==
    ASSUME log \in Seq(Events), NEW e \in Events, log' = Append(log, e)
    PROVE  /\ log' \in Seq(Events) /\ Len(log') = Len(log) + 1
           /\ log'[Len(log) + 1] = e
           /\ \A i \in 1..Len(log) : log'[i] = log[i]
           /\ \A r, k : Has(r, k)' <=> Has(r, k) \/ (e.run = r /\ e.kind = k)
           /\ Logged' = Logged \cup {e.run}
<1>1. /\ log' \in Seq(Events) /\ Len(log') = Len(log) + 1
      /\ log'[Len(log) + 1] = e
      /\ \A i \in 1..Len(log) : log'[i] = log[i]
  BY AppendProperties
<1>2. /\ DOMAIN log = 1..Len(log) /\ DOMAIN log' = 1..(Len(log) + 1)
      /\ Len(log) \in Nat
  BY <1>1, LenProperties
<1>3. \A r, k : Has(r, k)' <=> Has(r, k) \/ (e.run = r /\ e.kind = k)
  BY <1>1, <1>2 DEF Has
<1>4. Logged' = Logged \cup {e.run}
  BY <1>1, <1>2 DEF Logged
<1> QED
  BY <1>1, <1>3, <1>4

-----------------------------------------------------------------------------
(* Steps, by what they touch.                                              *)

\* The log stays, or an event is appended, a start only after its queueing.
LogStep ==
    \/ log' = log
    \/ \E e \in Events :
         /\ log' = Append(log, e)
         /\ e.kind \in {"started", "session"} => Has(e.run, "queued")

LEMMA LogGrows ==
    ASSUME log \in Seq(Events), QueuedFirst, LogStep
    PROVE  /\ log' \in Seq(Events) /\ QueuedFirst'
           /\ \A r, k : Has(r, k) => Has(r, k)'
           /\ Len(log) \in Nat /\ Len(log') \in Nat /\ Len(log) <= Len(log')
           /\ \A n \in 0..Len(log) : RunsIn(n)' = RunsIn(n)
<1>0. Len(log) \in Nat /\ DOMAIN log = 1..Len(log)
  BY LogFacts
<1>1. CASE log' = log
  BY <1>0, <1>1 DEF QueuedFirst, Has, RunsIn
<1>2. ASSUME NEW e \in Events, log' = Append(log, e),
             e.kind \in {"started", "session"} => Has(e.run, "queued")
      PROVE  /\ log' \in Seq(Events) /\ QueuedFirst'
             /\ \A r, k : Has(r, k) => Has(r, k)'
             /\ Len(log') \in Nat /\ Len(log) <= Len(log')
             /\ \A n \in 0..Len(log) : RunsIn(n)' = RunsIn(n)
  <2>1. /\ log' \in Seq(Events) /\ Len(log') = Len(log) + 1
        /\ log'[Len(log) + 1] = e
        /\ \A i \in 1..Len(log) : log'[i] = log[i]
        /\ \A r, k : Has(r, k) => Has(r, k)'
    BY <1>2, HasAppended
  <2>2. DOMAIN log' = 1..(Len(log) + 1)
    BY <2>1, LenProperties
  <2>3. ASSUME NEW i \in DOMAIN log', NEW r, log'[i].run = r,
               log'[i].kind \in {"started", "session"}
        PROVE  Has(r, "queued")'
    <3>1. CASE i \in 1..Len(log)
      BY <1>0, <2>1, <2>3, <3>1 DEF QueuedFirst
    <3>2. CASE i = Len(log) + 1
      BY <1>2, <2>1, <2>3, <3>2
    <3> QED
      BY <1>0, <2>2, <3>1, <3>2
  <2>4. QueuedFirst'
    BY <2>3 DEF QueuedFirst, Has
  <2>5. \A n \in 0..Len(log) : RunsIn(n)' = RunsIn(n)
    BY <1>0, <2>1 DEF RunsIn
  <2> QED
    BY <1>0, <2>1, <2>4, <2>5
<1> QED
  BY <1>0, <1>1, <1>2 DEF LogStep

LEMMA AppendStep ==
    ASSUME SideTypes, NEW e \in Events, NEW ok \in BOOLEAN,
           AppendEvent(e, ok),
           e.kind \in {"started", "session"} => Has(e.run, "queued")
    PROVE  /\ LogStep /\ budget' \in Budgets
           /\ budget'.crashes = budget.crashes /\ budget'.ticks = budget.ticks
           /\ ok => log' = Append(log, e)
           /\ ~ok => log' = log
<1>1. (ok => log' = Append(log, e)) /\ (~ok => log' = log)
  BY DEF AppendEvent
<1>2. CASE ok
  BY <1>1, <1>2 DEF AppendEvent, LogStep, SideTypes
<1>3. CASE ~ok
  <2>1. budget.faults > 0 /\ budget' = [budget EXCEPT !.faults = @ - 1]
    BY <1>3 DEF AppendEvent
  <2>2. /\ budget' \in Budgets
        /\ budget'.crashes = budget.crashes /\ budget'.ticks = budget.ticks
    BY <2>1 DEF SideTypes, Budgets
  <2> QED
    BY <1>1, <1>3, <2>2 DEF LogStep
<1> QED
  BY <1>2, <1>3

LEMMA EditStep ==
    ASSUME SideTypes, NEW s, NEW ok \in BOOLEAN, EditStatus(s, ok)
    PROVE  /\ status' \in {s, status} /\ budget' \in Budgets
           /\ budget'.crashes = budget.crashes /\ budget'.ticks = budget.ticks
<1>1. CASE ok
  BY <1>1 DEF EditStatus, SideTypes
<1>2. CASE ~ok
  <2>1. /\ budget.faults > 0 /\ budget' = [budget EXCEPT !.faults = @ - 1]
        /\ status' = status
    BY <1>2 DEF EditStatus
  <2> QED
    BY <2>1 DEF SideTypes, Budgets
<1> QED
  BY <1>1, <1>2

\* One object changes.
LEMMA ObjEdit ==
    ASSUME obj \in [Objs -> ObjStates], NEW o \in Objs, NEW x \in ObjStates,
           obj' = [obj EXCEPT ![o] = x]
    PROVE  /\ obj' \in [Objs -> ObjStates] /\ obj'[o] = x
           /\ \A q \in Objs : q # o => obj'[q] = obj[q]
OBVIOUS

\* The pc of one object changes.
LEMMA GotoState ==
    ASSUME obj \in [Objs -> ObjStates], NEW o \in Objs, NEW pc \in PCs,
           Goto(o, pc)
    PROVE  \E x \in ObjStates :
             /\ x = [obj[o] EXCEPT !.pc = pc]
             /\ obj' = [obj EXCEPT ![o] = x]
<1> DEFINE x == [obj[o] EXCEPT !.pc = pc]
<1>1. x \in ObjStates
  BY DEF ObjStates
<1>2. obj' = [obj EXCEPT ![o] = x]
  BY DEF Goto
<1> QED
  BY <1>1, <1>2

\* The state of finishOnce of one object changes.
LEMMA FinState ==
    ASSUME obj \in [Objs -> ObjStates], NEW o \in Objs,
           NEW f \in {"append", "read", "edit", "delete", "done"},
           SetFin(o, f)
    PROVE  \E x \in ObjStates :
             /\ x = [obj[o] EXCEPT !.fin = f]
             /\ obj' = [obj EXCEPT ![o] = x]
<1> DEFINE x == [obj[o] EXCEPT !.fin = f]
<1>1. x \in ObjStates
  BY DEF ObjStates
<1>2. obj' = [obj EXCEPT ![o] = x]
  BY DEF SetFin
<1> QED
  BY <1>1, <1>2

LEMMA ClaimedState ==
    ASSUME obj \in [Objs -> ObjStates], NEW o \in Objs, NEW s \in Terminal
    PROVE  /\ Claimed(o, s) \in ObjStates
           /\ Claimed(o, s) = [obj[o] EXCEPT !.fin = "append", !.st = s]
BY ZenonT(60) DEF Claimed, ObjStates

\* Runs are only given, never taken, while the GUI lives.
RunsKept == \A q \in Objs : obj[q].run \in Runs => obj'[q].run = obj[q].run

LEMMA SideKept ==
    ASSUME RangeInv, UNCHANGED sideVars, LogStep, RunsKept
    PROVE  CancOK' /\ RecOK' /\ MonOK'
<1>0. log \in Seq(Events) /\ QueuedFirst
  BY Types DEF RangeInv
<1>1. canc' = canc /\ rec' = rec /\ mon' = mon
  BY DEF sideVars
<1>2. CancOK'
  BY <1>1 DEF RangeInv, CancOK, RunsKept
<1>3. MonOK'
  BY <1>1 DEF RangeInv, MonOK, RunsKept
<1>4. rec.len \in 0..Len(log) /\ rec.rest \subseteq RunsIn(rec.len)
  BY DEF RangeInv, RecOK
<1> PICK n \in 0..Len(log) : n = rec.len
  BY <1>4
<1>5. n \in 0..Len(log') /\ RunsIn(n)' = RunsIn(n)
  BY <1>0, LogGrows
<1>6. RecOK'
  BY <1>1, <1>4, <1>5 DEF RangeInv, RecOK, RunsIn
<1> QED
  BY <1>2, <1>3, <1>6

LEMMA NamedFrame ==
    ASSUME NEW q, Named(q), obj'[q] = obj[q],
           active' = q => active = q,
           \A r, k : Has(r, k) => Has(r, k)'
    PROVE  Named(q)'
<1>1. Has(obj[q].run, "queued") => Has(obj[q].run, "queued")'
  <2> PICK r : r = obj[q].run
    OBVIOUS
  <2> QED
    BY DEF Has
<1> QED
  BY <1>1 DEF Named

\* What a step of the object o's goroutines may do.
ActorMoves(o, x) ==
    /\ up' \in BOOLEAN /\ closing' = closing
    /\ obj' = [obj EXCEPT ![o] = x]
    /\ obj[o].run \in Runs => x.run = obj[o].run
    /\ LogStep
    /\ status' \in Statuses
    /\ active' \in {active, o, 0} /\ entry' \in {entry, o, 0}
    /\ proc' \in [Objs -> {"none", "alive", "dead"}]
    /\ nextRun' \in 1..(MaxRuns + 1)
    /\ budget' \in Budgets
    /\ UNCHANGED sideVars

LEMMA ActorStep ==
    ASSUME RangeInv, NEW o \in Objs, NEW x \in ObjStates, ActorMoves(o, x),
           Named(o)'
    PROVE  RangeInv'
<1>0. TypeOK /\ log \in Seq(Events) /\ QueuedFirst /\ SideTypes
      /\ obj \in [Objs -> ObjStates]
  BY Types DEF RangeInv
<1>1. /\ obj' \in [Objs -> ObjStates] /\ obj'[o] = x
      /\ \A q \in Objs : q # o => obj'[q] = obj[q]
  BY <1>0, ObjEdit DEF ActorMoves
<1>2. RunsKept
  BY <1>1 DEF RunsKept, ActorMoves
<1>3. CancOK' /\ RecOK' /\ MonOK'
  BY <1>2, SideKept DEF ActorMoves
<1>4. /\ log' \in Seq(Events) /\ QueuedFirst'
      /\ \A r, k : Has(r, k) => Has(r, k)'
  BY <1>0, LogGrows DEF ActorMoves
<1>5. TypeOK'
  BY <1>0, <1>1, <1>4, Types, TypesNext DEF ActorMoves
<1>6. SideTypes'
  BY <1>0 DEF SideTypes, ActorMoves, sideVars
<1>7. \A q \in Objs : q # o => (active' = q => active = q)
  BY DEF ActorMoves, Objs
<1>8. \A q \in Objs : Named(q)'
  BY <1>1, <1>4, <1>7, NamedFrame DEF RangeInv
<1> QED
  BY <1>3, <1>4, <1>5, <1>6, <1>8 DEF RangeInv

-----------------------------------------------------------------------------
(* Ranges, action by action.                                               *)

\* Named for an object that has become x.
NamedAs(o, x) ==
    /\ x.pc # "unused" /\ (x.pc = "claimed" => x.run = 0)
    /\ \/ x.pc \notin {"claimed", "gone"}
       \/ x.fin # "free"
       \/ active' = o
       => x.run \in Runs
    /\ \/ x.fin \in {"append", "read"}
       \/ (x.pc = "post" /\ x.fin = "free")
       => x.st \in Terminal
    /\ \/ x.pc \in {"label", "go", "started", "mark", "record", "wait"}
       \/ (x.pc = "register" /\ x.kind # "direct")
       => Has(x.run, "queued")'

LEMMA ActorRange ==
    ASSUME RangeInv, NEW o \in Objs, NEW x \in ObjStates, ActorMoves(o, x),
           NamedAs(o, x)
    PROVE  RangeInv'
<1>1. obj'[o] = x
  BY Types DEF RangeInv, ActorMoves
<1>2. Named(o)'
  BY <1>1 DEF Named, NamedAs, Has
<1> QED
  BY <1>2, ActorStep

\* The objects and the log stay.
LEMMA StillRange ==
    ASSUME RangeInv, obj' = obj, log' = log, active' = active,
           UNCHANGED sideVars, up' \in BOOLEAN, closing' \in BOOLEAN,
           status' \in Statuses, entry' \in Objs \cup {0},
           proc' \in [Objs -> {"none", "alive", "dead"}],
           nextRun' \in 1..(MaxRuns + 1), budget' \in Budgets
    PROVE  RangeInv'
<1>1. TypeOK'
  BY Types, TypesNext DEF RangeInv
<1>2. SideTypes'
  BY DEF RangeInv, SideTypes, sideVars
<1>3. LogStep /\ RunsKept
  BY DEF LogStep, RunsKept
<1>4. CancOK' /\ RecOK' /\ MonOK'
  BY <1>3, SideKept
<1>5. QueuedFirst'
  BY DEF RangeInv, QueuedFirst, Has
<1>6. \A q \in Objs : Named(q)'
  BY NamedFrame DEF RangeInv, Has
<1> QED
  BY <1>1, <1>2, <1>4, <1>5, <1>6 DEF RangeInv

LEMMA RangeFacts ==
    ASSUME RangeInv, NEW o \in Objs
    PROVE  /\ SideTypes /\ Named(o) /\ obj[o] \in ObjStates
           /\ obj \in [Objs -> ObjStates] /\ log \in Seq(Events)
           /\ proc \in [Objs -> {"none", "alive", "dead"}]
           /\ status \in Statuses /\ active \in Objs \cup {0}
           /\ entry \in Objs \cup {0} /\ nextRun \in 1..(MaxRuns + 1)
           /\ up \in BOOLEAN /\ closing \in BOOLEAN /\ budget \in Budgets
           /\ QueuedFirst /\ MaxRuns \in Nat
BY Types, AgentRunAssumption DEF RangeInv, SideTypes

LEMMA StartRange ==
    ASSUME RangeInv, NEW o \in Objs, StartRun(o)
    PROVE  RangeInv'
<1> USE RangeFacts
<1>0. obj[o].run = 0
  BY DEF StartRun, StartAgentRun, ResumeAgent, Claim, Fresh, Named
<1>1. ASSUME NEW x \in ObjStates, x.fin = "free",
             \/ x.pc = "register" /\ x.kind = "direct" /\ x.run \in Runs
             \/ x.pc = "claimed" /\ x.run = 0,
             obj' = [obj EXCEPT ![o] = x],
             nextRun' \in 1..(MaxRuns + 1), entry' = o, active' = active,
             active = 0, log' = log, status' = status, budget' = budget,
             up' = up, closing' = closing, proc' = proc, UNCHANGED sideVars
      PROVE  RangeInv'
  <2>1. ActorMoves(o, x)
    BY <1>0, <1>1 DEF ActorMoves, LogStep, Runs
  <2>2. active' # o
    BY <1>1 DEF Objs
  <2>3. NamedAs(o, x)
    BY <1>1, <2>2 DEF NamedAs
  <2> QED
    BY <2>1, <2>3, ActorRange
<1>2. nextRun <= MaxRuns => nextRun \in Runs /\ nextRun + 1 \in 1..(MaxRuns + 1)
  BY DEF Runs
<1>3. ASSUME NEW m \in Modes, nextRun \in Runs
      PROVE  /\ [Unused EXCEPT !.pc = "register", !.run = nextRun, !.mode = m]
                  \in ObjStates
             /\ [Unused EXCEPT !.pc = "claimed", !.kind = "queued"] \in ObjStates
  BY <1>3, ZenonT(60) DEF Unused, ObjStates, PCs, Terminal, Modes
<1>4. CASE \E m \in StartModes : StartAgentRun(o, m)
  <2>1. PICK m \in StartModes : StartAgentRun(o, m)
    BY <1>4
  <2> DEFINE x == [Unused EXCEPT !.pc = "register", !.run = nextRun, !.mode = m]
  <2>2. m \in Modes
    BY AgentRunAssumption DEF Modes
  <2>3. /\ x \in ObjStates /\ x.fin = "free" /\ x.pc = "register"
        /\ x.kind = "direct" /\ x.run \in Runs
    BY <1>2, <1>3, <2>1, <2>2 DEF StartAgentRun, Unused
  <2>4. obj' = [obj EXCEPT ![o] = x]
    BY <2>1 DEF StartAgentRun
  <2> HIDE DEF x
  <2> QED
    BY <1>1, <1>2, <2>1, <2>3, <2>4 DEF StartAgentRun, diskVars
<1>5. CASE ResumeAgent(o)
  <2> DEFINE x == [Unused EXCEPT !.pc = "register", !.run = nextRun,
                                 !.mode = ResumeMode]
  <2>0. ResumeMode \in Modes
    BY DEF ResumeMode, Modes
  <2>1. /\ x \in ObjStates /\ x.fin = "free" /\ x.pc = "register"
        /\ x.kind = "direct" /\ x.run \in Runs
    BY <1>2, <1>3, <1>5, <2>0 DEF ResumeAgent, Unused
  <2>2. obj' = [obj EXCEPT ![o] = x]
    BY <1>5 DEF ResumeAgent
  <2> HIDE DEF x
  <2> QED
    BY <1>1, <1>2, <1>5, <2>1, <2>2 DEF ResumeAgent, diskVars
<1>6. CASE Claim(o)
  <2> DEFINE x == [Unused EXCEPT !.pc = "claimed", !.kind = "queued"]
  <2>1. x \in ObjStates /\ x.fin = "free" /\ x.pc = "claimed" /\ x.run = 0
    BY DEF Unused, ObjStates, PCs, Terminal, Modes
  <2>2. obj' = [obj EXCEPT ![o] = x]
    BY <1>6 DEF Claim
  <2> HIDE DEF x
  <2> QED
    BY <1>1, <1>6, <2>1, <2>2 DEF Claim, diskVars, gateVars
<1> QED
  BY <1>4, <1>5, <1>6 DEF StartRun

LEMMA QueuedLater ==
    ASSUME RangeInv, LogStep, NEW r, Has(r, "queued")
    PROVE  Has(r, "queued")'
BY LogGrows, Types DEF RangeInv

LEMMA SetupRange ==
    ASSUME RangeInv, NEW o \in Objs, Setup(o)
    PROVE  RangeInv'
<1> USE RangeFacts
<1>1. CASE Register(o)
  <2>1. PICK pc \in {"queue", "go", "gone"} :
          /\ Goto(o, pc)
          /\ \/ pc = "gone" /\ active' = active /\ active # 0
                /\ entry' \in {entry, 0}
             \/ /\ pc # "gone" /\ active' = o /\ entry' = entry
                /\ pc = "go" <=> obj[o].kind # "direct"
    BY <1>1 DEF Register
  <2>2. PICK x \in ObjStates : /\ x = [obj[o] EXCEPT !.pc = pc]
                               /\ obj' = [obj EXCEPT ![o] = x]
    BY <2>1, GotoState DEF PCs
  <2>3. /\ x.pc = pc /\ x.run = obj[o].run /\ x.fin = obj[o].fin
        /\ x.st = obj[o].st /\ x.kind = obj[o].kind
    BY <2>2 DEF ObjStates
  <2>4. ActorMoves(o, x)
    BY <1>1, <2>1, <2>2, <2>3
    DEF Register, ActorMoves, LogStep, gateVars, diskVars
  <2>5. Has(obj[o].run, "queued") => Has(x.run, "queued")'
    BY <2>3, <2>4, QueuedLater DEF ActorMoves
  <2>6. NamedAs(o, x)
    BY <1>1, <2>1, <2>3, <2>5 DEF Register, At, Named, NamedAs
  <2> QED
    BY <2>4, <2>6, ActorRange
<1>2. CASE AppendQueued(o)
  <2>1. PICK ok \in BOOLEAN :
          /\ AppendEvent(Event(obj[o].run, "queued", 0, obj[o].mode), ok)
          /\ Goto(o, IF ok THEN "label" ELSE "undo")
    BY <1>2 DEF AppendQueued
  <2> DEFINE e == Event(obj[o].run, "queued", 0, obj[o].mode)
             pc == IF ok THEN "label" ELSE "undo"
  <2>2. obj[o].run \in Runs /\ obj[o].mode \in Modes
    BY <1>2 DEF AppendQueued, At, Named, ObjStates
  <2>3. e \in Events /\ e.kind = "queued" /\ e.run = obj[o].run
    BY <2>2, EventTypes DEF Event
  <2>4. pc \in PCs /\ pc \in {"label", "undo"} /\ (pc = "label" => ok)
    BY DEF PCs
  <2>5. PICK x \in ObjStates : /\ x = [obj[o] EXCEPT !.pc = pc]
                               /\ obj' = [obj EXCEPT ![o] = x]
    BY <2>1, <2>4, GotoState
  <2> HIDE DEF e, pc
  <2>6. /\ x.pc = pc /\ x.run = obj[o].run /\ x.fin = obj[o].fin
        /\ x.st = obj[o].st /\ x.kind = obj[o].kind
    BY <2>5 DEF ObjStates
  <2>7. LogStep /\ budget' \in Budgets /\ (ok => log' = Append(log, e))
    BY <2>1, <2>3, AppendStep DEF e
  <2>8. ok => Has(x.run, "queued")'
    BY <2>3, <2>6, <2>7, HasAppended
  <2>9. ActorMoves(o, x)
    BY <1>2, <2>2, <2>5, <2>6, <2>7 DEF AppendQueued, ActorMoves, gateVars
  <2>10. NamedAs(o, x)
    BY <1>2, <2>2, <2>4, <2>6, <2>8 DEF AppendQueued, At, Named, NamedAs
  <2> QED
    BY <2>9, <2>10, ActorRange
<1>3. CASE EditQueued(o)
  <2>1. PICK ok \in BOOLEAN : /\ EditStatus("queued", ok)
                              /\ Goto(o, IF ok THEN "go" ELSE "undo")
    BY <1>3 DEF EditQueued
  <2> DEFINE pc == IF ok THEN "go" ELSE "undo"
  <2>2. pc \in PCs /\ pc \in {"go", "undo"}
    BY DEF PCs
  <2>3. PICK x \in ObjStates : /\ x = [obj[o] EXCEPT !.pc = pc]
                               /\ obj' = [obj EXCEPT ![o] = x]
    BY <2>1, <2>2, GotoState
  <2> HIDE DEF pc
  <2>4. /\ x.pc = pc /\ x.run = obj[o].run /\ x.fin = obj[o].fin
        /\ x.st = obj[o].st /\ x.kind = obj[o].kind
    BY <2>3 DEF ObjStates
  <2>5. status' \in {"queued", status} /\ budget' \in Budgets
    BY <2>1, EditStep
  <2>6. ActorMoves(o, x)
    BY <1>3, <2>3, <2>4, <2>5
    DEF EditQueued, ActorMoves, LogStep, gateVars, Statuses
  <2>7. Has(obj[o].run, "queued") => Has(x.run, "queued")'
    BY <2>4, <2>6, QueuedLater DEF ActorMoves
  <2>8. NamedAs(o, x)
    BY <1>3, <2>2, <2>4, <2>7 DEF EditQueued, At, Named, NamedAs
  <2> QED
    BY <2>6, <2>8, ActorRange
<1>4. CASE Rollback(o)
  <2> DEFINE x == [obj[o] EXCEPT !.pc = "gone", !.ctx = TRUE]
  <2>1. /\ x \in ObjStates /\ x.pc = "gone" /\ x.run = obj[o].run
        /\ x.fin = obj[o].fin /\ x.st = obj[o].st
    BY ZenonT(60) DEF ObjStates, PCs
  <2>2. obj' = [obj EXCEPT ![o] = x]
    BY <1>4 DEF Rollback
  <2> HIDE DEF x
  <2>3. ActorMoves(o, x)
    BY <1>4, <2>1, <2>2
    DEF Rollback, ActorMoves, LogStep, gateVars, diskVars
  <2>4. NamedAs(o, x)
    BY <1>4, <2>1 DEF Rollback, At, Named, NamedAs, Objs
  <2> QED
    BY <2>1, <2>3, <2>4, ActorRange
<1>5. CASE ReadQueued(o)
  <2>0. /\ obj[o].pc = "claimed" /\ active' = active /\ active = 0
        /\ obj[o].run = 0 /\ obj[o].run \notin Runs
    BY <1>5 DEF ReadQueued, At, Named, Runs
  <2>1. active' # o
    BY <2>0 DEF Objs
  <2>2. log' = log /\ LogStep
    BY <1>5 DEF ReadQueued, diskVars, LogStep
  <2>3. ASSUME NEW x \in ObjStates, x.pc \in {"register", "synth"},
               x.run \in Runs, x.fin = obj[o].fin, x.st = obj[o].st,
               x.pc = "register" => Has(x.run, "queued"),
               obj' = [obj EXCEPT ![o] = x], nextRun' \in 1..(MaxRuns + 1)
        PROVE  RangeInv'
    <3>1. ActorMoves(o, x)
      BY <1>5, <2>0, <2>2, <2>3 DEF ReadQueued, ActorMoves, diskVars
    <3>2. x.pc = "register" => Has(x.run, "queued")'
      BY <2>2, <2>3, QueuedLater
    <3>3. NamedAs(o, x)
      BY <2>0, <2>3, <3>2 DEF NamedAs, Named
    <3> QED
      BY <2>3, <3>1, <3>3, ActorRange
  <2>4. CASE OpenQueued # {}
    <3> DEFINE r == LatestOf(OpenQueued)
               x == [obj[o] EXCEPT !.pc = "register", !.run = r,
                                   !.mode = ModeOf(r)]
    <3>1. r \in OpenQueued
      BY <2>4, LatestIn DEF OpenQueued
    <3>2. Has(r, "queued") /\ r \in Logged
      BY <3>1 DEF OpenQueued
    <3>3. r \in Runs
      BY <3>2, LogFacts, EventKinds DEF Logged
    <3>4. ModeOf(r) \in Modes
      BY <3>2, ModeOfType
    <3>5. obj' = [obj EXCEPT ![o] = x] /\ nextRun' = nextRun
      BY <1>5, <2>4 DEF ReadQueued
    <3> PICK m \in Modes : m = ModeOf(r)
      BY <3>4
    <3> HIDE DEF r
    <3>6. /\ x \in ObjStates /\ x.pc = "register" /\ x.run = r
          /\ x.fin = obj[o].fin /\ x.st = obj[o].st
      <4>1. x = [obj[o] EXCEPT !.pc = "register", !.run = r, !.mode = m]
        OBVIOUS
      <4>2. obj[o] \in ObjStates /\ "register" \in PCs /\ r \in Runs \cup {0}
        BY <2>0, <3>3 DEF PCs
      <4> QED
        BY <4>1, <4>2 DEF ObjStates
    <3> HIDE DEF x
    <3> QED
      BY <2>3, <3>2, <3>3, <3>5, <3>6
  <2>5. CASE OpenQueued = {}
    <3> DEFINE x == [obj[o] EXCEPT !.pc = "synth", !.run = nextRun]
    <3>0. /\ nextRun <= MaxRuns /\ nextRun' = nextRun + 1
          /\ obj' = [obj EXCEPT ![o] = x]
      BY <1>5, <2>5 DEF ReadQueued
    <3>1. nextRun \in Runs /\ nextRun' \in 1..(MaxRuns + 1)
      BY <3>0 DEF Runs
    <3>2. /\ x \in ObjStates /\ x.pc = "synth" /\ x.run = nextRun
          /\ x.fin = obj[o].fin /\ x.st = obj[o].st
      BY <3>1, ZenonT(60) DEF ObjStates, PCs
    <3> HIDE DEF x
    <3> QED
      BY <2>3, <3>0, <3>1, <3>2
  <2> QED
    BY <2>4, <2>5
<1>6. CASE ReadRefused(o)
  <2>1. PICK x \in ObjStates : /\ x = [obj[o] EXCEPT !.pc = "gone"]
                               /\ obj' = [obj EXCEPT ![o] = x]
    BY <1>6, GotoState DEF ReadRefused, PCs
  <2>2. /\ x.pc = "gone" /\ x.run = obj[o].run /\ x.fin = obj[o].fin
        /\ x.st = obj[o].st
    BY <2>1 DEF ObjStates
  <2>3. ActorMoves(o, x)
    BY <1>6, <2>1, <2>2
    DEF ReadRefused, ActorMoves, LogStep, gateVars, diskVars
  <2>4. NamedAs(o, x)
    BY <1>6, <2>2 DEF ReadRefused, At, Named, NamedAs
  <2> QED
    BY <2>3, <2>4, ActorRange
<1>7. CASE Synthesise(o)
  <2>1. PICK ok \in BOOLEAN :
          /\ AppendEvent(Event(obj[o].run, "queued", 0, "work"), ok)
          /\ Goto(o, IF ok THEN "register" ELSE "gone")
          /\ entry' = IF ok THEN entry ELSE 0
    BY <1>7 DEF Synthesise
  <2> DEFINE e == Event(obj[o].run, "queued", 0, "work")
             pc == IF ok THEN "register" ELSE "gone"
  <2>2. obj[o].run \in Runs
    BY <1>7 DEF Synthesise, At, Named
  <2>3. e \in Events /\ e.kind = "queued" /\ e.run = obj[o].run
    BY <2>2, EventTypes DEF Event, Modes
  <2>4. pc \in PCs /\ pc \in {"register", "gone"} /\ (pc = "register" => ok)
    BY DEF PCs
  <2>5. PICK x \in ObjStates : /\ x = [obj[o] EXCEPT !.pc = pc]
                               /\ obj' = [obj EXCEPT ![o] = x]
    BY <2>1, <2>4, GotoState
  <2> HIDE DEF e, pc
  <2>6. /\ x.pc = pc /\ x.run = obj[o].run /\ x.fin = obj[o].fin
        /\ x.st = obj[o].st
    BY <2>5 DEF ObjStates
  <2>7. LogStep /\ budget' \in Budgets /\ (ok => log' = Append(log, e))
    BY <2>1, <2>3, AppendStep DEF e
  <2>8. ok => Has(x.run, "queued")'
    BY <2>3, <2>6, <2>7, HasAppended
  <2>9. ActorMoves(o, x)
    BY <1>7, <2>1, <2>2, <2>5, <2>6, <2>7
    DEF Synthesise, ActorMoves, gateVars
  <2>10. NamedAs(o, x)
    BY <1>7, <2>2, <2>4, <2>6, <2>8 DEF Synthesise, At, Named, NamedAs
  <2> QED
    BY <2>9, <2>10, ActorRange
<1> QED
  BY <1>1, <1>2, <1>3, <1>4, <1>5, <1>6, <1>7 DEF Setup

LEMMA GoroutineRange ==
    ASSUME RangeInv, NEW o \in Objs, Goroutine(o)
    PROVE  RangeInv'
<1> USE RangeFacts
<1>names. /\ {"post", "wait", "mark", "after", "gone"} \subseteq PCs
          /\ {"success", "failed"} \subseteq Terminal
  BY DEF PCs, Terminal
\* A step that leaves files, active set and log alone.
<1>0. ASSUME NEW x \in ObjStates, obj[o].pc \notin {"unused", "claimed"},
             x.run = obj[o].run, x.pc \notin {"unused", "claimed"},
             x.fin # "free" => obj[o].run \in Runs,
             x.pc # "gone" => obj[o].pc # "gone",
             x.fin \in {"append", "read"} => x.st \in Terminal,
             x.pc = "post" /\ x.fin = "free" => x.st \in Terminal,
             x.pc \in {"label", "go", "started", "mark", "record", "wait"} =>
                 obj[o].pc \in {"label", "go", "started", "mark", "record"},
             x.pc # "register",
             obj' = [obj EXCEPT ![o] = x], active' = active,
             entry' \in {entry, 0}, LogStep, status' \in Statuses,
             budget' \in Budgets, UNCHANGED gateVars, UNCHANGED sideVars,
             proc' \in [Objs -> {"none", "alive", "dead"}]
      PROVE  RangeInv'
  <2>1. ActorMoves(o, x)
    BY <1>0 DEF ActorMoves, gateVars
  <2>2. Has(obj[o].run, "queued") => Has(x.run, "queued")'
    BY <1>0, QueuedLater
  <2>3. NamedAs(o, x)
    BY <1>0, <2>2 DEF Named, NamedAs
  <2> QED
    BY <2>1, <2>3, ActorRange
<1>1. ASSUME NEW pc \in {"close", "started", "record", "wait", "gone"},
             obj[o].pc \in {"go", "started", "mark", "record", "post", "after"},
             pc \in {"started", "record", "wait"} =>
                 obj[o].pc \in {"go", "started", "mark", "record"},
             Goto(o, pc), active' = active,
             entry' \in {entry, 0}, LogStep, status' \in Statuses,
             budget' \in Budgets, UNCHANGED gateVars, UNCHANGED sideVars,
             proc' \in [Objs -> {"none", "alive", "dead"}]
      PROVE  RangeInv'
  <2>1. PICK x \in ObjStates : /\ x = [obj[o] EXCEPT !.pc = pc]
                               /\ obj' = [obj EXCEPT ![o] = x]
    BY <1>1, GotoState DEF PCs
  <2>2. /\ x.pc = pc /\ x.run = obj[o].run /\ x.fin = obj[o].fin
        /\ x.st = obj[o].st
    BY <2>1 DEF ObjStates
  <2>3. /\ x.fin # "free" => obj[o].run \in Runs
        /\ x.fin \in {"append", "read"} => x.st \in Terminal
    BY <2>2 DEF Named
  <2> QED
    BY <1>0, <1>1, <2>1, <2>2, <2>3
<1>2. CASE GoCancelled(o)
  BY <1>1, <1>2 DEF GoCancelled, At, LogStep, diskVars
<1>3. CASE Spawn(o)
  <2>1. proc' \in [Objs -> {"none", "alive", "dead"}]
    BY <1>3 DEF Spawn
  <2> QED
    BY <1>1, <1>3, <2>1 DEF Spawn, At, LogStep, diskVars
<1>4. CASE SpawnFail(o)
  <2> DEFINE x == [obj[o] EXCEPT !.pc = "post", !.st = "failed"]
  <2>1. /\ x \in ObjStates /\ x.pc = "post" /\ x.run = obj[o].run
        /\ x.fin = obj[o].fin /\ x.st \in Terminal
    BY <1>names, ZenonT(60) DEF ObjStates
  <2>2. obj' = [obj EXCEPT ![o] = x]
    BY <1>4 DEF SpawnFail
  <2> HIDE DEF x
  <2>3. obj[o].run \in Runs /\ obj[o].pc = "go"
    BY <1>4 DEF SpawnFail, At, Named
  <2> QED
    BY <1>0, <1>4, <2>1, <2>2, <2>3 DEF SpawnFail, LogStep, diskVars
<1>5. CASE OnStarted(o)
  <2> DEFINE x == [obj[o] EXCEPT !.pid = o,
                     !.pc = IF obj[o].cancelled THEN "wait" ELSE "mark"]
  <2>1. /\ x \in ObjStates /\ x.pc \in {"wait", "mark"} /\ x.run = obj[o].run
        /\ x.fin = obj[o].fin /\ x.st = obj[o].st
    BY <1>names, ZenonT(60) DEF ObjStates
  <2>2. obj' = [obj EXCEPT ![o] = x]
    BY <1>5 DEF OnStarted
  <2> HIDE DEF x
  <2>3. obj[o].run \in Runs /\ obj[o].pc = "started"
    BY <1>5 DEF OnStarted, At, Named
  <2>4. x.fin \in {"append", "read"} => x.st \in Terminal
    BY <2>1 DEF Named
  <2> QED
    BY <1>0, <1>5, <2>1, <2>2, <2>3, <2>4 DEF OnStarted, LogStep, diskVars
<1>6. CASE EditRunning(o)
  <2>1. PICK ok \in BOOLEAN : EditStatus("running", ok)
    BY <1>6 DEF EditRunning
  <2>2. status' \in Statuses /\ budget' \in Budgets
    BY <2>1, EditStep DEF Statuses
  <2> QED
    BY <1>1, <1>6, <2>2 DEF EditRunning, At, LogStep
<1>7. CASE AppendStarted(o)
  <2>1. PICK ok \in BOOLEAN :
          AppendEvent(Event(obj[o].run, "started", o, "none"), ok)
    BY <1>7 DEF AppendStarted
  <2> DEFINE e == Event(obj[o].run, "started", o, "none")
  <2>2. obj[o].run \in Runs /\ obj[o].pc = "record" /\ Has(obj[o].run, "queued")
    BY <1>7 DEF AppendStarted, At, Named
  <2>3. e \in Events /\ e.run = obj[o].run
    BY <2>2, EventTypes DEF Event
  <2> HIDE DEF e
  <2>4. LogStep /\ budget' \in Budgets
    BY <2>1, <2>2, <2>3, AppendStep DEF e
  <2> QED
    BY <1>1, <1>7, <2>2, <2>4 DEF AppendStarted
<1>8. CASE Outcome(o)
  <2>1. PICK st \in {"success", "failed"} :
          obj' = [obj EXCEPT ![o].pc = "post", ![o].st = st]
    BY <1>8 DEF Outcome
  <2> DEFINE x == [obj[o] EXCEPT !.pc = "post", !.st = st]
  <2>2. /\ x \in ObjStates /\ x.pc = "post" /\ x.run = obj[o].run
        /\ x.fin = obj[o].fin /\ x.st \in Terminal
    BY <1>names, ZenonT(60) DEF ObjStates
  <2>3. obj' = [obj EXCEPT ![o] = x]
    BY <2>1
  <2> HIDE DEF x
  <2>4. obj[o].run \in Runs /\ obj[o].pc = "wait"
    BY <1>8 DEF Outcome, At, Named
  <2> QED
    BY <1>0, <1>8, <2>2, <2>3, <2>4 DEF Outcome, LogStep, diskVars
\* finishOnce is entered.
<1>9. ASSUME NEW s \in Terminal, obj[o].pc \in {"post", "after"},
             obj' = [obj EXCEPT ![o] = Claimed(o, s)],
             active' = active, entry' = entry, UNCHANGED diskVars,
             UNCHANGED gateVars, UNCHANGED sideVars, proc' = proc
      PROVE  RangeInv'
  <2>1. PICK x \in ObjStates : /\ x = [obj[o] EXCEPT !.fin = "append", !.st = s]
                               /\ obj' = [obj EXCEPT ![o] = x]
    BY <1>9, ClaimedState
  <2>2. x.pc = obj[o].pc /\ x.run = obj[o].run /\ x.fin = "append" /\ x.st = s
    BY <2>1 DEF ObjStates
  <2>3. obj[o].run \in Runs
    BY <1>9 DEF Named
  <2> QED
    BY <1>0, <1>9, <2>1, <2>2, <2>3, ZenonT(60) DEF LogStep, diskVars
<1>10. CASE PostRun(o)
  <2>1. CASE obj[o].cancelled \/ obj[o].fin = "done"
    BY <1>1, <1>10, <2>1 DEF PostRun, At, LogStep, diskVars
  <2>2. CASE ~(obj[o].cancelled \/ obj[o].fin = "done")
    <3>1. /\ obj[o].fin = "free" /\ obj[o].pc = "post"
          /\ obj' = [obj EXCEPT ![o] = Claimed(o, obj[o].st)]
      BY <1>10, <2>2 DEF PostRun, At
    <3>2. obj[o].st \in Terminal
      BY <3>1 DEF Named
    <3> QED
      BY <1>9, <1>10, <3>1, <3>2 DEF PostRun
  <2> QED
    BY <2>1, <2>2
<1>11. CASE CloseDone(o)
  <2> DEFINE x == [obj[o] EXCEPT !.done = TRUE,
                     !.pc = IF obj[o].kind = "queued" THEN "after" ELSE "gone"]
  <2>1. /\ x \in ObjStates /\ x.pc \in {"after", "gone"} /\ x.run = obj[o].run
        /\ x.fin = obj[o].fin /\ x.st = obj[o].st
    BY <1>names, ZenonT(60) DEF ObjStates
  <2>2. obj' = [obj EXCEPT ![o] = x]
    BY <1>11 DEF CloseDone
  <2> HIDE DEF x
  <2>3. obj[o].run \in Runs /\ obj[o].pc = "close"
    BY <1>11 DEF CloseDone, At, Named
  <2>4. x.fin \in {"append", "read"} => x.st \in Terminal
    BY <2>1 DEF Named
  <2> QED
    BY <1>0, <1>11, <2>1, <2>2, <2>3, <2>4 DEF CloseDone, LogStep, diskVars
<1>12. CASE AfterQueued(o)
  <2>0. obj[o].pc = "after"
    BY <1>12 DEF AfterQueued, At
  <2>1. CASE obj[o].cancelled /\ obj[o].fin # "done"
    BY <1>9, <1>12, <2>0, <2>1 DEF AfterQueued, Terminal
  <2>2. CASE ~(obj[o].cancelled /\ obj[o].fin # "done")
    BY <1>1, <1>12, <2>0, <2>2 DEF AfterQueued, LogStep, diskVars
  <2> QED
    BY <2>1, <2>2
<1> QED
  BY <1>2, <1>3, <1>4, <1>5, <1>6, <1>7, <1>8, <1>10, <1>11, <1>12 DEF Goroutine

\* The budget after a read that failed.
LEMMA MisreadTypes ==
    ASSUME budget \in Budgets, NEW n \in Nat
    PROVE  [budget EXCEPT !.faults = n, !.misread = TRUE] \in Budgets
BY DEF Budgets

LEMMA TerminalRange ==
    ASSUME RangeInv, NEW o \in Objs, RecordTerminal(o)
    PROVE  RangeInv'
<1> USE RangeFacts
<1>0. ASSUME NEW x \in ObjStates, obj[o].run \in Runs,
             x.pc = obj[o].pc, x.kind = obj[o].kind, x.run = obj[o].run,
             x.fin # "free", x.fin \in {"append", "read"} => x.st \in Terminal,
             obj' = [obj EXCEPT ![o] = x],
             active' \in {active, 0}, entry' \in {entry, 0}, LogStep,
             status' \in Statuses, budget' \in Budgets, UNCHANGED gateVars,
             UNCHANGED sideVars, proc' = proc
      PROVE  RangeInv'
  <2>1. ActorMoves(o, x)
    BY <1>0 DEF ActorMoves, gateVars
  <2>2. Has(obj[o].run, "queued") => Has(x.run, "queued")'
    BY <1>0, QueuedLater
  <2>3. x.pc \notin {"unused", "claimed"}
    BY <1>0 DEF Named, Runs
  <2>4. NamedAs(o, x)
    BY <1>0, <2>2, <2>3 DEF Named, NamedAs
  <2> QED
    BY <2>1, <2>4, ActorRange
<1>1. ASSUME NEW f \in {"read", "edit", "delete", "done"}, SetFin(o, f),
             obj[o].fin # "free", f = "read" => obj[o].st \in Terminal,
             active' \in {active, 0}, entry' \in {entry, 0}, LogStep,
             status' \in Statuses, budget' \in Budgets, UNCHANGED gateVars,
             UNCHANGED sideVars, proc' = proc
      PROVE  RangeInv'
  <2>1. PICK x \in ObjStates : /\ x = [obj[o] EXCEPT !.fin = f]
                               /\ obj' = [obj EXCEPT ![o] = x]
    BY <1>1, FinState
  <2>2. /\ x.pc = obj[o].pc /\ x.run = obj[o].run /\ x.fin = f
        /\ x.st = obj[o].st /\ x.kind = obj[o].kind
    BY <2>1 DEF ObjStates
  <2>3. obj[o].run \in Runs
    BY <1>1 DEF Named
  <2> QED
    BY <1>0, <1>1, <2>1, <2>2, <2>3
<1>2. CASE TerminalAppend(o)
  <2>1. PICK ok \in BOOLEAN :
          AppendEvent(Event(obj[o].run, "finished", 0, obj[o].st), ok)
    BY <1>2 DEF TerminalAppend
  <2> DEFINE e == Event(obj[o].run, "finished", 0, obj[o].st)
             f == IF obj[o].st \in {"success", "failed"} THEN "read" ELSE "edit"
  <2>2. obj[o].fin = "append" /\ obj[o].run \in Runs /\ obj[o].st \in Terminal
    BY <1>2 DEF TerminalAppend, Fin, Named
  <2>3. e \in Events /\ e.kind = "finished" /\ f \in {"read", "edit"}
    BY <2>2, EventTypes DEF Event
  <2>4. SetFin(o, f)
    BY <1>2 DEF TerminalAppend
  <2> HIDE DEF e, f
  <2>5. LogStep /\ budget' \in Budgets
    BY <2>1, <2>3, AppendStep DEF e
  <2> QED
    BY <1>1, <1>2, <2>2, <2>3, <2>4, <2>5 DEF TerminalAppend
<1>3. CASE TerminalRead(o)
  <2>1. obj[o].fin = "read" /\ obj[o].run \in Runs
    BY <1>3 DEF TerminalRead, Fin, Named
  <2>2. LogStep /\ status' \in Statuses
    BY <1>0, <1>3 DEF TerminalRead, LogStep, TypeOK
  <2>0. budget' \in Budgets
    <3>1. \/ budget' = budget
          \/ /\ budget.faults > 0
             /\ budget' = [budget EXCEPT !.faults = @ - 1, !.misread = TRUE]
      BY <1>3 DEF TerminalRead
    <3>2. budget \in Budgets
      BY DEF RangeInv, SideTypes
    <3>3. CASE /\ budget.faults > 0
               /\ budget' = [budget EXCEPT !.faults = @ - 1, !.misread = TRUE]
      <4>1. budget.faults - 1 \in Nat
        BY <3>2, <3>3 DEF Budgets
      <4>2. PICK n \in Nat : n = budget.faults - 1
        BY <4>1
      <4>3. budget' = [budget EXCEPT !.faults = n, !.misread = TRUE]
        BY <3>3, <4>2
      <4>4. [budget EXCEPT !.faults = n, !.misread = TRUE] \in Budgets
        BY <3>2, MisreadTypes
      <4> QED
        BY <4>3, <4>4, Zenon
    <3> QED
      BY <3>1, <3>2, <3>3
  <2>3. CASE SetFin(o, IF status = "needs-user" THEN "delete" ELSE "edit")
    <3> DEFINE f == IF status = "needs-user" THEN "delete" ELSE "edit"
    <3>1. f \in {"delete", "edit"} /\ SetFin(o, f)
      BY <2>3
    <3> HIDE DEF f
    <3> QED
      BY <1>1, <1>3, <2>0, <2>1, <2>2, <3>1 DEF TerminalRead
  <2>5. CASE SetFin(o, "edit")
    BY <1>1, <1>3, <2>0, <2>1, <2>2, <2>5 DEF TerminalRead
  <2>4. CASE obj' = [obj EXCEPT ![o].fin = "edit", ![o].st = "none"]
    <3> DEFINE x == [obj[o] EXCEPT !.fin = "edit", !.st = "none"]
    <3>1. /\ x \in ObjStates /\ x.pc = obj[o].pc /\ x.run = obj[o].run
          /\ x.fin = "edit" /\ x.kind = obj[o].kind
      BY ZenonT(60) DEF ObjStates
    <3>2. obj' = [obj EXCEPT ![o] = x]
      BY <2>4
    <3> HIDE DEF x
    <3> QED
      BY <1>0, <1>3, <2>0, <2>1, <2>2, <3>1, <3>2 DEF TerminalRead
  <2> QED
    BY <1>3, <2>3, <2>4, <2>5 DEF TerminalRead
<1>4. CASE TerminalEdit(o)
  <2>1. PICK ok \in BOOLEAN : EditStatus(obj[o].st, ok)
    BY <1>4 DEF TerminalEdit
  <2>2. status' \in {obj[o].st, status} /\ budget' \in Budgets
    BY <2>1, EditStep
  <2>3. status' \in Statuses
    BY <2>2 DEF Statuses, ObjStates
  <2>4. obj[o].fin = "edit" /\ LogStep
    BY <1>4 DEF TerminalEdit, Fin, LogStep
  <2> QED
    BY <1>1, <1>4, <2>2, <2>3, <2>4 DEF TerminalEdit
<1>5. CASE TerminalDelete(o)
  <2>1. obj[o].fin = "delete" /\ LogStep
    BY <1>5 DEF TerminalDelete, Fin, LogStep, diskVars
  <2> QED
    BY <1>1, <1>5, <2>1 DEF TerminalDelete, diskVars
<1> QED
  BY <1>2, <1>3, <1>4, <1>5 DEF RecordTerminal

-----------------------------------------------------------------------------
(* Steps that move the cancelling, scanning or monitoring goroutines too.  *)

\* The types of what one of the small steps may touch.
Plain ==
    /\ up' \in BOOLEAN /\ closing' \in BOOLEAN /\ status' \in Statuses
    /\ entry' \in Objs \cup {0}
    /\ proc' \in [Objs -> {"none", "alive", "dead"}]
    /\ nextRun' \in 1..(MaxRuns + 1) /\ budget' \in Budgets

\* The goroutines beside the run's own, after a step.
SideOK == /\ canc' \in [Cancellers \cup Watchers -> CancStates]
          /\ rec' \in RecStates /\ mon' \in [Runs -> MonStates]
          /\ CancOK' /\ RecOK' /\ MonOK'

LEMMA CancKept ==
    ASSUME RangeInv, canc' = canc, RunsKept
    PROVE  canc' \in [Cancellers \cup Watchers -> CancStates] /\ CancOK'
BY DEF RangeInv, SideTypes, CancOK, RunsKept

LEMMA CancMoves ==
    ASSUME RangeInv, RunsKept, NEW c \in Cancellers \cup Watchers,
           NEW x \in CancStates, canc' = [canc EXCEPT ![c] = x],
           x.pc # "idle" => x.obj \in Objs /\ obj[x.obj].run \in Runs
    PROVE  canc' \in [Cancellers \cup Watchers -> CancStates] /\ CancOK'
<1>1. canc \in [Cancellers \cup Watchers -> CancStates]
  BY DEF RangeInv, SideTypes
<1>2. /\ canc' \in [Cancellers \cup Watchers -> CancStates]
      /\ canc'[c] = x
      /\ \A d \in Cancellers \cup Watchers : d # c => canc'[d] = canc[d]
  BY <1>1
<1>3. ASSUME NEW d \in Cancellers \cup Watchers, canc'[d].pc # "idle"
      PROVE  canc'[d].obj \in Objs /\ obj'[canc'[d].obj].run \in Runs
  <2>1. canc'[d].obj \in Objs /\ obj[canc'[d].obj].run \in Runs
    BY <1>2, <1>3 DEF RangeInv, CancOK
  <2> QED
    BY <2>1 DEF RunsKept
<1> QED
  BY <1>2, <1>3 DEF CancOK

LEMMA RecMoves ==
    ASSUME RangeInv, LogStep, rec' \in RecStates,
           rec'.len = rec.len /\ rec'.rest \subseteq rec.rest,
           rec'.pc \in {"finish", "edit"} =>
             rec'.run \in Runs /\ rec'.st \in {"interrupted", "lost"}
    PROVE  RecOK'
<1>0. /\ log \in Seq(Events) /\ QueuedFirst /\ rec.len \in 0..Len(log)
      /\ rec.rest \subseteq RunsIn(rec.len)
  BY Types DEF RangeInv, RecOK
<1> PICK n \in 0..Len(log) : n = rec.len
  BY <1>0
<1>1. n \in 0..Len(log') /\ RunsIn(n)' = RunsIn(n)
  BY <1>0, LogGrows
<1> QED
  BY <1>0, <1>1 DEF RecOK, RunsIn

LEMMA RecKept ==
    ASSUME RangeInv, LogStep, rec' = rec
    PROVE  rec' \in RecStates /\ RecOK'
<1>1. /\ rec' \in RecStates /\ rec'.len = rec.len /\ rec'.rest \subseteq rec.rest
      /\ rec'.pc \in {"finish", "edit"} =>
           rec'.run \in Runs /\ rec'.st \in {"interrupted", "lost"}
  BY DEF RangeInv, SideTypes, RecOK
<1> QED
  BY <1>1, RecMoves

LEMMA RecReset ==
    ASSUME RangeInv, LogStep, rec' \in RecStates, rec'.len = 0, rec'.rest = {},
           rec'.pc \notin {"finish", "edit"}
    PROVE  RecOK'
<1>1. log \in Seq(Events) /\ QueuedFirst
  BY Types DEF RangeInv
<1>2. 0 \in 0..Len(log')
  BY <1>1, LogGrows
<1> QED
  BY <1>2 DEF RecOK

LEMMA MonKept ==
    ASSUME RangeInv, mon' = mon, RunsKept
    PROVE  mon' \in [Runs -> MonStates] /\ MonOK'
BY DEF RangeInv, SideTypes, MonOK, RunsKept

LEMMA MonMoves ==
    ASSUME RangeInv, RunsKept, NEW r \in Runs,
           NEW x \in MonStates, mon' = [mon EXCEPT ![r] = x],
           x.pc = "claim" => x.obj \in Objs /\ obj[x.obj].run \in Runs,
           x.pc \in {"release", "sync"} => x.st \in Terminal
    PROVE  mon' \in [Runs -> MonStates] /\ MonOK'
<1>1. mon \in [Runs -> MonStates]
  BY DEF RangeInv, SideTypes
<1>2. /\ mon' \in [Runs -> MonStates] /\ mon'[r] = x
      /\ \A q \in Runs : q # r => mon'[q] = mon[q]
  BY <1>1
<1>3. ASSUME NEW q \in Runs
      PROVE  /\ mon'[q].pc = "claim" => /\ mon'[q].obj \in Objs
                                        /\ obj'[mon'[q].obj].run \in Runs
             /\ mon'[q].pc \in {"release", "sync"} => mon'[q].st \in Terminal
  <2>1. /\ mon'[q].pc = "claim" => /\ mon'[q].obj \in Objs
                                   /\ obj[mon'[q].obj].run \in Runs
        /\ mon'[q].pc \in {"release", "sync"} => mon'[q].st \in Terminal
    BY <1>2 DEF RangeInv, MonOK
  <2> QED
    BY <2>1 DEF RunsKept
<1> QED
  BY <1>2, <1>3 DEF MonOK

\* One object becomes x.
LEMMA ObjRange ==
    ASSUME RangeInv, NEW o \in Objs, NEW x \in ObjStates,
           obj' = [obj EXCEPT ![o] = x], LogStep, Plain, SideOK,
           active' \in {active, o, 0}, NamedAs(o, x)
    PROVE  RangeInv'
<1>0. /\ log \in Seq(Events) /\ QueuedFirst /\ obj \in [Objs -> ObjStates]
      /\ active \in Objs \cup {0}
  BY Types DEF RangeInv
<1>1. /\ obj' \in [Objs -> ObjStates] /\ obj'[o] = x
      /\ \A q \in Objs : q # o => obj'[q] = obj[q]
  BY <1>0, ObjEdit
<1>2. /\ log' \in Seq(Events) /\ QueuedFirst'
      /\ \A r, k : Has(r, k) => Has(r, k)'
  BY <1>0, LogGrows
<1>3. TypeOK'
  BY <1>0, <1>1, <1>2, TypesNext DEF Plain
<1>4. SideTypes'
  BY DEF SideTypes, SideOK, Plain
<1>5. \A q \in Objs : q # o => (active' = q => active = q)
  BY DEF Objs
<1>6. Named(o)'
  BY <1>1 DEF Named, NamedAs, Has
<1>7. \A q \in Objs : q # o => Named(q)'
  BY <1>1, <1>2, <1>5, NamedFrame DEF RangeInv
<1> QED
  BY <1>2, <1>3, <1>4, <1>6, <1>7 DEF RangeInv, SideOK

\* The objects stay.
LEMMA RestRange ==
    ASSUME RangeInv, obj' = obj, active' = active, LogStep, Plain, SideOK
    PROVE  RangeInv'
<1>0. log \in Seq(Events) /\ QueuedFirst
  BY Types DEF RangeInv
<1>1. /\ log' \in Seq(Events) /\ QueuedFirst'
      /\ \A r, k : Has(r, k) => Has(r, k)'
  BY <1>0, LogGrows
<1>2. TypeOK'
  BY <1>1, Types, TypesNext DEF Plain, RangeInv
<1>3. SideTypes'
  BY DEF SideTypes, SideOK, Plain
<1>4. \A q \in Objs : Named(q)'
  BY <1>1, NamedFrame DEF RangeInv
<1> QED
  BY <1>1, <1>2, <1>3, <1>4 DEF RangeInv, SideOK

\* Only flags of one object change.
LEMMA FlagRange ==
    ASSUME RangeInv, NEW o \in Objs, NEW x \in ObjStates,
           obj' = [obj EXCEPT ![o] = x], obj[o].run \in Runs,
           x.pc = obj[o].pc, x.run = obj[o].run, x.kind = obj[o].kind,
           x.fin = obj[o].fin, x.st = obj[o].st,
           active' \in {active, 0}, log' = log, Plain, SideOK
    PROVE  RangeInv'
<1>1. LogStep
  BY DEF LogStep
<1>2. Has(obj[o].run, "queued") => Has(x.run, "queued")'
  BY <1>1, QueuedLater
<1>3. NamedAs(o, x)
  BY <1>2, RangeFacts DEF Named, NamedAs, Runs
<1> QED
  BY <1>1, <1>3, ObjRange

\* finishOnce of one object is entered.
LEMMA ClaimedRange ==
    ASSUME RangeInv, NEW o \in Objs, NEW s \in Terminal,
           obj' = [obj EXCEPT ![o] = Claimed(o, s)], obj[o].run \in Runs,
           active' = active, log' = log, Plain, SideOK
    PROVE  RangeInv'
<1>0. obj \in [Objs -> ObjStates] /\ Named(o)
  BY RangeFacts
<1> PICK x \in ObjStates : /\ x = [obj[o] EXCEPT !.fin = "append", !.st = s]
                           /\ x = Claimed(o, s)
  BY <1>0, ClaimedState
<1>1. /\ x.pc = obj[o].pc /\ x.run = obj[o].run /\ x.kind = obj[o].kind
      /\ x.fin = "append" /\ x.st = s
  BY <1>0 DEF ObjStates
<1>2. LogStep
  BY DEF LogStep
<1>3. Has(obj[o].run, "queued") => Has(x.run, "queued")'
  BY <1>1, <1>2, QueuedLater
<1>4. NamedAs(o, x)
  BY <1>0, <1>1, <1>3 DEF Named, NamedAs, Runs
<1> QED
  BY <1>2, <1>4, ObjRange

\* One object changes in a way that keeps its run.
LEMMA RunsKeptOne ==
    ASSUME obj \in [Objs -> ObjStates], NEW o \in Objs, NEW x \in ObjStates,
           obj' = [obj EXCEPT ![o] = x], obj[o].run \in Runs => x.run = obj[o].run
    PROVE  RunsKept
BY DEF RunsKept

LEMMA OtherRange ==
    ASSUME RangeInv, NEW o \in Objs,
           AppendSession(o) \/ ProcessExit(o) \/ NeedsUser(o)
    PROVE  RangeInv'
<1> USE RangeFacts
<1>1. CASE AppendSession(o)
  <2>1. PICK ok \in BOOLEAN :
          AppendEvent(Event(obj[o].run, "session", o, "none"), ok)
    BY <1>1 DEF AppendSession
  <2> DEFINE e == Event(obj[o].run, "session", o, "none")
  <2>2. obj[o].run \in Runs /\ Has(obj[o].run, "queued")
    BY <1>1 DEF AppendSession, At, Named
  <2>3. e \in Events /\ e.run = obj[o].run
    BY <2>2, EventTypes DEF Event
  <2> HIDE DEF e
  <2>4. LogStep /\ budget' \in Budgets
    BY <2>1, <2>2, <2>3, AppendStep DEF e
  <2>5. /\ obj' = obj /\ active' = active /\ Plain
        /\ canc' = canc /\ rec' = rec /\ mon' = mon
    BY <1>1, <2>4 DEF AppendSession, Plain, gateVars, sideVars
  <2>6. RunsKept
    BY <2>5 DEF RunsKept
  <2>7. SideOK
    BY <2>4, <2>5, <2>6, CancKept, RecKept, MonKept DEF SideOK
  <2> QED
    BY <2>4, <2>5, <2>7, RestRange
<1>2. CASE ProcessExit(o)
  <2>1. proc' \in [Objs -> {"none", "alive", "dead"}]
    BY <1>2 DEF ProcessExit
  <2> QED
    BY <1>2, <2>1, StillRange DEF ProcessExit, gateVars, diskVars
<1>3. CASE NeedsUser(o)
  <2>0. /\ status' = "needs-user" /\ budget.asks > 0
        /\ budget' = [budget EXCEPT !.asks = @ - 1]
    BY <1>3 DEF NeedsUser
  <2>1. status' \in Statuses
    BY <2>0 DEF Statuses
  <2>2. budget' \in Budgets
    BY <2>0 DEF Budgets
  <2> QED
    BY <1>3, <2>1, <2>2, StillRange DEF NeedsUser, gateVars
<1> QED
  BY <1>1, <1>2, <1>3

LEMMA HandRange ==
    ASSUME RangeInv, HandQueue \/ HandClear \/ Close
    PROVE  RangeInv'
<1>0. /\ budget \in Budgets /\ up \in BOOLEAN /\ closing \in BOOLEAN
      /\ status \in Statuses /\ entry \in Objs \cup {0}
      /\ proc \in [Objs -> {"none", "alive", "dead"}]
      /\ nextRun \in 1..(MaxRuns + 1)
  BY Types DEF RangeInv, SideTypes
<1>1. CASE HandQueue
  <2>1. status' \in Statuses /\ budget' \in Budgets
    BY <1>0, <1>1 DEF HandQueue, Statuses, Budgets
  <2> QED
    BY <1>0, <1>1, <2>1, StillRange DEF HandQueue, gateVars
<1>2. CASE HandClear
  <2>1. status' \in Statuses /\ budget' \in Budgets
    BY <1>0, <1>2 DEF HandClear, Statuses, Budgets
  <2> QED
    BY <1>0, <1>2, <2>1, StillRange DEF HandClear, gateVars
<1>3. CASE Close
  BY <1>0, <1>3, StillRange DEF Close, diskVars
<1> QED
  BY <1>1, <1>2, <1>3

LEMMA CancelRange ==
    ASSUME RangeInv, NEW c \in Cancellers \cup Watchers,
           \/ c \in Cancellers /\ CancelFind(c)
           \/ c \in Objs /\ WatcherFires(c)
           \/ CancelRun(c)
    PROVE  RangeInv'
<1> DEFINE o == canc[c].obj
<1>0. /\ canc \in [Cancellers \cup Watchers -> CancStates]
      /\ canc[c] \in CancStates /\ Objs \subseteq Nat
      /\ obj \in [Objs -> ObjStates] /\ budget \in Budgets
      /\ up \in BOOLEAN /\ closing \in BOOLEAN /\ status \in Statuses
      /\ active \in Objs \cup {0} /\ entry \in Objs \cup {0}
      /\ proc \in [Objs -> {"none", "alive", "dead"}]
      /\ nextRun \in 1..(MaxRuns + 1) /\ log \in Seq(Events)
  BY Types DEF RangeInv, SideTypes, Objs
<1>1. /\ UNCHANGED gateVars /\ UNCHANGED diskVars /\ UNCHANGED <<active, entry>>
      /\ rec' = rec /\ mon' = mon
  BY DEF CancelFind, WatcherFires, CancelRun, CancelMark, CancelTerm,
         CancelKill, CancelDone, CancelFinish
<1>2. log' = log /\ LogStep /\ active' = active
  BY <1>1 DEF diskVars, LogStep
<1>3. proc' \in [Objs -> {"none", "alive", "dead"}] => Plain
  BY <1>0, <1>1 DEF Plain, gateVars, diskVars
\* The canceller moves to y, and its object to x or nowhere.
<1>4. ASSUME NEW y \in CancStates, canc' = [canc EXCEPT ![c] = y],
             y.pc # "idle" => y.obj \in Objs /\ obj[y.obj].run \in Runs,
             obj' = obj, proc' = proc
      PROVE  RangeInv'
  <2>1. RunsKept
    BY <1>4 DEF RunsKept
  <2>2. SideOK
    BY <1>1, <1>2, <1>4, <2>1, CancMoves, RecKept, MonKept DEF SideOK
  <2> QED
    BY <1>0, <1>2, <1>3, <1>4, <2>2, RestRange
<1>5. ASSUME NEW y \in CancStates, canc' = [canc EXCEPT ![c] = y],
             canc[c].pc # "idle", y.pc # "idle" => y.obj = canc[c].obj,
             NEW x \in ObjStates, obj' = [obj EXCEPT ![o] = x],
             x.pc = obj[o].pc, x.run = obj[o].run, x.kind = obj[o].kind,
             x.fin = obj[o].fin, x.st = obj[o].st,
             proc' \in [Objs -> {"none", "alive", "dead"}]
      PROVE  RangeInv'
  <2>1. o \in Objs /\ obj[o].run \in Runs
    BY <1>5 DEF RangeInv, CancOK
  <2>2. RunsKept
    BY <1>0, <1>5, <2>1, RunsKeptOne
  <2>3. y.pc # "idle" => y.obj \in Objs /\ obj[y.obj].run \in Runs
    BY <1>5, <2>1
  <2> HIDE DEF o
  <2>4. SideOK
    BY <1>1, <1>2, <1>5, <2>2, <2>3, CancMoves, RecKept, MonKept DEF SideOK
  <2> QED
    BY <1>2, <1>3, <1>5, <2>1, <2>4, FlagRange
<1>names. NoCancel \in CancStates /\ NoCancel.pc = "idle"
  BY IdleStates DEF NoCancel
<1>6. CASE c \in Cancellers /\ CancelFind(c)
  <2> DEFINE y == [canc[c] EXCEPT !.pc = "mark", !.obj = active]
  <2>1. active \in Objs /\ obj[active].run \in Runs
    BY <1>0, <1>6 DEF CancelFind, RangeInv, Named
  <2>2. y \in CancStates /\ y.obj = active
    BY <1>0, <2>1 DEF CancStates
  <2>3. canc' = [canc EXCEPT ![c] = y] /\ obj' = obj /\ proc' = proc
    BY <1>0, <1>6 DEF CancelFind
  <2> HIDE DEF y
  <2> QED
    BY <1>4, <2>1, <2>2, <2>3
<1>7. CASE c \in Objs /\ WatcherFires(c)
  <2> DEFINE y == [canc[c] EXCEPT !.pc = "mark", !.obj = c]
  <2>1. obj[c].run \in Runs
    BY <1>7 DEF WatcherFires, RangeInv, Named
  <2>2. y \in CancStates /\ y.obj = c
    BY <1>0, <1>7 DEF CancStates
  <2>3. canc' = [canc EXCEPT ![c] = y] /\ obj' = obj /\ proc' = proc
    BY <1>0, <1>7 DEF WatcherFires
  <2> HIDE DEF y
  <2> QED
    BY <1>4, <1>7, <2>1, <2>2, <2>3
<1>own. canc[c].pc # "idle" => o \in Objs /\ obj[o].run \in Runs
                               /\ obj[o] \in ObjStates
  BY <1>0 DEF RangeInv, CancOK
<1>8. CASE CancelMark(c)
  <2>1. canc[c].pc = "mark" /\ proc' = proc
    BY <1>8 DEF CancelMark, CancAt
  <2>2. CASE canc' = [canc EXCEPT ![c] = NoCancel] /\ obj' = obj
    BY <1>4, <1>names, <2>1, <2>2
  <2>3. CASE SetCanc(c, "kill") /\ obj' = [obj EXCEPT ![o].cancelled = TRUE]
    <3> DEFINE y == [canc[c] EXCEPT !.pc = "kill"]
               x == [obj[o] EXCEPT !.cancelled = TRUE]
    <3>1. y \in CancStates /\ y.obj = canc[c].obj
      BY <1>0 DEF CancStates
    <3>2. /\ x \in ObjStates /\ x.pc = obj[o].pc /\ x.run = obj[o].run
          /\ x.kind = obj[o].kind /\ x.fin = obj[o].fin /\ x.st = obj[o].st
      BY <1>own, <2>1 DEF ObjStates
    <3>3. canc' = [canc EXCEPT ![c] = y] /\ obj' = [obj EXCEPT ![o] = x]
      BY <1>0, <1>own, <2>1, <2>3 DEF SetCanc
    <3> HIDE DEF x, y, o
    <3> QED
      BY <1>0, <1>5, <2>1, <3>1, <3>2, <3>3
  <2> QED
    BY <1>8, <2>2, <2>3 DEF CancelMark
<1>9. CASE CancelTerm(c)
  <2>1. canc[c].pc = "kill" /\ proc' = proc
    BY <1>9 DEF CancelTerm, CancAt
  <2> DEFINE y == [canc[c] EXCEPT !.pc = "grace", !.pid = obj[o].pid]
             x == [obj[o] EXCEPT !.ctx = TRUE]
  <2>2. obj[o].pid \in Objs \cup {0}
    BY <1>own, <2>1 DEF ObjStates
  <2>3. y \in CancStates /\ y.obj = canc[c].obj
    BY <1>0, <2>2 DEF CancStates
  <2>4. /\ x \in ObjStates /\ x.pc = obj[o].pc /\ x.run = obj[o].run
        /\ x.kind = obj[o].kind /\ x.fin = obj[o].fin /\ x.st = obj[o].st
    BY <1>own, <2>1 DEF ObjStates
  <2>5. canc' = [canc EXCEPT ![c] = y] /\ obj' = [obj EXCEPT ![o] = x]
    BY <1>0, <1>9, <1>own, <2>1 DEF CancelTerm
  <2> HIDE DEF x, y, o
  <2> QED
    BY <1>0, <1>5, <2>1, <2>3, <2>4, <2>5
<1>10. CASE CancelKill(c)
  <2>1. canc[c].pc = "grace" /\ proc' \in [Objs -> {"none", "alive", "dead"}]
    BY <1>0, <1>10 DEF CancelKill, CancAt
  <2> DEFINE y == [canc[c] EXCEPT !.pc = "await"]
             x == [obj[o] EXCEPT !.done = (obj[o].kind = "stub")]
  <2>3. y \in CancStates /\ y.obj = canc[c].obj
    BY <1>0 DEF CancStates
  <2>4. /\ x \in ObjStates /\ x.pc = obj[o].pc /\ x.run = obj[o].run
        /\ x.kind = obj[o].kind /\ x.fin = obj[o].fin /\ x.st = obj[o].st
    BY <1>own, <2>1 DEF ObjStates
  <2>5. canc' = [canc EXCEPT ![c] = y] /\ obj' = [obj EXCEPT ![o] = x]
    BY <1>0, <1>10, <1>own, <2>1 DEF CancelKill, SetCanc
  <2> HIDE DEF x, y, o
  <2> QED
    BY <1>0, <1>5, <2>1, <2>3, <2>4, <2>5
<1>11. CASE CancelDone(c)
  <2> DEFINE y == IF c \in Watchers THEN NoCancel
                  ELSE [canc[c] EXCEPT !.pc = "finish"]
  <2>1. [canc[c] EXCEPT !.pc = "finish"] \in CancStates
        /\ [canc[c] EXCEPT !.pc = "finish"].obj = o
    BY <1>0 DEF CancStates
  <2>2. y \in CancStates /\ (y.pc # "idle" => y.obj = o)
    BY <1>names, <2>1
  <2>3. canc' = [canc EXCEPT ![c] = y] /\ obj' = obj /\ proc' = proc
    BY <1>0, <1>11 DEF CancelDone
  <2>4. canc[c].pc # "idle"
    BY <1>11 DEF CancelDone
  <2> HIDE DEF y, o
  <2> QED
    BY <1>4, <1>own, <2>2, <2>3, <2>4
<1>12. CASE CancelFinish(c)
  <2>1. canc[c].pc = "finish" /\ proc' = proc
    BY <1>12 DEF CancelFinish, CancAt
  <2>2. CASE canc' = [canc EXCEPT ![c] = NoCancel] /\ obj' = obj
    BY <1>4, <1>names, <2>1, <2>2
  <2>3. CASE obj' = [obj EXCEPT ![o] = Claimed(o, "cancelled")] /\ canc' = canc
    <3>1. o \in Objs /\ obj[o].run \in Runs
      BY <1>own, <2>1
    <3> PICK q \in Objs : q = o
      BY <3>1
    <3> HIDE DEF o
    <3>2. obj' = [obj EXCEPT ![q] = Claimed(q, "cancelled")]
      BY <2>3
    <3>3. PICK x \in ObjStates :
            /\ x = [obj[q] EXCEPT !.fin = "append", !.st = "cancelled"]
            /\ x = Claimed(q, "cancelled")
      BY <1>0, ClaimedState DEF Terminal
    <3>4. obj' = [obj EXCEPT ![q] = x] /\ x.run = obj[q].run
      BY <1>0, <3>2, <3>3 DEF ObjStates
    <3>5. RunsKept
      BY <1>0, <3>4, RunsKeptOne
    <3>6. SideOK
      BY <1>1, <1>2, <2>3, <3>5, CancKept, RecKept, MonKept DEF SideOK
    <3>7. "cancelled" \in Terminal
      BY DEF Terminal
    <3> QED
      BY <1>0, <1>2, <1>3, <2>1, <3>1, <3>2, <3>6, <3>7, ClaimedRange
  <2> QED
    BY <1>12, <2>2, <2>3 DEF CancelFinish
<1> QED
  BY <1>6, <1>7, <1>8, <1>9, <1>10, <1>11, <1>12 DEF CancelRun

-----------------------------------------------------------------------------
(* Ranges: the recovery.                                                   *)

\* What recoverOne reads of a run of the view is in range.
LEMMA ScanFacts ==
    ASSUME RangeInv, rec.rest # {}
    PROVE  /\ Current \in rec.rest /\ Current \in Runs
           /\ OldFinish \in Terminal \cup {"none"}
           /\ OldPid # 0 => OldPid \in Objs /\ Has(Current, "queued")
           /\ Passed \in RecStates /\ Passed.len = rec.len
           /\ Passed.rest \subseteq rec.rest /\ Passed.pc = rec.pc
<1>0. /\ log \in Seq(Events) /\ rec.len \in 0..Len(log)
      /\ rec.rest \subseteq RunsIn(rec.len) /\ rec \in RecStates
      /\ QueuedFirst
  BY Types DEF RangeInv, RecOK, SideTypes
<1>1. rec.rest \subseteq Logged
  BY <1>0, LogFacts DEF RunsIn, Logged
<1>2. Current \in rec.rest
  BY <1>0, <1>1, EarliestIn DEF Current
<1>3. Current \in Runs
  BY <1>0, <1>2 DEF RecStates
<1>4. OldFinish \in Terminal \cup {"none"}
  BY <1>0, FinishType DEF OldFinish
<1>5. ASSUME OldPid # 0
      PROVE  OldPid \in Objs /\ Has(Current, "queued")
  <2>1. /\ OldPid \in Objs
        /\ \E i \in DOMAIN log : /\ log[i].run = Current
                                 /\ log[i].kind \in {"started", "session"}
    BY <1>0, <1>5, PidType DEF OldPid
  <2> QED
    BY <1>0, <2>1 DEF QueuedFirst
<1>6. /\ Passed \in RecStates /\ Passed.len = rec.len
      /\ Passed.rest \subseteq rec.rest /\ Passed.pc = rec.pc
  BY <1>0 DEF Passed, RecStates
<1> QED
  BY <1>2, <1>3, <1>4, <1>5, <1>6

LEMMA RecoverRange ==
    ASSUME RangeInv, Recover \/ ScanBegin(TRUE)
    PROVE  RangeInv'
<1>0. /\ rec \in RecStates /\ budget \in Budgets
      /\ mon \in [Runs -> MonStates]
      /\ up \in BOOLEAN /\ closing \in BOOLEAN /\ status \in Statuses
      /\ entry \in Objs \cup {0} /\ active \in Objs \cup {0}
      /\ proc \in [Objs -> {"none", "alive", "dead"}]
      /\ nextRun \in 1..(MaxRuns + 1) /\ log \in Seq(Events)
      /\ obj \in [Objs -> ObjStates] /\ MaxRuns \in Nat
      /\ SideTypes /\ Terminal \subseteq Statuses
  BY Types, AgentRunAssumption DEF RangeInv, SideTypes, Statuses
<1>scan. NoScan \in RecStates /\ NoScan.len = 0 /\ NoScan.rest = {}
         /\ NoScan.pc = "idle"
  BY IdleStates DEF NoScan
<1>1. ASSUME obj' = obj, active' = active, LogStep, Plain, canc' = canc,
             mon' = mon, rec' \in RecStates, RecOK'
      PROVE  RangeInv'
  <2>1. RunsKept
    BY <1>1 DEF RunsKept
  <2>2. SideOK
    BY <1>1, <2>1, CancKept, MonKept DEF SideOK
  <2> QED
    BY <1>1, <2>2, RestRange
<1>2. ASSUME UNCHANGED diskVars, UNCHANGED <<up, closing, entry, proc>>,
             nextRun' \in 1..(MaxRuns + 1)
      PROVE  Plain /\ LogStep
  BY <1>0, <1>2 DEF Plain, LogStep, diskVars
<1>3. ASSUME NEW s \in Statuses, NEW ok \in BOOLEAN, EditStatus(s, ok),
             UNCHANGED <<gateVars, log, entry, proc>>
      PROVE  Plain /\ LogStep
  <2>1. status' \in Statuses /\ budget' \in Budgets
    BY <1>0, <1>3, EditStep
  <2> QED
    BY <1>0, <1>3, <2>1 DEF Plain, LogStep, gateVars
<1>4. CASE ScanBegin(TRUE)
  <2>1. /\ rec' \in RecStates /\ rec'.len = 0 /\ rec'.rest = {}
        /\ rec'.pc = "read"
    BY <1>4 DEF ScanBegin, NoScan, RecStates
  <2>2. budget' = [budget EXCEPT !.ticks = @ - 1] /\ budget.ticks > 0
    BY <1>4 DEF ScanBegin
  <2>3. budget' \in Budgets
    BY <1>0, <2>2, SMTT(30) DEF Budgets
  <2>4. Plain /\ LogStep
    BY <1>0, <1>4, <2>3 DEF ScanBegin, Plain, LogStep, gateVars
  <2>5. RecOK'
    BY <2>1, <2>4, RecReset
  <2> QED
    BY <1>1, <1>4, <2>1, <2>4, <2>5 DEF ScanBegin
<1>5. CASE StartupScan
  <2>1. rec' = [NoScan EXCEPT !.pc = "read"] \/ rec' = NoScan
    BY <1>5 DEF StartupScan
  <2>2. /\ rec' \in RecStates /\ rec'.len = 0 /\ rec'.rest = {}
        /\ rec'.pc \in {"read", "idle"}
    BY <1>scan, <2>1 DEF NoScan, RecStates
  <2>3. Plain /\ LogStep
    BY <1>0, <1>2, <1>5 DEF StartupScan, gateVars
  <2>4. RecOK'
    BY <2>2, <2>3, RecReset
  <2> QED
    BY <1>1, <1>5, <2>2, <2>3, <2>4 DEF StartupScan
<1>6. CASE ScanRead
  <2>0. UNCHANGED <<up, closing, diskVars, active, entry, obj, proc, canc, mon>>
    BY <1>6 DEF ScanRead
  <2>1. CASE log # <<>>
    <3>1. /\ rec' = [rec EXCEPT !.pc = "next", !.len = Len(log), !.rest = Logged]
          /\ nextRun' = nextRun /\ log' = log
      BY <1>6, <2>1 DEF ScanRead, diskVars
    <3>2. Len(log) \in Nat /\ DOMAIN log = 1..Len(log) /\ Logged \subseteq Runs
      BY <1>0, LogFacts, EventKinds DEF Logged
    <3>3. /\ rec' \in RecStates /\ rec'.len = Len(log) /\ rec'.rest = Logged
          /\ rec'.pc = "next"
      BY <1>0, <3>1, <3>2 DEF RecStates
    <3>4. RecOK'
      BY <3>1, <3>2, <3>3 DEF RecOK, RunsIn, Logged
    <3>5. Plain /\ LogStep
      BY <1>0, <1>2, <2>0, <3>1
    <3> QED
      BY <1>1, <2>0, <3>3, <3>4, <3>5
  <2>2. CASE log = <<>> /\ rec' = NoScan /\ nextRun' = nextRun
    <3>1. Plain /\ LogStep
      BY <1>0, <1>2, <2>0, <2>2
    <3>2. RecOK' /\ rec' \in RecStates
      BY <1>scan, <2>2, <3>1, RecReset
    <3> QED
      BY <1>1, <2>0, <3>1, <3>2
  <2>3. CASE /\ log = <<>> /\ nextRun <= MaxRuns
             /\ rec' = [rec EXCEPT !.pc = "finish", !.run = nextRun, !.st = "lost"]
             /\ nextRun' = nextRun + 1
    <3>1. nextRun \in Runs /\ nextRun' \in 1..(MaxRuns + 1)
      BY <1>0, <2>3 DEF Runs
    <3>2. /\ rec' \in RecStates /\ rec'.len = rec.len /\ rec'.rest = rec.rest
          /\ rec'.run \in Runs /\ rec'.st = "lost"
      BY <1>0, <2>3, <3>1 DEF RecStates, Terminal
    <3>3. Plain /\ LogStep
      BY <1>2, <2>0, <3>1
    <3>4. RecOK'
      BY <3>2, <3>3, RecMoves
    <3> QED
      BY <1>1, <2>0, <3>2, <3>3, <3>4
  <2> QED
    BY <1>6, <2>1, <2>2, <2>3 DEF ScanRead
\* A run is passed over.
<1>7. ASSUME rec.rest # {}, rec.pc = "next", rec' = Passed, LogStep
      PROVE  rec' \in RecStates /\ RecOK'
  BY <1>7, ScanFacts, RecMoves
<1>8. CASE ScanSkip
  <2>1. Plain /\ LogStep /\ rec.rest # {} /\ rec.pc = "next"
    BY <1>0, <1>2, <1>8 DEF ScanSkip, ScanNext, RecAt, gateVars
  <2> QED
    BY <1>1, <1>7, <1>8, <2>1 DEF ScanSkip
<1>9. CASE ScanSync
  <2>0. rec.rest # {} /\ rec.pc = "next" /\ OldFinish # "none"
    BY <1>9 DEF ScanSync, ScanNext, RecAt
  <2>1. PICK ok \in BOOLEAN : EditStatus(OldFinish, ok)
    BY <1>9 DEF ScanSync
  <2>2. OldFinish \in Statuses
    BY <1>0, <2>0, ScanFacts
  <2>3. Plain /\ LogStep
    BY <1>3, <1>9, <2>1, <2>2 DEF ScanSync
  <2> QED
    BY <1>1, <1>7, <1>9, <2>0, <2>3 DEF ScanSync
<1>10. CASE ScanAdopt
  <2>0. /\ rec.rest # {} /\ rec.pc = "next" /\ rec' = Passed /\ OldPid # 0
        /\ UNCHANGED <<gateVars, diskVars, entry, proc, canc>>
    BY <1>10 DEF ScanAdopt, ScanNext, RecAt, Alive
  <2>1. Plain /\ LogStep
    BY <1>0, <1>2, <2>0 DEF gateVars
  <2>2. rec' \in RecStates /\ RecOK'
    BY <1>7, <2>0, <2>1
  <2>3. /\ Current \in Runs /\ OldPid \in Objs /\ Has(Current, "queued")
        /\ ModeOf(Current) \in Modes
    BY <1>0, <2>0, ScanFacts, ModeOfType
  <2> PICK r \in Runs, p \in Objs, m \in Modes :
             r = Current /\ p = OldPid /\ m = ModeOf(Current)
    BY <2>3
  <2> DEFINE y == IF mon[r].pc = "off"
                  THEN [NoMon EXCEPT !.pc = "poll", !.pid = p] ELSE mon[r]
  <2>4. mon' = [mon EXCEPT ![r] = y]
    BY <1>0, <1>10 DEF ScanAdopt
  <2>5. /\ y \in MonStates
        /\ y.pc = "claim" => y.obj \in Objs /\ obj[y.obj].run \in Runs
        /\ y.pc \in {"release", "sync"} => y.st \in Terminal
    <3>1. CASE mon[r].pc = "off"
      BY <3>1 DEF NoMon, MonStates
    <3>2. CASE mon[r].pc # "off"
      BY <1>0, <3>2 DEF RangeInv, MonOK
    <3> QED
      BY <3>1, <3>2
  <2> HIDE DEF y
  <2>6. CASE active = 0
    <3>1. PICK o \in Objs :
            /\ Fresh(o) /\ active' = o
            /\ obj' = [obj EXCEPT ![o] =
                         [Unused EXCEPT !.pc = "stub", !.kind = "stub",
                                        !.run = r, !.pid = p, !.mode = m]]
      BY <1>10, <2>6 DEF ScanAdopt
    <3> DEFINE x == [Unused EXCEPT !.pc = "stub", !.kind = "stub",
                                   !.run = r, !.pid = p, !.mode = m]
    <3>2. /\ x \in ObjStates /\ x.pc = "stub" /\ x.run = r /\ x.fin = "free"
          /\ x.kind = "stub"
      BY DEF Unused, ObjStates, PCs, Terminal
    <3>3. obj' = [obj EXCEPT ![o] = x]
      BY <3>1
    <3> HIDE DEF x
    <3>4. obj[o].run = 0 /\ obj[o].run \notin Runs
      BY <3>1 DEF Fresh, RangeInv, Named, Runs
    <3>5. RunsKept
      BY <1>0, <3>2, <3>3, <3>4, RunsKeptOne
    <3>6. SideOK
      BY <2>0, <2>2, <2>4, <2>5, <3>5, CancKept, MonMoves DEF SideOK
    <3>7. NamedAs(o, x)
      BY <3>2 DEF NamedAs
    <3> QED
      BY <2>1, <3>1, <3>2, <3>3, <3>6, <3>7, ObjRange
  <2>7. CASE active # 0
    <3>1. active' = active /\ obj' = obj
      BY <1>10, <2>7 DEF ScanAdopt
    <3>2. RunsKept
      BY <3>1 DEF RunsKept
    <3>3. SideOK
      BY <2>0, <2>2, <2>4, <2>5, <3>2, CancKept, MonMoves DEF SideOK
    <3> QED
      BY <2>1, <3>1, <3>3, RestRange
  <2> QED
    BY <2>6, <2>7
<1>11. CASE ScanStale
  <2>0. /\ rec.rest # {}
        /\ rec' = [rec EXCEPT !.pc = "finish", !.run = Current,
                              !.st = Verdict(Current)]
    BY <1>11 DEF ScanStale, ScanNext
  <2>1. Verdict(Current) \in {"interrupted", "lost"} /\ Current \in Runs
    BY <2>0, ScanFacts DEF Verdict
  <2>2. /\ rec' \in RecStates /\ rec'.len = rec.len /\ rec'.rest = rec.rest
        /\ rec'.run \in Runs /\ rec'.st \in {"interrupted", "lost"}
    BY <1>0, <2>0, <2>1 DEF RecStates, Terminal
  <2>3. Plain /\ LogStep
    BY <1>0, <1>2, <1>11 DEF ScanStale, gateVars
  <2>4. RecOK'
    BY <2>2, <2>3, RecMoves
  <2> QED
    BY <1>1, <1>11, <2>2, <2>3, <2>4 DEF ScanStale
<1>12. CASE ScanFinish
  <2>1. PICK ok \in BOOLEAN :
          /\ AppendEvent(Event(rec.run, "finished", 0, rec.st), ok)
          /\ rec' = IF ~ok THEN NoScan
                    ELSE IF rec.rest = {} \/ IsLatest
                    THEN [rec EXCEPT !.pc = "edit"]
                    ELSE [Passed EXCEPT !.pc = "next"]
    BY <1>12 DEF ScanFinish
  <2> DEFINE e == Event(rec.run, "finished", 0, rec.st)
  <2>2. rec.run \in Runs /\ rec.st \in {"interrupted", "lost"}
    BY <1>12 DEF ScanFinish, RecAt, RangeInv, RecOK
  <2>3. e \in Events /\ e.kind = "finished"
    BY <2>2, EventTypes DEF Event, Terminal
  <2> HIDE DEF e
  <2>4. LogStep /\ budget' \in Budgets
    BY <1>0, <2>1, <2>3, AppendStep DEF e
  <2>5. Plain
    BY <1>0, <1>12, <2>4 DEF ScanFinish, Plain, gateVars
  <2>6. rec' \in RecStates /\ RecOK'
    <3>1. CASE rec' = NoScan
      BY <1>scan, <2>4, <3>1, RecReset
    <3>2. CASE rec' = [rec EXCEPT !.pc = "edit"]
      <4>1. /\ rec' \in RecStates /\ rec'.len = rec.len /\ rec'.rest = rec.rest
            /\ rec'.run = rec.run /\ rec'.st = rec.st
        BY <1>0, <3>2 DEF RecStates
      <4> QED
        BY <2>2, <2>4, <4>1, RecMoves
    <3>3. CASE rec.rest # {} /\ rec' = [Passed EXCEPT !.pc = "next"]
      <4>1. /\ Passed \in RecStates /\ Passed.len = rec.len
            /\ Passed.rest \subseteq rec.rest
        BY <3>3, ScanFacts
      <4>2. /\ rec' \in RecStates /\ rec'.len = rec.len
            /\ rec'.rest \subseteq rec.rest /\ rec'.pc = "next"
        BY <3>3, <4>1 DEF RecStates
      <4> QED
        BY <2>4, <4>2, RecMoves
    <3> QED
      BY <2>1, <3>1, <3>2, <3>3
  <2> QED
    BY <1>1, <1>12, <2>4, <2>5, <2>6 DEF ScanFinish
<1>13. CASE ScanEdit
  <2>1. PICK ok \in BOOLEAN : EditStatus(rec.st, ok)
    BY <1>13 DEF ScanEdit
  <2>2. rec.st \in Statuses
    BY <1>13 DEF ScanEdit, RecAt, RangeInv, RecOK, Statuses, Terminal
  <2>3. Plain /\ LogStep
    BY <1>3, <1>13, <2>1, <2>2 DEF ScanEdit
  <2>4. rec' \in RecStates /\ RecOK'
    BY <1>13, <1>scan, <2>3, RecReset DEF ScanEdit
  <2> QED
    BY <1>1, <1>13, <2>3, <2>4 DEF ScanEdit
<1>14. CASE ScanEnd
  <2>1. Plain /\ LogStep
    BY <1>0, <1>2, <1>14 DEF ScanEnd, gateVars
  <2>2. rec' \in RecStates /\ RecOK'
    BY <1>14, <1>scan, <2>1, RecReset DEF ScanEnd
  <2> QED
    BY <1>1, <1>14, <2>1, <2>2 DEF ScanEnd
<1> QED
  BY <1>4, <1>5, <1>6, <1>8, <1>9, <1>10, <1>11, <1>12, <1>13, <1>14 DEF Recover

-----------------------------------------------------------------------------
(* Ranges: the monitors, and the GUI as a whole.                           *)

LEMMA MonitorRange ==
    ASSUME RangeInv, NEW r \in Runs, Monitor(r)
    PROVE  RangeInv'
<1>0. /\ budget \in Budgets /\ mon \in [Runs -> MonStates]
      /\ mon[r] \in MonStates
      /\ up \in BOOLEAN /\ closing \in BOOLEAN /\ status \in Statuses
      /\ entry \in Objs \cup {0} /\ active \in Objs \cup {0}
      /\ proc \in [Objs -> {"none", "alive", "dead"}]
      /\ nextRun \in 1..(MaxRuns + 1) /\ log \in Seq(Events)
      /\ obj \in [Objs -> ObjStates] /\ SideTypes
      /\ Terminal \subseteq Statuses /\ "lost" \in Terminal
  BY Types DEF RangeInv, SideTypes, Statuses, Terminal
<1>1. UNCHANGED gateVars /\ entry' = entry /\ proc' = proc
      /\ canc' = canc /\ rec' = rec
  BY DEF Monitor, MonPoll, MonRelease, MonSync, MonExit, MonClaim, MonLose
<1>2. status' \in Statuses /\ budget' \in Budgets => Plain
  BY <1>0, <1>1 DEF Plain, gateVars
<1>3. ASSUME UNCHANGED diskVars
      PROVE  Plain /\ LogStep /\ log' = log
  BY <1>0, <1>2, <1>3 DEF diskVars, LogStep
\* Only the monitor and the disk move.
<1>4. ASSUME NEW x \in MonStates, mon' = [mon EXCEPT ![r] = x],
             x.pc = "claim" => x.obj \in Objs /\ obj[x.obj].run \in Runs,
             x.pc \in {"release", "sync"} => x.st \in Terminal,
             obj' = obj, active' = active, Plain, LogStep
      PROVE  RangeInv'
  <2>1. RunsKept
    BY <1>4 DEF RunsKept
  <2>2. SideOK
    BY <1>1, <1>4, <2>1, CancKept, RecKept, MonMoves DEF SideOK
  <2> QED
    BY <1>4, <2>2, RestRange
\* The monitor and an object move.
<1>5. ASSUME NEW x \in MonStates, mon' = [mon EXCEPT ![r] = x],
             x.pc = "claim" => x.obj \in Objs /\ obj[x.obj].run \in Runs,
             x.pc \in {"release", "sync"} => x.st \in Terminal,
             LogStep, RunsKept
      PROVE  SideOK
  BY <1>1, <1>5, CancKept, RecKept, MonMoves DEF SideOK
\* The pc of the monitor.
<1>6. ASSUME NEW pc \in {"off", "exit", "sync", "lose", "poll"}
      PROVE  \E x \in MonStates : /\ x = [mon[r] EXCEPT !.pc = pc]
                                  /\ x.pc = pc /\ x.st = mon[r].st
                                  /\ x.obj = mon[r].obj
                                  /\ SetMon(r, pc) => mon' = [mon EXCEPT ![r] = x]
  <2> DEFINE x == [mon[r] EXCEPT !.pc = pc]
  <2>1. x \in MonStates /\ x.pc = pc /\ x.st = mon[r].st /\ x.obj = mon[r].obj
    BY <1>0 DEF MonStates
  <2>2. SetMon(r, pc) => mon' = [mon EXCEPT ![r] = x]
    BY <1>0 DEF SetMon
  <2> QED
    BY <2>1, <2>2
\* Done of the active object is closed.
<1>7. ASSUME active # 0
      PROVE  \E x \in ObjStates :
               /\ x = [obj[active] EXCEPT !.done = TRUE]
               /\ x.pc = obj[active].pc /\ x.run = obj[active].run
               /\ x.kind = obj[active].kind /\ x.fin = obj[active].fin
               /\ x.st = obj[active].st
               /\ active \in Objs /\ obj[active].run \in Runs
               /\ [obj EXCEPT ![active].done = TRUE] = [obj EXCEPT ![active] = x]
  <2> DEFINE x == [obj[active] EXCEPT !.done = TRUE]
  <2>1. active \in Objs /\ obj[active] \in ObjStates /\ obj[active].run \in Runs
    BY <1>0, <1>7 DEF RangeInv, Named
  <2>2. /\ x \in ObjStates /\ x.pc = obj[active].pc
        /\ x.run = obj[active].run /\ x.kind = obj[active].kind
        /\ x.fin = obj[active].fin /\ x.st = obj[active].st
    BY <2>1 DEF ObjStates
  <2>3. [obj EXCEPT ![active].done = TRUE] = [obj EXCEPT ![active] = x]
    BY <1>0, <2>1
  <2> QED
    BY <2>1, <2>2, <2>3
<1>8. CASE MonPoll(r)
  <2> DEFINE st == FinishIn(Len(log), r)
  <2>0. Plain /\ LogStep /\ obj' = obj /\ active' = active
    BY <1>3, <1>8 DEF MonPoll
  <2>1. CASE SetMon(r, "off") \/ SetMon(r, "exit")
    <3>1. PICK pc \in {"off", "exit"} : SetMon(r, pc)
      BY <2>1
    <3> QED
      BY <1>4, <1>6, <2>0, <3>1
  <2>2. CASE st # "none" /\ mon' = [mon EXCEPT ![r].pc = "release", ![r].st = st]
    <3>1. Len(log) \in 0..Len(log)
      BY <1>0, LogFacts
    <3>2. st \in Terminal
      BY <1>0, <2>2, <3>1, FinishType
    <3> HIDE DEF st
    <3> DEFINE x == [mon[r] EXCEPT !.pc = "release", !.st = st]
    <3>3. x \in MonStates /\ x.pc = "release" /\ x.st = st
      BY <1>0, <3>2 DEF MonStates
    <3>4. mon' = [mon EXCEPT ![r] = x]
      BY <1>0, <2>2
    <3> HIDE DEF x
    <3> QED
      BY <1>4, <2>0, <3>2, <3>3, <3>4
  <2> QED
    BY <1>8, <2>1, <2>2 DEF MonPoll
<1>9. CASE MonRelease(r)
  <2>0. /\ mon[r].pc = "release" /\ mon[r].st \in Terminal
        /\ Plain /\ LogStep /\ log' = log /\ SetMon(r, "sync")
    BY <1>3, <1>9 DEF MonRelease, MonAt, RangeInv, MonOK
  <2>1. PICK y \in MonStates : /\ y.pc = "sync" /\ y.st = mon[r].st
                               /\ mon' = [mon EXCEPT ![r] = y]
    BY <1>6, <2>0
  <2>2. CASE Tracked(r)
    <3>1. active # 0
      BY <2>2 DEF Tracked
    <3> PICK o \in Objs : o = active
      BY <1>7, <3>1
    <3>2. PICK x \in ObjStates :
            /\ obj' = [obj EXCEPT ![o] = x] /\ x.pc = obj[o].pc
            /\ x.run = obj[o].run /\ x.kind = obj[o].kind
            /\ x.fin = obj[o].fin /\ x.st = obj[o].st /\ obj[o].run \in Runs
      BY <1>7, <1>9, <2>2, <3>1 DEF MonRelease
    <3>3. RunsKept
      BY <1>0, <3>2, RunsKeptOne
    <3>4. SideOK
      BY <1>5, <2>0, <2>1, <3>3
    <3>5. active' = 0
      BY <1>9, <2>2 DEF MonRelease
    <3> QED
      BY <2>0, <3>2, <3>4, <3>5, FlagRange
  <2>3. CASE ~Tracked(r)
    BY <1>4, <1>9, <2>0, <2>1, <2>3 DEF MonRelease
  <2> QED
    BY <2>2, <2>3
<1>10. CASE MonSync(r)
  <2>1. PICK ok \in BOOLEAN : /\ EditStatus(mon[r].st, ok)
                              /\ SetMon(r, IF ok THEN "off" ELSE "poll")
    BY <1>10 DEF MonSync
  <2>2. mon[r].st \in Terminal
    BY <1>10 DEF MonSync, MonAt, RangeInv, MonOK
  <2>3. status' \in Statuses /\ budget' \in Budgets
    BY <1>0, <2>1, <2>2, EditStep
  <2>4. Plain /\ LogStep /\ obj' = obj /\ active' = active
    BY <1>2, <1>10, <2>3 DEF MonSync, LogStep
  <2> PICK pc \in {"off", "poll"} : SetMon(r, pc)
    BY <2>1
  <2> QED
    BY <1>4, <1>6, <2>4
<1>11. CASE MonExit(r)
  <2>0. Plain /\ LogStep /\ log' = log /\ active' = active
    BY <1>3, <1>11 DEF MonExit
  <2>1. CASE ~Tracked(r)
    <3>1. SetMon(r, "lose") /\ obj' = obj
      BY <1>11, <2>1 DEF MonExit
    <3> QED
      BY <1>4, <1>6, <2>0, <3>1
  <2>2. CASE Tracked(r)
    <3>0. active # 0
      BY <2>2 DEF Tracked
    <3> PICK o \in Objs : o = active
      BY <1>7, <3>0
    <3>1. PICK x \in ObjStates :
            /\ obj' = [obj EXCEPT ![o] = x] /\ x.pc = obj[o].pc
            /\ x.run = obj[o].run /\ x.kind = obj[o].kind
            /\ x.fin = obj[o].fin /\ x.st = obj[o].st /\ obj[o].run \in Runs
      BY <1>7, <1>11, <2>2, <3>0 DEF MonExit
    <3> DEFINE pc == IF obj[o].cancelled THEN "off" ELSE "claim"
               y == [mon[r] EXCEPT !.pc = pc, !.obj = o]
    <3>2. mon' = [mon EXCEPT ![r] = y]
      BY <1>0, <1>11, <2>2 DEF MonExit
    <3>3. pc \in {"off", "claim"}
      OBVIOUS
    <3> HIDE DEF pc
    <3>4. y \in MonStates /\ y.pc \in {"off", "claim"} /\ y.obj = o
      BY <1>0, <3>3 DEF MonStates
    <3> HIDE DEF y
    <3>5. RunsKept
      BY <1>0, <3>1, RunsKeptOne
    <3>6. SideOK
      BY <1>5, <2>0, <3>1, <3>2, <3>4, <3>5
    <3> QED
      BY <2>0, <3>1, <3>6, FlagRange
  <2> QED
    BY <2>1, <2>2
<1>12. CASE MonClaim(r)
  <2> DEFINE o == mon[r].obj
  <2>0. /\ Plain /\ LogStep /\ log' = log /\ active' = active
        /\ SetMon(r, "off") /\ o \in Objs /\ obj[o].run \in Runs
    BY <1>3, <1>12 DEF MonClaim, MonAt, RangeInv, MonOK
  <2>1. PICK y \in MonStates : /\ y.pc = "off"
                               /\ mon' = [mon EXCEPT ![r] = y]
    BY <1>6, <2>0
  <2>2. CASE obj' = obj
    BY <1>4, <2>0, <2>1, <2>2
  <2>3. CASE obj' = [obj EXCEPT ![o] = Claimed(o, "lost")]
    <3> PICK q \in Objs : q = o
      BY <2>0
    <3> HIDE DEF o
    <3>1. obj' = [obj EXCEPT ![q] = Claimed(q, "lost")]
      BY <2>3
    <3>2. PICK x \in ObjStates :
            /\ x = [obj[q] EXCEPT !.fin = "append", !.st = "lost"]
            /\ x = Claimed(q, "lost")
      BY <1>0, ClaimedState
    <3>3. obj' = [obj EXCEPT ![q] = x] /\ x.run = obj[q].run
      BY <1>0, <3>1, <3>2 DEF ObjStates
    <3>4. RunsKept
      BY <1>0, <3>3, RunsKeptOne
    <3>5. SideOK
      BY <1>5, <2>0, <2>1, <3>4
    <3> QED
      BY <1>0, <2>0, <3>1, <3>5, ClaimedRange
  <2> QED
    BY <1>12, <2>2, <2>3 DEF MonClaim
<1>13. CASE MonLose(r)
  <2>1. PICK ok \in BOOLEAN :
          /\ AppendEvent(Event(r, "finished", 0, "lost"), ok)
          /\ mon' = [mon EXCEPT ![r].pc = IF ok THEN "sync" ELSE "poll",
                                ![r].st = "lost"]
    BY <1>13 DEF MonLose
  <2> DEFINE e == Event(r, "finished", 0, "lost")
             pc == IF ok THEN "sync" ELSE "poll"
             x == [mon[r] EXCEPT !.pc = pc, !.st = "lost"]
  <2>2. e \in Events /\ e.kind = "finished" /\ pc \in {"sync", "poll"}
    BY <1>0, EventTypes DEF Event
  <2>3. mon' = [mon EXCEPT ![r] = x]
    BY <1>0, <2>1
  <2> HIDE DEF e, pc
  <2>4. LogStep /\ budget' \in Budgets
    BY <1>0, <2>1, <2>2, AppendStep DEF e
  <2>5. x \in MonStates /\ x.pc \in {"sync", "poll"} /\ x.st \in Terminal
    BY <1>0, <2>2 DEF MonStates
  <2>6. Plain /\ obj' = obj /\ active' = active
    BY <1>0, <1>2, <1>13, <2>4 DEF MonLose
  <2> HIDE DEF x
  <2> QED
    BY <1>4, <2>3, <2>4, <2>5, <2>6
<1> QED
  BY <1>8, <1>9, <1>10, <1>11, <1>12, <1>13 DEF Monitor

LEMMA CrashRange ==
    ASSUME RangeInv, Crash
    PROVE  RangeInv'
<1>0. /\ budget \in Budgets /\ obj \in [Objs -> ObjStates]
      /\ log \in Seq(Events) /\ SideTypes /\ QueuedFirst
  BY Types DEF RangeInv, SideTypes
<1> DEFINE Lost == [Unused EXCEPT !.pc = "gone"]
<1>1. Lost \in ObjStates /\ Lost.pc = "gone" /\ Lost.fin = "free"
  BY DEF Unused, ObjStates, PCs, Modes, Terminal
<1>2. obj' = [o \in Objs |-> IF obj[o].pc = "unused" THEN obj[o] ELSE Lost]
  BY DEF Crash
<1> HIDE DEF Lost
<1>3. obj' \in [Objs -> ObjStates]
  BY <1>0, <1>1, <1>2
<1>4. log' = log /\ LogStep /\ status' = status /\ proc' = proc
      /\ active' = 0 /\ entry' = 0 /\ up' = FALSE /\ closing' = closing
      /\ nextRun' = nextRun
  BY DEF Crash, LogStep
<1>5. TypeOK'
  BY <1>0, <1>3, <1>4, Types, TypesNext DEF RangeInv
<1>6. budget' = [budget EXCEPT !.crashes = @ - 1] /\ budget.crashes > 0
  BY DEF Crash
<1>7. budget' \in Budgets
  BY <1>0, <1>6 DEF Budgets
<1>8. /\ canc' = [c \in Cancellers \cup Watchers |-> NoCancel]
      /\ rec' = NoScan /\ mon' = [r \in Runs |-> NoMon]
  BY DEF Crash
<1>9. SideTypes'
  BY <1>7, <1>8, IdleStates DEF SideTypes
<1>10. CancOK' /\ MonOK'
  BY <1>8 DEF CancOK, MonOK, NoCancel, NoMon
<1>11. RecOK'
  <2>1. /\ rec' \in RecStates /\ rec'.len = 0 /\ rec'.rest = {}
        /\ rec'.pc = "idle"
    BY <1>8, IdleStates DEF NoScan
  <2> QED
    BY <1>4, <2>1, RecReset
<1>12. QueuedFirst' /\ \A r, k : Has(r, k) => Has(r, k)'
  BY <1>0, <1>4, LogGrows
<1>13. ASSUME NEW q \in Objs
       PROVE  Named(q)'
  <2>1. active' # q
    BY <1>4 DEF Objs
  <2>2. CASE obj[q].pc = "unused"
    BY <1>2, <1>12, <2>1, <2>2, NamedFrame DEF RangeInv
  <2>3. CASE obj[q].pc # "unused"
    <3>1. obj'[q] = Lost
      BY <1>2, <2>3
    <3> QED
      BY <1>1, <2>1, <3>1 DEF Named
  <2> QED
    BY <2>2, <2>3
<1> QED
  BY <1>5, <1>9, <1>10, <1>11, <1>12, <1>13 DEF RangeInv

LEMMA RestartRange ==
    ASSUME RangeInv, Restart
    PROVE  RangeInv'
<1>0. budget \in Budgets /\ log \in Seq(Events)
  BY Types DEF RangeInv, SideTypes
<1>1. /\ obj' = obj /\ active' = active /\ canc' = canc /\ mon' = mon
      /\ log' = log /\ LogStep /\ RunsKept
      /\ rec' = [NoScan EXCEPT !.pc = "startup"]
  BY DEF Restart, diskVars, LogStep, RunsKept
<1>2. Plain
  BY <1>0, Types DEF Restart, Plain, diskVars, RangeInv
<1>3. /\ rec' \in RecStates /\ rec'.len = 0 /\ rec'.rest = {}
      /\ rec'.pc = "startup"
  BY <1>1 DEF NoScan, RecStates, Terminal
<1>4. SideOK
  BY <1>1, <1>3, CancKept, RecReset, MonKept DEF SideOK
<1> QED
  BY <1>1, <1>2, <1>4, RestRange

LEMMA InitRange == Init => RangeInv
<1> SUFFICES ASSUME Init PROVE RangeInv
  OBVIOUS
<1>1. TypeOK
  <2>1. obj \in [Objs -> ObjStates]
    BY UnusedState DEF Init
  <2>2. log \in Seq(Events)
    BY EmptySeq DEF Init
  <2>3. nextRun \in 1..(MaxRuns + 1)
    BY AgentRunAssumption DEF Init
  <2>4. /\ up \in BOOLEAN /\ closing \in BOOLEAN /\ status \in Statuses
        /\ active \in Objs \cup {0} /\ entry \in Objs \cup {0}
        /\ proc \in [Objs -> {"none", "alive", "dead"}]
    BY DEF Init, Statuses
  <2> QED
    BY <2>1, <2>2, <2>3, <2>4, Types
<1>2. budget \in Budgets
  BY AgentRunAssumption DEF Init, Budgets
<1>3. SideTypes
  BY <1>2, IdleStates DEF Init, SideTypes
<1>4. CancOK /\ MonOK
  BY DEF Init, CancOK, MonOK, NoCancel, NoMon
<1>5. RecOK /\ QueuedFirst
  BY DEF Init, RecOK, QueuedFirst, NoScan
<1>6. ASSUME NEW o \in Objs PROVE Named(o)
  BY DEF Init, Named, Unused, Objs
<1> QED
  BY <1>1, <1>3, <1>4, <1>5, <1>6 DEF RangeInv

LEMMA RangeNext == RangeInv /\ [Next]_vars => RangeInv'
<1> SUFFICES ASSUME RangeInv, [Next]_vars PROVE RangeInv'
  OBVIOUS
<1>1. ASSUME NEW o \in Objs,
             \/ StartRun(o) \/ Setup(o) \/ Goroutine(o) \/ RecordTerminal(o)
             \/ AppendSession(o) \/ ProcessExit(o) \/ NeedsUser(o)
             \/ WatcherFires(o)
      PROVE  RangeInv'
  BY <1>1, StartRange, SetupRange, GoroutineRange, TerminalRange, OtherRange,
     CancelRange DEF Watchers
<1>2. ASSUME NEW c \in Cancellers, CancelFind(c) PROVE RangeInv'
  BY <1>2, CancelRange
<1>3. ASSUME NEW c \in Cancellers \cup Watchers, CancelRun(c) PROVE RangeInv'
  BY <1>3, CancelRange
<1>4. ASSUME NEW r \in Runs, Monitor(r) PROVE RangeInv'
  BY <1>4, MonitorRange
<1>5. ASSUME UNCHANGED vars PROVE RangeInv'
  <2>1. /\ obj' = obj /\ active' = active /\ LogStep /\ UNCHANGED sideVars
        /\ log' = log
    BY <1>5 DEF vars, LogStep, sideVars
  <2>2. TypeOK /\ SideTypes
    BY DEF RangeInv
  <2>3. /\ up' \in BOOLEAN /\ closing' \in BOOLEAN /\ status' \in Statuses
        /\ entry' \in Objs \cup {0} /\ nextRun' \in 1..(MaxRuns + 1)
        /\ proc' \in [Objs -> {"none", "alive", "dead"}] /\ budget' \in Budgets
    BY <1>5, <2>2, Types DEF vars, SideTypes
  <2> QED
    BY <2>1, <2>3, StillRange
<1>6. CASE Next
  BY <1>1, <1>2, <1>3, <1>4, <1>6, RecoverRange, HandRange, CrashRange,
     RestartRange DEF Next
<1> QED
  BY <1>5, <1>6

\* The inductive invariant: every goroutine that works on a run works on one
\* that exists, and what it is about to write is in range.
LEMMA RangeAlways == Spec => []RangeInv
<1> QED
  BY InitRange, RangeNext, PTL DEF Spec

\* The values the variables hold; in the history only an end has a terminal
\* status and only a start has a pid (recordTerminal, recoverOne, markLost).
THEOREM AgentRunTypes == Spec => []TypeOK
<1>1. RangeInv => TypeOK
  BY DEF RangeInv
<1> QED
  BY <1>1, RangeAlways, PTL

-----------------------------------------------------------------------------
(* The first GUI, until it dies: whose process, whose entry.               *)

\* Nothing is adopted or monitored.
NoneAdopted ==
    /\ rec.pc # "startup" /\ (rec.pc # "idle" => rec.tick)
    /\ \A r \in Runs : mon[r].pc = "off"

Early    == {"register", "claimed", "synth"}
Spawning == {"queue", "label", "undo", "go", "started", "mark", "record",
             "wait"}
Ending   == {"post", "close", "after"}

\* What an object holds where it is: the task's entry in the daemon's active
\* set, its place in s.active, the right to write the terminal record.
Owner(o) ==
    /\ obj[o].kind # "stub" /\ obj[o].pc # "stub"
    /\ obj[o].pc \in Early => entry = o /\ active # o
    /\ \/ obj[o].pc \in Spawning
       \/ (obj[o].pc \in Ending /\ obj[o].fin = "free")
       \/ obj[o].fin \in {"append", "read", "edit", "delete"}
       \/ (obj[o].done /\ obj[o].fin = "free")
       => active = o
    /\ obj[o].fin = "done" => active # o
    /\ active = o => entry = o
    /\ (obj[o].pc \in Ending /\ obj[o].kind = "queued") => entry = o
    /\ obj[o].pc = "after" => obj[o].kind = "queued"
    /\ obj[o].pc \notin Ending \cup {"gone"} => obj[o].fin = "free"
    /\ obj[o].pc \in {"close", "after"} =>
          obj[o].cancelled \/ obj[o].fin = "done"
    /\ obj[o].pc = "gone" /\ obj[o].kind = "queued" =>
          obj[o].fin \in {"free", "done"} /\ (obj[o].fin = "free" => ~obj[o].done)
    /\ obj[o].done => obj[o].pc \in {"after", "gone"}
    /\ proc[o] = "alive" => obj[o].pc \in {"started", "mark", "record", "wait"}

\* A cancel writes the record of a run only once its goroutine has left.
CancelWaited ==
    \A c \in Cancellers \cup Watchers :
        canc[c].pc = "finish" => obj[canc[c].obj].done

\* A pid in the history is that of an object of its run.
PidNamed ==
    \A i \in DOMAIN log : log[i].kind \in {"started", "session"}
                            => obj[log[i].pid].run = log[i].run

LifeInv == /\ FirstGui /\ NoneAdopted
           /\ (\A o \in Objs : Owner(o)) /\ CancelWaited /\ PidNamed

\* How an object changes, and that the others do not.
Becomes(o, pc, fin, st) ==
    /\ obj'[o].pc = pc /\ obj'[o].fin = fin /\ obj'[o].st = st
    /\ obj'[o].run = obj[o].run /\ obj'[o].kind = obj[o].kind
    /\ obj'[o].mode = obj[o].mode
    /\ \A q \in Objs : q # o => obj'[q] = obj[q]

FlagsKept(o) == /\ obj'[o].done = obj[o].done
                /\ obj'[o].cancelled = obj[o].cancelled

LEMMA GotoBecomes ==
    ASSUME obj \in [Objs -> ObjStates], NEW o \in Objs, NEW pc, Goto(o, pc)
    PROVE  Becomes(o, pc, obj[o].fin, obj[o].st) /\ FlagsKept(o)
<1>1. obj[o] \in ObjStates /\ obj' = [obj EXCEPT ![o] = [obj[o] EXCEPT !.pc = pc]]
  BY DEF Goto
<1>2. obj'[o] = [obj[o] EXCEPT !.pc = pc] /\ \A q \in Objs : q # o => obj'[q] = obj[q]
  BY <1>1
<1> QED
  BY <1>1, <1>2 DEF Becomes, FlagsKept, ObjStates

LEMMA FinBecomes ==
    ASSUME obj \in [Objs -> ObjStates], NEW o \in Objs, NEW f, SetFin(o, f)
    PROVE  Becomes(o, obj[o].pc, f, obj[o].st) /\ FlagsKept(o)
<1>1. obj[o] \in ObjStates /\ obj' = [obj EXCEPT ![o] = [obj[o] EXCEPT !.fin = f]]
  BY DEF SetFin
<1>2. obj'[o] = [obj[o] EXCEPT !.fin = f] /\ \A q \in Objs : q # o => obj'[q] = obj[q]
  BY <1>1
<1> QED
  BY <1>1, <1>2 DEF Becomes, FlagsKept, ObjStates

LEMMA ClaimBecomes ==
    ASSUME obj \in [Objs -> ObjStates], NEW o \in Objs, NEW s,
           obj' = [obj EXCEPT ![o] = Claimed(o, s)]
    PROVE  Becomes(o, obj[o].pc, "append", s) /\ FlagsKept(o)
<1>1. obj[o] \in ObjStates
  OBVIOUS
<1>2. /\ obj'[o] = [obj[o] EXCEPT !.fin = "append", !.st = s]
      /\ \A q \in Objs : q # o => obj'[q] = obj[q]
  BY DEF Claimed
<1> QED
  BY <1>1, <1>2 DEF Becomes, FlagsKept, ObjStates

\* The other goroutines are left alone; a run and a closed Done stay.
Apart(o) ==
    /\ \A q \in Objs : q # o => /\ obj'[q] = obj[q]
                                /\ proc'[q] = "alive" => proc[q] = "alive"
                                /\ active' = q <=> active = q
                                /\ entry = q => entry' = q
    /\ obj[o].run \in Runs => obj'[o].run = obj[o].run
    /\ obj[o].done => obj'[o].done

LEMMA OwnerFrame ==
    ASSUME \A q \in Objs : Owner(q), NEW o \in Objs, Apart(o), Owner(o)'
    PROVE  \A q \in Objs : Owner(q)'
<1> SUFFICES ASSUME NEW q \in Objs, q # o PROVE Owner(q)'
  OBVIOUS
<1>1. /\ obj'[q] = obj[q] /\ (proc'[q] = "alive" => proc[q] = "alive")
      /\ active' = q <=> active = q
      /\ entry = q => entry' = q
  BY DEF Apart
<1>2. Owner(q)
  OBVIOUS
<1> QED
  BY <1>1, <1>2 DEF Owner

LEMMA LifeFacts ==
    ASSUME RangeInv, LifeInv, NEW o \in Objs
    PROVE  /\ Owner(o) /\ obj[o] \in ObjStates /\ obj \in [Objs -> ObjStates]
           /\ proc \in [Objs -> {"none", "alive", "dead"}]
           /\ active \in Objs \cup {0} /\ entry \in Objs \cup {0}
           /\ o # 0 /\ 0 \notin Objs
           /\ obj[o].pc \in {"unused", "claimed"} => obj[o].run \notin Runs
BY RangeFacts DEF LifeInv, Objs, Named, Runs

LEMMA LifeStart ==
    ASSUME RangeInv, LifeInv, NEW o \in Objs, StartRun(o)
    PROVE  Apart(o) /\ Owner(o)'
<1> USE LifeFacts
<1>0. /\ active = 0 /\ entry = 0 /\ entry' = o /\ active' = active
      /\ proc' = proc /\ obj[o].pc = "unused"
  BY DEF StartRun, StartAgentRun, ResumeAgent, Claim, Fresh
<1>1. ASSUME NEW x, obj' = [obj EXCEPT ![o] = x],
             x.pc \in {"register", "claimed"}, x.fin = "free",
             x.kind \in {"direct", "queued"}, ~x.done
      PROVE  /\ obj'[o].pc \in {"register", "claimed"} /\ obj'[o].fin = "free"
             /\ obj'[o].kind \in {"direct", "queued"} /\ ~obj'[o].done
             /\ \A q \in Objs : q # o => obj'[q] = obj[q]
  BY <1>1
<1>2. /\ obj'[o].pc \in {"register", "claimed"} /\ obj'[o].fin = "free"
      /\ obj'[o].kind \in {"direct", "queued"} /\ ~obj'[o].done
      /\ \A q \in Objs : q # o => obj'[q] = obj[q]
  <2>1. ASSUME NEW m \in StartModes, StartAgentRun(o, m) 
        PROVE  /\ obj'[o].pc \in {"register", "claimed"} /\ obj'[o].fin = "free"
               /\ obj'[o].kind \in {"direct", "queued"} /\ ~obj'[o].done
               /\ \A q \in Objs : q # o => obj'[q] = obj[q]
    <3> DEFINE x == [Unused EXCEPT !.pc = "register", !.run = nextRun, !.mode = m]
    <3>1. obj' = [obj EXCEPT ![o] = x]
      BY <2>1 DEF StartAgentRun
    <3>2. /\ x.pc = "register" /\ x.fin = "free" /\ x.kind = "direct" /\ ~x.done
      BY DEF Unused
    <3> HIDE DEF x
    <3> QED
      BY <1>1, <3>1, <3>2
  <2>2. CASE ResumeAgent(o)
    <3> DEFINE x == [Unused EXCEPT !.pc = "register", !.run = nextRun,
                                   !.mode = ResumeMode]
    <3>1. obj' = [obj EXCEPT ![o] = x]
      BY <2>2 DEF ResumeAgent
    <3>2. /\ x.pc = "register" /\ x.fin = "free" /\ x.kind = "direct" /\ ~x.done
      BY DEF Unused
    <3> HIDE DEF x
    <3> QED
      BY <1>1, <3>1, <3>2
  <2>3. CASE Claim(o)
    <3> DEFINE x == [Unused EXCEPT !.pc = "claimed", !.kind = "queued"]
    <3>1. obj' = [obj EXCEPT ![o] = x]
      BY <2>3 DEF Claim
    <3>2. /\ x.pc = "claimed" /\ x.fin = "free" /\ x.kind = "queued" /\ ~x.done
      BY DEF Unused
    <3> HIDE DEF x
    <3> QED
      BY <1>1, <3>1, <3>2
  <2> QED
    BY <2>1, <2>2, <2>3 DEF StartRun
<1>3. obj[o].run \notin Runs /\ ~obj[o].done
  BY <1>0 DEF Owner
<1>6. Apart(o)
  BY <1>0, <1>2, <1>3 DEF Apart
<1>4. proc[o] # "alive"
  BY <1>0 DEF Owner
<1>5. Owner(o)'
  BY <1>0, <1>2, <1>4 DEF Owner, Early, Spawning, Ending
<1> QED
  BY <1>5, <1>6

LEMMA LifeSetup ==
    ASSUME RangeInv, LifeInv, NEW o \in Objs, Setup(o)
    PROVE  Apart(o) /\ Owner(o)'
<1> USE LifeFacts
<1>0. proc' = proc
  BY DEF Setup, Register, AppendQueued, EditQueued, Rollback, ReadQueued,
         ReadRefused, Synthesise
<1>1. CASE Register(o)
  <2>1. obj[o].pc = "register" /\ entry = o /\ active # o
    BY <1>1 DEF Register, At, Owner, Early
  <2>2. active = 0
    BY <2>1 DEF LifeInv, Owner
  <2>3. PICK pc \in {"queue", "go"} :
          Goto(o, pc) /\ active' = o /\ entry' = entry
    BY <1>1, <2>2 DEF Register
  <2>4. Becomes(o, pc, obj[o].fin, obj[o].st) /\ FlagsKept(o)
    BY <2>3, GotoBecomes
  <2> QED
    BY <1>0, <2>1, <2>2, <2>3, <2>4
    DEF Apart, Becomes, FlagsKept, Owner, Early, Spawning, Ending
<1>2. CASE AppendQueued(o)
  <2>1. PICK pc \in {"label", "undo"} : Goto(o, pc)
    BY <1>2 DEF AppendQueued
  <2>2. Becomes(o, pc, obj[o].fin, obj[o].st) /\ FlagsKept(o)
    BY <2>1, GotoBecomes
  <2>3. obj[o].pc = "queue" /\ active' = active /\ entry' = entry
    BY <1>2 DEF AppendQueued, At
  <2> QED
    BY <1>0, <2>2, <2>3
    DEF Apart, Becomes, FlagsKept, Owner, Early, Spawning, Ending
<1>3. CASE EditQueued(o)
  <2>1. PICK pc \in {"go", "undo"} : Goto(o, pc)
    BY <1>3 DEF EditQueued
  <2>2. Becomes(o, pc, obj[o].fin, obj[o].st) /\ FlagsKept(o)
    BY <2>1, GotoBecomes
  <2>3. obj[o].pc = "label" /\ active' = active /\ entry' = entry
    BY <1>3 DEF EditQueued, At
  <2> QED
    BY <1>0, <2>2, <2>3
    DEF Apart, Becomes, FlagsKept, Owner, Early, Spawning, Ending
<1>4. CASE Rollback(o)
  <2>1. obj[o].pc = "undo" /\ active = o /\ entry = o /\ active' = 0
        /\ entry' = 0
    BY <1>4 DEF Rollback, At, Owner, Spawning
  <2>2. obj' = [obj EXCEPT ![o] = [obj[o] EXCEPT !.pc = "gone", !.ctx = TRUE]]
    BY <1>4 DEF Rollback
  <2>3. /\ Becomes(o, "gone", obj[o].fin, obj[o].st) /\ FlagsKept(o)
    BY <2>2 DEF Becomes, FlagsKept, ObjStates
  <2> QED
    BY <1>0, <2>1, <2>3
    DEF Apart, Becomes, FlagsKept, Owner, Early, Spawning, Ending
<1>5. CASE ReadQueued(o)
  <2>2. \E pc \in {"register", "synth"} :
          /\ obj'[o].pc = pc /\ obj'[o].fin = obj[o].fin
          /\ obj'[o].kind = obj[o].kind /\ FlagsKept(o)
          /\ \A q \in Objs : q # o => obj'[q] = obj[q]
    <3>1. CASE OpenQueued # {}
      <4>1. obj' = [obj EXCEPT ![o] =
                 [obj[o] EXCEPT !.pc = "register", !.run = LatestOf(OpenQueued),
                                !.mode = ModeOf(LatestOf(OpenQueued))]]
        BY <1>5, <3>1 DEF ReadQueued
      <4> QED
        BY <4>1 DEF ObjStates, FlagsKept
    <3>2. CASE OpenQueued = {}
      <4>1. obj' = [obj EXCEPT ![o] = [obj[o] EXCEPT !.pc = "synth", !.run = nextRun]]
        BY <1>5, <3>2 DEF ReadQueued
      <4> QED
        BY <4>1 DEF ObjStates, FlagsKept
    <3> QED
      BY <3>1, <3>2
  <2>3. obj[o].pc = "claimed" /\ active' = active /\ entry' = entry
    BY <1>5 DEF ReadQueued, At
  <2> QED
    BY <1>0, <2>2, <2>3 DEF Apart, FlagsKept, Owner, Early, Spawning, Ending
<1>6. CASE ReadRefused(o)
  <2>1. obj[o].pc = "claimed" /\ active' = active /\ entry = o /\ entry' = 0
        /\ Goto(o, "gone") /\ active # o
    BY <1>6 DEF ReadRefused, At, Owner, Early
  <2>2. Becomes(o, "gone", obj[o].fin, obj[o].st) /\ FlagsKept(o)
    BY <2>1, GotoBecomes
  <2> QED
    BY <1>0, <2>1, <2>2
    DEF Apart, Becomes, FlagsKept, Owner, Early, Spawning, Ending
<1>7. CASE Synthesise(o)
  <2>1. PICK pc \in {"register", "gone"} :
          /\ Goto(o, pc)
          /\ pc = "register" => entry' = entry
          /\ pc = "gone" => entry' = 0
    BY <1>7 DEF Synthesise
  <2>2. Becomes(o, pc, obj[o].fin, obj[o].st) /\ FlagsKept(o)
    BY <2>1, GotoBecomes
  <2>3. obj[o].pc = "synth" /\ active' = active /\ entry = o /\ active # o
    BY <1>7 DEF Synthesise, At, Owner, Early
  <2> QED
    BY <1>0, <2>1, <2>2, <2>3
    DEF Apart, Becomes, FlagsKept, Owner, Early, Spawning, Ending
<1> QED
  BY <1>1, <1>2, <1>3, <1>4, <1>5, <1>6, <1>7 DEF Setup

LEMMA LifeGoroutine ==
    ASSUME RangeInv, LifeInv, NEW o \in Objs, Goroutine(o)
    PROVE  Apart(o) /\ Owner(o)'
<1> USE LifeFacts
\* The pc moves, and perhaps the status of the end.
<1>0. ASSUME NEW pc, NEW st, Becomes(o, pc, obj[o].fin, st), FlagsKept(o),
             active' = active, entry' = entry,
             \/ obj[o].pc = "go" /\ pc = "close" /\ obj[o].cancelled
                /\ proc' = proc
             \/ obj[o].pc = "go" /\ pc = "started"
                /\ \A q \in Objs : q # o => proc'[q] = proc[q]
             \/ obj[o].pc = "go" /\ pc = "post" /\ proc' = proc
             \/ obj[o].pc \in {"started", "mark", "record"}
                /\ pc \in {"mark", "record", "wait"} /\ proc' = proc
             \/ obj[o].pc = "wait" /\ pc = "post" /\ proc[o] = "dead"
                /\ proc' = proc
             \/ obj[o].pc = "post" /\ pc = "close" /\ proc' = proc
                /\ (obj[o].cancelled \/ obj[o].fin = "done")
      PROVE  Apart(o) /\ Owner(o)'
  <2>1. Apart(o)
    BY <1>0 DEF Apart, Becomes, FlagsKept
  <2>2. /\ obj'[o].pc = pc /\ obj'[o].fin = obj[o].fin
        /\ obj'[o].kind = obj[o].kind
        /\ obj'[o].done = obj[o].done
        /\ obj'[o].cancelled = obj[o].cancelled
    BY <1>0 DEF Becomes, FlagsKept
  <2>3. Owner(o)
    OBVIOUS
  <2>4. CASE obj[o].pc = "go" /\ pc = "close"
    BY <1>0, <2>1, <2>2, <2>3, <2>4 DEF Owner, Early, Spawning, Ending
  <2>5. CASE obj[o].pc = "go" /\ pc = "started"
    BY <1>0, <2>1, <2>2, <2>3, <2>5 DEF Owner, Early, Spawning, Ending
  <2>6. CASE obj[o].pc = "go" /\ pc = "post"
    BY <1>0, <2>1, <2>2, <2>3, <2>6 DEF Owner, Early, Spawning, Ending
  <2>7. CASE /\ obj[o].pc \in {"started", "mark", "record"}
             /\ pc \in {"mark", "record", "wait"}
    BY <1>0, <2>1, <2>2, <2>3, <2>7 DEF Owner, Early, Spawning, Ending
  <2>8. CASE obj[o].pc = "wait" /\ pc = "post"
    BY <1>0, <2>1, <2>2, <2>3, <2>8 DEF Owner, Early, Spawning, Ending
  <2>9. CASE obj[o].pc = "post" /\ pc = "close"
    BY <1>0, <2>1, <2>2, <2>3, <2>9 DEF Owner, Early, Spawning, Ending
  <2> QED
    BY <1>0, <2>1, <2>4, <2>5, <2>6, <2>7, <2>8, <2>9
<1>1. CASE GoCancelled(o)
  <2>1. Becomes(o, "close", obj[o].fin, obj[o].st) /\ FlagsKept(o)
    BY <1>1, GotoBecomes DEF GoCancelled
  <2> QED
    BY <1>0, <1>1, <2>1 DEF GoCancelled, At
<1>2. CASE Spawn(o)
  <2>1. Becomes(o, "started", obj[o].fin, obj[o].st) /\ FlagsKept(o)
    BY <1>2, GotoBecomes DEF Spawn
  <2>2. \A q \in Objs : q # o => proc'[q] = proc[q]
    BY <1>2 DEF Spawn
  <2> QED
    BY <1>0, <1>2, <2>1, <2>2 DEF Spawn, At
<1>3. CASE SpawnFail(o)
  <2>1. obj' = [obj EXCEPT ![o] = [obj[o] EXCEPT !.pc = "post", !.st = "failed"]]
    BY <1>3 DEF SpawnFail
  <2>2. Becomes(o, "post", obj[o].fin, "failed") /\ FlagsKept(o)
    BY <2>1 DEF Becomes, FlagsKept, ObjStates
  <2> QED
    BY <1>0, <1>3, <2>2 DEF SpawnFail, At
<1>4. CASE OnStarted(o)
  <2> DEFINE pc == IF obj[o].cancelled THEN "wait" ELSE "mark"
  <2>1. obj' = [obj EXCEPT ![o] = [obj[o] EXCEPT !.pid = o, !.pc = pc]]
    BY <1>4 DEF OnStarted
  <2>2. pc \in {"wait", "mark"}
    OBVIOUS
  <2> HIDE DEF pc
  <2>3. Becomes(o, pc, obj[o].fin, obj[o].st) /\ FlagsKept(o)
    BY <2>1 DEF Becomes, FlagsKept, ObjStates
  <2> QED
    BY <1>0, <1>4, <2>2, <2>3 DEF OnStarted, At
<1>5. CASE EditRunning(o)
  <2>1. Becomes(o, "record", obj[o].fin, obj[o].st) /\ FlagsKept(o)
    BY <1>5, GotoBecomes DEF EditRunning
  <2> QED
    BY <1>0, <1>5, <2>1 DEF EditRunning, At
<1>6. CASE AppendStarted(o)
  <2>1. Becomes(o, "wait", obj[o].fin, obj[o].st) /\ FlagsKept(o)
    BY <1>6, GotoBecomes DEF AppendStarted
  <2> QED
    BY <1>0, <1>6, <2>1 DEF AppendStarted, At
<1>7. CASE Outcome(o)
  <2>1. PICK st \in {"success", "failed"} :
          obj' = [obj EXCEPT ![o] = [obj[o] EXCEPT !.pc = "post", !.st = st]]
    BY <1>7 DEF Outcome
  <2>2. Becomes(o, "post", obj[o].fin, st) /\ FlagsKept(o)
    BY <2>1 DEF Becomes, FlagsKept, ObjStates
  <2> QED
    BY <1>0, <1>7, <2>2 DEF Outcome, At
\* finishOnce is entered by the goroutine.
<1>8. ASSUME NEW s, obj' = [obj EXCEPT ![o] = Claimed(o, s)],
             active' = active, entry' = entry, proc' = proc,
             obj[o].fin = "free",
             obj[o].pc = "post" \/ (obj[o].pc = "after" /\ obj[o].cancelled)
      PROVE  Apart(o) /\ Owner(o)'
  <2>1. Becomes(o, obj[o].pc, "append", s) /\ FlagsKept(o)
    BY <1>8, ClaimBecomes
  <2>2. Owner(o)
    OBVIOUS
  <2>3. Apart(o)
    BY <1>8, <2>1 DEF Apart, Becomes, FlagsKept
  <2>4. Owner(o)'
    BY <1>8, <2>1, <2>2 DEF Becomes, FlagsKept, Owner, Early, Spawning, Ending
  <2> QED
    BY <2>3, <2>4
<1>9. CASE PostRun(o)
  <2>1. CASE obj[o].cancelled \/ obj[o].fin = "done"
    <3>1. Becomes(o, "close", obj[o].fin, obj[o].st) /\ FlagsKept(o)
      BY <1>9, <2>1, GotoBecomes DEF PostRun
    <3> QED
      BY <1>0, <1>9, <2>1, <3>1 DEF PostRun, At
  <2>2. CASE ~(obj[o].cancelled \/ obj[o].fin = "done")
    BY <1>8, <1>9, <2>2 DEF PostRun, At
  <2> QED
    BY <2>1, <2>2
<1>10. CASE CloseDone(o)
  <2> DEFINE pc == IF obj[o].kind = "queued" THEN "after" ELSE "gone"
  <2>1. obj' = [obj EXCEPT ![o] = [obj[o] EXCEPT !.done = TRUE, !.pc = pc]]
    BY <1>10 DEF CloseDone
  <2>2. /\ obj[o].kind = "queued" => pc = "after"
        /\ obj[o].kind # "queued" => pc = "gone"
    OBVIOUS
  <2> HIDE DEF pc
  <2>3. /\ Becomes(o, pc, obj[o].fin, obj[o].st) /\ obj'[o].done = TRUE
        /\ obj'[o].cancelled = obj[o].cancelled
    BY <2>1 DEF Becomes, ObjStates
  <2>4. /\ obj[o].pc = "close" /\ active' = active /\ entry' = entry
        /\ proc' = proc
    BY <1>10 DEF CloseDone, At
  <2>5. Apart(o)
    BY <2>3, <2>4 DEF Apart, Becomes
  <2>6. Owner(o)
    OBVIOUS
  <2>7. Owner(o)'
    BY <2>2, <2>3, <2>4, <2>6 DEF Becomes, Owner, Early, Spawning, Ending
  <2> QED
    BY <2>5, <2>7
<1>11. CASE AfterQueued(o)
  <2>0. obj[o].pc = "after" /\ active' = active /\ proc' = proc
    BY <1>11 DEF AfterQueued, At
  <2>1. CASE obj[o].cancelled /\ obj[o].fin # "done"
    BY <1>8, <1>11, <2>0, <2>1 DEF AfterQueued
  <2>2. CASE ~(obj[o].cancelled /\ obj[o].fin # "done")
    <3>1. Goto(o, "gone") /\ entry' = IF entry = o THEN 0 ELSE entry
      BY <1>11, <2>2 DEF AfterQueued
    <3>2. Becomes(o, "gone", obj[o].fin, obj[o].st) /\ FlagsKept(o)
      BY <3>1, GotoBecomes
    <3>3. Apart(o)
      BY <2>0, <3>1, <3>2 DEF Apart, Becomes, FlagsKept
    <3>4. Owner(o) /\ obj[o].fin = "done"
      BY <2>0, <2>2 DEF Owner
    <3>5. Owner(o)'
      BY <2>0, <3>1, <3>2, <3>4
      DEF Becomes, FlagsKept, Owner, Early, Spawning, Ending
    <3> QED
      BY <3>3, <3>5
  <2> QED
    BY <2>1, <2>2
<1> QED
  BY <1>1, <1>2, <1>3, <1>4, <1>5, <1>6, <1>7, <1>9, <1>10, <1>11 DEF Goroutine

LEMMA LifeTerminal ==
    ASSUME RangeInv, LifeInv, NEW o \in Objs, RecordTerminal(o)
    PROVE  Apart(o) /\ Owner(o)'
<1> USE LifeFacts
<1>0. proc' = proc /\ Owner(o)
  BY DEF RecordTerminal, TerminalAppend, TerminalRead, TerminalEdit,
         TerminalDelete
\* The writer goes on and keeps what it holds.
<1>1. ASSUME NEW f \in {"read", "edit", "delete"}, NEW st,
             Becomes(o, obj[o].pc, f, st), FlagsKept(o),
             obj[o].fin \in {"append", "read", "edit"},
             active' = active, entry' = entry
      PROVE  Apart(o) /\ Owner(o)'
  <2>1. Apart(o)
    BY <1>0, <1>1 DEF Apart, Becomes, FlagsKept
  <2>2. Owner(o)'
    BY <1>0, <1>1 DEF Becomes, FlagsKept, Owner, Early, Spawning, Ending
  <2> QED
    BY <2>1, <2>2
<1>2. CASE TerminalAppend(o)
  <2>1. PICK f \in {"read", "edit"} : SetFin(o, f)
    BY <1>2 DEF TerminalAppend
  <2>2. Becomes(o, obj[o].pc, f, obj[o].st) /\ FlagsKept(o)
    BY <2>1, FinBecomes
  <2> QED
    BY <1>1, <1>2, <2>2 DEF TerminalAppend, Fin
<1>3. CASE TerminalRead(o)
  <2>1. CASE \E f \in {"delete", "edit"} : SetFin(o, f)
    <3>1. PICK f \in {"delete", "edit"} : SetFin(o, f)
      BY <2>1
    <3>2. Becomes(o, obj[o].pc, f, obj[o].st) /\ FlagsKept(o)
      BY <3>1, FinBecomes
    <3> QED
      BY <1>1, <1>3, <3>2 DEF TerminalRead, Fin
  <2>2. CASE obj' = [obj EXCEPT ![o] = [obj[o] EXCEPT !.fin = "edit", !.st = "none"]]
    <3>1. Becomes(o, obj[o].pc, "edit", "none") /\ FlagsKept(o)
      BY <2>2 DEF Becomes, FlagsKept, ObjStates
    <3> QED
      BY <1>1, <1>3, <3>1 DEF TerminalRead, Fin
  <2> QED
    BY <1>3, <2>1, <2>2 DEF TerminalRead
<1>4. CASE TerminalEdit(o)
  <2>1. Becomes(o, obj[o].pc, "delete", obj[o].st) /\ FlagsKept(o)
    BY <1>4, FinBecomes DEF TerminalEdit
  <2> QED
    BY <1>1, <1>4, <2>1 DEF TerminalEdit, Fin
<1>5. CASE TerminalDelete(o)
  <2>1. Becomes(o, obj[o].pc, "done", obj[o].st) /\ FlagsKept(o)
    BY <1>5, FinBecomes DEF TerminalDelete
  <2>2. /\ obj[o].fin = "delete" /\ active' = 0 /\ active = o /\ entry = o
        /\ obj[o].kind = "queued" => entry' = entry
        /\ entry' \in {entry, 0}
    BY <1>0, <1>5 DEF TerminalDelete, Fin, Owner
  <2>3. Apart(o)
    BY <1>0, <2>1, <2>2 DEF Apart, Becomes, FlagsKept
  <2>4. Owner(o)'
    BY <1>0, <2>1, <2>2 DEF Becomes, FlagsKept, Owner, Early, Spawning, Ending
  <2> QED
    BY <2>3, <2>4
<1> QED
  BY <1>2, <1>3, <1>4, <1>5 DEF RecordTerminal

LEMMA LifeOther ==
    ASSUME RangeInv, LifeInv, NEW o \in Objs,
           AppendSession(o) \/ ProcessExit(o) \/ NeedsUser(o)
    PROVE  Apart(o) /\ Owner(o)'
<1> USE LifeFacts
<1>1. /\ obj' = obj /\ active' = active /\ entry' = entry
      /\ \A q \in Objs : proc'[q] = proc[q] \/ (q = o /\ proc'[q] = "dead")
  BY DEF AppendSession, ProcessExit, NeedsUser
<1>2. Apart(o)
  BY <1>1 DEF Apart
<1>3. Owner(o)
  OBVIOUS
<1>4. Owner(o)'
  BY <1>1, <1>3 DEF Owner
<1> QED
  BY <1>2, <1>4

-----------------------------------------------------------------------------
\* A start is appended by the object that has its pid.
LogPids ==
    \/ log' = log
    \/ \E e \in Events :
         /\ log' = Append(log, e)
         /\ e.kind \in {"started", "session"} => obj[e.pid].run = e.run

LEMMA PidNamedStep ==
    ASSUME RangeInv, PidNamed, RunsKept, LogPids
    PROVE  PidNamed'
<1>0. log \in Seq(Events) /\ DOMAIN log = 1..Len(log) /\ Len(log) \in Nat
  BY Types, LogFacts DEF RangeInv
<1> SUFFICES ASSUME NEW i \in DOMAIN log', log'[i].kind \in {"started", "session"}
             PROVE  obj'[log'[i].pid].run = log'[i].run
  BY DEF PidNamed
<1>1. log'[i] \in Events /\ obj[log'[i].pid].run = log'[i].run
  <2>1. CASE log' = log
    BY <1>0, <2>1, LogFacts DEF PidNamed
  <2>2. ASSUME NEW e \in Events, log' = Append(log, e),
               e.kind \in {"started", "session"} => obj[e.pid].run = e.run
        PROVE  log'[i] \in Events /\ obj[log'[i].pid].run = log'[i].run
    <3>1. /\ log' \in Seq(Events) /\ Len(log') = Len(log) + 1
          /\ log'[Len(log) + 1] = e
          /\ \A j \in 1..Len(log) : log'[j] = log[j]
      BY <1>0, <2>2, HasAppended
    <3>2. i \in 1..(Len(log) + 1)
      BY <3>1, LenProperties
    <3>3. CASE i \in 1..Len(log)
      BY <1>0, <3>1, <3>3, LogFacts DEF PidNamed
    <3>4. CASE i = Len(log) + 1
      BY <2>2, <3>1, <3>4
    <3> QED
      BY <1>0, <3>2, <3>3, <3>4
  <2> QED
    BY <2>1, <2>2 DEF LogPids
<1>2. log'[i].pid \in Objs /\ log'[i].run \in Runs
  BY <1>1, EventKinds
<1> QED
  BY <1>1, <1>2 DEF RunsKept

LEMMA AppendPids ==
    ASSUME NEW e \in Events, NEW ok, AppendEvent(e, ok),
           e.kind \in {"started", "session"} => obj[e.pid].run = e.run
    PROVE  LogPids
BY DEF AppendEvent, LogPids

Actor(o) == \/ StartRun(o) \/ Setup(o) \/ Goroutine(o) \/ RecordTerminal(o)
            \/ AppendSession(o) \/ ProcessExit(o) \/ NeedsUser(o)

LEMMA ActorLog ==
    ASSUME RangeInv, LifeInv, NEW o \in Objs, Actor(o)
    PROVE  LogPids
<1>0. /\ SideTypes /\ Named(o) /\ obj[o] \in ObjStates /\ QueuedFirst
      /\ obj[o].mode \in Modes
  BY RangeFacts DEF ObjStates
<1>1. ASSUME log' = log PROVE LogPids
  BY <1>1 DEF LogPids
<1>2. CASE AppendQueued(o)
  <2>1. obj[o].run \in Runs
    BY <1>0, <1>2 DEF AppendQueued, At, Named
  <2>2. PICK ok \in BOOLEAN : AppendEvent(Event(obj[o].run, "queued", 0, obj[o].mode), ok)
    BY <1>2 DEF AppendQueued
  <2> DEFINE e == Event(obj[o].run, "queued", 0, obj[o].mode)
  <2>3. e \in Events /\ e.kind = "queued"
    BY <1>0, <2>1, EventTypes DEF Event
  <2> QED
    BY <2>2, <2>3, AppendPids
<1>3. CASE Synthesise(o)
  <2>1. obj[o].run \in Runs
    BY <1>0, <1>3 DEF Synthesise, At, Named
  <2>2. PICK ok \in BOOLEAN : AppendEvent(Event(obj[o].run, "queued", 0, "work"), ok)
    BY <1>3 DEF Synthesise
  <2> DEFINE e == Event(obj[o].run, "queued", 0, "work")
  <2>3. e \in Events /\ e.kind = "queued"
    BY <1>0, <2>1, EventTypes DEF Event, Modes
  <2> QED
    BY <2>2, <2>3, AppendPids
<1>4. CASE AppendStarted(o)
  <2>1. obj[o].run \in Runs
    BY <1>0, <1>4 DEF AppendStarted, At, Named
  <2>2. PICK ok \in BOOLEAN : AppendEvent(Event(obj[o].run, "started", o, "none"), ok)
    BY <1>4 DEF AppendStarted
  <2> DEFINE e == Event(obj[o].run, "started", o, "none")
  <2>3. e \in Events /\ e.run = obj[o].run /\ e.pid = o
    BY <1>0, <2>1, EventTypes DEF Event
  <2> QED
    BY <2>2, <2>3, AppendPids
<1>5. CASE AppendSession(o)
  <2>1. obj[o].run \in Runs
    BY <1>0, <1>5 DEF AppendSession, At, Named
  <2>2. PICK ok \in BOOLEAN : AppendEvent(Event(obj[o].run, "session", o, "none"), ok)
    BY <1>5 DEF AppendSession
  <2> DEFINE e == Event(obj[o].run, "session", o, "none")
  <2>3. e \in Events /\ e.run = obj[o].run /\ e.pid = o
    BY <1>0, <2>1, EventTypes DEF Event
  <2> QED
    BY <2>2, <2>3, AppendPids
<1>6. CASE TerminalAppend(o)
  <2>1. obj[o].run \in Runs /\ obj[o].st \in Terminal
    BY <1>0, <1>6 DEF TerminalAppend, Fin, Named
  <2>2. PICK ok \in BOOLEAN :
          AppendEvent(Event(obj[o].run, "finished", 0, obj[o].st), ok)
    BY <1>6 DEF TerminalAppend
  <2> DEFINE e == Event(obj[o].run, "finished", 0, obj[o].st)
  <2>3. e \in Events /\ e.kind = "finished"
    BY <1>0, <2>1, EventTypes DEF Event
  <2> QED
    BY <2>2, <2>3, AppendPids
<1>7. CASE StartRun(o)
  BY <1>1, <1>7 DEF StartRun, StartAgentRun, ResumeAgent, Claim, diskVars
<1>8. CASE \/ Register(o) \/ EditQueued(o) \/ Rollback(o) \/ ReadQueued(o)
           \/ ReadRefused(o)
  BY <1>1, <1>8 DEF Register, EditQueued, Rollback, ReadQueued, ReadRefused, diskVars
<1>9. CASE \/ GoCancelled(o) \/ Spawn(o) \/ SpawnFail(o) \/ OnStarted(o)
           \/ EditRunning(o) \/ Outcome(o) \/ PostRun(o) \/ CloseDone(o)
           \/ AfterQueued(o)
  BY <1>1, <1>9 DEF GoCancelled, Spawn, SpawnFail, OnStarted, EditRunning,
     Outcome, PostRun, CloseDone, AfterQueued, diskVars
<1>10. CASE \/ TerminalRead(o) \/ TerminalEdit(o) \/ TerminalDelete(o)
            \/ ProcessExit(o) \/ NeedsUser(o)
  BY <1>1, <1>10 DEF TerminalRead, TerminalEdit, TerminalDelete, ProcessExit,
     NeedsUser, diskVars
<1> QED
  BY <1>2, <1>3, <1>4, <1>5, <1>6, <1>7, <1>8, <1>9, <1>10
  DEF Actor, Setup, Goroutine, RecordTerminal

LEMMA LifeActor ==
    ASSUME RangeInv, LifeInv, NEW o \in Objs, Actor(o), FirstGui'
    PROVE  LifeInv'
<1>1. Apart(o) /\ Owner(o)'
  BY LifeStart, LifeSetup, LifeGoroutine, LifeTerminal, LifeOther DEF Actor
<1>2. \A q \in Objs : Owner(q)'
  BY <1>1, OwnerFrame DEF LifeInv
<1>3. rec' = rec /\ mon' = mon /\ canc' = canc
  BY DEF Actor, StartRun, StartAgentRun, ResumeAgent, Claim, Setup, Register,
     AppendQueued, EditQueued, Rollback, ReadQueued, ReadRefused, Synthesise,
     Goroutine, GoCancelled, Spawn, SpawnFail, OnStarted, EditRunning,
     AppendStarted, Outcome, PostRun, CloseDone, AfterQueued, RecordTerminal,
     TerminalAppend, TerminalRead, TerminalEdit, TerminalDelete, AppendSession,
     ProcessExit, NeedsUser, sideVars
<1>4. NoneAdopted'
  BY <1>3 DEF LifeInv, NoneAdopted
<1>5. RunsKept /\ \A q \in Objs : obj[q].done => obj'[q].done
  BY <1>1 DEF Apart, RunsKept
<1>6. \A c \in Cancellers \cup Watchers :
        canc[c].pc = "finish" => canc[c].obj \in Objs
  BY DEF RangeInv, CancOK
<1>7. CancelWaited'
  BY <1>3, <1>5, <1>6 DEF LifeInv, CancelWaited
<1>8. PidNamed'
  BY <1>5, ActorLog, PidNamedStep DEF LifeInv
<1> QED
  BY <1>2, <1>4, <1>7, <1>8 DEF LifeInv

\* Cancelling: the object keeps its place, and only a closed Done lets the
\* canceller write the record.
LEMMA LifeCanceller ==
    ASSUME RangeInv, LifeInv, NEW c \in Cancellers \cup Watchers,
           \/ c \in Cancellers /\ CancelFind(c)
           \/ c \in Objs /\ WatcherFires(c)
           \/ CancelRun(c),
           FirstGui'
    PROVE  LifeInv'
<1>0. /\ canc \in [Cancellers \cup Watchers -> CancStates]
      /\ Cancellers \cap Objs = {} /\ Watchers = Objs
      /\ obj \in [Objs -> ObjStates]
      /\ proc \in [Objs -> {"none", "alive", "dead"}]
      /\ active \in Objs \cup {0}
  BY Types, AgentRunAssumption DEF RangeInv, SideTypes, Objs, Watchers
<1>1. rec' = rec /\ mon' = mon /\ active' = active /\ entry' = entry /\ log' = log
  BY DEF CancelFind, WatcherFires, CancelRun, CancelMark, CancelTerm, CancelKill,
         CancelDone, CancelFinish, diskVars
\* What is left of a step when the canceller moves to y.
<1>3. ASSUME NEW y \in CancStates, canc' = [canc EXCEPT ![c] = y],
             y.pc = "finish" => y.obj \in Objs /\ obj'[y.obj].done,
             \A q \in Objs : Owner(q)', RunsKept,
             \A q \in Objs : obj[q].done => obj'[q].done
      PROVE  LifeInv'
  <2>1. /\ canc'[c] = y
        /\ \A d \in Cancellers \cup Watchers : d # c => canc'[d] = canc[d]
    BY <1>0, <1>3
  <2>2. NoneAdopted'
    BY <1>1 DEF LifeInv, NoneAdopted
  <2>3. \A d \in Cancellers \cup Watchers :
          canc[d].pc = "finish" => canc[d].obj \in Objs
    BY DEF RangeInv, CancOK
  <2>4. CancelWaited'
    BY <1>3, <2>1, <2>3 DEF LifeInv, CancelWaited
  <2>5. PidNamed'
    BY <1>1, <1>3, PidNamedStep DEF LifeInv, LogPids
  <2> QED
    BY <1>3, <2>2, <2>4, <2>5 DEF LifeInv
<1>4. ASSUME NEW y \in CancStates, canc' = [canc EXCEPT ![c] = y],
             obj' = obj, proc' = proc,
             y.pc = "finish" => y.obj \in Objs /\ obj[y.obj].done
      PROVE  LifeInv'
  <2>1. \A q \in Objs : Owner(q)'
    BY <1>1, <1>4 DEF LifeInv, Owner
  <2> QED
    BY <1>3, <1>4, <2>1 DEF RunsKept
\* The object d becomes x.
<1>5. ASSUME NEW y \in CancStates, canc' = [canc EXCEPT ![c] = y],
             NEW d \in Objs, NEW x \in ObjStates, obj' = [obj EXCEPT ![d] = x],
             x.pc = obj[d].pc, x.run = obj[d].run, x.kind = obj[d].kind,
             x.done = obj[d].done,
             \A q \in Objs : proc'[q] = "alive" => proc[q] = "alive",
             \/ x.fin = obj[d].fin
                /\ (obj[d].cancelled => x.cancelled)
             \/ /\ obj[d].fin = "free" /\ x.fin = "append" /\ obj[d].done
                /\ x.cancelled = obj[d].cancelled,
             y.pc = "finish" => y.obj = d /\ obj[d].done
      PROVE  LifeInv'
  <2>1. /\ obj'[d] = x /\ \A q \in Objs : q # d => obj'[q] = obj[q]
    BY <1>0, <1>5
  <2>2. Apart(d)
    BY <1>1, <1>5, <2>1 DEF Apart
  <2>3. Owner(d) /\ obj[d] \in ObjStates /\ obj[d].done \in BOOLEAN
    BY <1>0 DEF LifeInv, ObjStates
  <2>4. Owner(d)'
    <3>1. CASE x.fin = obj[d].fin /\ (obj[d].cancelled => x.cancelled)
      BY <1>1, <1>5, <2>1, <2>3, <3>1 DEF Owner
    <3>2. CASE /\ obj[d].fin = "free" /\ x.fin = "append" /\ obj[d].done
               /\ x.cancelled = obj[d].cancelled
      BY <1>1, <1>5, <2>1, <2>3, <3>2 DEF Owner, Early, Spawning, Ending
    <3> QED
      BY <1>5, <3>1, <3>2
  <2>5. \A q \in Objs : Owner(q)'
    BY <2>2, <2>4, OwnerFrame DEF LifeInv
  <2>6. RunsKept /\ \A q \in Objs : obj[q].done => obj'[q].done
    BY <2>2 DEF Apart, RunsKept
  <2>7. y.pc = "finish" => y.obj \in Objs /\ obj'[y.obj].done
    BY <1>5, <2>1
  <2> QED
    BY <1>3, <1>5, <2>5, <2>6, <2>7
<1>names. NoCancel \in CancStates /\ NoCancel.pc = "idle"
  BY IdleStates DEF NoCancel
<1> DEFINE o == canc[c].obj
<1>own. canc[c].pc # "idle" => o \in Objs
  BY DEF RangeInv, CancOK
<1>types. canc[c] \in CancStates /\ (o \in Objs => obj[o] \in ObjStates)
  BY <1>0
<1>6. CASE c \in Cancellers /\ CancelFind(c)
  <2> DEFINE y == [canc[c] EXCEPT !.pc = "mark", !.obj = active]
  <2>1. y \in CancStates /\ y.pc = "mark"
    BY <1>0, <1>types, <1>6 DEF CancelFind, CancStates
  <2>2. canc' = [canc EXCEPT ![c] = y] /\ obj' = obj /\ proc' = proc
    BY <1>0, <1>6 DEF CancelFind
  <2> HIDE DEF y
  <2> QED
    BY <1>4, <2>1, <2>2
<1>12. CASE c \in Objs /\ WatcherFires(c)
  <2> DEFINE y == [canc[c] EXCEPT !.pc = "mark", !.obj = c]
  <2>1. y \in CancStates /\ y.pc = "mark"
    BY <1>types, <1>12 DEF CancStates
  <2>2. canc' = [canc EXCEPT ![c] = y] /\ obj' = obj /\ proc' = proc
    BY <1>0, <1>12 DEF WatcherFires
  <2> HIDE DEF y
  <2> QED
    BY <1>4, <2>1, <2>2
<1>7. CASE CancelMark(c)
  <2>1. canc[c].pc = "mark" /\ proc' = proc
    BY <1>7 DEF CancelMark, CancAt
  <2>2. CASE canc' = [canc EXCEPT ![c] = NoCancel] /\ obj' = obj
    BY <1>4, <1>names, <2>1, <2>2
  <2>3. CASE SetCanc(c, "kill") /\ obj' = [obj EXCEPT ![o].cancelled = TRUE]
    <3> DEFINE y == [canc[c] EXCEPT !.pc = "kill"]
               x == [obj[o] EXCEPT !.cancelled = TRUE]
    <3>1. y \in CancStates /\ y.pc = "kill"
      BY <1>types DEF CancStates
    <3>2. /\ x \in ObjStates /\ x.pc = obj[o].pc /\ x.run = obj[o].run
          /\ x.kind = obj[o].kind /\ x.done = obj[o].done
          /\ x.fin = obj[o].fin /\ x.cancelled
      BY <1>types, <1>own, <2>1 DEF ObjStates
    <3>3. canc' = [canc EXCEPT ![c] = y] /\ obj' = [obj EXCEPT ![o] = x]
      BY <1>0, <1>own, <2>1, <2>3 DEF SetCanc
    <3>4. o \in Objs
      BY <1>own, <2>1
    <3> HIDE DEF o, x, y
    <3> QED
      BY <1>5, <2>1, <3>1, <3>2, <3>3, <3>4
  <2> QED
    BY <1>7, <2>2, <2>3 DEF CancelMark
<1>8. CASE CancelTerm(c)
  <2> DEFINE y == [canc[c] EXCEPT !.pc = "grace", !.pid = obj[o].pid]
             x == [obj[o] EXCEPT !.ctx = TRUE]
  <2>1. canc[c].pc = "kill" /\ proc' = proc
    BY <1>8 DEF CancelTerm, CancAt
  <2>2. o \in Objs /\ obj[o].pid \in Objs \cup {0}
    BY <1>own, <1>types, <2>1 DEF ObjStates
  <2>3. y \in CancStates /\ y.pc = "grace"
    BY <1>types, <2>2 DEF CancStates
  <2>4. /\ x \in ObjStates /\ x.pc = obj[o].pc /\ x.run = obj[o].run
        /\ x.kind = obj[o].kind /\ x.done = obj[o].done
        /\ x.fin = obj[o].fin /\ x.cancelled = obj[o].cancelled
    BY <1>types, <2>2 DEF ObjStates
  <2>5. canc' = [canc EXCEPT ![c] = y] /\ obj' = [obj EXCEPT ![o] = x]
    BY <1>0, <1>8, <2>2 DEF CancelTerm
  <2> HIDE DEF o, x, y
  <2> QED
    BY <1>5, <2>1, <2>2, <2>3, <2>4, <2>5
<1>9. CASE CancelKill(c)
  <2> DEFINE y == [canc[c] EXCEPT !.pc = "await"]
             x == [obj[o] EXCEPT !.done = (obj[o].kind = "stub")]
  <2>1. canc[c].pc = "grace" /\ ~obj[o].done
        /\ \A q \in Objs : proc'[q] = "alive" => proc[q] = "alive"
    BY <1>0, <1>9 DEF CancelKill, CancAt
  <2>2. o \in Objs /\ obj[o].kind # "stub" /\ obj[o].done = FALSE
    BY <1>own, <1>types, <2>1 DEF ObjStates, LifeInv, Owner
  <2>3. y \in CancStates /\ y.pc = "await"
    BY <1>types DEF CancStates
  <2>4. /\ x \in ObjStates /\ x.pc = obj[o].pc /\ x.run = obj[o].run
        /\ x.kind = obj[o].kind /\ x.done = obj[o].done
        /\ x.fin = obj[o].fin /\ x.cancelled = obj[o].cancelled
    BY <1>types, <2>2 DEF ObjStates
  <2>5. canc' = [canc EXCEPT ![c] = y] /\ obj' = [obj EXCEPT ![o] = x]
    BY <1>0, <1>9, <2>2 DEF CancelKill, SetCanc
  <2> HIDE DEF o, x, y
  <2> QED
    BY <1>5, <2>1, <2>2, <2>3, <2>4, <2>5
<1>10. CASE CancelDone(c)
  <2>1. /\ canc[c].pc \in {"grace", "await"} /\ obj[o].done /\ obj' = obj
        /\ proc' = proc
    BY <1>10 DEF CancelDone
  <2>2. CASE canc' = [canc EXCEPT ![c] = NoCancel]
    BY <1>4, <1>names, <2>1, <2>2
  <2>3. CASE canc' = [canc EXCEPT ![c] = [canc[c] EXCEPT !.pc = "finish"]]
    <3> DEFINE y == [canc[c] EXCEPT !.pc = "finish"]
    <3>1. y \in CancStates /\ y.obj = o
      BY <1>types DEF CancStates
    <3>2. o \in Objs
      BY <1>own, <2>1
    <3>3. canc' = [canc EXCEPT ![c] = y]
      BY <2>3
    <3> HIDE DEF y
    <3> QED
      BY <1>4, <2>1, <3>1, <3>2, <3>3
  <2> QED
    BY <1>10, <2>2, <2>3 DEF CancelDone
<1>11. CASE CancelFinish(c)
  <2>1. canc[c].pc = "finish" /\ proc' = proc
    BY <1>11 DEF CancelFinish, CancAt
  <2>2. o \in Objs /\ obj[o].done
    BY <1>own, <2>1 DEF LifeInv, CancelWaited
  <2>3. CASE canc' = [canc EXCEPT ![c] = NoCancel] /\ obj' = obj
    BY <1>4, <1>names, <2>1, <2>3
  <2>4. CASE /\ obj[o].fin = "free" /\ canc' = canc
             /\ obj' = [obj EXCEPT ![o] = Claimed(o, "cancelled")]
    <3> DEFINE x == Claimed(o, "cancelled")
               y == canc[c]
    <3>1. x \in ObjStates /\ x = [obj[o] EXCEPT !.fin = "append", !.st = "cancelled"]
      BY <1>0, <2>2, ClaimedState DEF Terminal
    <3>2. /\ x \in ObjStates /\ x.pc = obj[o].pc /\ x.run = obj[o].run
          /\ x.kind = obj[o].kind /\ x.done = obj[o].done
          /\ x.fin = "append" /\ x.cancelled = obj[o].cancelled
      BY <1>types, <2>2, <3>1 DEF ObjStates
    <3>3. canc' = [canc EXCEPT ![c] = y] /\ obj' = [obj EXCEPT ![o] = x]
      BY <1>0, <2>4
    <3>4. y \in CancStates /\ y.obj = o
      BY <1>types
    <3> HIDE DEF o, x, y
    <3> QED
      BY <1>5, <2>1, <2>2, <2>4, <3>2, <3>3, <3>4, ZenonT(60)
  <2> QED
    BY <1>11, <2>3, <2>4 DEF CancelFinish
<1> QED
  BY <1>6, <1>7, <1>8, <1>9, <1>10, <1>11, <1>12 DEF CancelRun

-----------------------------------------------------------------------------
\* The periodic scan passes over a run whose process lives: the GUI that has
\* started it tracks it.
LEMMA NothingToAdopt ==
    ASSUME RangeInv, LifeInv, ScanAdopt
    PROVE  FALSE
<1>0. /\ log \in Seq(Events) /\ rec.len \in 0..Len(log)
      /\ active \in Objs \cup {0} /\ 0 \notin Objs
  BY Types DEF RangeInv, RecOK, Objs
<1>1. /\ rec.pc = "next" /\ rec.rest # {} /\ ~Skipped /\ Alive(OldPid)
  BY DEF ScanAdopt, ScanNext, RecAt
<1>2. rec.tick
  BY <1>1 DEF LifeInv, NoneAdopted
<1>3. OldPid # 0 /\ proc[OldPid] = "alive"
  BY <1>1 DEF Alive
<1>4. PICK i \in DOMAIN log :
        /\ log[i].run = Current /\ log[i].kind \in {"started", "session"}
        /\ log[i].pid = OldPid
  BY <1>0, <1>3, PidType DEF OldPid
<1>5. OldPid \in Objs /\ obj[OldPid].run = Current
  <2>1. OldPid \in Objs
    BY <1>0, <1>3, PidType DEF OldPid
  <2> QED
    BY <1>4, <2>1 DEF LifeInv, PidNamed
<1>6. active = OldPid
  BY <1>3, <1>5 DEF LifeInv, Owner, Spawning
<1>7. Tracked(Current)
  BY <1>0, <1>5, <1>6 DEF Tracked
<1> QED
  BY <1>1, <1>2, <1>7 DEF Skipped

LEMMA LifeRecover ==
    ASSUME RangeInv, LifeInv, Recover \/ ScanBegin(TRUE), FirstGui'
    PROVE  LifeInv'
<1>0. rec \in RecStates /\ SideTypes
  BY DEF RangeInv, SideTypes
<1>1. /\ ~StartupScan /\ ~ScanAdopt
  BY NothingToAdopt DEF LifeInv, NoneAdopted, StartupScan, RecAt
<1>2. /\ obj' = obj /\ active' = active /\ entry' = entry /\ proc' = proc
      /\ canc' = canc /\ mon' = mon
  BY <1>1 DEF Recover, ScanBegin, ScanRead, ScanSkip, ScanSync, ScanStale,
     ScanFinish, ScanEdit, ScanEnd
<1>3. rec'.pc # "startup" /\ (rec'.pc # "idle" => rec'.tick)
  <2>0. NoScan \in RecStates /\ NoScan.pc = "idle"
    BY IdleStates DEF NoScan
  <2>1. CASE ScanBegin(TRUE)
    <3>1. rec' = [NoScan EXCEPT !.pc = "read", !.tick = TRUE]
      BY <2>1 DEF ScanBegin
    <3> QED
      BY <2>0, <3>1 DEF RecStates
  <2>2. CASE rec' = NoScan
    BY <2>0, <2>2
  <2>3. ASSUME rec'.tick = rec.tick, rec.pc # "idle", rec'.pc # "startup"
        PROVE  rec'.pc # "startup" /\ (rec'.pc # "idle" => rec'.tick)
    BY <2>3 DEF LifeInv, NoneAdopted
  <2>4. CASE ScanRead
    <3>1. rec.pc = "read"
      BY <2>4 DEF ScanRead, RecAt
    <3>2. \/ rec' = [rec EXCEPT !.pc = "next", !.len = Len(log), !.rest = Logged]
          \/ rec' = NoScan
          \/ rec' = [rec EXCEPT !.pc = "finish", !.run = nextRun, !.st = "lost"]
      BY <2>4 DEF ScanRead
    <3> QED
      BY <1>0, <2>2, <2>3, <3>1, <3>2 DEF RecStates
  <2>5. CASE ScanSkip \/ ScanSync
    <3>1. rec.pc = "next" /\ rec' = [rec EXCEPT !.rest = @ \ {Current}]
      BY <2>5 DEF ScanSkip, ScanSync, Passed, ScanNext, RecAt
    <3> QED
      BY <1>0, <2>3, <3>1 DEF RecStates
  <2>6. CASE ScanStale
    <3>1. rec.pc = "next" /\ rec' = [rec EXCEPT !.pc = "finish", !.run = Current,
                                                !.st = Verdict(Current)]
      BY <2>6 DEF ScanStale, ScanNext, RecAt
    <3> QED
      BY <1>0, <2>3, <3>1 DEF RecStates
  <2>7. CASE ScanFinish
    <3>1. rec.pc = "finish"
          /\ \/ rec' = NoScan
             \/ rec' = [rec EXCEPT !.pc = "edit"]
             \/ rec' = [[rec EXCEPT !.rest = @ \ {Current}] EXCEPT !.pc = "next"]
      BY <2>7 DEF ScanFinish, Passed, RecAt
    <3> QED
      BY <1>0, <2>2, <2>3, <3>1 DEF RecStates
  <2>8. CASE ScanEdit \/ ScanEnd
    BY <2>2, <2>8 DEF ScanEdit, ScanEnd
  <2> QED
    BY <1>1, <2>1, <2>4, <2>5, <2>6, <2>7, <2>8 DEF Recover
<1>4. LogPids
  <2>1. CASE ScanFinish
    <3>1. rec.run \in Runs /\ rec.st \in Terminal
      BY <2>1 DEF ScanFinish, RecAt, RangeInv, RecOK, Terminal
    <3>2. PICK ok \in BOOLEAN : AppendEvent(Event(rec.run, "finished", 0, rec.st), ok)
      BY <2>1 DEF ScanFinish
    <3> DEFINE e == Event(rec.run, "finished", 0, rec.st)
    <3>3. e \in Events /\ e.kind = "finished"
      BY <3>1, EventTypes DEF Event
    <3> QED
      BY <3>2, <3>3, AppendPids
  <2>2. CASE ~ScanFinish
    BY <1>1, <2>2 DEF Recover, ScanBegin, ScanRead, ScanSkip, ScanSync,
       ScanStale, ScanEdit, ScanEnd, diskVars, LogPids
  <2> QED
    BY <2>1, <2>2
<1>5. RunsKept
  BY <1>2 DEF RunsKept
<1>6. PidNamed'
  BY <1>4, <1>5, PidNamedStep DEF LifeInv
<1>7. \A q \in Objs : Owner(q)'
  BY <1>2 DEF LifeInv, Owner
<1>8. CancelWaited' /\ NoneAdopted'
  BY <1>2, <1>3 DEF LifeInv, CancelWaited, NoneAdopted
<1> QED
  BY <1>6, <1>7, <1>8 DEF LifeInv

-----------------------------------------------------------------------------
\* Scans are counted, and deaths before the GUI starts again.
Counted == /\ budget.crashes <= MaxCrashes /\ budget.ticks <= MaxTicks
           /\ ~up => budget.crashes < MaxCrashes

BudgetKept == /\ budget'.crashes = budget.crashes
              /\ budget'.ticks = budget.ticks
              /\ budget.misread => budget'.misread

LEMMA WritesKeep ==
    ASSUME SideTypes
    PROVE  /\ \A e, ok : AppendEvent(e, ok) => BudgetKept
           /\ \A s, ok : EditStatus(s, ok) => BudgetKept
BY DEF AppendEvent, EditStatus, SideTypes, Budgets, BudgetKept

\* The GUI that closes or dies is not the first one again.
LEMMA GuiNext ==
    ASSUME RangeInv, Counted, Next
    PROVE  /\ Counted' /\ (FirstGui' => FirstGui)
           /\ Unscanned' => Unscanned /\ budget'.ticks = budget.ticks
           /\ budget.misread => budget'.misread
<1>0. /\ SideTypes /\ budget \in Budgets /\ up \in BOOLEAN /\ closing \in BOOLEAN
      /\ MaxCrashes \in Nat /\ budget.crashes \in Nat
      /\ MaxTicks \in Nat /\ budget.ticks \in Nat
  BY Types, AgentRunAssumption DEF RangeInv, SideTypes, Budgets
<1>1. ASSUME up' = up, BudgetKept
      PROVE  /\ Counted' /\ (FirstGui' => FirstGui)
             /\ Unscanned' => Unscanned /\ budget'.ticks = budget.ticks
             /\ budget.misread => budget'.misread
  BY <1>1 DEF BudgetKept, Counted, FirstGui, Unscanned
<1>2. ASSUME NEW o \in Objs, Actor(o) \/ WatcherFires(o)
      PROVE  up' = up /\ BudgetKept
  <2>1. up' = up
    BY <1>2 DEF Actor, StartRun, StartAgentRun, ResumeAgent, Claim, Setup,
       Register, AppendQueued, EditQueued, Rollback, ReadQueued, ReadRefused,
       Synthesise, Goroutine, GoCancelled, Spawn, SpawnFail, OnStarted,
       EditRunning, AppendStarted, Outcome, PostRun, CloseDone, AfterQueued,
       RecordTerminal, TerminalAppend, TerminalRead, TerminalEdit,
       TerminalDelete, AppendSession, ProcessExit, NeedsUser, WatcherFires,
       gateVars
  <2>2. ASSUME \/ AppendQueued(o) \/ Synthesise(o) \/ AppendStarted(o)
               \/ AppendSession(o) \/ TerminalAppend(o)
        PROVE  BudgetKept
    BY <1>0, <2>2, WritesKeep
    DEF AppendQueued, Synthesise, AppendStarted, AppendSession, TerminalAppend
  <2>3. ASSUME EditQueued(o) \/ EditRunning(o) \/ TerminalEdit(o)
        PROVE  BudgetKept
    BY <1>0, <2>3, WritesKeep DEF EditQueued, EditRunning, TerminalEdit
  <2>4. ASSUME NeedsUser(o)
        PROVE  BudgetKept
    <3>1. budget' = [budget EXCEPT !.asks = @ - 1]
      BY <2>4 DEF NeedsUser
    <3> QED
      BY <1>0, <3>1 DEF Budgets, BudgetKept
  <2>5. ASSUME \/ StartRun(o) \/ Register(o) \/ Rollback(o) \/ ReadQueued(o)
               \/ ReadRefused(o) \/ GoCancelled(o) \/ Spawn(o) \/ SpawnFail(o)
               \/ OnStarted(o) \/ Outcome(o) \/ PostRun(o) \/ CloseDone(o)
               \/ AfterQueued(o) \/ TerminalDelete(o)
               \/ ProcessExit(o) \/ WatcherFires(o)
        PROVE  BudgetKept
    BY <2>5 DEF StartRun, StartAgentRun, ResumeAgent, Claim,
       Register, Rollback, ReadQueued, ReadRefused, GoCancelled, Spawn,
       SpawnFail, OnStarted, Outcome, PostRun, CloseDone, AfterQueued,
       TerminalDelete, ProcessExit, WatcherFires, diskVars, BudgetKept
  <2>6. ASSUME TerminalRead(o)
        PROVE  BudgetKept
    <3>1. \/ budget' = budget
          \/ budget' = [budget EXCEPT !.faults = @ - 1, !.misread = TRUE]
      BY <2>6 DEF TerminalRead
    <3> QED
      BY <1>0, <3>1 DEF Budgets, BudgetKept
  <2> QED
    BY <1>2, <2>1, <2>2, <2>3, <2>4, <2>5, <2>6
    DEF Actor, Setup, Goroutine, RecordTerminal
<1>3. ASSUME NEW c \in Cancellers \cup Watchers,
             (c \in Cancellers /\ CancelFind(c)) \/ CancelRun(c)
      PROVE  up' = up /\ BudgetKept
  BY <1>3 DEF CancelFind, CancelRun, CancelMark, CancelTerm, CancelKill,
     CancelDone, CancelFinish, gateVars, diskVars, BudgetKept
<1>4. ASSUME Recover
      PROVE  up' = up /\ BudgetKept
  <2>1. up' = up
    BY <1>4 DEF Recover, StartupScan, ScanBegin, ScanRead, ScanSkip, ScanSync,
       ScanAdopt, ScanStale, ScanFinish, ScanEdit, ScanEnd, gateVars
  <2>2. ASSUME ScanSync \/ ScanEdit \/ ScanFinish
        PROVE  BudgetKept
    BY <1>0, <2>2, WritesKeep DEF ScanSync, ScanEdit, ScanFinish
  <2>4. ASSUME StartupScan \/ ScanRead \/ ScanSkip \/ ScanAdopt \/ ScanStale \/ ScanEnd
        PROVE  BudgetKept
    BY <2>4 DEF StartupScan, ScanRead, ScanSkip, ScanAdopt, ScanStale, ScanEnd,
       diskVars, BudgetKept
  <2> QED
    BY <1>4, <2>1, <2>2, <2>4 DEF Recover
<1>5. ASSUME NEW r \in Runs, Monitor(r)
      PROVE  up' = up /\ BudgetKept
  <2>1. up' = up
    BY <1>5 DEF Monitor, MonPoll, MonRelease, MonSync, MonExit, MonClaim,
       MonLose, gateVars
  <2>2. ASSUME MonSync(r) \/ MonLose(r)
        PROVE  BudgetKept
    BY <1>0, <2>2, WritesKeep DEF MonSync, MonLose
  <2>3. ASSUME MonPoll(r) \/ MonRelease(r) \/ MonExit(r) \/ MonClaim(r)
        PROVE  BudgetKept
    BY <2>3 DEF MonPoll, MonRelease, MonExit, MonClaim, diskVars, BudgetKept
  <2> QED
    BY <1>5, <2>1, <2>2, <2>3 DEF Monitor
<1>6. ASSUME HandQueue \/ HandClear
      PROVE  up' = up /\ BudgetKept
  <2>1. up' = up
    BY <1>6 DEF HandQueue, HandClear, gateVars
  <2>2. budget' = budget \/ budget' = [budget EXCEPT !.hand = @ - 1]
    BY <1>6 DEF HandQueue, HandClear
  <2> QED
    BY <1>0, <2>1, <2>2 DEF Budgets, BudgetKept
<1>7. CASE Close
  BY <1>1, <1>7 DEF Close, diskVars, BudgetKept
<1>8. CASE Crash
  <2>1. up' = FALSE /\ budget.crashes > 0 /\ budget' = [budget EXCEPT !.crashes = @ - 1]
    BY <1>8 DEF Crash
  <2>2. /\ budget'.crashes = budget.crashes - 1 /\ budget'.ticks = budget.ticks
        /\ budget'.misread = budget.misread
    BY <1>0, <2>1 DEF Budgets
  <2> QED
    BY <1>0, <2>1, <2>2 DEF Counted, FirstGui, Unscanned
<1>9. CASE Restart
  <2>1. ~up /\ up' = TRUE /\ budget' = budget
    BY <1>9 DEF Restart, diskVars
  <2> QED
    BY <1>0, <2>1 DEF Counted, FirstGui, Unscanned
<1>10. CASE ScanBegin(TRUE)
  <2>1. /\ up' = up /\ budget.ticks > 0
        /\ budget' = [budget EXCEPT !.ticks = @ - 1]
    BY <1>10 DEF ScanBegin, gateVars
  <2>2. /\ budget'.crashes = budget.crashes /\ budget'.ticks = budget.ticks - 1
        /\ budget'.misread = budget.misread
    BY <1>0, <2>1 DEF Budgets
  <2> QED
    BY <1>0, <2>1, <2>2 DEF Counted, FirstGui, Unscanned
<1> QED
  BY <1>1, <1>2, <1>3, <1>4, <1>5, <1>6, <1>7, <1>8, <1>9, <1>10 DEF Next, Actor

LEMMA LifeNext ==
    ASSUME RangeInv, LifeInv, Next, FirstGui'
    PROVE  LifeInv'
<1>1. up
  BY DEF LifeInv, FirstGui
<1>2. CASE \E o \in Objs : Actor(o)
  BY <1>2, LifeActor
<1>3. CASE \/ \E c \in Cancellers : CancelFind(c)
           \/ \E c \in Objs : WatcherFires(c)
           \/ \E c \in Cancellers \cup Watchers : CancelRun(c)
  BY <1>3, LifeCanceller DEF Watchers
<1>4. CASE Recover \/ ScanBegin(TRUE)
  BY <1>4, LifeRecover
<1>5. \A r \in Runs : ~Monitor(r)
  BY DEF LifeInv, NoneAdopted, Monitor, MonPoll, MonRelease, MonSync, MonExit,
     MonClaim, MonLose, MonAt
<1>6. ~Restart
  BY <1>1 DEF Restart
<1>7. ~Crash
  BY DEF Crash, FirstGui
<1>8. CASE HandQueue \/ HandClear \/ Close
  <2>1. /\ obj' = obj /\ active' = active /\ entry' = entry /\ proc' = proc
        /\ canc' = canc /\ mon' = mon /\ rec' = rec /\ log' = log
    BY <1>8 DEF HandQueue, HandClear, Close, sideVars, diskVars
  <2>2. \A q \in Objs : Owner(q)'
    BY <2>1 DEF LifeInv, Owner
  <2>3. CancelWaited' /\ NoneAdopted' 
    BY <2>1 DEF LifeInv, CancelWaited, NoneAdopted
  <2>4. PidNamed'
    BY <2>1 DEF LifeInv, PidNamed
  <2> QED
    BY <2>2, <2>3, <2>4 DEF LifeInv
<1> QED
  BY <1>2, <1>3, <1>4, <1>5, <1>6, <1>7, <1>8 DEF Next, Actor

FirstInv == Counted /\ (FirstGui => LifeInv)

LEMMA FirstAlways == Spec => []FirstInv
<1>1. Init => FirstInv
  <2> SUFFICES ASSUME Init PROVE FirstInv
    OBVIOUS
  <2>0. /\ active = 0 /\ entry = 0 /\ log = <<>> /\ up = TRUE
        /\ obj = [o \in Objs |-> Unused] /\ proc = [o \in Objs |-> "none"]
        /\ canc = [c \in Cancellers \cup Watchers |-> NoCancel]
        /\ mon = [r \in Runs |-> NoMon] /\ rec = NoScan
        /\ budget.crashes = MaxCrashes /\ budget.ticks = MaxTicks
    BY DEF Init
  <2>1. \A o \in Objs : /\ obj[o].pc = "unused" /\ obj[o].fin = "free"
                        /\ obj[o].kind = "direct" /\ ~obj[o].done
                        /\ proc[o] = "none" /\ o # 0
    BY <2>0 DEF Unused, Objs
  <2>2. \A o \in Objs : Owner(o)
    BY <2>0, <2>1 DEF Owner, Early, Spawning, Ending
  <2>3. NoneAdopted /\ CancelWaited
    BY <2>0 DEF NoneAdopted, CancelWaited, NoMon, NoCancel, NoScan, Watchers
  <2>4. PidNamed
    BY <2>0 DEF PidNamed
  <2> QED
    BY <2>0, <2>2, <2>3, <2>4, AgentRunAssumption
    DEF FirstInv, Counted, LifeInv
<1>2. RangeInv /\ FirstInv /\ [Next]_vars => FirstInv'
  <2> SUFFICES ASSUME RangeInv, FirstInv, [Next]_vars PROVE FirstInv'
    OBVIOUS
  <2>1. CASE Next
    BY <2>1, GuiNext, LifeNext DEF FirstInv
  <2>2. CASE UNCHANGED vars
    <3>1. /\ obj' = obj /\ active' = active /\ entry' = entry /\ proc' = proc
          /\ canc' = canc /\ mon' = mon /\ rec' = rec /\ log' = log
          /\ budget' = budget /\ up' = up /\ closing' = closing
      BY <2>2 DEF vars
    <3>2. Counted' /\ (FirstGui' => FirstGui)
      BY <3>1 DEF FirstInv, Counted, FirstGui
    <3>3. ASSUME LifeInv, FirstGui' PROVE LifeInv'
      <4>1. \A q \in Objs : Owner(q)'
        BY <3>1, <3>3 DEF LifeInv, Owner
      <4>2. CancelWaited' /\ NoneAdopted' /\ PidNamed'
        BY <3>1, <3>3 DEF LifeInv, CancelWaited, NoneAdopted, PidNamed
      <4> QED
        BY <3>3, <4>1, <4>2 DEF LifeInv
    <3> QED
      BY <3>2, <3>3 DEF FirstInv
  <2> QED
    BY <2>1, <2>2
<1> QED
  BY <1>1, <1>2, RangeAlways, PTL DEF Spec

\* Until the GUI that the user has started dies, a task never has two live
\* processes, whatever cancels, resumes, queued runs, periodic scans and
\* closing of the board it goes through (Register, recordTerminal's delete,
\* recoverOne's skip of a tracked run).
THEOREM FirstGuiOneProcess == Spec => [](FirstGui => OneProcess)
<1>1. RangeInv /\ FirstInv => (FirstGui => OneProcess)
  <2> SUFFICES ASSUME RangeInv, LifeInv PROVE OneProcess
    BY DEF FirstInv
  <2> DEFINE S == {o \in Objs : proc[o] = "alive"}
  <2>1. S \subseteq {active}
    BY DEF LifeInv, Owner, Spawning
  <2>2. IsFiniteSet({active}) /\ Cardinality({active}) = 1
    BY FS_Singleton
  <2>3. IsFiniteSet(S) /\ Cardinality(S) <= Cardinality({active})
    BY <2>1, <2>2, FS_Subset
  <2> QED
    BY <2>2, <2>3 DEF OneProcess
<1> QED
  BY <1>1, RangeAlways, FirstAlways, PTL

-----------------------------------------------------------------------------
(* What the agent asks, while no periodic scan is at work.                 *)

Opening == Early \cup {"queue", "label", "go", "started", "mark"}
Exits   == {"success", "failed"}

\* While the agent asks, no start is on its way, and the exit status of a
\* process is not about to be written.
Polite(o) == /\ obj[o].pc \notin Opening
             /\ obj[o].fin = "edit" => obj[o].st \notin Exits

\* A question that recordTerminal has not failed to see.
Asking == status = "needs-user" /\ ~budget.misread

AskedInv == /\ rec.pc = "idle"
            /\ Asking => \A o \in Objs : Polite(o)

LEMMA AskingKept ==
    ASSUME RangeInv, LifeInv, \A q \in Objs : Polite(q),
           status = "needs-user", NEW o \in Objs, Actor(o)
    PROVE  /\ budget'.misread \/ Polite(o)'
           /\ status' \notin Exits \cup {"running"}
<1> USE LifeFacts
<1>0. Polite(o)
  OBVIOUS
<1>1. /\ ~StartRun(o) /\ ~AppendQueued(o) /\ ~EditQueued(o) /\ ~ReadQueued(o)
      /\ ~ReadRefused(o) /\ ~Synthesise(o) /\ ~Register(o) /\ ~GoCancelled(o)
      /\ ~Spawn(o) /\ ~SpawnFail(o) /\ ~OnStarted(o) /\ ~EditRunning(o)
  BY <1>0 DEF Polite, Opening, Early, StartRun, StartAgentRun, ResumeAgent,
     Claim, Terminal, AppendQueued, EditQueued, ReadQueued, ReadRefused,
     Synthesise, Register, GoCancelled, Spawn, SpawnFail, OnStarted,
     EditRunning, At
\* The process or the goroutine ends.
<1>2. ASSUME NEW pc \in {"gone", "wait", "post", "close", "after"}, NEW st,
             Becomes(o, pc, obj[o].fin, st), st = obj[o].st \/ obj[o].fin # "edit",
             status' = status
      PROVE  Polite(o)' /\ status' \notin Exits \cup {"running"}
  BY <1>0, <1>2 DEF Becomes, Polite, Opening, Early, Exits
<1>3. ASSUME NEW f, NEW st, Becomes(o, obj[o].pc, f, st),
             f = "edit" => st \notin Exits,
             status' = status \/ status' \notin Exits \cup {"running"}
      PROVE  Polite(o)' /\ status' \notin Exits \cup {"running"}
  BY <1>0, <1>3 DEF Becomes, Polite, Opening, Early, Exits
<1>4. CASE Rollback(o)
  <2>1. obj' = [obj EXCEPT ![o] = [obj[o] EXCEPT !.pc = "gone", !.ctx = TRUE]]
    BY <1>4 DEF Rollback
  <2>2. Becomes(o, "gone", obj[o].fin, obj[o].st)
    BY <2>1 DEF Becomes, ObjStates
  <2> QED
    BY <1>2, <1>4, <2>2 DEF Rollback, diskVars
<1>5. CASE AppendStarted(o)
  <2>1. Becomes(o, "wait", obj[o].fin, obj[o].st)
    BY <1>5, GotoBecomes DEF AppendStarted
  <2> QED
    BY <1>2, <1>5, <2>1 DEF AppendStarted
<1>6. CASE Outcome(o)
  <2>1. PICK st \in Exits :
          obj' = [obj EXCEPT ![o] = [obj[o] EXCEPT !.pc = "post", !.st = st]]
    BY <1>6 DEF Outcome, Exits
  <2>2. Becomes(o, "post", obj[o].fin, st)
    BY <2>1 DEF Becomes, ObjStates
  <2>3. obj[o].fin = "free"
    BY <1>6 DEF Outcome, At, Owner, Ending
  <2> QED
    BY <1>2, <1>6, <2>2, <2>3 DEF Outcome, diskVars
<1>7. ASSUME NEW s, obj' = [obj EXCEPT ![o] = Claimed(o, s)], status' = status
      PROVE  Polite(o)' /\ status' \notin Exits \cup {"running"}
  <2>1. Becomes(o, obj[o].pc, "append", s)
    BY <1>7, ClaimBecomes
  <2> QED
    BY <1>3, <1>7, <2>1
<1>8. CASE PostRun(o)
  <2>1. CASE Goto(o, "close")
    <3>1. Becomes(o, "close", obj[o].fin, obj[o].st)
      BY <2>1, GotoBecomes
    <3> QED
      BY <1>2, <1>8, <3>1 DEF PostRun, diskVars
  <2> QED
    BY <1>7, <1>8, <2>1 DEF PostRun, diskVars
<1>9. CASE CloseDone(o)
  <2> DEFINE pc == IF obj[o].kind = "queued" THEN "after" ELSE "gone"
  <2>1. obj' = [obj EXCEPT ![o] = [obj[o] EXCEPT !.done = TRUE, !.pc = pc]]
    BY <1>9 DEF CloseDone
  <2>2. pc \in {"after", "gone"}
    OBVIOUS
  <2> HIDE DEF pc
  <2>3. Becomes(o, pc, obj[o].fin, obj[o].st)
    BY <2>1 DEF Becomes, ObjStates
  <2> QED
    BY <1>2, <1>9, <2>2, <2>3 DEF CloseDone, diskVars
<1>10. CASE AfterQueued(o)
  <2>1. CASE Goto(o, "gone")
    <3>1. Becomes(o, "gone", obj[o].fin, obj[o].st)
      BY <2>1, GotoBecomes
    <3> QED
      BY <1>2, <1>10, <3>1 DEF AfterQueued, diskVars
  <2> QED
    BY <1>7, <1>10, <2>1 DEF AfterQueued, diskVars
<1>11. CASE TerminalAppend(o)
  <2> DEFINE f == IF obj[o].st \in {"success", "failed"} THEN "read" ELSE "edit"
  <2>1. SetFin(o, f) /\ status' = status
    BY <1>11 DEF TerminalAppend
  <2>2. f = "edit" => obj[o].st \notin Exits
    BY DEF Exits
  <2> HIDE DEF f
  <2>3. Becomes(o, obj[o].pc, f, obj[o].st)
    BY <2>1, FinBecomes
  <2> QED
    BY <1>3, <2>1, <2>2, <2>3
<1>12. CASE TerminalRead(o)
  <2>1. status' = status
    BY <1>12 DEF TerminalRead
  <2>2. CASE SetFin(o, "delete")
    <3>1. Becomes(o, obj[o].pc, "delete", obj[o].st)
      BY <2>2, FinBecomes
    <3> QED
      BY <1>3, <2>1, <3>1
  <2>3. CASE budget' = [budget EXCEPT !.faults = @ - 1, !.misread = TRUE]
    <3>1. budget'.misread
      BY <2>3 DEF RangeInv, SideTypes, Budgets
    <3> QED
      BY <2>1, <3>1 DEF Exits
  <2> QED
    BY <1>12, <2>2, <2>3 DEF TerminalRead
<1>13. CASE TerminalEdit(o)
  <2>1. SetFin(o, "delete") /\ status' \in {status, obj[o].st}
    BY <1>13 DEF TerminalEdit, EditStatus
  <2>2. obj[o].st \notin Exits /\ obj[o].st # "running"
    BY <1>0, <1>13 DEF TerminalEdit, Fin, Polite, ObjStates, Terminal
  <2>3. Becomes(o, obj[o].pc, "delete", obj[o].st)
    BY <2>1, FinBecomes
  <2> QED
    BY <1>3, <2>1, <2>2, <2>3
<1>14. CASE TerminalDelete(o)
  <2>1. SetFin(o, "done") /\ status' = status
    BY <1>14 DEF TerminalDelete, diskVars
  <2>2. Becomes(o, obj[o].pc, "done", obj[o].st)
    BY <2>1, FinBecomes
  <2> QED
    BY <1>3, <2>1, <2>2
<1>15. CASE AppendSession(o) \/ ProcessExit(o) \/ NeedsUser(o)
  <2>1. obj' = obj /\ status' = status
    BY <1>15 DEF AppendSession, ProcessExit, NeedsUser, diskVars
  <2> QED
    BY <1>0, <2>1 DEF Polite, Exits
<1> QED
  BY <1>1, <1>4, <1>5, <1>6, <1>8, <1>9, <1>10, <1>11, <1>12, <1>13, <1>14, <1>15
  DEF Actor, Setup, Goroutine, RecordTerminal

\* An agent can ask only while its run is the one of the task.
LEMMA AskingBegins ==
    ASSUME RangeInv, LifeInv, NEW o \in Objs, NeedsUser(o)
    PROVE  \A q \in Objs : Polite(q)'
<1> USE LifeFacts
<1>1. proc[o] = "alive" /\ obj[o].pc \in {"wait", "gone"} /\ obj' = obj
  BY DEF NeedsUser
<1>2. obj[o].pc = "wait" /\ active = o /\ entry = o /\ obj[o].fin = "free"
  BY <1>1 DEF Owner, Spawning, Ending
<1>3. ASSUME NEW q \in Objs, q # o
      PROVE  obj[q].pc \notin Opening /\ obj[q].fin # "edit"
  BY <1>2, <1>3 DEF Owner, Opening, Early, Spawning
<1> QED
  BY <1>1, <1>2, <1>3 DEF Polite, Opening, Early

LEMMA AskedNext ==
    ASSUME RangeInv, LifeInv, AskedInv, Next, FirstGui', Counted, budget'.ticks = budget.ticks
    PROVE  /\ AskedInv'
           /\ Asking => status' \notin Exits \cup {"running"}
<1>1. rec.pc = "idle"
  BY DEF AskedInv
<1>0. Asking' => ~budget.misread
  BY GuiNext DEF Asking
<1>2. ASSUME NEW o \in Objs, Actor(o)
      PROVE  /\ AskedInv'
             /\ Asking => status' \notin Exits \cup {"running"}
  <2>1. rec' = rec
    BY <1>2 DEF Actor, StartRun, StartAgentRun, ResumeAgent, Claim, Setup,
       Register, AppendQueued, EditQueued, Rollback, ReadQueued, ReadRefused,
       Synthesise, Goroutine, GoCancelled, Spawn, SpawnFail, OnStarted,
       EditRunning, AppendStarted, Outcome, PostRun, CloseDone, AfterQueued,
       RecordTerminal, TerminalAppend, TerminalRead, TerminalEdit,
       TerminalDelete, AppendSession, ProcessExit, NeedsUser, sideVars
  <2>2. CASE Asking
    <3>1. /\ budget'.misread \/ Polite(o)'
          /\ status' \notin Exits \cup {"running"}
      BY <1>2, <2>2, AskingKept DEF AskedInv, Asking
    <3>2. Apart(o)
      BY <1>2, LifeStart, LifeSetup, LifeGoroutine, LifeTerminal, LifeOther
      DEF Actor
    <3>3. Asking' => \A q \in Objs : Polite(q)'
      BY <2>2, <3>1, <3>2 DEF AskedInv, Asking, Apart, Polite
    <3> QED
      BY <1>1, <2>1, <3>1, <3>3 DEF AskedInv
  <2>3. CASE ~Asking /\ NeedsUser(o)
    BY <1>1, <2>1, <2>3, AskingBegins DEF AskedInv
  <2>5. CASE ~Asking /\ status = "needs-user" /\ ~NeedsUser(o)
    BY <1>0, <1>1, <2>1, <2>5 DEF AskedInv, Asking
  <2>4. CASE status # "needs-user" /\ ~NeedsUser(o)
    <3>1. obj[o].st # "needs-user"
      BY RangeFacts DEF ObjStates, Terminal
    <3>2. \A s, ok : EditStatus(s, ok) => status' \in {s, status}
      BY DEF EditStatus
    <3>3. CASE EditQueued(o) \/ EditRunning(o) \/ TerminalEdit(o)
      <4>1. status' \in {"queued", "running", obj[o].st, status}
        BY <3>2, <3>3 DEF EditQueued, EditRunning, TerminalEdit
      <4> QED
        BY <1>1, <2>1, <2>4, <3>1, <4>1 DEF AskedInv, Asking
    <3>4. CASE ~(EditQueued(o) \/ EditRunning(o) \/ TerminalEdit(o))
      <4>1. status' = status
        BY <1>2, <2>4, <3>4 DEF Actor, StartRun, StartAgentRun, ResumeAgent,
           Claim, Setup, Register, AppendQueued, Rollback, ReadQueued,
           ReadRefused, Synthesise, Goroutine, GoCancelled, Spawn, SpawnFail,
           OnStarted, AppendStarted, Outcome, PostRun, CloseDone, AfterQueued,
           RecordTerminal, TerminalAppend, TerminalRead, TerminalDelete,
           AppendSession, ProcessExit, diskVars
      <4> QED
        BY <1>1, <2>1, <2>4, <4>1 DEF AskedInv, Asking
    <3> QED
      BY <3>3, <3>4
  <2> QED
    BY <2>2, <2>3, <2>4, <2>5
\* A canceller claims the record of a run, and leaves the status alone.
<1>3. ASSUME NEW c \in Cancellers \cup Watchers,
             \/ c \in Cancellers /\ CancelFind(c)
             \/ c \in Objs /\ WatcherFires(c)
             \/ CancelRun(c)
      PROVE  /\ AskedInv'
             /\ Asking => status' \notin Exits \cup {"running"}
  <2>1. rec' = rec /\ status' = status
    BY <1>3 DEF CancelFind, WatcherFires, CancelRun, CancelMark, CancelTerm,
       CancelKill, CancelDone, CancelFinish, diskVars
  <2>2. obj \in [Objs -> ObjStates] /\ (canc[c].pc # "idle" => canc[c].obj \in Objs)
    BY Types DEF RangeInv, CancOK
  <2>3. ASSUME NEW d \in Objs, NEW x, obj' = [obj EXCEPT ![d] = x],
               x.pc = obj[d].pc, x.st = obj[d].st,
               x.fin = obj[d].fin \/ x.fin = "append"
        PROVE  \A q \in Objs : Polite(q) => Polite(q)'
    BY <2>2, <2>3 DEF Polite
  <2>4. ASSUME NEW d \in Objs, obj' = [obj EXCEPT ![d] = Claimed(d, "cancelled")]
        PROVE  \A q \in Objs : Polite(q) => Polite(q)'
    <3>1. Becomes(d, obj[d].pc, "append", "cancelled")
      BY <2>2, <2>4, ClaimBecomes
    <3> QED
      BY <3>1 DEF Becomes, Polite
  <2>5. \A q \in Objs : Polite(q) => Polite(q)'
    <3> DEFINE d == canc[c].obj
    <3>1. CASE obj' = obj
      BY <3>1 DEF Polite
    <3>2. CASE obj' = [obj EXCEPT ![d].cancelled = TRUE] /\ d \in Objs
      <4> DEFINE x == [obj[d] EXCEPT !.cancelled = TRUE]
      <4>1. /\ x.pc = obj[d].pc /\ x.st = obj[d].st /\ x.fin = obj[d].fin
            /\ obj' = [obj EXCEPT ![d] = x]
        BY <2>2, <3>2 DEF ObjStates
      <4> HIDE DEF d, x
      <4> QED
        BY <2>3, <3>2, <4>1
    <3>3. CASE obj' = [obj EXCEPT ![d].ctx = TRUE] /\ d \in Objs
      <4> DEFINE x == [obj[d] EXCEPT !.ctx = TRUE]
      <4>1. /\ x.pc = obj[d].pc /\ x.st = obj[d].st /\ x.fin = obj[d].fin
            /\ obj' = [obj EXCEPT ![d] = x]
        BY <2>2, <3>3 DEF ObjStates
      <4> HIDE DEF d, x
      <4> QED
        BY <2>3, <3>3, <4>1
    <3>4. CASE obj' = [obj EXCEPT ![d].done = (obj[d].kind = "stub")] /\ d \in Objs
      <4> DEFINE x == [obj[d] EXCEPT !.done = (obj[d].kind = "stub")]
      <4>1. /\ x.pc = obj[d].pc /\ x.st = obj[d].st /\ x.fin = obj[d].fin
            /\ obj' = [obj EXCEPT ![d] = x]
        BY <2>2, <3>4 DEF ObjStates
      <4> HIDE DEF d, x
      <4> QED
        BY <2>3, <3>4, <4>1
    <3>5. CASE obj' = [obj EXCEPT ![d] = Claimed(d, "cancelled")] /\ d \in Objs
      BY <2>4, <3>5
    <3>6. CancelRun(c) => d \in Objs
      BY <2>2 DEF CancelRun, CancelMark, CancelTerm, CancelKill, CancelDone,
         CancelFinish, CancAt
    <3> QED
      BY <1>3, <3>1, <3>2, <3>3, <3>4, <3>5, <3>6
      DEF CancelFind, WatcherFires, CancelRun, CancelMark, CancelTerm,
          CancelKill, CancelDone, CancelFinish
  <2> QED
    BY <1>0, <1>1, <2>1, <2>5 DEF AskedInv, Asking, Exits
<1>4. ~Recover /\ ~ScanBegin(TRUE)
  <2>1. ~Recover
    BY <1>1 DEF Recover, StartupScan, ScanRead, ScanSkip, ScanSync, ScanAdopt,
       ScanStale, ScanFinish, ScanEdit, ScanEnd, ScanNext, RecAt
  <2>2. ASSUME ScanBegin(TRUE) PROVE FALSE
    <3>1. budget \in Budgets /\ budget.ticks > 0
          /\ budget' = [budget EXCEPT !.ticks = @ - 1]
      BY <2>2 DEF ScanBegin, RangeInv, SideTypes
    <3>2. budget'.ticks = budget.ticks - 1 /\ budget.ticks \in Nat
      BY <3>1 DEF Budgets
    <3> QED
      BY <3>2
  <2> QED
    BY <2>1, <2>2
<1>5. \A r \in Runs : ~Monitor(r)
  BY DEF LifeInv, NoneAdopted, Monitor, MonPoll, MonRelease, MonSync, MonExit,
     MonClaim, MonLose, MonAt
<1>6. ~Restart /\ ~Crash
  BY DEF Restart, Crash, LifeInv, FirstGui
<1>7. CASE HandQueue \/ HandClear \/ Close
  <2>1. /\ obj' = obj /\ rec' = rec
        /\ status' = status \/ status' \in {"none", "queued"}
    BY <1>7 DEF HandQueue, HandClear, Close, sideVars, diskVars
  <2> QED
    BY <1>0, <1>1, <2>1 DEF AskedInv, Asking, Polite, Exits
<1> QED
  BY <1>2, <1>3, <1>4, <1>5, <1>6, <1>7 DEF Next, Actor, Watchers

UnscannedInv == Unscanned => AskedInv

LEMMA UnscannedAlways == Spec => []UnscannedInv
<1>1. Init => UnscannedInv
  BY DEF Init, UnscannedInv, AskedInv, Asking, NoScan
<1>2. RangeInv /\ FirstInv /\ UnscannedInv /\ [Next]_vars => UnscannedInv'
  <2> SUFFICES ASSUME RangeInv, FirstInv, UnscannedInv, [Next]_vars, Unscanned'
               PROVE  AskedInv'
    BY DEF UnscannedInv
  <2>1. CASE Next
    <3>1. Unscanned /\ budget'.ticks = budget.ticks
      BY <2>1, GuiNext DEF FirstInv
    <3> QED
      BY <2>1, <3>1, AskedNext DEF FirstInv, UnscannedInv, Unscanned
  <2>2. CASE UNCHANGED vars
    <3>1. obj' = obj /\ rec' = rec /\ status' = status /\ budget' = budget /\ up' = up
      BY <2>2 DEF vars
    <3> QED
      BY <3>1 DEF UnscannedInv, Unscanned, FirstGui, AskedInv, Asking, Polite
  <2> QED
    BY <2>1, <2>2
<1> QED
  BY <1>1, <1>2, RangeAlways, FirstAlways, PTL DEF Spec

\* Until the GUI dies or a periodic scan begins, what the agent asks is not
\* overwritten by how its process ends, whoever cancels or edits by hand
\* meanwhile, unless recordTerminal has failed to read the task again
\* (recordTerminal, TB-182).
THEOREM UnscannedNeedsUser ==
    Spec => [][Unscanned' /\ Asking =>
                 status' \notin {"success", "failed", "running"}]_vars
<1>1. RangeInv /\ FirstInv /\ UnscannedInv /\ [Next]_vars =>
        [Unscanned' /\ Asking =>
           status' \notin {"success", "failed", "running"}]_vars
  <2> SUFFICES ASSUME RangeInv, FirstInv, UnscannedInv, Next, Unscanned', Asking
               PROVE  status' \notin {"success", "failed", "running"}
    OBVIOUS
  <2>1. Unscanned /\ budget'.ticks = budget.ticks
    BY GuiNext DEF FirstInv
  <2> QED
    BY <2>1, AskedNext DEF FirstInv, UnscannedInv, Unscanned, Exits
<1> QED
  BY <1>1, RangeAlways, FirstAlways, UnscannedAlways, PTL DEF Spec

\* The same of a GUI that never dies and whose periodic scan is switched off,
\* as the property that the model checker is asked.
THEOREM NeedsUserStays ==
    ASSUME MaxCrashes = 0, MaxTicks = 0
    PROVE  Spec => NeedsUserKept
<1>1. RangeInv /\ FirstInv => Unscanned
  <2> SUFFICES ASSUME RangeInv, FirstInv PROVE Unscanned
    OBVIOUS
  <2>1. budget.crashes \in Nat /\ budget.ticks \in Nat /\ up \in BOOLEAN
    BY Types DEF RangeInv, SideTypes, Budgets
  <2> QED
    BY <2>1 DEF FirstInv, Counted, Unscanned, FirstGui
<1>3. Unscanned' /\ [Unscanned' /\ Asking =>
                       status' \notin {"success", "failed", "running"}]_vars
        => [Asking =>
              status' \notin {"success", "failed", "running"}]_vars
  OBVIOUS
<1> QED
  BY <1>1, <1>3, RangeAlways, FirstAlways, UnscannedNeedsUser, PTL
  DEF NeedsUserKept, Asking

-----------------------------------------------------------------------------
(* What the history says, while no periodic scan is at work: AgentRun      *)
(* implements RunHistory.                                                  *)

Bare(r) == Has(r, "queued") /\ ~Has(r, "started") /\ ~Has(r, "finished")

\* What the log has of the run of an object, by where the object is.
Story(o) ==
    /\ obj[o].run < nextRun
    /\ obj[o].pc \in {"claimed", "synth"} => obj[o].kind = "queued"
    /\ \/ obj[o].pc \in {"queue", "synth"}
       \/ obj[o].pc = "register" /\ obj[o].kind = "direct"
       => obj[o].run \notin Logged
    /\ \/ obj[o].pc \in {"label", "go", "started", "mark", "record"}
       \/ obj[o].pc = "register" /\ obj[o].kind # "direct"
       => Bare(obj[o].run)
    /\ active = o /\ obj[o].fin \in {"free", "append"} =>
          ~Has(obj[o].run, "finished")
    /\ obj[o].pc \in Ending \cup {"wait"} \/ obj[o].fin # "free" \/ obj[o].done =>
          Has(obj[o].run, "queued")

RunsCounted == \A r \in Logged : r < nextRun

StoryInv == RunsCounted /\ \A o \in Objs : Story(o)

\* The story of an object that has become x.
StoryAs(o, x) ==
    /\ x.run < nextRun'
    /\ x.pc \in {"claimed", "synth"} => x.kind = "queued"
    /\ \/ x.pc \in {"queue", "synth"}
       \/ x.pc = "register" /\ x.kind = "direct"
       => x.run \notin Logged'
    /\ \/ x.pc \in {"label", "go", "started", "mark", "record"}
       \/ x.pc = "register" /\ x.kind # "direct"
       => Bare(x.run)'
    /\ active' = o /\ x.fin \in {"free", "append"} => ~Has(x.run, "finished")'
    /\ x.pc \in Ending \cup {"wait"} \/ x.fin # "free" \/ x.done =>
          Has(x.run, "queued")'

LEMMA StoryNow ==
    ASSUME NEW o, NEW x, x = obj[o], Story(o)
    PROVE  /\ x.run < nextRun
           /\ x.pc \in {"claimed", "synth"} => x.kind = "queued"
           /\ \/ x.pc \in {"queue", "synth"}
              \/ x.pc = "register" /\ x.kind = "direct"
              => x.run \notin Logged
           /\ \/ x.pc \in {"label", "go", "started", "mark", "record"}
              \/ x.pc = "register" /\ x.kind # "direct"
              => Bare(x.run)
           /\ active = o /\ x.fin \in {"free", "append"} => ~Has(x.run, "finished")
           /\ x.pc \in Ending \cup {"wait"} \/ x.fin # "free" \/ x.done =>
                 Has(x.run, "queued")
BY DEF Story

LEMMA StoryNext ==
    ASSUME NEW o, NEW x, obj'[o] = x, StoryAs(o, x)
    PROVE  Story(o)'
BY DEF Story, StoryAs, Bare, Has

\* The other objects' stories go on when the holder of the entry writes.
LEMMA StoryFrame ==
    ASSUME RangeInv, LifeInv, StoryInv, NEW o \in Objs, Apart(o),
           nextRun <= nextRun', nextRun' \in Nat,
           log' = log \/ entry = o,
           \A r, k : Has(r, k) => Has(r, k)',
           Story(o)'
    PROVE  \A q \in Objs : Story(q)'
<1> SUFFICES ASSUME NEW q \in Objs, q # o PROVE Story(q)'
  OBVIOUS
<1> USE LifeFacts
<1>1. obj'[q] = obj[q] /\ (active' = q <=> active = q)
  BY DEF Apart
<1> PICK x : x = obj[q]
  OBVIOUS
<1>2. Story(q) /\ x \in ObjStates /\ x.run \in Nat /\ nextRun \in Nat
  <2>1. x.run \in Nat
    BY DEF ObjStates, Runs
  <2> QED
    BY <2>1, RangeFacts DEF StoryInv
<1>3. x.run < nextRun'
  BY <1>2, StoryNow
<1>4. CASE log' = log
  <2>1. /\ Logged' = Logged /\ Bare(x.run)' = Bare(x.run)
        /\ \A k : Has(x.run, k)' = Has(x.run, k)
    BY <1>4 DEF Logged, Bare, Has
  <2>2. StoryAs(q, x)
    BY <1>1, <1>2, <1>3, <2>1, StoryNow DEF StoryAs
  <2> QED
    BY <1>1, <2>2, StoryNext
<1>5. CASE entry = o
  <2>1. x.pc \notin Early \cup Spawning /\ active # q
    BY <1>5 DEF Owner
  <2>2. StoryAs(q, x)
    BY <1>1, <1>2, <1>3, <2>1, StoryNow DEF StoryAs, Early, Spawning
  <2> QED
    BY <1>1, <2>2, StoryNext
<1> QED
  BY <1>4, <1>5

\* What one event does to the stage of a run.
LEMMA StageAppended ==
    ASSUME log \in Seq(Events), NEW e \in Events, log' = Append(log, e), NEW r
    PROVE  /\ r # e.run \/ e.kind = "session" => StageOf(r)' = StageOf(r)
           /\ r = e.run /\ e.kind = "finished" => StageOf(r)' = e.st
           /\ r = e.run /\ e.kind = "started" /\ ~Has(r, "finished") =>
                StageOf(r)' = "started"
           /\ /\ r = e.run /\ e.kind = "queued"
              /\ ~Has(r, "finished") /\ ~Has(r, "started")
              => StageOf(r)' = "queued"
<1> PICK n : n = Len(log)
  OBVIOUS
<1>1. /\ n \in Nat /\ DOMAIN log = 1..n /\ Len(log') = n + 1
      /\ log' \in Seq(Events) /\ DOMAIN log' = 1..(n + 1)
      /\ log'[n + 1] = e /\ \A i \in 1..n : log'[i] = log[i]
  BY HasAppended, LogFacts, LenProperties
<1> DEFINE S == {i \in 1..n : log[i].run = r /\ log[i].kind = "finished"}
           T == {i \in 1..(n + 1) : log'[i].run = r /\ log'[i].kind = "finished"}
<1>2. Has(r, "finished") <=> S # {}
  BY <1>1 DEF Has
<1>3. Has(r, "finished")' <=> T # {}
  BY <1>1 DEF Has
<1>4. FinishIn(Len(log), r) = IF S = {} THEN "none" ELSE log[LastOf(S)].st
  BY DEF FinishIn, Seen
<1>5. FinishIn(Len(log), r)' = IF T = {} THEN "none" ELSE log'[LastOf(T)].st
  BY <1>1 DEF FinishIn, Seen
<1>6. \A k : Has(r, k)' <=> Has(r, k) \/ (e.run = r /\ e.kind = k)
  BY HasAppended
<1>7. StageOf(r) = IF Has(r, "finished") THEN FinishIn(Len(log), r)
                   ELSE IF Has(r, "started") THEN "started"
                   ELSE IF Has(r, "queued") THEN "queued" ELSE "absent"
  BY DEF StageOf
<1>8. StageOf(r)' = IF Has(r, "finished")' THEN FinishIn(Len(log), r)'
                    ELSE IF Has(r, "started")' THEN "started"
                    ELSE IF Has(r, "queued")' THEN "queued" ELSE "absent"
  BY DEF StageOf
<1>9. ASSUME r # e.run \/ e.kind = "session" PROVE StageOf(r)' = StageOf(r)
  <2>1. T = S
    BY <1>1, <1>9
  <2>2. S # {} => LastOf(S) \in 1..n
    BY <1>1, LastOfIn
  <2>3. FinishIn(Len(log), r)' = FinishIn(Len(log), r)
    BY <1>1, <1>4, <1>5, <2>1, <2>2
  <2>4. /\ Has(r, "finished")' <=> Has(r, "finished")
        /\ Has(r, "started")' <=> Has(r, "started")
        /\ Has(r, "queued")' <=> Has(r, "queued")
    BY <1>6, <1>9
  <2> QED
    BY <1>7, <1>8, <2>3, <2>4
<1>10. ASSUME r = e.run, e.kind = "finished" PROVE StageOf(r)' = e.st
  <2>1. n + 1 \in T /\ T \in SUBSET (1..(n + 1)) /\ n + 1 \in Nat
    BY <1>1, <1>10
  <2>2. LastOf(T) \in T /\ n + 1 <= LastOf(T)
    BY <2>1, LastOfIn
  <2>3. LastOf(T) = n + 1
    <3> PICK m \in 1..(n + 1) : m = LastOf(T)
      BY <2>1, <2>2
    <3> HIDE DEF T
    <3> QED
      BY <1>1, <2>2
  <2> QED
    BY <1>1, <1>3, <1>5, <1>8, <2>1, <2>3
<1> QED
  BY <1>6, <1>8, <1>9, <1>10

\* The story of an object that has become x, by a log that stays.
StoryHere(o, x) ==
    /\ x.run < nextRun'
    /\ x.pc \in {"claimed", "synth"} => x.kind = "queued"
    /\ \/ x.pc \in {"queue", "synth"}
       \/ x.pc = "register" /\ x.kind = "direct"
       => x.run \notin Logged
    /\ \/ x.pc \in {"label", "go", "started", "mark", "record"}
       \/ x.pc = "register" /\ x.kind # "direct"
       => Bare(x.run)
    /\ active' = o /\ x.fin \in {"free", "append"} => ~Has(x.run, "finished")
    /\ x.pc \in Ending \cup {"wait"} \/ x.fin # "free" \/ x.done =>
          Has(x.run, "queued")

LEMMA QuietStory ==
    ASSUME log' = log, NEW o, NEW x, obj'[o] = x, StoryHere(o, x)
    PROVE  Story(o)'
<1>1. /\ Logged' = Logged /\ Bare(x.run)' = Bare(x.run)
      /\ \A k : Has(x.run, k)' = Has(x.run, k)
  BY DEF Logged, Bare, Has
<1>2. StoryAs(o, x)
  BY <1>1 DEF StoryAs, StoryHere
<1> QED
  BY <1>2, StoryNext

\* An event that takes a run one stage further, or a session.
Told(e) ==
    \/ e.kind = "session"
    \/ e.kind = "queued" /\ e.run \notin Logged
    \/ e.kind = "started" /\ Bare(e.run)
    \/ e.kind = "finished" /\ Has(e.run, "queued") /\ ~Has(e.run, "finished")

LogTold(o) ==
    \/ log' = log
    \/ \E e \in Events : log' = Append(log, e) /\ e.run = obj[o].run /\ Told(e)
                         /\ entry = o

StoryGoesOn(o) ==
    /\ Story(o)' /\ nextRun <= nextRun' /\ nextRun' \in Nat
    /\ LogTold(o)

LEMMA StoryFacts ==
    ASSUME RangeInv, LifeInv, StoryInv, NEW o \in Objs
    PROVE  /\ Story(o) /\ nextRun \in Nat /\ nextRun >= 1
           /\ obj[o].run \in Nat /\ log \in Seq(Events)
           /\ obj[o].kind \in {"direct", "queued"}
           /\ nextRun \notin Logged
           /\ \A r : r \notin Logged => \A k : ~Has(r, k)
           /\ \A r : Has(r, "queued") => r \in Logged
<1>1. /\ obj[o] \in ObjStates /\ nextRun \in 1..(MaxRuns + 1) /\ MaxRuns \in Nat
      /\ log \in Seq(Events) /\ Owner(o)
  BY RangeFacts DEF LifeInv
<1>2. /\ nextRun \in Nat /\ nextRun >= 1 /\ obj[o].run \in Nat
      /\ obj[o].kind \in {"direct", "queued"}
  BY <1>1 DEF ObjStates, Runs, Owner
<1>3. nextRun \notin Logged
  BY <1>2 DEF StoryInv, RunsCounted
<1>4. \A r : r \notin Logged => \A k : ~Has(r, k)
  BY DEF Logged, Has
<1> QED
  BY <1>1, <1>2, <1>3, <1>4 DEF StoryInv

LEMMA StoryStart ==
    ASSUME RangeInv, LifeInv, StoryInv, NEW o \in Objs, StartRun(o)
    PROVE  StoryGoesOn(o)
<1> USE LifeFacts, StoryFacts
<1>0. log' = log /\ active' = active /\ active = 0
  BY DEF StartRun, StartAgentRun, ResumeAgent, Claim, diskVars
<1>1. ASSUME NEW x, obj' = [obj EXCEPT ![o] = x], x.fin = "free", ~x.done,
             \/ x.pc = "register" /\ x.run = nextRun /\ x.kind = "direct"
                /\ nextRun' = nextRun + 1
             \/ x.pc = "claimed" /\ x.run = 0 /\ x.kind = "queued"
                /\ nextRun' = nextRun
      PROVE  StoryGoesOn(o)
  <2>1. obj'[o] = x
    BY <1>1
  <2>2. StoryHere(o, x)
    BY <1>0, <1>1 DEF StoryHere, Ending
  <2> QED
    BY <1>0, <1>1, <2>1, <2>2, QuietStory DEF StoryGoesOn, LogTold
<1>2. ASSUME NEW m \in StartModes, StartAgentRun(o, m) PROVE StoryGoesOn(o)
  <2> DEFINE x == [Unused EXCEPT !.pc = "register", !.run = nextRun, !.mode = m]
  <2>1. obj' = [obj EXCEPT ![o] = x] /\ nextRun' = nextRun + 1
    BY <1>2 DEF StartAgentRun
  <2>2. /\ x.pc = "register" /\ x.fin = "free" /\ x.kind = "direct" /\ ~x.done
        /\ x.run = nextRun
    BY DEF Unused
  <2> HIDE DEF x
  <2> QED
    BY <1>1, <2>1, <2>2
<1>3. CASE ResumeAgent(o)
  <2> DEFINE x == [Unused EXCEPT !.pc = "register", !.run = nextRun,
                                 !.mode = ResumeMode]
  <2>1. obj' = [obj EXCEPT ![o] = x] /\ nextRun' = nextRun + 1
    BY <1>3 DEF ResumeAgent
  <2>2. /\ x.pc = "register" /\ x.fin = "free" /\ x.kind = "direct" /\ ~x.done
        /\ x.run = nextRun
    BY DEF Unused
  <2> HIDE DEF x
  <2> QED
    BY <1>1, <2>1, <2>2
<1>4. CASE Claim(o)
  <2> DEFINE x == [Unused EXCEPT !.pc = "claimed", !.kind = "queued"]
  <2>1. obj' = [obj EXCEPT ![o] = x] /\ nextRun' = nextRun
    BY <1>4 DEF Claim, gateVars
  <2>2. /\ x.pc = "claimed" /\ x.fin = "free" /\ x.kind = "queued" /\ ~x.done
        /\ x.run = 0
    BY DEF Unused
  <2> HIDE DEF x
  <2> QED
    BY <1>1, <2>1, <2>2
<1> QED
  BY <1>2, <1>3, <1>4 DEF StartRun

\* A step of o that writes nothing, with what it does to o.
LEMMA StoryQuiet ==
    ASSUME RangeInv, LifeInv, StoryInv, NEW o \in Objs, log' = log,
           nextRun' = nextRun, NEW pc, NEW fin, NEW st, Becomes(o, pc, fin, st),
           pc \in {"claimed", "synth"} => obj[o].kind = "queued",
           \/ pc \in {"queue", "synth"}
           \/ pc = "register" /\ obj[o].kind = "direct"
           => obj[o].run \notin Logged,
           \/ pc \in {"label", "go", "started", "mark", "record"}
           \/ pc = "register" /\ obj[o].kind # "direct"
           => Bare(obj[o].run),
           active' = o /\ fin \in {"free", "append"} => ~Has(obj[o].run, "finished"),
           pc \in Ending \cup {"wait"} \/ fin # "free" \/ obj'[o].done =>
              Has(obj[o].run, "queued")
    PROVE  StoryGoesOn(o)
<1> PICK x : x = obj'[o]
  OBVIOUS
<1>1. /\ x.pc = pc /\ x.fin = fin /\ x.run = obj[o].run /\ x.kind = obj[o].kind
  BY DEF Becomes
<1>2. Story(o) /\ nextRun \in Nat
  BY StoryFacts
<1>3. StoryHere(o, x)
  BY <1>1, <1>2 DEF Story, StoryHere
<1> QED
  BY <1>2, <1>3, QuietStory DEF StoryGoesOn, LogTold

\* A step of o that appends an event of its run.
LEMMA StoryWritten ==
    ASSUME RangeInv, LifeInv, StoryInv, NEW o \in Objs, NEW e \in Events,
           log' = Append(log, e), e.run = obj[o].run, Told(e), entry = o,
           nextRun' = nextRun, active' = active,
           NEW pc, NEW fin, NEW st, Becomes(o, pc, fin, st),
           obj'[o].done => obj[o].done,
           \/ pc \in {"gone", "wait"} \cup Ending
           \/ e.kind = "queued"
              /\ (pc = "label" \/ (pc = "register" /\ obj[o].kind = "queued")),
           fin # "free" \/ pc \in Ending \cup {"wait"} =>
              Has(obj[o].run, "queued"),
           active = o /\ fin \in {"free", "append"} =>
              e.kind # "finished" /\ ~Has(obj[o].run, "finished")
    PROVE  StoryGoesOn(o)
<1> USE StoryFacts
<1> PICK x : x = obj'[o]
  OBVIOUS
<1>1. /\ x.pc = pc /\ x.fin = fin /\ x.run = obj[o].run /\ x.kind = obj[o].kind
      /\ x.run = e.run /\ (x.done => obj[o].done)
  BY DEF Becomes
<1>2. \A k : Has(x.run, k)' <=> Has(x.run, k) \/ e.kind = k
  BY <1>1, HasAppended
<1>3. x.run < nextRun'
  BY <1>1 DEF Story
<1>4. x.fin # "free" \/ x.pc \in Ending \cup {"wait"} \/ x.done =>
        Has(x.run, "queued")'
  BY <1>1, <1>2 DEF Story
<1>5. x.pc \in {"label", "register"} => Bare(x.run)'
  <2> SUFFICES ASSUME x.pc \in {"label", "register"} PROVE Bare(x.run)'
    OBVIOUS
  <2>1. e.kind = "queued" /\ x.run \notin Logged
    BY <1>1 DEF Told, Ending
  <2>2. /\ ~Has(x.run, "started") /\ ~Has(x.run, "finished")
    BY <2>1
  <2>3. Has(x.run, "queued")' /\ ~Has(x.run, "started")' /\ ~Has(x.run, "finished")'
    BY <1>2, <2>1, <2>2
  <2> QED
    BY <2>3 DEF Bare
<1>6. StoryAs(o, x)
  BY <1>1, <1>2, <1>3, <1>4, <1>5 DEF StoryAs, Ending
<1>7. Story(o)'
  BY <1>6, StoryNext
<1> QED
  BY <1>7 DEF StoryGoesOn, LogTold

LEMMA StorySetup ==
    ASSUME RangeInv, LifeInv, StoryInv, NEW o \in Objs, Setup(o)
    PROVE  StoryGoesOn(o)
<1> USE LifeFacts, StoryFacts
<1>0. obj[o].pc \in Early \cup {"queue", "label", "undo"}
  BY DEF Setup, Register, AppendQueued, EditQueued, Rollback, ReadQueued,
         ReadRefused, Synthesise, At, Early
<1>1. /\ obj[o].fin = "free" /\ ~obj[o].done /\ entry = o
      /\ obj[o].pc \in Early => active = 0
  <2>1. obj[o].pc \in Early => active = 0
    BY DEF LifeInv, Owner
  <2> QED
    BY <1>0, <2>1 DEF Owner, Early, Spawning, Ending
<1>2. CASE Register(o)
  <2> DEFINE pc == IF obj[o].kind = "direct" THEN "queue" ELSE "go"
  <2>1. /\ obj[o].pc = "register" /\ active = 0 /\ log' = log /\ nextRun' = nextRun
    BY <1>1, <1>2 DEF Register, At, Early, diskVars, gateVars
  <2>2. Goto(o, pc)
    BY <1>2, <2>1 DEF Register
  <2>3. Becomes(o, pc, "free", obj[o].st) /\ FlagsKept(o)
    BY <1>1, <2>2, GotoBecomes
  <2>4. /\ pc \in {"queue", "go"}
        /\ pc = "queue" => obj[o].run \notin Logged
        /\ pc = "go" => Bare(obj[o].run)
        /\ ~obj'[o].done
    BY <1>1, <2>1, <2>3 DEF Story, FlagsKept
  <2>5. ~Has(obj[o].run, "finished")
    BY <2>4 DEF Bare
  <2> HIDE DEF pc
  <2> QED
    BY <2>1, <2>3, <2>4, <2>5, StoryQuiet DEF Ending
<1>3. CASE AppendQueued(o)
  <2>1. PICK ok \in BOOLEAN :
          /\ AppendEvent(Event(obj[o].run, "queued", 0, obj[o].mode), ok)
          /\ Goto(o, IF ok THEN "label" ELSE "undo")
    BY <1>3 DEF AppendQueued
  <2>2. /\ obj[o].pc = "queue" /\ active' = active /\ nextRun' = nextRun
        /\ obj[o].run \notin Logged /\ obj[o].run \in Runs
        /\ obj[o].mode \in Modes
    BY <1>3, RangeFacts DEF AppendQueued, At, gateVars, Story, Named, ObjStates
  <2> DEFINE e == Event(obj[o].run, "queued", 0, obj[o].mode)
  <2>3. e \in Events /\ e.kind = "queued" /\ e.run = obj[o].run
    BY <2>2, EventTypes DEF Event
  <2>4. ~Has(obj[o].run, "finished")
    BY <2>2
  <2>5. CASE ok
    <3>1. Becomes(o, "label", "free", obj[o].st) /\ FlagsKept(o) /\ log' = Append(log, e)
      BY <1>1, <2>1, <2>5, GotoBecomes DEF AppendEvent
    <3> HIDE DEF e
    <3> QED
      BY <1>1, <2>2, <2>3, <2>4, <3>1, StoryWritten DEF Told, FlagsKept, Ending
  <2>6. CASE ~ok
    <3>1. Becomes(o, "undo", "free", obj[o].st) /\ FlagsKept(o) /\ log' = log
      BY <1>1, <2>1, <2>6, GotoBecomes DEF AppendEvent
    <3> QED
      BY <1>1, <2>2, <2>4, <3>1, StoryQuiet DEF FlagsKept, Ending
  <2> QED
    BY <2>5, <2>6
<1>4. CASE EditQueued(o)
  <2>1. PICK pc \in {"go", "undo"} : Goto(o, pc)
    BY <1>4 DEF EditQueued
  <2>2. Becomes(o, pc, "free", obj[o].st) /\ FlagsKept(o)
    BY <1>1, <2>1, GotoBecomes
  <2>3. obj[o].pc = "label" /\ log' = log /\ nextRun' = nextRun
    BY <1>4 DEF EditQueued, At, gateVars
  <2>4. Bare(obj[o].run) /\ ~Has(obj[o].run, "finished")
    BY <2>3 DEF Story, Bare
  <2> QED
    BY <1>1, <2>2, <2>3, <2>4, StoryQuiet DEF FlagsKept, Ending
<1>5. CASE Rollback(o)
  <2>1. obj' = [obj EXCEPT ![o] = [obj[o] EXCEPT !.pc = "gone", !.ctx = TRUE]]
        /\ active' = 0 /\ log' = log /\ nextRun' = nextRun
    BY <1>5 DEF Rollback, diskVars, gateVars
  <2>2. Becomes(o, "gone", "free", obj[o].st) /\ FlagsKept(o)
    BY <1>1, <2>1 DEF Becomes, FlagsKept, ObjStates
  <2> QED
    BY <1>1, <2>1, <2>2, StoryQuiet DEF FlagsKept, Ending
<1>6. CASE ReadQueued(o)
  <2>1. /\ obj[o].pc = "claimed" /\ obj[o].kind = "queued" /\ log' = log
        /\ active' = active /\ active = 0
    BY <1>6 DEF ReadQueued, At, diskVars, Story
  <2>2. CASE OpenQueued # {}
    <3> PICK r : r = LatestOf(OpenQueued)
      OBVIOUS
    <3> DEFINE x == [obj[o] EXCEPT !.pc = "register", !.run = r, !.mode = ModeOf(r)]
    <3>1. obj' = [obj EXCEPT ![o] = x] /\ nextRun' = nextRun
      BY <1>6, <2>2 DEF ReadQueued
    <3>2. r \in OpenQueued /\ r \in Logged
      BY <2>2, LatestIn DEF OpenQueued
    <3>3. r < nextRun /\ Bare(r)
      BY <3>2 DEF OpenQueued, Bare, StoryInv, RunsCounted
    <3>4. /\ x.pc = "register" /\ x.run = r /\ x.kind = "queued"
          /\ x.fin = "free" /\ x.done = obj[o].done
      BY <1>1, <2>1 DEF ObjStates
    <3> HIDE DEF x
    <3>5. StoryHere(o, x) /\ obj'[o] = x
      BY <1>1, <2>1, <3>1, <3>3, <3>4 DEF StoryHere, Ending
    <3> QED
      BY <2>1, <3>1, <3>5, QuietStory DEF StoryGoesOn, LogTold
  <2>3. CASE OpenQueued = {}
    <3> DEFINE x == [obj[o] EXCEPT !.pc = "synth", !.run = nextRun]
    <3>1. obj' = [obj EXCEPT ![o] = x] /\ nextRun' = nextRun + 1
      BY <1>6, <2>3 DEF ReadQueued
    <3>2. /\ x.pc = "synth" /\ x.run = nextRun /\ x.kind = "queued"
          /\ x.fin = "free" /\ x.done = obj[o].done
      BY <1>1, <2>1 DEF ObjStates
    <3> HIDE DEF x
    <3>3. StoryHere(o, x) /\ obj'[o] = x
      BY <1>1, <2>1, <3>1, <3>2 DEF StoryHere, Ending
    <3> QED
      BY <2>1, <3>1, <3>3, QuietStory DEF StoryGoesOn, LogTold
  <2> QED
    BY <2>2, <2>3
<1>7. CASE ReadRefused(o)
  <2>1. /\ Goto(o, "gone") /\ log' = log /\ nextRun' = nextRun
        /\ obj[o].pc = "claimed" /\ active' = active
    BY <1>7 DEF ReadRefused, diskVars, gateVars, At
  <2>2. Becomes(o, "gone", "free", obj[o].st) /\ FlagsKept(o)
    BY <1>1, <2>1, GotoBecomes
  <2> QED
    BY <1>1, <2>1, <2>2, StoryQuiet DEF FlagsKept, Ending, Early
<1>8. CASE Synthesise(o)
  <2>1. PICK ok \in BOOLEAN :
          /\ AppendEvent(Event(obj[o].run, "queued", 0, "work"), ok)
          /\ Goto(o, IF ok THEN "register" ELSE "gone")
    BY <1>8 DEF Synthesise
  <2>2. /\ obj[o].pc = "synth" /\ active' = active /\ nextRun' = nextRun
        /\ obj[o].run \notin Logged /\ obj[o].run \in Runs
        /\ obj[o].kind = "queued" /\ active = 0
    BY <1>1, <1>8, RangeFacts DEF Synthesise, At, gateVars, Story, Named, Early
  <2> DEFINE e == Event(obj[o].run, "queued", 0, "work")
  <2>3. e \in Events /\ e.kind = "queued" /\ e.run = obj[o].run
    BY <2>2, EventTypes DEF Event, Modes
  <2>4. CASE ok
    <3>1. Becomes(o, "register", "free", obj[o].st) /\ FlagsKept(o)
          /\ log' = Append(log, e)
      BY <1>1, <2>1, <2>4, GotoBecomes DEF AppendEvent
    <3> HIDE DEF e
    <3> QED
      BY <1>1, <2>2, <2>3, <3>1, StoryWritten DEF Told, FlagsKept, Ending
  <2>5. CASE ~ok
    <3>1. Becomes(o, "gone", "free", obj[o].st) /\ FlagsKept(o) /\ log' = log
      BY <1>1, <2>1, <2>5, GotoBecomes DEF AppendEvent
    <3> QED
      BY <1>1, <2>2, <3>1, StoryQuiet DEF FlagsKept, Ending
  <2> QED
    BY <2>4, <2>5
<1> QED
  BY <1>2, <1>3, <1>4, <1>5, <1>6, <1>7, <1>8 DEF Setup

LEMMA StoryGoroutine ==
    ASSUME RangeInv, LifeInv, StoryInv, NEW o \in Objs, Goroutine(o)
    PROVE  StoryGoesOn(o)
<1> USE LifeFacts, StoryFacts
<1>1. /\ nextRun' = nextRun
      /\ obj[o].pc \in {"go", "started", "mark", "record", "wait"} \cup Ending
  BY DEF Goroutine, GoCancelled, Spawn, SpawnFail, OnStarted, EditRunning,
     AppendStarted, Outcome, PostRun, CloseDone, AfterQueued, At, Ending, gateVars
<1>2. Has(obj[o].run, "queued")
  BY <1>1 DEF Story, Bare
<1>3. active = o /\ obj[o].fin \in {"free", "append"} => ~Has(obj[o].run, "finished")
  BY DEF Story
<1>names. /\ Ending = {"post", "close", "after"}
          /\ Spawning = {"queue", "label", "undo", "go", "started", "mark",
                         "record", "wait"}
  BY DEF Ending, Spawning
\* A step that writes nothing; only Bare may be wanted.
<1>4. ASSUME NEW pc \in {"gone", "wait", "started", "mark", "record"} \cup Ending,
             NEW fin, NEW st, Becomes(o, pc, fin, st), log' = log,
             active' = active,
             pc \in {"started", "mark", "record"} => Bare(obj[o].run),
             fin = obj[o].fin \/ (fin = "append" /\ obj[o].fin = "free")
      PROVE  StoryGoesOn(o)
  BY <1>1, <1>2, <1>3, <1>4, <1>names, StoryQuiet
<1>5. CASE GoCancelled(o)
  <2>1. Becomes(o, "close", obj[o].fin, obj[o].st)
    BY <1>5, GotoBecomes DEF GoCancelled
  <2> QED
    BY <1>4, <1>5, <1>names, <2>1 DEF GoCancelled, diskVars
<1>6. CASE Spawn(o)
  <2>1. Becomes(o, "started", obj[o].fin, obj[o].st)
    BY <1>6, GotoBecomes DEF Spawn
  <2>2. Bare(obj[o].run)
    BY <1>6 DEF Spawn, At, Story
  <2> QED
    BY <1>4, <1>6, <2>1, <2>2 DEF Spawn, diskVars
<1>7. CASE SpawnFail(o)
  <2>1. obj' = [obj EXCEPT ![o] = [obj[o] EXCEPT !.pc = "post", !.st = "failed"]]
    BY <1>7 DEF SpawnFail
  <2>2. Becomes(o, "post", obj[o].fin, "failed")
    BY <2>1 DEF Becomes, ObjStates
  <2> QED
    BY <1>4, <1>7, <1>names, <2>2 DEF SpawnFail, diskVars
<1>8. CASE OnStarted(o)
  <2> DEFINE pc == IF obj[o].cancelled THEN "wait" ELSE "mark"
  <2>1. obj' = [obj EXCEPT ![o] = [obj[o] EXCEPT !.pid = o, !.pc = pc]]
    BY <1>8 DEF OnStarted
  <2>2. pc \in {"wait", "mark"}
    OBVIOUS
  <2> HIDE DEF pc
  <2>3. Becomes(o, pc, obj[o].fin, obj[o].st)
    BY <2>1 DEF Becomes, ObjStates
  <2>4. Bare(obj[o].run)
    BY <1>8 DEF OnStarted, At, Story
  <2> QED
    BY <1>4, <1>8, <2>2, <2>3, <2>4 DEF OnStarted, diskVars
<1>9. CASE EditRunning(o)
  <2>1. Becomes(o, "record", obj[o].fin, obj[o].st)
    BY <1>9, GotoBecomes DEF EditRunning
  <2>2. Bare(obj[o].run)
    BY <1>9 DEF EditRunning, At, Story
  <2> QED
    BY <1>4, <1>9, <2>1, <2>2 DEF EditRunning
<1>10. CASE AppendStarted(o)
  <2>1. PICK ok \in BOOLEAN : AppendEvent(Event(obj[o].run, "started", o, "none"), ok)
    BY <1>10 DEF AppendStarted
  <2>2. Becomes(o, "wait", obj[o].fin, obj[o].st) /\ FlagsKept(o)
    BY <1>10, GotoBecomes DEF AppendStarted
  <2>3. /\ Bare(obj[o].run) /\ active' = active /\ active = o /\ entry = o
        /\ obj[o].fin = "free" /\ obj[o].run \in Runs /\ obj[o].pc = "record"
    BY <1>10, <1>names, RangeFacts DEF AppendStarted, At, Story, Owner, Named
  <2> DEFINE e == Event(obj[o].run, "started", o, "none")
  <2>4. e \in Events /\ e.kind = "started" /\ e.run = obj[o].run
    BY <2>3, EventTypes DEF Event
  <2>5. CASE ok
    <3>1. log' = Append(log, e)
      BY <2>1, <2>5 DEF AppendEvent
    <3> HIDE DEF e
    <3> QED
      BY <1>1, <1>2, <1>3, <2>2, <2>3, <2>4, <3>1, StoryWritten
      DEF Told, FlagsKept
  <2>6. CASE ~ok
    <3>1. log' = log
      BY <2>1, <2>6 DEF AppendEvent
    <3> QED
      BY <1>4, <2>2, <2>3, <3>1
  <2> QED
    BY <2>5, <2>6
<1>11. CASE Outcome(o)
  <2>1. PICK st \in {"success", "failed"} :
          obj' = [obj EXCEPT ![o] = [obj[o] EXCEPT !.pc = "post", !.st = st]]
    BY <1>11 DEF Outcome
  <2>2. Becomes(o, "post", obj[o].fin, st)
    BY <2>1 DEF Becomes, ObjStates
  <2> QED
    BY <1>4, <1>11, <1>names, <2>2 DEF Outcome, diskVars
<1>12. ASSUME NEW s, obj' = [obj EXCEPT ![o] = Claimed(o, s)], log' = log,
              active' = active, obj[o].fin = "free", obj[o].pc \in Ending
       PROVE  StoryGoesOn(o)
  <2> PICK pc \in Ending : pc = obj[o].pc
    BY <1>12
  <2>1. Becomes(o, pc, "append", s)
    BY <1>12, ClaimBecomes
  <2> QED
    BY <1>4, <1>12, <1>names, <2>1
<1>13. CASE PostRun(o)
  <2>1. CASE Goto(o, "close")
    <3>1. Becomes(o, "close", obj[o].fin, obj[o].st)
      BY <2>1, GotoBecomes
    <3> QED
      BY <1>4, <1>13, <1>names, <3>1 DEF PostRun, diskVars
  <2> QED
    BY <1>12, <1>13, <1>names, <2>1 DEF PostRun, At, diskVars
<1>14. CASE CloseDone(o)
  <2> DEFINE pc == IF obj[o].kind = "queued" THEN "after" ELSE "gone"
  <2>1. obj' = [obj EXCEPT ![o] = [obj[o] EXCEPT !.done = TRUE, !.pc = pc]]
    BY <1>14 DEF CloseDone
  <2>2. pc \in {"after", "gone"}
    OBVIOUS
  <2> HIDE DEF pc
  <2>3. Becomes(o, pc, obj[o].fin, obj[o].st)
    BY <2>1 DEF Becomes, ObjStates
  <2> QED
    BY <1>4, <1>14, <1>names, <2>2, <2>3 DEF CloseDone, diskVars
<1>15. CASE AfterQueued(o)
  <2>1. CASE Goto(o, "gone")
    <3>1. Becomes(o, "gone", obj[o].fin, obj[o].st)
      BY <2>1, GotoBecomes
    <3> QED
      BY <1>4, <1>15, <3>1 DEF AfterQueued, diskVars
  <2> QED
    BY <1>12, <1>15, <1>names, <2>1 DEF AfterQueued, At, diskVars
<1> QED
  BY <1>5, <1>6, <1>7, <1>8, <1>9, <1>10, <1>11, <1>13, <1>14, <1>15
  DEF Goroutine

LEMMA StoryTerminal ==
    ASSUME RangeInv, LifeInv, StoryInv, NEW o \in Objs, RecordTerminal(o)
    PROVE  StoryGoesOn(o)
<1> USE LifeFacts, StoryFacts
<1>1. /\ nextRun' = nextRun /\ active' \in {active, 0}
      /\ obj[o].fin \in {"append", "read", "edit", "delete"}
  BY DEF RecordTerminal, TerminalAppend, TerminalRead, TerminalEdit,
     TerminalDelete, Fin, gateVars
<1>2. /\ Has(obj[o].run, "queued") /\ active = o /\ entry = o
      /\ obj[o].pc \in {"gone"} \cup Ending
  BY <1>1 DEF Story, Owner
<1>names. /\ Ending = {"post", "close", "after"}
  BY DEF Ending
<1>3. ASSUME NEW fin \in {"read", "edit", "delete", "done"}, NEW st,
             Becomes(o, obj[o].pc, fin, st), log' = log
      PROVE  StoryGoesOn(o)
  BY <1>1, <1>2, <1>3, <1>names, StoryQuiet
<1>4. CASE TerminalAppend(o)
  <2> DEFINE f == IF obj[o].st \in {"success", "failed"} THEN "read" ELSE "edit"
  <2>1. SetFin(o, f) /\ active' = active
    BY <1>4 DEF TerminalAppend
  <2>2. f \in {"read", "edit"}
    OBVIOUS
  <2> HIDE DEF f
  <2>3. Becomes(o, obj[o].pc, f, obj[o].st) /\ FlagsKept(o)
    BY <2>1, FinBecomes
  <2>4. PICK ok \in BOOLEAN :
          AppendEvent(Event(obj[o].run, "finished", 0, obj[o].st), ok)
    BY <1>4 DEF TerminalAppend
  <2>5. /\ ~Has(obj[o].run, "finished") /\ obj[o].run \in Runs
        /\ obj[o].st \in Terminal
    BY <1>2, <1>4, RangeFacts DEF TerminalAppend, Fin, Story, Named
  <2> DEFINE e == Event(obj[o].run, "finished", 0, obj[o].st)
  <2>6. e \in Events /\ e.kind = "finished" /\ e.run = obj[o].run
    BY <2>5, EventTypes DEF Event
  <2>7. CASE ok
    <3>1. log' = Append(log, e)
      BY <2>4, <2>7 DEF AppendEvent
    <3> HIDE DEF e
    <3> QED
      BY <1>1, <1>2, <2>1, <2>2, <2>3, <2>5, <2>6, <3>1, StoryWritten
      DEF Told, FlagsKept
  <2>8. CASE ~ok
    <3>1. log' = log
      BY <2>4, <2>8 DEF AppendEvent
    <3> QED
      BY <1>3, <2>2, <2>3, <3>1
  <2> QED
    BY <2>7, <2>8
<1>5. CASE TerminalRead(o)
  <2>1. log' = log
    BY <1>5 DEF TerminalRead, diskVars
  <2>2. CASE \E f \in {"delete", "edit"} : SetFin(o, f)
    <3>1. PICK f \in {"delete", "edit"} : SetFin(o, f)
      BY <2>2
    <3>2. Becomes(o, obj[o].pc, f, obj[o].st)
      BY <3>1, FinBecomes
    <3> QED
      BY <1>3, <2>1, <3>2
  <2>3. CASE obj' = [obj EXCEPT ![o] = [obj[o] EXCEPT !.fin = "edit", !.st = "none"]]
    <3>1. Becomes(o, obj[o].pc, "edit", "none")
      BY <2>3 DEF Becomes, ObjStates
    <3> QED
      BY <1>3, <2>1, <3>1
  <2> QED
    BY <1>5, <2>2, <2>3 DEF TerminalRead
<1>6. CASE TerminalEdit(o)
  <2>1. Becomes(o, obj[o].pc, "delete", obj[o].st)
    BY <1>6, FinBecomes DEF TerminalEdit
  <2> QED
    BY <1>3, <1>6, <2>1 DEF TerminalEdit
<1>7. CASE TerminalDelete(o)
  <2>1. Becomes(o, obj[o].pc, "done", obj[o].st)
    BY <1>7, FinBecomes DEF TerminalDelete
  <2> QED
    BY <1>3, <1>7, <2>1 DEF TerminalDelete, diskVars
<1> QED
  BY <1>4, <1>5, <1>6, <1>7 DEF RecordTerminal

LEMMA StoryOther ==
    ASSUME RangeInv, LifeInv, StoryInv, NEW o \in Objs,
           AppendSession(o) \/ ProcessExit(o) \/ NeedsUser(o)
    PROVE  StoryGoesOn(o)
<1> USE LifeFacts, StoryFacts
<1>1. obj' = obj /\ active' = active /\ nextRun' = nextRun
  BY DEF AppendSession, ProcessExit, NeedsUser, gateVars
<1>2. Becomes(o, obj[o].pc, obj[o].fin, obj[o].st) /\ FlagsKept(o)
  BY <1>1 DEF Becomes, FlagsKept
<1>3. CASE log' = log
  BY <1>1, <1>2, <1>3, StoryQuiet DEF Story
<1>4. CASE AppendSession(o)
  <2>1. /\ obj[o].pc = "wait" /\ active = o /\ entry = o /\ obj[o].fin = "free"
        /\ Has(obj[o].run, "queued") /\ ~Has(obj[o].run, "finished")
        /\ obj[o].run \in Runs
    BY <1>4, RangeFacts DEF AppendSession, At, Owner, Spawning, Ending, Story, Named
  <2>2. PICK ok \in BOOLEAN : AppendEvent(Event(obj[o].run, "session", o, "none"), ok)
    BY <1>4 DEF AppendSession
  <2> DEFINE e == Event(obj[o].run, "session", o, "none")
  <2>3. e \in Events /\ e.kind = "session" /\ e.run = obj[o].run
    BY <2>1, EventTypes DEF Event
  <2>4. CASE ok
    <3>1. log' = Append(log, e)
      BY <2>2, <2>4 DEF AppendEvent
    <3> HIDE DEF e
    <3> QED
      BY <1>1, <1>2, <2>1, <2>3, <3>1, StoryWritten DEF Told, FlagsKept
  <2>5. CASE ~ok
    BY <1>3, <2>2, <2>5 DEF AppendEvent
  <2> QED
    BY <2>4, <2>5
<1> QED
  BY <1>3, <1>4 DEF ProcessExit, NeedsUser, diskVars

LEMMA StoryCanceller ==
    ASSUME RangeInv, LifeInv, StoryInv, NEW c \in Cancellers \cup Watchers,
           \/ c \in Cancellers /\ CancelFind(c)
           \/ c \in Objs /\ WatcherFires(c)
           \/ CancelRun(c)
    PROVE  StoryInv' /\ log' = log
<1>1. /\ log' = log /\ active' = active /\ nextRun' = nextRun
  BY DEF CancelFind, WatcherFires, CancelRun, CancelMark, CancelTerm,
     CancelKill, CancelDone, CancelFinish, diskVars, gateVars
<1>2. /\ obj \in [Objs -> ObjStates]
      /\ canc[c].pc # "idle" => canc[c].obj \in Objs
  BY Types DEF RangeInv, CancOK
<1>3. RunsCounted'
  BY <1>1 DEF StoryInv, RunsCounted, Logged
<1>4. obj' = obj => \A q \in Objs : Story(q)'
  BY <1>1 DEF StoryInv, Story, Bare, Has, Logged
<1>5. ASSUME NEW d \in Objs, NEW x, obj' = [obj EXCEPT ![d] = x],
             x.pc = obj[d].pc, x.run = obj[d].run, x.kind = obj[d].kind,
             x.fin = obj[d].fin \/ (x.fin = "append" /\ obj[d].fin = "free"
                                    /\ obj[d].done),
             x.done => obj[d].done
      PROVE  \A q \in Objs : Story(q)'
  <2>1. obj'[d] = x /\ \A q \in Objs : q # d => obj'[q] = obj[q]
    BY <1>2, <1>5
  <2>2. Story(d)
    BY DEF StoryInv
  <2>3. StoryHere(d, x)
    BY <1>1, <1>5, <2>2 DEF StoryHere, Story
  <2>4. Story(d)'
    BY <1>1, <2>1, <2>3, QuietStory
  <2>5. \A q \in Objs : q # d => Story(q)'
    BY <1>1, <2>1 DEF StoryInv, Story, Bare, Has, Logged
  <2> QED
    BY <2>4, <2>5
<1>6. \A q \in Objs : Story(q)'
  <2> DEFINE d == canc[c].obj
  <2>1. CASE obj' = obj
    BY <1>4, <2>1
  <2>2. CASE obj' = [obj EXCEPT ![d].cancelled = TRUE] /\ d \in Objs
    <3> DEFINE x == [obj[d] EXCEPT !.cancelled = TRUE]
    <3>1. /\ x.pc = obj[d].pc /\ x.run = obj[d].run /\ x.kind = obj[d].kind
          /\ x.fin = obj[d].fin /\ x.done = obj[d].done
          /\ obj' = [obj EXCEPT ![d] = x]
      BY <1>2, <2>2 DEF ObjStates
    <3> HIDE DEF d, x
    <3> QED
      BY <1>5, <2>2, <3>1
  <2>3. CASE obj' = [obj EXCEPT ![d].ctx = TRUE] /\ d \in Objs
    <3> DEFINE x == [obj[d] EXCEPT !.ctx = TRUE]
    <3>1. /\ x.pc = obj[d].pc /\ x.run = obj[d].run /\ x.kind = obj[d].kind
          /\ x.fin = obj[d].fin /\ x.done = obj[d].done
          /\ obj' = [obj EXCEPT ![d] = x]
      BY <1>2, <2>3 DEF ObjStates
    <3> HIDE DEF d, x
    <3> QED
      BY <1>5, <2>3, <3>1
  <2>4. CASE obj' = [obj EXCEPT ![d].done = (obj[d].kind = "stub")] /\ d \in Objs
    <3> DEFINE x == [obj[d] EXCEPT !.done = (obj[d].kind = "stub")]
    <3>0. obj[d].kind # "stub"
      BY <2>4 DEF LifeInv, Owner
    <3>1. /\ x.pc = obj[d].pc /\ x.run = obj[d].run /\ x.kind = obj[d].kind
          /\ x.fin = obj[d].fin /\ ~x.done
          /\ obj' = [obj EXCEPT ![d] = x]
      BY <1>2, <2>4, <3>0, ZenonT(60) DEF ObjStates
    <3> HIDE DEF d, x
    <3> QED
      BY <1>5, <2>4, <3>1
  <2>5. CASE /\ obj' = [obj EXCEPT ![d] = Claimed(d, "cancelled")] /\ d \in Objs
             /\ obj[d].fin = "free" /\ obj[d].done
    <3> DEFINE x == [obj[d] EXCEPT !.fin = "append", !.st = "cancelled"]
    <3>1. /\ x.pc = obj[d].pc /\ x.run = obj[d].run /\ x.kind = obj[d].kind
          /\ x.fin = "append" /\ x.done = obj[d].done
          /\ obj' = [obj EXCEPT ![d] = x]
      BY <1>2, <2>5, ZenonT(60) DEF ObjStates, Claimed
    <3> HIDE DEF d, x
    <3> QED
      BY <1>5, <2>5, <3>1
  <2>6. CancelRun(c) => d \in Objs
    BY <1>2 DEF CancelRun, CancelMark, CancelTerm, CancelKill, CancelDone,
       CancelFinish, CancAt
  <2>7. CASE CancelFinish(c)
    <3>1. obj[d].done
      BY <2>7 DEF CancelFinish, CancAt, LifeInv, CancelWaited
    <3>2. d \in Objs
      BY <2>6, <2>7 DEF CancelRun
    <3> QED
      BY <2>1, <2>5, <2>7, <3>1, <3>2 DEF CancelFinish
  <2> QED
    BY <2>1, <2>2, <2>3, <2>4, <2>6, <2>7
    DEF CancelFind, WatcherFires, CancelRun, CancelMark, CancelTerm,
        CancelKill, CancelDone
<1> QED
  BY <1>1, <1>3, <1>6 DEF StoryInv

\* A step of the mapping: one run goes one stage further, or none does.
LEMMA StageStep ==
    ASSUME RangeInv, NEW o \in Objs, LogTold(o)
    PROVE  [History!Next]_([r \in Runs |-> StageOf(r)])
<1>0. log \in Seq(Events)
  BY Types DEF RangeInv
<1> DEFINE S == [r \in Runs |-> StageOf(r)]
<1>1. CASE log' = log
  <2>1. \A r \in Runs : StageOf(r)' = StageOf(r)
    BY <1>1 DEF StageOf, Has, FinishIn, Seen
  <2> QED
    BY <2>1
<1>2. ASSUME NEW e \in Events, log' = Append(log, e), Told(e)
      PROVE  History!Next \/ S' = S
  <2> PICK n \in Runs : n = e.run
    BY EventKinds
  <2>1. \A r \in Runs : r # n \/ e.kind = "session" => StageOf(r)' = StageOf(r)
    BY <1>0, <1>2, StageAppended
  <2>2. CASE e.kind = "session"
    BY <2>1, <2>2
  <2>3. ASSUME NEW s, StageOf(n)' = s, e.kind # "session"
        PROVE  S' = [S EXCEPT ![n] = s]
    BY <2>1, <2>3
  <2>4. StageOf(n) = IF Has(n, "finished") THEN FinishIn(Len(log), n)
                     ELSE IF Has(n, "started") THEN "started"
                     ELSE IF Has(n, "queued") THEN "queued" ELSE "absent"
    BY DEF StageOf
  <2>5. CASE e.kind = "queued" /\ n \notin Logged
    <3>1. ~Has(n, "finished") /\ ~Has(n, "started") /\ ~Has(n, "queued")
      BY <2>5 DEF Has, Logged
    <3>2. StageOf(n) = "absent" /\ StageOf(n)' = "queued"
      BY <1>0, <1>2, <2>4, <2>5, <3>1, StageAppended
    <3>3. S[n] = "absent" /\ S' = [S EXCEPT ![n] = "queued"]
      BY <2>3, <2>5, <3>2
    <3> QED
      BY <3>3 DEF History!Next, History!Queue
  <2>6. CASE e.kind = "started" /\ Bare(n)
    <3>1. ~Has(n, "finished") /\ ~Has(n, "started") /\ Has(n, "queued")
      BY <2>6 DEF Bare
    <3>2. StageOf(n) = "queued" /\ StageOf(n)' = "started"
      BY <1>0, <1>2, <2>4, <2>6, <3>1, StageAppended
    <3>3. S[n] = "queued" /\ S' = [S EXCEPT ![n] = "started"]
      BY <2>3, <2>6, <3>2
    <3> QED
      BY <3>3 DEF History!Next, History!Start
  <2>7. CASE e.kind = "finished" /\ Has(n, "queued") /\ ~Has(n, "finished")
    <3>1. StageOf(n) \in {"queued", "started"} /\ StageOf(n)' = e.st
      BY <1>0, <1>2, <2>4, <2>7, StageAppended
    <3>2. S[n] \in {"queued", "started"} /\ S' = [S EXCEPT ![n] = e.st]
      BY <2>3, <2>7, <3>1
    <3>3. e.st \in Terminal
      BY <2>7, EventKinds
    <3> QED
      BY <3>2, <3>3 DEF History!Next, History!Finish
  <2> QED
    BY <1>2, <2>2, <2>5, <2>6, <2>7 DEF Told
<1> QED
  BY <1>1, <1>2 DEF LogTold

LEMMA StoryStep ==
    ASSUME RangeInv, LifeInv, StoryInv, AskedInv, Next, FirstGui',
           budget'.ticks = budget.ticks
    PROVE  StoryInv' /\ [History!Next]_([r \in Runs |-> StageOf(r)])
<1>1. ASSUME log' = log
      PROVE  [History!Next]_([r \in Runs |-> StageOf(r)])
  <2>1. \A r \in Runs : StageOf(r)' = StageOf(r)
    BY <1>1 DEF StageOf, Has, FinishIn, Seen
  <2> QED
    BY <2>1
<1>2. ASSUME NEW o \in Objs, Actor(o)
      PROVE  StoryInv' /\ [History!Next]_([r \in Runs |-> StageOf(r)])
  <2>1. StoryGoesOn(o)
    BY <1>2, StoryStart, StorySetup, StoryGoroutine, StoryTerminal, StoryOther
    DEF Actor
  <2>2. Apart(o)
    BY <1>2, LifeStart, LifeSetup, LifeGoroutine, LifeTerminal, LifeOther
    DEF Actor
  <2>3. log \in Seq(Events) /\ Story(o) /\ nextRun \in Nat
    BY StoryFacts
  <2>4. /\ \A r, k : Has(r, k) => Has(r, k)'
        /\ Logged' \subseteq Logged \cup {obj[o].run}
        /\ log' = log \/ entry = o
    <3>1. CASE log' = log
      BY <3>1 DEF Has, Logged
    <3>2. CASE log' # log
      <4>1. PICK e \in Events : log' = Append(log, e) /\ e.run = obj[o].run
                                /\ entry = o
        BY <2>1, <3>2 DEF StoryGoesOn, LogTold
      <4> QED
        BY <2>3, <4>1, HasAppended
    <3> QED
      BY <3>1, <3>2
  <2>5. \A q \in Objs : Story(q)'
    BY <2>1, <2>2, <2>4, StoryFrame DEF StoryGoesOn
  <2>6. RunsCounted'
    <3> SUFFICES ASSUME NEW r \in Logged' PROVE r < nextRun'
      BY DEF RunsCounted
    <3>1. r \in Nat
      <4>1. Logged \subseteq Nat
        BY <2>3, LogFacts, EventKinds DEF Logged, Runs
      <4> QED
        BY <2>4, <4>1, StoryFacts
    <3>2. r < nextRun
      BY <2>3, <2>4 DEF StoryInv, RunsCounted, Story
    <3> QED
      BY <2>1, <2>3, <3>1, <3>2 DEF StoryGoesOn
  <2> QED
    BY <2>1, <2>5, <2>6, StageStep DEF StoryInv, StoryGoesOn
<1>3. ASSUME NEW c \in Cancellers \cup Watchers,
             \/ c \in Cancellers /\ CancelFind(c)
             \/ c \in Objs /\ WatcherFires(c)
             \/ CancelRun(c)
      PROVE  StoryInv' /\ [History!Next]_([r \in Runs |-> StageOf(r)])
  BY <1>1, <1>3, StoryCanceller
<1>4. ~Recover /\ ~ScanBegin(TRUE)
  <2>1. rec.pc = "idle"
    BY DEF AskedInv
  <2>2. ~Recover
    BY <2>1 DEF Recover, StartupScan, ScanRead, ScanSkip, ScanSync, ScanAdopt,
       ScanStale, ScanFinish, ScanEdit, ScanEnd, ScanNext, RecAt
  <2>3. ASSUME ScanBegin(TRUE) PROVE FALSE
    <3>1. budget \in Budgets /\ budget' = [budget EXCEPT !.ticks = @ - 1]
      BY <2>3 DEF ScanBegin, RangeInv, SideTypes
    <3>2. budget'.ticks = budget.ticks - 1 /\ budget.ticks \in Nat
      BY <3>1 DEF Budgets
    <3> QED
      BY <3>2
  <2> QED
    BY <2>2, <2>3
<1>5. \A r \in Runs : ~Monitor(r)
  BY DEF LifeInv, NoneAdopted, Monitor, MonPoll, MonRelease, MonSync, MonExit,
     MonClaim, MonLose, MonAt
<1>6. ~Restart /\ ~Crash
  BY DEF Restart, Crash, LifeInv, FirstGui
<1>7. CASE HandQueue \/ HandClear \/ Close
  <2>1. /\ obj' = obj /\ log' = log /\ active' = active /\ nextRun' = nextRun
    BY <1>7 DEF HandQueue, HandClear, Close, sideVars, diskVars, gateVars
  <2>2. StoryInv'
    BY <2>1 DEF StoryInv, RunsCounted, Story, Bare, Has, Logged
  <2> QED
    BY <1>1, <2>1, <2>2
<1> QED
  BY <1>2, <1>3, <1>4, <1>5, <1>6, <1>7 DEF Next, Actor, Watchers

UnscannedStory == Unscanned => StoryInv

LEMMA UnscannedStoryNext ==
    ASSUME RangeInv, FirstInv, UnscannedInv, UnscannedStory, [Next]_vars, Unscanned'
    PROVE  StoryInv' /\ [History!Next]_([r \in Runs |-> StageOf(r)])
<1>1. CASE Next
  <2>1. Unscanned /\ budget'.ticks = budget.ticks
    BY <1>1, GuiNext DEF FirstInv
  <2> QED
    BY <1>1, <2>1, StoryStep DEF FirstInv, UnscannedInv, UnscannedStory, Unscanned
<1>2. CASE UNCHANGED vars
  <2>1. /\ obj' = obj /\ log' = log /\ active' = active /\ nextRun' = nextRun
        /\ budget' = budget /\ up' = up
    BY <1>2 DEF vars
  <2>2. StoryInv'
    BY <2>1 DEF UnscannedStory, Unscanned, FirstGui, StoryInv, RunsCounted,
       Story, Bare, Has, Logged
  <2>3. \A r \in Runs : StageOf(r)' = StageOf(r)
    BY <2>1 DEF StageOf, Has, FinishIn, Seen
  <2> QED
    BY <2>2, <2>3
<1> QED
  BY <1>1, <1>2

LEMMA StoryAlways == Spec => []UnscannedStory
<1>1. Init => UnscannedStory
  <2> SUFFICES ASSUME Init PROVE StoryInv
    BY DEF UnscannedStory
  <2>1. log = <<>> /\ nextRun = 1 /\ active = 0
    BY DEF Init
  <2>2. \A o \in Objs : /\ obj[o].pc = "unused" /\ obj[o].run = 0 /\ o # 0
                        /\ obj[o].fin = "free" /\ ~obj[o].done
    BY DEF Init, Unused, Objs
  <2>3. RunsCounted
    BY <2>1 DEF RunsCounted, Logged
  <2> QED
    BY <2>1, <2>2, <2>3 DEF StoryInv, Story, Ending
<1>2. RangeInv /\ FirstInv /\ UnscannedInv /\ UnscannedStory /\ [Next]_vars
        => UnscannedStory'
  BY UnscannedStoryNext DEF UnscannedStory
<1> QED
  BY <1>1, <1>2, RangeAlways, FirstAlways, UnscannedAlways, PTL DEF Spec

\* Of a GUI that never dies and whose periodic scan is switched off, the
\* history keeps what it promises to its readers: a run is queued, may start,
\* and gets one outcome, which is never taken back, whatever cancels, failed
\* writes and repeated starts it goes through (recordTerminal's finishOnce,
\* findQueuedRun).
THEOREM HistoryStays ==
    ASSUME MaxCrashes = 0, MaxTicks = 0
    PROVE  Spec => HistoryKept
<1>1. Init => History!Init
  <2> SUFFICES ASSUME Init PROVE \A r \in Runs : StageOf(r) = "absent"
    BY DEF History!Init
  <2> QED
    BY DEF Init, StageOf, Has
<1>2. RangeInv /\ FirstInv => Unscanned
  <2> SUFFICES ASSUME RangeInv, FirstInv PROVE Unscanned
    OBVIOUS
  <2>1. budget.crashes \in Nat /\ budget.ticks \in Nat /\ up \in BOOLEAN
    BY Types DEF RangeInv, SideTypes, Budgets
  <2> QED
    BY <2>1 DEF FirstInv, Counted, Unscanned, FirstGui
<1>3. /\ RangeInv /\ FirstInv /\ UnscannedInv /\ UnscannedStory
      /\ Unscanned' /\ [Next]_vars
      => [History!Next]_([r \in Runs |-> StageOf(r)])
  BY UnscannedStoryNext
<1> QED
  BY <1>1, <1>2, <1>3, RangeAlways, FirstAlways, UnscannedAlways, StoryAlways, PTL
  DEF Spec, HistoryKept, History!Spec

=============================================================================
