-------------------------- MODULE AgentStatusProofs --------------------------
(* Who answers for a status: theorems about AgentRun through deaths of the *)
(* GUI, adoption, monitors and periodic scans.                             *)
EXTENDS AgentRunProofs

-----------------------------------------------------------------------------
(* What the log keeps, whatever is appended.                               *)

LEMMA FirstIsFirst ==
    ASSUME log \in Seq(Events), NEW r \in Logged
    PROVE  /\ FirstOf(r) \in 1..Len(log) /\ log[FirstOf(r)].run = r
           /\ \A j \in 1..(FirstOf(r) - 1) : log[j].run # r
<1> DEFINE at == {i \in DOMAIN log : log[i].run = r}
<1>1. at \in SUBSET Nat /\ at # {} /\ DOMAIN log = 1..Len(log)
  BY LogFacts DEF Logged
<1>2. PICK i \in at : \A j \in at : i <= j
  BY <1>1, LeastOf
<1>3. \A j \in 1..(i - 1) : log[j].run # r
  BY <1>2, LogFacts
<1>4. \E k \in DOMAIN log :
         log[k].run = r /\ \A j \in 1..(k - 1) : log[j].run # r
  BY <1>2, <1>3
<1> QED
  BY <1>1, <1>4 DEF FirstOf

LEMMA LatestIsLast ==
    ASSUME log \in Seq(Events), NEW rs \in SUBSET Logged, rs # {}
    PROVE  /\ LatestOf(rs) \in rs
           /\ \A q \in rs : FirstOf(q) <= FirstOf(LatestOf(rs))
<1> DEFINE at == {FirstOf(q) : q \in rs}
<1>1. at \in SUBSET (1..Len(log)) /\ at # {} /\ Len(log) \in Nat
  BY FirstIsFirst, LogFacts
<1>2. PICK i \in at : \A j \in at : j <= i
  BY <1>1, GreatestOf
<1>3. \E r \in rs : \A q \in rs : FirstOf(q) <= FirstOf(r)
  BY <1>2
<1> QED
  BY <1>3 DEF LatestOf

\* The same of every run, in this state and in the next.
LatestRule ==
    Logged # {} => /\ LatestOf(Logged) \in Logged
                   /\ \A q \in Logged : FirstOf(q) <= FirstOf(LatestOf(Logged))

LEMMA LatestHere == log \in Seq(Events) => LatestRule
BY LatestIsLast DEF LatestRule

LEMMA LatestNext == log' \in Seq(Events) => LatestRule'
<1>1. (log \in Seq(Events))' => LatestRule'
  BY LatestHere, PTL
<1> QED
  BY <1>1 DEF Events, Runs, Objs, Modes, Terminal

\* Where a run first appears does not change when events are appended.
LEMMA FirstStays ==
    ASSUME log \in Seq(Events), NEW e \in Events, log' = Append(log, e),
           NEW r \in Logged
    PROVE  FirstOf(r)' = FirstOf(r)
<1> PICK n \in 1..Len(log) : n = FirstOf(r)
  BY FirstIsFirst
<1>1. /\ log[n].run = r /\ \A j \in 1..(n - 1) : log[j].run # r
  BY FirstIsFirst
<1>2. /\ Len(log') = Len(log) + 1 /\ Len(log) \in Nat
      /\ DOMAIN log' = 1..(Len(log) + 1)
      /\ \A i \in 1..Len(log) : log'[i] = log[i]
  BY HasAppended, LogFacts, LenProperties
<1>3. n \in DOMAIN log' /\ log'[n].run = r /\ \A j \in 1..(n - 1) : log'[j].run # r
  BY <1>1, <1>2
<1>4. \E k \in DOMAIN log' :
         log'[k].run = r /\ \A j \in 1..(k - 1) : log'[j].run # r
  BY <1>3
<1> DEFINE m == CHOOSE k \in DOMAIN log' :
                   log'[k].run = r /\ \A j \in 1..(k - 1) : log'[j].run # r
<1>5. m \in DOMAIN log' /\ log'[m].run = r /\ \A j \in 1..(m - 1) : log'[j].run # r
  BY <1>4
<1> HIDE DEF m
<1>6. m = n
  BY <1>2, <1>3, <1>5
<1>7. FirstOf(r)' = m
  BY DEF FirstOf, m
<1> QED
  BY <1>6, <1>7

\* Nor does the last of a set of runs.
LEMMA LatestStays ==
    ASSUME log \in Seq(Events), NEW e \in Events, log' = Append(log, e),
           e.run \in Logged
    PROVE  LatestOf(Logged)' = LatestOf(Logged)
<1>0. Logged' = Logged \cup {e.run}
  BY HasAppended
<1>1. Logged' = Logged
  BY <1>0
<1> PICK l \in Logged : l = LatestOf(Logged)
  BY LatestIsLast
<1>2. \A q \in Logged : FirstOf(q) <= FirstOf(l)
  BY LatestIsLast
<1>3. \A q \in Logged : FirstOf(q)' = FirstOf(q)
  BY FirstStays
<1>4. FirstOf(l)' = FirstOf(l)
  BY <1>3
<1>5. \A q \in Logged' : FirstOf(q)' <= FirstOf(l)'
  BY <1>1, <1>2, <1>3, <1>4
<1> PICK m : m = LatestOf(Logged)'
  OBVIOUS
<1>6. m \in Logged' /\ \A q \in Logged' : FirstOf(q)' <= FirstOf(LatestOf(Logged))'
  BY <1>1, HasAppended, LatestNext DEF LatestRule
<1>7. m \in Logged /\ FirstOf(l)' <= FirstOf(m)' /\ FirstOf(m)' = FirstOf(m)
  BY <1>1, <1>3, <1>6
<1>8. FirstOf(l) <= FirstOf(m) /\ FirstOf(m) <= FirstOf(l)
  BY <1>2, <1>4, <1>7
<1>9. FirstOf(l) = FirstOf(m)
  BY <1>7, <1>8, FirstIsFirst
<1>11. l = m
  BY <1>7, <1>9, FirstIsFirst
<1> QED
  BY <1>11

-----------------------------------------------------------------------------
(* Every GUI, whether it is the first one or has come back.                *)

Before == Opening \cup {"undo"}
Going  == {"go", "started", "mark", "record", "wait"} \cup Ending

\* The runs that have started, those that a scan looks at, and the last one.
Begun  == {r \in Logged : Has(r, "started")}
View   == RunsIn(rec.len)
Newest == LatestOf(Logged)

\* A goroutine that cancels o and will see to its record.
Waits(o) == \E c \in Cancellers :
               canc[c].obj = o /\ canc[c].pc \in {"kill", "grace", "await", "finish"}

\* The scan of Activate.
Startup == rec.pc # "idle" /\ ~rec.tick

\* What is known of an object where it is, in every GUI: a start keeps its
\* entry and the task is not running yet; a Done that is closed and a record
\* that is being written come late; a cancelled run has somebody who writes
\* its record; nothing but adopted runs is about during the scan of Activate.
Duty(o) ==
    /\ obj[o].kind = "stub" <=> obj[o].pc = "stub"
    /\ obj[o].pc \in Before \cup {"record"} =>
          entry = o /\ obj[o].run \notin Begun
    /\ obj[o].pc \in Before => status # "running"
    /\ obj[o].done => obj[o].pc \in {"after", "gone", "stub"}
    /\ obj[o].fin # "free" => obj[o].pc \in Ending \cup {"gone", "stub"}
    /\ obj[o].pc \in {"close", "after"} => obj[o].cancelled \/ obj[o].fin = "done"
    /\ \/ obj[o].pc \in Going \cup {"label", "stub"}
       \/ obj[o].pc = "register" /\ obj[o].kind = "queued"
       \/ obj[o].fin # "free" \/ obj[o].done
       => obj[o].run \in Logged
    /\ obj[o].run < nextRun
    /\ obj[o].cancelled /\ obj[o].fin = "free" =>
          Waits(o) \/ (obj[o].kind = "queued" /\ obj[o].pc \in Going)
    /\ canc[o].pc # "idle" =>
          /\ canc[o].obj = o /\ obj[o].kind = "queued"
          /\ obj[o].pc \in Going \/ (obj[o].pc = "gone" /\ obj[o].fin = "done")
    /\ Startup => /\ obj[o].pc \in {"unused", "gone", "stub"}
                  /\ active = o => obj[o].pc = "stub"
    /\ active = o /\ obj[o].pc # "stub" =>
          \A r \in Runs : r = obj[o].run => mon[r].pc = "off"

\* A run has started before it has a session.
SessionLater == \A r \in Runs : Has(r, "session") => r \in Begun

\* A monitored run has started; what a monitor claims is an adopted run.
MonKeep ==
    \A r \in Runs :
        /\ mon[r].pc # "off" => r \in Begun
        /\ mon[r].pc = "claim" => /\ obj[mon[r].obj].run = r
                                  /\ obj[mon[r].obj].pc = "stub"

\* A scan works on runs of the log, and that of Activate on all of them.
RecKeep ==
    /\ rec.pc = "startup" => ~rec.tick
    /\ rec.pc \in {"read", "next", "finish", "edit"} => log # <<>>
    /\ rec.pc \in {"next", "finish"} => rec.rest \subseteq Logged
    /\ rec.pc = "finish" => rec.run \in Logged
    /\ Startup /\ rec.pc \in {"next", "finish"} => View = Logged

\* Nothing is in memory while no GUI runs.
DownKeep == ~up => /\ active = 0
                   /\ \A o \in Objs : obj[o].pc \in {"unused", "gone"}
                                      /\ obj[o].fin = "free"

\* A task that runs has a history.
RunningLogged == status = "running" => log # <<>>

RestKeep == /\ RunsCounted /\ SessionLater /\ MonKeep /\ CancelWaited
            /\ RecKeep /\ DownKeep /\ RunningLogged

KeepInv == RestKeep /\ \A o \in Objs : Duty(o)

-----------------------------------------------------------------------------
\* The log stays, or one event of a known kind is appended.
LogSafe ==
    \/ log' = log
    \/ \E e \in Events : /\ log' = Append(log, e)
                         /\ e.run < nextRun
                         /\ e.kind = "session" => e.run \in Begun
                         /\ Startup \/ status = "running" => e.run \in Logged

LogKept == /\ log' \in Seq(Events)
           /\ Logged \subseteq Logged'
           /\ Begun \subseteq Begun'
           /\ \A r \in Logged' : r < nextRun
           /\ SessionLater'
           /\ log # <<>> => log' # <<>>
           /\ rec'.len = rec.len => View' = View
           /\ Startup \/ status = "running" => Logged' = Logged
           /\ status = "running" => Newest' = Newest

LEMMA LogSame ==
    ASSUME log \in Seq(Events), log' = log
    PROVE  Logged' = Logged /\ Begun' = Begun /\ Newest' = Newest
           /\ (rec'.len = rec.len => View' = View)
           /\ \A r, k : Has(r, k)' <=> Has(r, k)
<1>1. Logged' = Logged
  BY DEF Logged
<1>2. \A r, k : Has(r, k)' <=> Has(r, k)
  BY DEF Has
<1>3. Begun' = Begun
  BY <1>1, <1>2 DEF Begun
<1>4. \A r : FirstOf(r)' = FirstOf(r)
  BY DEF FirstOf
<1>5. rec'.len = rec.len => View' = View
  BY DEF View, RunsIn
<1>6. Newest' = Newest
  BY DEF Newest, LatestOf, Logged, FirstOf
<1> QED
  BY <1>1, <1>2, <1>3, <1>5, <1>6

LEMMA LogMore ==
    ASSUME log \in Seq(Events), NEW e \in Events, log' = Append(log, e)
    PROVE  /\ Logged' = Logged \cup {e.run}
           /\ Begun' = Begun \cup (IF e.kind = "started" THEN {e.run} ELSE {})
           /\ log' # <<>>
           /\ \A r, k : Has(r, k)' <=> Has(r, k) \/ (e.run = r /\ e.kind = k)
<1>0. Len(log) \in Nat
  BY LogFacts
<1>1. /\ log' \in Seq(Events) /\ Len(log') = Len(log) + 1
      /\ Logged' = Logged \cup {e.run}
      /\ \A r, k : Has(r, k)' <=> Has(r, k) \/ (e.run = r /\ e.kind = k)
  BY HasAppended
<1>2. \A r : Has(r, "started") => r \in Logged
  BY DEF Has, Logged
<1>3. Begun' = Begun \cup (IF e.kind = "started" THEN {e.run} ELSE {})
  <2>1. \A r : r \in Begun' <=> Has(r, "started") \/ (e.run = r /\ e.kind = "started")
    BY <1>1, <1>2 DEF Begun
  <2> QED
    BY <1>2, <2>1 DEF Begun
<1> QED
  BY <1>0, <1>1, <1>3

LEMMA LogSafeKeeps ==
    ASSUME RangeInv, RunsCounted, SessionLater, LogSafe
    PROVE  LogKept
<1>0. log \in Seq(Events) /\ rec.len \in 0..Len(log) /\ Len(log) \in Nat
      /\ DOMAIN log = 1..Len(log)
  BY Types, LogFacts DEF RangeInv, RecOK
<1>1. CASE log' = log
  <2>1. /\ Logged' = Logged /\ Begun' = Begun /\ Newest' = Newest
        /\ rec'.len = rec.len => View' = View
        /\ \A r, k : Has(r, k)' <=> Has(r, k)
    BY <1>0, <1>1, LogSame
  <2>2. SessionLater'
    BY <2>1 DEF SessionLater
  <2> QED
    BY <1>0, <1>1, <2>1, <2>2 DEF LogKept, RunsCounted
<1>2. ASSUME NEW e \in Events, log' = Append(log, e), e.run < nextRun,
             e.kind = "session" => e.run \in Begun,
             Startup \/ status = "running" => e.run \in Logged
      PROVE  LogKept
  <2>1. /\ log' \in Seq(Events) /\ Len(log') = Len(log) + 1
        /\ \A i \in 1..Len(log) : log'[i] = log[i]
        /\ Logged' = Logged \cup {e.run}
    BY <1>0, <1>2, HasAppended
  <2>2. /\ Begun \subseteq Begun' /\ log' # <<>>
        /\ \A r, k : Has(r, k)' <=> Has(r, k) \/ (e.run = r /\ e.kind = k)
    BY <1>0, <1>2, LogMore
  <2>3. SessionLater'
    BY <1>2, <2>2 DEF SessionLater
  <2>5. ASSUME rec'.len = rec.len PROVE View' = View
    BY <1>0, <2>1, <2>5 DEF View, RunsIn
  <2>6. \A r \in Logged' : r < nextRun
    BY <1>2, <2>1 DEF RunsCounted
  <2>7. Startup \/ status = "running" => Logged' = Logged
    BY <1>2, <2>1
  <2>8. status = "running" => Newest' = Newest
    BY <1>0, <1>2, LatestStays DEF Newest
  <2> QED
    BY <2>1, <2>2, <2>3, <2>5, <2>6, <2>7, <2>8 DEF LogKept
<1> QED
  BY <1>1, <1>2 DEF LogSafe

-----------------------------------------------------------------------------
(* One object changes, the others stand by.                                *)

LEMMA KeepFacts ==
    ASSUME RangeInv, KeepInv, NEW o \in Objs
    PROVE  /\ SideTypes /\ Named(o) /\ Duty(o) /\ RestKeep
           /\ obj[o] \in ObjStates /\ obj \in [Objs -> ObjStates]
           /\ active \in Objs \cup {0} /\ entry \in Objs \cup {0}
           /\ o # 0 /\ 0 \notin Objs /\ up \in BOOLEAN
           /\ log \in Seq(Events) /\ nextRun \in Nat
           /\ (obj[o].run \in Nat /\ Runs \subseteq Nat)
           /\ canc \in [Cancellers \cup Watchers -> CancStates]
           /\ mon \in [Runs -> MonStates] /\ rec \in RecStates
<1>1. /\ SideTypes /\ Named(o) /\ obj[o] \in ObjStates
      /\ obj \in [Objs -> ObjStates] /\ log \in Seq(Events)
      /\ active \in Objs \cup {0} /\ entry \in Objs \cup {0}
      /\ nextRun \in 1..(MaxRuns + 1) /\ up \in BOOLEAN
  BY RangeFacts
<1>2. Runs \subseteq Nat /\ nextRun \in Nat /\ o # 0 /\ 0 \notin Objs
  BY <1>1 DEF Runs, Objs
<1>3. obj[o].run \in Runs \cup {0}
  BY <1>1 DEF ObjStates
<1>4. /\ canc \in [Cancellers \cup Watchers -> CancStates]
      /\ mon \in [Runs -> MonStates] /\ rec \in RecStates
  BY <1>1 DEF SideTypes
<1>5. Duty(o) /\ RestKeep
  BY DEF KeepInv
<1>6. obj[o].run \in Nat
  BY <1>3 DEF Runs
<1> QED
  BY <1>1, <1>2, <1>4, <1>5, <1>6

\* What the objects beside o see of a step.
Aside(o) ==
    /\ \A q \in Objs : q # o => /\ obj'[q] = obj[q]
                                /\ active' = q => active = q
                                /\ entry = q => entry' = q
    /\ nextRun' \in Nat /\ nextRun <= nextRun'
    /\ status' = "running" => \/ status = "running"
                              \/ entry = o /\ obj[o].run \in Logged
    /\ Begun' = Begun \/ entry = o

LEMMA DutyFrame ==
    ASSUME RangeInv, KeepInv, NEW o \in Objs, Aside(o), LogKept,
           NEW q \in Objs, q # o, canc'[q] = canc[q],
           Waits(q) => Waits(q)', Startup' => Startup,
           active = q => \A r \in Runs : r = obj[q].run =>
                             (mon'[r].pc # "off" => mon[r].pc # "off")
    PROVE  Duty(q)'
<1> USE KeepFacts
<1>0. /\ obj'[q] = obj[q] /\ (active' = q => active = q)
      /\ (entry = q => entry' = q) /\ Logged \subseteq Logged'
      /\ nextRun' \in Nat /\ nextRun <= nextRun'
  BY DEF Aside, LogKept
<1>1. Duty(q)
  OBVIOUS
<1>2. /\ obj[q].pc \in Before \cup {"record"} =>
           entry' = q /\ obj[q].run \notin Begun'
      /\ obj[q].pc \in Before => status' # "running"
  BY <1>0, <1>1 DEF Duty, Aside
<1>3. obj[q].run < nextRun'
  BY <1>0, <1>1 DEF Duty
<1>4. obj[q].cancelled /\ obj[q].fin = "free" =>
          Waits(q)' \/ (obj[q].kind = "queued" /\ obj[q].pc \in Going)
  BY <1>1 DEF Duty
<1>5. Startup' => /\ obj[q].pc \in {"unused", "gone", "stub"}
                  /\ active' = q => obj[q].pc = "stub"
  BY <1>0, <1>1 DEF Duty
<1>6. active' = q /\ obj[q].pc # "stub" =>
          \A r \in Runs : r = obj[q].run => mon'[r].pc = "off"
  BY <1>0, <1>1 DEF Duty
<1>7. /\ obj[q].kind = "stub" <=> obj[q].pc = "stub"
      /\ obj[q].done => obj[q].pc \in {"after", "gone", "stub"}
      /\ obj[q].fin # "free" => obj[q].pc \in Ending \cup {"gone", "stub"}
      /\ obj[q].pc \in {"close", "after"} => obj[q].cancelled \/ obj[q].fin = "done"
      /\ \/ obj[q].pc \in Going \cup {"label", "stub"}
         \/ obj[q].pc = "register" /\ obj[q].kind = "queued"
         \/ obj[q].fin # "free" \/ obj[q].done
         => obj[q].run \in Logged'
      /\ canc[q].pc # "idle" =>
          /\ canc[q].obj = q /\ obj[q].kind = "queued"
          /\ obj[q].pc \in Going \/ (obj[q].pc = "gone" /\ obj[q].fin = "done")
  BY <1>0, <1>1 DEF Duty
<1> QED
  BY <1>0, <1>2, <1>3, <1>4, <1>5, <1>6, <1>7 DEF Duty

\* What the rest sees of it.
RestAside(o) ==
    /\ up' = up
    /\ ~up => obj' = obj /\ active' = active
    /\ obj[o].done => obj'[o].done
    /\ obj[o].pc = "stub" => obj'[o].pc = "stub" /\ obj'[o].run = obj[o].run

LEMMA ActorRest ==
    ASSUME RangeInv, KeepInv, NEW o \in Objs, Aside(o), RestAside(o), LogSafe,
           UNCHANGED sideVars
    PROVE  RestKeep'
<1> USE KeepFacts
<1>0. LogKept /\ canc' = canc /\ rec' = rec /\ mon' = mon
  BY LogSafeKeeps DEF RestKeep, sideVars
<1>1. RunsCounted'
  <2>1. \A r \in Logged' : r \in Runs
    BY <1>0, LogFacts, EventKinds DEF LogKept, Logged
  <2> QED
    BY <1>0, <2>1 DEF LogKept, RunsCounted, Aside
<1>2. SessionLater' /\ Begun \subseteq Begun' /\ Logged \subseteq Logged'
      /\ (log # <<>> => log' # <<>>) /\ View' = View
      /\ (Startup => Logged' = Logged)
  BY <1>0 DEF LogKept
<1>3. MonKeep'
  <2>1. ASSUME NEW r \in Runs, mon[r].pc = "claim"
        PROVE  obj'[mon[r].obj].run = r /\ obj'[mon[r].obj].pc = "stub"
    <3>1. /\ mon[r].obj \in Objs /\ obj[mon[r].obj].run = r
          /\ obj[mon[r].obj].pc = "stub"
      BY <2>1 DEF RestKeep, MonKeep, RangeInv, MonOK
    <3> QED
      BY <3>1 DEF Aside, RestAside
  <2> QED
    BY <1>0, <1>2, <2>1 DEF RestKeep, MonKeep
<1>4. CancelWaited'
  <2>1. ASSUME NEW c \in Cancellers \cup Watchers, canc[c].pc = "finish"
        PROVE  obj'[canc[c].obj].done
    <3>1. canc[c].obj \in Objs /\ obj[canc[c].obj].done
      BY <2>1 DEF RestKeep, CancelWaited, RangeInv, CancOK
    <3> QED
      BY <3>1 DEF Aside, RestAside
  <2> QED
    BY <1>0, <2>1 DEF CancelWaited
<1>5. RecKeep'
  BY <1>0, <1>2 DEF RestKeep, RecKeep, Startup
<1>6. DownKeep'
  BY DEF RestKeep, DownKeep, RestAside
<1>7. RunningLogged'
  <2>1. Logged # {} => log # <<>>
    BY DEF Logged
  <2> QED
    BY <1>2, <2>1 DEF RestKeep, RunningLogged, Aside
<1> QED
  BY <1>1, <1>2, <1>3, <1>4, <1>5, <1>6, <1>7 DEF RestKeep

LEMMA ActorKeep ==
    ASSUME RangeInv, KeepInv, NEW o \in Objs, Aside(o), RestAside(o), LogSafe,
           UNCHANGED sideVars, Duty(o)'
    PROVE  KeepInv'
<1> USE KeepFacts
<1>0. LogKept /\ canc' = canc /\ rec' = rec /\ mon' = mon
  BY LogSafeKeeps DEF RestKeep, sideVars
<1>1. ASSUME NEW q \in Objs, q # o PROVE Duty(q)'
  <2>1. Waits(q) => Waits(q)'
    BY <1>0 DEF Waits
  <2>2. Startup' => Startup
    BY <1>0 DEF Startup
  <2> QED
    BY <1>0, <1>1, <2>1, <2>2, DutyFrame
<1>2. RestKeep'
  BY ActorRest
<1> QED
  BY <1>1, <1>2 DEF KeepInv

\* A run that is not in the log yet, or that waits there, has not started.
LEMMA BegunFacts ==
    ASSUME RangeInv, KeepInv
    PROVE  /\ Begun \subseteq Logged /\ Logged \subseteq Runs
           /\ nextRun \notin Logged /\ 0 \notin Logged
           /\ \A r \in Logged : r < nextRun
<1>0. log \in Seq(Events) /\ nextRun \in 1..(MaxRuns + 1) /\ MaxRuns \in Nat
  BY Types, AgentRunAssumption DEF RangeInv
<1>1. Begun \subseteq Logged /\ Logged \subseteq Runs
  BY <1>0, LogFacts, EventKinds DEF Begun, Logged
<1>2. \A r \in Logged : r < nextRun
  BY DEF KeepInv, RestKeep, RunsCounted
<1>3. 0 \notin Logged
  BY <1>1 DEF Runs
<1>4. nextRun \notin Logged
  BY <1>0, <1>2
<1> QED
  BY <1>1, <1>2, <1>3, <1>4

LEMMA StartKeep ==
    ASSUME RangeInv, KeepInv, NEW o \in Objs, StartRun(o)
    PROVE  KeepInv'
<1> USE KeepFacts
<1>0. /\ up /\ active = 0 /\ entry = 0 /\ entry' = o /\ active' = active
      /\ obj[o].pc = "unused" /\ ScanOver /\ status # "running"
      /\ status' = status /\ log' = log /\ up' = up /\ UNCHANGED sideVars
  BY DEF StartRun, StartAgentRun, ResumeAgent, Claim, Fresh, diskVars,
         gateVars, Terminal
<1> DEFINE New(k) == /\ obj'[o].pc = (IF k = "direct" THEN "register" ELSE "claimed")
                     /\ obj'[o].fin = "free" /\ obj'[o].kind = k
                     /\ ~obj'[o].done /\ ~obj'[o].cancelled
                     /\ obj'[o].run \in {0, nextRun} /\ obj'[o].run < nextRun'
                     /\ nextRun <= nextRun' /\ nextRun' \in Nat
                     /\ \A q \in Objs : q # o => obj'[q] = obj[q]
<1>1. ASSUME New("direct") \/ New("queued")
      PROVE  KeepInv'
  <2>2. /\ Logged' = Logged /\ Begun' = Begun /\ LogSafe
    BY <1>0, LogSame DEF LogSafe
  <2>4. Aside(o)
    BY <1>0, <1>1, <2>2 DEF Aside
  <2>5. RestAside(o)
    BY <1>0 DEF RestAside, Duty, Ending
  <2>6. obj'[o].run \notin Begun
    BY <1>1, BegunFacts
  <2>7. canc[o].pc = "idle" /\ canc' = canc /\ ~Startup'
    BY <1>0 DEF Duty, Going, Ending, ScanOver, Startup, sideVars
  <2>8. Duty(o)'
    BY <1>0, <1>1, <2>2, <2>6, <2>7
    DEF Duty, Before, Opening, Early, Going, Ending
  <2> QED
    BY <1>0, <2>2, <2>4, <2>5, <2>8, ActorKeep
<1>2. ASSUME NEW m \in StartModes, StartAgentRun(o, m) PROVE New("direct")
  <2>1. /\ obj' = [obj EXCEPT ![o] = [Unused EXCEPT !.pc = "register",
                                            !.run = nextRun, !.mode = m]]
        /\ nextRun' = nextRun + 1
    BY <1>2 DEF StartAgentRun
  <2> QED
    BY <2>1 DEF Unused
<1>3. ASSUME ResumeAgent(o) PROVE New("direct")
  <2>1. /\ obj' = [obj EXCEPT ![o] = [Unused EXCEPT !.pc = "register",
                                            !.run = nextRun, !.mode = ResumeMode]]
        /\ nextRun' = nextRun + 1
    BY <1>3 DEF ResumeAgent
  <2> QED
    BY <2>1 DEF Unused
<1>4. ASSUME Claim(o) PROVE New("queued")
  <2>1. /\ obj' = [obj EXCEPT ![o] = [Unused EXCEPT !.pc = "claimed",
                                                   !.kind = "queued"]]
        /\ nextRun' = nextRun
    BY <1>4 DEF Claim, gateVars
  <2>2. 0 < nextRun
    BY RangeFacts
  <2> QED
    BY <2>1, <2>2 DEF Unused
<1> HIDE DEF New
<1> QED
  BY <1>1, <1>2, <1>3, <1>4 DEF StartRun

\* What an actor appends, in the terms of LogSafe.
LEMMA Says ==
    ASSUME log \in Seq(Events), NEW e \in Events, NEW ok \in BOOLEAN,
           AppendEvent(e, ok), e.run < nextRun,
           e.kind = "session" => e.run \in Begun,
           Startup \/ status = "running" => e.run \in Logged
    PROVE  /\ LogSafe /\ Logged \subseteq Logged'
           /\ ok => e.run \in Logged'
           /\ Begun' = Begun \/ (e.kind = "started" /\ Begun' = Begun \cup {e.run})
<1>1. CASE ok
  <2>1. log' = Append(log, e)
    BY <1>1 DEF AppendEvent
  <2> QED
    BY <1>1, <2>1, LogMore DEF LogSafe
<1>2. CASE ~ok
  <2>1. log' = log
    BY <1>2 DEF AppendEvent
  <2> QED
    BY <1>2, <2>1, LogSame DEF LogSafe
<1> QED
  BY <1>1, <1>2

\* The goroutines beside the objects' own stay where they are.
LEMMA SidesStay ==
    ASSUME UNCHANGED sideVars
    PROVE  /\ canc' = canc /\ rec' = rec /\ mon' = mon
           /\ \A o : Waits(o)' <=> Waits(o)
           /\ Startup' <=> Startup
BY DEF sideVars, Waits, Startup

LEMMA SetupKeep ==
    ASSUME RangeInv, KeepInv, NEW o \in Objs, Setup(o)
    PROVE  KeepInv'
<1> USE KeepFacts
<1>0. UNCHANGED sideVars /\ up /\ up' = up
  BY DEF Setup, Register, AppendQueued, EditQueued, Rollback, ReadQueued,
         ReadRefused, Synthesise, At, gateVars
<1>1. /\ canc' = canc /\ rec' = rec /\ mon' = mon /\ (Waits(o)' <=> Waits(o))
      /\ (Startup' <=> Startup)
  BY <1>0, SidesStay
<1>2. /\ Begun \subseteq Logged /\ Logged \subseteq Runs /\ nextRun \notin Logged
      /\ 0 \notin Logged /\ \A r \in Logged : r < nextRun
  BY BegunFacts
<1>3. obj[o].pc \in Early \cup {"queue", "label", "undo"} /\ Duty(o)
  BY DEF Setup, Register, AppendQueued, EditQueued, Rollback, ReadQueued,
         ReadRefused, Synthesise, At, Early
<1>4. /\ entry = o /\ obj[o].run \notin Begun /\ status # "running"
      /\ obj[o].fin = "free" /\ ~obj[o].done /\ canc[o].pc = "idle" /\ ~Startup
      /\ obj[o].kind \in {"direct", "queued"}
      /\ (obj[o].cancelled => Waits(o))
      /\ obj[o].run < nextRun
      /\ \A r \in Runs : r = obj[o].run => mon[r].pc = "off"
  <2>1. \A r \in Runs : r = obj[o].run => mon[r].pc = "off"
    BY <1>3 DEF Duty, Before, Opening, Early, RestKeep, MonKeep
  <2>2. obj[o].kind \in {"direct", "queued", "stub"}
    BY DEF ObjStates
  <2> QED
    BY <1>3, <2>1, <2>2 DEF Duty, Before, Opening, Early, Going, Ending
\* The object goes on, or gives up.
<1>5. ASSUME NEW pc \in {"register", "queue", "label", "undo", "go", "synth", "gone"},
             obj'[o].pc = pc, obj'[o].fin = "free", obj'[o].kind = obj[o].kind,
             FlagsKept(o), \A q \in Objs : q # o => obj'[q] = obj[q],
             obj'[o].run \notin Begun,
             obj'[o].run < nextRun', nextRun' \in Nat, nextRun <= nextRun',
             \/ pc \in {"go", "label"}
             \/ pc = "register" /\ obj[o].kind = "queued"
             => obj'[o].run \in Logged',
             \A r \in Runs : r = obj'[o].run => mon[r].pc = "off",
             Begun' = Begun, Logged \subseteq Logged', LogSafe,
             status' # "running", active' \in {active, o, 0},
             IF pc = "gone" THEN TRUE ELSE entry' = entry
      PROVE  KeepInv'
  <2>1. Aside(o)
    BY <1>4, <1>5 DEF Aside
  <2>2. RestAside(o)
    BY <1>0, <1>3, <1>5 DEF RestAside, FlagsKept, Early
  <2>3. Duty(o)'
    BY <1>1, <1>4, <1>5 DEF Duty, FlagsKept, Before, Opening, Early, Going, Ending
  <2> QED
    BY <1>0, <1>5, <2>1, <2>2, <2>3, ActorKeep
<1>6. CASE Register(o)
  <2>1. PICK pc \in {"queue", "go", "gone"} :
          /\ Goto(o, pc)
          /\ pc = "gone" => active' = active
          /\ pc # "gone" => active' = o /\ entry' = entry
          /\ pc = "go" => obj[o].kind # "direct"
    BY <1>6 DEF Register
  <2>2. Becomes(o, pc, obj[o].fin, obj[o].st) /\ FlagsKept(o)
    BY <2>1, GotoBecomes
  <2>3. /\ Logged' = Logged /\ Begun' = Begun /\ LogSafe /\ status' = status
        /\ nextRun' = nextRun
    BY <1>6, LogSame DEF Register, diskVars, gateVars, LogSafe
  <2>4. obj[o].kind # "direct" => obj[o].run \in Logged
    BY <1>4, <1>6 DEF Register, At, Duty
  <2> QED
    BY <1>4, <1>5, <2>1, <2>2, <2>3, <2>4 DEF Becomes
<1>7. CASE AppendQueued(o)
  <2>1. PICK ok \in BOOLEAN :
          /\ AppendEvent(Event(obj[o].run, "queued", 0, obj[o].mode), ok)
          /\ Goto(o, IF ok THEN "label" ELSE "undo")
    BY <1>7 DEF AppendQueued
  <2> PICK e : e = Event(obj[o].run, "queued", 0, obj[o].mode)
    OBVIOUS
  <2>2. e \in Events /\ e.run = obj[o].run /\ e.kind = "queued"
    <3>1. obj[o].run \in Runs /\ obj[o].mode \in Modes
      BY <1>7 DEF AppendQueued, At, Named, ObjStates
    <3> QED
      BY <3>1, EventTypes DEF Event
  <2>3. /\ LogSafe /\ Logged \subseteq Logged' /\ (ok => e.run \in Logged')
        /\ Begun' = Begun
    BY <1>4, <2>1, <2>2, Says
  <2>4. PICK pc \in {"label", "undo"} : Goto(o, pc) /\ (pc = "label" => ok)
    BY <2>1
  <2>5. Becomes(o, pc, obj[o].fin, obj[o].st) /\ FlagsKept(o)
    BY <2>4, GotoBecomes
  <2>6. status' = status /\ active' = active /\ entry' = entry /\ nextRun' = nextRun
    BY <1>7 DEF AppendQueued, gateVars
  <2> QED
    BY <1>4, <1>5, <2>2, <2>3, <2>4, <2>5, <2>6 DEF Becomes
<1>8. CASE EditQueued(o)
  <2>1. PICK ok \in BOOLEAN : /\ EditStatus("queued", ok)
                              /\ Goto(o, IF ok THEN "go" ELSE "undo")
    BY <1>8 DEF EditQueued
  <2>2. PICK pc \in {"go", "undo"} : Goto(o, pc)
    BY <2>1
  <2>3. Becomes(o, pc, obj[o].fin, obj[o].st) /\ FlagsKept(o)
    BY <2>2, GotoBecomes
  <2>4. status' # "running"
    BY <1>4, <2>1, EditStep
  <2>5. /\ Logged' = Logged /\ Begun' = Begun /\ LogSafe
        /\ active' = active /\ entry' = entry /\ nextRun' = nextRun
    BY <1>8, LogSame DEF EditQueued, gateVars, LogSafe
  <2>6. obj[o].run \in Logged
    BY <1>8 DEF EditQueued, At, Duty
  <2> QED
    BY <1>4, <1>5, <2>2, <2>3, <2>4, <2>5, <2>6 DEF Becomes
<1>9. CASE Rollback(o)
  <2>1. obj' = [obj EXCEPT ![o] = [obj[o] EXCEPT !.pc = "gone", !.ctx = TRUE]]
    BY <1>9 DEF Rollback
  <2>2. Becomes(o, "gone", obj[o].fin, obj[o].st) /\ FlagsKept(o)
    BY <2>1 DEF Becomes, FlagsKept, ObjStates
  <2>3. /\ Logged' = Logged /\ Begun' = Begun /\ LogSafe /\ status' = status
        /\ active' = 0 /\ nextRun' = nextRun
    BY <1>9, LogSame DEF Rollback, gateVars, diskVars, LogSafe
  <2> QED
    BY <1>4, <1>5, <2>2, <2>3 DEF Becomes
<1>10. CASE ReadRefused(o)
  <2>1. Goto(o, "gone")
    BY <1>10 DEF ReadRefused
  <2>2. Becomes(o, "gone", obj[o].fin, obj[o].st) /\ FlagsKept(o)
    BY <2>1, GotoBecomes
  <2>3. /\ Logged' = Logged /\ Begun' = Begun /\ LogSafe /\ status' = status
        /\ active' = active /\ nextRun' = nextRun
    BY <1>10, LogSame DEF ReadRefused, gateVars, diskVars, LogSafe
  <2> QED
    BY <1>4, <1>5, <2>2, <2>3 DEF Becomes
<1>11. CASE Synthesise(o)
  <2>1. PICK ok \in BOOLEAN :
          /\ AppendEvent(Event(obj[o].run, "queued", 0, "work"), ok)
          /\ Goto(o, IF ok THEN "register" ELSE "gone")
          /\ entry' = IF ok THEN entry ELSE 0
    BY <1>11 DEF Synthesise
  <2> PICK e : e = Event(obj[o].run, "queued", 0, "work")
    OBVIOUS
  <2>2. e \in Events /\ e.run = obj[o].run /\ e.kind = "queued"
    <3>1. obj[o].run \in Runs /\ "work" \in Modes
      BY <1>11 DEF Synthesise, At, Named, Modes
    <3> QED
      BY <3>1, EventTypes DEF Event
  <2>3. /\ LogSafe /\ Logged \subseteq Logged' /\ (ok => e.run \in Logged')
        /\ Begun' = Begun
    BY <1>4, <2>1, <2>2, Says
  <2>4. PICK pc \in {"register", "gone"} :
          Goto(o, pc) /\ (pc = "register" => ok /\ entry' = entry)
    BY <2>1
  <2>5. Becomes(o, pc, obj[o].fin, obj[o].st) /\ FlagsKept(o)
    BY <2>4, GotoBecomes
  <2>6. status' = status /\ active' = active /\ nextRun' = nextRun
    BY <1>11 DEF Synthesise, gateVars
  <2> QED
    BY <1>4, <1>5, <2>2, <2>3, <2>4, <2>5, <2>6 DEF Becomes
<1>12. CASE ReadQueued(o)
  <2>1. /\ Logged' = Logged /\ Begun' = Begun /\ LogSafe /\ status' = status
        /\ active' = active /\ entry' = entry /\ obj[o].pc = "claimed"
    BY <1>12, LogSame DEF ReadQueued, At, gateVars, diskVars, LogSafe
  <2>2. CASE OpenQueued # {}
    <3> PICK r : r = LatestOf(OpenQueued)
      OBVIOUS
    <3>1. r \in OpenQueued
      BY <2>2, LatestIn DEF OpenQueued
    <3>2. r \in Logged /\ r \notin Begun /\ r \in Runs /\ mon[r].pc = "off"
      BY <1>2, <3>1 DEF OpenQueued, Begun, RestKeep, MonKeep
    <3> PICK m : m = ModeOf(r)
      OBVIOUS
    <3>3. /\ obj' = [obj EXCEPT ![o] = [obj[o] EXCEPT !.pc = "register", !.run = r,
                                                      !.mode = m]]
          /\ nextRun' = nextRun
      BY <1>12, <2>2 DEF ReadQueued
    <3>4. /\ obj'[o].pc = "register" /\ obj'[o].fin = obj[o].fin
          /\ obj'[o].kind = obj[o].kind /\ obj'[o].run = r /\ FlagsKept(o)
          /\ \A q \in Objs : q # o => obj'[q] = obj[q]
      BY <3>3 DEF ObjStates, FlagsKept
    <3>5. obj'[o].run < nextRun'
      BY <1>2, <3>2, <3>3, <3>4
    <3> QED
      BY <1>4, <1>5, <2>1, <3>2, <3>3, <3>4, <3>5
  <2>3. CASE OpenQueued = {}
    <3>1. /\ obj' = [obj EXCEPT ![o] = [obj[o] EXCEPT !.pc = "synth", !.run = nextRun]]
          /\ nextRun' = nextRun + 1
      BY <1>12, <2>3 DEF ReadQueued
    <3>2. /\ obj'[o].pc = "synth" /\ obj'[o].fin = obj[o].fin
          /\ obj'[o].kind = obj[o].kind /\ obj'[o].run = nextRun /\ FlagsKept(o)
          /\ \A q \in Objs : q # o => obj'[q] = obj[q]
      BY <3>1 DEF ObjStates, FlagsKept
    <3>3. nextRun \notin Begun
      BY <1>2
    <3>4. \A r \in Runs : r = nextRun => mon[r].pc = "off"
      BY <3>3 DEF RestKeep, MonKeep
    <3>5. obj'[o].run < nextRun' /\ nextRun <= nextRun' /\ nextRun' \in Nat
      BY <3>1, <3>2
    <3> QED
      BY <1>4, <1>5, <2>1, <3>2, <3>3, <3>4, <3>5
  <2> QED
    BY <2>2, <2>3
<1> QED
  BY <1>6, <1>7, <1>8, <1>9, <1>10, <1>11, <1>12 DEF Setup

LEMMA GoroutineKeep ==
    ASSUME RangeInv, KeepInv, NEW o \in Objs, Goroutine(o)
    PROVE  KeepInv'
<1> USE KeepFacts
<1>0. UNCHANGED sideVars /\ up /\ up' = up /\ active' = active
      /\ nextRun' = nextRun /\ obj[o].pc \in Going
  BY DEF Goroutine, GoCancelled, Spawn, SpawnFail, OnStarted, EditRunning,
         AppendStarted, Outcome, PostRun, CloseDone, AfterQueued, At, gateVars,
         Going, Ending
<1>1. /\ canc' = canc /\ rec' = rec /\ mon' = mon /\ (Waits(o)' <=> Waits(o))
      /\ (Startup' <=> Startup)
  BY <1>0, SidesStay
<1>2. /\ Begun \subseteq Logged /\ Logged \subseteq Runs
      /\ \A r \in Logged : r < nextRun
  BY BegunFacts
<1>3. Duty(o)
  OBVIOUS
<1>4. /\ ~Startup /\ obj[o].kind \in {"direct", "queued"}
      /\ obj[o].run \in Logged /\ obj[o].run < nextRun
      /\ obj[o].cancelled /\ obj[o].fin = "free" /\ obj[o].kind = "direct" => Waits(o)
      /\ canc[o].pc # "idle" => canc[o].obj = o /\ obj[o].kind = "queued"
      /\ active = o => \A r \in Runs : r = obj[o].run => mon[r].pc = "off"
  <2>1. obj[o].kind \in {"direct", "queued", "stub"}
    BY DEF ObjStates
  <2>2. obj[o].pc \notin {"stub", "unused", "gone"}
    BY <1>0 DEF Going, Ending
  <2>3. ~Startup /\ obj[o].kind # "stub" /\ obj[o].run \in Logged
        /\ obj[o].run < nextRun
    BY <1>0, <1>3, <2>2 DEF Duty
  <2>4. obj[o].cancelled /\ obj[o].fin = "free" /\ obj[o].kind = "direct" => Waits(o)
    BY <1>3 DEF Duty
  <2>5. canc[o].pc # "idle" => canc[o].obj = o /\ obj[o].kind = "queued"
    BY <1>3 DEF Duty
  <2>6. active = o => \A r \in Runs : r = obj[o].run => mon[r].pc = "off"
    BY <1>3, <2>2 DEF Duty
  <2> QED
    BY <2>1, <2>3, <2>4, <2>5, <2>6
\* The goroutine goes on, or ends.
<1>5. ASSUME NEW pc \in (Going \ {"go"}) \cup {"gone"}, NEW fin,
             obj'[o].pc = pc, obj'[o].fin = fin, obj'[o].kind = obj[o].kind,
             obj'[o].run = obj[o].run, obj'[o].cancelled = obj[o].cancelled,
             obj[o].done => obj'[o].done,
             \A q \in Objs : q # o => obj'[q] = obj[q],
             pc \in {"started", "mark", "record"} =>
                entry = o /\ entry' = entry /\ obj[o].run \notin Begun',
             pc \in {"started", "mark"} => status' # "running",
             obj'[o].done => pc \in {"after", "gone"},
             fin # "free" => pc \in Ending \cup {"gone"},
             fin = "free" => obj[o].fin = "free",
             pc \in {"close", "after"} => obj[o].cancelled \/ fin = "done",
             pc = "gone" => obj[o].kind = "direct" \/ fin = "done",
             status' = "running" => status = "running" \/ entry = o,
             Begun' = Begun \/ entry = o, LogSafe, Logged \subseteq Logged',
             entry' = entry \/ entry = o
      PROVE  KeepInv'
  <2>1. Aside(o)
    BY <1>0, <1>4, <1>5 DEF Aside
  <2>2. RestAside(o)
    BY <1>0, <1>5 DEF RestAside, Going, Ending
  <2>3. \A r \in Runs : r = obj'[o].run /\ active' = o => mon'[r].pc = "off"
    BY <1>0, <1>1, <1>4, <1>5
  <2>4. Duty(o)'
    BY <1>0, <1>1, <1>4, <1>5, <2>3 DEF Duty, Before, Opening, Early, Going, Ending
  <2> QED
    BY <1>0, <1>5, <2>1, <2>2, <2>4, ActorKeep
<1>still. ASSUME log' = log
          PROVE  Begun' = Begun /\ Logged' = Logged /\ LogSafe
  BY <1>still, LogSame DEF LogSafe
\* The start, with its process.
<1>6. ASSUME NEW pc \in {"started", "mark", "record", "wait", "post"}, NEW st,
             Becomes(o, pc, obj[o].fin, st), FlagsKept(o), entry' = entry,
             pc \in {"started", "mark", "record"} => obj[o].pc \in {"go", "started", "mark"},
             obj[o].pc \in {"go", "started", "mark", "record", "wait"},
             status' # "running" \/ obj[o].pc = "mark" \/ status' = status,
             pc \in {"started", "mark"} => status' = status,
             IF obj[o].pc = "record" THEN pc = "wait" ELSE Begun' = Begun,
             LogSafe, Logged \subseteq Logged'
      PROVE  KeepInv'
  <2>1. /\ obj[o].pc \in {"go", "started", "mark", "record"} =>
              entry = o /\ obj[o].run \notin Begun
        /\ obj[o].pc \in {"go", "started", "mark"} => status # "running"
        /\ ~obj[o].done /\ obj[o].fin = "free"
    BY <1>3, <1>6 DEF Duty, Before, Opening, Ending
  <2>2. obj'[o].fin = "free" /\ ~obj'[o].done
    BY <1>6, <2>1 DEF Becomes, FlagsKept
  <2> QED
    BY <1>5, <1>6, <2>1, <2>2 DEF Becomes, FlagsKept, Going, Ending
<1>7. CASE GoCancelled(o)
  <2>1. Becomes(o, "close", obj[o].fin, obj[o].st) /\ FlagsKept(o)
    BY <1>7, GotoBecomes DEF GoCancelled
  <2>2. /\ obj[o].pc = "go" /\ obj[o].cancelled /\ log' = log /\ status' = status
        /\ entry' = entry
    BY <1>7 DEF GoCancelled, At, diskVars
  <2>3. ~obj[o].done /\ obj[o].fin = "free"
    BY <1>3, <2>2 DEF Duty, Ending
  <2> QED
    BY <1>5, <1>still, <2>1, <2>2, <2>3 DEF Becomes, FlagsKept, Going, Ending
<1>8. CASE Spawn(o)
  <2>1. Becomes(o, "started", obj[o].fin, obj[o].st) /\ FlagsKept(o)
    BY <1>8, GotoBecomes DEF Spawn
  <2> QED
    BY <1>6, <1>8, <1>still, <2>1 DEF Spawn, At, diskVars
<1>9. CASE SpawnFail(o)
  <2>1. obj' = [obj EXCEPT ![o] = [obj[o] EXCEPT !.pc = "post", !.st = "failed"]]
    BY <1>9 DEF SpawnFail
  <2>2. Becomes(o, "post", obj[o].fin, "failed") /\ FlagsKept(o)
    BY <2>1 DEF Becomes, FlagsKept, ObjStates
  <2> QED
    BY <1>6, <1>9, <1>still, <2>2 DEF SpawnFail, At, diskVars
<1>10. CASE OnStarted(o)
  <2> PICK pc \in {"wait", "mark"} : pc = IF obj[o].cancelled THEN "wait" ELSE "mark"
    OBVIOUS
  <2>1. obj' = [obj EXCEPT ![o] = [obj[o] EXCEPT !.pid = o, !.pc = pc]]
    BY <1>10 DEF OnStarted
  <2>2. Becomes(o, pc, obj[o].fin, obj[o].st) /\ FlagsKept(o)
    BY <2>1 DEF Becomes, FlagsKept, ObjStates
  <2> QED
    BY <1>6, <1>10, <1>still, <2>2 DEF OnStarted, At, diskVars
<1>11. CASE EditRunning(o)
  <2>1. Becomes(o, "record", obj[o].fin, obj[o].st) /\ FlagsKept(o)
    BY <1>11, GotoBecomes DEF EditRunning
  <2> QED
    BY <1>6, <1>11, <1>still, <2>1 DEF EditRunning, At
<1>12. CASE AppendStarted(o)
  <2>1. Becomes(o, "wait", obj[o].fin, obj[o].st) /\ FlagsKept(o)
    BY <1>12, GotoBecomes DEF AppendStarted
  <2>2. PICK ok \in BOOLEAN :
          AppendEvent(Event(obj[o].run, "started", o, "none"), ok)
    BY <1>12 DEF AppendStarted
  <2> PICK e : e = Event(obj[o].run, "started", o, "none")
    OBVIOUS
  <2>3. e \in Events /\ e.run = obj[o].run /\ e.kind = "started"
    BY <1>2, <1>4, EventTypes DEF Event
  <2>4. LogSafe /\ Logged \subseteq Logged'
    BY <1>4, <2>2, <2>3, Says
  <2> QED
    BY <1>6, <1>12, <2>1, <2>4 DEF AppendStarted, At
<1>13. CASE Outcome(o)
  <2>1. PICK st \in {"success", "failed"} :
          obj' = [obj EXCEPT ![o] = [obj[o] EXCEPT !.pc = "post", !.st = st]]
    BY <1>13 DEF Outcome
  <2>2. Becomes(o, "post", obj[o].fin, st) /\ FlagsKept(o)
    BY <2>1 DEF Becomes, FlagsKept, ObjStates
  <2> QED
    BY <1>6, <1>13, <1>still, <2>2 DEF Outcome, At, diskVars
\* finishOnce is entered by the goroutine.
<1>14. ASSUME NEW s, obj' = [obj EXCEPT ![o] = Claimed(o, s)], log' = log,
              status' = status, entry' = entry, obj[o].fin = "free",
              obj[o].pc = "post" \/ (obj[o].pc = "after" /\ obj[o].cancelled)
       PROVE  KeepInv'
  <2>1. Becomes(o, obj[o].pc, "append", s) /\ FlagsKept(o)
    BY <1>14, ClaimBecomes
  <2>2. obj[o].done => obj[o].pc = "after"
    BY <1>3, <1>14 DEF Duty
  <2> QED
    BY <1>5, <1>14, <1>still, <2>1, <2>2 DEF Becomes, FlagsKept, Going, Ending
<1>15. CASE PostRun(o)
  <2>1. obj[o].pc = "post" /\ log' = log /\ status' = status /\ entry' = entry
    BY <1>15 DEF PostRun, At, diskVars
  <2>2. CASE obj[o].cancelled \/ obj[o].fin = "done"
    <3>1. Becomes(o, "close", obj[o].fin, obj[o].st) /\ FlagsKept(o)
      BY <1>15, <2>2, GotoBecomes DEF PostRun
    <3>2. ~obj[o].done
      BY <1>3, <2>1 DEF Duty
    <3> QED
      BY <1>5, <1>still, <2>1, <2>2, <3>1, <3>2 DEF Becomes, FlagsKept, Going, Ending
  <2>3. CASE ~(obj[o].cancelled \/ obj[o].fin = "done")
    BY <1>14, <1>15, <2>1, <2>3 DEF PostRun
  <2> QED
    BY <2>2, <2>3
<1>16. CASE CloseDone(o)
  <2> PICK pc : pc = IF obj[o].kind = "queued" THEN "after" ELSE "gone"
    OBVIOUS
  <2>1. obj' = [obj EXCEPT ![o] = [obj[o] EXCEPT !.done = TRUE, !.pc = pc]]
    BY <1>16 DEF CloseDone
  <2>2. /\ Becomes(o, pc, obj[o].fin, obj[o].st) /\ obj'[o].done = TRUE
        /\ obj'[o].cancelled = obj[o].cancelled
    BY <2>1 DEF Becomes, ObjStates
  <2>3. /\ obj[o].pc = "close" /\ log' = log /\ status' = status /\ entry' = entry
    BY <1>16 DEF CloseDone, At, diskVars
  <2>4. obj[o].cancelled \/ obj[o].fin = "done"
    BY <1>3, <2>3 DEF Duty
  <2>5. pc \in {"after", "gone"} /\ (pc = "gone" => obj[o].kind = "direct")
    BY <1>4
  <2>6. obj'[o].pc = pc /\ obj'[o].fin = obj[o].fin /\ obj'[o].kind = obj[o].kind
        /\ obj'[o].run = obj[o].run /\ \A q \in Objs : q # o => obj'[q] = obj[q]
    BY <2>2 DEF Becomes
  <2> QED
    BY <1>5, <1>still, <2>2, <2>3, <2>4, <2>5, <2>6 DEF Going, Ending
<1>17. CASE AfterQueued(o)
  <2>1. obj[o].pc = "after" /\ log' = log /\ status' = status
    BY <1>17 DEF AfterQueued, At, diskVars
  <2>2. CASE obj[o].cancelled /\ obj[o].fin # "done"
    BY <1>14, <1>17, <2>1, <2>2 DEF AfterQueued
  <2>3. CASE ~(obj[o].cancelled /\ obj[o].fin # "done")
    <3>1. Goto(o, "gone") /\ entry' = IF entry = o THEN 0 ELSE entry
      BY <1>17, <2>3 DEF AfterQueued
    <3>2. Becomes(o, "gone", obj[o].fin, obj[o].st) /\ FlagsKept(o)
      BY <3>1, GotoBecomes
    <3>3. obj[o].fin = "done"
      BY <1>3, <2>1, <2>3 DEF Duty
    <3> QED
      BY <1>5, <1>still, <2>1, <3>1, <3>2, <3>3 DEF Becomes, FlagsKept
  <2> QED
    BY <2>2, <2>3
<1> QED
  BY <1>7, <1>8, <1>9, <1>10, <1>11, <1>12, <1>13, <1>15, <1>16, <1>17 DEF Goroutine

LEMMA TerminalKeep ==
    ASSUME RangeInv, KeepInv, NEW o \in Objs, RecordTerminal(o)
    PROVE  KeepInv'
<1> USE KeepFacts
<1>0. /\ UNCHANGED sideVars /\ up /\ up' = up /\ nextRun' = nextRun
      /\ obj[o].fin \in {"append", "read", "edit", "delete"}
      /\ active' \in {active, 0} /\ (entry' = entry \/ entry = o)
  BY DEF RecordTerminal, TerminalAppend, TerminalRead, TerminalEdit,
         TerminalDelete, Fin, gateVars
<1>1. /\ canc' = canc /\ rec' = rec /\ mon' = mon /\ (Waits(o)' <=> Waits(o))
      /\ (Startup' <=> Startup)
  BY <1>0, SidesStay
<1>2. Duty(o) /\ obj[o].run \in Logged /\ obj[o].run < nextRun
      /\ obj[o].pc \in Ending \cup {"gone", "stub"}
  BY <1>0 DEF Duty
\* The writer goes on, where the goroutine is.
<1>3. ASSUME NEW f \in {"read", "edit", "delete", "done"}, NEW st,
             Becomes(o, obj[o].pc, f, st), FlagsKept(o),
             status' = "running" => status = "running",
             Begun' = Begun, LogSafe, Logged \subseteq Logged'
      PROVE  KeepInv'
  <2>1. Aside(o)
    BY <1>0, <1>3 DEF Aside, Becomes
  <2>2. RestAside(o)
    BY <1>0, <1>3 DEF RestAside, Becomes, FlagsKept
  <2>3. Duty(o)'
    <3>1. /\ obj'[o].pc = obj[o].pc /\ obj'[o].fin = f /\ obj'[o].run = obj[o].run
          /\ obj'[o].kind = obj[o].kind /\ obj'[o].done = obj[o].done
          /\ obj'[o].cancelled = obj[o].cancelled
      BY <1>3 DEF Becomes, FlagsKept
    <3>2. active' = o => active = o
      BY <1>0
    <3>3. \A r \in Runs : r = obj'[o].run /\ active' = o /\ obj'[o].pc # "stub"
                            => mon'[r].pc = "off"
      BY <1>1, <1>2, <3>1, <3>2 DEF Duty
    <3>4. Startup' => /\ obj'[o].pc \in {"unused", "gone", "stub"}
                      /\ active' = o => obj'[o].pc = "stub"
      BY <1>1, <1>2, <3>1, <3>2 DEF Duty
    <3> QED
      BY <1>0, <1>1, <1>2, <1>3, <3>1, <3>3, <3>4
      DEF Duty, Before, Opening, Early, Going, Ending
  <2> QED
    BY <1>0, <1>3, <2>1, <2>2, <2>3, ActorKeep
<1>still. ASSUME log' = log
          PROVE  Begun' = Begun /\ Logged' = Logged /\ LogSafe
  BY <1>still, LogSame DEF LogSafe
<1>4. CASE TerminalAppend(o)
  <2>1. PICK f \in {"read", "edit"} : SetFin(o, f)
    BY <1>4 DEF TerminalAppend
  <2>2. Becomes(o, obj[o].pc, f, obj[o].st) /\ FlagsKept(o)
    BY <2>1, FinBecomes
  <2>3. PICK ok \in BOOLEAN :
          AppendEvent(Event(obj[o].run, "finished", 0, obj[o].st), ok)
    BY <1>4 DEF TerminalAppend
  <2> PICK e : e = Event(obj[o].run, "finished", 0, obj[o].st)
    OBVIOUS
  <2>4. e \in Events /\ e.run = obj[o].run /\ e.kind = "finished"
    <3>1. obj[o].run \in Runs /\ obj[o].st \in Terminal
      BY <1>4 DEF TerminalAppend, Fin, Named
    <3> QED
      BY <3>1, EventTypes DEF Event
  <2>5. LogSafe /\ Logged \subseteq Logged' /\ Begun' = Begun
    BY <1>2, <2>3, <2>4, Says
  <2> QED
    BY <1>3, <1>4, <2>2, <2>5 DEF TerminalAppend
<1>5. CASE TerminalRead(o)
  <2>1. log' = log /\ status' = status
    BY <1>5 DEF TerminalRead, diskVars
  <2>2. CASE \E f \in {"delete", "edit"} : SetFin(o, f)
    <3>1. PICK f \in {"delete", "edit"} : SetFin(o, f)
      BY <2>2
    <3>2. Becomes(o, obj[o].pc, f, obj[o].st) /\ FlagsKept(o)
      BY <3>1, FinBecomes
    <3> QED
      BY <1>3, <1>still, <2>1, <3>2
  <2>3. CASE obj' = [obj EXCEPT ![o] = [obj[o] EXCEPT !.fin = "edit", !.st = "none"]]
    <3>1. Becomes(o, obj[o].pc, "edit", "none") /\ FlagsKept(o)
      BY <2>3 DEF Becomes, FlagsKept, ObjStates
    <3> QED
      BY <1>3, <1>still, <2>1, <3>1
  <2> QED
    BY <1>5, <2>2, <2>3 DEF TerminalRead
<1>6. CASE TerminalEdit(o)
  <2>1. Becomes(o, obj[o].pc, "delete", obj[o].st) /\ FlagsKept(o)
    BY <1>6, FinBecomes DEF TerminalEdit
  <2>2. PICK ok \in BOOLEAN : EditStatus(obj[o].st, ok)
    BY <1>6 DEF TerminalEdit
  <2>3. status' = "running" => status = "running"
    <3>1. obj[o].st \in Terminal \cup {"none"}
      BY DEF ObjStates
    <3>2. obj[o].st # "running"
      BY <3>1 DEF Terminal
    <3> QED
      BY <2>2, <3>2, EditStep
  <2> QED
    BY <1>3, <1>6, <1>still, <2>1, <2>3 DEF TerminalEdit
<1>7. CASE TerminalDelete(o)
  <2>1. Becomes(o, obj[o].pc, "done", obj[o].st) /\ FlagsKept(o)
    BY <1>7, FinBecomes DEF TerminalDelete
  <2> QED
    BY <1>3, <1>7, <1>still, <2>1 DEF TerminalDelete, diskVars
<1> QED
  BY <1>4, <1>5, <1>6, <1>7 DEF RecordTerminal

\* The objects stay, and so does whoever cancels, scans or monitors.
LEMMA StillKeep ==
    ASSUME RangeInv, KeepInv, obj' = obj, active' = active, entry' = entry,
           up' = up, nextRun' = nextRun, UNCHANGED sideVars,
           status' = "running" => status = "running",
           LogSafe, Begun' = Begun
    PROVE  KeepInv'
<1>0. CASE Objs = {}
  <2>1. LogKept
    BY LogSafeKeeps DEF KeepInv, RestKeep
  <2> QED
    BY <1>0, <2>1, SidesStay
    DEF LogKept, KeepInv, RestKeep, RunsCounted, MonKeep, CancelWaited, RecKeep,
        DownKeep, RunningLogged
<1>1. ASSUME NEW o \in Objs
      PROVE  KeepInv'
  <2> USE KeepFacts
  <2>1. Aside(o) /\ RestAside(o)
    BY DEF Aside, RestAside
  <2>2. LogKept /\ Logged \subseteq Logged'
    BY LogSafeKeeps DEF RestKeep, LogKept
  <2>3. /\ canc' = canc /\ rec' = rec /\ mon' = mon /\ (Waits(o)' <=> Waits(o))
        /\ (Startup' <=> Startup)
    BY SidesStay
  <2>4. Duty(o)'
    BY <2>2, <2>3 DEF Duty
  <2> QED
    BY <2>1, <2>4, ActorKeep
<1> QED
  BY <1>0, <1>1

LEMMA OtherKeep ==
    ASSUME RangeInv, KeepInv, NEW o \in Objs,
           AppendSession(o) \/ ProcessExit(o) \/ NeedsUser(o)
    PROVE  KeepInv'
<1> USE KeepFacts
<1>1. /\ obj' = obj /\ active' = active /\ entry' = entry /\ up' = up
      /\ nextRun' = nextRun /\ UNCHANGED sideVars
      /\ status' = "running" => status = "running"
  BY DEF AppendSession, ProcessExit, NeedsUser, gateVars, diskVars
<1>2. CASE AppendSession(o)
  <2>1. PICK ok \in BOOLEAN :
          AppendEvent(Event(obj[o].run, "session", o, "none"), ok)
    BY <1>2 DEF AppendSession
  <2> PICK e : e = Event(obj[o].run, "session", o, "none")
    OBVIOUS
  <2>2. obj[o].run \in Logged /\ obj[o].run \in Begun /\ obj[o].run < nextRun
    BY <1>2 DEF AppendSession, At, Duty, Going, Begun
  <2>3. e \in Events /\ e.run = obj[o].run /\ e.kind = "session"
    BY <2>2, BegunFacts, EventTypes DEF Event
  <2>4. LogSafe /\ Begun' = Begun
    BY <2>1, <2>2, <2>3, Says
  <2> QED
    BY <1>1, <2>4, StillKeep
<1>3. CASE ProcessExit(o) \/ NeedsUser(o)
  <2>1. log' = log
    BY <1>3 DEF ProcessExit, NeedsUser, diskVars
  <2>2. LogSafe /\ Begun' = Begun
    BY <2>1, LogSame DEF LogSafe
  <2> QED
    BY <1>1, <2>2, StillKeep
<1> QED
  BY <1>2, <1>3

-----------------------------------------------------------------------------
(* Whoever cancels.                                                        *)

Waiting == {"kill", "grace", "await", "finish"}

\* A canceller c moves to y, and the object d becomes x.
CancelMoves(c, y, d, x) ==
    /\ canc' = [canc EXCEPT ![c] = y] /\ obj' = [obj EXCEPT ![d] = x]
    /\ x.pc = obj[d].pc /\ x.run = obj[d].run /\ x.kind = obj[d].kind
    /\ obj[d].done => x.done
    /\ x.done => obj[d].done \/ obj[d].pc = "stub"
    /\ \/ x.fin = obj[d].fin
       \/ x.fin = "append" /\ obj[d].fin = "free" /\ obj[d].done
    /\ \/ x.cancelled = obj[d].cancelled
       \/ c \in Objs /\ d = c /\ y.pc # "idle"
       \/ c \in Cancellers /\ y.obj = d /\ y.pc = "kill"
    /\ x.fin # obj[d].fin => x.cancelled = obj[d].cancelled
    /\ obj[d].cancelled => x.cancelled
    /\ c \in Objs /\ y.pc # "idle" =>
          /\ y.obj = c /\ obj[c].kind = "queued"
          /\ obj[c].pc \in Going \/ (obj[c].pc = "gone" /\ obj[c].fin = "done")
    /\ c \in Cancellers /\ canc[c].pc \in Waiting =>
          \/ y.obj = canc[c].obj /\ y.pc \in Waiting
          \/ obj[canc[c].obj].fin = "done"
    /\ y.pc = "finish" => y.obj = d /\ obj[d].done

LEMMA CancelMovesKeep ==
    ASSUME RangeInv, KeepInv, NEW c \in Cancellers \cup Watchers,
           NEW y \in CancStates, NEW d \in Objs, NEW x \in ObjStates,
           CancelMoves(c, y, d, x), up, up' = up, rec' = rec, mon' = mon,
           active' = active, entry' = entry, log' = log, status' = status,
           nextRun' = nextRun
    PROVE  KeepInv'
<1> USE KeepFacts
<1>1. /\ obj'[d] = x /\ \A q \in Objs : q # d => obj'[q] = obj[q]
      /\ canc'[c] = y
      /\ \A b \in Cancellers \cup Watchers : b # c => canc'[b] = canc[b]
  BY DEF CancelMoves
<1>2. /\ Logged' = Logged /\ Begun' = Begun /\ (Startup' <=> Startup) /\ View' = View
      /\ \A r, k : Has(r, k)' <=> Has(r, k)
  BY LogSame DEF Startup
<1>3. Watchers = Objs /\ Cancellers \cap Objs = {}
  BY AgentRunAssumption DEF Watchers, Objs
\* Whoever waits for a record to be written goes on, unless it is.
<1>4. ASSUME NEW q \in Objs, Waits(q), obj[q].fin # "done"
      PROVE  Waits(q)'
  <2>1. PICK b \in Cancellers : canc[b].obj = q /\ canc[b].pc \in Waiting
    BY <1>4 DEF Waits, Waiting
  <2>2. canc'[b].obj = q /\ canc'[b].pc \in Waiting
    BY <1>1, <1>4, <2>1 DEF CancelMoves
  <2> QED
    BY <2>2 DEF Waits, Waiting
<1>5. ASSUME NEW q \in Objs
      PROVE  /\ obj'[q].pc = obj[q].pc /\ obj'[q].run = obj[q].run
             /\ obj'[q].kind = obj[q].kind /\ (obj[q].done => obj'[q].done)
             /\ obj'[q].done => obj[q].done \/ obj[q].pc = "stub"
             /\ \/ obj'[q].fin = obj[q].fin
                \/ obj'[q].fin = "append" /\ obj[q].fin = "free" /\ obj[q].done
             /\ obj'[q].fin # obj[q].fin => obj'[q].cancelled = obj[q].cancelled
             /\ obj[q].cancelled => obj'[q].cancelled
  BY <1>1 DEF CancelMoves
<1>6. ASSUME NEW q \in Objs, canc'[q].pc # "idle"
      PROVE  /\ canc'[q].obj = q /\ obj[q].kind = "queued"
             /\ obj[q].pc \in Going \/ (obj[q].pc = "gone" /\ obj[q].fin = "done")
  <2>1. CASE q = c
    BY <1>1, <1>6, <2>1 DEF CancelMoves
  <2>2. CASE q # c
    BY <1>1, <1>3, <1>6, <2>2 DEF Duty
  <2> QED
    BY <2>1, <2>2
<1>7. ASSUME NEW q \in Objs, obj'[q].cancelled, obj'[q].fin = "free"
      PROVE  Waits(q)' \/ (obj[q].kind = "queued" /\ obj[q].pc \in Going)
  <2>1. obj[q].fin = "free"
    BY <1>5, <1>7
  <2>2. CASE obj[q].cancelled
    BY <1>4, <2>1, <2>2 DEF Duty
  <2>3. CASE ~obj[q].cancelled
    <3>1. q = d /\ (\/ c \in Objs /\ d = c /\ y.pc # "idle"
                    \/ c \in Cancellers /\ y.obj = d /\ y.pc = "kill")
      BY <1>1, <1>7, <2>3 DEF CancelMoves, ObjStates
    <3>2. CASE c \in Objs /\ d = c /\ y.pc # "idle"
      BY <2>1, <3>1, <3>2 DEF CancelMoves
    <3>3. CASE c \in Cancellers /\ y.obj = d /\ y.pc = "kill"
      BY <1>1, <3>1, <3>3 DEF Waits
    <3> QED
      BY <3>1, <3>2, <3>3
  <2> QED
    BY <2>2, <2>3
<1>8. ASSUME NEW q \in Objs
      PROVE  Duty(q)'
  <2>1. Duty(q)
    OBVIOUS
  <2>2. /\ obj'[q].fin # "free" => obj'[q].pc \in Ending \cup {"gone", "stub"}
        /\ obj'[q].pc \in {"close", "after"} => obj'[q].cancelled \/ obj'[q].fin = "done"
        /\ obj'[q].done => obj'[q].pc \in {"after", "gone", "stub"}
    BY <1>5, <2>1 DEF Duty, Ending
  <2>3. \/ obj'[q].pc \in Going \cup {"label", "stub"}
        \/ obj'[q].pc = "register" /\ obj'[q].kind = "queued"
        \/ obj'[q].fin # "free" \/ obj'[q].done
        => obj'[q].run \in Logged'
    BY <1>2, <1>5, <2>1 DEF Duty
  <2>4. canc'[q].pc # "idle" =>
          /\ canc'[q].obj = q /\ obj'[q].kind = "queued"
          /\ obj'[q].pc \in Going \/ (obj'[q].pc = "gone" /\ obj'[q].fin = "done")
    BY <1>5, <1>6
  <2>5. obj'[q].cancelled /\ obj'[q].fin = "free" =>
          Waits(q)' \/ (obj'[q].kind = "queued" /\ obj'[q].pc \in Going)
    BY <1>5, <1>7
  <2>6. /\ obj'[q].kind = "stub" <=> obj'[q].pc = "stub"
        /\ obj'[q].pc \in Before \cup {"record"} =>
              entry' = q /\ obj'[q].run \notin Begun'
        /\ obj'[q].pc \in Before => status' # "running"
        /\ obj'[q].run < nextRun'
        /\ Startup' => /\ obj'[q].pc \in {"unused", "gone", "stub"}
                       /\ active' = q => obj'[q].pc = "stub"
        /\ active' = q /\ obj'[q].pc # "stub" =>
              \A r \in Runs : r = obj'[q].run => mon'[r].pc = "off"
    BY <1>2, <1>5, <2>1 DEF Duty
  <2> QED
    BY <2>2, <2>3, <2>4, <2>5, <2>6 DEF Duty
<1>9. RestKeep'
  <2>1. RunsCounted' /\ SessionLater' /\ RunningLogged' /\ RecKeep' /\ DownKeep'
    BY <1>2 DEF RestKeep, RunsCounted, SessionLater, RunningLogged, RecKeep, DownKeep
  <2>2. MonKeep'
    <3>1. ASSUME NEW r \in Runs, mon[r].pc = "claim"
          PROVE  obj'[mon[r].obj].run = r /\ obj'[mon[r].obj].pc = "stub"
      <4>1. /\ mon[r].obj \in Objs /\ obj[mon[r].obj].run = r
            /\ obj[mon[r].obj].pc = "stub"
        BY <3>1 DEF RestKeep, MonKeep, RangeInv, MonOK
      <4> QED
        BY <1>5, <4>1
    <3> QED
      BY <1>2, <3>1 DEF RestKeep, MonKeep
  <2>3. ASSUME NEW b \in Cancellers \cup Watchers, canc'[b].pc = "finish"
        PROVE  obj'[canc'[b].obj].done
    <3>1. CASE b = c
      BY <1>1, <1>5, <2>3, <3>1 DEF CancelMoves
    <3>2. CASE b # c
      <4>1. canc'[b] = canc[b] /\ canc[b].obj \in Objs /\ obj[canc[b].obj].done
        BY <1>1, <2>3, <3>2 DEF RestKeep, CancelWaited, RangeInv, CancOK
      <4> QED
        BY <1>5, <4>1
    <3> QED
      BY <3>1, <3>2
  <2>4. CancelWaited'
    BY <2>3 DEF CancelWaited
  <2> QED
    BY <2>1, <2>2, <2>4 DEF RestKeep
<1> QED
  BY <1>8, <1>9 DEF KeepInv

LEMMA CancelKeep ==
    ASSUME RangeInv, KeepInv, NEW c \in Cancellers \cup Watchers,
           \/ c \in Cancellers /\ CancelFind(c)
           \/ c \in Objs /\ WatcherFires(c)
           \/ CancelRun(c)
    PROVE  KeepInv'
<1>0. /\ canc \in [Cancellers \cup Watchers -> CancStates]
      /\ canc[c] \in CancStates /\ 0 \notin Objs /\ active \in Objs \cup {0}
      /\ Cancellers \cap Objs = {} /\ Watchers = Objs
      /\ obj \in [Objs -> ObjStates]
  BY Types, AgentRunAssumption DEF RangeInv, SideTypes, Objs, Watchers
<1>1. /\ rec' = rec /\ mon' = mon /\ active' = active /\ entry' = entry
      /\ log' = log /\ status' = status /\ nextRun' = nextRun /\ up /\ up' = up
  BY DEF CancelFind, WatcherFires, CancelRun, CancelMark, CancelTerm, CancelKill,
         CancelDone, CancelFinish, CancAt, diskVars, gateVars
<1>2. \A o \in Objs : Duty(o)
  BY DEF KeepInv
<1>3. ASSUME NEW y \in CancStates, NEW d \in Objs, NEW x \in ObjStates,
             CancelMoves(c, y, d, x)
      PROVE  KeepInv'
  BY <1>1, <1>3, CancelMovesKeep
\* The object stays.
<1>4. ASSUME NEW y \in CancStates, NEW d \in Objs, canc' = [canc EXCEPT ![c] = y],
             obj' = obj,
             c \in Objs /\ y.pc # "idle" =>
               /\ y.obj = c /\ obj[c].kind = "queued"
               /\ obj[c].pc \in Going \/ (obj[c].pc = "gone" /\ obj[c].fin = "done"),
             c \in Cancellers /\ canc[c].pc \in Waiting =>
               \/ y.obj = canc[c].obj /\ y.pc \in Waiting
               \/ obj[canc[c].obj].fin = "done",
             y.pc = "finish" => y.obj = d /\ obj[d].done
      PROVE  KeepInv'
  <2> PICK x \in ObjStates : x = obj[d]
    BY <1>0
  <2>1. obj' = [obj EXCEPT ![d] = x]
    BY <1>0, <1>4
  <2> QED
    BY <1>3, <1>4, <2>1 DEF CancelMoves
<1>names. NoCancel \in CancStates /\ NoCancel.pc = "idle"
  BY IdleStates DEF NoCancel
<1>5. CASE c \in Cancellers /\ CancelFind(c)
  <2> PICK y : y = [canc[c] EXCEPT !.pc = "mark", !.obj = active]
    OBVIOUS
  <2>1. /\ canc[c].pc = "idle" /\ active \in Objs /\ obj' = obj
        /\ canc' = [canc EXCEPT ![c] = y]
    BY <1>0, <1>5 DEF CancelFind, CancAt
  <2>2. y \in CancStates /\ y.pc = "mark"
    BY <1>0, <2>1 DEF CancStates
  <2> QED
    BY <1>0, <1>4, <1>5, <2>1, <2>2 DEF Waiting
<1>6. CASE c \in Objs /\ WatcherFires(c)
  <2> PICK y : y = [canc[c] EXCEPT !.pc = "mark", !.obj = c]
    OBVIOUS
  <2>1. /\ canc[c].pc = "idle" /\ obj' = obj /\ canc' = [canc EXCEPT ![c] = y]
        /\ obj[c].kind = "queued" /\ obj[c].pc \in Going
    BY <1>0, <1>6 DEF WatcherFires, CancAt, Going, Ending
  <2>2. y \in CancStates /\ y.pc = "mark" /\ y.obj = c
    BY <1>0, <1>6 DEF CancStates
  <2> QED
    BY <1>0, <1>4, <1>6, <2>1, <2>2
\* The canceller is at its object.
<1> PICK o : o = canc[c].obj
  OBVIOUS
<1>own. ASSUME canc[c].pc # "idle"
        PROVE  /\ o \in Objs /\ obj[o] \in ObjStates
               /\ c \in Objs => /\ o = c /\ obj[c].kind = "queued"
                                /\ \/ obj[c].pc \in Going
                                   \/ obj[c].pc = "gone" /\ obj[c].fin = "done"
  BY <1>0, <1>2, <1>own DEF RangeInv, CancOK, Duty
<1>7. CASE CancelMark(c)
  <2>1. canc[c].pc = "mark" /\ o \in Objs
    BY <1>7, <1>own DEF CancelMark, CancAt
  <2>2. CASE canc' = [canc EXCEPT ![c] = NoCancel] /\ obj' = obj
    BY <1>4, <1>names, <2>1, <2>2 DEF Waiting
  <2>3. CASE SetCanc(c, "kill") /\ obj' = [obj EXCEPT ![o].cancelled = TRUE]
    <3> PICK y : y = [canc[c] EXCEPT !.pc = "kill"]
      OBVIOUS
    <3> PICK x : x = [obj[o] EXCEPT !.cancelled = TRUE]
      OBVIOUS
    <3>1. y \in CancStates /\ y.pc = "kill" /\ y.obj = o
      BY <1>0 DEF CancStates
    <3>2. /\ x \in ObjStates /\ x.pc = obj[o].pc /\ x.run = obj[o].run
          /\ x.kind = obj[o].kind /\ x.done = obj[o].done
          /\ x.fin = obj[o].fin /\ x.cancelled
      BY <1>own, <2>1 DEF ObjStates
    <3>3. canc' = [canc EXCEPT ![c] = y] /\ obj' = [obj EXCEPT ![o] = x]
      BY <1>0, <2>1, <2>3 DEF SetCanc
    <3>4. CancelMoves(c, y, o, x)
      BY <1>0, <1>own, <2>1, <3>1, <3>2, <3>3 DEF CancelMoves, Waiting
    <3> QED
      BY <1>3, <2>1, <3>1, <3>2, <3>4
  <2> QED
    BY <1>7, <2>2, <2>3 DEF CancelMark
<1>8. CASE CancelTerm(c)
  <2>1. canc[c].pc = "kill" /\ o \in Objs
    BY <1>8, <1>own DEF CancelTerm, CancAt
  <2> PICK y : y = [canc[c] EXCEPT !.pc = "grace", !.pid = obj[o].pid]
    OBVIOUS
  <2> PICK x : x = [obj[o] EXCEPT !.ctx = TRUE]
    OBVIOUS
  <2>2. obj[o].pid \in Objs \cup {0}
    BY <1>own, <2>1 DEF ObjStates
  <2>3. y \in CancStates /\ y.pc = "grace" /\ y.obj = o
    BY <1>0, <2>2 DEF CancStates
  <2>4. /\ x \in ObjStates /\ x.pc = obj[o].pc /\ x.run = obj[o].run
        /\ x.kind = obj[o].kind /\ x.done = obj[o].done
        /\ x.fin = obj[o].fin /\ x.cancelled = obj[o].cancelled
    BY <1>own, <2>1 DEF ObjStates
  <2>5. canc' = [canc EXCEPT ![c] = y] /\ obj' = [obj EXCEPT ![o] = x]
    BY <1>0, <1>8, <2>1 DEF CancelTerm
  <2>6. CancelMoves(c, y, o, x)
    BY <1>0, <1>own, <2>1, <2>3, <2>4, <2>5 DEF CancelMoves, Waiting
  <2> QED
    BY <1>3, <2>1, <2>3, <2>4, <2>6
<1>9. CASE CancelKill(c)
  <2>1. canc[c].pc = "grace" /\ o \in Objs /\ ~obj[o].done
    BY <1>9, <1>own DEF CancelKill, CancAt
  <2> PICK y : y = [canc[c] EXCEPT !.pc = "await"]
    OBVIOUS
  <2> PICK x : x = [obj[o] EXCEPT !.done = (obj[o].kind = "stub")]
    OBVIOUS
  <2>2. y \in CancStates /\ y.pc = "await" /\ y.obj = o
    BY <1>0 DEF CancStates
  <2>3. /\ x \in ObjStates /\ x.pc = obj[o].pc /\ x.run = obj[o].run
        /\ x.kind = obj[o].kind /\ (x.done <=> obj[o].kind = "stub")
        /\ x.fin = obj[o].fin /\ x.cancelled = obj[o].cancelled
    BY <1>own, <2>1 DEF ObjStates
  <2>4. canc' = [canc EXCEPT ![c] = y] /\ obj' = [obj EXCEPT ![o] = x]
    BY <1>0, <1>9, <2>1 DEF CancelKill, SetCanc
  <2>5. obj[o].kind = "stub" => obj[o].pc = "stub"
    BY <1>2, <2>1 DEF Duty
  <2>6. CancelMoves(c, y, o, x)
    BY <1>0, <1>own, <2>1, <2>2, <2>3, <2>4, <2>5 DEF CancelMoves, Waiting
  <2> QED
    BY <1>3, <2>1, <2>2, <2>3, <2>6
<1>10. CASE CancelDone(c)
  <2>1. /\ canc[c].pc \in {"grace", "await"} /\ o \in Objs /\ obj[o].done
        /\ obj' = obj
    BY <1>10, <1>own DEF CancelDone
  <2>2. CASE c \in Watchers /\ canc' = [canc EXCEPT ![c] = NoCancel]
    BY <1>0, <1>4, <1>names, <2>1, <2>2
  <2>3. CASE c \notin Watchers /\ canc' = [canc EXCEPT ![c] = [canc[c] EXCEPT !.pc = "finish"]]
    <3> PICK y : y = [canc[c] EXCEPT !.pc = "finish"]
      OBVIOUS
    <3>1. y \in CancStates /\ y.pc = "finish" /\ y.obj = o
      BY <1>0 DEF CancStates
    <3> QED
      BY <1>0, <1>4, <2>1, <2>3, <3>1 DEF Waiting
  <2> QED
    BY <1>10, <2>2, <2>3 DEF CancelDone
<1>11. CASE CancelFinish(c)
  <2>1. canc[c].pc = "finish" /\ o \in Objs /\ obj[o].done
    BY <1>11, <1>own DEF CancelFinish, CancAt, KeepInv, RestKeep, CancelWaited
  <2>2. CASE /\ canc' = [canc EXCEPT ![c] = NoCancel] /\ obj' = obj
             /\ obj[o].fin = "done"
    BY <1>4, <1>names, <2>1, <2>2
  <2>3. CASE /\ obj[o].fin = "free" /\ canc' = canc
             /\ obj' = [obj EXCEPT ![o] = Claimed(o, "cancelled")]
    <3> PICK x : x = Claimed(o, "cancelled")
      OBVIOUS
    <3> PICK y : y = canc[c]
      OBVIOUS
    <3>1. x \in ObjStates /\ x = [obj[o] EXCEPT !.fin = "append", !.st = "cancelled"]
      BY <1>0, <2>1, ClaimedState DEF Terminal
    <3>2. /\ x \in ObjStates /\ x.pc = obj[o].pc /\ x.run = obj[o].run
          /\ x.kind = obj[o].kind /\ x.done = obj[o].done
          /\ x.fin = "append" /\ x.cancelled = obj[o].cancelled
      BY <1>own, <2>1, <3>1, ZenonT(60) DEF ObjStates
    <3>3. canc' = [canc EXCEPT ![c] = y] /\ obj' = [obj EXCEPT ![o] = x]
      BY <1>0, <2>3
    <3>4. CancelMoves(c, y, o, x)
      BY <1>0, <1>own, <2>1, <2>3, <3>2, <3>3 DEF CancelMoves, Waiting
    <3> QED
      BY <1>0, <1>3, <2>1, <3>2, <3>4
  <2> QED
    BY <1>11, <2>2, <2>3 DEF CancelFinish
<1> QED
  BY <1>5, <1>6, <1>7, <1>8, <1>9, <1>10, <1>11 DEF CancelRun

-----------------------------------------------------------------------------
(* The scans.                                                              *)

\* The objects stay while a scan or a monitor goes on.
LEMMA BesideKeep ==
    ASSUME RangeInv, KeepInv, obj' = obj, active' = active, entry' = entry,
           canc' = canc, LogSafe, Begun' = Begun, Startup' => Startup,
           status' = "running" => status = "running",
           nextRun' \in Nat, nextRun <= nextRun', up, up' = up,
           \A q \in Objs : active = q /\ obj[q].pc # "stub" =>
              \A r \in Runs : r = obj[q].run => mon'[r].pc = mon[r].pc,
           MonKeep', RecKeep'
    PROVE  KeepInv'
<1> USE KeepFacts
<1>0. LogKept
  BY LogSafeKeeps DEF KeepInv, RestKeep
<1>1. ASSUME NEW q \in Objs PROVE Duty(q)'
  <2>1. Duty(q)
    OBVIOUS
  <2>2. (Waits(q) => Waits(q)') /\ Logged \subseteq Logged'
    BY <1>0 DEF Waits, LogKept
  <2>3. obj[q].run < nextRun'
    BY <2>1 DEF Duty
  <2>4. active = q /\ obj[q].pc # "stub" =>
          \A r \in Runs : r = obj[q].run => mon'[r].pc = "off"
    BY <2>1 DEF Duty
  <2> QED
    BY <2>1, <2>2, <2>3, <2>4 DEF Duty
<1>2. RunsCounted'
  <2>1. \A r \in Logged' : r \in Runs
    BY <1>0, LogFacts, EventKinds DEF LogKept, Logged
  <2>2. Runs \subseteq Nat /\ nextRun \in Nat
    BY Types DEF RangeInv, Runs
  <2>3. ASSUME NEW r \in Logged' PROVE r < nextRun'
    <3>1. r \in Nat /\ r < nextRun
      BY <1>0, <2>1, <2>2, <2>3 DEF LogKept
    <3> QED
      BY <2>2, <3>1
  <2> QED
    BY <2>3 DEF RunsCounted
<1>3. SessionLater' /\ RunningLogged' /\ CancelWaited' /\ DownKeep'
  BY <1>0 DEF LogKept, KeepInv, RestKeep, RunningLogged, CancelWaited, DownKeep
<1> QED
  BY <1>1, <1>2, <1>3 DEF KeepInv, RestKeep

\* The run that a scan looks at is one of the history; with a pid it has
\* started.
LEMMA CurrentKnown ==
    ASSUME RangeInv, KeepInv, ScanNext
    PROVE  /\ Current \in rec.rest /\ Current \in Logged /\ Current \in Runs
           /\ Passed \in RecStates /\ Passed.len = rec.len
           /\ Passed.tick = rec.tick /\ Passed.pc = "next"
           /\ Passed.rest = rec.rest \ {Current}
           /\ OldPid # 0 => Current \in Begun
<1>0. rec.rest # {} /\ rec.pc = "next" /\ rec.rest \subseteq Logged
      /\ log \in Seq(Events) /\ rec.len \in 0..Len(log) /\ rec \in RecStates
  BY Types DEF ScanNext, RecAt, KeepInv, RestKeep, RecKeep, RangeInv, RecOK, SideTypes
<1>1. /\ Current \in rec.rest /\ Current \in Runs /\ Passed \in RecStates
      /\ Passed.len = rec.len /\ Passed.pc = rec.pc
  BY <1>0, ScanFacts
<1>2. Passed.tick = rec.tick /\ Passed.rest = rec.rest \ {Current}
  BY <1>0 DEF Passed, RecStates
<1>3. ASSUME OldPid # 0 PROVE Current \in Begun
  <2>1. \E i \in DOMAIN log : /\ log[i].run = Current
                              /\ log[i].kind \in {"started", "session"}
    BY <1>0, <1>3, PidType DEF OldPid
  <2>2. Has(Current, "started") \/ Has(Current, "session")
    BY <2>1 DEF Has
  <2> QED
    BY <1>0, <1>1, <2>2 DEF KeepInv, RestKeep, SessionLater, Begun
<1> QED
  BY <1>0, <1>1, <1>2, <1>3

LEMMA ScanKeep ==
    ASSUME RangeInv, KeepInv, Recover \/ ScanBegin(TRUE), ~ScanAdopt
    PROVE  KeepInv'
<1>0. /\ rec \in RecStates /\ log \in Seq(Events) /\ RecKeep /\ RestKeep
      /\ nextRun \in Nat /\ Len(log) \in Nat
  BY Types, LogFacts DEF RangeInv, SideTypes, KeepInv, RestKeep
<1>1. ASSUME UNCHANGED <<up, active, entry, obj, canc, mon>>, up, LogSafe,
             Begun' = Begun, nextRun' = nextRun,
             status' = "running" => status = "running",
             Startup' => Startup, RecKeep'
      PROVE  KeepInv'
  <2>1. MonKeep'
    BY <1>0, <1>1 DEF RestKeep, MonKeep
  <2> QED
    BY <1>0, <1>1, <2>1, BesideKeep
<1>still. ASSUME log' = log
          PROVE  /\ Begun' = Begun /\ Logged' = Logged /\ LogSafe
                 /\ rec'.len = rec.len => View' = View
  BY <1>0, <1>still, LogSame DEF LogSafe
<1>idle. NoScan.pc = "idle" /\ ~NoScan.tick
  BY DEF NoScan
\* The scan ends.
<1>2. ASSUME rec' = NoScan PROVE RecKeep' /\ ~Startup'
  BY <1>2, <1>idle DEF RecKeep, Startup
<1>3. CASE ScanBegin(TRUE)
  <2>1. rec' = [NoScan EXCEPT !.pc = "read", !.tick = TRUE] /\ log' = log
        /\ status = "running"
    BY <1>3 DEF ScanBegin
  <2>2. rec'.pc = "read" /\ rec'.tick
    BY <2>1 DEF NoScan
  <2>3. RecKeep' /\ ~Startup'
    BY <1>0, <2>1, <2>2 DEF RecKeep, Startup, RestKeep, RunningLogged
  <2> QED
    BY <1>1, <1>3, <1>still, <2>1, <2>3 DEF ScanBegin, RecAt, gateVars
<1>4. CASE StartupScan
  <2>0. /\ rec.pc = "startup" /\ log' = log /\ status' = status
        /\ up /\ nextRun' = nextRun
    BY <1>4 DEF StartupScan, RecAt, diskVars, gateVars
  <2>1. Startup
    BY <1>0, <2>0 DEF RecKeep, Startup
  <2>2. RecKeep'
    <3>1. CASE status = "running"
      <4>1. rec' = [NoScan EXCEPT !.pc = "read"]
        BY <1>4, <3>1 DEF StartupScan
      <4>2. rec'.pc = "read"
        BY <4>1 DEF NoScan
      <4> QED
        BY <1>0, <2>0, <3>1, <4>2 DEF RecKeep, RestKeep, RunningLogged
    <3>2. CASE status # "running"
      BY <1>2, <1>4, <3>2 DEF StartupScan
    <3> QED
      BY <3>1, <3>2
  <2> QED
    BY <1>1, <1>4, <1>still, <2>0, <2>1, <2>2 DEF StartupScan, gateVars
<1>5. CASE ScanRead
  <2>0. /\ rec.pc = "read" /\ log' = log /\ status' = status /\ up /\ up' = up
        /\ log # <<>>
    BY <1>0, <1>5 DEF ScanRead, RecAt, diskVars, RecKeep
  <2>1. /\ rec' = [rec EXCEPT !.pc = "next", !.len = Len(log), !.rest = Logged]
        /\ nextRun' = nextRun
    BY <1>5, <2>0 DEF ScanRead
  <2>2. /\ rec'.pc = "next" /\ rec'.len = Len(log) /\ rec'.rest = Logged
        /\ rec'.tick = rec.tick
    BY <1>0, <2>1 DEF RecStates
  <2>3. View' = Logged
    BY <1>0, <2>0, <2>2, LogFacts DEF View, RunsIn, Logged
  <2>4. Logged' = Logged
    BY <1>still, <2>0
  <2>5. RecKeep' /\ (Startup' => Startup)
    BY <2>0, <2>2, <2>3, <2>4 DEF RecKeep, Startup
  <2> QED
    BY <1>1, <1>5, <1>still, <2>0, <2>1, <2>5 DEF ScanRead
\* The scan goes on to the next run.
<1>6. ASSUME ScanNext, rec' = Passed, log' = log
      PROVE  RecKeep' /\ (Startup' => Startup)
  <2>1. /\ rec'.pc = "next" /\ rec'.len = rec.len /\ rec'.rest \subseteq rec.rest
        /\ rec'.tick = rec.tick /\ rec.pc = "next"
    BY <1>6, CurrentKnown DEF ScanNext, RecAt
  <2>2. Logged' = Logged /\ View' = View
    BY <1>6, <1>still, <2>1
  <2> QED
    BY <1>0, <1>6, <2>1, <2>2 DEF RecKeep, Startup
<1>7. CASE ScanSkip
  BY <1>1, <1>6, <1>7, <1>still DEF ScanSkip, ScanNext, RecAt, diskVars, gateVars
<1>8. CASE ScanSync
  <2>1. status' = "running" => status = "running"
    <3>1. OldFinish \in Terminal
      <4>1. OldFinish # "none" /\ rec.rest # {}
        BY <1>8 DEF ScanSync, ScanNext
      <4> QED
        BY <4>1, ScanFacts
    <3>2. OldFinish # "running"
      BY <3>1 DEF Terminal
    <3>3. PICK ok \in BOOLEAN : EditStatus(OldFinish, ok)
      BY <1>8 DEF ScanSync
    <3>4. SideTypes
      BY DEF RangeInv
    <3> QED
      BY <3>2, <3>3, <3>4, EditStep
  <2> QED
    BY <1>1, <1>6, <1>8, <1>still, <2>1 DEF ScanSync, ScanNext, RecAt, gateVars
<1>9. CASE ScanStale
  <2>1. ScanNext /\ log' = log /\ status' = status /\ up /\ up' = up /\ nextRun' = nextRun
    BY <1>9 DEF ScanStale, ScanNext, RecAt, diskVars, gateVars
  <2>2. Current \in Logged /\ rec.pc = "next"
    BY <2>1, CurrentKnown DEF ScanNext, RecAt
  <2> PICK st : st = Verdict(Current)
    OBVIOUS
  <2> PICK r : r = Current
    OBVIOUS
  <2>3. rec' = [rec EXCEPT !.pc = "finish", !.run = r, !.st = st]
    BY <1>9 DEF ScanStale
  <2>4. /\ rec'.pc = "finish" /\ rec'.run = r /\ rec'.len = rec.len
        /\ rec'.rest = rec.rest /\ rec'.tick = rec.tick
    BY <1>0, <2>3 DEF RecStates
  <2>5. Logged' = Logged /\ View' = View
    BY <1>still, <2>1, <2>4
  <2>6. RecKeep' /\ (Startup' => Startup)
    BY <1>0, <2>1, <2>2, <2>4, <2>5 DEF RecKeep, Startup
  <2> QED
    BY <1>1, <1>9, <1>still, <2>1, <2>6 DEF ScanStale
<1>10. CASE ScanFinish
  <2>1. /\ rec.pc = "finish" /\ up /\ up' = up /\ nextRun' = nextRun
        /\ status' = status
    BY <1>10 DEF ScanFinish, RecAt, gateVars
  <2>2. PICK ok \in BOOLEAN :
          /\ AppendEvent(Event(rec.run, "finished", 0, rec.st), ok)
          /\ \/ rec' = NoScan
             \/ rec' = [rec EXCEPT !.pc = "edit"]
             \/ rec' = [Passed EXCEPT !.pc = "next"]
    BY <1>10 DEF ScanFinish
  <2> PICK e : e = Event(rec.run, "finished", 0, rec.st)
    OBVIOUS
  <2>3. e \in Events /\ e.run = rec.run /\ e.kind = "finished"
    <3>1. rec.run \in Runs /\ rec.st \in Terminal
      BY <2>1 DEF RangeInv, RecOK, Terminal
    <3> QED
      BY <3>1, EventTypes DEF Event
  <2>4. e.run \in Logged /\ e.run < nextRun
    BY <1>0, <2>1, <2>3, BegunFacts DEF RecKeep
  <2>5. LogSafe /\ Logged \subseteq Logged' /\ Begun' = Begun
    BY <1>0, <2>2, <2>3, <2>4, Says
  <2>6. LogKept
    BY <1>0, <2>5, LogSafeKeeps DEF RestKeep
  <2>7. \/ rec' = NoScan
        \/ /\ rec'.pc \in {"edit", "next"} /\ rec'.len = rec.len
           /\ rec'.rest \subseteq rec.rest /\ rec'.tick = rec.tick
    <3>1. CASE rec' = [rec EXCEPT !.pc = "edit"]
      BY <1>0, <3>1 DEF RecStates
    <3>2. CASE rec' = [Passed EXCEPT !.pc = "next"]
      <4> PICK x : x = rec.rest \ {Current}
        OBVIOUS
      <4>1. rec' = [rec EXCEPT !.rest = x, !.pc = "next"]
        BY <1>0, <3>2 DEF Passed, RecStates
      <4> QED
        BY <1>0, <4>1 DEF RecStates
    <3> QED
      BY <2>2, <3>1, <3>2
  <2>8. RecKeep' /\ (Startup' => Startup)
    <3>1. CASE rec' = NoScan
      BY <1>2, <3>1
    <3>2. CASE /\ rec'.pc \in {"edit", "next"} /\ rec'.len = rec.len
               /\ rec'.rest \subseteq rec.rest /\ rec'.tick = rec.tick
      BY <1>0, <2>1, <2>5, <2>6, <3>2 DEF RecKeep, LogKept, Startup
    <3> QED
      BY <2>7, <3>1, <3>2
  <2> QED
    BY <1>1, <1>10, <2>1, <2>5, <2>8 DEF ScanFinish
<1>11. CASE ScanEdit
  <2>1. status' = "running" => status = "running"
    <3>1. PICK ok \in BOOLEAN : EditStatus(rec.st, ok)
      BY <1>11 DEF ScanEdit
    <3>2. rec.st # "running" /\ SideTypes
      BY <1>11 DEF ScanEdit, RecAt, RangeInv, RecOK
    <3> QED
      BY <3>1, <3>2, EditStep
  <2> QED
    BY <1>1, <1>2, <1>11, <1>still, <2>1 DEF ScanEdit, RecAt, gateVars
<1>12. CASE ScanEnd
  BY <1>1, <1>2, <1>12, <1>still DEF ScanEnd, RecAt, diskVars, gateVars
<1> QED
  BY <1>3, <1>4, <1>5, <1>7, <1>8, <1>9, <1>10, <1>11, <1>12 DEF Recover

\* A run is adopted, for the task or beside another one.
LEMMA AdoptKeep ==
    ASSUME RangeInv, KeepInv, ScanAdopt
    PROVE  KeepInv'
<1>0. /\ rec \in RecStates /\ log \in Seq(Events) /\ RecKeep /\ RestKeep
      /\ nextRun \in Nat /\ mon \in [Runs -> MonStates]
      /\ obj \in [Objs -> ObjStates] /\ active \in Objs \cup {0} /\ 0 \notin Objs
  BY Types DEF RangeInv, SideTypes, KeepInv, RestKeep, Objs
<1>1. /\ log' = log /\ up /\ up' = up /\ nextRun' = nextRun /\ status' = status
      /\ entry' = entry /\ canc' = canc /\ ScanNext /\ ~Skipped
      /\ Alive(OldPid) /\ rec' = Passed /\ rec.pc = "next"
  BY DEF ScanAdopt, ScanNext, RecAt, diskVars, gateVars
<1>2. /\ Current \in Logged /\ Current \in Runs /\ Current \in Begun
      /\ rec'.pc = "next" /\ rec'.len = rec.len /\ rec'.tick = rec.tick
      /\ rec'.rest \subseteq rec.rest
  BY <1>1, CurrentKnown DEF Alive
<1>3. /\ Logged' = Logged /\ Begun' = Begun /\ LogSafe /\ View' = View
      /\ \A r, k : Has(r, k)' <=> Has(r, k)
  BY <1>0, <1>1, <1>2, LogSame DEF LogSafe
<1>4. RecKeep' /\ (Startup' => Startup)
  BY <1>0, <1>1, <1>2, <1>3 DEF RecKeep, Startup
<1> PICK r : r = Current
  OBVIOUS
<1> PICK m : m = IF mon[r].pc = "off"
                 THEN [NoMon EXCEPT !.pc = "poll", !.pid = OldPid] ELSE mon[r]
  OBVIOUS
<1>5. /\ mon' = [mon EXCEPT ![r] = m]
      /\ m.pc = "claim" => m = mon[r]
      /\ mon[r].pc # "off" => m = mon[r]
  BY DEF ScanAdopt, NoMon
<1>6. /\ mon'[r] = m /\ \A q \in Runs : q # r => mon'[q] = mon[q]
      /\ r \in Runs
  BY <1>0, <1>2, <1>5
<1>7. ASSUME \A q \in Objs : obj[q].pc = "stub" => obj'[q] = obj[q]
      PROVE  MonKeep'
  <2>1. ASSUME NEW q \in Runs, mon'[q].pc # "off" PROVE q \in Begun'
    BY <1>0, <1>2, <1>3, <1>6, <2>1 DEF RestKeep, MonKeep
  <2>2. ASSUME NEW q \in Runs, mon'[q].pc = "claim"
        PROVE  obj'[mon'[q].obj].run = q /\ obj'[mon'[q].obj].pc = "stub"
    <3>1. mon'[q] = mon[q]
      BY <1>5, <1>6, <2>2
    <3>2. /\ mon[q].obj \in Objs /\ obj[mon[q].obj].run = q
          /\ obj[mon[q].obj].pc = "stub"
      BY <1>0, <2>2, <3>1 DEF RestKeep, MonKeep, RangeInv, MonOK
    <3> QED
      BY <1>7, <3>1, <3>2
  <2> QED
    BY <2>1, <2>2 DEF MonKeep
<1>8. CASE active # 0
  <2>1. obj' = obj /\ active' = active
    BY <1>8 DEF ScanAdopt
  <2>2. MonKeep'
    BY <1>7, <2>1
  <2>3. ASSUME NEW q \in Objs, active = q, obj[q].pc # "stub"
        PROVE  obj[q].run # r
    <3>1. Duty(q) /\ rec.pc # "idle"
      BY <1>1 DEF KeepInv
    <3>2. CASE rec.tick
      BY <1>1, <1>8, <2>3, <3>2 DEF Skipped, Tracked
    <3>3. CASE ~rec.tick
      BY <2>3, <3>1, <3>3 DEF Duty, Startup
    <3> QED
      BY <3>2, <3>3
  <2>4. \A q \in Objs : active = q /\ obj[q].pc # "stub" =>
              \A s \in Runs : s = obj[q].run => mon'[s].pc = mon[s].pc
    BY <1>6, <2>3
  <2> QED
    BY <1>0, <1>1, <1>3, <1>4, <2>1, <2>2, <2>4, BesideKeep
<1>9. CASE active = 0
  <2>1. PICK o \in Objs :
          /\ Fresh(o) /\ active' = o
          /\ obj' = [obj EXCEPT ![o] =
                       [Unused EXCEPT !.pc = "stub", !.kind = "stub",
                                      !.run = Current, !.pid = OldPid,
                                      !.mode = ModeOf(Current)]]
    BY <1>9 DEF ScanAdopt
  <2>2. /\ obj[o].pc = "unused"
        /\ obj'[o].pc = "stub" /\ obj'[o].kind = "stub" /\ obj'[o].run = r
        /\ ~obj'[o].cancelled /\ ~obj'[o].done /\ obj'[o].fin = "free"
        /\ \A q \in Objs : q # o => obj'[q] = obj[q]
    BY <1>0, <2>1 DEF Fresh, Unused
  <2>3. /\ Duty(o) /\ canc[o].pc = "idle"
        /\ r < nextRun /\ r \in Logged
    BY <1>2, <2>2, BegunFacts DEF KeepInv, Duty, Going, Ending
  <2>4. Duty(o)'
    BY <1>1, <1>2, <1>3, <2>1, <2>2, <2>3
    DEF Duty, Before, Opening, Early, Going, Ending
  <2>5. Aside(o)
    BY <1>0, <1>1, <1>3, <2>1, <2>2 DEF Aside
  <2>6. ASSUME NEW q \in Objs, q # o PROVE Duty(q)'
    <3>1. LogKept
      BY <1>0, <1>3, LogSafeKeeps DEF RestKeep
    <3>2. Waits(q) => Waits(q)'
      BY <1>1 DEF Waits
    <3> QED
      BY <1>0, <1>1, <1>4, <1>9, <2>5, <2>6, <3>1, <3>2, DutyFrame
  <2>7. MonKeep'
    BY <1>7, <2>2
  <2>8. CancelWaited'
    <3>1. ASSUME NEW c \in Cancellers \cup Watchers, canc[c].pc = "finish"
          PROVE  obj'[canc[c].obj].done
      <4>1. canc[c].obj \in Objs /\ obj[canc[c].obj].done
        BY <1>0, <3>1 DEF RestKeep, CancelWaited, RangeInv, CancOK
      <4>2. canc[c].obj # o
        BY <2>2, <2>3, <4>1 DEF Duty
      <4> QED
        BY <2>2, <4>1, <4>2
    <3> QED
      BY <1>1, <3>1 DEF CancelWaited
  <2>9. RunsCounted' /\ SessionLater' /\ RunningLogged' /\ DownKeep'
    BY <1>0, <1>1, <1>3
    DEF RestKeep, RunsCounted, SessionLater, RunningLogged, DownKeep
  <2> QED
    BY <1>4, <2>4, <2>6, <2>7, <2>8, <2>9 DEF KeepInv, RestKeep
<1> QED
  BY <1>8, <1>9

-----------------------------------------------------------------------------
(* The monitors.                                                           *)

\* What a monitor does to an adopted run.
StubsOnly ==
    /\ obj' \in [Objs -> ObjStates]
    /\ \A q \in Objs :
        /\ obj[q].pc # "stub" => obj'[q] = obj[q]
        /\ obj'[q].pc = obj[q].pc /\ obj'[q].run = obj[q].run
        /\ obj'[q].kind = obj[q].kind /\ obj'[q].cancelled = obj[q].cancelled
        /\ obj[q].done => obj'[q].done
        /\ obj'[q].fin = "free" => obj[q].fin = "free"

LEMMA MonMovesKeep ==
    ASSUME RangeInv, KeepInv, NEW r \in Runs, NEW m, mon[r].pc # "off",
           mon' = [mon EXCEPT ![r] = m], StubsOnly, active' \in {active, 0},
           m.pc = "claim" => /\ m.obj \in Objs
                             /\ obj[m.obj].run = r /\ obj[m.obj].pc = "stub",
           entry' = entry, canc' = canc, rec' = rec, up, up' = up,
           nextRun' = nextRun, LogSafe, Begun' = Begun,
           status' = "running" => status = "running"
    PROVE  KeepInv'
<1> USE KeepFacts
<1>0. /\ LogKept /\ Logged \subseteq Logged' /\ SessionLater' /\ RestKeep
      /\ View' = View /\ (Startup => Logged' = Logged)
      /\ (log # <<>> => log' # <<>>) /\ (Startup' <=> Startup)
  BY LogSafeKeeps DEF KeepInv, RestKeep, LogKept, Startup
<1>1. /\ mon \in [Runs -> MonStates] /\ mon'[r] = m
      /\ \A s \in Runs : s # r => mon'[s] = mon[s]
  BY DEF RangeInv, SideTypes
<1>2. ASSUME NEW q \in Objs PROVE Duty(q)'
  <2>1. Duty(q)
    OBVIOUS
  <2>2. /\ Waits(q) => Waits(q)'
        /\ obj'[q].cancelled /\ obj'[q].fin = "free"
             => obj[q].cancelled /\ obj[q].fin = "free"
    BY DEF Waits, StubsOnly
  <2>3. active = q /\ obj[q].pc # "stub" =>
          \A s \in Runs : s = obj[q].run => mon'[s].pc = "off"
    BY <1>1, <2>1 DEF Duty
  <2>4. /\ obj'[q].done => obj'[q].pc \in {"after", "gone", "stub"}
        /\ obj'[q].fin # "free" => obj'[q].pc \in Ending \cup {"gone", "stub"}
        /\ obj'[q].pc \in {"close", "after"} => obj'[q].cancelled \/ obj'[q].fin = "done"
        /\ \/ obj'[q].pc \in Going \cup {"label", "stub"}
           \/ obj'[q].pc = "register" /\ obj'[q].kind = "queued"
           \/ obj'[q].fin # "free" \/ obj'[q].done
           => obj'[q].run \in Logged'
        /\ canc'[q].pc # "idle" =>
            /\ canc'[q].obj = q /\ obj'[q].kind = "queued"
            /\ obj'[q].pc \in Going \/ (obj'[q].pc = "gone" /\ obj'[q].fin = "done")
    <3>1. CASE obj[q].pc = "stub"
      BY <1>0, <2>1, <3>1 DEF Duty, StubsOnly, Going, Ending
    <3>2. CASE obj[q].pc # "stub"
      BY <1>0, <2>1, <3>2 DEF Duty, StubsOnly
    <3> QED
      BY <3>1, <3>2
  <2>5. /\ obj'[q].pc = obj[q].pc /\ obj'[q].run = obj[q].run
        /\ obj'[q].kind = obj[q].kind
        /\ active' = q => active = q
    BY DEF StubsOnly
  <2> QED
    BY <1>0, <2>1, <2>2, <2>3, <2>4, <2>5 DEF Duty
<1>3. RunsCounted'
  BY <1>0 DEF LogKept, RunsCounted
<1>4. MonKeep'
  <2>1. ASSUME NEW s \in Runs, mon'[s].pc # "off" PROVE s \in Begun'
    BY <1>0, <1>1, <2>1 DEF RestKeep, MonKeep
  <2>2. ASSUME NEW s \in Runs, mon'[s].pc = "claim"
        PROVE  obj'[mon'[s].obj].run = s /\ obj'[mon'[s].obj].pc = "stub"
    <3>1. /\ mon'[s].obj \in Objs /\ obj[mon'[s].obj].run = s
          /\ obj[mon'[s].obj].pc = "stub"
      BY <1>0, <1>1, <2>2 DEF RestKeep, MonKeep, RangeInv, MonOK
    <3> QED
      BY <3>1 DEF StubsOnly
  <2> QED
    BY <2>1, <2>2 DEF MonKeep
<1>5. CancelWaited'
  <2>1. ASSUME NEW c \in Cancellers \cup Watchers, canc[c].pc = "finish"
        PROVE  obj'[canc[c].obj].done
    <3>1. canc[c].obj \in Objs /\ obj[canc[c].obj].done
      BY <1>0, <2>1 DEF RestKeep, CancelWaited, RangeInv, CancOK
    <3> QED
      BY <3>1 DEF StubsOnly
  <2> QED
    BY <2>1 DEF CancelWaited
<1>6. RunningLogged' /\ DownKeep' /\ RecKeep'
  BY <1>0 DEF RestKeep, RunningLogged, DownKeep, RecKeep, Startup
<1> QED
  BY <1>0, <1>2, <1>3, <1>4, <1>5, <1>6 DEF KeepInv, RestKeep

\* A run with a monitor is tracked by its stub only.
LEMMA TrackedStub ==
    ASSUME RangeInv, KeepInv, NEW r \in Runs, mon[r].pc # "off", Tracked(r)
    PROVE  active \in Objs /\ obj[active].pc = "stub" /\ obj[active].run = r
           /\ obj[active] \in ObjStates
<1>1. active \in Objs /\ obj[active].run = r /\ obj[active] \in ObjStates
  BY Types DEF RangeInv, Tracked
<1>2. Duty(active)
  BY <1>1 DEF KeepInv
<1> QED
  BY <1>1, <1>2 DEF Duty

LEMMA MonitorKeep ==
    ASSUME RangeInv, KeepInv, NEW r \in Runs, Monitor(r)
    PROVE  KeepInv'
<1>0. /\ mon \in [Runs -> MonStates] /\ mon[r] \in MonStates
      /\ obj \in [Objs -> ObjStates] /\ log \in Seq(Events) /\ SideTypes
      /\ RestKeep /\ nextRun \in Nat
  BY Types DEF RangeInv, SideTypes, KeepInv, RestKeep
<1>1. /\ up /\ up' = up /\ nextRun' = nextRun /\ canc' = canc /\ rec' = rec
      /\ entry' = entry /\ mon[r].pc # "off"
  BY DEF Monitor, MonPoll, MonRelease, MonSync, MonExit, MonClaim, MonLose,
         MonAt, diskVars, gateVars
<1>still. ASSUME log' = log PROVE Begun' = Begun /\ LogSafe
  BY <1>0, <1>still, LogSame DEF LogSafe
<1>same. ASSUME obj' = obj PROVE StubsOnly
  BY <1>0, <1>same DEF StubsOnly
<1>2. ASSUME NEW m, mon' = [mon EXCEPT ![r] = m], StubsOnly, active' \in {active, 0},
             m.pc = "claim" => /\ m.obj \in Objs
                               /\ obj[m.obj].run = r /\ obj[m.obj].pc = "stub",
             LogSafe, Begun' = Begun, status' = "running" => status = "running"
      PROVE  KeepInv'
  BY <1>1, <1>2, MonMovesKeep
<1>set. ASSUME NEW pc, NEW st, NEW d
        PROVE  /\ [mon[r] EXCEPT !.pc = pc].pc = pc
               /\ [mon[r] EXCEPT !.pc = pc, !.st = st].pc = pc
               /\ [mon[r] EXCEPT !.pc = pc, !.obj = d].pc = pc
               /\ [mon[r] EXCEPT !.pc = pc, !.obj = d].obj = d
  BY <1>0 DEF MonStates
\* The object of the adopted run is marked, or claimed.
<1>stub. ASSUME NEW d \in Objs, obj[d].pc = "stub",
                \/ obj' = [obj EXCEPT ![d].done = TRUE]
                \/ obj' = [obj EXCEPT ![d] = Claimed(d, "lost")]
         PROVE  StubsOnly
  <2>1. obj[d] \in ObjStates
    BY <1>0
  <2> PICK x \in ObjStates :
        /\ obj' = [obj EXCEPT ![d] = x]
        /\ x.pc = obj[d].pc /\ x.run = obj[d].run /\ x.kind = obj[d].kind
        /\ x.cancelled = obj[d].cancelled /\ (obj[d].done => x.done)
        /\ x.fin = "free" => obj[d].fin = "free"
    <3>1. CASE obj' = [obj EXCEPT ![d].done = TRUE]
      <4>1. /\ [obj[d] EXCEPT !.done = TRUE] \in ObjStates
            /\ obj' = [obj EXCEPT ![d] = [obj[d] EXCEPT !.done = TRUE]]
        BY <2>1, <3>1 DEF ObjStates
      <4> QED
        BY <2>1, <4>1 DEF ObjStates
    <3>2. CASE obj' = [obj EXCEPT ![d] = Claimed(d, "lost")]
      <4>1. /\ Claimed(d, "lost") \in ObjStates
            /\ Claimed(d, "lost") = [obj[d] EXCEPT !.fin = "append", !.st = "lost"]
        BY <1>0, ClaimedState DEF Terminal
      <4> QED
        BY <2>1, <3>2, <4>1 DEF ObjStates
    <3> QED
      BY <1>stub, <3>1, <3>2
  <2>2. obj'[d] = x /\ \A q \in Objs : q # d => obj'[q] = obj[q]
    BY <1>0
  <2>3. obj' \in [Objs -> ObjStates]
    BY <1>0
  <2> QED
    BY <1>stub, <2>2, <2>3 DEF StubsOnly
<1>3. CASE MonPoll(r)
  <2>1. obj' = obj /\ active' = active /\ log' = log /\ status' = status
    BY <1>3 DEF MonPoll, diskVars
  <2> PICK st : st = FinishIn(Len(log), r)
    OBVIOUS
  <2>2. PICK pc \in {"off", "release", "exit"} :
          \/ mon' = [mon EXCEPT ![r] = [mon[r] EXCEPT !.pc = pc]]
          \/ mon' = [mon EXCEPT ![r] = [mon[r] EXCEPT !.pc = pc, !.st = st]]
    BY <1>3 DEF MonPoll, SetMon
  <2> PICK x : x = [mon[r] EXCEPT !.pc = pc]
    OBVIOUS
  <2> PICK y : y = [mon[r] EXCEPT !.pc = pc, !.st = st]
    OBVIOUS
  <2>3. x.pc = pc /\ y.pc = pc
    BY <1>set
  <2> QED
    BY <1>2, <1>still, <1>same, <2>1, <2>2, <2>3
<1>4. CASE MonRelease(r)
  <2>1. log' = log /\ status' = status
    BY <1>4 DEF MonRelease, diskVars
  <2> PICK x : x = [mon[r] EXCEPT !.pc = "sync"]
    OBVIOUS
  <2>2. mon' = [mon EXCEPT ![r] = x] /\ x.pc = "sync"
    BY <1>0, <1>4, <1>set DEF MonRelease, SetMon
  <2>3. StubsOnly /\ active' \in {active, 0}
    <3>1. CASE Tracked(r)
      <4>1. active \in Objs /\ obj[active].pc = "stub"
        BY <1>1, <3>1, TrackedStub
      <4> QED
        BY <1>4, <1>stub, <3>1, <4>1 DEF MonRelease
    <3>2. CASE ~Tracked(r)
      BY <1>4, <1>same, <3>2 DEF MonRelease
    <3> QED
      BY <3>1, <3>2
  <2> QED
    BY <1>2, <1>still, <2>1, <2>2, <2>3
<1>5. CASE MonSync(r)
  <2>1. obj' = obj /\ active' = active /\ log' = log
    BY <1>5 DEF MonSync
  <2>2. PICK ok \in BOOLEAN : /\ EditStatus(mon[r].st, ok)
                              /\ SetMon(r, IF ok THEN "off" ELSE "poll")
    BY <1>5 DEF MonSync
  <2> PICK x : x = [mon[r] EXCEPT !.pc = IF ok THEN "off" ELSE "poll"]
    OBVIOUS
  <2>3. mon' = [mon EXCEPT ![r] = x] /\ x.pc \in {"off", "poll"}
    BY <1>0, <1>set, <2>2 DEF SetMon
  <2>4. status' = "running" => status = "running"
    <3>1. mon[r].st \in Terminal
      BY <1>5 DEF MonSync, MonAt, RangeInv, MonOK
    <3>2. mon[r].st # "running"
      BY <3>1 DEF Terminal
    <3> QED
      BY <1>0, <2>2, <3>2, EditStep
  <2> QED
    BY <1>2, <1>still, <1>same, <2>1, <2>3, <2>4
<1>6. CASE MonExit(r)
  <2>1. active' = active /\ log' = log /\ status' = status
    BY <1>6 DEF MonExit, diskVars
  <2>2. CASE ~Tracked(r)
    <3> PICK x : x = [mon[r] EXCEPT !.pc = "lose"]
      OBVIOUS
    <3>1. mon' = [mon EXCEPT ![r] = x] /\ x.pc = "lose" /\ obj' = obj
      BY <1>0, <1>6, <1>set, <2>2 DEF MonExit, SetMon
    <3> QED
      BY <1>2, <1>still, <1>same, <2>1, <3>1
  <2>3. CASE Tracked(r)
    <3>1. active \in Objs /\ obj[active].pc = "stub" /\ obj[active].run = r
      BY <1>1, <2>3, TrackedStub
    <3>2. PICK pc \in {"off", "claim"} :
            /\ obj' = [obj EXCEPT ![active].done = TRUE]
            /\ mon' = [mon EXCEPT ![r].pc = pc, ![r].obj = active]
      BY <1>6, <2>3 DEF MonExit
    <3> PICK x : x = [mon[r] EXCEPT !.pc = pc, !.obj = active]
      OBVIOUS
    <3>3. mon' = [mon EXCEPT ![r] = x] /\ x.pc = pc /\ x.obj = active
      BY <1>0, <1>set, <3>2
    <3>4. StubsOnly
      BY <1>stub, <3>1, <3>2
    <3> QED
      BY <1>2, <1>still, <2>1, <3>1, <3>3, <3>4
  <2> QED
    BY <2>2, <2>3
<1>7. CASE MonClaim(r)
  <2>1. active' = active /\ log' = log /\ status' = status
    BY <1>7 DEF MonClaim, diskVars
  <2> PICK x : x = [mon[r] EXCEPT !.pc = "off"]
    OBVIOUS
  <2>2. mon' = [mon EXCEPT ![r] = x] /\ x.pc = "off"
    BY <1>0, <1>7, <1>set DEF MonClaim, SetMon
  <2>3. mon[r].obj \in Objs /\ obj[mon[r].obj].pc = "stub"
    BY <1>0, <1>7 DEF MonClaim, MonAt, RestKeep, MonKeep, RangeInv, MonOK
  <2>4. \/ obj' = obj
        \/ obj' = [obj EXCEPT ![mon[r].obj] = Claimed(mon[r].obj, "lost")]
    BY <1>7 DEF MonClaim
  <2>5. StubsOnly
    BY <1>same, <1>stub, <2>3, <2>4
  <2> QED
    BY <1>2, <1>still, <2>1, <2>2, <2>5
<1>8. CASE MonLose(r)
  <2>1. obj' = obj /\ active' = active /\ status' = status
    BY <1>8 DEF MonLose
  <2>2. PICK ok \in BOOLEAN :
          /\ AppendEvent(Event(r, "finished", 0, "lost"), ok)
          /\ mon' = [mon EXCEPT ![r].pc = IF ok THEN "sync" ELSE "poll",
                                ![r].st = "lost"]
    BY <1>8 DEF MonLose
  <2> PICK pc \in {"sync", "poll"} : pc = IF ok THEN "sync" ELSE "poll"
    OBVIOUS
  <2> PICK x : x = [mon[r] EXCEPT !.pc = pc, !.st = "lost"]
    OBVIOUS
  <2>3. mon' = [mon EXCEPT ![r] = x] /\ x.pc \in {"sync", "poll"}
    <3>1. mon' = [mon EXCEPT ![r].pc = pc, ![r].st = "lost"]
      BY <2>2
    <3>2. mon' = [mon EXCEPT ![r] = x]
      BY <1>0, <3>1
    <3>3. x.pc = pc
      BY <1>0 DEF MonStates
    <3> QED
      BY <3>2, <3>3
  <2> PICK e : e = Event(r, "finished", 0, "lost")
    OBVIOUS
  <2>4. e \in Events /\ e.run = r /\ e.kind = "finished"
    <3>1. "lost" \in Terminal
      BY DEF Terminal
    <3> QED
      BY <3>1, EventTypes DEF Event
  <2>5. r \in Logged /\ r < nextRun
    BY <1>0, <1>1, BegunFacts DEF RestKeep, MonKeep
  <2>6. LogSafe /\ Begun' = Begun
    BY <1>0, <2>2, <2>4, <2>5, Says
  <2> QED
    BY <1>2, <1>same, <2>1, <2>3, <2>6
<1> QED
  BY <1>3, <1>4, <1>5, <1>6, <1>7, <1>8 DEF Monitor

-----------------------------------------------------------------------------
(* Death and return of the GUI, edits by hand.                             *)

LEMMA CrashKeep ==
    ASSUME RangeInv, KeepInv, Crash
    PROVE  KeepInv'
<1>0. /\ obj \in [Objs -> ObjStates] /\ log \in Seq(Events) /\ RestKeep
      /\ nextRun \in Nat /\ 0 < nextRun
  BY Types DEF RangeInv, KeepInv
<1>1. /\ log' = log /\ status' = status /\ active' = 0 /\ entry' = 0
      /\ up' = FALSE /\ nextRun' = nextRun /\ rec' = NoScan
      /\ canc' = [c \in Cancellers \cup Watchers |-> NoCancel]
      /\ mon' = [r \in Runs |-> NoMon]
  BY DEF Crash
<1>2. /\ rec'.pc = "idle" /\ ~Startup' /\ 0 \notin Objs
      /\ \A c \in Cancellers \cup Watchers : canc'[c].pc = "idle"
      /\ \A r \in Runs : mon'[r].pc = "off"
  BY <1>1 DEF NoScan, NoCancel, NoMon, Startup, Objs
<1>3. /\ Logged' = Logged /\ Begun' = Begun
      /\ \A r, k : Has(r, k)' <=> Has(r, k)
  BY <1>0, <1>1, LogSame
\* Nobody cancels what has not been created.
<1>4. ASSUME NEW q \in Objs, obj[q].pc = "unused"
      PROVE  ~obj[q].cancelled /\ ~obj[q].done /\ obj[q].fin = "free"
             /\ obj[q].kind # "stub" /\ obj[q].run < nextRun
  <2>1. Duty(q) /\ Named(q)
    BY DEF KeepInv, RangeInv
  <2>2. obj[q].run \notin Runs
    BY <1>4, <2>1 DEF Named, Runs
  <2>3. ~Waits(q)
    BY <2>2 DEF Waits, RangeInv, CancOK
  <2> QED
    BY <1>0, <1>4, <2>1, <2>3 DEF Duty, Going, Ending
<1>5. ASSUME NEW q \in Objs
      PROVE  /\ obj'[q].pc \in {"unused", "gone"} /\ obj'[q].fin = "free"
             /\ ~obj'[q].cancelled /\ ~obj'[q].done /\ obj'[q].kind # "stub"
             /\ obj'[q].run < nextRun
  <2>1. obj'[q] = IF obj[q].pc = "unused" THEN obj[q]
                  ELSE [Unused EXCEPT !.pc = "gone"]
    BY DEF Crash
  <2>2. CASE obj[q].pc = "unused"
    BY <1>4, <2>1, <2>2
  <2>3. CASE obj[q].pc # "unused"
    BY <1>0, <2>1, <2>3 DEF Unused
  <2> QED
    BY <2>2, <2>3
<1>6. ASSUME NEW q \in Objs PROVE Duty(q)'
  BY <1>1, <1>2, <1>5 DEF Duty, Before, Opening, Early, Going, Ending, Watchers
<1>7. RunsCounted' /\ SessionLater' /\ RunningLogged'
  BY <1>0, <1>1, <1>3 DEF RestKeep, RunsCounted, SessionLater, RunningLogged
<1>8. MonKeep' /\ CancelWaited' /\ RecKeep'
  BY <1>2 DEF MonKeep, CancelWaited, RecKeep
<1>9. DownKeep'
  BY <1>1, <1>5 DEF DownKeep
<1> QED
  BY <1>6, <1>7, <1>8, <1>9 DEF KeepInv, RestKeep

LEMMA RestartKeep ==
    ASSUME RangeInv, KeepInv, Restart
    PROVE  KeepInv'
<1>0. log \in Seq(Events) /\ RestKeep /\ 0 \notin Objs
  BY Types DEF RangeInv, KeepInv, Objs
<1>1. /\ ~up /\ up' /\ log' = log /\ status' = status /\ active' = active
      /\ entry' = entry /\ obj' = obj /\ canc' = canc /\ mon' = mon
      /\ nextRun' = nextRun /\ rec' = [NoScan EXCEPT !.pc = "startup"]
  BY DEF Restart, diskVars
<1>2. rec'.pc = "startup" /\ ~rec'.tick
  BY <1>1 DEF NoScan
<1>3. /\ Logged' = Logged /\ Begun' = Begun
      /\ \A r, k : Has(r, k)' <=> Has(r, k)
  BY <1>0, <1>1, LogSame
<1>4. active = 0 /\ \A o \in Objs : obj[o].pc \in {"unused", "gone"}
  BY <1>0, <1>1 DEF RestKeep, DownKeep
<1>5. ASSUME NEW q \in Objs PROVE Duty(q)'
  <2>1. Duty(q) /\ (Waits(q)' <=> Waits(q))
    BY <1>1 DEF KeepInv, Waits
  <2>2. obj[q].pc \in {"unused", "gone"} /\ active # q
    BY <1>0, <1>4
  <2> QED
    BY <1>1, <1>3, <2>1, <2>2 DEF Duty
<1>6. RunsCounted' /\ SessionLater' /\ RunningLogged' /\ MonKeep' /\ CancelWaited'
  BY <1>0, <1>1, <1>3
  DEF RestKeep, RunsCounted, SessionLater, RunningLogged, MonKeep, CancelWaited
<1>7. RecKeep' /\ DownKeep'
  BY <1>1, <1>2 DEF RecKeep, DownKeep
<1> QED
  BY <1>5, <1>6, <1>7 DEF KeepInv, RestKeep

LEMMA HandKeep ==
    ASSUME RangeInv, KeepInv,
           Close \/ HandQueue \/ HandClear \/ UNCHANGED vars
    PROVE  KeepInv'
<1>1. /\ obj' = obj /\ active' = active /\ entry' = entry /\ up' = up
      /\ nextRun' = nextRun /\ UNCHANGED sideVars /\ log' = log
      /\ status' = "running" => status = "running"
  BY DEF Close, HandQueue, HandClear, gateVars, diskVars, sideVars, vars
<1>2. LogSafe /\ Begun' = Begun
  BY <1>1, Types, LogSame DEF LogSafe, RangeInv
<1> QED
  BY <1>1, <1>2, StillKeep

LEMMA InitKeep == Init => KeepInv
<1> SUFFICES ASSUME Init PROVE KeepInv
  OBVIOUS
<1>1. Logged = {} /\ \A r, k : ~Has(r, k)
  BY DEF Init, Logged, Has
<1>2. /\ rec.pc = "idle" /\ up /\ active = 0 /\ status = "none" /\ nextRun = 1
      /\ \A c \in Cancellers \cup Watchers : canc[c].pc = "idle"
      /\ \A r \in Runs : mon[r].pc = "off"
      /\ \A o \in Objs : obj[o] = Unused
  BY DEF Init, NoScan, NoCancel, NoMon
<1>3. ASSUME NEW o \in Objs PROVE Duty(o)
  BY <1>2 DEF Duty, Unused, Startup, Before, Opening, Early, Going, Ending,
              Watchers, Objs
<1>4. RestKeep
  BY <1>1, <1>2 DEF RestKeep, RunsCounted, SessionLater, MonKeep, CancelWaited,
                    RecKeep, DownKeep, RunningLogged
<1> QED
  BY <1>3, <1>4 DEF KeepInv

LEMMA KeepNext == RangeInv /\ KeepInv /\ [Next]_vars => KeepInv'
<1> SUFFICES ASSUME RangeInv, KeepInv, [Next]_vars PROVE KeepInv'
  OBVIOUS
<1>1. ASSUME NEW o \in Objs,
             \/ StartRun(o) \/ Setup(o) \/ Goroutine(o) \/ RecordTerminal(o)
             \/ AppendSession(o) \/ ProcessExit(o) \/ NeedsUser(o)
             \/ WatcherFires(o)
      PROVE  KeepInv'
  BY <1>1, StartKeep, SetupKeep, GoroutineKeep, TerminalKeep, OtherKeep,
     CancelKeep DEF Watchers
<1>2. ASSUME NEW c \in Cancellers, CancelFind(c) PROVE KeepInv'
  BY <1>2, CancelKeep
<1>3. ASSUME NEW c \in Cancellers \cup Watchers, CancelRun(c) PROVE KeepInv'
  BY <1>3, CancelKeep
<1>4. ASSUME NEW r \in Runs, Monitor(r) PROVE KeepInv'
  BY <1>4, MonitorKeep
<1>5. ASSUME Recover \/ ScanBegin(TRUE) PROVE KeepInv'
  BY <1>5, ScanKeep, AdoptKeep
<1>6. CASE Next
  BY <1>1, <1>2, <1>3, <1>4, <1>5, <1>6, HandKeep, CrashKeep, RestartKeep DEF Next
<1> QED
  BY <1>6, HandKeep

LEMMA KeepAlways == Spec => [](RangeInv /\ KeepInv)
<1> QED
  BY InitRange, RangeNext, InitKeep, KeepNext, PTL DEF Spec

-----------------------------------------------------------------------------
(* Writes that do not fail, and what is appended.                          *)

FaultsLeft == budget.faults <= MaxFaults

LEMMA Unfailed ==
    ASSUME SideTypes, FaultsLeft, NoFaults', NEW ok \in BOOLEAN
    PROVE  /\ \A e : AppendEvent(e, ok) => ok /\ log' = Append(log, e) /\ NoFaults
           /\ \A s : EditStatus(s, ok) => ok /\ status' = s /\ NoFaults
<1>1. budget \in Budgets /\ budget.faults \in Nat /\ MaxFaults \in Nat
  BY AgentRunAssumption DEF SideTypes, Budgets
<1>2. ASSUME budget' = IF ok THEN budget ELSE [budget EXCEPT !.faults = @ - 1]
      PROVE  ok /\ NoFaults
  <2>1. CASE ok
    BY <1>2, <2>1 DEF NoFaults
  <2>2. CASE ~ok
    <3>1. budget'.faults = budget.faults - 1
      BY <1>1, <1>2, <2>2 DEF Budgets
    <3> QED
      BY <1>1, <3>1 DEF NoFaults, FaultsLeft
  <2> QED
    BY <2>1, <2>2
<1> QED
  BY <1>2 DEF AppendEvent, EditStatus

\* A write that fails is not one too many, and none is given back.
FaultsKept == budget'.faults <= budget.faults

LEMMA FaultsCounted ==
    ASSUME RangeInv, [Next]_vars
    PROVE  FaultsKept
<1>0. SideTypes /\ budget \in Budgets /\ budget.faults \in Nat
  BY DEF RangeInv, SideTypes, Budgets
<1>1. budget' = budget => FaultsKept
  BY <1>0 DEF FaultsKept
<1>2. ASSUME NEW ok \in BOOLEAN,
             budget' = IF ok THEN budget ELSE [budget EXCEPT !.faults = @ - 1]
      PROVE  FaultsKept
  BY <1>0, <1>2 DEF FaultsKept, Budgets
<1>3. /\ \A e : \A ok \in BOOLEAN : AppendEvent(e, ok) => FaultsKept
      /\ \A s : \A ok \in BOOLEAN : EditStatus(s, ok) => FaultsKept
  BY <1>2 DEF AppendEvent, EditStatus
<1>4. \/ budget' = [budget EXCEPT !.asks = @ - 1]
      \/ budget' = [budget EXCEPT !.hand = @ - 1]
      \/ budget' = [budget EXCEPT !.ticks = @ - 1]
      \/ budget' = [budget EXCEPT !.crashes = @ - 1]
      => FaultsKept
  BY <1>0 DEF FaultsKept, Budgets
<1>5. ASSUME NEW o \in Objs, Actor(o) \/ WatcherFires(o)
      PROVE  FaultsKept
  <2>1. ASSUME \/ AppendQueued(o) \/ Synthesise(o) \/ AppendStarted(o)
               \/ AppendSession(o) \/ TerminalAppend(o)
        PROVE  FaultsKept
    BY <1>3, <2>1
    DEF AppendQueued, Synthesise, AppendStarted, AppendSession, TerminalAppend
  <2>2. ASSUME EditQueued(o) \/ EditRunning(o) \/ TerminalEdit(o)
        PROVE  FaultsKept
    BY <1>3, <2>2 DEF EditQueued, EditRunning, TerminalEdit
  <2>3. ASSUME NeedsUser(o)
        PROVE  FaultsKept
    BY <1>4, <2>3 DEF NeedsUser
  <2>4. ASSUME \/ StartRun(o) \/ Register(o) \/ Rollback(o) \/ ReadQueued(o)
               \/ ReadRefused(o) \/ GoCancelled(o) \/ Spawn(o) \/ SpawnFail(o)
               \/ OnStarted(o) \/ Outcome(o) \/ PostRun(o) \/ CloseDone(o)
               \/ AfterQueued(o) \/ TerminalDelete(o)
               \/ ProcessExit(o) \/ WatcherFires(o)
        PROVE  FaultsKept
    BY <1>1, <2>4 DEF StartRun, StartAgentRun, ResumeAgent, Claim,
       Register, Rollback, ReadQueued, ReadRefused, GoCancelled, Spawn,
       SpawnFail, OnStarted, Outcome, PostRun, CloseDone, AfterQueued,
       TerminalDelete, ProcessExit, WatcherFires, diskVars
  <2>5. ASSUME TerminalRead(o) PROVE FaultsKept
    <3>1. \/ budget' = budget
          \/ budget' = [budget EXCEPT !.faults = @ - 1, !.misread = TRUE]
      BY <2>5 DEF TerminalRead
    <3>2. budget'.faults \in {budget.faults, budget.faults - 1}
      BY <1>0, <3>1, ZenonT(60) DEF Budgets
    <3> QED
      BY <1>0, <3>2 DEF FaultsKept
  <2> QED
    BY <1>5, <2>1, <2>2, <2>3, <2>4, <2>5
    DEF Actor, Setup, Goroutine, RecordTerminal
<1>6. ASSUME NEW c \in Cancellers \cup Watchers,
             (c \in Cancellers /\ CancelFind(c)) \/ CancelRun(c)
      PROVE  FaultsKept
  BY <1>1, <1>6 DEF CancelFind, CancelRun, CancelMark, CancelTerm, CancelKill,
     CancelDone, CancelFinish, diskVars
<1>7. ASSUME Recover \/ ScanBegin(TRUE)
      PROVE  FaultsKept
  <2>1. ASSUME ScanSync \/ ScanEdit \/ ScanFinish PROVE FaultsKept
    BY <1>3, <2>1 DEF ScanSync, ScanEdit, ScanFinish
  <2>2. ASSUME StartupScan \/ ScanRead \/ ScanSkip \/ ScanAdopt \/ ScanStale
               \/ ScanEnd \/ ScanBegin(TRUE)
        PROVE  FaultsKept
    BY <1>1, <1>4, <2>2 DEF StartupScan, ScanRead, ScanSkip, ScanAdopt,
       ScanStale, ScanEnd, ScanBegin, diskVars
  <2> QED
    BY <1>7, <2>1, <2>2 DEF Recover
<1>8. ASSUME NEW r \in Runs, Monitor(r)
      PROVE  FaultsKept
  <2>1. ASSUME MonSync(r) \/ MonLose(r) PROVE FaultsKept
    BY <1>3, <2>1 DEF MonSync, MonLose
  <2>2. ASSUME MonPoll(r) \/ MonRelease(r) \/ MonExit(r) \/ MonClaim(r)
        PROVE  FaultsKept
    BY <1>1, <2>2 DEF MonPoll, MonRelease, MonExit, MonClaim, diskVars
  <2> QED
    BY <1>8, <2>1, <2>2 DEF Monitor
<1>9. ASSUME HandQueue \/ HandClear \/ Close \/ Crash \/ Restart \/ UNCHANGED vars
      PROVE  FaultsKept
  BY <1>1, <1>4, <1>9 DEF HandQueue, HandClear, Close, Crash, Restart, diskVars, vars
<1> QED
  BY <1>5, <1>6, <1>7, <1>8, <1>9 DEF Next, Actor

LEMMA FaultsNext ==
    ASSUME RangeInv, FaultsLeft, [Next]_vars
    PROVE  FaultsLeft' /\ (NoFaults' => NoFaults)
<1>1. budget.faults \in Nat /\ MaxFaults \in Nat /\ FaultsKept
  BY FaultsCounted, AgentRunAssumption DEF RangeInv, SideTypes, Budgets
<1>2. budget'.faults \in Nat
  BY RangeNext DEF RangeInv, SideTypes, Budgets
<1> QED
  BY <1>1, <1>2 DEF FaultsKept, FaultsLeft, NoFaults

\* Whatever happens, the log stays or gets one event that fits.
LEMMA LogSafeNext ==
    ASSUME RangeInv, KeepInv, [Next]_vars
    PROVE  LogSafe
<1>0. /\ log \in Seq(Events) /\ RestKeep /\ nextRun \in Nat
      /\ \A r \in Logged : r < nextRun
  BY Types, BegunFacts DEF RangeInv, KeepInv
<1>1. log' = log => LogSafe
  BY DEF LogSafe
<1>2. ASSUME NEW o \in Objs, Actor(o)
      PROVE  LogSafe
  <2> USE KeepFacts
  <2>1. ASSUME NEW r \in Runs, r = obj[o].run, NEW k, NEW p, NEW st,
               Event(r, k, p, st) \in Events, NEW ok \in BOOLEAN,
               AppendEvent(Event(r, k, p, st), ok),
               k = "session" => r \in Begun,
               Startup \/ status = "running" => r \in Logged
        PROVE  LogSafe
    <3> PICK e \in Events : e = Event(r, k, p, st)
      BY <2>1
    <3>1. e.run = r /\ e.kind = k
      BY DEF Event
    <3>2. e.run < nextRun
      BY <2>1, <3>1 DEF Duty
    <3> QED
      BY <1>0, <2>1, <3>1, <3>2, Says
  <2>2. CASE AppendQueued(o)
    <3>1. /\ obj[o].run \in Runs /\ obj[o].mode \in Modes
          /\ ~Startup /\ status # "running"
      BY <2>2 DEF AppendQueued, At, Named, ObjStates, Duty, Before, Opening
    <3> QED
      BY <2>1, <2>2, <3>1, EventTypes DEF AppendQueued
  <2>3. CASE Synthesise(o)
    <3>1. /\ obj[o].run \in Runs /\ "work" \in Modes
          /\ ~Startup /\ status # "running"
      BY <2>3 DEF Synthesise, At, Named, Modes, Duty, Before, Opening, Early
    <3> QED
      BY <2>1, <2>3, <3>1, EventTypes DEF Synthesise
  <2>4. CASE AppendStarted(o)
    <3>1. /\ obj[o].run \in Runs /\ obj[o].run \in Logged
      BY <2>4 DEF AppendStarted, At, Named, Duty, Going
    <3> QED
      BY <2>1, <2>4, <3>1, EventTypes DEF AppendStarted
  <2>5. CASE AppendSession(o)
    <3>1. /\ obj[o].run \in Runs /\ obj[o].run \in Logged /\ obj[o].run \in Begun
      BY <2>5 DEF AppendSession, At, Named, Duty, Going, Begun
    <3> QED
      BY <2>1, <2>5, <3>1, EventTypes DEF AppendSession
  <2>6. CASE TerminalAppend(o)
    <3>1. /\ obj[o].run \in Runs /\ obj[o].run \in Logged /\ obj[o].st \in Terminal
      BY <2>6 DEF TerminalAppend, Fin, Named, Duty
    <3> QED
      BY <2>1, <2>6, <3>1, EventTypes DEF TerminalAppend
  <2>7. CASE StartRun(o)
    BY <1>1, <2>7 DEF StartRun, StartAgentRun, ResumeAgent, Claim, diskVars
  <2>8. CASE \/ Register(o) \/ EditQueued(o) \/ Rollback(o) \/ ReadQueued(o)
             \/ ReadRefused(o)
    BY <1>1, <2>8 DEF Register, EditQueued, Rollback, ReadQueued, ReadRefused, diskVars
  <2>9. CASE \/ GoCancelled(o) \/ Spawn(o) \/ SpawnFail(o) \/ OnStarted(o)
             \/ EditRunning(o) \/ Outcome(o) \/ PostRun(o) \/ CloseDone(o)
             \/ AfterQueued(o)
    BY <1>1, <2>9 DEF GoCancelled, Spawn, SpawnFail, OnStarted, EditRunning,
       Outcome, PostRun, CloseDone, AfterQueued, diskVars
  <2>10. CASE \/ TerminalRead(o) \/ TerminalEdit(o) \/ TerminalDelete(o)
              \/ ProcessExit(o) \/ NeedsUser(o)
    BY <1>1, <2>10 DEF TerminalRead, TerminalEdit, TerminalDelete, ProcessExit,
       NeedsUser, diskVars
  <2> QED
    BY <1>2, <2>2, <2>3, <2>4, <2>5, <2>6, <2>7, <2>8, <2>9, <2>10
    DEF Actor, Setup, Goroutine, RecordTerminal
<1>3. ASSUME \/ \E c \in Cancellers : CancelFind(c)
             \/ \E c \in Objs : WatcherFires(c)
             \/ \E c \in Cancellers \cup Watchers : CancelRun(c)
      PROVE  LogSafe
  BY <1>1, <1>3 DEF CancelFind, WatcherFires, CancelRun, CancelMark, CancelTerm,
     CancelKill, CancelDone, CancelFinish, diskVars
<1>4. ASSUME NEW r \in Logged, NEW st \in Terminal, NEW ok \in BOOLEAN,
             AppendEvent(Event(r, "finished", 0, st), ok)
      PROVE  LogSafe
  <2> PICK e : e = Event(r, "finished", 0, st)
    OBVIOUS
  <2>1. e \in Events /\ e.run = r /\ e.kind = "finished"
    BY BegunFacts, EventTypes DEF Event
  <2> QED
    BY <1>0, <1>4, <2>1, Says
<1>5. ASSUME Recover \/ ScanBegin(TRUE) PROVE LogSafe
  <2>1. CASE ScanFinish
    <3>1. rec.run \in Logged /\ rec.st \in Terminal
      BY <1>0, <2>1 DEF ScanFinish, RecAt, RestKeep, RecKeep, RangeInv, RecOK, Terminal
    <3> QED
      BY <1>4, <2>1, <3>1 DEF ScanFinish
  <2>2. CASE ~ScanFinish
    BY <1>1, <1>5, <2>2 DEF Recover, StartupScan, ScanBegin, ScanRead, ScanSkip,
       ScanSync, ScanAdopt, ScanStale, ScanEdit, ScanEnd, diskVars
  <2> QED
    BY <2>1, <2>2
<1>6. ASSUME NEW r \in Runs, Monitor(r) PROVE LogSafe
  <2>1. CASE MonLose(r)
    <3>1. r \in Logged /\ "lost" \in Terminal
      BY <1>0, <2>1, BegunFacts DEF MonLose, MonAt, RestKeep, MonKeep, Terminal
    <3> QED
      BY <1>4, <2>1, <3>1 DEF MonLose
  <2>2. CASE ~MonLose(r)
    BY <1>1, <1>6, <2>2 DEF Monitor, MonPoll, MonRelease, MonSync, MonExit,
       MonClaim, diskVars
  <2> QED
    BY <2>1, <2>2
<1>7. ASSUME HandQueue \/ HandClear \/ Close \/ Crash \/ Restart \/ UNCHANGED vars
      PROVE  LogSafe
  BY <1>1, <1>7 DEF HandQueue, HandClear, Close, Crash, Restart, diskVars, vars
<1> QED
  BY <1>2, <1>3, <1>5, <1>6, <1>7 DEF Next, Actor

\* An end of a run with that outcome is in the log.
FinishedAs(r, s) ==
    \E i \in DOMAIN log : /\ log[i].run = r /\ log[i].kind = "finished"
                          /\ log[i].st = s

LEMMA FinishedStays ==
    ASSUME log \in Seq(Events), LogSafe
    PROVE  /\ \A r, s : FinishedAs(r, s) => FinishedAs(r, s)'
           /\ \A r, k : Has(r, k) => Has(r, k)'
           /\ Logged \subseteq Logged'
<1>1. CASE log' = log
  BY <1>1 DEF FinishedAs, Has, Logged
<1>2. ASSUME NEW e \in Events, log' = Append(log, e)
      PROVE  /\ \A r, s : FinishedAs(r, s) => FinishedAs(r, s)'
             /\ \A r, k : Has(r, k) => Has(r, k)'
             /\ Logged \subseteq Logged'
  <2>1. /\ \A i \in 1..Len(log) : log'[i] = log[i]
        /\ \A r, k : Has(r, k) => Has(r, k)'
        /\ Logged \subseteq Logged' /\ DOMAIN log = 1..Len(log)
        /\ DOMAIN log \subseteq DOMAIN log'
    <3>1. DOMAIN log' = 1..(Len(log) + 1) /\ Len(log) \in Nat
      BY <1>2, HasAppended, LenProperties, LogFacts
    <3> QED
      BY <1>2, <3>1, HasAppended, LogFacts
  <2>2. \A r, s : FinishedAs(r, s) => FinishedAs(r, s)'
    BY <2>1 DEF FinishedAs
  <2> QED
    BY <2>1, <2>2
<1> QED
  BY <1>1, <1>2 DEF LogSafe

LEMMA FinishWritten ==
    ASSUME log \in Seq(Events), NEW r \in Runs, NEW p, NEW s \in Terminal,
           Event(r, "finished", p, s) \in Events,
           log' = Append(log, Event(r, "finished", p, s))
    PROVE  FinishedAs(r, s)' /\ Has(r, "finished")'
<1> PICK e \in Events : e = Event(r, "finished", p, s)
  OBVIOUS
<1>1. e.run = r /\ e.kind = "finished" /\ e.st = s
  BY DEF Event
<1>2. log'[Len(log) + 1] = e /\ Len(log) + 1 \in DOMAIN log'
  <2>1. Len(log) \in Nat /\ Len(log') = Len(log) + 1 /\ log' \in Seq(Events)
    BY HasAppended, LogFacts
  <2>2. DOMAIN log' = 1..Len(log')
    BY <2>1, LenProperties
  <2> QED
    BY <2>1, <2>2, HasAppended
<1> QED
  BY <1>1, <1>2 DEF FinishedAs, Has

\* What a reader takes for the outcome of a run is one that is in the log.
LEMMA FinishRead ==
    ASSUME log \in Seq(Events), NEW n \in 0..Len(log), NEW r,
           FinishIn(n, r) # "none"
    PROVE  FinishedAs(r, FinishIn(n, r))
<1> DEFINE at == Seen(n, r, "finished")
<1>1. n \in Nat /\ at \in SUBSET (1..n) /\ at # {}
  BY LogFacts, SeenIn DEF FinishIn
<1>2. LastOf(at) \in at
  BY <1>1, LastOfIn
<1>3. /\ LastOf(at) \in DOMAIN log /\ log[LastOf(at)].kind = "finished"
      /\ log[LastOf(at)].run = r
  BY <1>2, LogFacts, SeenIn
<1>4. FinishIn(n, r) = log[LastOf(at)].st
  BY <1>1 DEF FinishIn
<1> QED
  BY <1>3, <1>4 DEF FinishedAs

-----------------------------------------------------------------------------
(* What a step does to the objects, in short.                              *)

\* The others stay, and o keeps what it is.
Alone(o) ==
    /\ \A q \in Objs : q # o => obj'[q] = obj[q]
    /\ obj'[o].kind = obj[o].kind /\ obj'[o].cancelled = obj[o].cancelled

\* The goroutine of o goes on; it claims the record after it has ended, or as
\* the worker of a cancelled run.
Moved(o) ==
    /\ Alone(o) /\ obj'[o].run = obj[o].run
    /\ \/ /\ obj'[o].fin = "append" /\ obj[o].fin = "free"
          /\ obj'[o].pc = obj[o].pc /\ obj[o].pc \in {"post", "after"}
       \/ /\ obj'[o].fin = obj[o].fin
          /\ obj'[o].st = obj[o].st \/ obj[o].pc \in {"go", "wait"}
          /\ \/ /\ obj[o].pc = "go"
                /\ \/ obj'[o].pc = "close" /\ obj[o].cancelled
                   \/ obj'[o].pc \in {"started", "post"}
             \/ obj[o].pc = "started" /\ obj'[o].pc \in {"wait", "mark"}
             \/ obj[o].pc = "mark" /\ obj'[o].pc = "record"
             \/ obj[o].pc = "record" /\ obj'[o].pc = "wait"
             \/ obj[o].pc = "wait" /\ obj'[o].pc = "post"
             \/ /\ obj[o].pc = "post" /\ obj'[o].pc = "close"
                /\ obj[o].cancelled \/ obj[o].fin = "done"
             \/ obj[o].pc = "close" /\ obj'[o].pc \in {"after", "gone"}
             \/ /\ obj[o].pc = "after" /\ obj'[o].pc = "gone"
                /\ ~obj[o].cancelled \/ obj[o].fin = "done"

LEMMA GoroutineMoves ==
    ASSUME obj \in [Objs -> ObjStates], NEW o \in Objs, Goroutine(o)
    PROVE  Moved(o)
<1>0. obj[o] \in ObjStates
  OBVIOUS
<1>1. ASSUME NEW pc, Goto(o, pc)
      PROVE  /\ Alone(o) /\ obj'[o].run = obj[o].run /\ obj'[o].pc = pc
             /\ obj'[o].fin = obj[o].fin /\ obj'[o].st = obj[o].st
  <2>1. Becomes(o, pc, obj[o].fin, obj[o].st) /\ FlagsKept(o)
    BY <1>1, GotoBecomes
  <2> QED
    BY <2>1 DEF Becomes, FlagsKept, Alone
<1>2. ASSUME NEW s, obj' = [obj EXCEPT ![o] = Claimed(o, s)]
      PROVE  /\ Alone(o) /\ obj'[o].run = obj[o].run /\ obj'[o].pc = obj[o].pc
             /\ obj'[o].fin = "append"
  <2>1. Becomes(o, obj[o].pc, "append", s) /\ FlagsKept(o)
    BY <1>2, ClaimBecomes
  <2> QED
    BY <2>1 DEF Becomes, FlagsKept, Alone
<1>3. CASE GoCancelled(o)
  BY <1>1, <1>3 DEF GoCancelled, At, Moved
<1>4. CASE Spawn(o)
  BY <1>1, <1>4 DEF Spawn, At, Moved
<1>5. CASE SpawnFail(o)
  <2>1. obj' = [obj EXCEPT ![o] = [obj[o] EXCEPT !.pc = "post", !.st = "failed"]]
    BY <1>5 DEF SpawnFail
  <2> QED
    BY <1>0, <1>5, <2>1 DEF SpawnFail, At, ObjStates, Moved, Alone
<1>6. CASE OnStarted(o)
  <2> PICK pc \in {"wait", "mark"} :
        pc = IF obj[o].cancelled THEN "wait" ELSE "mark"
    OBVIOUS
  <2>1. obj' = [obj EXCEPT ![o] = [obj[o] EXCEPT !.pid = o, !.pc = pc]]
    BY <1>6 DEF OnStarted
  <2> QED
    BY <1>0, <1>6, <2>1 DEF OnStarted, At, ObjStates, Moved, Alone
<1>7. CASE EditRunning(o)
  BY <1>1, <1>7 DEF EditRunning, At, Moved
<1>8. CASE AppendStarted(o)
  BY <1>1, <1>8 DEF AppendStarted, At, Moved
<1>9. CASE Outcome(o)
  <2>1. PICK st : obj' = [obj EXCEPT ![o] = [obj[o] EXCEPT !.pc = "post", !.st = st]]
    BY <1>9 DEF Outcome
  <2> QED
    BY <1>0, <1>9, <2>1 DEF Outcome, At, ObjStates, Moved, Alone
<1>10. CASE PostRun(o)
  <2>1. CASE obj[o].cancelled \/ obj[o].fin = "done"
    BY <1>1, <1>10, <2>1 DEF PostRun, At, Moved
  <2>2. CASE ~(obj[o].cancelled \/ obj[o].fin = "done")
    BY <1>2, <1>10, <2>2 DEF PostRun, At, Moved
  <2> QED
    BY <2>1, <2>2
<1>11. CASE CloseDone(o)
  <2> PICK pc \in {"after", "gone"} :
        pc = IF obj[o].kind = "queued" THEN "after" ELSE "gone"
    OBVIOUS
  <2>1. obj' = [obj EXCEPT ![o] = [obj[o] EXCEPT !.done = TRUE, !.pc = pc]]
    BY <1>11 DEF CloseDone
  <2> QED
    BY <1>0, <1>11, <2>1 DEF CloseDone, At, ObjStates, Moved, Alone
<1>12. CASE AfterQueued(o)
  <2>1. CASE obj[o].cancelled /\ obj[o].fin # "done"
    BY <1>2, <1>12, <2>1 DEF AfterQueued, At, Moved
  <2>2. CASE ~(obj[o].cancelled /\ obj[o].fin # "done")
    BY <1>1, <1>12, <2>2 DEF AfterQueued, At, Moved
  <2> QED
    BY <2>1, <2>2
<1> QED
  BY <1>3, <1>4, <1>5, <1>6, <1>7, <1>8, <1>9, <1>10, <1>11, <1>12 DEF Goroutine

\* Before it has a process, a start leaves the record alone.
LEMMA SetupMoves ==
    ASSUME obj \in [Objs -> ObjStates], NEW o \in Objs, StartRun(o) \/ Setup(o)
    PROVE  /\ \A q \in Objs : q # o => obj'[q] = obj[q]
           /\ obj[o].pc \in {"unused"} \cup Before
           /\ obj'[o].fin \in {"free", obj[o].fin}
<1>0. obj[o] \in ObjStates
  OBVIOUS
<1>1. obj[o].pc \in {"unused"} \cup Before
  BY DEF StartRun, StartAgentRun, ResumeAgent, Claim, Fresh, Setup, Register,
         AppendQueued, EditQueued, Rollback, ReadQueued, ReadRefused, Synthesise,
         At, Before, Opening, Early
<1>2. ASSUME NEW x, obj' = [obj EXCEPT ![o] = x], x.fin \in {"free", obj[o].fin}
      PROVE  /\ \A q \in Objs : q # o => obj'[q] = obj[q]
             /\ obj'[o].fin \in {"free", obj[o].fin}
  BY <1>2
<1>3. CASE StartRun(o)
  <2>0. ASSUME NEW x, obj' = [obj EXCEPT ![o] = x], x.fin = "free"
        PROVE  /\ \A q \in Objs : q # o => obj'[q] = obj[q]
               /\ obj'[o].fin \in {"free", obj[o].fin}
    BY <1>2, <2>0
  <2>1. ASSUME NEW r, NEW m,
               obj' = [obj EXCEPT ![o] = [Unused EXCEPT !.pc = "register",
                                                 !.run = r, !.mode = m]]
        PROVE  /\ \A q \in Objs : q # o => obj'[q] = obj[q]
               /\ obj'[o].fin \in {"free", obj[o].fin}
    <3> DEFINE x == [Unused EXCEPT !.pc = "register", !.run = r, !.mode = m]
    <3>1. x.fin = "free" /\ obj' = [obj EXCEPT ![o] = x]
      BY <2>1 DEF Unused
    <3> HIDE DEF x
    <3> QED
      BY <2>0, <3>1
  <2>2. CASE \E m \in StartModes : StartAgentRun(o, m)
    BY <1>1, <2>1, <2>2 DEF StartAgentRun
  <2>3. CASE ResumeAgent(o)
    BY <1>1, <2>1, <2>3 DEF ResumeAgent
  <2>4. CASE Claim(o)
    <3> DEFINE x == [Unused EXCEPT !.pc = "claimed", !.kind = "queued"]
    <3>1. x.fin = "free" /\ obj' = [obj EXCEPT ![o] = x]
      BY <2>4 DEF Claim, Unused
    <3> HIDE DEF x
    <3> QED
      BY <1>1, <2>0, <3>1
  <2> QED
    BY <1>3, <2>2, <2>3, <2>4 DEF StartRun
<1>4. ASSUME NEW pc, Goto(o, pc)
      PROVE  /\ \A q \in Objs : q # o => obj'[q] = obj[q]
             /\ obj'[o].fin \in {"free", obj[o].fin}
  <2>1. obj' = [obj EXCEPT ![o] = [obj[o] EXCEPT !.pc = pc]]
    BY <1>4 DEF Goto
  <2> QED
    BY <1>0, <2>1 DEF ObjStates
<1>5. CASE Register(o) \/ AppendQueued(o) \/ EditQueued(o) \/ ReadRefused(o)
           \/ Synthesise(o)
  BY <1>1, <1>4, <1>5 DEF Register, AppendQueued, EditQueued, ReadRefused, Synthesise
<1>6. CASE Rollback(o)
  <2>1. obj' = [obj EXCEPT ![o] = [obj[o] EXCEPT !.pc = "gone", !.ctx = TRUE]]
    BY <1>6 DEF Rollback
  <2> QED
    BY <1>0, <1>1, <2>1 DEF ObjStates
<1>7. CASE ReadQueued(o)
  <2>1. CASE OpenQueued # {}
    <3> PICK r : r = LatestOf(OpenQueued)
      OBVIOUS
    <3> PICK m : m = ModeOf(r)
      OBVIOUS
    <3>1. obj' = [obj EXCEPT ![o] = [obj[o] EXCEPT !.pc = "register",
                                                 !.run = r, !.mode = m]]
      BY <1>7, <2>1 DEF ReadQueued
    <3> QED
      BY <1>0, <1>1, <3>1 DEF ObjStates
  <2>2. CASE OpenQueued = {}
    <3>1. obj' = [obj EXCEPT ![o] = [obj[o] EXCEPT !.pc = "synth", !.run = nextRun]]
      BY <1>7, <2>2 DEF ReadQueued
    <3> QED
      BY <1>0, <1>1, <3>1 DEF ObjStates
  <2> QED
    BY <2>1, <2>2
<1> QED
  BY <1>3, <1>5, <1>6, <1>7 DEF Setup

\* Whoever cancels leaves every object where it is, and claims the record of
\* one whose Done is closed.
Cancelled ==
    \A q \in Objs :
        /\ obj'[q].pc = obj[q].pc /\ obj'[q].run = obj[q].run
        /\ obj'[q].kind = obj[q].kind
        /\ obj[q].cancelled => obj'[q].cancelled
        /\ \/ obj'[q].fin = obj[q].fin /\ obj'[q].st = obj[q].st
           \/ obj'[q].fin = "append" /\ obj[q].fin = "free" /\ obj[q].done

LEMMA CancellerMoves ==
    ASSUME RangeInv, CancelWaited, NEW c \in Cancellers \cup Watchers,
           \/ c \in Cancellers /\ CancelFind(c)
           \/ c \in Objs /\ WatcherFires(c)
           \/ CancelRun(c)
    PROVE  Cancelled
<1>1. obj \in [Objs -> ObjStates] /\ (canc[c].pc # "idle" => canc[c].obj \in Objs)
  BY Types DEF RangeInv, CancOK
<1>2. obj' = obj => Cancelled
  BY DEF Cancelled
<1>3. ASSUME NEW d \in Objs, NEW x, obj' = [obj EXCEPT ![d] = x],
             x.pc = obj[d].pc, x.run = obj[d].run, x.kind = obj[d].kind,
             obj[d].cancelled => x.cancelled,
             \/ x.fin = obj[d].fin /\ x.st = obj[d].st
             \/ x.fin = "append" /\ obj[d].fin = "free" /\ obj[d].done
      PROVE  Cancelled
  <2>1. obj'[d] = x /\ \A q \in Objs : q # d => obj'[q] = obj[q]
    BY <1>1, <1>3
  <2> QED
    BY <1>3, <2>1 DEF Cancelled
<1> DEFINE d == canc[c].obj
<1>4. CASE obj' = [obj EXCEPT ![d].cancelled = TRUE] /\ d \in Objs
  <2> DEFINE x == [obj[d] EXCEPT !.cancelled = TRUE]
  <2>1. /\ x.pc = obj[d].pc /\ x.run = obj[d].run /\ x.kind = obj[d].kind
        /\ x.fin = obj[d].fin /\ x.st = obj[d].st /\ x.cancelled
        /\ obj' = [obj EXCEPT ![d] = x]
    BY <1>1, <1>4 DEF ObjStates
  <2> HIDE DEF d, x
  <2> QED
    BY <1>3, <1>4, <2>1
<1>5. CASE obj' = [obj EXCEPT ![d].ctx = TRUE] /\ d \in Objs
  <2> DEFINE x == [obj[d] EXCEPT !.ctx = TRUE]
  <2>1. /\ x.pc = obj[d].pc /\ x.run = obj[d].run /\ x.kind = obj[d].kind
        /\ x.fin = obj[d].fin /\ x.st = obj[d].st
        /\ x.cancelled = obj[d].cancelled
        /\ obj' = [obj EXCEPT ![d] = x]
    BY <1>1, <1>5 DEF ObjStates
  <2> HIDE DEF d, x
  <2> QED
    BY <1>3, <1>5, <2>1
<1>6. ASSUME NEW b, obj' = [obj EXCEPT ![d].done = b], d \in Objs
      PROVE  Cancelled
  <2> DEFINE x == [obj[d] EXCEPT !.done = b]
  <2>1. /\ x.pc = obj[d].pc /\ x.run = obj[d].run /\ x.kind = obj[d].kind
        /\ x.fin = obj[d].fin /\ x.st = obj[d].st
        /\ x.cancelled = obj[d].cancelled
    BY <1>1, <1>6 DEF ObjStates
  <2>2. obj' = [obj EXCEPT ![d] = x]
    BY <1>6
  <2> HIDE DEF d, x
  <2> QED
    BY <1>3, <1>6, <2>1, <2>2
<1>7. CASE /\ obj' = [obj EXCEPT ![d] = Claimed(d, "cancelled")] /\ d \in Objs
           /\ obj[d].fin = "free" /\ obj[d].done
  <2> DEFINE x == [obj[d] EXCEPT !.fin = "append", !.st = "cancelled"]
  <2>1. /\ x.pc = obj[d].pc /\ x.run = obj[d].run /\ x.kind = obj[d].kind
        /\ x.fin = "append" /\ x.cancelled = obj[d].cancelled
        /\ obj' = [obj EXCEPT ![d] = x]
    BY <1>1, <1>7 DEF ObjStates, Claimed
  <2> HIDE DEF d, x
  <2> QED
    BY <1>3, <1>7, <2>1
<1>8. CancelRun(c) => d \in Objs
  BY <1>1 DEF CancelRun, CancelMark, CancelTerm, CancelKill, CancelDone,
     CancelFinish, CancAt
<1>9. CASE CancelFinish(c)
  <2>1. obj[d].done /\ d \in Objs
    BY <1>8, <1>9 DEF CancelFinish, CancAt, CancelWaited, CancelRun
  <2> QED
    BY <1>2, <1>7, <1>9, <2>1 DEF CancelFinish
<1> QED
  BY <1>2, <1>4, <1>5, <1>6, <1>8, <1>9
  DEF CancelFind, WatcherFires, CancelRun, CancelMark, CancelTerm,
      CancelKill, CancelDone

\* The record of o goes one step further.
RecordMoved(o) ==
    /\ Alone(o) /\ obj'[o].run = obj[o].run /\ obj'[o].pc = obj[o].pc
    /\ \/ obj[o].fin = "append" /\ obj'[o].fin \in {"read", "edit"} /\ TerminalAppend(o)
          /\ obj'[o].st = obj[o].st
       \/ /\ obj[o].fin = "read" /\ log' = log /\ status' = status
          /\ \/ obj'[o].fin = "edit" /\ obj'[o].st \in {"none", obj[o].st}
             \/ obj'[o].fin = "delete" /\ status = "needs-user"
       \/ obj[o].fin = "edit" /\ obj'[o].fin = "delete" /\ TerminalEdit(o) /\ log' = log
       \/ obj[o].fin = "delete" /\ obj'[o].fin = "done" /\ log' = log /\ status' = status

LEMMA RecordMoves ==
    ASSUME obj \in [Objs -> ObjStates], NEW o \in Objs, RecordTerminal(o)
    PROVE  RecordMoved(o)
<1>0. obj[o] \in ObjStates
  OBVIOUS
<1>1. ASSUME NEW f, SetFin(o, f)
      PROVE  /\ Alone(o) /\ obj'[o].run = obj[o].run /\ obj'[o].pc = obj[o].pc
             /\ obj'[o].fin = f /\ obj'[o].st = obj[o].st
  <2>1. Becomes(o, obj[o].pc, f, obj[o].st) /\ FlagsKept(o)
    BY <1>1, FinBecomes
  <2> QED
    BY <2>1 DEF Becomes, FlagsKept, Alone
<1>2. CASE TerminalAppend(o)
  <2>1. PICK f \in {"read", "edit"} : SetFin(o, f)
    BY <1>2 DEF TerminalAppend
  <2>2. obj[o].fin = "append"
    BY <1>2 DEF TerminalAppend, Fin
  <2> QED
    BY <1>1, <1>2, <2>1, <2>2 DEF RecordMoved
<1>3. CASE TerminalRead(o)
  <2>1. obj[o].fin = "read" /\ log' = log /\ status' = status
    BY <1>3 DEF TerminalRead, Fin, diskVars
  <2>2. CASE SetFin(o, IF status = "needs-user" THEN "delete" ELSE "edit")
    BY <1>1, <2>1, <2>2 DEF RecordMoved
  <2>4. CASE SetFin(o, "edit")
    BY <1>1, <2>1, <2>4 DEF RecordMoved
  <2>3. CASE obj' = [obj EXCEPT ![o].fin = "edit", ![o].st = "none"]
    <3>1. obj' = [obj EXCEPT ![o] = [obj[o] EXCEPT !.fin = "edit", !.st = "none"]]
      BY <2>3
    <3> QED
      BY <1>0, <2>1, <3>1 DEF ObjStates, RecordMoved, Alone
  <2> QED
    BY <1>3, <2>2, <2>3, <2>4 DEF TerminalRead
<1>4. CASE TerminalEdit(o)
  <2>1. obj[o].fin = "edit" /\ log' = log /\ SetFin(o, "delete")
    BY <1>4 DEF TerminalEdit, Fin
  <2> QED
    BY <1>1, <1>4, <2>1 DEF RecordMoved
<1>5. CASE TerminalDelete(o)
  <2>1. obj[o].fin = "delete" /\ log' = log /\ status' = status /\ SetFin(o, "done")
    BY <1>5 DEF TerminalDelete, Fin, diskVars
  <2> QED
    BY <1>1, <2>1 DEF RecordMoved
<1> QED
  BY <1>2, <1>3, <1>4, <1>5 DEF RecordTerminal

-----------------------------------------------------------------------------
\* A record may be claimed; nothing else happens to an object.
Claims ==
    \A q \in Objs :
        /\ obj'[q].pc = obj[q].pc /\ obj'[q].run = obj[q].run
        /\ obj'[q].kind = obj[q].kind
        /\ obj[q].cancelled => obj'[q].cancelled
        /\ \/ obj'[q].fin = obj[q].fin /\ obj'[q].st = obj[q].st
           \/ obj'[q].fin = "append" /\ obj[q].fin = "free"

\* The monitor of r goes one step further.
MonitorMoved(r) ==
    /\ rec' = rec /\ up' = up
    /\ \A q \in Runs : q # r => mon'[q] = mon[q]
    /\ Claims
    /\ \/ /\ mon[r].pc = "poll" /\ log' = log /\ status' = status
          /\ \/ Newest # r /\ mon'[r].pc = "off"
             \/ /\ Newest = r /\ mon'[r].pc = "release"
                /\ mon'[r].st = FinishIn(Len(log), r) /\ mon'[r].st # "none"
             \/ Newest = r /\ mon'[r].pc = "exit"
       \/ /\ mon[r].pc = "release" /\ mon'[r].pc = "sync"
          /\ mon'[r].st = mon[r].st /\ log' = log /\ status' = status
       \/ /\ mon[r].pc = "sync" /\ mon'[r].pc \in {"off", "poll"} /\ log' = log
          /\ \E ok \in BOOLEAN : EditStatus(mon[r].st, ok)
       \/ /\ mon[r].pc = "exit" /\ log' = log /\ status' = status
          /\ \/ mon'[r].pc \in {"lose", "claim"}
             \/ mon'[r].pc = "off" /\ Tracked(r) /\ obj[active].cancelled
       \/ /\ mon[r].pc = "claim" /\ log' = log /\ status' = status
          /\ mon'[r].pc = "off" /\ obj'[mon[r].obj].fin # "free"
       \/ /\ mon[r].pc = "lose" /\ status' = status
          /\ mon'[r].pc \in {"sync", "poll"} /\ mon'[r].st = "lost"
          /\ \E ok \in BOOLEAN :
                /\ AppendEvent(Event(r, "finished", 0, "lost"), ok)
                /\ ok => mon'[r].pc = "sync"

LEMMA MonitorMoves ==
    ASSUME RangeInv, KeepInv, NEW r \in Runs, Monitor(r)
    PROVE  MonitorMoved(r)
<1>0. /\ mon \in [Runs -> MonStates] /\ mon[r] \in MonStates
      /\ obj \in [Objs -> ObjStates]
  BY Types DEF RangeInv, SideTypes
<1>1. /\ rec' = rec /\ up' = up
      /\ \A q \in Runs : q # r => mon'[q] = mon[q]
  BY <1>0 DEF Monitor, MonPoll, MonRelease, MonSync, MonExit, MonClaim, MonLose,
     SetMon, gateVars
<1>2. obj' = obj => Claims
  BY DEF Claims
<1>3. ASSUME NEW d \in Objs, obj' = [obj EXCEPT ![d].done = TRUE]
      PROVE  Claims
  <2>1. /\ \A q \in Objs : q # d => obj'[q] = obj[q]
        /\ obj[d] \in ObjStates /\ obj'[d] = [obj[d] EXCEPT !.done = TRUE]
    BY <1>0, <1>3
  <2> QED
    BY <2>1 DEF Claims, ObjStates
<1>4. ASSUME NEW pc
      PROVE  /\ SetMon(r, pc) => mon'[r].pc = pc /\ mon'[r].st = mon[r].st
             /\ \A s : mon' = [mon EXCEPT ![r].pc = pc, ![r].st = s]
                         => mon'[r].pc = pc /\ mon'[r].st = s
             /\ \A d : mon' = [mon EXCEPT ![r].pc = pc, ![r].obj = d]
                         => mon'[r].pc = pc
  BY <1>0 DEF SetMon, MonStates
<1>5. CASE MonPoll(r)
  <2>1. /\ mon[r].pc = "poll" /\ log' = log /\ status' = status /\ obj' = obj
    BY <1>5 DEF MonPoll, MonAt, diskVars
  <2> PICK st : st = FinishIn(Len(log), r)
    OBVIOUS
  <2>2. \/ Newest # r /\ SetMon(r, "off")
        \/ /\ Newest = r /\ st # "none"
           /\ mon' = [mon EXCEPT ![r].pc = "release", ![r].st = st]
        \/ Newest = r /\ SetMon(r, "exit")
    BY <1>5 DEF MonPoll, Newest
  <2>3. \/ Newest # r /\ mon'[r].pc = "off"
        \/ Newest = r /\ mon'[r].pc = "release" /\ mon'[r].st = st /\ st # "none"
        \/ Newest = r /\ mon'[r].pc = "exit"
    BY <1>4, <2>2
  <2> QED
    BY <1>1, <1>2, <2>1, <2>3 DEF MonitorMoved
<1>6. CASE MonRelease(r)
  <2>1. /\ mon[r].pc = "release" /\ log' = log /\ status' = status
        /\ mon'[r].pc = "sync" /\ mon'[r].st = mon[r].st
    BY <1>4, <1>6 DEF MonRelease, MonAt, diskVars
  <2>2. Claims
    <3>1. CASE Tracked(r)
      BY <1>3, <1>6, <3>1, TrackedStub, <2>1 DEF MonRelease
    <3>2. CASE ~Tracked(r)
      BY <1>2, <1>6, <3>2 DEF MonRelease
    <3> QED
      BY <3>1, <3>2
  <2> QED
    BY <1>1, <2>1, <2>2 DEF MonitorMoved
<1>7. CASE MonSync(r)
  <2>1. /\ mon[r].pc = "sync" /\ log' = log /\ obj' = obj
        /\ \E ok \in BOOLEAN : EditStatus(mon[r].st, ok)
    BY <1>7 DEF MonSync, MonAt
  <2>2. PICK ok \in BOOLEAN : SetMon(r, IF ok THEN "off" ELSE "poll")
    BY <1>7 DEF MonSync
  <2>3. mon'[r].pc \in {"off", "poll"}
    BY <1>4, <2>2
  <2> QED
    BY <1>1, <1>2, <2>1, <2>3 DEF MonitorMoved
<1>8. CASE MonExit(r)
  <2>1. mon[r].pc = "exit" /\ log' = log /\ status' = status
    BY <1>8 DEF MonExit, MonAt, diskVars
  <2>2. CASE ~Tracked(r)
    <3>1. mon'[r].pc = "lose" /\ obj' = obj
      BY <1>4, <1>8, <2>2 DEF MonExit
    <3> QED
      BY <1>1, <1>2, <2>1, <3>1 DEF MonitorMoved
  <2>3. CASE Tracked(r)
    <3>1. Claims
      BY <1>3, <1>8, <2>1, <2>3, TrackedStub DEF MonExit
    <3>2. CASE obj[active].cancelled
      <4>1. mon' = [mon EXCEPT ![r].pc = "off", ![r].obj = active]
        BY <1>8, <2>3, <3>2 DEF MonExit
      <4> QED
        BY <1>1, <1>4, <2>1, <2>3, <3>1, <3>2, <4>1 DEF MonitorMoved
    <3>3. CASE ~obj[active].cancelled
      <4>1. mon' = [mon EXCEPT ![r].pc = "claim", ![r].obj = active]
        BY <1>8, <2>3, <3>3 DEF MonExit
      <4> QED
        BY <1>1, <1>4, <2>1, <3>1, <4>1 DEF MonitorMoved
    <3> QED
      BY <3>2, <3>3
  <2> QED
    BY <2>2, <2>3
<1>9. CASE MonClaim(r)
  <2>1. /\ mon[r].pc = "claim" /\ log' = log /\ status' = status
        /\ mon'[r].pc = "off"
    BY <1>4, <1>9 DEF MonClaim, MonAt, diskVars
  <2> PICK d : d = mon[r].obj
    OBVIOUS
  <2>2. d \in Objs
    BY <2>1 DEF RangeInv, MonOK
  <2>3. obj' = IF obj[d].fin = "free" THEN [obj EXCEPT ![d] = Claimed(d, "lost")]
               ELSE obj
    BY <1>9 DEF MonClaim
  <2>4. Claims /\ obj'[d].fin # "free"
    <3>1. CASE obj[d].fin = "free"
      <4>1. /\ obj' = [obj EXCEPT ![d] = Claimed(d, "lost")]
            /\ \A q \in Objs : q # d => obj'[q] = obj[q]
        BY <1>0, <2>3, <3>1
      <4>2. Becomes(d, obj[d].pc, "append", "lost") /\ FlagsKept(d)
        BY <1>0, <2>2, <4>1, ClaimBecomes DEF Terminal
      <4> QED
        BY <2>2, <3>1, <4>1, <4>2 DEF Claims, Becomes, FlagsKept
    <3>2. CASE obj[d].fin # "free"
      BY <1>2, <2>3, <3>2
    <3> QED
      BY <3>1, <3>2
  <2> QED
    BY <1>1, <2>1, <2>4 DEF MonitorMoved
<1>10. CASE MonLose(r)
  <2>1. mon[r].pc = "lose" /\ status' = status /\ obj' = obj
    BY <1>10 DEF MonLose, MonAt
  <2>2. PICK ok \in BOOLEAN :
            /\ AppendEvent(Event(r, "finished", 0, "lost"), ok)
            /\ mon' = [mon EXCEPT ![r].pc = IF ok THEN "sync" ELSE "poll",
                                  ![r].st = "lost"]
    BY <1>10 DEF MonLose
  <2>3. /\ mon'[r].pc \in {"sync", "poll"} /\ mon'[r].st = "lost"
        /\ ok => mon'[r].pc = "sync"
    <3> PICK pc \in {"sync", "poll"} : pc = IF ok THEN "sync" ELSE "poll"
      OBVIOUS
    <3>1. mon' = [mon EXCEPT ![r].pc = pc, ![r].st = "lost"]
      BY <2>2
    <3> QED
      BY <1>4, <3>1
  <2> QED
    BY <1>1, <1>2, <2>1, <2>2, <2>3 DEF MonitorMoved
<1> QED
  BY <1>5, <1>6, <1>7, <1>8, <1>9, <1>10 DEF Monitor

\* A scan adopts a run, or leaves the objects alone.
ScanLeaves ==
    \A q \in Objs :
       \/ obj'[q] = obj[q]
       \/ /\ ScanAdopt /\ obj[q].pc = "unused"
          /\ obj'[q].fin = "free" /\ obj'[q].pc = "stub"

LEMMA ScanMoves ==
    ASSUME RangeInv, KeepInv, Recover \/ ScanBegin(TRUE)
    PROVE  ScanLeaves /\ up' = up
<1>0. obj \in [Objs -> ObjStates]
  BY Types DEF RangeInv
<1>1. CASE ScanAdopt
  <2>1. CASE active = 0
    <3>1. PICK o \in Objs :
             /\ obj[o].pc = "unused"
             /\ obj' = [obj EXCEPT ![o] =
                           [Unused EXCEPT !.pc = "stub", !.kind = "stub",
                                          !.run = Current, !.pid = OldPid,
                                          !.mode = ModeOf(Current)]]
      BY <1>1, <2>1 DEF ScanAdopt, Fresh
    <3> PICK r : r = Current
      OBVIOUS
    <3> PICK p : p = OldPid
      OBVIOUS
    <3> PICK m : m = ModeOf(Current)
      OBVIOUS
    <3>2. obj' = [obj EXCEPT ![o] =
                           [Unused EXCEPT !.pc = "stub", !.kind = "stub",
                                          !.run = r, !.pid = p, !.mode = m]]
      BY <3>1
    <3>3. obj'[o].fin = "free" /\ obj'[o].pc = "stub"
      BY <1>0, <3>2 DEF Unused
    <3> QED
      BY <1>0, <1>1, <3>1, <3>2, <3>3 DEF ScanLeaves, ScanAdopt, gateVars
  <2>2. CASE active # 0
    BY <1>1, <2>2 DEF ScanAdopt, ScanLeaves, gateVars
  <2> QED
    BY <2>1, <2>2
<1>2. CASE ~ScanAdopt
  BY <1>2 DEF Recover, StartupScan, ScanBegin, ScanRead, ScanSkip, ScanSync,
     ScanStale, ScanFinish, ScanEdit, ScanEnd, ScanLeaves, gateVars
<1> QED
  BY <1>1, <1>2

-----------------------------------------------------------------------------
(* As long as no write fails, whoever has an outcome has it from the log.  *)

\* The record of o is in the log by the time its status is written.
OutcomeOf(o) ==
    /\ obj[o].fin \in {"read", "edit"} /\ obj[o].st # "none" =>
          FinishedAs(obj[o].run, obj[o].st)
    /\ obj[o].fin \in {"read", "edit", "delete", "done"} =>
          Has(obj[o].run, "finished")

OutcomesIn ==
    /\ \A r \in Runs : mon[r].pc \in {"release", "sync"} => FinishedAs(r, mon[r].st)
    /\ rec.pc = "edit" => FinishedAs(rec.run, rec.st)
    /\ status \in Terminal => \E r \in Logged : FinishedAs(r, status)

Written == OutcomesIn /\ \A o \in Objs : OutcomeOf(o)

\* What was in the log is there.
Grown == /\ \A r, s : FinishedAs(r, s) => FinishedAs(r, s)'
         /\ \A r, k : Has(r, k) => Has(r, k)'
         /\ Logged \subseteq Logged'

LEMMA OutcomeFrame ==
    ASSUME Grown, NEW q, OutcomeOf(q),
           \/ obj'[q].fin \in {"free", "append"}
           \/ /\ obj'[q].fin = obj[q].fin /\ obj'[q].run = obj[q].run
              /\ obj'[q].st = obj[q].st
    PROVE  OutcomeOf(q)'
<1> PICK r : r = obj[q].run
  OBVIOUS
<1> PICK s : s = obj[q].st
  OBVIOUS
<1>1. /\ FinishedAs(r, s) => FinishedAs(r, s)'
      /\ Has(r, "finished") => Has(r, "finished")'
  BY DEF Grown
<1>2. CASE obj'[q].fin \in {"free", "append"}
  BY <1>2 DEF OutcomeOf
<1>3. CASE /\ obj'[q].fin = obj[q].fin /\ obj'[q].run = obj[q].run
           /\ obj'[q].st = obj[q].st
  <2>1. /\ obj[q].fin \in {"read", "edit"} /\ s # "none" => FinishedAs(r, s)'
        /\ obj[q].fin \in {"read", "edit", "delete", "done"} => Has(r, "finished")'
    BY <1>1 DEF OutcomeOf
  <2>2. obj'[q].run = r /\ obj'[q].st = s
    BY <1>3
  <2>3. /\ FinishedAs(r, s)' <=> FinishedAs(obj[q].run, obj[q].st)'
        /\ Has(r, "finished")' <=> Has(obj[q].run, "finished")'
    BY <2>2 DEF FinishedAs, Has
  <2> QED
    BY <1>3, <2>1, <2>2, <2>3 DEF OutcomeOf
<1> QED
  BY <1>2, <1>3

\* The status stays, or becomes an outcome that is in the log, or none.
LEMMA StatusFrame ==
    ASSUME Grown, status \in Terminal => \E r \in Logged : FinishedAs(r, status),
           \/ status' = status
           \/ status' \notin Terminal
           \/ \E r \in Logged : FinishedAs(r, status')
    PROVE  (status \in Terminal => \E r \in Logged : FinishedAs(r, status))'
<1> PICK s : s = status'
  OBVIOUS
<1>1. ASSUME NEW r \in Logged, FinishedAs(r, s)
      PROVE  \E q \in Logged' : FinishedAs(q, s)'
  BY <1>1 DEF Grown
<1>2. CASE status' \notin Terminal
  BY <1>2 DEF Terminal
<1>3. CASE status' = status
  BY <1>1, <1>3 DEF Terminal, FinishedAs
<1>4. CASE \E r \in Logged : FinishedAs(r, status')
  <2>1. \E r \in Logged : FinishedAs(r, s)
    BY <1>4 DEF FinishedAs
  <2>2. \E q \in Logged' : FinishedAs(q, s)'
    BY <1>1, <2>1
  <2> QED
    BY <2>2 DEF FinishedAs
<1> QED
  BY <1>2, <1>3, <1>4

\* FinishedAs of a run and an outcome that are read from the state.
LEMMA SaidAs ==
    /\ \A r, s : FinishedAs(r, s) => r \in Logged
    /\ \A r, s : FinishedAs(r, s) => Has(r, "finished")
BY DEF FinishedAs, Has, Logged

\* What neither the monitors nor the scan take part in.
LEMMA SidesAside ==
    ASSUME Grown, OutcomesIn, UNCHANGED sideVars,
           \/ status' = status
           \/ status' \notin Terminal
           \/ \E r \in Logged : FinishedAs(r, status')
    PROVE  OutcomesIn'
<1>0. mon' = mon /\ rec' = rec
  BY DEF sideVars
<1>1. ASSUME NEW r \in Runs, mon'[r].pc \in {"release", "sync"}
      PROVE  FinishedAs(r, mon[r].st)'
  <2> PICK s : s = mon[r].st
    OBVIOUS
  <2>1. FinishedAs(r, s)'
    BY <1>0, <1>1 DEF Grown, OutcomesIn
  <2> QED
    BY <1>0, <2>1 DEF FinishedAs
<1>2. ASSUME rec'.pc = "edit" PROVE FinishedAs(rec.run, rec.st)'
  <2> PICK r : r = rec.run
    OBVIOUS
  <2> PICK s : s = rec.st
    OBVIOUS
  <2>1. FinishedAs(r, s)'
    BY <1>0, <1>2 DEF Grown, OutcomesIn
  <2> QED
    BY <1>0, <2>1 DEF FinishedAs
<1>3. (status \in Terminal => \E r \in Logged : FinishedAs(r, status))'
  BY StatusFrame DEF OutcomesIn
<1> QED
  BY <1>1, <1>2, <1>3 DEF OutcomesIn

LEMMA WrittenTerminal ==
    ASSUME RangeInv, KeepInv, FaultsLeft, Written, Grown, NoFaults',
           NEW o \in Objs, RecordTerminal(o)
    PROVE  Written'
<1>0. /\ obj \in [Objs -> ObjStates] /\ SideTypes /\ log \in Seq(Events)
      /\ obj[o] \in ObjStates /\ Named(o) /\ Duty(o) /\ OutcomesIn /\ OutcomeOf(o)
  BY Types DEF RangeInv, KeepInv, Written
<1>1. UNCHANGED sideVars
  BY DEF RecordTerminal, TerminalAppend, TerminalRead, TerminalEdit, TerminalDelete
<1>2. RecordMoved(o)
  BY <1>0, RecordMoves
<1>3. ASSUME NEW q \in Objs, q # o PROVE OutcomeOf(q)'
  BY <1>2, <1>3, OutcomeFrame DEF RecordMoved, Alone, Written
<1> PICK r : r = obj[o].run
  OBVIOUS
<1> PICK s : s = obj[o].st
  OBVIOUS
<1>run. obj'[o].run = r
  BY <1>2 DEF RecordMoved
<1>as. /\ FinishedAs(r, s)' => FinishedAs(obj[o].run, s)'
       /\ Has(r, "finished")' <=> Has(obj[o].run, "finished")'
       /\ obj'[o].st = s => (FinishedAs(r, s)' <=> FinishedAs(obj[o].run, obj[o].st)')
  BY <1>run DEF FinishedAs, Has
<1>had. /\ FinishedAs(r, s) => FinishedAs(r, s)'
        /\ Has(r, "finished") => Has(r, "finished")'
  BY DEF Grown
<1>4. CASE TerminalAppend(o)
  <2>1. PICK ok \in BOOLEAN : AppendEvent(Event(r, "finished", 0, s), ok)
    BY <1>4 DEF TerminalAppend
  <2>2. log' = Append(log, Event(r, "finished", 0, s)) /\ status' = status
    BY <1>0, <1>4, <2>1, Unfailed DEF TerminalAppend
  <2>3. r \in Runs /\ s \in Terminal
    BY <1>0, <1>4 DEF TerminalAppend, Fin, Named
  <2>4. FinishedAs(r, s)' /\ Has(r, "finished")'
    BY <1>0, <2>2, <2>3, FinishWritten, EventTypes
  <2>5. obj'[o].st = s
    BY <1>2, <1>4 DEF RecordMoved, TerminalAppend, Fin
  <2>6. OutcomeOf(o)'
    BY <1>as, <2>4, <2>5 DEF OutcomeOf
  <2>7. OutcomesIn'
    BY <1>0, <1>1, <2>2, SidesAside
  <2> QED
    BY <1>3, <2>6, <2>7 DEF Written
<1>5. CASE ~TerminalAppend(o)
  <2>1. OutcomeOf(o)'
    <3>1. Has(r, "finished")'
      BY <1>0, <1>2, <1>5, <1>had DEF RecordMoved, OutcomeOf
    <3>2. ASSUME obj'[o].fin \in {"read", "edit"}, obj'[o].st # "none"
          PROVE  FinishedAs(obj[o].run, obj[o].st)'
      <4>1. obj[o].fin = "read" /\ obj'[o].st = s
        BY <1>2, <1>5, <3>2 DEF RecordMoved
      <4>2. FinishedAs(r, s)'
        BY <1>0, <1>had, <3>2, <4>1 DEF OutcomeOf
      <4> QED
        BY <1>as, <4>1, <4>2
    <3> QED
      BY <1>as, <3>1, <3>2 DEF OutcomeOf
  <2>2. \/ status' = status \/ status' \notin Terminal
        \/ \E q \in Logged : FinishedAs(q, status')
    <3>1. CASE TerminalEdit(o)
      <4>1. PICK ok \in BOOLEAN : EditStatus(s, ok)
        BY <3>1 DEF TerminalEdit
      <4>2. status' = s /\ obj[o].fin = "edit"
        BY <1>0, <3>1, <4>1, Unfailed DEF TerminalEdit, Fin
      <4>3. CASE s = "none"
        BY <4>2, <4>3 DEF Terminal
      <4>4. CASE s # "none"
        <5>1. FinishedAs(r, s) /\ r \in Logged
          BY <1>0, <4>2, <4>4, SaidAs DEF OutcomeOf
        <5>2. \E q \in Logged : FinishedAs(q, s)
          BY <5>1
        <5> QED
          BY <4>2, <5>2 DEF FinishedAs
      <4> QED
        BY <4>3, <4>4
    <3>2. CASE ~TerminalEdit(o)
      BY <1>2, <1>5, <3>2 DEF RecordMoved
    <3> QED
      BY <3>1, <3>2
  <2>3. OutcomesIn'
    BY <1>0, <1>1, <2>2, SidesAside
  <2> QED
    BY <1>3, <2>1, <2>3 DEF Written
<1> QED
  BY <1>4, <1>5

LEMMA WrittenActor ==
    ASSUME RangeInv, KeepInv, FaultsLeft, Written, Grown, NoFaults',
           NEW o \in Objs, \/ StartRun(o) \/ Setup(o) \/ Goroutine(o)
                           \/ AppendSession(o) \/ ProcessExit(o) \/ NeedsUser(o)
    PROVE  Written'
<1>0. /\ obj \in [Objs -> ObjStates] /\ SideTypes /\ OutcomesIn
      /\ Duty(o) /\ obj[o] \in ObjStates
  BY Types DEF RangeInv, KeepInv, Written
<1>1. UNCHANGED sideVars
  BY DEF StartRun, StartAgentRun, ResumeAgent, Claim, Setup, Register,
     AppendQueued, EditQueued, Rollback, ReadQueued, ReadRefused, Synthesise,
     Goroutine, GoCancelled, Spawn, SpawnFail, OnStarted, EditRunning,
     AppendStarted, Outcome, PostRun, CloseDone, AfterQueued, AppendSession,
     ProcessExit, NeedsUser
<1>2. status' = status \/ status' \notin Terminal
  <2>1. CASE EditQueued(o)
    <3>1. PICK ok \in BOOLEAN : EditStatus("queued", ok)
      BY <2>1 DEF EditQueued
    <3> QED
      BY <1>0, <3>1, Unfailed DEF Terminal
  <2>2. CASE EditRunning(o)
    <3>1. PICK ok \in BOOLEAN : EditStatus("running", ok)
      BY <2>2 DEF EditRunning
    <3> QED
      BY <1>0, <3>1, Unfailed DEF Terminal
  <2>3. CASE NeedsUser(o)
    BY <2>3 DEF NeedsUser, Terminal
  <2>4. CASE ~(EditQueued(o) \/ EditRunning(o) \/ NeedsUser(o))
    BY <2>4 DEF StartRun, StartAgentRun, ResumeAgent, Claim, Setup, Register,
     AppendQueued, Rollback, ReadQueued, ReadRefused, Synthesise,
     Goroutine, GoCancelled, Spawn, SpawnFail, OnStarted,
     AppendStarted, Outcome, PostRun, CloseDone, AfterQueued, AppendSession,
     ProcessExit, diskVars
  <2> QED
    BY <2>1, <2>2, <2>3, <2>4
<1>3. OutcomesIn'
  BY <1>0, <1>1, <1>2, SidesAside
<1>4. ASSUME NEW q \in Objs PROVE OutcomeOf(q)'
  <2>0. OutcomeOf(q)
    BY DEF Written
  <2>1. CASE StartRun(o) \/ Setup(o)
    <3>1. /\ \A p \in Objs : p # o => obj'[p] = obj[p]
          /\ obj[o].pc \in {"unused"} \cup Before
          /\ obj'[o].fin \in {"free", obj[o].fin}
      BY <1>0, <2>1, SetupMoves
    <3>2. obj[o].fin = "free"
      BY <1>0, <3>1 DEF Duty, Before, Opening, Early, Ending
    <3> QED
      BY <2>0, <3>1, <3>2, OutcomeFrame
  <2>2. CASE Goroutine(o)
    <3>1. Moved(o)
      BY <1>0, <2>2, GoroutineMoves
    <3>2. CASE q # o
      BY <2>0, <3>1, <3>2, OutcomeFrame DEF Moved, Alone
    <3>3. CASE q = o
      <4>1. obj[o].pc \in {"go", "wait"} => obj[o].fin = "free"
        BY <1>0 DEF Duty, Ending
      <4> QED
        BY <2>0, <3>1, <3>3, <4>1, OutcomeFrame DEF Moved
    <3> QED
      BY <3>2, <3>3
  <2>3. CASE AppendSession(o) \/ ProcessExit(o) \/ NeedsUser(o)
    <3>1. obj' = obj
      BY <2>3 DEF AppendSession, ProcessExit, NeedsUser
    <3> QED
      BY <2>0, <3>1, OutcomeFrame
  <2> QED
    BY <2>1, <2>2, <2>3
<1> QED
  BY <1>3, <1>4 DEF Written

LEMMA WrittenCanceller ==
    ASSUME RangeInv, KeepInv, Written, Grown,
           NEW c \in Cancellers \cup Watchers,
           \/ c \in Cancellers /\ CancelFind(c)
           \/ c \in Objs /\ WatcherFires(c)
           \/ CancelRun(c)
    PROVE  Written'
<1>1. Cancelled
  BY CancellerMoves DEF KeepInv, RestKeep
<1>2. mon' = mon /\ rec' = rec /\ status' = status
  BY DEF CancelFind, WatcherFires, CancelRun, CancelMark, CancelTerm, CancelKill,
     CancelDone, CancelFinish, diskVars
<1>3. ASSUME NEW q \in Objs PROVE OutcomeOf(q)'
  BY <1>1, OutcomeFrame DEF Cancelled, Written
<1>4. OutcomesIn'
  <2>1. ASSUME NEW r \in Runs, mon'[r].pc \in {"release", "sync"}
        PROVE  FinishedAs(r, mon[r].st)'
    <3> PICK s : s = mon[r].st
      OBVIOUS
    <3>1. FinishedAs(r, s)'
      BY <1>2, <2>1 DEF Grown, OutcomesIn, Written
    <3> QED
      BY <1>2, <3>1 DEF FinishedAs
  <2>2. ASSUME rec'.pc = "edit" PROVE FinishedAs(rec.run, rec.st)'
    <3> PICK r : r = rec.run
      OBVIOUS
    <3> PICK s : s = rec.st
      OBVIOUS
    <3>1. FinishedAs(r, s)'
      BY <1>2, <2>2 DEF Grown, OutcomesIn, Written
    <3> QED
      BY <1>2, <3>1 DEF FinishedAs
  <2>3. (status \in Terminal => \E r \in Logged : FinishedAs(r, status))'
    BY <1>2, StatusFrame DEF OutcomesIn, Written
  <2> QED
    BY <2>1, <2>2, <2>3 DEF OutcomesIn
<1> QED
  BY <1>3, <1>4 DEF Written

LEMMA WrittenMonitor ==
    ASSUME RangeInv, KeepInv, FaultsLeft, Written, Grown, NoFaults',
           NEW r \in Runs, Monitor(r)
    PROVE  Written'
<1>0. /\ SideTypes /\ log \in Seq(Events) /\ OutcomesIn /\ Len(log) \in Nat
      /\ (mon[r].pc # "off" => r \in Logged)
  BY Types, LogFacts DEF RangeInv, Written, KeepInv, RestKeep, MonKeep, Begun
<1>1. MonitorMoved(r)
  BY MonitorMoves
<1>2. ASSUME NEW q \in Objs PROVE OutcomeOf(q)'
  BY <1>1, OutcomeFrame DEF MonitorMoved, Claims, Written
<1> PICK s : s = mon[r].st
  OBVIOUS
<1>3. ASSUME NEW p \in Runs, mon'[p].pc \in {"release", "sync"}
      PROVE  FinishedAs(p, mon[p].st)'
  <2>1. CASE p # r
    <3> PICK t : t = mon[p].st
      OBVIOUS
    <3>1. FinishedAs(p, t)' /\ mon'[p] = mon[p]
      BY <1>0, <1>1, <1>3, <2>1 DEF Grown, OutcomesIn, MonitorMoved
    <3> QED
      BY <3>1 DEF FinishedAs
  <2>2. CASE p = r
    <3> PICK t : t = mon'[r].st
      OBVIOUS
    <3>1. FinishedAs(r, t)'
      <4>1. CASE mon[r].pc = "poll"
        <5>1. t = FinishIn(Len(log), r) /\ t # "none"
          BY <1>1, <1>3, <2>2, <4>1 DEF MonitorMoved
        <5>2. Len(log) \in 0..Len(log)
          BY <1>0
        <5>3. FinishedAs(r, FinishIn(Len(log), r))
          BY <1>0, <5>1, <5>2, FinishRead
        <5>4. FinishedAs(r, t)
          BY <5>1, <5>3 DEF FinishedAs
        <5> QED
          BY <5>4 DEF Grown
      <4>2. CASE mon[r].pc = "release"
        <5>1. t = s /\ FinishedAs(r, s)
          BY <1>0, <1>1, <4>2 DEF MonitorMoved, OutcomesIn
        <5> QED
          BY <5>1 DEF Grown
      <4>3. CASE mon[r].pc = "lose"
        <5>1. t = "lost" /\ \E ok \in BOOLEAN :
                 AppendEvent(Event(r, "finished", 0, "lost"), ok)
          BY <1>1, <4>3 DEF MonitorMoved
        <5>2. log' = Append(log, Event(r, "finished", 0, "lost"))
          BY <1>0, <5>1, Unfailed
        <5>3. FinishedAs(r, "lost")'
          BY <1>0, <5>2, FinishWritten, EventTypes DEF Terminal
        <5> QED
          BY <5>1, <5>3
      <4> QED
        BY <1>1, <1>3, <2>2, <4>1, <4>2, <4>3 DEF MonitorMoved
    <3> QED
      BY <2>2, <3>1 DEF FinishedAs
  <2> QED
    BY <2>1, <2>2
<1>4. ASSUME rec'.pc = "edit" PROVE FinishedAs(rec.run, rec.st)'
  <2> PICK p : p = rec.run
    OBVIOUS
  <2> PICK t : t = rec.st
    OBVIOUS
  <2>0. rec' = rec
    BY <1>1 DEF MonitorMoved
  <2>1. FinishedAs(p, t)'
    BY <1>0, <1>4, <2>0 DEF Grown, OutcomesIn
  <2> QED
    BY <2>0, <2>1 DEF FinishedAs
<1>5. \/ status' = status \/ \E q \in Logged : FinishedAs(q, status')
  <2>1. CASE mon[r].pc = "sync"
    <3>1. \E ok \in BOOLEAN : EditStatus(s, ok)
      BY <1>1, <2>1 DEF MonitorMoved
    <3>2. status' = s
      BY <1>0, <3>1, Unfailed
    <3>3. \E q \in Logged : FinishedAs(q, s)
      BY <1>0, <2>1 DEF OutcomesIn
    <3> QED
      BY <3>2, <3>3 DEF FinishedAs
  <2>2. CASE mon[r].pc # "sync"
    BY <1>1, <2>2 DEF MonitorMoved
  <2> QED
    BY <2>1, <2>2
<1>6. (status \in Terminal => \E q \in Logged : FinishedAs(q, status))'
  BY <1>0, <1>5, StatusFrame DEF OutcomesIn
<1> QED
  BY <1>2, <1>3, <1>4, <1>6 DEF OutcomesIn, Written

LEMMA WrittenScan ==
    ASSUME RangeInv, KeepInv, FaultsLeft, Written, Grown, NoFaults',
           Recover \/ ScanBegin(TRUE)
    PROVE  Written'
<1>0. /\ SideTypes /\ log \in Seq(Events) /\ OutcomesIn /\ rec \in RecStates
      /\ rec.len \in 0..Len(log) /\ RestKeep
  BY Types DEF RangeInv, RecOK, SideTypes, Written, KeepInv
<1>1. ScanLeaves
  BY ScanMoves
<1>2. ASSUME NEW q \in Objs PROVE OutcomeOf(q)'
  BY <1>1, OutcomeFrame DEF ScanLeaves, Written
<1>3. ASSUME NEW p \in Runs, mon'[p].pc \in {"release", "sync"}
      PROVE  FinishedAs(p, mon[p].st)'
  <2>1. mon'[p] = mon[p]
    <3>1. CASE ScanAdopt
      <4> PICK r : r = Current
        OBVIOUS
      <4> PICK m : m = IF mon[r].pc = "off"
                       THEN [NoMon EXCEPT !.pc = "poll", !.pid = OldPid] ELSE mon[r]
        OBVIOUS
      <4>1. mon' = [mon EXCEPT ![r] = m]
        BY <3>1 DEF ScanAdopt
      <4>2. m.pc = "poll" \/ m = mon[r]
        BY DEF NoMon
      <4> QED
        BY <1>0, <1>3, <4>1, <4>2 DEF SideTypes
    <3>2. CASE ~ScanAdopt
      BY <3>2 DEF Recover, StartupScan, ScanBegin, ScanRead, ScanSkip,
         ScanSync, ScanStale, ScanFinish, ScanEdit, ScanEnd
    <3> QED
      BY <3>1, <3>2
  <2> PICK t : t = mon[p].st
    OBVIOUS
  <2>2. FinishedAs(p, t)'
    BY <1>0, <1>3, <2>1 DEF Grown, OutcomesIn
  <2> QED
    BY <2>1, <2>2 DEF FinishedAs
<1>4. ASSUME rec'.pc = "edit" PROVE FinishedAs(rec.run, rec.st)'
  <2> PICK p : p = rec.run
    OBVIOUS
  <2> PICK t : t = rec.st
    OBVIOUS
  <2>1. CASE ScanFinish
    <3>1. PICK ok \in BOOLEAN :
              /\ AppendEvent(Event(p, "finished", 0, t), ok)
              /\ rec' = IF ~ok THEN NoScan
                        ELSE IF rec.rest = {} \/ IsLatest
                        THEN [rec EXCEPT !.pc = "edit"]
                        ELSE [Passed EXCEPT !.pc = "next"]
      BY <2>1 DEF ScanFinish
    <3>2. ok /\ log' = Append(log, Event(p, "finished", 0, t))
      BY <1>0, <3>1, Unfailed
    <3>3. p \in Runs /\ t \in Terminal
      BY <2>1 DEF ScanFinish, RecAt, RangeInv, RecOK, Terminal
    <3>4. FinishedAs(p, t)'
      BY <1>0, <3>2, <3>3, FinishWritten, EventTypes
    <3>5. rec'.run = p /\ rec'.st = t
      <4>1. CASE rec' = [rec EXCEPT !.pc = "edit"]
        BY <1>0, <4>1 DEF RecStates
      <4>2. CASE rec' = [Passed EXCEPT !.pc = "next"]
        BY <1>0, <1>4, <4>2 DEF Passed, RecStates
      <4> QED
        BY <3>1, <3>2, <4>1, <4>2
    <3> QED
      BY <3>4, <3>5 DEF FinishedAs
  <2>2. CASE ~ScanFinish
    <3>1. ScanNext => Passed.pc = "next"
      BY CurrentKnown
    <3>2. rec' = rec
      <4>1. NoScan.pc = "idle" /\ [NoScan EXCEPT !.pc = "read"].pc = "read"
            /\ \A k : [NoScan EXCEPT !.pc = "read", !.tick = k].pc = "read"
        BY DEF NoScan
      <4>2. ~(StartupScan \/ ScanBegin(TRUE) \/ ScanEdit \/ ScanEnd)
        BY <1>4, <4>1 DEF StartupScan, ScanBegin, ScanEdit, ScanEnd
      <4>3. ~(ScanSkip \/ ScanSync \/ ScanAdopt)
        BY <1>4, <3>1 DEF ScanSkip, ScanSync, ScanAdopt
      <4>4. ~ScanStale /\ ~ScanRead
        <5>1. ASSUME NEW q, NEW v, rec' = [rec EXCEPT !.pc = "finish", !.run = q, !.st = v]
              PROVE  FALSE
          <6>1. rec'.pc = "finish"
            BY <1>0, <5>1 DEF RecStates
          <6> QED
            BY <1>4, <6>1
        <5>4. ASSUME NEW n, NEW rs, rec' = [rec EXCEPT !.pc = "next", !.len = n, !.rest = rs]
              PROVE  FALSE
          <6>1. rec'.pc = "next"
            BY <1>0, <5>4 DEF RecStates
          <6> QED
            BY <1>4, <6>1
        <5>2. ~ScanStale
          <6> PICK q : q = Current
            OBVIOUS
          <6> PICK v : v = Verdict(Current)
            OBVIOUS
          <6>1. ScanStale => rec' = [rec EXCEPT !.pc = "finish", !.run = q, !.st = v]
            BY DEF ScanStale
          <6> QED
            BY <5>1, <6>1
        <5>3. CASE ScanRead
          <6> PICK n : n = Len(log)
            OBVIOUS
          <6> PICK rs : rs = Logged
            OBVIOUS
          <6>1. \/ rec' = [rec EXCEPT !.pc = "next", !.len = n, !.rest = rs]
                \/ rec' = NoScan
                \/ rec' = [rec EXCEPT !.pc = "finish", !.run = nextRun, !.st = "lost"]
            BY <5>3 DEF ScanRead
          <6> QED
            <7>1. rec' # NoScan
              BY <1>4, <4>1
            <7>2. rec' # [rec EXCEPT !.pc = "next", !.len = n, !.rest = rs]
              BY <5>4
            <7>3. rec' # [rec EXCEPT !.pc = "finish", !.run = nextRun, !.st = "lost"]
              BY <5>1
            <7> QED
              BY <6>1, <7>1, <7>2, <7>3
        <5> QED
          BY <5>2, <5>3
      <4> QED
        BY <2>2, <4>2, <4>3, <4>4 DEF Recover
    <3>3. FinishedAs(p, t)'
      BY <1>0, <1>4, <3>2 DEF Grown, OutcomesIn
    <3> QED
      BY <3>2, <3>3 DEF FinishedAs
  <2> QED
    BY <2>1, <2>2
<1>5. \/ status' = status \/ \E q \in Logged : FinishedAs(q, status')
  <2>1. CASE ScanSync
    <3> PICK t : t = OldFinish
      OBVIOUS
    <3>1. t # "none" /\ \E ok \in BOOLEAN : EditStatus(t, ok)
      BY <2>1 DEF ScanSync
    <3>2. status' = t
      BY <1>0, <3>1, Unfailed
    <3>3. \E q : q \in Logged /\ FinishedAs(q, t)
      <4>1. t = FinishIn(rec.len, Current)
        BY DEF OldFinish
      <4>2. FinishedAs(Current, FinishIn(rec.len, Current))
        BY <1>0, <3>1, <4>1, FinishRead
      <4>3. FinishedAs(Current, t)
        BY <4>1, <4>2
      <4> QED
        BY <4>3, SaidAs
    <3> QED
      BY <3>2, <3>3 DEF FinishedAs
  <2>2. CASE ScanEdit
    <3> PICK t : t = rec.st
      OBVIOUS
    <3>1. \E ok \in BOOLEAN : EditStatus(t, ok)
      BY <2>2 DEF ScanEdit
    <3>2. status' = t
      BY <1>0, <3>1, Unfailed
    <3>3. \E q : q \in Logged /\ FinishedAs(q, t)
      BY <1>0, <2>2, SaidAs DEF ScanEdit, RecAt, OutcomesIn
    <3> QED
      BY <3>2, <3>3 DEF FinishedAs
  <2>3. CASE ~(ScanSync \/ ScanEdit)
    BY <2>3 DEF Recover, StartupScan, ScanBegin, ScanRead, ScanSkip, ScanAdopt,
       ScanStale, ScanFinish, ScanEnd, diskVars
  <2> QED
    BY <2>1, <2>2, <2>3
<1>6. (status \in Terminal => \E q \in Logged : FinishedAs(q, status))'
  BY <1>0, <1>5, StatusFrame DEF OutcomesIn
<1> QED
  BY <1>2, <1>3, <1>4, <1>6 DEF OutcomesIn, Written

LEMMA WrittenOther ==
    ASSUME RangeInv, KeepInv, Written, Grown,
           Close \/ Crash \/ Restart \/ HandQueue \/ HandClear \/ UNCHANGED vars
    PROVE  Written'
<1>0. OutcomesIn /\ (status' = status \/ status' \notin Terminal)
  BY DEF Written, Close, Crash, Restart, HandQueue, HandClear, vars, diskVars, Terminal
<1>1. CASE Crash
  <2>1. /\ rec'.pc = "idle" /\ \A r \in Runs : mon'[r].pc = "off"
    BY <1>1 DEF Crash, NoScan, NoMon
  <2>2. ASSUME NEW q \in Objs PROVE OutcomeOf(q)'
    <3>1. obj'[q] = IF obj[q].pc = "unused" THEN obj[q]
                    ELSE [Unused EXCEPT !.pc = "gone"]
      BY <1>1 DEF Crash
    <3>2. obj[q].pc = "unused" => obj[q].fin = "free"
      BY DEF KeepInv, Duty, Ending
    <3>3. obj'[q].fin = "free"
      <4>1. CASE obj[q].pc = "unused"
        BY <3>1, <3>2, <4>1
      <4>2. CASE obj[q].pc # "unused"
        BY <3>1, <4>2 DEF Unused
      <4> QED
        BY <4>1, <4>2
    <3> QED
      BY <3>3 DEF OutcomeOf
  <2>3. (status \in Terminal => \E q \in Logged : FinishedAs(q, status))'
    BY <1>0, StatusFrame DEF OutcomesIn
  <2> QED
    BY <2>1, <2>2, <2>3 DEF Written, OutcomesIn
<1>2. CASE ~Crash
  <2>1. obj' = obj /\ mon' = mon
    BY <1>2 DEF Close, Restart, HandQueue, HandClear, vars, sideVars
  <2>2. ASSUME NEW q \in Objs PROVE OutcomeOf(q)'
    BY <2>1, OutcomeFrame DEF Written
  <2>3. CASE rec' = rec
    <3>1. UNCHANGED sideVars
      BY <1>2, <2>3 DEF Close, Restart, HandQueue, HandClear, vars, sideVars
    <3> QED
      BY <1>0, <2>2, <3>1, SidesAside DEF Written
  <2>4. CASE rec' # rec
    <3>1. rec'.pc = "startup"
      BY <1>2, <2>4 DEF Close, Restart, HandQueue, HandClear, vars, sideVars, NoScan
    <3>2. ~up
      BY <1>2, <2>4 DEF Close, Restart, HandQueue, HandClear, vars, sideVars
    <3>3. \A r \in Runs : mon'[r].pc \in {"release", "sync"} => FinishedAs(r, mon[r].st)'
      <4> TAKE r \in Runs
      <4> PICK t : t = mon[r].st
        OBVIOUS
      <4>1. mon'[r].pc \in {"release", "sync"} => FinishedAs(r, t)'
        BY <1>0, <2>1 DEF OutcomesIn, Grown
      <4> QED
        BY <2>1, <4>1 DEF FinishedAs
    <3>4. (status \in Terminal => \E q \in Logged : FinishedAs(q, status))'
      BY <1>0, StatusFrame DEF OutcomesIn
    <3> QED
      BY <2>2, <3>1, <3>3, <3>4 DEF OutcomesIn, Written
  <2> QED
    BY <2>3, <2>4
<1> QED
  BY <1>1, <1>2

WrittenInv == FaultsLeft /\ (NoFaults => Written)

LEMMA WrittenNext == RangeInv /\ KeepInv /\ WrittenInv /\ [Next]_vars => WrittenInv'
<1> SUFFICES ASSUME RangeInv, KeepInv, WrittenInv, [Next]_vars PROVE WrittenInv'
  OBVIOUS
<1>1. FaultsLeft' /\ (NoFaults' => NoFaults) /\ LogSafe /\ FaultsLeft
  BY FaultsNext, LogSafeNext DEF WrittenInv
<1>2. Grown
  BY <1>1, Types, FinishedStays DEF Grown, RangeInv
<1>3. ASSUME NoFaults' PROVE Written'
  <2>0. Written
    BY <1>1, <1>3 DEF WrittenInv
  <2>1. ASSUME NEW o \in Objs, Actor(o) PROVE Written'
    BY <1>1, <1>2, <1>3, <2>0, <2>1, WrittenActor, WrittenTerminal DEF Actor
  <2>2. ASSUME NEW o \in Objs, WatcherFires(o) PROVE Written'
    BY <1>2, <2>0, <2>2, WrittenCanceller DEF Watchers
  <2>3. ASSUME NEW c \in Cancellers, CancelFind(c) PROVE Written'
    BY <1>2, <2>0, <2>3, WrittenCanceller
  <2>4. ASSUME NEW c \in Cancellers \cup Watchers, CancelRun(c) PROVE Written'
    BY <1>2, <2>0, <2>4, WrittenCanceller
  <2>5. ASSUME NEW r \in Runs, Monitor(r) PROVE Written'
    BY <1>1, <1>2, <1>3, <2>0, <2>5, WrittenMonitor
  <2>6. ASSUME Recover \/ ScanBegin(TRUE) PROVE Written'
    BY <1>1, <1>2, <1>3, <2>0, <2>6, WrittenScan
  <2> QED
    BY <1>2, <2>0, <2>1, <2>2, <2>3, <2>4, <2>5, <2>6, WrittenOther DEF Next, Actor
<1> QED
  BY <1>1, <1>3 DEF WrittenInv

-----------------------------------------------------------------------------
(* Who answers for a running task, as long as no write fails.              *)

\* Somebody is at work on o and will write how its run has ended.
Minding(o) ==
    \/ obj[o].fin \in {"append", "read", "edit"}
    \/ /\ obj[o].fin = "free"
       /\ \/ obj[o].pc \in {"record", "wait", "post"}
          \/ obj[o].cancelled /\ obj[o].pc \in {"close", "after", "gone", "stub"}

\* The scan of Activate has the last run before it.
ScanWill == Startup /\ (rec.pc \in {"next", "finish"} => Newest \in rec.rest)

\* The monitor of r will see its process end.
MonWill(r) == \/ mon[r].pc \in {"release", "sync", "exit", "claim", "lose"}
              \/ mon[r].pc = "poll" /\ Newest = r

\* Without anybody who minds a run, no record has been written in this GUI.
Unrecorded == \A o \in Objs : obj[o].fin \notin {"delete", "done"}

Minded == up /\ status = "running" =>
             \/ \E o \in Objs : Minding(o)
             \/ Unrecorded /\ (ScanWill \/ \E r \in Runs : MonWill(r))

\* Every other write of the GUI takes a task out of running.
LEMMA EndsRunning ==
    ASSUME RangeInv, FaultsLeft, NoFaults',
           \/ ScanSync \/ ScanEdit
           \/ \E r \in Runs : /\ mon[r].pc = "sync"
                              /\ \E ok \in BOOLEAN : EditStatus(mon[r].st, ok)
           \/ \E o \in Objs : TerminalEdit(o) \/ EditQueued(o)
    PROVE  status' # "running"
<1>0. SideTypes /\ obj \in [Objs -> ObjStates] /\ MonOK /\ RecOK
  BY Types DEF RangeInv
<1>1. ASSUME NEW s, s # "running", NEW ok \in BOOLEAN, EditStatus(s, ok)
      PROVE  status' # "running"
  BY <1>0, <1>1, Unfailed
<1>2. CASE ScanSync
  <2> PICK t : t = OldFinish
    OBVIOUS
  <2>1. t # "running"
    BY <1>2, ScanFacts DEF ScanSync, ScanNext, Terminal
  <2> QED
    BY <1>1, <1>2, <2>1 DEF ScanSync
<1>3. CASE ScanEdit
  BY <1>0, <1>1, <1>3 DEF ScanEdit, RecAt, RecOK
<1>4. ASSUME NEW r \in Runs, mon[r].pc = "sync",
             \E ok \in BOOLEAN : EditStatus(mon[r].st, ok)
      PROVE  status' # "running"
  BY <1>0, <1>1, <1>4 DEF MonOK, Terminal
<1>5. ASSUME NEW o \in Objs, TerminalEdit(o) \/ EditQueued(o)
      PROVE  status' # "running"
  <2>1. obj[o].st # "running"
    BY <1>0 DEF ObjStates, Terminal
  <2> QED
    BY <1>1, <1>5, <2>1 DEF TerminalEdit, EditQueued
<1> QED
  BY <1>2, <1>3, <1>4, <1>5

\* A task becomes running when its process has started.
LEMMA RunningBegins ==
    ASSUME RangeInv, KeepInv, FaultsLeft, NoFaults', Next,
           status # "running", status' = "running"
    PROVE  \E o \in Objs : EditRunning(o)
<1>1. ASSUME NEW o \in Objs, Actor(o), ~EditRunning(o) PROVE FALSE
  <2>1. ~TerminalEdit(o) /\ ~EditQueued(o)
    BY EndsRunning
  <2>2. CASE NeedsUser(o)
    BY <2>2 DEF NeedsUser
  <2>3. CASE ~NeedsUser(o)
    BY <1>1, <2>1, <2>3 DEF Actor, StartRun, StartAgentRun, ResumeAgent, Claim,
     Setup, Register, AppendQueued, Rollback, ReadQueued, ReadRefused, Synthesise,
     Goroutine, GoCancelled, Spawn, SpawnFail, OnStarted,
     AppendStarted, Outcome, PostRun, CloseDone, AfterQueued, AppendSession,
     ProcessExit, RecordTerminal, TerminalAppend, TerminalRead, TerminalDelete,
     diskVars
  <2> QED
    BY <2>2, <2>3
<1>2. ASSUME NEW c \in Cancellers \cup Watchers, 
             CancelFind(c) \/ WatcherFires(c) \/ CancelRun(c)
      PROVE  FALSE
  BY <1>2 DEF CancelFind, WatcherFires, CancelRun, CancelMark, CancelTerm,
     CancelKill, CancelDone, CancelFinish, diskVars
<1>3. ASSUME NEW r \in Runs, Monitor(r) PROVE FALSE
  <2>1. MonitorMoved(r)
    BY <1>3, MonitorMoves
  <2>2. mon[r].pc = "sync"
    BY <2>1 DEF MonitorMoved
  <2> QED
    BY <2>1, <2>2, EndsRunning DEF MonitorMoved
<1>4. ASSUME Recover \/ ScanBegin(TRUE) PROVE FALSE
  <2>1. ~ScanSync /\ ~ScanEdit
    BY EndsRunning
  <2> QED
    BY <1>4, <2>1 DEF Recover, StartupScan, ScanBegin, ScanRead, ScanSkip, ScanAdopt,
       ScanStale, ScanFinish, ScanEnd, diskVars
<1>5. ~(Close \/ Crash \/ Restart \/ HandQueue \/ HandClear)
  BY DEF Close, Crash, Restart, HandQueue, HandClear, diskVars
<1> QED
  BY <1>1, <1>2, <1>3, <1>4, <1>5 DEF Next, Actor, Watchers

\* The GUI comes back by a restart.
LEMMA OnlyRestart ==
    ASSUME RangeInv, KeepInv, Next, ~up, up'
    PROVE  Restart
<1>1. ASSUME NEW o \in Objs, Actor(o) PROVE FALSE
  BY <1>1 DEF Actor, StartRun, StartAgentRun, ResumeAgent, Claim, Fresh,
     Setup, Register, AppendQueued, EditQueued, Rollback, ReadQueued, ReadRefused,
     Synthesise, Goroutine, GoCancelled, Spawn, SpawnFail, OnStarted, EditRunning,
     AppendStarted, Outcome, PostRun, CloseDone, AfterQueued, AppendSession,
     ProcessExit, RecordTerminal, TerminalAppend, TerminalRead, TerminalEdit,
     TerminalDelete, NeedsUser, gateVars, At, Fin
<1>2. ASSUME NEW c \in Cancellers \cup Watchers, 
             CancelFind(c) \/ WatcherFires(c) \/ CancelRun(c)
      PROVE  FALSE
  BY <1>2 DEF CancelFind, WatcherFires, CancelRun, CancelMark, CancelTerm,
     CancelKill, CancelDone, CancelFinish, CancAt, gateVars
<1>3. ASSUME NEW r \in Runs, Monitor(r) PROVE FALSE
  BY <1>3, MonitorMoves DEF MonitorMoved
<1>4. ASSUME Recover \/ ScanBegin(TRUE) PROVE FALSE
  BY <1>4, ScanMoves
<1>5. ~(Close \/ Crash \/ HandQueue \/ HandClear)
  BY DEF Close, Crash, HandQueue, HandClear, gateVars
<1> QED
  BY <1>1, <1>2, <1>3, <1>4, <1>5 DEF Next, Actor, Watchers

\* Who minds a run minds it until the task is not running.
LEMMA MindingStays ==
    ASSUME RangeInv, KeepInv, FaultsLeft, NoFaults', Next, up',
           status = "running", status' = "running", NEW o \in Objs, Minding(o)
    PROVE  Minding(o)'
<1>0. /\ obj \in [Objs -> ObjStates] /\ Duty(o) /\ CancelWaited
  BY Types DEF RangeInv, KeepInv, RestKeep
<1>here. /\ obj[o].pc \notin {"unused"} \cup Before
         /\ obj[o].fin \notin {"delete", "done"}
  BY <1>0 DEF Minding, Duty, Before, Opening, Early, Ending
<1>same. obj'[o] = obj[o] => Minding(o)'
  BY DEF Minding
<1>claims. ASSUME obj'[o].pc = obj[o].pc, obj[o].cancelled => obj'[o].cancelled,
                  \/ obj'[o].fin = obj[o].fin
                  \/ obj'[o].fin = "append"
           PROVE  Minding(o)'
  BY <1>claims DEF Minding
<1>1. ASSUME NEW q \in Objs, Actor(q) PROVE Minding(o)'
  <2>1. CASE StartRun(q) \/ Setup(q)
    <3>1. /\ \A p \in Objs : p # q => obj'[p] = obj[p]
          /\ obj[q].pc \in {"unused"} \cup Before
      BY <1>0, <2>1, SetupMoves
    <3> QED
      BY <1>here, <1>same, <3>1
  <2>2. CASE Goroutine(q)
    <3>1. Moved(q)
      BY <1>0, <2>2, GoroutineMoves
    <3>2. CASE q # o
      BY <1>same, <3>1, <3>2 DEF Moved, Alone
    <3>3. CASE q = o
      <4>1. CASE obj'[o].fin = "append"
        BY <4>1 DEF Minding
      <4>2. CASE obj[o].fin \in {"append", "read", "edit"}
        BY <3>1, <3>3, <4>2 DEF Minding, Moved
      <4>3. CASE obj[o].fin = "free" /\ obj'[o].fin # "append"
        <5>1. obj'[o].fin = "free" /\ obj'[o].cancelled = obj[o].cancelled
          BY <3>1, <3>3, <4>3 DEF Moved, Alone
        <5>2. \/ obj'[o].pc \in {"record", "wait", "post"}
              \/ obj[o].cancelled /\ obj'[o].pc \in {"close", "after", "gone"}
          BY <1>here, <3>1, <3>3, <4>3
          DEF Moved, Minding, Before, Opening, Early
        <5> QED
          BY <5>1, <5>2 DEF Minding
      <4> QED
        BY <4>1, <4>2, <4>3 DEF Minding
    <3> QED
      BY <3>2, <3>3
  <2>3. CASE RecordTerminal(q)
    <3>1. RecordMoved(q)
      BY <1>0, <2>3, RecordMoves
    <3>2. CASE q # o
      BY <1>same, <3>1, <3>2 DEF RecordMoved, Alone
    <3>3. CASE q = o
      <4>1. ~TerminalEdit(o)
        BY EndsRunning
      <4>2. obj'[o].fin \in {"read", "edit"}
        BY <1>here, <3>1, <3>3, <4>1 DEF RecordMoved
      <4> QED
        BY <4>2 DEF Minding
    <3> QED
      BY <3>2, <3>3
  <2>4. CASE AppendSession(q) \/ ProcessExit(q) \/ NeedsUser(q)
    BY <1>same, <2>4 DEF AppendSession, ProcessExit, NeedsUser
  <2> QED
    BY <1>1, <2>1, <2>2, <2>3, <2>4 DEF Actor
<1>2. ASSUME NEW c \in Cancellers \cup Watchers,
             \/ c \in Cancellers /\ CancelFind(c)
             \/ c \in Objs /\ WatcherFires(c)
             \/ CancelRun(c)
      PROVE  Minding(o)'
  <2>1. Cancelled
    BY <1>0, <1>2, CancellerMoves
  <2> QED
    BY <1>claims, <2>1 DEF Cancelled
<1>3. ASSUME NEW r \in Runs, Monitor(r) PROVE Minding(o)'
  <2>1. Claims
    BY <1>3, MonitorMoves DEF MonitorMoved
  <2> QED
    BY <1>claims, <2>1 DEF Claims
<1>4. ASSUME Recover \/ ScanBegin(TRUE) PROVE Minding(o)'
  BY <1>4, <1>here, <1>same, ScanMoves DEF ScanLeaves
<1>5. ASSUME Close \/ Crash \/ Restart \/ HandQueue \/ HandClear PROVE Minding(o)'
  BY <1>5, <1>same DEF Close, Crash, Restart, HandQueue, HandClear
<1> QED
  BY <1>1, <1>2, <1>3, <1>4, <1>5 DEF Next, Actor, Watchers

\* Nobody minds a run: nothing of this GUI is on its way.
LEMMA NobodyMinds ==
    ASSUME KeepInv, obj \in [Objs -> ObjStates], status = "running", Unrecorded,
           NEW o \in Objs, ~Minding(o)
    PROVE  obj[o].pc \in {"unused", "gone", "stub"} /\ obj[o].fin = "free"
<1>0. Duty(o) /\ obj[o] \in ObjStates
  BY DEF KeepInv
<1>1. obj[o].fin = "free"
  BY <1>0 DEF Minding, Unrecorded, ObjStates
<1> QED
  BY <1>0, <1>1 DEF Duty, Minding, ObjStates, PCs, Before, Opening, Early

\* A monitor that will see the end of its run goes on.
LEMMA MonWillStays ==
    ASSUME RangeInv, KeepInv, FaultsLeft, NoFaults', status' = "running",
           Newest' = Newest, Unrecorded, \A o \in Objs : ~Minding(o),
           status = "running", NEW r \in Runs, Monitor(r)
    PROVE  \/ \E o \in Objs : Minding(o)'
           \/ MonWill(r)'
           \/ ~MonWill(r)
<1>0. /\ obj \in [Objs -> ObjStates] /\ SideTypes /\ MonOK
  BY Types DEF RangeInv
<1>1. MonitorMoved(r)
  BY MonitorMoves
<1>2. CASE mon[r].pc = "poll"
  BY <1>1, <1>2 DEF MonitorMoved, MonWill
<1>3. CASE mon[r].pc = "release"
  BY <1>1, <1>3 DEF MonitorMoved, MonWill
<1>4. CASE mon[r].pc = "sync"
  BY <1>1, <1>4, EndsRunning DEF MonitorMoved
<1>5. CASE mon[r].pc = "exit"
  <2>1. CASE Tracked(r) /\ obj[active].cancelled
    <3>1. active \in Objs /\ obj[active].pc = "stub"
      BY <1>5, <2>1, TrackedStub
    <3>2. Minding(active)
      BY <1>0, <2>1, <3>1, NobodyMinds DEF Minding
    <3> QED
      BY <3>1, <3>2
  <2> QED
    BY <1>1, <1>5, <2>1 DEF MonitorMoved, MonWill
<1>6. CASE mon[r].pc = "claim"
  <2> PICK d : d = mon[r].obj
    OBVIOUS
  <2>1. d \in Objs /\ obj[d].fin = "free"
    BY <1>0, <1>6, NobodyMinds DEF MonOK
  <2>2. obj'[d].fin = "append"
    BY <1>1, <1>6, <2>1 DEF MonitorMoved, Claims
  <2> QED
    BY <2>1, <2>2 DEF Minding
<1>7. CASE mon[r].pc = "lose"
  <2>1. mon'[r].pc = "sync"
    BY <1>0, <1>1, <1>7, Unfailed DEF MonitorMoved
  <2> QED
    BY <2>1 DEF MonWill
<1> QED
  BY <1>2, <1>3, <1>4, <1>5, <1>6, <1>7 DEF MonWill

\* The scan of Activate comes to the last run, and adopts it or ends it.
LEMMA ScanWillStays ==
    ASSUME RangeInv, KeepInv, FaultsLeft, NoFaults', status' = "running",
           Newest' = Newest, status = "running", ScanWill,
           Recover \/ ScanBegin(TRUE)
    PROVE  ScanWill' \/ \E r \in Runs : MonWill(r)'
<1>0. /\ log \in Seq(Events) /\ SideTypes /\ RestKeep /\ Startup /\ ~rec.tick
      /\ rec.pc # "idle" /\ RecKeep /\ rec \in RecStates
      /\ mon \in [Runs -> MonStates]
  BY Types DEF RangeInv, KeepInv, RestKeep, ScanWill, Startup, SideTypes
<1>1. ~ScanSync /\ ~ScanEdit /\ ~ScanBegin(TRUE)
  BY <1>0, EndsRunning DEF ScanBegin, RecAt
<1> PICK n : n = Newest
  OBVIOUS
<1>2. ASSUME rec'.pc # "idle", ~rec'.tick,
             rec'.pc \in {"next", "finish"} => n \in rec'.rest
      PROVE  ScanWill'
  BY <1>2 DEF ScanWill, Startup
<1>3. CASE StartupScan
  <2>1. rec' = [NoScan EXCEPT !.pc = "read"]
    BY <1>3 DEF StartupScan
  <2>2. rec'.pc = "read" /\ ~rec'.tick
    BY <2>1 DEF NoScan
  <2> QED
    BY <1>2, <2>2
<1>4. CASE ScanRead
  <2>1. log # <<>> /\ rec' = [rec EXCEPT !.pc = "next", !.len = Len(log), !.rest = Logged]
    BY <1>0, <1>4 DEF ScanRead, RecAt, RecKeep
  <2>2. rec'.pc = "next" /\ ~rec'.tick /\ rec'.rest = Logged
    BY <1>0, <2>1 DEF RecStates
  <2>3. Logged # {}
    <3>1. Len(log) \in Nat /\ Len(log) # 0
      BY <1>0, <2>1, LenProperties, EmptySeq
    <3>2. 1 \in DOMAIN log
      BY <1>0, <3>1, LogFacts
    <3> QED
      BY <3>2 DEF Logged
  <2>4. n \in Logged
    BY <1>0, <2>3, LatestHere DEF LatestRule, Newest
  <2> QED
    BY <1>2, <2>2, <2>4
<1>last. ASSUME rec.pc \in {"next", "finish"}, RestKeep
         PROVE  n \in rec.rest /\ (IsLatest <=> Current = n)
  <2>1. View = Logged
    BY <1>0, <1>last DEF RecKeep
  <2> QED
    BY <1>last, <2>1 DEF IsLatest, View, Newest, ScanWill
<1>pass. ASSUME ScanNext, rec' = Passed, n # Current PROVE ScanWill'
  <2>1. /\ rec'.pc = "next" /\ rec'.tick = rec.tick
        /\ rec'.rest = rec.rest \ {Current} /\ n \in rec.rest
    BY <1>0, <1>last, <1>pass, CurrentKnown DEF ScanNext, RecAt
  <2> QED
    BY <1>0, <1>2, <1>pass, <2>1
<1>5. CASE ScanSkip
  BY <1>0, <1>5, <1>last, <1>pass DEF ScanSkip, Skipped, ScanNext, RecAt
<1>6. CASE ScanAdopt
  <2>1. ScanNext /\ rec' = Passed /\ Current \in Runs
    BY <1>6, CurrentKnown DEF ScanAdopt
  <2>2. CASE Current = n
    <3> PICK r \in Runs : r = Current
      BY <2>1
    <3> PICK m : m = IF mon[r].pc = "off"
                     THEN [NoMon EXCEPT !.pc = "poll", !.pid = OldPid] ELSE mon[r]
      OBVIOUS
    <3>1. mon' = [mon EXCEPT ![r] = m]
      BY <1>6 DEF ScanAdopt
    <3>2. m.pc = "poll" \/ (mon[r].pc # "off" /\ m = mon[r])
      BY DEF NoMon
    <3>3. mon[r].pc \in {"off", "poll", "release", "sync", "exit", "claim", "lose"}
      BY <1>0 DEF MonStates
    <3>4. mon'[r] = m /\ Newest' = r
      BY <1>0, <2>2, <3>1
    <3> QED
      BY <3>2, <3>3, <3>4 DEF MonWill
  <2>3. CASE Current # n
    BY <1>pass, <2>1, <2>3
  <2> QED
    BY <2>2, <2>3
<1>7. CASE ScanStale
  <2>1. rec.pc = "next"
    BY <1>7 DEF ScanStale, ScanNext, RecAt
  <2> PICK q : q = Current
    OBVIOUS
  <2> PICK v : v = Verdict(Current)
    OBVIOUS
  <2>2. rec' = [rec EXCEPT !.pc = "finish", !.run = q, !.st = v]
    BY <1>7 DEF ScanStale
  <2>3. rec'.pc = "finish" /\ ~rec'.tick /\ rec'.rest = rec.rest
    BY <1>0, <2>2 DEF RecStates
  <2> QED
    BY <1>0, <1>2, <1>last, <2>1, <2>3
<1>8. CASE ScanFinish
  <2>1. rec.pc = "finish"
    BY <1>8 DEF ScanFinish, RecAt
  <2>2. n \in rec.rest /\ (IsLatest <=> Current = n)
    BY <1>0, <1>last, <2>1
  <2>3. PICK ok \in BOOLEAN :
            /\ AppendEvent(Event(rec.run, "finished", 0, rec.st), ok)
            /\ rec' = IF ~ok THEN NoScan
                      ELSE IF rec.rest = {} \/ IsLatest
                      THEN [rec EXCEPT !.pc = "edit"]
                      ELSE [Passed EXCEPT !.pc = "next"]
    BY <1>8 DEF ScanFinish
  <2>4. ok
    BY <1>0, <2>3, Unfailed
  <2>5. CASE IsLatest
    <3>1. rec' = [rec EXCEPT !.pc = "edit"]
      BY <2>3, <2>4, <2>5
    <3>2. rec'.pc = "edit" /\ ~rec'.tick
      BY <1>0, <3>1 DEF RecStates
    <3> QED
      BY <1>2, <3>2
  <2>6. CASE ~IsLatest
    <3>1. rec' = [Passed EXCEPT !.pc = "next"]
      BY <2>2, <2>3, <2>4, <2>6
    <3> PICK q : q = Current
      OBVIOUS
    <3>2. rec' = [[rec EXCEPT !.rest = @ \ {q}] EXCEPT !.pc = "next"]
      BY <3>1 DEF Passed
    <3>3. rec'.pc = "next" /\ ~rec'.tick /\ rec'.rest = rec.rest \ {q}
      BY <1>0, <3>2 DEF RecStates
    <3> QED
      BY <1>2, <2>2, <2>6, <3>3
  <2> QED
    BY <2>5, <2>6
<1>9. CASE ScanEnd
  <2>1. rec.pc = "next" /\ rec.rest = {}
    BY <1>9 DEF ScanEnd, RecAt
  <2> QED
    BY <1>0, <1>last, <2>1
<1> QED
  BY <1>1, <1>3, <1>4, <1>5, <1>6, <1>7, <1>8, <1>9 DEF Recover

LEMMA MindedStep ==
    ASSUME RangeInv, KeepInv, FaultsLeft, Minded, NoFaults', Next
    PROVE  Minded'
<1> SUFFICES ASSUME up', status' = "running"
             PROVE  \/ \E o \in Objs : Minding(o)'
                    \/ Unrecorded' /\ (ScanWill' \/ \E r \in Runs : MonWill(r)')
  BY Zenon DEF Minded
<1>0. /\ obj \in [Objs -> ObjStates] /\ SideTypes /\ log \in Seq(Events)
      /\ up \in BOOLEAN /\ CancelWaited /\ DownKeep
  BY Types DEF RangeInv, KeepInv, RestKeep
<1>1. CASE status # "running"
  <2>1. PICK o \in Objs : EditRunning(o)
    BY <1>1, RunningBegins
  <2>2. obj[o].pc = "mark" /\ Goto(o, "record")
    BY <2>1 DEF EditRunning, At
  <2>3. obj[o].fin = "free"
    BY <2>2 DEF KeepInv, Duty, Ending
  <2>4. obj'[o].pc = "record" /\ obj'[o].fin = "free"
    BY <1>0, <2>2, <2>3, GotoBecomes DEF Becomes
  <2> QED
    BY <2>4 DEF Minding
<1>2. CASE status = "running" /\ ~up
  <2>1. Restart
    BY <1>2, OnlyRestart
  <2>2. obj' = obj /\ rec' = [NoScan EXCEPT !.pc = "startup"]
    BY <2>1 DEF Restart
  <2>3. Unrecorded'
    BY <1>0, <1>2, <2>2 DEF Unrecorded, DownKeep
  <2>4. ScanWill'
    BY <2>2 DEF ScanWill, Startup, NoScan
  <2> QED
    BY <2>3, <2>4
<1>3. CASE status = "running" /\ up /\ \E o \in Objs : Minding(o)
  BY <1>3, MindingStays
<1>4. CASE status = "running" /\ up /\ \A o \in Objs : ~Minding(o)
  <2>0. Unrecorded /\ (ScanWill \/ \E r \in Runs : MonWill(r))
    BY <1>4 DEF Minded
  <2>1. \A o \in Objs : obj[o].pc \in {"unused", "gone", "stub"} /\ obj[o].fin = "free"
    BY <1>0, <1>4, <2>0, NobodyMinds
  <2>2. Newest' = Newest
    BY <1>4, LogSafeNext, LogSafeKeeps DEF LogKept, KeepInv, RestKeep
  <2>still. ASSUME obj' = obj, rec' = rec, mon' = mon
            PROVE  Unrecorded' /\ (ScanWill' \/ \E r \in Runs : MonWill(r)')
    <3>1. Unrecorded'
      BY <2>0, <2>still DEF Unrecorded
    <3>2. ScanWill => ScanWill'
      BY <2>2, <2>still DEF ScanWill, Startup
    <3>3. \A r \in Runs : MonWill(r) => MonWill(r)'
      BY <2>2, <2>still DEF MonWill
    <3> QED
      BY <2>0, <3>1, <3>2, <3>3
  <2>3. ASSUME NEW o \in Objs, Actor(o)
        PROVE  Unrecorded' /\ (ScanWill' \/ \E r \in Runs : MonWill(r)')
    <3>1. ~Goroutine(o)
      BY <1>0, <2>1, GoroutineMoves DEF Moved
    <3>2. ~RecordTerminal(o)
      BY <1>0, <2>1, RecordMoves DEF RecordMoved
    <3>3. ~Setup(o) /\ ~AppendSession(o)
      BY <2>1 DEF Setup, Register, AppendQueued, EditQueued, Rollback, ReadQueued,
         ReadRefused, Synthesise, At, AppendSession
    <3>4. ~StartRun(o) /\ ~NeedsUser(o)
      BY <1>4 DEF StartRun, StartAgentRun, ResumeAgent, Claim, Terminal, NeedsUser
    <3>5. ProcessExit(o)
      BY <2>3, <3>1, <3>2, <3>3, <3>4 DEF Actor
    <3> QED
      BY <2>still, <3>5 DEF ProcessExit, sideVars
  <2>4. ASSUME NEW c \in Cancellers \cup Watchers,
               \/ c \in Cancellers /\ CancelFind(c)
               \/ c \in Objs /\ WatcherFires(c)
               \/ CancelRun(c)
        PROVE  Unrecorded' /\ (ScanWill' \/ \E r \in Runs : MonWill(r)')
    <3>1. Cancelled
      BY <1>0, <2>4, CancellerMoves
    <3>2. Unrecorded'
      BY <2>1, <3>1 DEF Unrecorded, Cancelled
    <3>3. rec' = rec /\ mon' = mon
      BY <2>4 DEF CancelFind, WatcherFires, CancelRun, CancelMark, CancelTerm,
         CancelKill, CancelDone, CancelFinish
    <3>4. ScanWill => ScanWill'
      BY <2>2, <3>3 DEF ScanWill, Startup
    <3>5. \A r \in Runs : MonWill(r) => MonWill(r)'
      BY <2>2, <3>3 DEF MonWill
    <3> QED
      BY <2>0, <3>2, <3>4, <3>5
  <2>5. ASSUME NEW r \in Runs, Monitor(r)
        PROVE  \/ \E o \in Objs : Minding(o)'
               \/ Unrecorded' /\ (ScanWill' \/ \E p \in Runs : MonWill(p)')
    <3>1. MonitorMoved(r)
      BY <2>5, MonitorMoves
    <3>2. Unrecorded'
      BY <2>1, <3>1 DEF Unrecorded, MonitorMoved, Claims
    <3>3. ScanWill => ScanWill'
      BY <2>2, <3>1 DEF MonitorMoved, ScanWill, Startup
    <3>4. ASSUME NEW p \in Runs, p # r, MonWill(p) PROVE MonWill(p)'
      BY <2>2, <3>1, <3>4 DEF MonitorMoved, MonWill
    <3>5. (\E o \in Objs : Minding(o)') \/ MonWill(r)' \/ ~MonWill(r)
      BY <1>4, <2>0, <2>2, <2>5, MonWillStays
    <3> QED
      BY <2>0, <3>2, <3>3, <3>4, <3>5
  <2>6. ASSUME Recover \/ ScanBegin(TRUE)
        PROVE  Unrecorded' /\ (ScanWill' \/ \E r \in Runs : MonWill(r)')
    <3>1. Unrecorded'
      BY <2>1, <2>6, ScanMoves DEF ScanLeaves, Unrecorded
    <3>2. ScanWill => ScanWill' \/ \E r \in Runs : MonWill(r)'
      BY <1>4, <2>2, <2>6, ScanWillStays
    <3>3. ASSUME NEW r \in Runs, MonWill(r) PROVE MonWill(r)'
      <4>1. mon[r].pc # "off"
        BY <3>3 DEF MonWill
      <4>2. mon'[r] = mon[r]
        <5>1. CASE ScanAdopt
          <6> PICK q : q = Current
            OBVIOUS
          <6> PICK m : m = IF mon[q].pc = "off"
                           THEN [NoMon EXCEPT !.pc = "poll", !.pid = OldPid] ELSE mon[q]
            OBVIOUS
          <6>1. mon' = [mon EXCEPT ![q] = m]
            BY <5>1 DEF ScanAdopt
          <6>2. q = r => m = mon[r]
            BY <4>1
          <6> QED
            BY <1>0, <6>1, <6>2 DEF SideTypes
        <5>2. CASE ~ScanAdopt
          BY <2>6, <5>2 DEF Recover, StartupScan, ScanBegin, ScanRead, ScanSkip,
             ScanSync, ScanStale, ScanFinish, ScanEdit, ScanEnd
        <5> QED
          BY <5>1, <5>2
      <4> QED
        BY <2>2, <3>3, <4>2 DEF MonWill
    <3> QED
      BY <2>0, <3>1, <3>2, <3>3
  <2>7. ASSUME Close \/ Crash \/ Restart \/ HandQueue \/ HandClear
        PROVE  Unrecorded' /\ (ScanWill' \/ \E r \in Runs : MonWill(r)')
    <3>1. ~Crash /\ ~Restart
      BY <1>4 DEF Crash, Restart
    <3> QED
      BY <2>7, <2>still, <3>1 DEF Close, HandQueue, HandClear, sideVars
  <2> QED
    BY <2>3, <2>4, <2>5, <2>6, <2>7 DEF Next, Actor, Watchers
<1> QED
  BY <1>0, <1>1, <1>2, <1>3, <1>4

MindedInv == FaultsLeft /\ (NoFaults => Minded)

LEMMA MindedNext == RangeInv /\ KeepInv /\ MindedInv /\ [Next]_vars => MindedInv'
<1> SUFFICES ASSUME RangeInv, KeepInv, MindedInv, [Next]_vars PROVE MindedInv'
  OBVIOUS
<1>1. FaultsLeft' /\ (NoFaults' => NoFaults) /\ FaultsLeft
  BY FaultsNext DEF MindedInv
<1>2. CASE UNCHANGED vars
  <2>1. /\ up' = up /\ status' = status /\ obj' = obj /\ rec' = rec
        /\ mon' = mon /\ log' = log /\ budget' = budget
    BY <1>2 DEF vars
  <2>2. Newest' = Newest
    BY <2>1, Types, LogSame DEF RangeInv
  <2>3. /\ ScanWill' <=> ScanWill
        /\ \A r \in Runs : MonWill(r)' <=> MonWill(r)
        /\ \A o \in Objs : Minding(o)' <=> Minding(o)
        /\ Unrecorded' <=> Unrecorded
    BY <2>1, <2>2 DEF ScanWill, Startup, MonWill, Minding, Unrecorded
  <2>4. Minded => Minded'
    BY <2>1, <2>3 DEF Minded
  <2> QED
    BY <1>1, <2>4 DEF MindedInv
<1> QED
  BY <1>1, <1>2, MindedStep DEF MindedInv

LEMMA OutcomesAlways ==
    Spec => [](RangeInv /\ KeepInv /\ WrittenInv /\ MindedInv)
<1>1. Init => FaultsLeft
  BY AgentRunAssumption DEF Init, FaultsLeft
<1>2. Init => Written
  <2> SUFFICES ASSUME Init PROVE Written
    OBVIOUS
  <2>1. /\ rec.pc = "idle" /\ status = "none"
        /\ \A r \in Runs : mon[r].pc = "off"
        /\ \A o \in Objs : obj[o].fin = "free"
    BY DEF Init, NoScan, NoMon, Unused
  <2> QED
    BY <2>1 DEF Written, OutcomesIn, OutcomeOf, Terminal
<1>3. Init => Minded
  BY DEF Init, Minded
<1>4. Init => WrittenInv /\ MindedInv
  BY <1>1, <1>2, <1>3 DEF WrittenInv, MindedInv
<1> QED
  BY <1>4, InitRange, RangeNext, InitKeep, KeepNext, WrittenNext, MindedNext, PTL
  DEF Spec

\* Nothing at rest, and nobody minds a run or will: the task is not running.
LEMMA AtRestSettled ==
    ASSUME RangeInv, KeepInv, Minded, AtRest
    PROVE  status # "running"
<1> SUFFICES ASSUME status = "running" PROVE FALSE
  OBVIOUS
<1>1. up /\ ~Startup /\ ~ScanWill
  BY DEF AtRest, Startup, ScanWill
<1>2. \A r \in Runs : ~MonWill(r)
  BY DEF AtRest, MonWill
<1>3. ASSUME NEW o \in Objs, Minding(o) PROVE FALSE
  <2>1. /\ obj[o].fin = "free" /\ obj[o].cancelled
        /\ obj[o].pc \in {"gone", "stub"} /\ Duty(o)
    BY <1>3 DEF AtRest, Minding, KeepInv
  <2>2. Waits(o)
    BY <2>1 DEF Duty, Going, Ending
  <2> QED
    BY <2>2 DEF Waits, AtRest
<1> QED
  BY <1>1, <1>2, <1>3 DEF Minded

-----------------------------------------------------------------------------
(* The last run, in the first GUI and as long as no write fails.           *)

\* Where runs first appear, in this state and in the next.
FirstRule ==
    \A r \in Logged : /\ FirstOf(r) \in 1..Len(log) /\ log[FirstOf(r)].run = r
                      /\ \A j \in 1..(FirstOf(r) - 1) : log[j].run # r

LEMMA FirstNext == log' \in Seq(Events) => FirstRule'
<1>1. log \in Seq(Events) => FirstRule
  BY FirstIsFirst DEF FirstRule
<1>2. (log \in Seq(Events))' => FirstRule'
  BY <1>1, PTL
<1> QED
  BY <1>2 DEF Events, Runs, Objs, Modes, Terminal

\* The last of the runs that do not wait, in this state and in the next.
RestRule ==
    Logged \ OpenQueued # {} =>
       /\ LatestOf(Logged \ OpenQueued) \in Logged \ OpenQueued
       /\ \A q \in Logged \ OpenQueued :
             FirstOf(q) <= FirstOf(LatestOf(Logged \ OpenQueued))

LEMMA RestNext == log' \in Seq(Events) => RestRule'
<1>1. log \in Seq(Events) => RestRule
  <2> SUFFICES ASSUME log \in Seq(Events), Logged \ OpenQueued # {}
               PROVE  /\ LatestOf(Logged \ OpenQueued) \in Logged \ OpenQueued
                      /\ \A q \in Logged \ OpenQueued :
                            FirstOf(q) <= FirstOf(LatestOf(Logged \ OpenQueued))
    BY DEF RestRule
  <2> DEFINE S == Logged \ OpenQueued
  <2>1. S \in SUBSET Logged
    OBVIOUS
  <2> HIDE DEF S
  <2>2. S # {} => /\ LatestOf(S) \in S
                  /\ \A q \in S : FirstOf(q) <= FirstOf(LatestOf(S))
    BY <2>1, LatestIsLast
  <2> QED
    BY <2>2 DEF S
<1>2. (log \in Seq(Events))' => RestRule'
  BY <1>1, PTL
<1> QED
  BY <1>2 DEF Events, Runs, Objs, Modes, Terminal

\* A run that appears is the last one.
LEMMA NewestAppended ==
    ASSUME log \in Seq(Events), NEW e \in Events, log' = Append(log, e),
           e.run \notin Logged
    PROVE  Newest' = e.run
<1>1. /\ log' \in Seq(Events) /\ Len(log') = Len(log) + 1 /\ Len(log) \in Nat
      /\ \A i \in 1..Len(log) : log'[i] = log[i]
      /\ Logged' = Logged \cup {e.run}
  BY HasAppended, LogFacts
<1> PICK n : n = FirstOf(e.run)'
  OBVIOUS
<1> PICK m : m = Newest'
  OBVIOUS
<1>2. n \in 1..Len(log') /\ log'[n].run = e.run
  BY <1>1, FirstNext DEF FirstRule
<1>3. n = Len(log) + 1
  <2>1. ASSUME n \in 1..Len(log) PROVE FALSE
    BY <1>1, <1>2, <2>1, LogFacts DEF Logged
  <2> QED
    BY <1>1, <1>2, <2>1
<1>4. m \in Logged' /\ \A q \in Logged' : FirstOf(q)' <= FirstOf(Newest)'
  BY <1>1, LatestNext DEF LatestRule, Newest
<1>5. ASSUME m \in Logged PROVE FALSE
  <2>1. FirstOf(m)' = FirstOf(m) /\ FirstOf(m) \in 1..Len(log)
    BY <1>5, FirstStays, FirstIsFirst
  <2>2. n <= FirstOf(m)'
    BY <1>1, <1>4
  <2> QED
    BY <1>1, <1>3, <2>1, <2>2
<1> QED
  BY <1>1, <1>4, <1>5

LEMMA OpenQueuedAppended ==
    ASSUME log \in Seq(Events), NEW e \in Events, log' = Append(log, e)
    PROVE  /\ OpenQueued' \subseteq OpenQueued \cup {e.run}
           /\ e.kind = "queued" /\ e.run \notin Logged =>
                 OpenQueued' = OpenQueued \cup {e.run}
<1>1. /\ Logged' = Logged \cup {e.run}
      /\ \A r, k : Has(r, k)' <=> Has(r, k) \/ (e.run = r /\ e.kind = k)
  BY LogMore
<1>2. \A r, k : Has(r, k) => r \in Logged
  BY DEF Has, Logged
<1>3. \A r : r \in OpenQueued' <=> /\ r \in Logged' /\ Has(r, "queued")'
                                   /\ ~Has(r, "started")' /\ ~Has(r, "finished")'
  BY DEF OpenQueued
<1>4. \A r : r \in OpenQueued <=> /\ r \in Logged /\ Has(r, "queued")
                                  /\ ~Has(r, "started") /\ ~Has(r, "finished")
  BY DEF OpenQueued
<1>5. ASSUME NEW r \in OpenQueued', r # e.run PROVE r \in OpenQueued
  BY <1>1, <1>3, <1>4, <1>5
<1>6. ASSUME e.kind = "queued", e.run \notin Logged, NEW r \in OpenQueued \cup {e.run}
      PROVE  r \in OpenQueued'
  <2>1. CASE r = e.run
    BY <1>1, <1>2, <1>3, <1>6, <2>1
  <2>2. CASE r # e.run
    BY <1>1, <1>3, <1>4, <1>6, <2>2
  <2> QED
    BY <2>1, <2>2
<1> QED
  BY <1>5, <1>6

LEMMA OpenQueuedSame ==
    ASSUME log \in Seq(Events), log' = log
    PROVE  OpenQueued' = OpenQueued
<1>1. /\ Logged' = Logged /\ \A r, k : Has(r, k)' <=> Has(r, k)
  BY LogSame
<1> QED
  BY <1>1 DEF OpenQueued

\* A run that takes its place in the queue does not become the last of the
\* others.
LEMMA RestStays ==
    ASSUME log \in Seq(Events), NEW e \in Events, log' = Append(log, e),
           e.kind = "queued", e.run \notin Logged, OpenQueued = {}, Logged # {}
    PROVE  LatestOf(Logged \ OpenQueued)' = LatestOf(Logged)
<1>1. /\ log' \in Seq(Events) /\ Logged' = Logged \cup {e.run}
      /\ OpenQueued' = {e.run}
  BY HasAppended, OpenQueuedAppended
<1>2. Logged' \ OpenQueued' = Logged
  BY <1>1
<1> PICK l \in Logged : l = LatestOf(Logged)
  BY LatestIsLast
<1> PICK m : m = LatestOf(Logged \ OpenQueued)'
  OBVIOUS
<1>3. \A q \in Logged : FirstOf(q) <= FirstOf(l)
  BY LatestIsLast
<1>4. \A q \in Logged : FirstOf(q)' = FirstOf(q)
  BY FirstStays
<1>5. /\ m \in Logged
      /\ \A q \in Logged : FirstOf(q)' <= FirstOf(LatestOf(Logged \ OpenQueued))'
  BY <1>1, <1>2, RestNext DEF RestRule
<1>6. FirstOf(l)' <= FirstOf(m)' /\ FirstOf(m)' = FirstOf(m) /\ FirstOf(l)' = FirstOf(l)
  BY <1>4, <1>5
<1>7. FirstOf(l) = FirstOf(m)
  BY <1>3, <1>5, <1>6, FirstIsFirst
<1>8. l = m
  BY <1>5, <1>7, FirstIsFirst
<1> QED
  BY <1>8

\* Whoever holds the task's entry works on the last run; the outcome of an
\* earlier one is gone from the task before the run is under way.
Holding(o) ==
    entry = o =>
      /\ obj[o].run \in Logged => Newest = obj[o].run
      /\ status \in Terminal =>
           \/ obj[o].fin \in {"delete", "done"}
           \/ obj[o].kind = "direct" /\ obj[o].pc \in {"register", "queue", "label"}

LastInv ==
    /\ \A r \in OpenQueued : entry \in Objs /\ obj[entry].run = r
    /\ \A o \in Objs : Holding(o) /\ obj[o].pc # "undo"
    /\ status \in Terminal => FinishedAs(LatestOf(Logged \ OpenQueued), status)

\* All that holds of the first GUI as long as no write fails.
FirstRules == /\ RangeInv /\ KeepInv /\ LifeInv /\ StoryInv /\ FaultsLeft
              /\ Written /\ LastInv

LEMMA LastFacts ==
    ASSUME FirstRules, NEW o \in Objs
    PROVE  /\ SideTypes /\ Named(o) /\ Duty(o) /\ Owner(o) /\ Story(o) /\ OutcomeOf(o)
           /\ obj[o] \in ObjStates /\ obj \in [Objs -> ObjStates]
           /\ active \in Objs \cup {0} /\ entry \in Objs \cup {0}
           /\ o # 0 /\ log \in Seq(Events)
           /\ (obj[o].pc \in {"unused", "claimed"} => obj[o].run \notin Runs)
           /\ Logged \subseteq Runs /\ OpenQueued \subseteq Logged
           /\ \A r \in OpenQueued : ~Has(r, "finished")
           /\ nextRun \notin Logged /\ 0 \notin Logged
           /\ Holding(o) /\ obj[o].pc # "undo"
           /\ (entry = o => OpenQueued \subseteq {obj[o].run})
           /\ (entry = 0 => OpenQueued = {})
<1>1. /\ SideTypes /\ Named(o) /\ Duty(o) /\ Owner(o) /\ Story(o) /\ OutcomeOf(o)
      /\ obj[o] \in ObjStates /\ obj \in [Objs -> ObjStates]
      /\ active \in Objs \cup {0} /\ entry \in Objs \cup {0}
      /\ o # 0 /\ 0 \notin Objs /\ log \in Seq(Events)
      /\ (obj[o].pc \in {"unused", "claimed"} => obj[o].run \notin Runs)
  BY KeepFacts, LifeFacts DEF FirstRules, StoryInv, Written
<1>2. /\ Logged \subseteq Runs /\ nextRun \notin Logged /\ 0 \notin Logged
      /\ OpenQueued \subseteq Logged /\ \A r \in OpenQueued : ~Has(r, "finished")
  BY BegunFacts DEF FirstRules, OpenQueued
<1>3. /\ Holding(o) /\ obj[o].pc # "undo"
      /\ \A r \in OpenQueued : entry \in Objs /\ obj[entry].run = r
  BY DEF FirstRules, LastInv
<1>4. /\ (entry = o => OpenQueued \subseteq {obj[o].run})
      /\ (entry = 0 => OpenQueued = {})
  BY <1>1, <1>3
<1> QED
  BY <1>1, <1>2, <1>3, <1>4

\* The entry is given back when the run of its holder waits no longer.
LEMMA EntrySteps ==
    ASSUME FirstRules, NoFaults', NEW o \in Objs, Actor(o)
    PROVE  \/ entry' = entry
           \/ /\ entry = o /\ entry' = 0 /\ log' = log
              /\ obj[o].run \notin OpenQueued
           \/ StartRun(o) /\ entry = 0 /\ entry' = o
<1> USE LastFacts
<1>1. CASE StartRun(o)
  BY <1>1 DEF StartRun, StartAgentRun, ResumeAgent, Claim
<1>2. CASE Register(o)
  <2>1. active = 0
    <3>1. entry = o /\ active # o
      BY <1>2 DEF Register, At, Owner, Early
    <3>2. ASSUME active \in Objs PROVE FALSE
      <4>1. Owner(active)
        BY <3>2
      <4> QED
        BY <3>1, <4>1 DEF Owner
    <3> QED
      BY <3>2
  <2> QED
    BY <1>2, <2>1 DEF Register
<1>3. CASE Rollback(o)
  BY <1>3 DEF Rollback, At
<1>4. CASE ReadRefused(o)
  <2>1. obj[o].run \notin OpenQueued /\ log' = log
    BY <1>4 DEF ReadRefused, At, diskVars
  <2> QED
    BY <1>4, <2>1 DEF ReadRefused
<1>5. CASE Synthesise(o)
  BY <1>5, Unfailed DEF Synthesise, FirstRules
<1>6. CASE AfterQueued(o)
  <2>1. CASE obj[o].cancelled /\ obj[o].fin # "done"
    BY <1>6, <2>1 DEF AfterQueued
  <2>2. CASE ~(obj[o].cancelled /\ obj[o].fin # "done")
    <3>1. obj[o].fin = "done"
      BY <1>6, <2>2 DEF AfterQueued, At, Owner
    <3>2. obj[o].run \notin OpenQueued
      BY <3>1 DEF OutcomeOf
    <3> QED
      BY <1>6, <2>2, <3>2 DEF AfterQueued, diskVars
  <2> QED
    BY <2>1, <2>2
<1>7. CASE TerminalDelete(o)
  <2>1. obj[o].run \notin OpenQueued
    BY <1>7 DEF TerminalDelete, Fin, OutcomeOf
  <2> QED
    BY <1>7, <2>1 DEF TerminalDelete, diskVars
<1>8. CASE ~(\/ StartRun(o) \/ Register(o) \/ Rollback(o) \/ ReadRefused(o)
             \/ Synthesise(o) \/ AfterQueued(o) \/ TerminalDelete(o))
  BY <1>8 DEF Actor, Setup, AppendQueued, EditQueued, ReadQueued, Goroutine,
     GoCancelled, Spawn, SpawnFail, OnStarted, EditRunning, AppendStarted, Outcome,
     PostRun, CloseDone, RecordTerminal, TerminalAppend, TerminalRead, TerminalEdit,
     AppendSession, ProcessExit, NeedsUser
<1> QED
  BY <1>1, <1>2, <1>3, <1>4, <1>5, <1>6, <1>7, <1>8

\* An object keeps its run; the daemon's worker finds none that waits.
LEMMA RunSteps ==
    ASSUME FirstRules, NEW o \in Objs, Actor(o), ~StartRun(o)
    PROVE  \/ obj'[o].run = obj[o].run
           \/ obj'[o].run = nextRun /\ log' = log
<1> USE LastFacts
<1>1. CASE Goroutine(o)
  BY <1>1, GoroutineMoves DEF Moved
<1>2. CASE RecordTerminal(o)
  BY <1>2, RecordMoves DEF RecordMoved
<1>3. CASE AppendSession(o) \/ ProcessExit(o) \/ NeedsUser(o)
  BY <1>3 DEF AppendSession, ProcessExit, NeedsUser
<1>4. ASSUME NEW pc, Goto(o, pc) PROVE obj'[o].run = obj[o].run
  BY <1>4, GotoBecomes DEF Becomes
<1>5. CASE Register(o) \/ AppendQueued(o) \/ EditQueued(o) \/ ReadRefused(o)
           \/ Synthesise(o)
  BY <1>4, <1>5 DEF Register, AppendQueued, EditQueued, ReadRefused, Synthesise
<1>6. CASE Rollback(o)
  BY <1>6 DEF Rollback, At
<1>7. CASE ReadQueued(o)
  <2>1. entry = o /\ obj[o].run \notin Runs /\ OpenQueued = {}
    BY <1>7 DEF ReadQueued, At, Owner, Early
  <2>2. obj' = [obj EXCEPT ![o] = [obj[o] EXCEPT !.pc = "synth", !.run = nextRun]]
    BY <1>7, <2>1 DEF ReadQueued
  <2>3. obj'[o].run = nextRun
    BY <2>2 DEF ObjStates
  <2> QED
    BY <1>7, <2>3 DEF ReadQueued, diskVars
<1> QED
  BY <1>1, <1>2, <1>3, <1>5, <1>6, <1>7 DEF Actor, Setup

\* Only recordTerminal writes an outcome.
LEMMA StatusSteps ==
    ASSUME FirstRules, NoFaults', NEW o \in Objs, Actor(o)
    PROVE  \/ status' = status
           \/ status' \notin Terminal
           \/ TerminalEdit(o) /\ status' = obj[o].st
<1> USE LastFacts
<1>1. CASE EditQueued(o)
  BY <1>1, Unfailed DEF EditQueued, Terminal, FirstRules
<1>2. CASE EditRunning(o)
  BY <1>2, Unfailed DEF EditRunning, Terminal, FirstRules
<1>3. CASE TerminalEdit(o)
  BY <1>3, Unfailed DEF TerminalEdit, FirstRules
<1>4. CASE NeedsUser(o)
  BY <1>4 DEF NeedsUser, Terminal
<1>5. CASE ~(EditQueued(o) \/ EditRunning(o) \/ TerminalEdit(o) \/ NeedsUser(o))
  BY <1>5 DEF Actor, StartRun, StartAgentRun, ResumeAgent, Claim,
     Setup, Register, AppendQueued, Rollback, ReadQueued, ReadRefused, Synthesise,
     Goroutine, GoCancelled, Spawn, SpawnFail, OnStarted,
     AppendStarted, Outcome, PostRun, CloseDone, AfterQueued, AppendSession,
     ProcessExit, RecordTerminal, TerminalAppend, TerminalRead, TerminalDelete,
     diskVars
<1> QED
  BY <1>1, <1>2, <1>3, <1>4, <1>5

\* While the task shows an outcome, all that is appended is a new run.
LEMMA AppendSteps ==
    ASSUME FirstRules, NoFaults', NEW o \in Objs, Actor(o), LogTold(o),
           status \in Terminal, log' # log
    PROVE  /\ obj[o].run \notin Logged
           /\ \E e \in Events : /\ log' = Append(log, e) /\ e.run = obj[o].run
                                /\ e.kind = "queued"
<1> USE LastFacts
<1>1. entry = o
  BY DEF LogTold
<1>2. \/ obj[o].fin \in {"delete", "done"}
      \/ obj[o].kind = "direct" /\ obj[o].pc \in {"register", "queue", "label"}
  BY <1>1 DEF Holding
<1>3. obj[o].pc \notin Ending \cup {"gone"} => obj[o].fin = "free"
  BY DEF Owner
<1>4. AppendQueued(o)
  <2>1. ~Synthesise(o) /\ ~AppendStarted(o) /\ ~AppendSession(o) /\ ~TerminalAppend(o)
    BY <1>2, <1>3 DEF Synthesise, AppendStarted, AppendSession, TerminalAppend, At,
       Fin, Ending
  <2> QED
    BY <2>1 DEF Actor, StartRun, StartAgentRun, ResumeAgent, Claim,
     Setup, Register, EditQueued, Rollback, ReadQueued, ReadRefused,
     Goroutine, GoCancelled, Spawn, SpawnFail, OnStarted, EditRunning, Outcome,
     PostRun, CloseDone, AfterQueued, ProcessExit, NeedsUser,
     RecordTerminal, TerminalRead, TerminalEdit, TerminalDelete, diskVars
<1>5. /\ obj[o].run \notin Logged /\ obj[o].run \in Runs /\ obj[o].mode \in Modes
  BY <1>4 DEF AppendQueued, At, Story, Named, ObjStates
<1> PICK r \in Runs : r = obj[o].run
  BY <1>5
<1> PICK m \in Modes : m = obj[o].mode
  BY <1>5
<1> PICK e : e = Event(r, "queued", 0, m)
  OBVIOUS
<1>6. log' = Append(log, e)
  BY <1>4, Unfailed DEF AppendQueued, FirstRules
<1>7. e \in Events /\ e.run = r /\ e.kind = "queued"
  BY EventTypes DEF Event
<1> QED
  BY <1>5, <1>6, <1>7

\* What a start makes of its object.
LEMMA StartMade ==
    ASSUME obj \in [Objs -> ObjStates], NEW o \in Objs, StartRun(o)
    PROVE  /\ log' = log /\ status' = status
           /\ obj'[o].pc \in {"register", "claimed"}
           /\ \/ obj'[o].run = nextRun /\ obj'[o].pc = "register"
                 /\ obj'[o].kind = "direct"
              \/ obj'[o].run = 0 /\ status = "queued"
<1>1. ASSUME NEW m \in StartModes, StartAgentRun(o, m)
      PROVE  /\ log' = log /\ status' = status /\ obj'[o].pc = "register"
             /\ obj'[o].run = nextRun /\ obj'[o].kind = "direct"
  <2>1. obj' = [obj EXCEPT ![o] = [Unused EXCEPT !.pc = "register",
                                                 !.run = nextRun, !.mode = m]]
    BY <1>1 DEF StartAgentRun
  <2>2. obj'[o] = [Unused EXCEPT !.pc = "register", !.run = nextRun, !.mode = m]
    BY <2>1
  <2> QED
    BY <1>1, <2>2 DEF StartAgentRun, diskVars, Unused
<1>2. CASE ResumeAgent(o)
  <2>1. obj' = [obj EXCEPT ![o] = [Unused EXCEPT !.pc = "register",
                                                 !.run = nextRun, !.mode = ResumeMode]]
    BY <1>2 DEF ResumeAgent
  <2>2. obj'[o] = [Unused EXCEPT !.pc = "register", !.run = nextRun, !.mode = ResumeMode]
    BY <2>1
  <2> QED
    BY <1>2, <2>2 DEF ResumeAgent, diskVars, Unused
<1>3. CASE Claim(o)
  <2>1. obj' = [obj EXCEPT ![o] = [Unused EXCEPT !.pc = "claimed", !.kind = "queued"]]
    BY <1>3 DEF Claim
  <2>2. obj'[o] = [Unused EXCEPT !.pc = "claimed", !.kind = "queued"]
    BY <2>1
  <2> QED
    BY <1>3, <2>2 DEF Claim, diskVars, Unused
<1> QED
  BY <1>1, <1>2, <1>3 DEF StartRun

\* A run that the holder of the entry has put into the history is the last.
LEMMA NewestHeld ==
    ASSUME FirstRules, NoFaults', NEW o \in Objs, Actor(o), LogTold(o), Apart(o),
           entry' = o, obj'[o].run \in Logged'
    PROVE  Newest' = obj'[o].run
<1> USE LastFacts
<1>1. ~StartRun(o)
  <2> SUFFICES ASSUME StartRun(o) PROVE FALSE
    OBVIOUS
  <2>1. log' = log /\ obj'[o].run \in {nextRun, 0}
    BY StartMade
  <2>2. Logged' = Logged
    BY <2>1, LogSame
  <2> QED
    BY <2>1, <2>2
<1>2. entry = o
  BY <1>1, EntrySteps
<1>3. Holding(o)
  OBVIOUS
<1>4. CASE log' = log
  <2>1. Logged' = Logged /\ Newest' = Newest
    BY <1>4 DEF Logged, Newest, LatestOf, FirstOf
  <2>2. obj'[o].run = obj[o].run
    BY <1>1, <2>1, RunSteps
  <2> QED
    BY <1>2, <1>3, <2>1, <2>2 DEF Holding
<1>5. CASE log' # log
  <2>1. PICK e \in Events : log' = Append(log, e) /\ e.run = obj[o].run
    BY <1>5 DEF LogTold
  <2>2. e.run \in Runs
    BY EventKinds
  <2>3. obj'[o].run = e.run
    BY <2>1, <2>2 DEF Apart
  <2>4. CASE e.run \notin Logged
    BY <2>1, <2>3, <2>4, NewestAppended
  <2>5. CASE e.run \in Logged
    <3>1. Newest = e.run
      BY <1>2, <1>3, <2>1, <2>5 DEF Holding
    <3>2. Newest' = Newest
      BY <2>1, <2>5, LatestStays DEF Newest
    <3> QED
      BY <2>3, <3>1, <3>2
  <2> QED
    BY <2>4, <2>5
<1> QED
  BY <1>4, <1>5

\* The outcome that the task shows once its entry is taken is the one the
\* holder has just written, or is about to be replaced.
LEMMA OutcomeHeld ==
    ASSUME FirstRules, NoFaults', NEW o \in Objs, Actor(o), entry' = o,
           status' \in Terminal
    PROVE  \/ obj'[o].fin \in {"delete", "done"}
           \/ /\ obj'[o].kind = "direct"
              /\ obj'[o].pc \in {"register", "queue", "label"}
<1> USE LastFacts
<1> DEFINE Goal == \/ obj'[o].fin \in {"delete", "done"}
                   \/ /\ obj'[o].kind = "direct"
                      /\ obj'[o].pc \in {"register", "queue", "label"}
<1>1. CASE StartRun(o)
  <2>1. \/ obj'[o].pc = "register" /\ obj'[o].kind = "direct"
        \/ status' = "queued"
    BY <1>1, StartMade
  <2> QED
    BY <2>1 DEF Terminal
<1>2. CASE TerminalEdit(o)
  <2>1. RecordMoved(o)
    BY <1>2, RecordMoves DEF RecordTerminal
  <2> QED
    BY <1>2, <2>1 DEF RecordMoved, TerminalEdit, TerminalAppend, Fin
<1>3. CASE ~StartRun(o) /\ ~TerminalEdit(o)
  <2>1. entry = o /\ status' = status
    BY <1>3, EntrySteps, StatusSteps
  <2>2. \/ obj[o].fin \in {"delete", "done"}
        \/ /\ obj[o].kind = "direct" /\ obj[o].fin = "free"
           /\ obj[o].pc \in {"register", "queue", "label"}
    <3>1. Holding(o)
      OBVIOUS
    <3>2. obj[o].pc \notin Ending \cup {"gone"} => obj[o].fin = "free"
      BY DEF Owner
    <3> QED
      BY <2>1, <3>1, <3>2 DEF Holding, Ending
  <2>3. CASE Setup(o)
    <3>1. obj[o].pc \in Before
      BY <2>3 DEF Setup, Register, AppendQueued, EditQueued, Rollback, ReadQueued,
         ReadRefused, Synthesise, At, Before, Opening, Early
    <3>2. /\ obj[o].kind = "direct" /\ obj[o].fin = "free"
          /\ obj[o].pc \in {"register", "queue", "label"}
      BY <2>2, <3>1 DEF Duty, Before, Opening, Early, Ending
    <3>3. CASE Register(o)
      <4>1. active = 0
        BY <2>1, <3>3 DEF Register
      <4>2. Goto(o, "queue")
        BY <3>2, <3>3, <4>1 DEF Register
      <4> QED
        BY <3>2, <4>2, GotoBecomes DEF Becomes
    <3>4. CASE AppendQueued(o)
      <4>1. Goto(o, "label")
        BY <3>4, Unfailed DEF AppendQueued, FirstRules
      <4> QED
        BY <3>2, <4>1, GotoBecomes DEF Becomes
    <3>5. CASE EditQueued(o)
      <4>1. status' = "queued"
        BY <3>5, Unfailed DEF EditQueued, FirstRules
      <4> QED
        BY <4>1 DEF Terminal
    <3> QED
      BY <2>3, <3>2, <3>3, <3>4, <3>5 DEF Setup, Rollback, ReadQueued, ReadRefused,
         Synthesise, At
  <2>4. CASE Goroutine(o)
    <3>1. Moved(o)
      BY <2>4, GoroutineMoves
    <3> QED
      BY <2>2, <3>1 DEF Moved
  <2>5. CASE RecordTerminal(o)
    <3>1. RecordMoved(o)
      BY <2>5, RecordMoves
    <3> QED
      BY <1>3, <2>2, <3>1 DEF RecordMoved
  <2>6. CASE AppendSession(o) \/ ProcessExit(o) \/ NeedsUser(o)
    <3>1. obj' = obj
      BY <2>6 DEF AppendSession, ProcessExit, NeedsUser
    <3> QED
      BY <2>2, <3>1
  <2> QED
    BY <1>3, <2>3, <2>4, <2>5, <2>6 DEF Actor
<1> QED
  BY <1>1, <1>2, <1>3

\* Nothing is rolled back while every write succeeds.
LEMMA NeverUndone ==
    ASSUME FirstRules, NoFaults', NEW o \in Objs, Actor(o)
    PROVE  obj'[o].pc # "undo"
<1> USE LastFacts
<1>0. obj[o].pc # "undo"
  OBVIOUS
<1>1. CASE StartRun(o)
  BY <1>1, StartMade
<1>2. ASSUME NEW pc, pc # "undo", Goto(o, pc) PROVE obj'[o].pc # "undo"
  BY <1>2, GotoBecomes DEF Becomes
<1>3. CASE Setup(o)
  <2>1. CASE Register(o)
    <3>1. PICK pc \in {"queue", "go", "gone"} : Goto(o, pc)
      BY <2>1 DEF Register
    <3> QED
      BY <1>2, <3>1
  <2>2. CASE AppendQueued(o)
    <3>1. Goto(o, "label")
      BY <2>2, Unfailed DEF AppendQueued, FirstRules
    <3> QED
      BY <1>2, <3>1
  <2>3. CASE EditQueued(o)
    <3>1. Goto(o, "go")
      BY <2>3, Unfailed DEF EditQueued, FirstRules
    <3> QED
      BY <1>2, <3>1
  <2>4. CASE Rollback(o)
    BY <1>0, <2>4 DEF Rollback, At
  <2>5. CASE ReadQueued(o)
    <3>1. CASE OpenQueued # {}
      <4> PICK r : r = LatestOf(OpenQueued)
        OBVIOUS
      <4> PICK m : m = ModeOf(r)
        OBVIOUS
      <4>1. obj' = [obj EXCEPT ![o] = [obj[o] EXCEPT !.pc = "register", !.run = r,
                                                      !.mode = m]]
        BY <2>5, <3>1 DEF ReadQueued
      <4>2. obj'[o] = [obj[o] EXCEPT !.pc = "register", !.run = r, !.mode = m]
        BY <4>1
      <4> QED
        BY <4>2 DEF ObjStates
    <3>2. CASE OpenQueued = {}
      <4>1. obj' = [obj EXCEPT ![o] = [obj[o] EXCEPT !.pc = "synth", !.run = nextRun]]
        BY <2>5, <3>2 DEF ReadQueued
      <4>2. obj'[o] = [obj[o] EXCEPT !.pc = "synth", !.run = nextRun]
        BY <4>1
      <4> QED
        BY <4>2 DEF ObjStates
    <3> QED
      BY <3>1, <3>2
  <2>6. CASE ReadRefused(o) \/ Synthesise(o)
    <3>1. PICK pc \in {"gone", "register"} : Goto(o, pc)
      BY <2>6 DEF ReadRefused, Synthesise
    <3> QED
      BY <1>2, <3>1
  <2> QED
    BY <1>3, <2>1, <2>2, <2>3, <2>4, <2>5, <2>6 DEF Setup
<1>4. CASE Goroutine(o)
  BY <1>0, <1>4, GoroutineMoves DEF Moved, Ending
<1>5. CASE RecordTerminal(o)
  BY <1>0, <1>5, RecordMoves DEF RecordMoved
<1>6. CASE AppendSession(o) \/ ProcessExit(o) \/ NeedsUser(o)
  BY <1>0, <1>6 DEF AppendSession, ProcessExit, NeedsUser
<1> QED
  BY <1>1, <1>3, <1>4, <1>5, <1>6 DEF Actor

\* The last of the runs that do not wait is that of the same history.
LEMMA RestSame ==
    ASSUME log' = log
    PROVE  /\ LatestOf(Logged \ OpenQueued)' = LatestOf(Logged \ OpenQueued)
           /\ \A r, s : FinishedAs(r, s) <=> FinishedAs(r, s)'
           /\ Logged' = Logged /\ Newest' = Newest /\ OpenQueued' = OpenQueued
<1>1. Logged' = Logged /\ OpenQueued' = OpenQueued
  BY DEF Logged, OpenQueued, Has
<1>2. Newest' = Newest
  BY DEF Newest, LatestOf, Logged, FirstOf
<1>3. LatestOf(Logged \ OpenQueued)' = LatestOf(Logged \ OpenQueued)
  BY <1>1 DEF LatestOf, FirstOf
<1>4. \A r, s : FinishedAs(r, s) <=> FinishedAs(r, s)'
  BY DEF FinishedAs
<1> QED
  BY <1>1, <1>2, <1>3, <1>4

\* The entry of another start is not touched.
LEMMA HeldApart ==
    ASSUME FirstRules, NoFaults', NEW o \in Objs, Actor(o), LogTold(o), Apart(o),
           NEW q \in Objs, q # o
    PROVE  Holding(q)' /\ obj'[q].pc # "undo"
<1> USE LastFacts
<1>0. obj'[q] = obj[q] /\ obj[q].pc # "undo"
  BY DEF Apart
<1>1. ASSUME entry' = q
      PROVE  /\ entry = q /\ log' = log
             /\ status' \in Terminal => status' = status
  <2>1. entry = q
    BY <1>1, EntrySteps
  <2>2. log' = log
    BY <2>1 DEF LogTold
  <2>3. ~TerminalEdit(o)
    BY <2>1 DEF TerminalEdit, Fin, Owner
  <2> QED
    BY <2>1, <2>2, <2>3, StatusSteps
<1>2. Holding(q)
  OBVIOUS
<1>3. log' = log => Logged' = Logged /\ Newest' = Newest
  BY RestSame
<1>4. Holding(q)'
  BY <1>0, <1>1, <1>2, <1>3 DEF Holding
<1> QED
  BY <1>0, <1>4

\* Only the run of the entry's holder waits.
LEMMA WaitsHeld ==
    ASSUME FirstRules, NoFaults', NEW o \in Objs, Actor(o), LogTold(o), Apart(o),
           NEW r \in OpenQueued'
    PROVE  entry' \in Objs /\ obj'[entry'].run = r
<1> USE LastFacts
<1>1. CASE log' = log
  <2>1. r \in OpenQueued
    BY <1>1, RestSame
  <2>2. entry \in Objs /\ obj[entry].run = r /\ r \in Runs /\ 0 \notin Objs
    BY <2>1 DEF FirstRules, LastInv, Objs
  <2>3. entry' = entry
    BY <2>1, <2>2, EntrySteps
  <2>4. obj'[entry].run = obj[entry].run
    BY <2>2 DEF Apart
  <2> QED
    BY <2>2, <2>3, <2>4
<1>2. CASE log' # log
  <2>1. PICK e \in Events : /\ log' = Append(log, e) /\ e.run = obj[o].run
                            /\ entry = o
    BY <1>2 DEF LogTold
  <2>2. entry' = o
    BY <1>2, <2>1, EntrySteps
  <2>3. e.run \in Runs /\ obj'[o].run = e.run
    BY <2>1, EventKinds DEF Apart
  <2>4. r \in {e.run}
    BY <2>1, OpenQueuedAppended
  <2> QED
    BY <2>2, <2>3, <2>4
<1> QED
  BY <1>1, <1>2

\* An outcome that the task shows is that of the last run.
LEMMA OutcomeLast ==
    ASSUME FirstRules, NoFaults', Grown, NEW o \in Objs, Actor(o), LogTold(o),
           status' \in Terminal
    PROVE  FinishedAs(LatestOf(Logged \ OpenQueued), status)'
<1> USE LastFacts
<1> PICK l : l = LatestOf(Logged \ OpenQueued)
  OBVIOUS
<1> PICK m : m = LatestOf(Logged \ OpenQueued)'
  OBVIOUS
<1> PICK s : s = status'
  OBVIOUS
<1>1. FinishedAs(m, s)' => FinishedAs(LatestOf(Logged \ OpenQueued), status)'
  BY DEF FinishedAs
<1>2. status \in Terminal => FinishedAs(l, status)
  BY DEF FirstRules, LastInv
<1>3. CASE TerminalEdit(o) /\ status' = obj[o].st
  <2>1. log' = log /\ obj[o].fin = "edit" /\ obj[o].st # "none"
    BY <1>3 DEF TerminalEdit, Fin, Terminal
  <2>2. FinishedAs(obj[o].run, s) /\ Has(obj[o].run, "finished")
    BY <1>3, <2>1 DEF OutcomeOf
  <2>3. entry = o
    BY <2>1 DEF Owner
  <2>4. OpenQueued = {} /\ obj[o].run \in Logged
    BY <2>2, <2>3 DEF Has, Logged
  <2>5. Newest = obj[o].run
    BY <2>3, <2>4 DEF Holding
  <2>6. l = obj[o].run
    BY <2>4, <2>5 DEF Newest
  <2>7. FinishedAs(m, s)'
    BY <2>1, <2>2, <2>6, RestSame
  <2> QED
    BY <1>1, <2>7
<1>4. CASE status' = status
  <2>1. FinishedAs(l, s)
    BY <1>2, <1>4
  <2>2. CASE log' = log
    <3>1. FinishedAs(m, s)'
      BY <2>1, <2>2, RestSame
    <3> QED
      BY <1>1, <3>1
  <2>3. CASE log' # log
    <3>1. PICK e \in Events : /\ log' = Append(log, e) /\ e.run \notin Logged
                              /\ e.kind = "queued"
      BY <1>4, <2>3, AppendSteps
    <3>2. entry = o /\ obj[o].run \notin Logged
      BY <1>4, <2>3, AppendSteps DEF LogTold
    <3>3. OpenQueued = {} /\ Logged # {}
      BY <2>1, <3>2 DEF FinishedAs, Logged
    <3>4. m = LatestOf(Logged)
      BY <3>1, <3>3, RestStays
    <3>5. m = l
      BY <3>3, <3>4
    <3>6. FinishedAs(m, s)'
      BY <2>1, <3>5 DEF Grown
    <3> QED
      BY <1>1, <3>6
  <2> QED
    BY <2>2, <2>3
<1> QED
  BY <1>3, <1>4, StatusSteps

LEMMA LastActor ==
    ASSUME FirstRules, NoFaults', Grown, NEW o \in Objs, Actor(o), LogTold(o), Apart(o)
    PROVE  LastInv'
<1>1. \A r \in OpenQueued' : entry' \in Objs /\ obj'[entry'].run = r
  BY WaitsHeld
<1>2. status' \in Terminal => FinishedAs(LatestOf(Logged \ OpenQueued), status)'
  BY OutcomeLast
<1>3. Holding(o)' /\ obj'[o].pc # "undo"
  <2>1. Holding(o)'
    BY NewestHeld, OutcomeHeld DEF Holding
  <2> QED
    BY <2>1, NeverUndone
<1>4. \A q \in Objs : Holding(q)' /\ obj'[q].pc # "undo"
  BY <1>3, HeldApart
<1>5. (\A q \in Objs : Holding(q) /\ obj[q].pc # "undo")'
  BY <1>4
<1> QED
  BY <1>1, <1>2, <1>5 DEF LastInv

\* What is known of the last run stays when neither it nor the queue moves.
LEMMA LastFrame ==
    ASSUME LastInv, log' = log, entry' = entry,
           status' = status \/ status' \notin Terminal,
           \A q \in Objs : /\ obj'[q].pc = obj[q].pc /\ obj'[q].run = obj[q].run
                           /\ obj'[q].kind = obj[q].kind
                           /\ obj[q].fin \in {"delete", "done"} => obj'[q].fin = obj[q].fin
    PROVE  LastInv'
<1> PICK l : l = LatestOf(Logged \ OpenQueued)
  OBVIOUS
<1> PICK m : m = LatestOf(Logged \ OpenQueued)'
  OBVIOUS
<1> PICK s : s = status'
  OBVIOUS
<1>1. /\ m = l /\ Logged' = Logged /\ Newest' = Newest /\ OpenQueued' = OpenQueued
      /\ FinishedAs(l, s) <=> FinishedAs(l, s)'
  BY RestSame
<1>2. \A r \in OpenQueued' : entry' \in Objs /\ obj'[entry'].run = r
  BY <1>1 DEF LastInv
<1>3. status' \in Terminal => FinishedAs(LatestOf(Logged \ OpenQueued), status)'
  <2> SUFFICES ASSUME s \in Terminal
               PROVE  FinishedAs(LatestOf(Logged \ OpenQueued), status)'
    OBVIOUS
  <2>1. FinishedAs(l, s)
    BY DEF LastInv
  <2>2. FinishedAs(m, s)'
    BY <1>1, <2>1
  <2> QED
    BY <2>2 DEF FinishedAs
<1>4. ASSUME NEW q \in Objs PROVE Holding(q)' /\ obj'[q].pc # "undo"
  <2>1. Holding(q) /\ obj[q].pc # "undo"
    BY DEF LastInv
  <2>2. Holding(q)'
    BY <1>1, <2>1 DEF Holding
  <2> QED
    BY <2>1, <2>2
<1>5. (\A q \in Objs : Holding(q) /\ obj[q].pc # "undo")'
  BY <1>4
<1> QED
  BY <1>2, <1>3, <1>5 DEF LastInv

\* No periodic scan has begun: neither scans nor monitors take part.
LEMMA LastStep ==
    ASSUME FirstRules, AskedInv, NoFaults', FirstGui', Next,
           budget'.ticks = budget.ticks
    PROVE  LastInv'
<1>0. /\ RangeInv /\ KeepInv /\ LifeInv /\ StoryInv /\ LastInv
  BY DEF FirstRules
<1>1. ASSUME NEW o \in Objs, Actor(o) PROVE LastInv'
  <2>1. StoryGoesOn(o)
    BY <1>0, <1>1, StoryStart, StorySetup, StoryGoroutine, StoryTerminal, StoryOther
    DEF Actor
  <2>2. Apart(o)
    BY <1>0, <1>1, LifeStart, LifeSetup, LifeGoroutine, LifeTerminal, LifeOther
    DEF Actor
  <2>3. Grown
    <3>1. LogSafe
      BY <1>0, LogSafeNext
    <3> QED
      BY <1>0, <3>1, Types, FinishedStays DEF Grown, RangeInv
  <2> QED
    BY <1>1, <2>1, <2>2, <2>3, LastActor DEF StoryGoesOn
<1>2. ASSUME NEW c \in Cancellers \cup Watchers,
             \/ c \in Cancellers /\ CancelFind(c)
             \/ c \in Objs /\ WatcherFires(c)
             \/ CancelRun(c)
      PROVE  LastInv'
  <2>1. Cancelled
    BY <1>0, <1>2, CancellerMoves DEF LifeInv
  <2>2. log' = log /\ entry' = entry /\ status' = status
    BY <1>2 DEF CancelFind, WatcherFires, CancelRun, CancelMark, CancelTerm,
       CancelKill, CancelDone, CancelFinish, diskVars
  <2>3. \A q \in Objs : /\ obj'[q].pc = obj[q].pc /\ obj'[q].run = obj[q].run
                        /\ obj'[q].kind = obj[q].kind
                        /\ obj[q].fin \in {"delete", "done"} => obj'[q].fin = obj[q].fin
    BY <2>1 DEF Cancelled
  <2> QED
    BY <1>0, <2>2, <2>3, LastFrame
<1>3. ~Recover /\ ~ScanBegin(TRUE)
  <2>1. rec.pc = "idle"
    BY DEF AskedInv
  <2>2. ~Recover
    BY <2>1 DEF Recover, StartupScan, ScanRead, ScanSkip, ScanSync, ScanAdopt,
       ScanStale, ScanFinish, ScanEdit, ScanEnd, ScanNext, RecAt
  <2>3. ASSUME ScanBegin(TRUE) PROVE FALSE
    <3>1. budget \in Budgets /\ budget' = [budget EXCEPT !.ticks = @ - 1]
      BY <1>0, <2>3 DEF ScanBegin, RangeInv, SideTypes
    <3>2. budget'.ticks = budget.ticks - 1 /\ budget.ticks \in Nat
      BY <3>1 DEF Budgets
    <3> QED
      BY <3>2
  <2> QED
    BY <2>2, <2>3
<1>4. \A r \in Runs : ~Monitor(r)
  BY <1>0 DEF LifeInv, NoneAdopted, Monitor, MonPoll, MonRelease, MonSync, MonExit,
     MonClaim, MonLose, MonAt
<1>5. ~Restart /\ ~Crash
  BY <1>0 DEF Restart, Crash, LifeInv, FirstGui
<1>6. CASE HandQueue \/ HandClear \/ Close
  <2>1. /\ obj' = obj /\ log' = log /\ entry' = entry
        /\ status' = status \/ status' \in {"queued", "none"}
    BY <1>6 DEF HandQueue, HandClear, Close, diskVars
  <2> QED
    BY <1>0, <2>1, LastFrame DEF Terminal
<1> QED
  BY <1>1, <1>2, <1>3, <1>4, <1>5, <1>6 DEF Next, Actor, Watchers

UnscannedLast == NoFaults /\ Unscanned => LastInv

LEMMA LastNext ==
    ASSUME RangeInv, KeepInv, WrittenInv, FirstInv, UnscannedInv, UnscannedStory,
           UnscannedLast, [Next]_vars
    PROVE  UnscannedLast'
<1> SUFFICES ASSUME NoFaults', Unscanned' PROVE LastInv'
  BY DEF UnscannedLast
<1>1. NoFaults /\ FaultsLeft
  BY FaultsNext DEF WrittenInv
<1>2. CASE Next
  <2>1. Unscanned /\ budget'.ticks = budget.ticks
    BY <1>2, GuiNext DEF FirstInv
  <2>2. FirstRules /\ AskedInv
    BY <1>1, <2>1 DEF FirstRules, WrittenInv, FirstInv, UnscannedInv, UnscannedStory,
       UnscannedLast, Unscanned
  <2>3. FirstGui'
    BY DEF Unscanned
  <2> QED
    BY <1>2, <2>1, <2>2, <2>3, LastStep
<1>3. CASE UNCHANGED vars
  <2>1. /\ obj' = obj /\ log' = log /\ entry' = entry /\ status' = status
        /\ budget' = budget /\ up' = up
    BY <1>3 DEF vars
  <2>2. LastInv
    BY <1>1, <2>1 DEF UnscannedLast, Unscanned, FirstGui
  <2> QED
    BY <2>1, <2>2, LastFrame
<1> QED
  BY <1>2, <1>3

LEMMA LastAlways == Spec => []UnscannedLast
<1>1. Init => UnscannedLast
  <2> SUFFICES ASSUME Init PROVE LastInv
    BY DEF UnscannedLast
  <2>1. log = <<>> /\ status = "none" /\ entry = 0
    BY DEF Init
  <2>2. \A o \in Objs : obj[o].pc = "unused" /\ o # 0
    BY DEF Init, Unused, Objs
  <2>3. OpenQueued = {}
    BY <2>1 DEF OpenQueued, Logged
  <2> QED
    BY <2>1, <2>2, <2>3 DEF LastInv, Holding, Terminal
<1>2. RangeInv /\ KeepInv /\ WrittenInv /\ FirstInv /\ UnscannedInv
        /\ UnscannedStory /\ UnscannedLast /\ [Next]_vars => UnscannedLast'
  BY LastNext
<1> QED
  BY <1>1, <1>2, OutcomesAlways, FirstAlways, UnscannedAlways, StoryAlways, PTL
  DEF Spec

-----------------------------------------------------------------------------
(* The theorems.                                                           *)

\* A run that is marked cancelled has somebody who will write its record,
\* through every death of the GUI and every write that fails: a goroutine of
\* CancelRun that has not finished, or the run's own worker (CancelRun,
\* finishCancelled, RunQueuedAgentSync).
THEOREM CancelledIsMinded ==
    Spec => [](\A o \in Objs : obj[o].cancelled /\ obj[o].fin = "free" =>
                  Waits(o) \/ (obj[o].kind = "queued" /\ obj[o].pc \in Going))
<1>1. KeepInv => \A o \in Objs : obj[o].cancelled /\ obj[o].fin = "free" =>
                    Waits(o) \/ (obj[o].kind = "queued" /\ obj[o].pc \in Going)
  BY DEF KeepInv, Duty
<1> QED
  BY <1>1, KeepAlways, PTL

\* As long as no write fails, an outcome that somebody is about to write into
\* the task, or that the task shows, is one that the history has recorded of
\* a run, through deaths of the GUI, adoption, monitors and periodic scans:
\* the record comes first and the status second (recordTerminal, markLost,
\* syncFinishedStatus, recoverOne).
THEOREM OutcomesRecorded == Spec => [](NoFaults => Written)
<1>1. WrittenInv => (NoFaults => Written)
  BY DEF WrittenInv
<1> QED
  BY <1>1, OutcomesAlways, PTL

\* As long as no write fails, a task that is running while a GUI is open has
\* somebody at work that will take it out of running: the goroutine of a run,
\* the writer of its record, the scan of Activate, or the monitor of an
\* adopted run (runGoroutine, recordTerminal, recoverStale,
\* monitorRecoveredRun).
THEOREM RunningIsMinded == Spec => [](NoFaults => Minded)
<1>1. MindedInv => (NoFaults => Minded)
  BY DEF MindedInv
<1> QED
  BY <1>1, OutcomesAlways, PTL

\* Once nothing of the GUI is at work on the task, it is not running; an
\* outcome that it shows is recorded in the history, and before the first
\* periodic scan of the first GUI it is that of the last run that does not
\* wait in the queue.  For every number of runs, objects, cancellers, deaths
\* and scans (recordTerminal, recoverOne, syncFinishedStatus).
THEOREM StatusStays == Spec => []StatusAgrees
<1>1. RangeInv /\ KeepInv /\ WrittenInv /\ MindedInv /\ UnscannedLast => StatusAgrees
  <2> SUFFICES ASSUME RangeInv, KeepInv, WrittenInv, MindedInv, UnscannedLast, NoFaults
               PROVE  /\ AtRest => status # "running"
                      /\ status \in Terminal =>
                           \E r \in IF Unscanned THEN {LatestOf(Logged \ OpenQueued)}
                                    ELSE Logged :
                              \E i \in FinishedOf(r) : log[i].st = status
    BY DEF StatusAgrees
  <2>1. AtRest => status # "running"
    BY AtRestSettled DEF MindedInv
  <2>2. \A r : FinishedAs(r, status) => \E i \in FinishedOf(r) : log[i].st = status
    BY DEF FinishedAs, FinishedOf
  <2>3. CASE status \in Terminal /\ Unscanned
    <3>1. FinishedAs(LatestOf(Logged \ OpenQueued), status)
      BY <2>3 DEF UnscannedLast, LastInv
    <3> QED
      BY <2>1, <2>2, <2>3, <3>1
  <2>4. CASE status \in Terminal /\ ~Unscanned
    <3>1. \E r \in Logged : FinishedAs(r, status)
      BY <2>4 DEF WrittenInv, Written, OutcomesIn
    <3> QED
      BY <2>1, <2>2, <2>4, <3>1
  <2> QED
    BY <2>1, <2>3, <2>4
<1> QED
  BY <1>1, OutcomesAlways, LastAlways, PTL

-----------------------------------------------------------------------------
(* What holds of the first GUI until a periodic scan begins, of the queue    *)
(* and of the records.                                                       *)

\* A run has one terminal record.
OneRecord == \A r \in Runs : \A i, j \in FinishedOf(r) : i = j

LEMMA RecordAppended ==
    ASSUME log \in Seq(Events), OneRecord, NEW e \in Events, log' = Append(log, e),
           e.kind = "finished" => ~Has(e.run, "finished")
    PROVE  OneRecord'
<1>1. /\ Len(log') = Len(log) + 1 /\ Len(log) \in Nat
      /\ DOMAIN log = 1..Len(log) /\ DOMAIN log' = 1..Len(log')
      /\ \A i \in 1..Len(log) : log'[i] = log[i]
      /\ log'[Len(log) + 1] = e
  BY LogFacts
<1> SUFFICES ASSUME NEW r \in Runs, NEW i \in FinishedOf(r)', NEW j \in FinishedOf(r)'
             PROVE  i = j
  BY DEF OneRecord
<1>2. /\ i \in 1..(Len(log) + 1) /\ log'[i].run = r /\ log'[i].kind = "finished"
      /\ j \in 1..(Len(log) + 1) /\ log'[j].run = r /\ log'[j].kind = "finished"
  BY <1>1 DEF FinishedOf
<1>3. \A k \in 1..Len(log) : log'[k].run = r /\ log'[k].kind = "finished" =>
         k \in FinishedOf(r) /\ Has(r, "finished")
  BY <1>1 DEF FinishedOf, Has
<1>4. CASE i \in 1..Len(log) /\ j \in 1..Len(log)
  BY <1>2, <1>3, <1>4 DEF OneRecord
<1>5. CASE i = Len(log) + 1 /\ j \in 1..Len(log)
  BY <1>1, <1>2, <1>3, <1>5
<1>6. CASE j = Len(log) + 1 /\ i \in 1..Len(log)
  BY <1>1, <1>2, <1>3, <1>6
<1> QED
  BY <1>1, <1>2, <1>4, <1>5, <1>6

LEMMA RecordStep ==
    ASSUME RangeInv, LifeInv, StoryInv, AskedInv, OneRecord, FirstGui', Next,
           budget'.ticks = budget.ticks
    PROVE  OneRecord'
<1>1. ASSUME log' = log PROVE OneRecord'
  BY <1>1 DEF OneRecord, FinishedOf
<1>2. ASSUME NEW o \in Objs, Actor(o) PROVE OneRecord'
  <2>1. StoryGoesOn(o) /\ log \in Seq(Events)
    BY <1>2, StoryStart, StorySetup, StoryGoroutine, StoryTerminal, StoryOther,
       StoryFacts DEF Actor
  <2>2. CASE log' # log
    <3>1. PICK e \in Events : log' = Append(log, e) /\ Told(e)
      BY <2>1, <2>2 DEF StoryGoesOn, LogTold
    <3>2. e.kind = "finished" => ~Has(e.run, "finished")
      BY <3>1 DEF Told
    <3> QED
      BY <2>1, <3>1, <3>2, RecordAppended
  <2> QED
    BY <1>1, <2>2
<1>3. ASSUME NEW c \in Cancellers \cup Watchers,
             \/ c \in Cancellers /\ CancelFind(c)
             \/ c \in Objs /\ WatcherFires(c)
             \/ CancelRun(c)
      PROVE  OneRecord'
  BY <1>1, <1>3, StoryCanceller
<1>4. ~Recover /\ ~ScanBegin(TRUE)
  <2>1. rec.pc = "idle"
    BY DEF AskedInv
  <2>2. ~Recover
    BY <2>1 DEF Recover, StartupScan, ScanRead, ScanSkip, ScanSync, ScanAdopt,
       ScanStale, ScanFinish, ScanEdit, ScanEnd, ScanNext, RecAt
  <2>3. ASSUME ScanBegin(TRUE) PROVE FALSE
    <3>1. budget \in Budgets /\ budget' = [budget EXCEPT !.ticks = @ - 1]
      BY <2>3 DEF ScanBegin, RangeInv, SideTypes
    <3>2. budget'.ticks = budget.ticks - 1 /\ budget.ticks \in Nat
      BY <3>1 DEF Budgets
    <3> QED
      BY <3>2
  <2> QED
    BY <2>2, <2>3
<1>5. \A r \in Runs : ~Monitor(r)
  BY DEF LifeInv, NoneAdopted, Monitor, MonPoll, MonRelease, MonSync, MonExit,
     MonClaim, MonLose, MonAt
<1>6. ~Restart /\ ~Crash
  BY DEF Restart, Crash, LifeInv, FirstGui
<1>7. CASE HandQueue \/ HandClear \/ Close
  BY <1>1, <1>7 DEF HandQueue, HandClear, Close, diskVars
<1> QED
  BY <1>2, <1>3, <1>4, <1>5, <1>6, <1>7 DEF Next, Actor, Watchers

\* In the first GUI and until a periodic scan begins a run gets one terminal
\* record, whatever cancels, starts again and fails: the goroutine, the
\* canceller and the queued worker never write two (recordTerminal's
\* finishOnce).  A cancellation is then never followed by another outcome;
\* it takes an adopted run or a scan to break CancelIsDurable.
THEOREM FirstRecordStays ==
    Spec => [](Unscanned => OneRecord /\ CancelIsDurable)
<1>1. Init => OneRecord
  BY DEF Init, OneRecord, FinishedOf
<1>2. RangeInv /\ FirstInv /\ UnscannedInv /\ UnscannedStory
        /\ (Unscanned => OneRecord) /\ [Next]_vars => (Unscanned' => OneRecord')
  <2> SUFFICES ASSUME RangeInv, FirstInv, UnscannedInv, UnscannedStory,
                      Unscanned => OneRecord, [Next]_vars, Unscanned'
               PROVE  OneRecord'
    OBVIOUS
  <2>1. CASE Next
    <3>1. Unscanned /\ budget'.ticks = budget.ticks /\ FirstGui'
      BY <2>1, GuiNext DEF FirstInv, Unscanned
    <3> QED
      BY <2>1, <3>1, RecordStep DEF FirstInv, UnscannedInv, UnscannedStory, Unscanned
  <2>2. CASE UNCHANGED vars
    BY <2>2 DEF vars, Unscanned, FirstGui, OneRecord, FinishedOf
  <2> QED
    BY <2>1, <2>2
<1>3. OneRecord => CancelIsDurable
  BY LogFacts DEF OneRecord, CancelIsDurable, FinishedOf
<1> QED
  BY <1>1, <1>2, <1>3, RangeAlways, FirstAlways, UnscannedAlways, StoryAlways, PTL
  DEF Spec

\* As long as no write fails, in the first GUI and until a periodic scan
\* begins: a run that waits in the history is that of the start that has the
\* task's entry, so a queue never holds two runs of a task nor one that
\* nobody will start (findQueuedRun), and no start is rolled back half way.
THEOREM FirstQueueHeld ==
    Spec => [](NoFaults /\ Unscanned =>
                  /\ \A r \in OpenQueued : entry \in Objs /\ obj[entry].run = r
                  /\ \A o \in Objs : obj[o].pc # "undo")
<1>1. UnscannedLast => (NoFaults /\ Unscanned =>
                  /\ \A r \in OpenQueued : entry \in Objs /\ obj[entry].run = r
                  /\ \A o \in Objs : obj[o].pc # "undo")
  BY DEF UnscannedLast, LastInv
<1> QED
  BY <1>1, LastAlways, PTL

\* In the first GUI and until a periodic scan begins every step, also one
\* whose write fails, is a step of RunHistory or leaves what ListRuns says of
\* each run alone, for every bound on crashes and scans.
THEOREM FirstHistorySteps ==
    Spec => [][Unscanned' => History!Next \/ UNCHANGED [r \in Runs |-> StageOf(r)]]_vars
<1>1. RangeInv /\ FirstInv /\ UnscannedInv /\ UnscannedStory /\ [Next]_vars =>
        [Unscanned' => History!Next \/ UNCHANGED [r \in Runs |-> StageOf(r)]]_vars
  <2> SUFFICES ASSUME RangeInv, FirstInv, UnscannedInv, UnscannedStory, [Next]_vars,
                      Unscanned'
               PROVE  History!Next \/ UNCHANGED [r \in Runs |-> StageOf(r)]
    OBVIOUS
  <2> QED
    BY UnscannedStoryNext
<1> QED
  BY <1>1, RangeAlways, FirstAlways, UnscannedAlways, StoryAlways, PTL DEF Spec

=============================================================================
