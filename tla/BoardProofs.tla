---------------------------- MODULE BoardProofs ----------------------------
(* Theorems about Board, for every value of its constants.                 *)
EXTENDS Board, FiniteSetTheorems, TLAPS

-----------------------------------------------------------------------------
(* Type correctness and the discipline of the lock.                        *)

LEMMA NothingState == Nothing \in ProcStates /\ Nothing.pc = "idle"
BY DEF Nothing, ProcStates, Statuses, Agents

\* The first point of a command is not under the lock.
LEMMA FirstWaits ==
    \A c \in Command : FirstPc(c.op) \in Waiting /\ Target(c) \in Statuses
BY DEF Command, FirstPc, Target, Waiting, Statuses, EditOps, CreateOps

\* The steps of p outside the lock leave lock and p's pc outside Holding.
LEMMA PcSplit == Waiting \cap Holding = {} /\ "idle" \notin Holding
BY DEF Waiting, Holding

LEMMA ExitType ==
    ASSUME TypeOK, NEW p \in Procs, Exit(p)
    PROVE  /\ proc' \in [Procs -> ProcStates]
           /\ proc'[p].pc = "idle"
           /\ \A q \in Procs : q # p => proc'[q] = proc[q]
BY NothingState DEF TypeOK, Exit

LEMMA GotoType ==
    ASSUME TypeOK, NEW p \in Procs, NEW pc \in Waiting \cup Holding,
           Goto(p, pc)
    PROVE  /\ proc' \in [Procs -> ProcStates]
           /\ proc'[p].pc = pc
           /\ \A f \in {"op", "task", "to", "from", "form"} :
                proc'[p][f] = proc[p][f]
           /\ \A q \in Procs : q # p => proc'[q] = proc[q]
BY DEF TypeOK, Goto, ProcStates

LEMMA HomesInStatuses == \A t : Homes(t) \subseteq Statuses
BY DEF Homes

LEMMA DocEdits ==
    ASSUME TypeOK, NEW t \in Tasks
    PROVE  /\ \A b \in BOOLEAN :
                /\ [doc EXCEPT ![t].ref = b] \in [Tasks -> Docs]
                /\ [doc EXCEPT ![t].failed = b] \in [Tasks -> Docs]
           /\ \A a \in Agents :
                /\ [doc EXCEPT ![t].agent = a] \in [Tasks -> Docs]
                /\ \A b \in BOOLEAN :
                     [doc EXCEPT ![t] = [@ EXCEPT !.failed = b, !.agent = a]]
                       \in [Tasks -> Docs]
<1>1. \A d \in Docs, a \in Agents, b \in BOOLEAN :
        /\ [d EXCEPT !.ref = b] \in Docs
        /\ [d EXCEPT !.failed = b] \in Docs
        /\ [d EXCEPT !.agent = a] \in Docs
        /\ [d EXCEPT !.failed = b, !.agent = a] \in Docs
  BY DEF Docs
<1>2. doc[t] \in Docs
  BY DEF TypeOK
<1>3. \A d \in Docs : [doc EXCEPT ![t] = d] \in [Tasks -> Docs]
  BY DEF TypeOK
<1>4. ASSUME NEW b \in BOOLEAN
      PROVE  [doc EXCEPT ![t].ref = b] \in [Tasks -> Docs]
  <2> DEFINE d == [doc[t] EXCEPT !.ref = b]
  <2>1. d \in Docs
    BY <1>1, <1>2 DEF Agents
  <2>2. [doc EXCEPT ![t].ref = b] = [doc EXCEPT ![t] = d]
    OBVIOUS
  <2> QED
    BY <1>3, <2>1, <2>2
<1>5. ASSUME NEW b \in BOOLEAN
      PROVE  [doc EXCEPT ![t].failed = b] \in [Tasks -> Docs]
  <2> DEFINE d == [doc[t] EXCEPT !.failed = b]
  <2>1. d \in Docs
    BY <1>1, <1>2 DEF Agents
  <2>2. [doc EXCEPT ![t].failed = b] = [doc EXCEPT ![t] = d]
    OBVIOUS
  <2> QED
    BY <1>3, <2>1, <2>2
<1>6. \A a \in Agents : [doc EXCEPT ![t].agent = a] \in [Tasks -> Docs]
  BY <1>1, <1>2 DEF TypeOK
<1>7. ASSUME NEW a \in Agents, NEW b \in BOOLEAN
      PROVE  [doc EXCEPT ![t] = [@ EXCEPT !.failed = b, !.agent = a]]
               \in [Tasks -> Docs]
  BY <1>1, <1>2, <1>3
<1> QED
  BY <1>4, <1>5, <1>6, <1>7

\* The process p takes another state.
LEMMA ProcEdit ==
    ASSUME TypeOK, NEW p \in Procs, NEW r \in ProcStates,
           proc' = [proc EXCEPT ![p] = r]
    PROVE  /\ proc' \in [Procs -> ProcStates]
           /\ proc'[p] = r
           /\ \A q \in Procs : q # p => proc'[q] = proc[q]
BY DEF TypeOK

\* A process enters or goes on in the section of a move.
LEMMA Located ==
    ASSUME NEW r \in ProcStates, NEW pc \in Waiting \cup Holding,
           NEW s \in Statuses, NEW f \in {"file", "folder"}, NEW a \in Agents,
           NEW i \in Tasks
    PROVE  /\ [r EXCEPT !.pc = pc, !.from = s, !.form = f] \in ProcStates
           /\ [r EXCEPT !.pc = pc, !.seen = a] \in ProcStates
           /\ [r EXCEPT !.pc = pc, !.from = s] \in ProcStates
           /\ [r EXCEPT !.from = s, !.pc = pc] \in ProcStates
           /\ [r EXCEPT !.task = i, !.from = s, !.pc = pc] \in ProcStates
BY DEF ProcStates

\* What a step of p may do to the processes and the lock.
LockKept(p) ==
    /\ proc' \in [Procs -> ProcStates]
    /\ \A q \in Procs : q # p => proc'[q] = proc[q]
    /\ lock' \in {lock, p, Nobody}
    /\ lock' # lock => lock \in {p, Nobody}
    /\ proc'[p].pc # "idle" => proc'[p].task \in Tasks
    /\ proc'[p].pc \in Holding <=> lock' = p

\* The conjuncts of TypeOK about everything else.
DataOK ==
    /\ disk \in SUBSET (Statuses \X Tasks \X Forms)
    /\ doc \in [Tasks -> Docs]
    /\ nextId \in Nat
    /\ listing \in SUBSET (Statuses \X Tasks)
    /\ writer \in [Tasks -> Statuses \cup {"root", "none"}]
    /\ interrupted \in BOOLEAN
    /\ issued \in Nat /\ crashes \in Nat /\ appends \in Nat

LEMMA LockType ==
    ASSUME TypeOK, NEW p \in Procs, LockKept(p), DataOK'
    PROVE  TypeOK'
<1>1. \A q \in Procs : proc'[q].pc \in Holding <=> lock' = q
  BY BoardAssumption DEF TypeOK, LockKept
<1>2. \A q \in Procs : proc'[q].pc # "idle" => proc'[q].task \in Tasks
  BY DEF TypeOK, LockKept
<1>3. lock' \in Procs \cup {Nobody}
  BY DEF TypeOK, LockKept
<1> QED
  BY <1>1, <1>2, <1>3 DEF TypeOK, DataOK, LockKept

\* A process whose pc is waiting is not the holder of the lock, and one in a
\* locked section is.
LEMMA Holder ==
    ASSUME TypeOK, NEW p \in Procs
    PROVE  /\ proc[p] \in ProcStates
           /\ proc[p].pc \in Waiting => lock # p /\ proc[p].task \in Tasks
           /\ proc[p].pc \in Holding => lock = p /\ proc[p].task \in Tasks
           /\ proc[p].pc = "idle" => lock # p
BY PcSplit DEF TypeOK, Waiting, Holding

LEMMA ExitKeeps ==
    ASSUME TypeOK, NEW p \in Procs, Exit(p), lock # p \/ lock' = Nobody,
           lock' \in {lock, Nobody}, lock' # lock => lock \in {p, Nobody}
    PROVE  LockKept(p)
BY ExitType, PcSplit, BoardAssumption DEF LockKept, TypeOK

\* Moving on within a section, or between sections without the lock.
LEMMA GotoKeeps ==
    ASSUME TypeOK, NEW p \in Procs, NEW pc \in Waiting \cup Holding,
           Goto(p, pc), proc[p].pc # "idle",
           \/ pc \in Holding /\ lock \in {p, Nobody} /\ lock' = p
           \/ pc \in Waiting /\ lock # p /\ lock' = lock
           \/ pc \in Waiting /\ lock = p /\ lock' = Nobody
    PROVE  LockKept(p)
<1>1. proc'[p]["task"] = proc[p]["task"]
  BY GotoType
<1>2. proc'[p].task = proc[p].task /\ proc[p].task \in Tasks
  BY <1>1 DEF TypeOK
<1> QED
  BY <1>2, GotoType, PcSplit, BoardAssumption DEF LockKept, TypeOK

LEMMA ListingType == ASSUME NEW d PROVE ListingOf(d) \subseteq Statuses \X Tasks
BY DEF ListingOf

LEMMA RegeneratedType ==
    ASSUME TypeOK, NEW d, Regenerated(d)
    PROVE  /\ listing' \in SUBSET (Statuses \X Tasks)
           /\ crashes' \in Nat /\ interrupted' \in BOOLEAN
<1>1. ListingOf(d) \subseteq Statuses \X Tasks
  BY ListingType
<1>2. CASE listing' = ListingOf(d) /\ interrupted' = FALSE /\ UNCHANGED crashes
  BY <1>1, <1>2 DEF TypeOK
<1>3. CASE /\ crashes' = crashes + 1
           /\ interrupted' = TRUE /\ UNCHANGED listing
  BY <1>3 DEF TypeOK
<1> QED
  BY <1>2, <1>3 DEF Regenerated

LEMMA DataKept ==
    ASSUME TypeOK, UNCHANGED <<boardVars, writer, interrupted, countVars>>
    PROVE  DataOK'
BY DEF TypeOK, DataOK, boardVars, countVars

-----------------------------------------------------------------------------
(* One lemma per group of actions.                                         *)

LEMMA MoveTypeOK ==
    ASSUME TypeOK, NEW p \in Procs, MoveStep(p)
    PROVE  TypeOK'
<1> DEFINE t == proc[p].task
<1> SUFFICES LockKept(p) /\ DataOK'
  BY LockType
<1> USE Holder
<1>1. CASE CheckPass(p)
  <2>1. DataOK'
    BY <1>1, DataKept DEF CheckPass
  <2>2. proc[p].pc \in Waiting
    BY <1>1 DEF CheckPass, Waiting
  <2>3. CASE Goto(p, "move")
    BY <1>1, <2>1, <2>2, <2>3, GotoKeeps DEF CheckPass, Waiting
  <2>4. CASE \E s \in Homes(t) :
               proc' = [proc EXCEPT ![p] =
                          [@ EXCEPT !.pc = "mark", !.from = s,
                                    !.form = FormIn(s, t)]]
    <3>1. PICK s \in Homes(t) :
               proc' = [proc EXCEPT ![p] =
                          [@ EXCEPT !.pc = "mark", !.from = s,
                                    !.form = FormIn(s, t)]]
      BY <2>4
    <3> DEFINE r == [proc[p] EXCEPT !.pc = "mark", !.from = s,
                                    !.form = FormIn(s, t)]
    <3>2. /\ s \in Statuses /\ FormIn(s, t) \in {"file", "folder"}
          /\ "mark" \in Waiting /\ "mark" \notin Holding
      BY HomesInStatuses DEF FormIn, Waiting, Holding
    <3>3. r \in ProcStates /\ r.pc = "mark" /\ r.task = t
      BY <3>2 DEF ProcStates
    <3>4. proc' = [proc EXCEPT ![p] = r]
      BY <3>1 DEF TypeOK
    <3> HIDE DEF r
    <3>5. /\ proc' \in [Procs -> ProcStates] /\ proc'[p] = r
          /\ \A q \in Procs : q # p => proc'[q] = proc[q]
      BY <3>3, <3>4, ProcEdit
    <3> QED
      BY <1>1, <2>1, <2>2, <3>2, <3>3, <3>5 DEF LockKept, CheckPass
  <2> QED
    BY <1>1, <2>3, <2>4 DEF CheckPass
<1>2. CASE CheckFail(p)
  <2>1. proc[p].pc \in Waiting
    BY <1>2 DEF CheckFail, Waiting
  <2> QED
    BY <1>2, <2>1, ExitKeeps, DataKept DEF CheckFail
<1>3. CASE Mark(p)
  <2>1. doc' \in [Tasks -> Docs]
    BY <1>3, DocEdits DEF Mark, TypeOK, Agents
  <2>2. DataOK'
    BY <1>3, <2>1 DEF Mark, TypeOK, DataOK, countVars
  <2>3. proc[p].pc \in Waiting /\ "move" \in Waiting
    BY <1>3 DEF Mark, Waiting
  <2> QED
    BY <1>3, <2>2, <2>3, GotoKeeps DEF Mark, Waiting
<1>4. CASE MarkRefuse(p)
  <2>1. proc[p].pc \in Waiting
    BY <1>4 DEF MarkRefuse, Waiting
  <2> QED
    BY <1>4, <2>1, ExitKeeps, DataKept DEF MarkRefuse
<1>5. CASE MoveAdmit(p)
  <2>1. PICK s \in Homes(t) :
             proc' = [proc EXCEPT ![p] =
                        [@ EXCEPT !.pc = "clean", !.from = s,
                                  !.form = FormIn(s, t)]]
    BY <1>5 DEF MoveAdmit
  <2> DEFINE r == [proc[p] EXCEPT !.pc = "clean", !.from = s,
                                  !.form = FormIn(s, t)]
  <2>2. /\ s \in Statuses /\ FormIn(s, t) \in {"file", "folder"}
        /\ "clean" \in Holding /\ proc[p].pc \in Waiting
    BY <1>5, HomesInStatuses DEF FormIn, Waiting, Holding, MoveAdmit
  <2>3. r \in ProcStates /\ r.pc = "clean" /\ r.task = t
    BY <2>2 DEF ProcStates
  <2>4. proc' = [proc EXCEPT ![p] = r]
    BY <2>1 DEF TypeOK
  <2> HIDE DEF r
  <2>5. /\ proc' \in [Procs -> ProcStates] /\ proc'[p] = r
        /\ \A q \in Procs : q # p => proc'[q] = proc[q]
    BY <2>3, <2>4, ProcEdit
  <2>6. LockKept(p)
    BY <1>5, <2>2, <2>3, <2>5 DEF LockKept, MoveAdmit
  <2> QED
    BY <1>5, <2>6, DataKept DEF MoveAdmit
<1>6. CASE MoveRefuse(p)
  <2>1. proc[p].pc \in Waiting
    BY <1>6 DEF MoveRefuse, Waiting
  <2> QED
    BY <1>6, <2>1, ExitKeeps, DataKept DEF MoveRefuse
<1>7. CASE MoveClean(p)
  <2>1. proc[p].pc \in Holding /\ "rename" \in Holding
    BY <1>7 DEF MoveClean, Holding
  <2>2. DataOK'
    BY <1>7 DEF MoveClean, TypeOK, DataOK, WithoutOrphan, countVars
  <2> QED
    BY <1>7, <2>1, <2>2, GotoKeeps DEF MoveClean, Holding
<1>8. CASE MoveRename(p)
  <2>1. proc[p].pc \in Holding /\ "log" \in Holding
    BY <1>8 DEF MoveRename, Holding
  <2>2. /\ proc[p].to \in Statuses /\ t \in Tasks /\ proc[p].form \in Forms
        /\ doc[t].agent \in Agents
    BY <2>1 DEF ProcStates, Forms, TypeOK, Docs
  <2>3. disk' \in SUBSET (Statuses \X Tasks \X Forms)
    BY <1>8, <2>2 DEF MoveRename, TypeOK
  <2>4. DataOK'
    BY <1>8, <2>3 DEF MoveRename, TypeOK, DataOK, countVars
  <2> DEFINE r == [proc[p] EXCEPT !.pc = "log", !.seen = doc[t].agent]
  <2>5. r \in ProcStates /\ r.pc = "log" /\ r.task = t
    BY <2>1, <2>2 DEF ProcStates
  <2>6. proc' = [proc EXCEPT ![p] = r]
    BY <1>8 DEF MoveRename, TypeOK
  <2> HIDE DEF r
  <2>7. /\ proc' \in [Procs -> ProcStates] /\ proc'[p] = r
        /\ \A q \in Procs : q # p => proc'[q] = proc[q]
    BY <2>5, <2>6, ProcEdit
  <2> QED
    BY <1>8, <2>1, <2>4, <2>5, <2>7 DEF MoveRename, LockKept
<1>9. CASE MoveRenameFail(p)
  <2>1. proc[p].pc \in Holding
    BY <1>9 DEF MoveRenameFail, Holding
  <2> QED
    BY <1>9, <2>1, ExitKeeps, DataKept DEF MoveRenameFail
<1>10. CASE MoveLog(p)
  <2>1. proc[p].pc \in Holding /\ proc[p].pc # "idle" /\ "settle" \in Waiting
    BY <1>10 DEF MoveLog, Holding, Waiting
  <2>2. DataOK'
    BY <1>10, RegeneratedType DEF MoveLog, TypeOK, DataOK
  <2>3. CASE Exit(p)
    BY <1>10, <2>1, <2>2, <2>3, ExitKeeps DEF MoveLog
  <2>4. CASE Goto(p, "settle")
    BY <1>10, <2>1, <2>2, <2>4, GotoKeeps DEF MoveLog
  <2> QED
    BY <1>10, <2>3, <2>4 DEF MoveLog
<1>11. CASE Settle(p)
  <2>1. proc[p].pc \in Waiting
    BY <1>11 DEF Settle, Waiting
  <2>2. doc' \in [Tasks -> Docs]
    <3>1. [doc EXCEPT ![t].agent = "none"] \in [Tasks -> Docs]
      BY <2>1, DocEdits DEF Agents
    <3> QED
      BY <1>11, <3>1 DEF Settle, TypeOK
  <2>3. DataOK'
    BY <1>11, <2>2 DEF Settle, TypeOK, DataOK, countVars
  <2> QED
    BY <1>11, <2>1, <2>3, ExitKeeps DEF Settle
<1> QED
  BY <1>1, <1>2, <1>3, <1>4, <1>5, <1>6, <1>7, <1>8, <1>9, <1>10, <1>11
  DEF MoveStep

LEMMA EditTypeOK ==
    ASSUME TypeOK, NEW p \in Procs, EditStep(p)
    PROVE  TypeOK'
<1> DEFINE t == proc[p].task
<1> SUFFICES LockKept(p) /\ DataOK'
  BY LockType
<1> USE Holder
<1>1. CASE Edit(p)
  <2>1. PICK s \in Homes(t) :
             proc' = [proc EXCEPT ![p] = [@ EXCEPT !.pc = "tidy", !.from = s]]
    BY <1>1 DEF Edit
  <2> DEFINE r == [proc[p] EXCEPT !.pc = "tidy", !.from = s]
  <2>2. s \in Statuses /\ "tidy" \in Holding /\ proc[p].pc \in Waiting
    BY <1>1, HomesInStatuses DEF Waiting, Holding, Edit
  <2>3. r \in ProcStates /\ r.pc = "tidy" /\ r.task = t
    BY <2>2 DEF ProcStates
  <2>4. proc' = [proc EXCEPT ![p] = r]
    BY <2>1 DEF TypeOK
  <2> HIDE DEF r
  <2>5. /\ proc' \in [Procs -> ProcStates] /\ proc'[p] = r
        /\ \A q \in Procs : q # p => proc'[q] = proc[q]
    BY <2>3, <2>4, ProcEdit
  <2>6. LockKept(p)
    BY <1>1, <2>2, <2>3, <2>5 DEF LockKept, Edit
  <2>7. EditedDoc(p) \in [Tasks -> Docs]
    BY <2>2, DocEdits DEF EditedDoc, Agents
  <2>8. DataOK'
    BY <1>1, <2>7 DEF Edit, TypeOK, DataOK, countVars
  <2> QED
    BY <2>6, <2>8
<1>2. CASE EditRefuse(p)
  <2>1. proc[p].pc \in Waiting
    BY <1>2 DEF EditRefuse, Waiting
  <2> QED
    BY <1>2, <2>1, ExitKeeps, DataKept DEF EditRefuse
<1>3. CASE AttachBegin(p)
  <2>1. PICK s \in Homes(t) :
             proc' = [proc EXCEPT ![p] =
                        [@ EXCEPT !.from = s,
                                  !.pc = IF FormIn(s, t) = "folder"
                                         THEN "tidy" ELSE "publish"]]
    BY <1>3 DEF AttachBegin
  <2> DEFINE pc == IF FormIn(s, t) = "folder" THEN "tidy" ELSE "publish"
             r == [proc[p] EXCEPT !.from = s, !.pc = pc]
  <2>2. /\ s \in Statuses /\ pc \in Holding /\ proc[p].pc \in Waiting
        /\ pc # "idle"
    BY <1>3, HomesInStatuses DEF Waiting, Holding, AttachBegin
  <2> HIDE DEF pc
  <2>3. r \in ProcStates /\ r.pc = pc /\ r.task = t
    BY <2>2 DEF ProcStates
  <2>4. proc' = [proc EXCEPT ![p] = r]
    BY <2>1 DEF TypeOK, pc
  <2> HIDE DEF r
  <2>5. /\ proc' \in [Procs -> ProcStates] /\ proc'[p] = r
        /\ \A q \in Procs : q # p => proc'[q] = proc[q]
    BY <2>3, <2>4, ProcEdit
  <2>6. LockKept(p)
    BY <1>3, <2>2, <2>3, <2>5 DEF LockKept, AttachBegin
  <2> QED
    BY <1>3, <2>6, DataKept DEF AttachBegin
<1>4. CASE AttachPublish(p)
  <2>1. proc[p].pc \in Holding /\ "unlink" \in Holding
    BY <1>4 DEF AttachPublish, Holding
  <2>2. disk' \in SUBSET (Statuses \X Tasks \X Forms)
    BY <1>4, <2>1 DEF AttachPublish, TypeOK, ProcStates, Forms
  <2>3. DataOK'
    BY <1>4, <2>2 DEF AttachPublish, TypeOK, DataOK, countVars
  <2> QED
    BY <1>4, <2>1, <2>3, GotoKeeps DEF AttachPublish
<1>5. CASE AttachUnlink(p)
  <2>1. proc[p].pc \in Holding /\ "tidy" \in Holding
    BY <1>5 DEF AttachUnlink, Holding
  <2>2. DataOK'
    BY <1>5 DEF AttachUnlink, TypeOK, DataOK, countVars
  <2> QED
    BY <1>5, <2>1, <2>2, GotoKeeps DEF AttachUnlink
<1>6. CASE Tidy(p)
  <2>1. proc[p].pc \in Holding
    BY <1>6 DEF Tidy, Holding
  <2>2. disk' \in SUBSET (Statuses \X Tasks \X Forms)
    BY <1>6 DEF Tidy, TypeOK, WithoutOrphan
  <2>3. /\ listing' \in SUBSET (Statuses \X Tasks)
        /\ crashes' \in Nat /\ interrupted' \in BOOLEAN
    BY <1>6, RegeneratedType DEF Tidy
  <2>4. DataOK'
    BY <1>6, <2>2, <2>3 DEF Tidy, TypeOK, DataOK
  <2> QED
    BY <1>6, <2>1, <2>4, ExitKeeps DEF Tidy
<1> QED
  BY <1>1, <1>2, <1>3, <1>4, <1>5, <1>6 DEF EditStep

LEMMA CreateTypeOK ==
    ASSUME TypeOK, NEW p \in Procs, CreateStep(p)
    PROVE  TypeOK'
<1> DEFINE t == proc[p].task
<1> SUFFICES LockKept(p) /\ DataOK'
  BY LockType
<1> USE Holder
<1>1. CASE CreateBegin(p)
  <2> DEFINE pc == IF proc[p].op = "createLegacy" THEN "write" ELSE "mkdir"
  <2>1. PICK i \in Tasks :
          /\ nextId' = i + 1
          /\ proc' = [proc EXCEPT ![p] =
                        [@ EXCEPT !.task = i, !.from = proc[p].to, !.pc = pc]]
    BY <1>1 DEF CreateBegin
  <2> DEFINE r == [proc[p] EXCEPT !.task = i, !.from = proc[p].to, !.pc = pc]
  <2>2. pc \in Holding /\ proc[p].pc \in Waiting /\ pc # "idle"
    BY <1>1 DEF Waiting, Holding, CreateBegin
  <2> HIDE DEF pc
  <2>3. r \in ProcStates /\ r.pc = pc /\ r.task = i
    BY <2>2 DEF ProcStates
  <2>4. proc' = [proc EXCEPT ![p] = r]
    BY <2>1 DEF TypeOK
  <2> HIDE DEF r
  <2>5. /\ proc' \in [Procs -> ProcStates] /\ proc'[p] = r
        /\ \A q \in Procs : q # p => proc'[q] = proc[q]
    BY <2>3, <2>4, ProcEdit
  <2>6. LockKept(p)
    BY <1>1, <2>2, <2>3, <2>5 DEF LockKept, CreateBegin
  <2>7. nextId' \in Nat
    BY <2>1 DEF Tasks
  <2>8. DataOK'
    BY <1>1, <2>7 DEF CreateBegin, TypeOK, DataOK, countVars
  <2> QED
    BY <2>6, <2>8
<1>2. CASE CreateOutOfIds(p)
  <2>1. proc[p].pc \in Waiting
    BY <1>2 DEF CreateOutOfIds, Waiting
  <2> QED
    BY <1>2, <2>1, ExitKeeps, DataKept DEF CreateOutOfIds
<1>3. CASE CreateMkdir(p)
  <2>1. proc[p].pc \in Holding /\ "write" \in Holding
    BY <1>3 DEF CreateMkdir, Holding
  <2>2. disk' \in SUBSET (Statuses \X Tasks \X Forms)
    BY <1>3, <2>1 DEF CreateMkdir, TypeOK, ProcStates, Forms
  <2>3. DataOK'
    BY <1>3, <2>2 DEF CreateMkdir, TypeOK, DataOK, countVars
  <2> QED
    BY <1>3, <2>1, <2>3, GotoKeeps DEF CreateMkdir
<1>4. CASE CreateWrite(p)
  <2>1. proc[p].pc \in Holding /\ "tidy" \in Holding
    BY <1>4 DEF CreateWrite, Holding
  <2>2. disk' \in SUBSET (Statuses \X Tasks \X Forms)
    BY <1>4, <2>1 DEF CreateWrite, TypeOK, ProcStates, Forms
  <2>3. FreshDoc \in Docs
    BY DEF FreshDoc, Docs, Agents
  <2>4. doc' \in [Tasks -> Docs]
    BY <1>4, <2>3 DEF CreateWrite, TypeOK
  <2>5. DataOK'
    BY <1>4, <2>2, <2>4 DEF CreateWrite, TypeOK, DataOK, countVars
  <2> QED
    BY <1>4, <2>1, <2>5, GotoKeeps DEF CreateWrite
<1> QED
  BY <1>1, <1>2, <1>3, <1>4 DEF CreateStep

LEMMA IssueTypeOK ==
    ASSUME TypeOK, NEW p \in Procs, NEW c \in Commands, Issue(p, c)
    PROVE  TypeOK'
<1> DEFINE r == [Nothing EXCEPT !.pc = FirstPc(c.op), !.op = c.op,
                                !.task = c.task, !.to = Target(c)]
<1>1. c \in Command
  BY BoardAssumption
<1>2. /\ FirstPc(c.op) \in Waiting /\ Target(c) \in Statuses
      /\ c.op \in Ops /\ c.task \in Tasks
  BY <1>1, FirstWaits DEF Command
<1>3. r \in ProcStates /\ r.pc = FirstPc(c.op) /\ r.task = c.task
  BY <1>2, NothingState DEF ProcStates
<1>4. proc' = [proc EXCEPT ![p] = r]
  BY DEF Issue
<1> HIDE DEF r
<1>5. /\ proc' \in [Procs -> ProcStates] /\ proc'[p] = r
      /\ \A q \in Procs : q # p => proc'[q] = proc[q]
  BY <1>3, <1>4, ProcEdit
<1>6. LockKept(p)
  BY <1>2, <1>3, <1>5, Holder, PcSplit DEF LockKept, Issue
<1>7. DataOK'
  BY DEF Issue, TypeOK, DataOK, boardVars
<1> QED
  BY <1>6, <1>7, LockType

LEMMA CrashTypeOK ==
    ASSUME TypeOK, NEW p \in Procs, Crash(p)
    PROVE  TypeOK'
<1>1. LockKept(p)
  BY ExitKeeps DEF Crash
<1>2. DataOK'
  BY DEF Crash, TypeOK, DataOK, boardVars
<1> QED
  BY <1>1, <1>2, LockType

LEMMA AppendTypeOK ==
    ASSUME TypeOK, NEW t \in Tasks, Append(t)
    PROVE  TypeOK'
<1>1. CASE AppendResolve(t)
  <2>1. {ArtifactPlace(t)} \cup ScanMisses(t) \subseteq Statuses \cup {"root"}
    BY DEF ArtifactPlace, ScanMisses
  <2> QED
    BY <1>1, <2>1 DEF AppendResolve, TypeOK, boardVars
<1>2. CASE AppendWrite(t)
  <2>1. writer[t] \in Statuses \cup {"root"}
    BY <1>2 DEF AppendWrite, TypeOK
  <2>2. disk' \in SUBSET (Statuses \X Tasks \X Forms)
    BY <1>2, <2>1 DEF AppendWrite, TypeOK, Forms
  <2>3. writer' \in [Tasks -> Statuses \cup {"root", "none"}]
    BY <1>2 DEF AppendWrite, TypeOK
  <2> QED
    BY <1>2, <2>2, <2>3 DEF AppendWrite, TypeOK, countVars
<1>3. CASE AppendFail(t)
  BY <1>3 DEF AppendFail, TypeOK, boardVars, countVars
<1> QED
  BY <1>1, <1>2, <1>3 DEF Append

LEMMA InitTypeOK == Init => TypeOK
<1> SUFFICES ASSUME Init PROVE TypeOK
  OBVIOUS
<1> USE BoardAssumption
<1>1. 1..Seeded \subseteq Tasks
  BY DEF Tasks
<1>2. disk \in SUBSET (Statuses \X Tasks \X Forms)
  <2>1. PICK place \in [1..Seeded -> StartStatuses \X StartForms] :
             disk = {<<place[t][1], t, place[t][2]>> : t \in 1..Seeded}
    BY DEF Init
  <2>2. \A t \in 1..Seeded : place[t][1] \in Statuses /\ place[t][2] \in Forms
    BY DEF Forms
  <2> QED
    BY <1>1, <2>1, <2>2
<1>3. doc \in [Tasks -> Docs]
  <2>1. FreshDoc \in Docs
    BY DEF FreshDoc, Docs, Agents
  <2> QED
    BY <1>1, <2>1 DEF Init
<1>4. nextId \in Nat
  BY DEF Init
<1>5. listing \in SUBSET (Statuses \X Tasks)
  BY ListingType DEF Init
<1>6. proc \in [Procs -> ProcStates]
  BY NothingState DEF Init
<1>7. \A p \in Procs : proc[p].pc = "idle"
  BY NothingState DEF Init
<1>8. lock = Nobody /\ lock \notin Procs
  BY DEF Init
<1>9. writer \in [Tasks -> Statuses \cup {"root", "none"}]
  BY DEF Init
<1> QED
  BY <1>2, <1>3, <1>4, <1>5, <1>6, <1>7, <1>8, <1>9, PcSplit
  DEF Init, TypeOK

LEMMA NextTypeOK == TypeOK /\ [Next]_vars => TypeOK'
<1> SUFFICES ASSUME TypeOK, [Next]_vars PROVE TypeOK'
  OBVIOUS
<1>1. CASE \E p \in Procs, c \in Commands : Issue(p, c)
  BY <1>1, IssueTypeOK
<1>2. CASE \E p \in Procs : Step(p)
  BY <1>2, MoveTypeOK, EditTypeOK, CreateTypeOK DEF Step
<1>3. CASE \E p \in Procs : Crash(p)
  BY <1>3, CrashTypeOK
<1>4. CASE \E t \in Tasks : Append(t)
  BY <1>4, AppendTypeOK
<1>5. CASE UNCHANGED vars
  BY <1>5 DEF vars, boardVars, countVars, TypeOK
<1> QED
  BY <1>1, <1>2, <1>3, <1>4, <1>5 DEF Next

\* Every variable stays in its range, and the lock is held exactly by the
\* process that is in a locked section, through refusals, failed renames and
\* crashes, for any number of processes, tasks and commands.
THEOREM BoardTypes == Spec => []TypeOK
BY InitTypeOK, NextTypeOK, PTL DEF Spec

-----------------------------------------------------------------------------
(* One home.  The invariant says what each locked section has established  *)
(* about the directory; only the holder of the lock changes markdown, so   *)
(* the others' sections cannot disturb it.                                 *)

SingleHome ==
    \A t \in Tasks, s, r \in Statuses :
        HasMarkdown(s, t) /\ HasMarkdown(r, t) => s = r

\* What p found or made when it entered the point where it is.
Stage(p) ==
    LET t    == proc[p].task
        from == proc[p].from
        form == proc[p].form
    IN  /\ proc[p].pc = "clean" =>
             <<from, t, form>> \in disk /\ form = FormIn(from, t)
        /\ proc[p].pc = "rename" =>
             /\ <<from, t, form>> \in disk
             /\ \A f \in {"file", "folder"} : <<from, t, f>> \in disk => f = form
        /\ proc[p].pc = "publish" => <<from, t, "file">> \in disk
        /\ proc[p].pc = "unlink"  => <<from, t, "folder">> \in disk
        /\ proc[p].pc \in {"mkdir", "write"} =>
             \A s \in Statuses : ~HasMarkdown(s, t)

HomeInv == TypeOK /\ SingleHome /\ \A p \in Procs : Stage(p)

\* How a step changes where tasks are: not at all, or one task lands in one
\* status.
KeepsHomes(t) == \A s \in Statuses : HasMarkdown(s, t)' <=> HasMarkdown(s, t)
Lands(t)      == \E s \in Statuses :
                    \A r \in Statuses : HasMarkdown(r, t)' <=> r = s

Effect ==
    \/ \A t \in Tasks : KeepsHomes(t)
    \/ \E t \in Tasks : Lands(t) /\ \A u \in Tasks \ {t} : KeepsHomes(u)

\* A file or folder is neither added nor removed.
Undisturbed ==
    \A s \in Statuses, t \in Tasks, f \in {"file", "folder"} :
        <<s, t, f>> \in disk' <=> <<s, t, f>> \in disk

LEMMA UndisturbedEffect == Undisturbed => Effect
BY DEF Undisturbed, Effect, KeepsHomes, HasMarkdown

LEMMA EffectSingle == SingleHome /\ Effect => SingleHome'
<1> SUFFICES ASSUME SingleHome, Effect,
                    NEW t \in Tasks, NEW s \in Statuses, NEW r \in Statuses,
                    HasMarkdown(s, t)', HasMarkdown(r, t)'
             PROVE  s = r
  BY DEF SingleHome
<1>1. CASE KeepsHomes(t)
  BY <1>1 DEF KeepsHomes, SingleHome
<1>2. CASE Lands(t)
  BY <1>2 DEF Lands
<1> QED
  BY <1>1, <1>2 DEF Effect

\* A section of q stays as it was when the step is not its own and leaves
\* the markdown alone.
LEMMA StageFrame ==
    ASSUME TypeOK, NEW q \in Procs, Stage(q), proc'[q] = proc[q], Undisturbed
    PROVE  Stage(q)'
<1>1. proc[q] \in ProcStates
  BY DEF TypeOK
<1>2. CASE proc[q].pc = "idle"
  BY <1>2 DEF Stage
<1>3. CASE proc[q].pc # "idle"
  <2>1. /\ proc[q].task \in Tasks /\ proc[q].from \in Statuses
        /\ proc[q].form \in {"file", "folder"}
    BY <1>1, <1>3 DEF TypeOK, ProcStates
  <2>2. \A s \in Statuses : HasMarkdown(s, proc[q].task)'
                              <=> HasMarkdown(s, proc[q].task)
    BY <2>1 DEF Undisturbed, HasMarkdown
  <2>3. \A f \in {"file", "folder"} :
          <<proc[q].from, proc[q].task, f>> \in disk'
            <=> <<proc[q].from, proc[q].task, f>> \in disk
    BY <2>1 DEF Undisturbed
  <2>4. FormIn(proc[q].from, proc[q].task)'
          = FormIn(proc[q].from, proc[q].task)
    BY <2>3 DEF FormIn
  <2> QED
    BY <2>1, <2>2, <2>3, <2>4 DEF Stage
<1> QED
  BY <1>2, <1>3

LEMMA StepFrame ==
    ASSUME TypeOK, NEW p \in Procs, Step(p), NEW q \in Procs, q # p
    PROVE  proc'[q] = proc[q]
<1> USE DEF TypeOK, Goto, Exit
<1>1. CASE MoveStep(p)
  BY <1>1 DEF MoveStep, CheckPass, CheckFail, Mark, MarkRefuse, MoveAdmit,
              MoveRefuse, MoveClean, MoveRename, MoveRenameFail, MoveLog,
              Settle
<1>2. CASE EditStep(p)
  BY <1>2 DEF EditStep, Edit, EditRefuse, AttachBegin, AttachPublish,
              AttachUnlink, Tidy
<1>3. CASE CreateStep(p)
  BY <1>3 DEF CreateStep, CreateBegin, CreateOutOfIds, CreateMkdir,
              CreateWrite
<1> QED
  BY <1>1, <1>2, <1>3 DEF Step

\* A home of t as a command finds it: an entry in its canonical form.
LEMMA FoundHome ==
    ASSUME TypeOK, NEW t, NEW s \in Homes(t)
    PROVE  /\ s \in Statuses /\ t \in Tasks
           /\ <<s, t, FormIn(s, t)>> \in disk
BY DEF TypeOK, Homes, HasMarkdown, FormIn

\* The conclusion of the next three lemmas.
OwnStep(p) == Effect /\ Stage(p)' /\ (Undisturbed \/ lock = p)

LEMMA QuietStep ==
    ASSUME disk' = disk, NEW p \in Procs,
           proc'[p].pc \notin {"clean", "rename", "publish", "unlink",
                               "mkdir", "write"}
    PROVE  OwnStep(p)
<1>1. Undisturbed
  BY DEF Undisturbed
<1>2. Stage(p)'
  BY DEF Stage
<1> QED
  BY <1>1, <1>2, UndisturbedEffect DEF OwnStep

LEMMA MoveHome ==
    ASSUME HomeInv, NEW p \in Procs, MoveStep(p)
    PROVE  OwnStep(p)
<1> DEFINE t == proc[p].task
           from == proc[p].from
           form == proc[p].form
<1>0. TypeOK /\ SingleHome /\ Stage(p) /\ proc[p] \in ProcStates
  BY DEF HomeInv, TypeOK
<1>1. CASE \/ CheckPass(p) \/ CheckFail(p) \/ Mark(p) \/ MarkRefuse(p)
           \/ MoveRefuse(p) \/ MoveRenameFail(p) \/ MoveLog(p) \/ Settle(p)
  <2>1. disk' = disk
    BY <1>1 DEF CheckPass, CheckFail, Mark, MarkRefuse, MoveRefuse,
                MoveRenameFail, MoveLog, Settle, boardVars
  <2>2. CASE CheckPass(p)
    <3>1. \/ Goto(p, "move")
          \/ \E s, f : proc' = [proc EXCEPT ![p] =
                         [@ EXCEPT !.pc = "mark", !.from = s, !.form = f]]
      BY <2>2 DEF CheckPass
    <3>2. CASE Goto(p, "move")
      <4>1. proc'[p].pc = "move"
        BY <1>0, <3>2 DEF Goto, TypeOK, ProcStates
      <4> QED
        BY <2>1, <4>1, QuietStep
    <3>3. CASE \E s, f : proc' = [proc EXCEPT ![p] =
                           [@ EXCEPT !.pc = "mark", !.from = s, !.form = f]]
      <4>1. proc'[p].pc = "mark"
        BY <1>0, <3>3 DEF TypeOK, ProcStates
      <4> QED
        BY <2>1, <4>1, QuietStep
    <3> QED
      BY <3>1, <3>2, <3>3
  <2>3. CASE Goto(p, "move") \/ Goto(p, "settle")
    <3>1. proc'[p].pc \in {"move", "settle"}
      BY <1>0, <2>3 DEF Goto, TypeOK, ProcStates
    <3> QED
      BY <2>1, <3>1, QuietStep
  <2>4. CASE Exit(p)
    <3>1. proc'[p].pc = "idle"
      BY <1>0, <2>4, ExitType
    <3> QED
      BY <2>1, <3>1, QuietStep
  <2>5. CASE Mark(p)
    BY <2>3, <2>5 DEF Mark
  <2>6. CASE MoveLog(p)
    BY <2>3, <2>4, <2>6 DEF MoveLog
  <2>7. CASE \/ CheckFail(p) \/ MarkRefuse(p) \/ MoveRefuse(p)
             \/ MoveRenameFail(p) \/ Settle(p)
    BY <2>4, <2>7
    DEF CheckFail, MarkRefuse, MoveRefuse, MoveRenameFail, Settle
  <2> QED
    BY <1>1, <2>2, <2>5, <2>6, <2>7
<1>2. CASE MoveAdmit(p)
  <2>1. PICK s \in Homes(t) :
             proc' = [proc EXCEPT ![p] =
                        [@ EXCEPT !.pc = "clean", !.from = s,
                                  !.form = FormIn(s, t)]]
    BY <1>2 DEF MoveAdmit
  <2>2. /\ proc'[p].pc = "clean" /\ proc'[p].task = t
        /\ proc'[p].from = s /\ proc'[p].form = FormIn(s, t)
    BY <1>0, <2>1 DEF TypeOK, ProcStates
  <2>3. disk' = disk /\ FormIn(s, t)' = FormIn(s, t)
    BY <1>2 DEF MoveAdmit, boardVars, FormIn
  <2>4. Undisturbed
    BY <2>3 DEF Undisturbed
  <2>5. FormIn(proc[p].from, proc[p].task)' = FormIn(s, t)
    BY <2>2, <2>3 DEF FormIn
  <2>6. Stage(p)'
    BY <1>0, <2>2, <2>3, <2>5, FoundHome DEF Stage
  <2> QED
    BY <2>4, <2>6, UndisturbedEffect DEF OwnStep
<1>3. CASE MoveClean(p)
  <2>1. /\ proc[p].pc = "clean" /\ lock = p /\ t \in Tasks
        /\ from \in Statuses /\ form \in {"file", "folder"}
    BY <1>0, <1>3, Holder DEF MoveClean, Holding, ProcStates
  <2>2. <<from, t, form>> \in disk /\ form = FormIn(from, t)
    BY <1>0, <2>1 DEF Stage
  <2>3. disk' = WithoutOrphan(from, t)
    BY <1>3 DEF MoveClean
  <2>4. \A u \in Tasks : KeepsHomes(u)
    BY <2>3 DEF WithoutOrphan, KeepsHomes, HasMarkdown
  <2>5. /\ <<from, t, form>> \in disk'
        /\ \A f \in {"file", "folder"} : <<from, t, f>> \in disk' => f = form
    BY <2>2, <2>3 DEF FormIn, WithoutOrphan
  <2>6. /\ proc'[p].pc = "rename" /\ proc'[p].task = t
        /\ proc'[p].from = from /\ proc'[p].form = form
    BY <1>0, <1>3 DEF MoveClean, Goto, TypeOK, ProcStates
  <2>7. Stage(p)'
    BY <2>5, <2>6 DEF Stage
  <2> QED
    BY <2>1, <2>4, <2>7 DEF OwnStep, Effect
<1>4. CASE MoveRename(p)
  <2> DEFINE to == proc[p].to
  <2>1. /\ proc[p].pc = "rename" /\ lock = p /\ t \in Tasks
        /\ from \in Statuses /\ to \in Statuses
        /\ form \in {"file", "folder"}
    BY <1>0, <1>4, Holder DEF MoveRename, Holding, ProcStates
  <2>2. /\ <<from, t, form>> \in disk
        /\ \A f \in {"file", "folder"} : <<from, t, f>> \in disk => f = form
    BY <1>0, <2>1 DEF Stage
  <2>3. disk' = (disk \ {<<from, t, form>>}) \cup {<<to, t, form>>}
    BY <1>4 DEF MoveRename
  <2>4. \A r \in Statuses : HasMarkdown(r, t) => r = from
    BY <1>0, <2>1, <2>2 DEF SingleHome, HasMarkdown
  <2> PICK u \in Tasks : u = t
    BY <2>1
  <2> PICK g \in Statuses : g = to
    BY <2>1
  <2>5. \A r \in Statuses : HasMarkdown(r, u)' <=> r = g
    BY <2>1, <2>2, <2>3, <2>4 DEF HasMarkdown
  <2>6. \A v \in Tasks \ {u} : KeepsHomes(v)
    BY <2>3 DEF KeepsHomes, HasMarkdown
  <2>7. Effect
    BY <2>5, <2>6 DEF Effect, Lands
  <2>8. proc'[p].pc = "log"
    BY <1>0, <1>4 DEF MoveRename, TypeOK, ProcStates
  <2> QED
    BY <2>1, <2>7, <2>8 DEF OwnStep, Stage
<1> QED
  BY <1>1, <1>2, <1>3, <1>4 DEF MoveStep

LEMMA EditHome ==
    ASSUME HomeInv, NEW p \in Procs, EditStep(p)
    PROVE  OwnStep(p)
<1> DEFINE t == proc[p].task
           from == proc[p].from
<1>0. TypeOK /\ SingleHome /\ Stage(p) /\ proc[p] \in ProcStates
  BY DEF HomeInv, TypeOK
<1>1. CASE Edit(p) \/ EditRefuse(p)
  <2>1. disk' = disk
    BY <1>1 DEF Edit, EditRefuse, boardVars
  <2>2. proc'[p].pc \in {"idle", "tidy"}
    BY <1>0, <1>1, NothingState, ZenonT(60)
    DEF Edit, EditRefuse, Exit, TypeOK, ProcStates
  <2> QED
    BY <2>1, <2>2, QuietStep
<1>2. CASE AttachBegin(p)
  <2>1. PICK s \in Homes(t) :
             proc' = [proc EXCEPT ![p] =
                        [@ EXCEPT !.from = s,
                                  !.pc = IF FormIn(s, t) = "folder"
                                         THEN "tidy" ELSE "publish"]]
    BY <1>2 DEF AttachBegin
  <2>2. /\ proc'[p].task = t /\ proc'[p].from = s
        /\ proc'[p].pc = IF FormIn(s, t) = "folder" THEN "tidy"
                                                    ELSE "publish"
    BY <1>0, <2>1 DEF TypeOK, ProcStates
  <2>3. disk' = disk
    BY <1>2 DEF AttachBegin, boardVars
  <2>4. FormIn(s, t) # "folder" => <<s, t, "file">> \in disk
    BY <1>0, FoundHome DEF FormIn
  <2>5. Undisturbed
    BY <2>3 DEF Undisturbed
  <2>6. Stage(p)'
    BY <2>2, <2>3, <2>4 DEF Stage
  <2> QED
    BY <2>5, <2>6, UndisturbedEffect DEF OwnStep
<1>3. CASE AttachPublish(p)
  <2>1. /\ proc[p].pc = "publish" /\ lock = p
        /\ disk' = disk \cup {<<from, t, "folder">>}
    BY <1>0, <1>3, Holder DEF AttachPublish, Holding
  <2>2. <<from, t, "file">> \in disk
    BY <1>0, <2>1 DEF Stage
  <2>3. \A u \in Tasks : KeepsHomes(u)
    BY <2>1, <2>2 DEF KeepsHomes, HasMarkdown
  <2>4. /\ proc'[p].pc = "unlink" /\ proc'[p].task = t
        /\ proc'[p].from = from
    BY <1>0, <1>3 DEF AttachPublish, Goto, TypeOK, ProcStates
  <2>5. Stage(p)'
    BY <2>1, <2>4 DEF Stage
  <2> QED
    BY <2>1, <2>3, <2>5 DEF OwnStep, Effect
<1>4. CASE AttachUnlink(p)
  <2>1. /\ proc[p].pc = "unlink" /\ lock = p
        /\ disk' = disk \ {<<from, t, "file">>}
    BY <1>0, <1>4, Holder DEF AttachUnlink, Holding
  <2>2. <<from, t, "folder">> \in disk
    BY <1>0, <2>1 DEF Stage
  <2>3. \A u \in Tasks : KeepsHomes(u)
    BY <2>1, <2>2 DEF KeepsHomes, HasMarkdown
  <2>4. proc'[p].pc = "tidy"
    BY <1>0, <1>4 DEF AttachUnlink, Goto, TypeOK, ProcStates
  <2> QED
    BY <2>1, <2>3, <2>4 DEF OwnStep, Effect, Stage
<1>5. CASE Tidy(p)
  <2>1. lock = p /\ disk' = WithoutOrphan(from, t)
    BY <1>0, <1>5, Holder DEF Tidy, Holding
  <2>2. \A u \in Tasks : KeepsHomes(u)
    BY <2>1 DEF WithoutOrphan, KeepsHomes, HasMarkdown
  <2>3. proc'[p].pc = "idle"
    BY <1>0, <1>5, ExitType DEF Tidy
  <2> QED
    BY <2>1, <2>2, <2>3 DEF OwnStep, Effect, Stage
<1> QED
  BY <1>1, <1>2, <1>3, <1>4, <1>5 DEF EditStep

LEMMA CreateHome ==
    ASSUME HomeInv, NEW p \in Procs, CreateStep(p)
    PROVE  OwnStep(p)
<1> DEFINE t == proc[p].task
           to == proc[p].to
<1>0. TypeOK /\ SingleHome /\ Stage(p) /\ proc[p] \in ProcStates
  BY DEF HomeInv, TypeOK
<1>1. CASE CreateBegin(p)
  <2>1. PICK i \in Tasks :
          /\ Allocated(i)
          /\ proc' = [proc EXCEPT ![p] =
                        [@ EXCEPT !.task = i, !.from = proc[p].to,
                                  !.pc = IF proc[p].op = "createLegacy"
                                         THEN "write" ELSE "mkdir"]]
    BY <1>1 DEF CreateBegin
  <2>2. \A s \in Statuses : ~HasMarkdown(s, i)
    BY <2>1 DEF Allocated, FreeIds, Taken, HasMarkdown, Forms
  <2>3. proc'[p].task = i /\ proc'[p].pc \in {"write", "mkdir"}
    BY <1>0, <2>1 DEF TypeOK, ProcStates
  <2>4. disk' = disk
    BY <1>1 DEF CreateBegin
  <2>5. Undisturbed /\ \A s \in Statuses : ~HasMarkdown(s, i)'
    BY <2>2, <2>4 DEF Undisturbed, HasMarkdown
  <2>6. Stage(p)'
    BY <2>3, <2>5 DEF Stage, HasMarkdown
  <2> QED
    BY <2>5, <2>6, UndisturbedEffect DEF OwnStep
<1>2. CASE CreateOutOfIds(p)
  <2>1. disk' = disk /\ proc'[p].pc = "idle"
    BY <1>0, <1>2, ExitType DEF CreateOutOfIds, boardVars
  <2> QED
    BY <2>1, QuietStep
<1>3. CASE CreateMkdir(p)
  <2>1. /\ proc[p].pc = "mkdir" /\ lock = p
        /\ disk' = disk \cup {<<to, t, "ghost">>}
    BY <1>0, <1>3, Holder DEF CreateMkdir, Holding
  <2>2. Undisturbed
    BY <2>1 DEF Undisturbed
  <2>3. proc'[p].pc = "write" /\ proc'[p].task = t
    BY <1>0, <1>3 DEF CreateMkdir, Goto, TypeOK, ProcStates
  <2>4. \A s \in Statuses : ~HasMarkdown(s, t)
    BY <1>0, <2>1 DEF Stage
  <2>5. \A s \in Statuses : ~HasMarkdown(s, proc[p].task)'
    BY <2>1, <2>3, <2>4 DEF HasMarkdown
  <2>6. Stage(p)'
    BY <2>3, <2>5 DEF Stage
  <2> QED
    BY <2>2, <2>6, UndisturbedEffect DEF OwnStep
<1>4. CASE CreateWrite(p)
  <2> DEFINE form == IF proc[p].op = "createLegacy" THEN "file" ELSE "folder"
  <2>1. /\ proc[p].pc = "write" /\ lock = p /\ t \in Tasks /\ to \in Statuses
        /\ disk' = (disk \ {<<to, t, "ghost">>}) \cup {<<to, t, form>>}
    BY <1>0, <1>4, Holder DEF CreateWrite, Holding, ProcStates
  <2>2. \A s \in Statuses : ~HasMarkdown(s, t)
    BY <1>0, <2>1 DEF Stage
  <2>3. form \in {"file", "folder"}
    OBVIOUS
  <2> HIDE DEF form
  <2> PICK u \in Tasks : u = t
    BY <2>1
  <2> PICK g \in Statuses : g = to
    BY <2>1
  <2>4. \A r \in Statuses : HasMarkdown(r, u)' <=> r = g
    BY <2>1, <2>2, <2>3 DEF HasMarkdown
  <2>5. \A v \in Tasks \ {u} : KeepsHomes(v)
    BY <2>1 DEF KeepsHomes, HasMarkdown
  <2>6. Effect
    BY <2>4, <2>5 DEF Effect, Lands
  <2>7. proc'[p].pc = "tidy"
    BY <1>0, <1>4 DEF CreateWrite, Goto, TypeOK, ProcStates
  <2> QED
    BY <2>1, <2>6, <2>7 DEF OwnStep, Stage
<1> QED
  BY <1>1, <1>2, <1>3, <1>4 DEF CreateStep

LEMMA InitHomeInv == Init => HomeInv
<1> SUFFICES ASSUME Init PROVE HomeInv
  OBVIOUS
<1>1. SingleHome
  <2>1. PICK place \in [1..Seeded -> StartStatuses \X StartForms] :
             disk = {<<place[t][1], t, place[t][2]>> : t \in 1..Seeded}
    BY DEF Init
  <2>2. \A t \in Tasks, s \in Statuses :
          HasMarkdown(s, t) => s = place[t][1]
    BY <2>1 DEF HasMarkdown
  <2> QED
    BY <2>2 DEF SingleHome
<1>2. \A p \in Procs : proc[p].pc = "idle"
  BY NothingState DEF Init
<1> QED
  BY <1>1, <1>2, InitTypeOK DEF HomeInv, Stage

LEMMA StepHome ==
    ASSUME HomeInv, NEW p \in Procs, Step(p)
    PROVE  Effect /\ HomeInv'
<1>0. TypeOK /\ SingleHome /\ \A q \in Procs : Stage(q)
  BY DEF HomeInv
<1>1. OwnStep(p)
  BY MoveHome, EditHome, CreateHome DEF Step
<1>2. TypeOK'
  BY <1>0, MoveTypeOK, EditTypeOK, CreateTypeOK DEF Step
<1>3. ASSUME NEW q \in Procs, q # p
      PROVE  Stage(q)'
  <2>1. proc'[q] = proc[q]
    BY <1>0, <1>3, StepFrame
  <2>2. CASE Undisturbed
    BY <1>0, <2>1, <2>2, StageFrame
  <2>3. CASE lock = p
    <3>1. proc[q].pc \notin Holding
      BY <1>0, <1>3, <2>3 DEF TypeOK
    <3> QED
      BY <2>1, <3>1 DEF Stage, Holding
  <2> QED
    BY <1>1, <2>2, <2>3 DEF OwnStep
<1>4. \A q \in Procs : Stage(q)'
  BY <1>1, <1>3 DEF OwnStep
<1>5. SingleHome'
  BY <1>0, <1>1, EffectSingle DEF OwnStep
<1> QED
  BY <1>1, <1>2, <1>4, <1>5 DEF OwnStep, HomeInv

\* The steps that are not a command's.
LEMMA OtherHome ==
    ASSUME HomeInv,
           \/ \E p \in Procs, c \in Commands : Issue(p, c)
           \/ \E p \in Procs : Crash(p)
           \/ \E t \in Tasks : Append(t)
           \/ UNCHANGED vars
    PROVE  Effect /\ HomeInv'
<1>0. TypeOK /\ SingleHome /\ \A q \in Procs : Stage(q)
  BY DEF HomeInv
<1>1. TypeOK'
  BY <1>0, NextTypeOK DEF Next
<1>2. Undisturbed
  BY DEF Undisturbed, Issue, Crash, Append, AppendResolve, AppendWrite,
         AppendFail, vars, boardVars
<1>3. ASSUME NEW q \in Procs
      PROVE  Stage(q)'
  <2>1. CASE proc'[q] = proc[q]
    BY <1>0, <1>2, <2>1, StageFrame
  <2>2. CASE \E c \in Commands : Issue(q, c)
    <3>1. PICK c \in Commands : Issue(q, c)
      BY <2>2
    <3>2. FirstPc(c.op) \in Waiting
      BY FirstWaits, BoardAssumption
    <3>3. proc'[q].pc = FirstPc(c.op)
      BY <1>0, <3>1 DEF Issue, TypeOK, Nothing
    <3> QED
      BY <3>2, <3>3 DEF Stage, Waiting
  <2>3. CASE Crash(q)
    <3>1. proc'[q].pc = "idle"
      BY <1>0, <2>3, ExitType DEF Crash
    <3> QED
      BY <3>1 DEF Stage
  <2>4. CASE \E p \in Procs \ {q} : Crash(p) \/ \E c \in Commands : Issue(p, c)
    <3>1. proc'[q] = proc[q]
      BY <1>0, <2>4 DEF Crash, Exit, Issue, TypeOK
    <3> QED
      BY <2>1, <3>1
  <2>5. CASE (\E t \in Tasks : Append(t))
             \/ UNCHANGED vars
    BY <2>1, <2>5
    DEF Append, AppendResolve, AppendWrite, AppendFail, vars
  <2> QED
    BY <2>2, <2>3, <2>4, <2>5
<1>4. Effect
  BY <1>2, UndisturbedEffect
<1> QED
  BY <1>0, <1>1, <1>3, <1>4, EffectSingle DEF HomeInv

LEMMA NextHome == HomeInv /\ [Next]_vars => Effect /\ HomeInv'
BY StepHome, OtherHome DEF Next

LEMMA HomeAlways == Spec => []HomeInv
BY InitHomeInv, NextHome, PTL DEF Spec

\* No interleaving of commands, no crash between two file operations and no
\* late event of the GUI gives a task a second home.
THEOREM BoardOneHome == Spec => []OneHome
<1>1. HomeInv => OneHome
  <2> SUFFICES ASSUME HomeInv, NEW t \in Tasks
               PROVE  Cardinality(Homes(t)) <= 1
    BY DEF OneHome
  <2>1. CASE Homes(t) = {}
    BY <2>1, FS_EmptySet
  <2>2. CASE Homes(t) # {}
    <3>1. PICK s : s \in Homes(t)
      BY <2>2
    <3>2. Homes(t) = {s}
      BY <3>1 DEF HomeInv, SingleHome, Homes
    <3>3. Cardinality({s}) = 1
      BY FS_Singleton
    <3> QED
      BY <3>2, <3>3
  <2> QED
    BY <2>1, <2>2
<1> QED
  BY <1>1, HomeAlways, PTL

-----------------------------------------------------------------------------
(* The refinement.                                                         *)

LEMMA PlaceKept ==
    ASSUME NEW t \in Tasks, KeepsHomes(t)
    PROVE  Place(t)' = Place(t)
<1>1. Homes(t)' = Homes(t)
  BY DEF Homes, KeepsHomes
<1> QED
  BY <1>1 DEF Place

LEMMA PlaceLands ==
    ASSUME NEW t \in Tasks, Lands(t)
    PROVE  Place(t)' \in Statuses
<1>1. PICK s \in Statuses : \A r \in Statuses : HasMarkdown(r, t)' <=> r = s
  BY DEF Lands
<1>2. s \in Homes(t)'
  BY <1>1 DEF Homes
<1> QED
  BY <1>2 DEF Place, Homes

\* The board on disk implements TaskStore: a task is never lost, a new one
\* never takes the id of one that exists, and a task changes its status in
\* one step, alone.
THEOREM BoardImplementsStore == Spec => ImplementsStore
<1> DEFINE place == [t \in Tasks |-> Place(t)]
<1>1. Init => Store!Init
  BY DEF Store!Init, Place, Homes
<1>2. HomeInv /\ [Next]_vars => [Store!Next]_place
  <2> SUFFICES ASSUME HomeInv, [Next]_vars
               PROVE  Store!Next \/ place' = place
    OBVIOUS
  <2>1. Effect
    BY NextHome
  <2>2. CASE \A t \in Tasks : KeepsHomes(t)
    BY <2>2, PlaceKept
  <2>3. CASE \E t \in Tasks : Lands(t) /\ \A u \in Tasks \ {t} : KeepsHomes(u)
    <3>1. PICK t \in Tasks :
               Lands(t) /\ \A u \in Tasks \ {t} : KeepsHomes(u)
      BY <2>3
    <3>2. PICK s \in Statuses : s = Place(t)'
      BY <3>1, PlaceLands
    <3>3. \A u \in Tasks \ {t} : Place(u)' = Place(u)
      BY <3>1, PlaceKept
    <3>4. place' = [place EXCEPT ![t] = s]
      BY <3>2, <3>3
    <3> QED
      BY <3>4 DEF Store!Next, Store!Create, Store!Move
  <2> QED
    BY <2>1, <2>2, <2>3 DEF Effect
<1> QED
  BY <1>1, <1>2, HomeAlways, PTL DEF Spec, Store!Spec, ImplementsStore

=============================================================================
