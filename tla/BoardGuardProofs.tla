-------------------------- MODULE BoardGuardProofs --------------------------
(* What the lock of the board guards, for every value of the constants of  *)
(* Board: BOARD.md, the place a promotion needs, and the conditions a move *)
(* was admitted under, which still hold when it renames.                   *)
EXTENDS BoardProofs

-----------------------------------------------------------------------------
(* The holder of the lock is alone with the board.                         *)

\* The actions that keep p outside the lock.
Outside(p) == \/ CheckPass(p) \/ CheckFail(p) \/ Mark(p) \/ MarkRefuse(p)
              \/ MoveRefuse(p) \/ Settle(p) \/ EditRefuse(p)
              \/ CreateOutOfIds(p)

LEMMA StepCases ==
    ASSUME NEW p \in Procs, Step(p)
    PROVE  \/ Outside(p) \/ MoveAdmit(p) \/ MoveClean(p) \/ MoveRename(p)
           \/ MoveRenameFail(p) \/ MoveLog(p) \/ Edit(p) \/ AttachBegin(p)
           \/ AttachPublish(p) \/ AttachUnlink(p) \/ Tidy(p)
           \/ CreateBegin(p) \/ CreateMkdir(p) \/ CreateWrite(p)
BY DEF Step, MoveStep, EditStep, CreateStep, Outside

LEMMA OutsideKeeps ==
    ASSUME TypeOK, NEW p \in Procs, Outside(p)
    PROVE  /\ lock # p /\ lock' = lock
           /\ disk' = disk /\ listing' = listing /\ writer' = writer
           /\ interrupted' = interrupted
           /\ lock # Nobody => doc' = doc
           /\ proc[p].pc \in Waiting
<1>1. proc[p].pc \in Waiting
  BY DEF Outside, CheckPass, CheckFail, Mark, MarkRefuse, MoveRefuse, Settle,
         EditRefuse, CreateOutOfIds, Waiting
<1>2. lock # p
  BY <1>1, Holder
<1>3. /\ lock' = lock /\ disk' = disk /\ listing' = listing
      /\ writer' = writer /\ interrupted' = interrupted
  BY DEF Outside, CheckPass, CheckFail, Mark, MarkRefuse, MoveRefuse, Settle,
         EditRefuse, CreateOutOfIds, boardVars
<1>4. lock # Nobody => doc' = doc
  BY DEF Outside, CheckPass, CheckFail, Mark, MarkRefuse, MoveRefuse, Settle,
         EditRefuse, CreateOutOfIds, boardVars
<1> QED
  BY <1>1, <1>2, <1>3, <1>4

\* Where a step outside the lock leaves the process that takes it.
LEMMA OutsidePc ==
    ASSUME TypeOK, NEW p \in Procs, Outside(p)
    PROVE  proc'[p].pc \in {"idle", "move", "mark"}
<1>0. proc \in [Procs -> ProcStates]
  BY DEF TypeOK
<1>1. CASE CheckPass(p)
  <2>1. CASE Goto(p, "move")
    BY <1>0, <2>1 DEF Goto, ProcStates
  <2>2. CASE \E s, f : proc' = [proc EXCEPT ![p] =
                         [@ EXCEPT !.pc = "mark", !.from = s, !.form = f]]
    BY <1>0, <2>2 DEF ProcStates
  <2> QED
    BY <1>1, <2>1, <2>2 DEF CheckPass
<1>2. CASE Mark(p)
  BY <1>0, <1>2 DEF Mark, Goto, ProcStates
<1>3. CASE Exit(p)
  BY <1>3, ExitType
<1> QED
  BY <1>1, <1>2, <1>3
  DEF Outside, CheckFail, MarkRefuse, MoveRefuse, Settle, EditRefuse,
      CreateOutOfIds

\* While p holds the lock the others change neither the board nor the lock.
LEMMA OthersWait ==
    ASSUME TypeOK, NEW p \in Procs, NEW q \in Procs, q # p, lock = p, Step(q)
    PROVE  Outside(q) /\ disk' = disk /\ doc' = doc /\ listing' = listing
<1>1. lock # Nobody /\ proc[q].pc \notin Holding
  BY BoardAssumption DEF TypeOK
<1>2. Outside(q)
  BY <1>1, StepCases
  DEF MoveAdmit, MoveClean, MoveRename, MoveRenameFail, MoveLog, Edit,
      AttachBegin, AttachPublish, AttachUnlink, Tidy, CreateBegin,
      CreateMkdir, CreateWrite, Holding
<1> QED
  BY <1>1, <1>2, OutsideKeeps

\* What the steps that are no command's leave alone.
LEMMA OthersKeep ==
    ASSUME TypeOK,
           \/ \E p \in Procs, c \in Commands : Issue(p, c)
           \/ \E p \in Procs : Crash(p)
           \/ \E t \in Tasks : Append(t)
           \/ UNCHANGED vars
    PROVE  /\ doc' = doc /\ listing' = listing
           /\ Undisturbed
           /\ \A q \in Procs : proc'[q] # proc[q] =>
                  proc'[q].pc \in {"idle"} \cup Waiting
           /\ (\E t \in Tasks : AppendWrite(t)) \/ disk' = disk
<1>1. /\ doc' = doc /\ listing' = listing /\ Undisturbed
      /\ (\E t \in Tasks : AppendWrite(t)) \/ disk' = disk
  BY DEF Undisturbed, Issue, Crash, Append, AppendResolve, AppendWrite,
         AppendFail, vars, boardVars
<1>2. ASSUME NEW q \in Procs, proc'[q] # proc[q]
      PROVE  proc'[q].pc \in {"idle"} \cup Waiting
  <2>1. CASE \E c \in Commands : Issue(q, c)
    <3>1. PICK c \in Commands : Issue(q, c)
      BY <2>1
    <3>2. FirstPc(c.op) \in Waiting
      BY FirstWaits, BoardAssumption
    <3>3. proc'[q].pc = FirstPc(c.op)
      BY <3>1 DEF Issue, TypeOK, Nothing
    <3> QED
      BY <3>2, <3>3
  <2>2. CASE Crash(q)
    BY <2>2, ExitType DEF Crash
  <2>3. CASE \E p \in Procs \ {q} : Crash(p) \/ \E c \in Commands : Issue(p, c)
    BY <1>2, <2>3 DEF Crash, Exit, Issue, TypeOK
  <2>4. CASE (\E t \in Tasks : Append(t)) \/ UNCHANGED vars
    BY <1>2, <2>4 DEF Append, AppendResolve, AppendWrite, AppendFail, vars
  <2> QED
    BY <2>1, <2>2, <2>3, <2>4
<1> QED
  BY <1>1, <1>2

-----------------------------------------------------------------------------
(* BOARD.md.  A section that has only cleaned up has not made it stale: a  *)
(* rename that fails may leave without rewriting it.                       *)

Settled ==
    lock = Nobody \/ \E p \in Procs : /\ lock = p
                                      /\ proc[p].pc \in {"clean", "rename"}

FreshInv == Settled /\ ~interrupted => listing = ListingOf(disk)

LEMMA ListingKept ==
    (\A t \in Tasks : KeepsHomes(t)) => ListingOf(disk') = ListingOf(disk)
<1> SUFFICES ASSUME \A t \in Tasks : KeepsHomes(t)
             PROVE  ListingOf(disk') = ListingOf(disk)
  OBVIOUS
<1>1. \A s \in Statuses, t \in Tasks :
        (\E f \in {"file", "folder"} : <<s, t, f>> \in disk')
          <=> (\E f \in {"file", "folder"} : <<s, t, f>> \in disk)
  BY DEF KeepsHomes, HasMarkdown
<1>2. \A x \in (Statuses \ {"archive"}) \X Tasks :
        (\E f \in {"file", "folder"} : <<x[1], x[2], f>> \in disk')
          <=> (\E f \in {"file", "folder"} : <<x[1], x[2], f>> \in disk)
  BY <1>1
<1> QED
  BY <1>2 DEF ListingOf

LEMMA ListingUndisturbed ==
    Undisturbed => ListingOf(disk') = ListingOf(disk)
BY ListingKept DEF Undisturbed, KeepsHomes, HasMarkdown

\* The process that moves on inside the lock is not settled.
LEMMA Unsettled ==
    ASSUME TypeOK, NEW p \in Procs, lock' = p,
           proc'[p].pc \notin {"clean", "rename"}
    PROVE  FreshInv'
BY BoardAssumption DEF FreshInv, Settled

LEMMA FreshStep ==
    ASSUME HomeInv, FreshInv, NEW p \in Procs, Step(p)
    PROVE  FreshInv'
<1>0. TypeOK /\ Stage(p) /\ proc \in [Procs -> ProcStates]
  BY DEF HomeInv, TypeOK
<1>1. CASE Outside(p)
  <2>1. Settled' => Settled
    BY <1>0, <1>1, OutsideKeeps, StepFrame DEF Settled
  <2> QED
    BY <1>0, <1>1, <2>1, OutsideKeeps DEF FreshInv
<1>2. CASE MoveAdmit(p)
  BY <1>2 DEF MoveAdmit, FreshInv, Settled, boardVars
<1>3. CASE MoveClean(p)
  <2>1. lock = p
    BY <1>0, <1>3, Holder DEF MoveClean, Holding
  <2>2. \A u \in Tasks : KeepsHomes(u)
    BY <1>3 DEF MoveClean, WithoutOrphan, KeepsHomes, HasMarkdown
  <2> QED
    BY <1>3, <2>1, <2>2, ListingKept DEF MoveClean, FreshInv, Settled
<1>4. CASE MoveRename(p)
  <2>1. lock = p
    BY <1>0, <1>4, Holder DEF MoveRename, Holding
  <2>2. proc'[p].pc = "log"
    BY <1>0, <1>4 DEF MoveRename, ProcStates
  <2> QED
    BY <1>0, <1>4, <2>1, <2>2, Unsettled DEF MoveRename
<1>5. CASE MoveRenameFail(p)
  <2>1. lock = p
    BY <1>0, <1>5, Holder DEF MoveRenameFail, Holding
  <2> QED
    BY <1>5, <2>1 DEF MoveRenameFail, FreshInv, Settled, boardVars
<1>6. CASE MoveLog(p)
  BY <1>6 DEF MoveLog, Regenerated, FreshInv
<1>7. CASE Tidy(p)
  <2>1. listing' = ListingOf(disk') \/ interrupted'
    BY <1>7 DEF Tidy, Regenerated
  <2> QED
    BY <2>1 DEF FreshInv
<1>8. CASE Edit(p) \/ AttachBegin(p) \/ CreateBegin(p)
  <2>1. lock' = p
    BY <1>8 DEF Edit, AttachBegin, CreateBegin
  <2>2. proc'[p].pc \in {"tidy", "publish", "write", "mkdir"}
    <3>1. CASE Edit(p)
      BY <1>0, <3>1 DEF Edit, ProcStates
    <3>2. CASE AttachBegin(p)
      BY <1>0, <3>2 DEF AttachBegin, ProcStates
    <3>3. CASE CreateBegin(p)
      BY <1>0, <3>3 DEF CreateBegin, ProcStates
    <3> QED
      BY <1>8, <3>1, <3>2, <3>3
  <2> QED
    BY <1>0, <2>1, <2>2, Unsettled
<1>9. CASE \/ AttachPublish(p) \/ AttachUnlink(p) \/ CreateMkdir(p)
           \/ CreateWrite(p)
  <2>1. lock = p /\ lock' = lock
    BY <1>0, <1>9, Holder
    DEF AttachPublish, AttachUnlink, CreateMkdir, CreateWrite, Holding
  <2>2. proc'[p].pc \in {"unlink", "tidy", "write"}
    BY <1>0, <1>9
    DEF AttachPublish, AttachUnlink, CreateMkdir, CreateWrite, Goto,
        ProcStates
  <2> QED
    BY <1>0, <2>1, <2>2, Unsettled
<1> QED
  BY <1>1, <1>2, <1>3, <1>4, <1>5, <1>6, <1>7, <1>8, <1>9, StepCases

LEMMA FreshOther ==
    ASSUME HomeInv, FreshInv,
           \/ \E p \in Procs, c \in Commands : Issue(p, c)
           \/ \E p \in Procs : Crash(p)
           \/ \E t \in Tasks : Append(t)
           \/ UNCHANGED vars
    PROVE  FreshInv'
<1>0. TypeOK
  BY DEF HomeInv
<1>1. listing' = listing /\ ListingOf(disk') = ListingOf(disk)
  BY <1>0, OthersKeep, ListingUndisturbed
<1>2. CASE \E p \in Procs : Crash(p) /\ lock = p
  BY <1>2 DEF Crash, FreshInv
<1>3. CASE ~\E p \in Procs : Crash(p) /\ lock = p
  <2>1. lock' = lock /\ (~interrupted' => ~interrupted)
    <3>1. CASE \E p \in Procs : Crash(p)
      <4>1. PICK p \in Procs : Crash(p)
        BY <3>1
      <4>2. lock # p
        BY <1>3, <4>1
      <4> QED
        BY <4>1, <4>2 DEF Crash
    <3>2. CASE ~\E p \in Procs : Crash(p)
      <4>1. lock' = lock /\ interrupted' = interrupted
        BY <3>2 DEF Issue, Append, AppendResolve, AppendWrite, AppendFail,
                    vars
      <4> QED
        BY <4>1
    <3> QED
      BY <3>1, <3>2
  <2>2. \A q \in Procs : proc'[q].pc \in {"clean", "rename"}
                           => proc'[q] = proc[q]
    BY <1>0, OthersKeep DEF Waiting
  <2>3. Settled' => Settled
    BY <2>1, <2>2 DEF Settled
  <2> QED
    BY <1>1, <2>1, <2>3 DEF FreshInv
<1> QED
  BY <1>2, <1>3

\* Whenever the lock is free, BOARD.md lists the board as it is, unless a
\* command died under the lock and none has completed since: the error
\* return of a failed rename, which rewrites nothing, is no exception, and
\* the GUI's late events cannot make the list stale.
THEOREM BoardFileIsFresh == Spec => []BoardFileFresh
<1>1. Init => FreshInv
  BY DEF Init, FreshInv
<1>2. HomeInv /\ FreshInv /\ [Next]_vars => FreshInv'
  BY FreshStep, FreshOther DEF Next
<1>3. FreshInv => BoardFileFresh
  BY DEF FreshInv, Settled, BoardFileFresh
<1> QED
  BY <1>1, <1>2, <1>3, HomeAlways, PTL DEF Spec

-----------------------------------------------------------------------------
(* The place of a promotion.  A folder is never taken away again, so an    *)
(* event that was resolved to a folder comes to a task that has one, and a *)
(* task with a stray directory has no file of its own but one beside its   *)
(* folder, which a promotion that died left there.                         *)

Folders(t) == {s \in Statuses : <<s, t, "folder">> \in disk}
Files(t)   == {s \in Statuses : <<s, t, "file">> \in disk}
Ghosts(t)  == {s \in Statuses : <<s, t, "ghost">> \in disk}

Tree(t) ==
    /\ Ghosts(t) # {} => Files(t) \subseteq Folders(t)
    /\ Folders(t) \cap Ghosts(t) = {}
    /\ writer[t] \in Statuses => Folders(t) # {}

\* The two sections that make a file or a folder where one may be missing.
Clear(p) ==
    /\ proc[p].pc = "publish" => proc[p].from \notin Folders(proc[p].task)
    /\ proc[p].pc = "write" /\ proc[p].op = "createLegacy"
         => Ghosts(proc[p].task) = {}
    /\ proc[p].pc = "mkdir" => proc[p].op # "createLegacy"

PathInv == (\A t \in Tasks : Tree(t)) /\ \A p \in Procs : Clear(p)

LEMMA TreeFrame ==
    ASSUME NEW t, Tree(t), writer'[t] = writer[t],
           Folders(t)' = Folders(t), Ghosts(t)' = Ghosts(t),
           Files(t)' \subseteq Files(t)
    PROVE  Tree(t)'
BY DEF Tree

LEMMA TreeStill ==
    ASSUME NEW t, Tree(t), writer'[t] = writer[t],
           \A s \in Statuses, f \in Forms :
              <<s, t, f>> \in disk' <=> <<s, t, f>> \in disk
    PROVE  Tree(t)'
BY TreeFrame DEF Folders, Ghosts, Files, Forms

\* A process that stands at none of the sections, or stays where it was on
\* the same board.
LEMMA ClearElsewhere ==
    ASSUME NEW q, proc'[q].pc \notin {"publish", "write", "mkdir"}
    PROVE  Clear(q)'
BY DEF Clear

LEMMA ClearFrame ==
    ASSUME NEW q, Clear(q), proc'[q] = proc[q], disk' = disk
    PROVE  Clear(q)'
BY DEF Clear, Folders, Ghosts

LEMMA PathOwn ==
    ASSUME HomeInv, PathInv, NEW p \in Procs, Step(p), ~Outside(p)
    PROVE  (\A t \in Tasks : Tree(t)') /\ Clear(p)' /\ lock \in {p, Nobody}
<1> DEFINE t == proc[p].task
           from == proc[p].from
           form == proc[p].form
           to == proc[p].to
<1>0. /\ TypeOK /\ SingleHome /\ Stage(p) /\ Clear(p)
      /\ proc \in [Procs -> ProcStates] /\ proc[p] \in ProcStates
      /\ \A u \in Tasks : Tree(u)
  BY DEF HomeInv, TypeOK, PathInv
<1>1. CASE MoveAdmit(p)
  <2>1. disk' = disk /\ writer' = writer /\ lock = Nobody
    BY <1>1 DEF MoveAdmit, boardVars
  <2>2. proc'[p].pc = "clean"
    BY <1>0, <1>1 DEF MoveAdmit, ProcStates
  <2> QED
    BY <1>0, <2>1, <2>2, TreeStill, ClearElsewhere
<1>2. CASE MoveClean(p) \/ Tidy(p)
  <2>1. disk' = WithoutOrphan(from, t) /\ writer' = writer /\ lock = p
    BY <1>0, <1>2, Holder DEF MoveClean, Tidy, Holding
  <2>2. \A u \in Tasks : /\ Folders(u)' = Folders(u)
                         /\ Ghosts(u)' = Ghosts(u)
                         /\ Files(u)' \subseteq Files(u)
    BY <2>1 DEF WithoutOrphan, Folders, Ghosts, Files
  <2>3. proc'[p].pc \in {"rename", "idle"}
    BY <1>0, <1>2, ExitType DEF MoveClean, Tidy, Goto, ProcStates
  <2> QED
    BY <1>0, <2>1, <2>2, <2>3, TreeFrame, ClearElsewhere
<1>3. CASE MoveRename(p)
  <2>1. /\ proc[p].pc = "rename" /\ lock = p /\ t \in Tasks
        /\ from \in Statuses /\ to \in Statuses
        /\ form \in {"file", "folder"} /\ writer' = writer
    BY <1>0, <1>3, Holder DEF MoveRename, Holding, ProcStates
  <2> PICK u \in Tasks, a \in Statuses, b \in Statuses,
           g \in {"file", "folder"} :
             u = t /\ a = from /\ b = to /\ g = form
    BY <2>1
  <2>2. /\ <<a, u, g>> \in disk
        /\ \A f \in {"file", "folder"} : <<a, u, f>> \in disk => f = g
    BY <1>0, <2>1 DEF Stage
  <2>3. disk' = (disk \ {<<a, u, g>>}) \cup {<<b, u, g>>}
    BY <1>3 DEF MoveRename
  <2>4. \A r \in Statuses : HasMarkdown(r, u) => r = a
    BY <1>0, <2>2 DEF SingleHome, HasMarkdown
  <2>5. \A v \in Tasks \ {u} : Tree(v)'
    BY <1>0, <2>1, <2>3, TreeStill DEF Forms
  <2>6. Tree(u) /\ writer'[u] = writer[u]
    BY <1>0, <2>1
  <2>7. Ghosts(u)' = Ghosts(u)
    BY <2>3 DEF Ghosts
  <2>8. ASSUME g = "file"
        PROVE  Tree(u)'
    <3>1. Folders(u) = {} /\ a \in Files(u)
      BY <2>2, <2>4, <2>8 DEF Folders, Files, HasMarkdown
    <3>2. Ghosts(u) = {} /\ writer[u] \notin Statuses
      BY <2>6, <3>1 DEF Tree
    <3> QED
      BY <2>6, <2>7, <3>2 DEF Tree
  <2>9. ASSUME g = "folder"
        PROVE  Tree(u)'
    <3>1. Files(u) = {}
      BY <2>2, <2>4, <2>9 DEF Files, HasMarkdown
    <3>2. Files(u)' = {} /\ Folders(u)' = {b}
      BY <2>2, <2>3, <2>4, <2>9, <3>1 DEF Files, Folders, HasMarkdown
    <3>3. b \notin Ghosts(u)
      BY <1>3, <2>9 DEF MoveRename, RenameBlocked, HasDir, Ghosts
    <3> QED
      BY <2>6, <2>7, <3>2, <3>3 DEF Tree
  <2>10. \A v \in Tasks : Tree(v)'
    BY <2>5, <2>8, <2>9
  <2>11. proc'[p].pc = "log"
    BY <1>0, <1>3 DEF MoveRename, ProcStates
  <2> QED
    BY <2>1, <2>10, <2>11, ClearElsewhere
<1>4. CASE MoveRenameFail(p) \/ MoveLog(p)
  <2>1. disk' = disk /\ writer' = writer /\ lock = p
    BY <1>0, <1>4, Holder DEF MoveRenameFail, MoveLog, boardVars, Holding
  <2>2. proc'[p].pc \in {"idle", "settle"}
    BY <1>0, <1>4, ExitType DEF MoveRenameFail, MoveLog, Goto, ProcStates
  <2> QED
    BY <1>0, <2>1, <2>2, TreeStill, ClearElsewhere
<1>5. CASE Edit(p)
  <2>1. disk' = disk /\ writer' = writer /\ lock = Nobody
    BY <1>5 DEF Edit
  <2>2. proc'[p].pc = "tidy"
    BY <1>0, <1>5 DEF Edit, ProcStates
  <2> QED
    BY <1>0, <2>1, <2>2, TreeStill, ClearElsewhere
<1>6. CASE AttachBegin(p)
  <2>1. disk' = disk /\ writer' = writer /\ lock = Nobody
    BY <1>6 DEF AttachBegin, boardVars
  <2>2. PICK s \in Homes(t) :
             proc' = [proc EXCEPT ![p] =
                        [@ EXCEPT !.from = s,
                                  !.pc = IF FormIn(s, t) = "folder"
                                         THEN "tidy" ELSE "publish"]]
    BY <1>6 DEF AttachBegin
  <2>3. /\ proc'[p].task = t /\ proc'[p].from = s
        /\ proc'[p].pc = IF FormIn(s, t) = "folder" THEN "tidy"
                                                    ELSE "publish"
    BY <1>0, <2>2 DEF ProcStates
  <2>4. proc'[p].pc = "publish" => s \notin Folders(t)'
    BY <2>1, <2>3 DEF FormIn, Folders
  <2>5. Clear(p)'
    BY <2>3, <2>4 DEF Clear, Folders
  <2> QED
    BY <1>0, <2>1, <2>5, TreeStill
<1>7. CASE AttachPublish(p)
  <2>1. /\ proc[p].pc = "publish" /\ lock = p /\ writer' = writer
        /\ t \in Tasks /\ from \in Statuses
    BY <1>0, <1>7, Holder DEF AttachPublish, Holding, ProcStates
  <2> PICK u \in Tasks, a \in Statuses : u = t /\ a = from
    BY <2>1
  <2>2. /\ disk' = disk \cup {<<a, u, "folder">>}
        /\ a \in Files(u) /\ a \notin Folders(u)
    BY <1>0, <1>7, <2>1 DEF AttachPublish, Stage, Clear, Files
  <2>3. Tree(u) /\ writer'[u] = writer[u]
    BY <1>0, <2>1
  <2>4. /\ Ghosts(u) = {} /\ Ghosts(u)' = Ghosts(u)
        /\ Folders(u) \subseteq Folders(u)'
    BY <2>2, <2>3 DEF Tree, Ghosts, Folders
  <2>5. Tree(u)'
    BY <2>3, <2>4 DEF Tree
  <2>6. \A v \in Tasks \ {u} : Tree(v)'
    BY <1>0, <2>1, <2>2, TreeStill DEF Forms
  <2>7. proc'[p].pc = "unlink"
    BY <1>0, <1>7 DEF AttachPublish, Goto, ProcStates
  <2> QED
    BY <2>1, <2>5, <2>6, <2>7, ClearElsewhere
<1>8. CASE AttachUnlink(p)
  <2>1. /\ lock = p /\ writer' = writer
        /\ disk' = disk \ {<<from, t, "file">>}
    BY <1>0, <1>8, Holder DEF AttachUnlink, Holding
  <2>2. \A u \in Tasks : /\ Folders(u)' = Folders(u)
                         /\ Ghosts(u)' = Ghosts(u)
                         /\ Files(u)' \subseteq Files(u)
    BY <2>1 DEF Folders, Ghosts, Files
  <2>3. proc'[p].pc = "tidy"
    BY <1>0, <1>8 DEF AttachUnlink, Goto, ProcStates
  <2> QED
    BY <1>0, <2>1, <2>2, <2>3, TreeFrame, ClearElsewhere
<1>9. CASE CreateBegin(p)
  <2>1. disk' = disk /\ writer' = writer /\ lock = Nobody
    BY <1>9 DEF CreateBegin
  <2>2. PICK i \in Tasks :
          /\ Allocated(i)
          /\ proc' = [proc EXCEPT ![p] =
                        [@ EXCEPT !.task = i, !.from = proc[p].to,
                                  !.pc = IF proc[p].op = "createLegacy"
                                         THEN "write" ELSE "mkdir"]]
    BY <1>9 DEF CreateBegin
  <2>3. Ghosts(i)' = {}
    BY <2>1, <2>2 DEF Allocated, FreeIds, Taken, Ghosts, Forms
  <2>4. /\ proc'[p].task = i /\ proc'[p].op = proc[p].op
        /\ proc'[p].pc = IF proc[p].op = "createLegacy" THEN "write"
                                                        ELSE "mkdir"
    BY <1>0, <2>2 DEF ProcStates
  <2>5. Clear(p)'
    BY <2>3, <2>4 DEF Clear, Ghosts
  <2> QED
    BY <1>0, <2>1, <2>5, TreeStill
<1>10. CASE CreateMkdir(p)
  <2>1. /\ proc[p].pc = "mkdir" /\ lock = p /\ t \in Tasks /\ to \in Statuses
        /\ writer' = writer
    BY <1>0, <1>10, Holder DEF CreateMkdir, Holding, ProcStates
  <2> PICK u \in Tasks, b \in Statuses : u = t /\ b = to
    BY <2>1
  <2>2. /\ disk' = disk \cup {<<b, u, "ghost">>}
        /\ \A s \in Statuses : ~HasMarkdown(s, u)
        /\ proc[p].op # "createLegacy"
    BY <1>0, <1>10, <2>1 DEF CreateMkdir, Stage, Clear
  <2>3. proc'[p].pc = "write" /\ proc'[p].op = proc[p].op
    BY <1>0, <1>10 DEF CreateMkdir, Goto, ProcStates
  <2>4. Clear(p)'
    BY <2>2, <2>3 DEF Clear
  <2>5. Files(u) = {} /\ Folders(u) = {}
    BY <2>2 DEF Files, Folders, HasMarkdown
  <2>6. Files(u)' = {} /\ Folders(u)' = {}
    BY <2>2, <2>5 DEF Files, Folders
  <2>7. Tree(u) /\ writer'[u] = writer[u]
    BY <1>0, <2>1
  <2>8. Tree(u)'
    BY <2>5, <2>6, <2>7 DEF Tree
  <2>9. \A v \in Tasks \ {u} : Tree(v)'
    BY <1>0, <2>1, <2>2, TreeStill DEF Forms
  <2> QED
    BY <2>1, <2>4, <2>8, <2>9
<1>11. CASE CreateWrite(p)
  <2> DEFINE made == IF proc[p].op = "createLegacy" THEN "file" ELSE "folder"
  <2>1. /\ proc[p].pc = "write" /\ lock = p /\ t \in Tasks /\ to \in Statuses
        /\ writer' = writer
    BY <1>0, <1>11, Holder DEF CreateWrite, Holding, ProcStates
  <2> PICK u \in Tasks, b \in Statuses, g \in {"file", "folder"} :
             u = t /\ b = to /\ g = made
    BY <2>1
  <2>2. /\ disk' = (disk \ {<<b, u, "ghost">>}) \cup {<<b, u, g>>}
        /\ \A s \in Statuses : ~HasMarkdown(s, u)
        /\ g = "file" => Ghosts(u) = {}
    BY <1>0, <1>11, <2>1 DEF CreateWrite, Stage, Clear
  <2>3. proc'[p].pc = "tidy"
    BY <1>0, <1>11 DEF CreateWrite, Goto, ProcStates
  <2> HIDE DEF made
  <2>4. Files(u) = {} /\ Folders(u) = {}
    BY <2>2 DEF Files, Folders, HasMarkdown
  <2>5. /\ b \notin Ghosts(u)' /\ Ghosts(u)' \subseteq Ghosts(u)
        /\ Folders(u)' \subseteq {b}
        /\ g = "folder" => Files(u)' = {}
    BY <2>2, <2>4 DEF Files, Folders, Ghosts
  <2>6. writer'[u] \notin Statuses
    BY <1>0, <2>1, <2>4 DEF Tree
  <2>7. Tree(u)'
    BY <2>2, <2>5, <2>6 DEF Tree
  <2>8. \A v \in Tasks \ {u} : Tree(v)'
    BY <1>0, <2>1, <2>2, TreeStill DEF Forms
  <2> QED
    BY <2>1, <2>3, <2>7, <2>8, ClearElsewhere
<1> QED
  BY <1>1, <1>2, <1>3, <1>4, <1>5, <1>6, <1>7, <1>8, <1>9, <1>10, <1>11,
     StepCases

LEMMA PathStep ==
    ASSUME HomeInv, PathInv, NEW p \in Procs, Step(p)
    PROVE  PathInv'
<1>0. TypeOK
  BY DEF HomeInv
<1>1. CASE Outside(p)
  <2>1. disk' = disk /\ writer' = writer
    BY <1>0, <1>1, OutsideKeeps
  <2>2. \A t \in Tasks : Tree(t)'
    BY <2>1, TreeStill DEF PathInv
  <2>3. Clear(p)'
    BY <1>0, <1>1, OutsidePc, ClearElsewhere
  <2>4. \A q \in Procs \ {p} : Clear(q)'
    BY <1>0, <2>1, StepFrame, ClearFrame DEF PathInv
  <2> QED
    BY <2>2, <2>3, <2>4 DEF PathInv
<1>2. CASE ~Outside(p)
  <2>1. (\A t \in Tasks : Tree(t)') /\ Clear(p)' /\ lock \in {p, Nobody}
    BY <1>2, PathOwn
  <2>2. \A q \in Procs \ {p} : proc[q].pc \notin Holding
    BY <1>0, <2>1, BoardAssumption DEF TypeOK
  <2>3. \A q \in Procs \ {p} : Clear(q)'
    BY <1>0, <2>2, StepFrame, ClearElsewhere DEF Holding
  <2> QED
    BY <2>1, <2>3 DEF PathInv
<1> QED
  BY <1>1, <1>2

LEMMA PathAppend ==
    ASSUME HomeInv, PathInv, NEW t \in Tasks, Append(t)
    PROVE  PathInv'
<1>0. /\ TypeOK /\ proc' = proc /\ SingleHome
      /\ \A q \in Procs : Stage(q) /\ Clear(q)
  BY DEF HomeInv, PathInv, Append, AppendResolve, AppendWrite, AppendFail
<1>1. \A u \in Tasks \ {t} : writer'[u] = writer[u]
  BY <1>0 DEF TypeOK, Append, AppendResolve, AppendWrite, AppendFail
<1>2. CASE AppendResolve(t)
  <2>1. disk' = disk
    BY <1>2 DEF AppendResolve, boardVars
  <2>2. \A u \in Tasks \ {t} : Tree(u)'
    BY <1>1, <2>1, TreeStill DEF PathInv
  <2>3. PICK place \in {ArtifactPlace(t)} \cup ScanMisses(t) :
             writer' = [writer EXCEPT ![t] = place]
    BY <1>2 DEF AppendResolve
  <2>4. writer'[t] = place
    BY <1>0, <2>3 DEF TypeOK
  <2>5. place \in Statuses => Folders(t) # {}
    BY <2>3 DEF ArtifactPlace, ScanMisses, Folders, Statuses
  <2>6. Tree(t)'
    BY <2>1, <2>4, <2>5 DEF PathInv, Tree, Folders, Files, Ghosts
  <2> QED
    BY <1>0, <2>1, <2>2, <2>6, ClearFrame DEF PathInv
<1>3. CASE AppendWrite(t)
  <2>0. /\ writer'[t] = "none" /\ "none" \notin Statuses
        /\ disk' = IF writer[t] = "root" \/ HasDir(writer[t], t) THEN disk
                   ELSE disk \cup {<<writer[t], t, "ghost">>}
    BY <1>0, <1>3 DEF AppendWrite, TypeOK, Statuses
  <2>1. CASE disk' = disk
    <3>1. Tree(t)'
      BY <2>0, <2>1 DEF PathInv, Tree, Folders, Files, Ghosts
    <3>2. \A u \in Tasks \ {t} : Tree(u)'
      BY <1>1, <2>1, TreeStill DEF PathInv
    <3> QED
      BY <1>0, <2>1, <3>1, <3>2, ClearFrame DEF PathInv
  <2>2. CASE disk' # disk
    <3>1. /\ disk' = disk \cup {<<writer[t], t, "ghost">>}
          /\ writer[t] \in Statuses /\ ~HasDir(writer[t], t)
      BY <1>0, <1>3, <2>0, <2>2 DEF AppendWrite, TypeOK
    <3>2. Folders(t) # {}
      BY <3>1 DEF PathInv, Tree
    <3>3. Files(t) \subseteq Folders(t)
      BY <1>0, <3>2 DEF SingleHome, HasMarkdown, Folders, Files
    <3>4. \A u \in Tasks : Folders(u)' = Folders(u) /\ Files(u)' = Files(u)
      BY <3>1 DEF Folders, Files
    <3>5. Ghosts(t)' = Ghosts(t) \cup {writer[t]} /\ writer[t] \notin Folders(t)
      BY <3>1 DEF Ghosts, HasDir, Folders
    <3>6. Tree(t)'
      BY <2>0, <3>3, <3>4, <3>5 DEF PathInv, Tree
    <3>7. \A u \in Tasks \ {t} : Tree(u)'
      BY <1>1, <3>1, TreeStill DEF PathInv, Forms
    <3>8. ASSUME NEW q \in Procs
          PROVE  Clear(q)'
      <4>1. CASE proc[q].pc = "write"
        <5>1. \A s \in Statuses : ~HasMarkdown(s, proc[q].task)
          BY <1>0, <4>1 DEF Stage
        <5> PICK u : u = proc[q].task
          OBVIOUS
        <5>2. u # t
          BY <3>2, <5>1 DEF Folders, HasMarkdown
        <5>3. Ghosts(u)' = Ghosts(u)
          BY <3>1, <5>2 DEF Ghosts
        <5> QED
          BY <1>0, <4>1, <5>3 DEF Clear, Ghosts
      <4>2. CASE proc[q].pc = "publish"
        <5>1. proc[q].task \in Tasks
          BY <1>0, <4>2 DEF TypeOK
        <5> PICK u \in Tasks : u = proc[q].task
          BY <5>1
        <5>2. Folders(u)' = Folders(u)
          BY <3>4
        <5> QED
          BY <1>0, <4>2, <5>2 DEF Clear, Folders
      <4> QED
        BY <1>0, <4>1, <4>2 DEF Clear
    <3> QED
      BY <3>6, <3>7, <3>8 DEF PathInv
  <2> QED
    BY <2>1, <2>2
<1>4. CASE AppendFail(t)
  <2>1. disk' = disk
    BY <1>4 DEF AppendFail, boardVars
  <2>2. \A u \in Tasks \ {t} : Tree(u)'
    BY <1>1, <2>1, TreeStill DEF PathInv
  <2>3. writer'[t] = "none" /\ "none" \notin Statuses
    BY <1>0, <1>4 DEF AppendFail, TypeOK, Statuses
  <2>4. Tree(t)'
    BY <2>1, <2>3 DEF PathInv, Tree, Folders, Files, Ghosts
  <2> QED
    BY <1>0, <2>1, <2>2, <2>4, ClearFrame DEF PathInv
<1> QED
  BY <1>2, <1>3, <1>4 DEF Append

LEMMA PathOther ==
    ASSUME HomeInv, PathInv,
           \/ \E p \in Procs, c \in Commands : Issue(p, c)
           \/ \E p \in Procs : Crash(p)
           \/ UNCHANGED vars
    PROVE  PathInv'
<1>0. TypeOK
  BY DEF HomeInv
<1>1. disk' = disk /\ writer' = writer
  BY DEF Issue, Crash, vars, boardVars
<1>2. \A t \in Tasks : Tree(t)'
  BY <1>1, TreeStill DEF PathInv
<1>3. ASSUME NEW q \in Procs
      PROVE  Clear(q)'
  <2>1. CASE proc'[q] = proc[q]
    BY <1>1, <2>1, ClearFrame DEF PathInv
  <2>2. CASE proc'[q] # proc[q]
    BY <1>0, <2>2, OthersKeep, ClearElsewhere DEF Waiting
  <2> QED
    BY <2>1, <2>2
<1> QED
  BY <1>2, <1>3 DEF PathInv

LEMMA InitPath == Init => PathInv
<1> SUFFICES ASSUME Init PROVE PathInv
  OBVIOUS
<1>1. \A t \in Tasks : Ghosts(t) = {}
  <2>1. PICK place \in [1..Seeded -> StartStatuses \X StartForms] :
             disk = {<<place[t][1], t, place[t][2]>> : t \in 1..Seeded}
    BY DEF Init
  <2>2. \A t \in 1..Seeded : place[t][2] \in {"file", "folder"}
    BY BoardAssumption
  <2> QED
    BY <2>1, <2>2 DEF Ghosts
<1>2. \A t \in Tasks : writer[t] \notin Statuses
  BY DEF Init, Statuses
<1>3. \A p \in Procs : proc[p].pc = "idle"
  BY NothingState DEF Init
<1> QED
  BY <1>1, <1>2, <1>3 DEF PathInv, Tree, Clear

\* No stray directory stands beside a task's file, whatever dies or is
\* written late, so attach can always promote the task.
THEOREM BoardPromotionPath == Spec => []PromotionPathFree
<1>1. HomeInv /\ PathInv /\ [Next]_vars => PathInv'
  BY PathStep, PathAppend, PathOther DEF Next
<1>2. PathInv => PromotionPathFree
  <2> SUFFICES ASSUME PathInv, NEW s \in Statuses, NEW t \in Tasks,
                      <<s, t, "file">> \in disk, <<s, t, "ghost">> \in disk
               PROVE  FALSE
    BY DEF PromotionPathFree
  <2>1. s \in Files(t) /\ s \in Ghosts(t)
    BY DEF Files, Ghosts
  <2> QED
    BY <2>1 DEF PathInv, Tree
<1> QED
  BY <1>1, <1>2, InitPath, HomeAlways, PTL DEF Spec

-----------------------------------------------------------------------------
(* The guards of a move.  They are looked at when the lock is taken; what  *)
(* they look at stays until the rename, as only the holder changes it.     *)

Granted(p) ==
    /\ Homes(proc[p].task) \subseteq ExpectedSources(proc[p].op)
    /\ proc[p].to = "code-review" => doc[proc[p].task].ref
    /\ WipGuarded(proc[p].op) => ~WipBlocks(proc[p].op, proc[p].to)

GateInv == \A p \in Procs : proc[p].pc \in {"clean", "rename"} => Granted(p)

\* The guards see the markdown's place and the document, not its form.
LEMMA GrantedFrame ==
    ASSUME TypeOK, NEW p \in Procs, Granted(p), proc[p].pc # "idle",
           proc'[p].task = proc[p].task, proc'[p].op = proc[p].op,
           proc'[p].to = proc[p].to, doc' = doc,
           \A t \in Tasks : KeepsHomes(t)
    PROVE  Granted(p)'
<1>1. proc[p].task \in Tasks /\ proc[p].to \in Statuses
  BY DEF TypeOK, ProcStates
<1> PICK u \in Tasks, s \in Statuses : u = proc[p].task /\ s = proc[p].to
  BY <1>1
<1> PICK op : op = proc[p].op
  OBVIOUS
<1>2. Homes(u)' = Homes(u)
  BY DEF Homes, KeepsHomes
<1>3. TasksIn(s)' = TasksIn(s)
  BY DEF TasksIn, KeepsHomes
<1>4. WipBlocks(op, s)' <=> WipBlocks(op, s)
  BY <1>3 DEF WipBlocks, Full
<1>5. Homes(u) \subseteq ExpectedSources(op)
  BY DEF Granted
<1>6. s = "code-review" => doc[u].ref
  BY DEF Granted
<1>7. WipGuarded(op) => ~WipBlocks(op, s)
  BY DEF Granted
<1>8. /\ Homes(u)' \subseteq ExpectedSources(op)
      /\ s = "code-review" => doc'[u].ref
      /\ WipGuarded(op) => ~WipBlocks(op, s)'
  BY <1>2, <1>4, <1>5, <1>6, <1>7
<1>9. proc'[p].task = u /\ proc'[p].to = s /\ proc'[p].op = op
  OBVIOUS
<1> QED
  BY <1>8, <1>9 DEF Granted, Homes, HasMarkdown, WipBlocks, Full, TasksIn

LEMMA GateOwn ==
    ASSUME HomeInv, GateInv, NEW p \in Procs, Step(p),
           proc'[p].pc \in {"clean", "rename"}
    PROVE  Granted(p)'
<1>0. TypeOK /\ proc \in [Procs -> ProcStates]
  BY DEF HomeInv, TypeOK
<1>1. CASE MoveAdmit(p)
  <2>1. PICK s, f : proc' = [proc EXCEPT ![p] =
                      [@ EXCEPT !.pc = "clean", !.from = s, !.form = f]]
    BY <1>1 DEF MoveAdmit
  <2>2. /\ proc'[p].task = proc[p].task /\ proc'[p].op = proc[p].op
        /\ proc'[p].to = proc[p].to
    BY <1>0, <2>1 DEF ProcStates
  <2>3. disk' = disk /\ doc' = doc /\ proc[p].pc # "idle"
    BY <1>1 DEF MoveAdmit, boardVars
  <2>4. PICK h \in ExpectedSources(proc[p].op) : Homes(proc[p].task) = {h}
    BY <1>1 DEF MoveAdmit, MoveAllowed
  <2>5. Granted(p)
    BY <1>1, <2>4 DEF MoveAdmit, MoveAllowed, Granted
  <2>6. \A t \in Tasks : KeepsHomes(t)
    BY <2>3 DEF KeepsHomes, HasMarkdown
  <2> QED
    BY <1>0, <2>2, <2>3, <2>5, <2>6, GrantedFrame
<1>2. CASE MoveClean(p)
  <2>1. /\ proc'[p].task = proc[p].task /\ proc'[p].op = proc[p].op
        /\ proc'[p].to = proc[p].to
    BY <1>0, <1>2 DEF MoveClean, Goto, ProcStates
  <2>2. doc' = doc /\ proc[p].pc = "clean" /\ Granted(p)
    BY <1>2 DEF MoveClean, GateInv
  <2>3. \A t \in Tasks : KeepsHomes(t)
    BY <1>2 DEF MoveClean, WithoutOrphan, KeepsHomes, HasMarkdown
  <2> QED
    BY <1>0, <2>1, <2>2, <2>3, GrantedFrame
<1>3. CASE Outside(p)
  BY <1>0, <1>3, OutsidePc
<1>4. CASE MoveRename(p) \/ MoveRenameFail(p) \/ MoveLog(p) \/ Tidy(p)
  <2>1. proc'[p].pc \in {"log", "idle", "settle"}
    <3>1. CASE MoveRename(p)
      BY <1>0, <3>1 DEF MoveRename, ProcStates
    <3>2. CASE MoveRenameFail(p) \/ MoveLog(p) \/ Tidy(p)
      BY <1>0, <3>2, ExitType
      DEF MoveRenameFail, MoveLog, Tidy, Goto, ProcStates
    <3> QED
      BY <1>4, <3>1, <3>2
  <2> QED
    BY <2>1
<1>5. CASE Edit(p) \/ AttachBegin(p) \/ CreateBegin(p)
  <2>1. proc'[p].pc \in {"tidy", "publish", "write", "mkdir"}
    <3>1. CASE Edit(p)
      BY <1>0, <3>1 DEF Edit, ProcStates
    <3>2. CASE AttachBegin(p)
      BY <1>0, <3>2 DEF AttachBegin, ProcStates
    <3>3. CASE CreateBegin(p)
      BY <1>0, <3>3 DEF CreateBegin, ProcStates
    <3> QED
      BY <1>5, <3>1, <3>2, <3>3
  <2> QED
    BY <2>1
<1>6. CASE \/ AttachPublish(p) \/ AttachUnlink(p) \/ CreateMkdir(p)
           \/ CreateWrite(p)
  BY <1>0, <1>6
  DEF AttachPublish, AttachUnlink, CreateMkdir, CreateWrite, Goto, ProcStates
<1> QED
  BY <1>1, <1>2, <1>3, <1>4, <1>5, <1>6, StepCases

LEMMA GateStep ==
    ASSUME HomeInv, GateInv, NEW p \in Procs, Step(p)
    PROVE  GateInv'
<1> SUFFICES ASSUME NEW q \in Procs, proc'[q].pc \in {"clean", "rename"}
             PROVE  Granted(q)'
  BY DEF GateInv
<1>0. TypeOK
  BY DEF HomeInv
<1>1. CASE q = p
  BY <1>1, GateOwn
<1>2. CASE q # p
  <2>1. proc'[q] = proc[q]
    BY <1>0, <1>2, StepFrame
  <2>2. lock = q
    BY <1>0, <2>1, Holder DEF Holding
  <2>3. disk' = disk /\ doc' = doc
    BY <1>0, <1>2, <2>2, OthersWait
  <2>4. \A t \in Tasks : KeepsHomes(t)
    BY <2>3 DEF KeepsHomes, HasMarkdown
  <2>5. Granted(q) /\ proc[q].pc # "idle"
    BY <2>1 DEF GateInv
  <2> QED
    BY <1>0, <2>1, <2>3, <2>4, <2>5, GrantedFrame
<1> QED
  BY <1>1, <1>2

LEMMA GateOther ==
    ASSUME HomeInv, GateInv,
           \/ \E p \in Procs, c \in Commands : Issue(p, c)
           \/ \E p \in Procs : Crash(p)
           \/ \E t \in Tasks : Append(t)
           \/ UNCHANGED vars
    PROVE  GateInv'
<1> SUFFICES ASSUME NEW q \in Procs, proc'[q].pc \in {"clean", "rename"}
             PROVE  Granted(q)'
  BY DEF GateInv
<1>0. TypeOK
  BY DEF HomeInv
<1>1. doc' = doc /\ Undisturbed /\ proc'[q] = proc[q]
  BY <1>0, OthersKeep DEF Waiting
<1>2. \A t \in Tasks : KeepsHomes(t)
  BY <1>1 DEF KeepsHomes, HasMarkdown, Undisturbed
<1>3. Granted(q) /\ proc[q].pc # "idle"
  BY <1>1 DEF GateInv
<1> QED
  BY <1>0, <1>1, <1>2, <1>3, GrantedFrame

LEMMA GateAlways == Spec => [](HomeInv /\ GateInv)
<1>1. Init => GateInv
  BY NothingState DEF Init, GateInv
<1>2. HomeInv /\ GateInv /\ [Next]_vars => GateInv'
  BY GateStep, GateOther DEF Next
<1> QED
  BY <1>1, <1>2, HomeAlways, PTL DEF Spec

\* Entering the target is the rename.
LEMMA EntersByRename ==
    ASSUME TypeOK, [Next]_vars, NEW p \in Procs, Enters(p)
    PROVE  MoveRename(p)
<1>1. proc[p].pc = "rename" /\ proc'[p].pc = "log"
  BY DEF Enters
<1>2. CASE \E q \in Procs : Step(q)
  <2>1. Step(p)
    BY <1>1, <1>2, StepFrame
  <2>2. ~Outside(p)
    BY <1>1, OutsidePc
  <2>3. MoveRename(p) \/ MoveRenameFail(p)
    BY <1>1, <2>1, <2>2, StepCases
    DEF MoveAdmit, MoveClean, MoveLog, Edit, AttachBegin, AttachPublish,
        AttachUnlink, Tidy, CreateBegin, CreateMkdir, CreateWrite
  <2>4. ~MoveRenameFail(p)
    BY <1>1, ExitType DEF MoveRenameFail
  <2> QED
    BY <2>3, <2>4
<1>3. CASE ~\E q \in Procs : Step(q)
  BY <1>1, <1>3, OthersKeep DEF Next, Waiting
<1> QED
  BY <1>2, <1>3

\* At the rename the guards hold.
LEMMA GuardsAtRename ==
    ASSUME HomeInv, GateInv, [Next]_vars, NEW p \in Procs, Enters(p)
    PROVE  /\ Granted(p) /\ doc' = doc
           /\ proc[p].task \in Tasks /\ proc[p].to \in Statuses
           /\ TasksIn(proc[p].to)' \subseteq
                TasksIn(proc[p].to) \cup {proc[p].task}
<1>0. TypeOK
  BY DEF HomeInv
<1>1. MoveRename(p)
  BY <1>0, EntersByRename
<1>2. Granted(p) /\ doc' = doc
  BY <1>1 DEF MoveRename, GateInv
<1>3. /\ proc[p].task \in Tasks /\ proc[p].to \in Statuses
      /\ proc'[p].to = proc[p].to
  BY <1>0, <1>1 DEF MoveRename, TypeOK, ProcStates
<1> PICK s \in Statuses : s = proc[p].to
  BY <1>3
<1>4. TasksIn(s)' \subseteq TasksIn(s) \cup {proc[p].task}
  BY <1>1 DEF MoveRename, TasksIn, HasMarkdown
<1>5. TasksIn(proc[p].to)' = TasksIn(s)'
  BY <1>3 DEF TasksIn
<1> QED
  BY <1>2, <1>3, <1>4, <1>5

\* In strict mode no guarded move takes a column past its limit: the check
\* before the lock is repeated under it, and nothing enters the column until
\* the rename, however many commands passed their check at the same time.
THEOREM BoardKeepsWip == Spec => GuardedMovesKeepWip
<1> DEFINE Keeps ==
             \A p \in Procs :
               /\ Enters(p)
               /\ WipGuarded(proc[p].op)
               /\ StrictWip \/ proc[p].op = "readyStrict"
               /\ Limited(proc[p].to)
               => Cardinality(TasksIn(proc[p].to)') <= WipLimit(proc[p].to)
<1>1. HomeInv /\ GateInv /\ [Next]_vars => [Keeps]_vars
  <2> SUFFICES ASSUME HomeInv, GateInv, [Next]_vars, NEW p \in Procs,
                      Enters(p), WipGuarded(proc[p].op),
                      StrictWip \/ proc[p].op = "readyStrict",
                      Limited(proc[p].to)
               PROVE  Cardinality(TasksIn(proc[p].to)') <= WipLimit(proc[p].to)
    OBVIOUS
  <2> DEFINE old == TasksIn(proc[p].to)
             new == TasksIn(proc[p].to)'
             limit == WipLimit(proc[p].to)
  <2>1. Granted(p) /\ new \subseteq old \cup {proc[p].task}
    BY GuardsAtRename
  <2>2. IsFiniteSet(old)
    <3>1. IsFiniteSet(Tasks)
      BY BoardAssumption, FS_Interval DEF Tasks
    <3>2. old \subseteq Tasks
      BY DEF TasksIn
    <3> QED
      BY <3>1, <3>2, FS_Subset
  <2>3. limit \in Nat
    BY BoardAssumption DEF WipLimit
  <2>4. ~Full(proc[p].to)
    BY <2>1 DEF Granted, WipBlocks
  <2>5. ~(Cardinality(old) >= limit)
    BY <2>4 DEF Full
  <2> HIDE DEF old, new, limit
  <2>6. Cardinality(old) \in Nat
    BY <2>2, FS_CardinalityType
  <2>7. /\ IsFiniteSet(old \cup {proc[p].task})
        /\ Cardinality(old \cup {proc[p].task}) \in
             {Cardinality(old), Cardinality(old) + 1}
    BY <2>2, FS_AddElement
  <2>8. IsFiniteSet(new) /\ Cardinality(new) <= Cardinality(old \cup {proc[p].task})
    BY <2>1, <2>7, FS_Subset
  <2>9. Cardinality(new) \in Nat
    BY <2>8, FS_CardinalityType
  <2>10. Cardinality(new) <= limit
    BY <2>3, <2>5, <2>6, <2>7, <2>8, <2>9
  <2> QED
    BY <2>10 DEF new, limit
<1> QED
  BY <1>1, GateAlways, PTL DEF Spec, GuardedMovesKeepWip

\* Every move into code-review carries a ReviewRef at the rename, whatever
\* was edited between the command's check and its lock.
THEOREM BoardReviewRef == Spec => ReviewMovesCarryRef
<1> DEFINE Carries == \A p \in Procs :
                        Enters(p) /\ proc[p].to = "code-review"
                          => doc'[proc[p].task].ref
<1>1. HomeInv /\ GateInv /\ [Next]_vars => [Carries]_vars
  BY GuardsAtRename DEF Granted
<1> QED
  BY <1>1, GateAlways, PTL DEF Spec, ReviewMovesCarryRef

\* tb ready, tb pull and tb review --pass move a task out of the column they
\* are meant for, though each looked at it before it took the lock.
THEOREM BoardMoveSources == Spec => MovesStartWhereExpected
<1> DEFINE Starts == \A p \in Procs :
                       Enters(p) => Homes(proc[p].task) \subseteq
                                      ExpectedSources(proc[p].op)
<1>1. HomeInv /\ GateInv /\ [Next]_vars => [Starts]_vars
  BY GuardsAtRename DEF Granted
<1> QED
  BY <1>1, GateAlways, PTL DEF Spec, MovesStartWhereExpected

=============================================================================
