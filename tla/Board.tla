------------------------------- MODULE Board -------------------------------
(***************************************************************************)
(* The board on disk and the commands of tb (cli/) that change it.  A      *)
(* command is a process of its own; the GUI and the agents run the same    *)
(* commands.  Structured changes are serialised by a flock on .board.lock, *)
(* which the kernel releases when the process dies.                        *)
(*                                                                         *)
(* A section under the lock is cut where it changes what another process   *)
(* or a crash can see: the directory, the task's fields, BOARD.md.  What a *)
(* command checks before it takes the lock, and what it does in a second   *)
(* section, interleaves with every other command.  AppendEvent of the GUI  *)
(* writes into task directories without the lock.                          *)
(*                                                                         *)
(* A task's text is reduced to the fields the commands decide on.  The     *)
(* parent of a new task, attachments' contents and logs are left out.      *)
(***************************************************************************)
EXTENDS Naturals, FiniteSets

CONSTANTS
    Procs, Nobody,      \* the tb processes; Nobody holds a free lock
    MaxId,              \* bound on the task numbers
    Seeded,             \* tasks 1..Seeded are on the board at the start
    StartStatuses, StartForms, StartDocs,   \* how those may look there
    StartNextIds,           \* what .next-id may hold at the start
    Commands,           \* the commands explored: records [op, task, to]
    StrictWip,          \* wip_enforcement is "strict"
    ReadyLimit, InProgressLimit,    \* WIP limits
    MaxCommands, MaxAppends,    \* bounds on the exploration
    MaxCrashes          \* the same, of dying commands and failing writes

Statuses == {"backlog", "ready", "in-progress", "code-review", "done",
             "archive"}
Tasks    == 1..MaxId

Agents == {"none", "queued", "success"}
Docs   == [ref : BOOLEAN, failed : BOOLEAN, agent : Agents]

MoveOps   == {"mv", "start", "done", "close", "ready", "readyStrict", "pull",
              "submit", "pass", "fail"}
EditOps   == {"setref", "clearref", "assign"}
CreateOps == {"create", "createLegacy"}
Ops       == MoveOps \cup EditOps \cup CreateOps \cup {"attach"}

Command == [op : Ops, task : Tasks, to : Statuses]

ASSUME BoardAssumption ==
    /\ Nobody \notin Procs
    /\ MaxId \in Nat
    /\ Seeded \in 0..MaxId
    /\ StartStatuses \subseteq Statuses
    /\ StartForms \subseteq {"file", "folder"}
    /\ StartDocs \subseteq Docs
    /\ StartNextIds \subseteq Nat
    /\ Commands \subseteq Command
    /\ StrictWip \in BOOLEAN
    /\ ReadyLimit \in Nat \ {0}
    /\ InProgressLimit \in Nat \ {0}
    /\ MaxCommands \in Nat /\ MaxCrashes \in Nat /\ MaxAppends \in Nat

VARIABLES
    disk,       \* entries <<status, task, form>> of the status directories
    doc,        \* doc[t]: the fields of t's markdown the commands look at
    nextId,     \* .next-id
    listing,    \* what BOARD.md lists
    lock,       \* the holder of .board.lock
    proc,       \* proc[p]: where the command that p runs is
    writer,     \* writer[t]: the directory an AppendEvent for t resolved
    interrupted,\* a command left its locked section without rewriting BOARD.md
    issued, crashes, appends    \* how many so far, for the bounds

boardVars == <<disk, doc, nextId, listing>>
countVars == <<issued, crashes, appends>>
vars == <<boardVars, lock, proc, writer, interrupted, countVars>>

-----------------------------------------------------------------------------
(* The directory.  "file" is <status>/<ID>.md, "folder" is a directory     *)
(* <status>/<ID> with a TASK.md, "ghost" one without.                      *)

Forms == {"file", "folder", "ghost"}

HasMarkdown(s, t) == \E f \in {"file", "folder"} : <<s, t, f>> \in disk

\* resolveTaskRefsForID: the statuses that hold the task.
Homes(t) == {s \in Statuses : HasMarkdown(s, t)}

\* The canonical form: the folder wins when both are there.
FormIn(s, t) == IF <<s, t, "folder">> \in disk THEN "folder" ELSE "file"

\* taskDestinationExists, idExists: any entry counts, with markdown or not.
Taken(s, t) == \E f \in Forms : <<s, t, f>> \in disk
HasDir(s, t) == \E f \in {"folder", "ghost"} : <<s, t, f>> \in disk

\* collectTasks
TasksIn(s) == {t \in Tasks : HasMarkdown(s, t)}

\* cleanupOrphanFileFormSibling
WithoutOrphan(s, t) ==
    IF <<s, t, "folder">> \in disk THEN disk \ {<<s, t, "file">>} ELSE disk

\* buildBoardContent: BOARD.md leaves the archive out.
ListingOf(d) ==
    {x \in (Statuses \ {"archive"}) \X Tasks :
        \E f \in {"file", "folder"} : <<x[1], x[2], f>> \in d}

\* wipLimitFor and enforceWipLimitForMode; any column can be given a limit,
\* here these two have one.
Limited(s) == s \in {"ready", "in-progress"}
WipLimit(s) == IF s = "ready" THEN ReadyLimit ELSE InProgressLimit

Full(s) == Limited(s) /\ Cardinality(TasksIn(s)) >= WipLimit(s)

WipBlocks(op, s) == (StrictWip \/ op = "readyStrict") /\ Full(s)

-----------------------------------------------------------------------------
(* The commands.                                                           *)

Ready(op) == op \in {"ready", "readyStrict"}

Target(c) == CASE c.op \in {"mv", "create", "createLegacy"} -> c.to
               [] c.op \in {"start", "pull"}                -> "in-progress"
               [] c.op \in {"done", "pass"}                 -> "done"
               [] c.op \in {"ready", "readyStrict", "fail"} -> "ready"
               [] c.op = "submit"                           -> "code-review"
               [] OTHER                                     -> "archive"

WipGuarded(op) == op \in {"mv", "start", "ready", "readyStrict", "pull"}

\* expectedSourceGuard: where the command's move may start.
ExpectedSources(op) ==
    CASE Ready(op)   -> {"backlog"}
      [] op = "pull" -> {"ready"}
      [] op = "pass" -> {"code-review"}
      [] OTHER       -> Statuses

FirstPc(op) ==
    CASE op \in {"mv", "start", "ready", "readyStrict", "pull", "submit"}
                              -> "check"
      [] op \in {"pass", "fail"} -> "mark"
      [] op \in {"done", "close"} -> "move"
      [] op \in EditOps       -> "edit"
      [] op \in CreateOps     -> "create"
      [] OTHER                -> "attach"

Nothing == [pc |-> "idle", op |-> "none", task |-> 0, to |-> "archive",
            from |-> "archive", form |-> "file", seen |-> "none"]

Goto(p, pc) == proc' = [proc EXCEPT ![p].pc = pc]
Exit(p)     == proc' = [proc EXCEPT ![p] = Nothing]

Issue(p, c) ==
    /\ proc[p].pc = "idle"
    /\ issued < MaxCommands
    /\ issued' = issued + 1
    /\ proc' = [proc EXCEPT ![p] = [Nothing EXCEPT !.pc = FirstPc(c.op),
                                    !.op = c.op, !.task = c.task,
                                    !.to = Target(c)]]
    /\ UNCHANGED <<boardVars, lock, writer, interrupted, crashes, appends>>

-----------------------------------------------------------------------------
(* Checks before the lock.                                                 *)

\* promoteToReadyWithOptions, pullReadyTask, reviewSubmit, cmdMove, cmdStart
CheckHolds(p) ==
    LET op == proc[p].op
        t  == proc[p].task
    IN  /\ WipGuarded(op) => ~WipBlocks(op, proc[p].to)
        /\ Ready(op) => Homes(t) = {"backlog"}
        /\ op = "pull" => Homes(t) = {"ready"}
        /\ op = "submit" =>
             /\ \/ Homes(t) = {"in-progress"}
                \/ Homes(t) \in {{"ready"}, {"backlog"}} /\ doc[t].failed
             /\ doc[t].ref

\* A submit from ready or backlog remembers the path it read, to clear the
\* marker there.
CheckPass(p) ==
    LET t == proc[p].task
        rework == /\ proc[p].op = "submit"
                  /\ Homes(t) # {"in-progress"}
    IN  /\ proc[p].pc = "check"
        /\ CheckHolds(p)
        /\ IF rework
           THEN \E s \in Homes(t) :
                  proc' = [proc EXCEPT ![p] =
                             [@ EXCEPT !.pc = "mark", !.from = s,
                                       !.form = FormIn(s, t)]]
           ELSE Goto(p, "move")
        /\ UNCHANGED <<boardVars, lock, writer, interrupted, countVars>>

\* A scan that overlaps another command's rename may see a task twice or
\* not at all, and fail; the grooming check of tb ready may refuse.
CheckFail(p) ==
    /\ proc[p].pc = "check"
    /\ ~CheckHolds(p) \/ lock # Nobody \/ Ready(proc[p].op)
    /\ Exit(p)
    /\ UNCHANGED <<boardVars, lock, writer, interrupted, countVars>>

-----------------------------------------------------------------------------
(* First section of a review command.                                      *)

MarkHolds(p) ==
    IF proc[p].op = "submit"
    THEN <<proc[p].from, proc[p].task, proc[p].form>> \in disk
    ELSE Homes(proc[p].task) = {"code-review"}

\* reviewWriteFailMetadata, reviewWritePassMetadata, reviewClearFailedMarker
Mark(p) ==
    /\ proc[p].pc = "mark" /\ lock = Nobody
    /\ MarkHolds(p)
    /\ doc' = CASE proc[p].op = "fail" ->
                     [doc EXCEPT ![proc[p].task] =
                        [@ EXCEPT !.failed = TRUE, !.agent = "none"]]
                [] proc[p].op = "submit" ->
                     [doc EXCEPT ![proc[p].task].failed = FALSE]
                [] OTHER -> doc
    /\ Goto(p, "move")
    /\ UNCHANGED <<disk, nextId, listing, lock, writer, interrupted,
                   countVars>>

MarkRefuse(p) ==
    /\ proc[p].pc = "mark" /\ lock = Nobody
    /\ ~MarkHolds(p)
    /\ Exit(p)
    /\ UNCHANGED <<boardVars, lock, writer, interrupted, countVars>>

-----------------------------------------------------------------------------
(* The move: moveTaskOnBoardWithGuard.                                     *)

\* Fault variant: the WIP limit is left to the check before the lock.
MoveAllowedUnguarded(p) ==
    LET t  == proc[p].task
        to == proc[p].to
    IN  /\ \E s \in ExpectedSources(proc[p].op) : Homes(t) = {s}
        /\ Homes(t) # {to}
        /\ to = "code-review" => doc[t].ref
        /\ ~Taken(to, t)

\* Fault variant: the ReviewRef is left to the check before the lock.
MoveAllowedWithoutRef(p) ==
    LET t  == proc[p].task
        to == proc[p].to
    IN  /\ \E s \in ExpectedSources(proc[p].op) : Homes(t) = {s}
        /\ Homes(t) # {to}
        /\ WipGuarded(proc[p].op) => ~WipBlocks(proc[p].op, to)
        /\ ~Taken(to, t)

\* Fault variant: the source is left to the check before the lock.
MoveAllowedFromAnywhere(p) ==
    LET t  == proc[p].task
        to == proc[p].to
    IN  /\ \E s \in Statuses : Homes(t) = {s}
        /\ Homes(t) # {to}
        /\ to = "code-review" => doc[t].ref
        /\ WipGuarded(proc[p].op) => ~WipBlocks(proc[p].op, to)
        /\ ~Taken(to, t)

\* One source other than the target, the ReviewRef gate, the command's
\* guards, and a destination without any entry of the task.
MoveAllowed(p) ==
    LET t  == proc[p].task
        to == proc[p].to
    IN  /\ \E s \in ExpectedSources(proc[p].op) : Homes(t) = {s}
        /\ Homes(t) # {to}
        /\ to = "code-review" => doc[t].ref
        /\ WipGuarded(proc[p].op) => ~WipBlocks(proc[p].op, to)
        /\ ~Taken(to, t)

MoveAdmit(p) ==
    /\ proc[p].pc = "move" /\ lock = Nobody
    /\ MoveAllowed(p)
    /\ lock' = p
    /\ \E s \in Homes(proc[p].task) :
         proc' = [proc EXCEPT ![p] =
                    [@ EXCEPT !.pc = "clean", !.from = s,
                              !.form = FormIn(s, proc[p].task)]]
    /\ UNCHANGED <<boardVars, writer, interrupted, countVars>>

\* The task is already there, or an error: nothing has been touched.
MoveRefuse(p) ==
    /\ proc[p].pc = "move" /\ lock = Nobody
    /\ ~MoveAllowed(p)
    /\ Exit(p)
    /\ UNCHANGED <<boardVars, lock, writer, interrupted, countVars>>

\* Fault variant: the orphan file stays behind.
MoveCleanNothing(p) ==
    /\ proc[p].pc = "clean"
    /\ Goto(p, "rename")
    /\ UNCHANGED <<boardVars, lock, writer, interrupted, countVars>>

\* Only a folder may have an orphan file beside it.
MoveClean(p) ==
    /\ proc[p].pc = "clean"
    /\ disk' = WithoutOrphan(proc[p].from, proc[p].task)
    /\ Goto(p, "rename")
    /\ UNCHANGED <<doc, nextId, listing, lock, writer, interrupted,
                   countVars>>

\* The rename of a directory fails when a directory that is not empty has
\* appeared at the destination; the rename of a file does not mind one.
RenameBlocked(p) ==
    /\ proc[p].form = "folder"
    /\ HasDir(proc[p].to, proc[p].task)

MoveRename(p) ==
    /\ proc[p].pc = "rename"
    /\ ~RenameBlocked(p)
    /\ disk' = (disk \ {<<proc[p].from, proc[p].task, proc[p].form>>})
               \cup {<<proc[p].to, proc[p].task, proc[p].form>>}
    /\ proc' = [proc EXCEPT ![p] =
                  [@ EXCEPT !.pc = "log", !.seen = doc[proc[p].task].agent]]
    /\ UNCHANGED <<doc, nextId, listing, lock, writer, interrupted,
                   countVars>>

\* Fault variant: the error return keeps the lock.
MoveRenameFailLocked(p) ==
    /\ proc[p].pc = "rename"
    /\ RenameBlocked(p)
    /\ Exit(p)
    /\ UNCHANGED <<boardVars, lock, writer, interrupted, countVars>>

MoveRenameFail(p) ==
    /\ proc[p].pc = "rename"
    /\ RenameBlocked(p)
    /\ Exit(p)
    /\ lock' = Nobody
    /\ UNCHANGED <<boardVars, writer, interrupted, countVars>>

\* Fault variant: BOARD.md is not rewritten.
MoveLogOnly(p) ==
    /\ proc[p].pc = "log"
    /\ lock' = Nobody
    /\ IF Ready(proc[p].op) THEN Goto(p, "settle") ELSE Exit(p)
    /\ UNCHANGED <<boardVars, writer, interrupted, countVars>>

\* regenerateBoard over the directory d; a command that cannot write the file
\* warns, or reports it and ends, but has no second try.
Regenerated(d) ==
    \/ listing' = ListingOf(d) /\ interrupted' = FALSE /\ UNCHANGED crashes
    \/ /\ crashes < MaxCrashes /\ crashes' = crashes + 1
       /\ interrupted' = TRUE /\ UNCHANGED listing

\* The log entry and regenerateBoard, then unlock.  When the entry cannot be
\* written the command ends at once, with BOARD.md as it was.
MoveLog(p) ==
    /\ proc[p].pc = "log"
    /\ Regenerated(disk)
    /\ lock' = Nobody
    /\ \/ Ready(proc[p].op) /\ Goto(p, "settle")
       \/ (Ready(proc[p].op) => interrupted') /\ Exit(p)
    /\ UNCHANGED <<disk, doc, nextId, writer, issued, appends>>

\* clearReadyAgentStatus, a section of its own after the move.
Settle(p) ==
    /\ proc[p].pc = "settle" /\ lock = Nobody
    /\ IF "ready" \in Homes(proc[p].task)
       THEN doc' = [doc EXCEPT ![proc[p].task].agent = "none"]
       ELSE UNCHANGED doc
    /\ Exit(p)
    /\ UNCHANGED <<disk, nextId, listing, lock, writer, interrupted,
                   countVars>>

-----------------------------------------------------------------------------
(* Edit, assign, attach, create.                                           *)

EditedDoc(p) ==
    CASE proc[p].op = "setref"   -> [doc EXCEPT ![proc[p].task].ref = TRUE]
      [] proc[p].op = "clearref" -> [doc EXCEPT ![proc[p].task].ref = FALSE]
      [] OTHER                   -> [doc EXCEPT ![proc[p].task].agent
                                                             = "queued"]

Edit(p) ==
    /\ proc[p].pc = "edit" /\ lock = Nobody
    /\ lock' = p
    /\ doc' = EditedDoc(p)
    /\ \E s \in Homes(proc[p].task) :
         proc' = [proc EXCEPT ![p] = [@ EXCEPT !.pc = "tidy", !.from = s]]
    /\ UNCHANGED <<disk, nextId, listing, writer, interrupted, countVars>>

\* attachTask on a folder copies into it; on a file it promotes the task:
\* the staged folder is published, then the file removed.  A directory in
\* the way would make it refuse; by PromotionPathFree there is none.
AttachBegin(p) ==
    /\ proc[p].pc = "attach" /\ lock = Nobody
    /\ lock' = p
    /\ \E s \in Homes(proc[p].task) :
         proc' = [proc EXCEPT ![p] =
                    [@ EXCEPT !.from = s,
                              !.pc = IF FormIn(s, proc[p].task) = "folder"
                                     THEN "tidy" ELSE "publish"]]
    /\ UNCHANGED <<boardVars, writer, interrupted, countVars>>

\* Fault variant: the file goes before the folder is published.
AttachPublishUnlinkingFirst(p) ==
    /\ proc[p].pc = "publish"
    /\ disk' = disk \ {<<proc[p].from, proc[p].task, "file">>}
    /\ Goto(p, "unlink")
    /\ UNCHANGED <<doc, nextId, listing, lock, writer, interrupted,
                   countVars>>

AttachPublish(p) ==
    /\ proc[p].pc = "publish"
    /\ disk' = disk \cup {<<proc[p].from, proc[p].task, "folder">>}
    /\ Goto(p, "unlink")
    /\ UNCHANGED <<doc, nextId, listing, lock, writer, interrupted,
                   countVars>>

AttachUnlink(p) ==
    /\ proc[p].pc = "unlink"
    /\ disk' = disk \ {<<proc[p].from, proc[p].task, "file">>}
    /\ Goto(p, "tidy")
    /\ UNCHANGED <<doc, nextId, listing, lock, writer, interrupted,
                   countVars>>

\* The task is not found.
EditRefuse(p) ==
    /\ proc[p].pc \in {"edit", "attach"} /\ lock = Nobody
    /\ Homes(proc[p].task) = {}
    /\ Exit(p)
    /\ UNCHANGED <<boardVars, lock, writer, interrupted, countVars>>

\* idExists
FreeIds == {i \in Tasks : i >= nextId /\ \A s \in Statuses : ~Taken(s, i)}

\* Fault variant: .next-id is believed.
AllocatedBlindly(i) == i = nextId /\ i \in Tasks

\* allocateID takes the first free number from .next-id on.
Allocated(i) == i \in FreeIds /\ \A j \in FreeIds : i <= j

CreateBegin(p) ==
    /\ proc[p].pc = "create" /\ lock = Nobody
    /\ \E i \in Tasks :
         /\ Allocated(i)
         /\ nextId' = i + 1
         /\ proc' = [proc EXCEPT ![p] =
                       [@ EXCEPT !.task = i, !.from = proc[p].to,
                                 !.pc = IF proc[p].op = "createLegacy"
                                        THEN "write" ELSE "mkdir"]]
    /\ lock' = p
    /\ UNCHANGED <<disk, doc, listing, writer, interrupted, countVars>>

\* The bound MaxId is reached; the code has no such end.
CreateOutOfIds(p) ==
    /\ proc[p].pc = "create" /\ lock = Nobody
    /\ FreeIds = {}
    /\ Exit(p)
    /\ UNCHANGED <<boardVars, lock, writer, interrupted, countVars>>

CreateMkdir(p) ==
    /\ proc[p].pc = "mkdir"
    /\ disk' = disk \cup {<<proc[p].to, proc[p].task, "ghost">>}
    /\ Goto(p, "write")
    /\ UNCHANGED <<doc, nextId, listing, lock, writer, interrupted,
                   countVars>>

FreshDoc == [ref |-> FALSE, failed |-> FALSE, agent |-> "none"]

CreateWrite(p) ==
    /\ proc[p].pc = "write"
    /\ disk' = (disk \ {<<proc[p].to, proc[p].task, "ghost">>})
               \cup {<<proc[p].to, proc[p].task,
                       IF proc[p].op = "createLegacy" THEN "file"
                                                      ELSE "folder">>}
    /\ doc' = [doc EXCEPT ![proc[p].task] = FreshDoc]
    /\ Goto(p, "tidy")
    /\ UNCHANGED <<nextId, listing, lock, writer, interrupted, countVars>>

\* cleanupOrphanFileFormSibling, regenerateBoard, unlock.
Tidy(p) ==
    /\ proc[p].pc = "tidy"
    /\ disk' = WithoutOrphan(proc[p].from, proc[p].task)
    /\ Regenerated(disk')
    /\ lock' = Nobody
    /\ Exit(p)
    /\ UNCHANGED <<doc, nextId, writer, issued, appends>>

-----------------------------------------------------------------------------
(* The environment.                                                        *)

\* The process dies; the kernel drops its lock.
Crash(p) ==
    /\ proc[p].pc # "idle"
    /\ crashes < MaxCrashes
    /\ crashes' = crashes + 1
    /\ lock' = IF lock = p THEN Nobody ELSE lock
    /\ interrupted' = (interrupted \/ lock = p)
    /\ Exit(p)
    /\ UNCHANGED <<boardVars, writer, issued, appends>>

\* resolveArtifactPaths: the task's folder wherever it is, else the
\* directory at the root of the board.
ArtifactPlace(t) ==
    IF \E s \in Statuses : <<s, t, "folder">> \in disk
    THEN CHOOSE s \in Statuses : <<s, t, "folder">> \in disk
    ELSE "root"

\* The statuses are looked up one after the other: a rename meanwhile can
\* hide the task, which then passes for one without a folder.
ScanMisses(t) ==
    IF \E p \in Procs : proc[p].pc = "rename" /\ proc[p].task = t
    THEN {"root"} ELSE {}

\* AppendEvent resolves the path, then makes the directory and appends.  When
\* the directory moves between the last two, the open fails.
AppendResolve(t) ==
    /\ writer[t] = "none"
    /\ appends < MaxAppends
    /\ appends' = appends + 1
    /\ \E place \in {ArtifactPlace(t)} \cup ScanMisses(t) :
         writer' = [writer EXCEPT ![t] = place]
    /\ UNCHANGED <<boardVars, lock, proc, interrupted, issued, crashes>>

AppendWrite(t) ==
    /\ writer[t] # "none"
    /\ disk' = IF writer[t] = "root" \/ HasDir(writer[t], t) THEN disk
               ELSE disk \cup {<<writer[t], t, "ghost">>}
    /\ writer' = [writer EXCEPT ![t] = "none"]
    /\ UNCHANGED <<doc, nextId, listing, lock, proc, interrupted, countVars>>

AppendFail(t) ==
    /\ writer[t] \in Statuses
    /\ ~HasDir(writer[t], t)
    /\ writer' = [writer EXCEPT ![t] = "none"]
    /\ UNCHANGED <<boardVars, lock, proc, interrupted, countVars>>

Append(t) == AppendResolve(t) \/ AppendWrite(t) \/ AppendFail(t)

-----------------------------------------------------------------------------

\* Tasks 1..Seeded stand somewhere, in either form; .next-id may be stale.
Init ==
    /\ \E place \in [1..Seeded -> StartStatuses \X StartForms] :
         disk = {<<place[t][1], t, place[t][2]>> : t \in 1..Seeded}
    /\ \E d \in [1..Seeded -> StartDocs] :
         doc = [t \in Tasks |-> IF t \in 1..Seeded THEN d[t] ELSE FreshDoc]
    /\ nextId \in StartNextIds
    /\ listing = ListingOf(disk)
    /\ lock = Nobody
    /\ proc = [p \in Procs |-> Nothing]
    /\ writer = [t \in Tasks |-> "none"]
    /\ interrupted = FALSE
    /\ issued = 0 /\ crashes = 0 /\ appends = 0

MoveStep(p) == \/ CheckPass(p) \/ CheckFail(p) \/ Mark(p) \/ MarkRefuse(p)
               \/ MoveAdmit(p) \/ MoveRefuse(p) \/ MoveClean(p)
               \/ MoveRename(p) \/ MoveRenameFail(p) \/ MoveLog(p)
               \/ Settle(p)

EditStep(p) == \/ Edit(p) \/ EditRefuse(p) \/ AttachBegin(p)
               \/ AttachPublish(p) \/ AttachUnlink(p) \/ Tidy(p)

CreateStep(p) == \/ CreateBegin(p) \/ CreateOutOfIds(p) \/ CreateMkdir(p)
                 \/ CreateWrite(p)

Step(p) == MoveStep(p) \/ EditStep(p) \/ CreateStep(p)

Next ==
    \/ \E p \in Procs : \/ \E c \in Commands : Issue(p, c)
                        \/ Step(p)
                        \/ Crash(p)
    \/ \E t \in Tasks : Append(t)

Spec == Init /\ [][Next]_vars

\* A process that can proceed does; flock wakes a waiter when the lock is
\* free and stays free.
Fairness == \A p \in Procs : WF_vars(Step(p))

FairSpec == Spec /\ Fairness

-----------------------------------------------------------------------------
(* Properties.                                                             *)

Waiting == {"check", "mark", "move", "settle", "edit", "attach", "create"}
Holding == {"clean", "rename", "log", "publish", "unlink", "mkdir", "write",
            "tidy"}

ProcStates ==
    [pc : Waiting \cup Holding \cup {"idle"}, op : Ops \cup {"none"},
     task : Tasks \cup {0}, to : Statuses, from : Statuses,
     form : {"file", "folder"}, seen : Agents]

\* Every variable stays in its range, a command that runs has a task, and
\* exactly the process that is in a locked section holds the lock.
TypeOK ==
    /\ disk \in SUBSET (Statuses \X Tasks \X Forms)
    /\ doc \in [Tasks -> Docs]
    /\ nextId \in Nat
    /\ listing \in SUBSET (Statuses \X Tasks)
    /\ lock \in Procs \cup {Nobody}
    /\ proc \in [Procs -> ProcStates]
    /\ \A p \in Procs : proc[p].pc # "idle" => proc[p].task \in Tasks
    /\ \A p \in Procs : proc[p].pc \in Holding <=> lock = p
    /\ writer \in [Tasks -> Statuses \cup {"root", "none"}]
    /\ interrupted \in BOOLEAN
    /\ issued \in Nat /\ crashes \in Nat /\ appends \in Nat

\* Where a task is, for TaskStore.
Place(t) == IF Homes(t) = {} THEN "nowhere"
            ELSE CHOOSE s \in Statuses : s \in Homes(t)

Store == INSTANCE TaskStore
         WITH place <- [t \in Tasks |-> Place(t)], Nowhere <- "nowhere"

\* The commands implement the store: no interleaving of commands, no crash
\* between two file operations and no late event of the GUI loses a task,
\* reuses an id that is taken, or moves two tasks in one step.
ImplementsStore == Store!Spec

\* A task never has markdown in two statuses, so every command resolves it
\* without ambiguity, also after a promotion or a move died half way.
OneHome == \A t \in Tasks : Cardinality(Homes(t)) <= 1

\* When nobody holds the lock, BOARD.md lists the board as it is, unless a
\* command died under the lock or could not write, and none has completed
\* since.
BoardFileFresh == lock = Nobody /\ ~interrupted => listing = ListingOf(disk)

\* No stray directory stands beside a task's file, so that attach can always
\* promote it: the directories a dying create leaves behind keep their ids
\* out of use, and events are written beside folders only.
PromotionPathFree ==
    \A s \in Statuses, t \in Tasks :
        ~({<<s, t, "file">>, <<s, t, "ghost">>} \subseteq disk)

\* p renames its task into its target in this step.
Enters(p) == proc[p].pc = "rename" /\ proc'[p].pc = "log"

\* In strict mode no guarded move takes a column past its limit, however
\* many commands passed their check before the lock at the same time.
GuardedMovesKeepWip ==
    [][\A p \in Procs :
         /\ Enters(p)
         /\ WipGuarded(proc[p].op)
         /\ StrictWip \/ proc[p].op = "readyStrict"
         /\ Limited(proc[p].to)
         => Cardinality(TasksIn(proc[p].to)') <= WipLimit(proc[p].to)]_vars

\* Every move into code-review carries a ReviewRef, whatever is edited
\* between the command's check and its move.
ReviewMovesCarryRef ==
    [][\A p \in Procs :
         Enters(p) /\ proc[p].to = "code-review"
           => doc'[proc[p].task].ref]_vars

\* tb ready moves tasks out of backlog only, tb pull out of ready only and
\* tb review --pass out of code-review only, though each of them looked at
\* the task before it took the lock.
MovesStartWhereExpected ==
    [][\A p \in Procs :
         Enters(p) => Homes(proc[p].task) \subseteq
                        ExpectedSources(proc[p].op)]_vars

\* A command ends: no refusal, no failed rename and no failed write leaves the
\* lock taken, and a command that dies does not block the others.
CommandsEnd == \A p \in Procs : []<>(proc[p].pc = "idle")

\* What review.go says of the two review commands that send a task on: --fail
\* rejects tasks that are not in code-review, and --submit rejects sources
\* other than in-progress, and ready or backlog for rework.
ReviewMovesStartWhereAccepted ==
    [][\A p \in Procs :
         /\ Enters(p) /\ proc[p].op = "fail"
              => Homes(proc[p].task) = {"code-review"}
         /\ Enters(p) /\ proc[p].op = "submit"
              => Homes(proc[p].task) \subseteq
                   {"in-progress", "ready", "backlog"}]_vars

=============================================================================
