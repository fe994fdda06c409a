----------------------------- MODULE TaskFolder -----------------------------
(***************************************************************************)
(* The files of one task: its markdown, its attachments and its run        *)
(* history.  `tb attach`, `tb attach --rm`, `tb edit` and the GUI's         *)
(* EditTaskBody change them under .board.lock; the editor of the GUI keeps *)
(* a copy of the markdown meanwhile, and AppendEvent writes the history     *)
(* without the lock.  A file-form task is <ID>.md with its history at the   *)
(* root of the board; attaching promotes it to the folder <ID>/ with        *)
(* TASK.md, the attachments and the history in it.                         *)
(*                                                                         *)
(* A file operation under the lock can fail, and the process can die        *)
(* between two of them.  Where the task is and BOARD.md are Board's.        *)
(***************************************************************************)
EXTENDS Naturals

CONSTANTS
    Names,          \* names of attachments
    Legacy,         \* those in attachments/ of a task that starts as a folder
    StartForms,     \* forms the task may start in
    MaxCommands,    \* bound on the commands and saves
    MaxFaults,      \* bound on failures and crashes together
    MaxEvents       \* bound on the events of its runs

Forms == {"file", "folder"}
Refs  == {"root", "legacy"} \X Names
Ids   == 1..MaxCommands

ASSUME FolderAssumption ==
    /\ Legacy \subseteq Names
    /\ StartForms \subseteq Forms
    /\ MaxCommands \in Nat /\ MaxFaults \in Nat /\ MaxEvents \in Nat

VARIABLES
    forms,      \* which of <ID>.md and <ID>/TASK.md are there
    text,       \* text[f]: the markdown of form f
    held,       \* the attachments in the folder
    history,    \* history[f]: the events of the JSONL that goes with form f
    cmd,        \* the command that holds the lock
    editor,     \* the body editor: closed, or the text in its buffer
    writer,     \* the JSONL an AppendEvent has resolved
    issued, faults, events,     \* how many so far, for the bounds
    kept,       \* history: log entries that no save has overwritten
    stale,      \* history: a save has put an old list of attachments back
    late        \* history: events that came after promotion staged the JSONL

files  == <<forms, text, held, history>>
counts == <<issued, faults, events>>
ghosts == <<kept, stale, late>>
vars   == <<files, cmd, editor, writer, counts, ghosts>>

-----------------------------------------------------------------------------
(* Which files are read.                                                   *)

\* Fault variant: the file wins.
CanonicalFile(fs) == IF "file" \in fs THEN "file" ELSE "folder"

\* resolveTaskRefInStatus and findTaskFile: the folder wins.
Canonical(fs) == IF "folder" \in fs THEN "folder" ELSE "file"

Here == Canonical(forms)

\* attachmentSourceNames
Root(names) == {"root"} \X names

\* The sections that matter: the block that ends at the first heading, the
\* goal, Attachments and Log; the first two carry the id of the last change.
Texts == [meta : Ids \cup {0}, goal : Ids \cup {0},
          listed : SUBSET Refs, log : SUBSET Ids]
Blank == [meta |-> 0, goal |-> 0, listed |-> {}, log |-> {}]

Idle == [pc |-> "idle", names |-> {}, refs |-> {}, staged |-> {}]

\* The next command, which finds the lock free.
Issue == /\ cmd.pc = "idle" /\ issued < MaxCommands
         /\ issued' = issued + 1
         /\ UNCHANGED <<faults, events>>

\* Something fails, or the process dies.
Fault == /\ faults < MaxFaults
         /\ faults' = faults + 1
         /\ UNCHANGED <<issued, events>>

Goto(pc) == cmd' = [cmd EXCEPT !.pc = pc]
Exit     == cmd' = Idle

-----------------------------------------------------------------------------
(* Changes of the markdown.                                                *)

\* setField
WithField(t) == [t EXCEPT !.meta = issued']

\* upsertTaskSection
WithGoal(t) == [t EXCEPT !.goal = issued']

\* upsertAttachmentsSection and removeAttachmentEntries
Listing(t, refs)   == [t EXCEPT !.listed = refs]
Unlisting(t, refs) == [t EXCEPT !.listed = @ \ refs]

\* appendLogEntry, appendBodyEditLog
Logged(t) == [t EXCEPT !.log = @ \cup {issued'}]

\* A command replaces the markdown of form f.
Rewritten(f, t) == /\ text' = [text EXCEPT ![f] = Logged(t)]
                   /\ kept' = kept \cup {issued'}

-----------------------------------------------------------------------------
(* tb attach, on a folder                                                  *)

\* readAttachmentRefs: the directory says what is attached, not the list.
Found == held

\* A name that an attachment of either kind has is refused.
Clash(names) == \E r \in Found : r[2] \in names

\* What is there is read before anything is published.
AttachBegin(names) ==
    /\ Issue
    /\ IF Here = "file"
       THEN cmd' = [Idle EXCEPT !.pc = "stage", !.names = names]
       ELSE IF Clash(names) THEN Exit
       ELSE cmd' = [Idle EXCEPT !.pc = "publish", !.names = names, !.refs = Found]
    /\ UNCHANGED <<files, editor, writer, ghosts>>

Published == held \ cmd.refs

AttachPublish(name) ==
    /\ cmd.pc = "publish" /\ name \in cmd.names /\ <<"root", name>> \notin held
    /\ held' = held \cup {<<"root", name>>}
    /\ UNCHANGED <<forms, text, history, cmd, editor, writer, counts, ghosts>>

\* Fault variant: TASK.md is rewritten before the files are there.
AttachListEarly ==
    /\ cmd.pc = "publish"
    /\ UNCHANGED counts
    /\ Rewritten("folder", Listing(text["folder"], cmd.refs \cup Root(cmd.names)))
    /\ stale' = FALSE
    /\ IF Root(cmd.names) \subseteq held THEN Goto("tidy") ELSE UNCHANGED cmd
    /\ UNCHANGED <<forms, held, history, editor, writer, late>>

\* Fault variant: the new names join those that TASK.md lists.
AttachListMerged ==
    /\ cmd.pc = "publish" /\ Root(cmd.names) \subseteq held
    /\ UNCHANGED counts
    /\ Rewritten("folder", Listing(text["folder"], text["folder"].listed
                                           \cup Root(cmd.names)))
    /\ stale' = FALSE
    /\ Goto("tidy")
    /\ UNCHANGED <<forms, held, history, editor, writer, late>>

\* The section is made from what the directory holds.
AttachList ==
    /\ cmd.pc = "publish" /\ Root(cmd.names) \subseteq held
    /\ UNCHANGED counts
    /\ Rewritten("folder", Listing(text["folder"], cmd.refs \cup Root(cmd.names)))
    /\ stale' = FALSE
    /\ Goto("tidy")
    /\ UNCHANGED <<forms, held, history, editor, writer, late>>

\* A file cannot be published, or TASK.md not be written.
AttachFails ==
    /\ cmd.pc = "publish" /\ Fault
    /\ Goto("undo")
    /\ UNCHANGED <<files, editor, writer, ghosts>>

\* bestEffortRemoveFiles
Undo ==
    /\ cmd.pc = "undo"
    /\ held' = held \ Published
    /\ Exit
    /\ UNCHANGED <<forms, text, history, editor, writer, counts, ghosts>>

UndoFails ==
    /\ cmd.pc = "undo" /\ Fault
    /\ \E left \in SUBSET Published :
         left # {} /\ held' = cmd.refs \cup left
    /\ Exit
    /\ UNCHANGED <<forms, text, history, editor, writer, ghosts>>

-----------------------------------------------------------------------------
(* tb attach, on a file: promoteFileTaskWithAttachments                    *)

\* Fault variant: the file goes before the folder is there.
PromoteStageMoving ==
    /\ cmd.pc = "stage"
    /\ cmd' = [cmd EXCEPT !.pc = "promote", !.staged = history["file"]]
    /\ forms' = {}
    /\ UNCHANGED <<text, held, history, editor, writer, counts, ghosts>>

\* Fault variant: the history stays at the root of the board.
PromoteStageBare ==
    /\ cmd.pc = "stage"
    /\ Goto("promote")
    /\ UNCHANGED <<files, editor, writer, counts, ghosts>>

\* stageLegacyAgentArtifacts
PromoteStage ==
    /\ cmd.pc = "stage"
    /\ cmd' = [cmd EXCEPT !.pc = "promote", !.staged = history["file"]]
    /\ UNCHANGED <<files, editor, writer, counts, ghosts>>

\* The staging directory becomes the folder; until then a failure leaves
\* nothing behind.
PromotePublish ==
    /\ cmd.pc = "promote"
    /\ forms' = forms \cup {"folder"}
    /\ UNCHANGED counts
    /\ Rewritten("folder", Listing(text["file"], Root(cmd.names)))
    /\ held' = Root(cmd.names)
    /\ history' = [history EXCEPT !["folder"] = cmd.staged]
    /\ stale' = FALSE
    /\ Goto("unlink")
    /\ UNCHANGED <<editor, writer, late>>

PromoteUnlink ==
    /\ cmd.pc = "unlink"
    /\ forms' = {"folder"}
    /\ Goto("clear")
    /\ UNCHANGED <<text, held, history, editor, writer, counts, ghosts>>

\* removeLegacyAgentArtifacts.  A failure is a warning.
PromoteClear ==
    /\ cmd.pc = "clear"
    /\ \/ history' = [history EXCEPT !["file"] = {}] /\ UNCHANGED counts
       \/ UNCHANGED history /\ Fault
    /\ Goto("tidy")
    /\ UNCHANGED <<forms, text, held, editor, writer, ghosts>>

-----------------------------------------------------------------------------
(* tb attach --rm, tb edit, and the end of every command                   *)

\* A bare name stands for the legacy attachment when there is no other.
Meant(r) == IF r \in held THEN r ELSE <<"legacy", r[2]>>

\* validateAttachmentRemovals: each is there, none is meant twice.
Removable(refs) ==
    /\ \A r \in refs : Meant(r) \in held
    /\ \A r, q \in refs : Meant(r) = Meant(q) => r = q

\* A file-form task has nothing to remove.
RemoveBegin(refs) ==
    /\ Issue
    /\ IF Here = "folder" /\ Removable(refs)
       THEN cmd' = [Idle EXCEPT !.pc = "unlist",
                                !.refs = {Meant(r) : r \in refs}]
       ELSE Exit
    /\ UNCHANGED <<files, editor, writer, ghosts>>

RemoveUnlist ==
    /\ cmd.pc = "unlist"
    /\ UNCHANGED counts
    /\ Rewritten("folder", Unlisting(text["folder"], cmd.refs))
    /\ Goto("remove")
    /\ UNCHANGED <<forms, held, history, editor, writer, stale, late>>

RemoveFile(r) ==
    /\ cmd.pc = "remove" /\ r \in cmd.refs
    /\ held' = held \ {r}
    /\ cmd' = [cmd EXCEPT !.refs = @ \ {r},
                          !.pc = IF cmd.refs = {r} THEN "tidy" ELSE "remove"]
    /\ UNCHANGED <<forms, text, history, editor, writer, counts, ghosts>>

\* `tb edit` of a field, or of a section.
Edit(part) ==
    /\ Issue
    /\ Rewritten(Here, IF part = "meta" THEN WithField(text[Here])
                                        ELSE WithGoal(text[Here]))
    /\ cmd' = [Idle EXCEPT !.pc = "tidy"]
    /\ UNCHANGED <<forms, held, history, editor, writer, stale, late>>

\* cleanupOrphanFileFormSibling, before the lock is given back.
Tidy ==
    /\ cmd.pc = "tidy"
    /\ forms' = {Here}
    /\ Exit
    /\ UNCHANGED <<text, held, history, editor, writer, counts, ghosts>>

\* An error ends the command where it is, and so does the death of its
\* process.
Stops ==
    /\ cmd.pc # "idle" /\ Fault
    /\ Exit
    /\ UNCHANGED <<files, editor, writer, ghosts>>

-----------------------------------------------------------------------------
(* The editor of the GUI                                                   *)

Closed == [open |-> FALSE, text |-> Blank]

\* enterEdit reads the task; what the board reports later leaves the buffer
\* alone.
OpenEditor ==
    /\ ~editor.open /\ issued < MaxCommands
    /\ editor' = [open |-> TRUE, text |-> text[Here]]
    /\ UNCHANGED <<files, cmd, writer, counts, ghosts>>

CloseEditor ==
    /\ editor.open
    /\ editor' = Closed
    /\ UNCHANGED <<files, cmd, writer, counts, ghosts>>

\* headerAndMetadataEqual
HeaderKept == editor.text.meta = text[Here].meta

\* EditTaskBody: the buffer, with a change of the user's, replaces the task.
Save ==
    /\ editor.open /\ Issue
    /\ editor' = [editor EXCEPT !.text = WithGoal(@)]
    /\ IF HeaderKept
       THEN LET new == Logged(editor'.text)
            IN  /\ text' = [text EXCEPT ![Here] = new]
                /\ kept' = (kept \cap editor.text.log) \cup {issued'}
                /\ stale' = (stale \/ new.listed # text[Here].listed)
       ELSE UNCHANGED <<text, kept, stale>>
    /\ UNCHANGED <<forms, held, history, cmd, writer, late>>

-----------------------------------------------------------------------------
(* AppendEvent of the daemon                                               *)

EventResolves ==
    /\ writer = "none" /\ events < MaxEvents
    /\ events' = events + 1
    /\ writer' = Here
    /\ UNCHANGED <<files, cmd, editor, issued, faults, ghosts>>

\* The promotion has copied the JSONL at the root, or is past it.
Staged == cmd.pc = "promote" \/ "folder" \in forms

EventWritten ==
    /\ writer # "none"
    /\ history' = [history EXCEPT ![writer] = @ \cup {events}]
    /\ late' = late \cup {e \in {events} : writer = "file" /\ Staged}
    /\ writer' = "none"
    /\ UNCHANGED <<forms, text, held, cmd, editor, counts, kept, stale>>

-----------------------------------------------------------------------------

Init ==
    /\ \E f \in StartForms :
         /\ forms = {f}
         /\ held = IF f = "folder" THEN {"legacy"} \X Legacy ELSE {}
         /\ text = [g \in Forms |->
                      IF g = f THEN [Blank EXCEPT !.listed = held] ELSE Blank]
    /\ history = [f \in Forms |-> {}]
    /\ cmd = Idle /\ editor = Closed /\ writer = "none"
    /\ issued = 0 /\ faults = 0 /\ events = 0
    /\ kept = {} /\ stale = FALSE /\ late = {}

Attach ==
    \/ \E names \in (SUBSET Names) \ {{}} : AttachBegin(names)
    \/ \E name \in Names : AttachPublish(name)
    \/ AttachList \/ AttachFails \/ Undo \/ UndoFails

Promote == PromoteStage \/ PromotePublish \/ PromoteUnlink \/ PromoteClear

Remove ==
    \/ \E refs \in (SUBSET Refs) \ {{}} : RemoveBegin(refs)
    \/ RemoveUnlist
    \/ \E r \in Refs : RemoveFile(r)

Next ==
    \/ Attach \/ Promote \/ Remove
    \/ \E part \in {"meta", "goal"} : Edit(part)
    \/ Tidy \/ Stops
    \/ OpenEditor \/ CloseEditor \/ Save
    \/ EventResolves \/ EventWritten

Spec == Init /\ [][Next]_vars

-----------------------------------------------------------------------------
(* Properties                                                              *)

Pcs == {"idle", "publish", "undo", "stage", "promote", "unlink", "clear",
        "unlist", "remove", "tidy"}

\* Every variable stays in its range, and the task is never without its
\* markdown, nor an attachment without the folder.
TypeOK ==
    /\ forms \in (SUBSET Forms) \ {{}}
    /\ text \in [Forms -> Texts]
    /\ held \in SUBSET Refs
    /\ held # {} => "folder" \in forms
    /\ history \in [Forms -> SUBSET (1..MaxEvents)]
    /\ cmd \in [pc : Pcs, names : SUBSET Names, refs : SUBSET Refs,
                staged : SUBSET (1..MaxEvents)]
    /\ editor \in [open : BOOLEAN, text : Texts]
    /\ writer \in Forms \cup {"none"}
    /\ issued \in 0..MaxCommands /\ faults \in 0..MaxFaults
    /\ events \in 0..MaxEvents
    /\ kept \in SUBSET Ids /\ stale \in BOOLEAN /\ late \in SUBSET (1..MaxEvents)

\* The task lists no attachment that it does not have, wherever a command
\* stopped: files come before the list that names them and go after it.
\* Only a save from an old buffer can bring back the name of a removed one.
ListedExist == ~stale => text[Here].listed \subseteq held

\* What a command has written into the Log stays there, through promotion
\* and through a promotion that stopped half way, unless a save overwrote it.
EntriesStay == kept \subseteq text[Here].log

\* An event of a run can be read once it is written, also when the task is
\* promoted, in part or as a whole, unless it came while the promotion ran.
EventsStay ==
    LET written == (1..events) \ (IF writer = "none" THEN {} ELSE {events})
    IN  written \ late \subseteq history[Here]

\* An attach that ends well lists exactly what the folder holds, whatever an
\* earlier command left behind and whatever a save has put back.
AttachRelists ==
    [][cmd.pc = "publish" /\ cmd'.pc = "tidy"
         => text[Here]'.listed = held']_vars

=============================================================================
