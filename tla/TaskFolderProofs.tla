-------------------------- MODULE TaskFolderProofs --------------------------
(* Theorems about TaskFolder, for every value of its constants.            *)
EXTENDS TaskFolder, TLAPS

-----------------------------------------------------------------------------
(* The inductive invariant.                                                *)

\* A command has a number, and so has the event that a writer is about to
\* write; a folder that was read is still there.
Numbered ==
    /\ cmd.pc # "idle" => issued # 0
    /\ writer # "none" => events # 0
    /\ writer = "folder" => "folder" \in forms

\* What the command under the lock knows of the forms.
FormsKnown ==
    /\ cmd.pc \in {"publish", "undo", "unlist", "remove", "unlink"} => "folder" \in forms
    /\ cmd.pc \in {"stage", "promote"} => forms = {"file"}
    /\ cmd.pc = "clear" => forms = {"folder"}

\* What an attach and a removal know of the attachments.
RefsKnown ==
    /\ cmd.pc \in {"publish", "undo"} =>
         /\ cmd.refs \subseteq held
         /\ held \subseteq cmd.refs \cup Root(cmd.names)
         /\ ~stale => text[Here].listed \subseteq cmd.refs
    /\ cmd.pc = "remove" /\ ~stale => text[Here].listed \cap cmd.refs = {}

\* What a promotion has staged.
StagedKnown ==
    LET written == (1..events) \ (IF writer = "none" THEN {} ELSE {events})
    IN  cmd.pc = "promote" => written \ late \subseteq cmd.staged

FolderInv == TypeOK /\ Numbered /\ FormsKnown

-----------------------------------------------------------------------------
(* Facts about the operators.                                              *)

LEMMA TextsOps ==
    ASSUME NEW t \in Texts, NEW i \in Ids
    PROVE  /\ [t EXCEPT !.meta = i] \in Texts
           /\ [t EXCEPT !.goal = i] \in Texts
           /\ [t EXCEPT !.log = @ \cup {i}] \in Texts
           /\ \A refs \in SUBSET Refs : [t EXCEPT !.listed = refs] \in Texts
           /\ \A refs : [t EXCEPT !.listed = @ \ refs] \in Texts
BY DEF Texts

\* A rewrite under a number keeps the texts well formed and adds to the log.
LEMMA RewriteType ==
    ASSUME TypeOK, NEW f \in Forms, NEW t \in Texts, issued' \in Ids,
           Rewritten(f, t)
    PROVE  /\ text' \in [Forms -> Texts]
           /\ kept' \in SUBSET Ids
           /\ text'[f].listed = t.listed
           /\ text'[f].log = t.log \cup {issued'}
<1>1. Logged(t) \in Texts
  BY TextsOps DEF Logged
<1>2. Logged(t).listed = t.listed /\ Logged(t).log = t.log \cup {issued'}
  BY DEF Logged, Texts
<1> QED
  BY <1>1, <1>2 DEF TypeOK, Rewritten

LEMMA RootRefs == \A names \in SUBSET Names : Root(names) \in SUBSET Refs
BY DEF Root, Refs

LEMMA HereForm == TypeOK => Here \in Forms /\ Here \in forms
BY DEF TypeOK, Here, Canonical, Forms

-----------------------------------------------------------------------------
(* Every variable stays in its range.                                      *)

LEMMA InitInv == Init => FolderInv
<1> SUFFICES ASSUME Init PROVE FolderInv
  OBVIOUS
<1>1. Blank \in Texts /\ \A refs \in SUBSET Refs : [Blank EXCEPT !.listed = refs] \in Texts
  BY DEF Blank, Texts
<1>2. {"legacy"} \X Legacy \in SUBSET Refs
  BY FolderAssumption DEF Refs
<1>3. PICK f \in StartForms :
         /\ forms = {f}
         /\ held = IF f = "folder" THEN {"legacy"} \X Legacy ELSE {}
         /\ text = [g \in Forms |->
                      IF g = f THEN [Blank EXCEPT !.listed = held] ELSE Blank]
  BY DEF Init
<1>4. held \in SUBSET Refs /\ (held # {} => "folder" \in forms)
  BY <1>2, <1>3
<1>5. forms \in (SUBSET Forms) \ {{}} /\ text \in [Forms -> Texts]
  BY <1>1, <1>3, <1>4, FolderAssumption
<1>6. cmd \in [pc : Pcs, names : SUBSET Names, refs : SUBSET Refs,
               staged : SUBSET (1..MaxEvents)] /\ cmd.pc = "idle"
  BY DEF Init, Idle, Pcs
<1>7. editor \in [open : BOOLEAN, text : Texts]
  BY <1>1 DEF Init, Closed
<1>8. history \in [Forms -> SUBSET (1..MaxEvents)]
  BY DEF Init
<1>9. writer = "none" /\ issued = 0 /\ faults = 0 /\ events = 0
  BY DEF Init
<1>10. /\ writer \in Forms \cup {"none"}
       /\ issued \in 0..MaxCommands /\ faults \in 0..MaxFaults
       /\ events \in 0..MaxEvents
  BY <1>9, FolderAssumption
<1>11. kept \in SUBSET Ids /\ late \in SUBSET (1..MaxEvents)
  BY DEF Init
<1>12. stale \in BOOLEAN
  BY Zenon DEF Init
<1>13. TypeOK
  BY <1>4, <1>5, <1>6, <1>7, <1>8, <1>10, <1>11, <1>12 DEF TypeOK
<1> QED
  BY <1>6, <1>9, <1>13 DEF FolderInv, Numbered, FormsKnown

\* The counters, the folder's name and the numbers of commands under way.
LEMMA IssueType ==
    ASSUME FolderInv, Issue
    PROVE  /\ issued' \in 0..MaxCommands /\ issued' \in Ids /\ issued' # 0
           /\ faults' = faults /\ events' = events
BY FolderAssumption DEF FolderInv, TypeOK, Issue, Ids

LEMMA UnderWay ==
    ASSUME FolderInv, cmd.pc # "idle"
    PROVE  issued \in Ids
BY FolderAssumption DEF FolderInv, TypeOK, Numbered, Ids

LEMMA FaultType ==
    ASSUME FolderInv, Fault
    PROVE  faults' \in 0..MaxFaults /\ issued' = issued /\ events' = events
BY FolderAssumption DEF FolderInv, TypeOK, Fault

LEMMA CmdType ==
    ASSUME TypeOK
    PROVE  /\ Idle \in [pc : Pcs, names : SUBSET Names, refs : SUBSET Refs,
                        staged : SUBSET (1..MaxEvents)]
           /\ Idle.pc = "idle"
           /\ \A pc \in Pcs, names \in SUBSET Names, refs \in SUBSET Refs :
                /\ [Idle EXCEPT !.pc = pc] \in
                     [pc : Pcs, names : SUBSET Names, refs : SUBSET Refs,
                      staged : SUBSET (1..MaxEvents)]
                /\ [Idle EXCEPT !.pc = pc, !.names = names, !.refs = refs] \in
                     [pc : Pcs, names : SUBSET Names, refs : SUBSET Refs,
                      staged : SUBSET (1..MaxEvents)]
           /\ \A pc \in Pcs : [cmd EXCEPT !.pc = pc] \in
                     [pc : Pcs, names : SUBSET Names, refs : SUBSET Refs,
                      staged : SUBSET (1..MaxEvents)]
BY DEF TypeOK, Idle, Pcs

LEMMA AttachInv == FolderInv /\ Attach => FolderInv'
<1> SUFFICES ASSUME FolderInv, Attach PROVE FolderInv'
  OBVIOUS
<1> USE DEF FolderInv
<1>1. ASSUME NEW names \in (SUBSET Names) \ {{}}, AttachBegin(names)
      PROVE  FolderInv'
  <2>1. Here = "file" => forms = {"file"}
    BY ZenonT(60) DEF TypeOK, Here, Canonical, Forms
  <2>2. Here # "file" => "folder" \in forms
    BY DEF Here, Canonical
  <2>3. /\ cmd' \in [pc : Pcs, names : SUBSET Names, refs : SUBSET Refs,
                     staged : SUBSET (1..MaxEvents)]
        /\ \/ cmd'.pc = "idle"
           \/ (cmd'.pc = "stage" /\ Here = "file")
           \/ (cmd'.pc = "publish" /\ Here # "file")
    <3>1. CASE Here = "file"
      <4>1. cmd' = [Idle EXCEPT !.pc = "stage", !.names = names]
        BY <1>1, <3>1 DEF AttachBegin
      <4> QED
        BY <4>1, <3>1 DEF Idle, Pcs
    <3>2. CASE Here # "file" /\ Clash(names)
      <4>1. cmd' = Idle
        BY <1>1, <3>2 DEF AttachBegin, Exit
      <4> QED
        BY <4>1 DEF Idle, Pcs
    <3>3. CASE Here # "file" /\ ~Clash(names)
      <4>1. cmd' = [Idle EXCEPT !.pc = "publish", !.names = names, !.refs = held]
        BY <1>1, <3>3 DEF AttachBegin, Found
      <4> QED
        BY <4>1, <3>3 DEF Idle, Pcs, TypeOK
    <3> QED
      BY <3>1, <3>2, <3>3
  <2>5. UNCHANGED <<forms, text, held, history, editor, writer, kept, stale, late>>
    BY <1>1 DEF AttachBegin, files, ghosts
  <2>6. issued' \in 0..MaxCommands /\ issued' # 0 /\ faults' = faults /\ events' = events
    BY <1>1, IssueType DEF AttachBegin
  <2>7. TypeOK'
    BY <2>3, <2>5, <2>6 DEF TypeOK
  <2> QED
    BY <2>1, <2>2, <2>3, <2>5, <2>6, <2>7 DEF Numbered, FormsKnown
<1>2. ASSUME NEW name \in Names, AttachPublish(name)
      PROVE  FolderInv'
  BY <1>2 DEF AttachPublish, TypeOK, Numbered, FormsKnown, counts, ghosts, Refs
<1>3. CASE AttachList
  <2>1. text["folder"] \in Texts /\ cmd.refs \cup Root(cmd.names) \in SUBSET Refs
    BY RootRefs DEF TypeOK, Forms
  <2>2. Listing(text["folder"], cmd.refs \cup Root(cmd.names)) \in Texts
    BY <2>1, TextsOps, FolderAssumption DEF Listing, Texts
  <2>3. issued' \in Ids
    BY <1>3, UnderWay DEF AttachList, counts
  <2>4. text' \in [Forms -> Texts] /\ kept' \in SUBSET Ids
    BY <1>3, <2>2, <2>3, RewriteType DEF AttachList, Forms
  <2> QED
    BY <1>3, <2>4 DEF AttachList, TypeOK, Numbered, FormsKnown, counts, Goto, Pcs
<1>4. CASE AttachFails
  BY <1>4, FaultType
     DEF AttachFails, TypeOK, Numbered, FormsKnown, files, ghosts, Goto, Pcs
<1>5. CASE Undo
  BY <1>5 DEF Undo, TypeOK, Numbered, FormsKnown, counts, ghosts, Exit, Idle, Pcs
<1>6. CASE UndoFails
  BY <1>6, FaultType
     DEF UndoFails, Published, TypeOK, Numbered, FormsKnown, ghosts, Exit, Idle, Pcs
<1> QED
  BY <1>1, <1>2, <1>3, <1>4, <1>5, <1>6 DEF Attach

LEMMA PromoteInv == FolderInv /\ Promote => FolderInv'
<1> SUFFICES ASSUME FolderInv, Promote PROVE FolderInv'
  OBVIOUS
<1> USE DEF FolderInv
<1>1. CASE PromoteStage
  BY <1>1 DEF PromoteStage, TypeOK, Numbered, FormsKnown, files, ghosts, counts,
              Forms, Pcs
<1>2. CASE PromotePublish
  <2>1. Root(cmd.names) \in SUBSET Refs /\ text["file"] \in Texts
    BY RootRefs DEF TypeOK, Forms
  <2>2. Listing(text["file"], Root(cmd.names)) \in Texts
    BY <2>1, TextsOps DEF Listing, Texts
  <2>3. issued' \in Ids
    BY <1>2, UnderWay DEF PromotePublish, counts
  <2>4. text' \in [Forms -> Texts] /\ kept' \in SUBSET Ids
    BY <1>2, <2>2, <2>3, RewriteType DEF PromotePublish, Forms
  <2> QED
    BY <1>2, <2>1, <2>4
       DEF PromotePublish, TypeOK, Numbered, FormsKnown, counts, Goto, Forms, Pcs
<1>3. CASE PromoteUnlink
  BY <1>3 DEF PromoteUnlink, TypeOK, Numbered, FormsKnown, counts, ghosts, Goto,
              Forms, Pcs
<1>4. CASE PromoteClear
  <2>1. cmd'.pc = "tidy" /\ cmd' \in [pc : Pcs, names : SUBSET Names,
            refs : SUBSET Refs, staged : SUBSET (1..MaxEvents)]
    BY <1>4 DEF PromoteClear, TypeOK, Goto, Pcs
  <2>2. history' \in [Forms -> SUBSET (1..MaxEvents)]
    BY <1>4 DEF PromoteClear, TypeOK
  <2>3. faults' \in 0..MaxFaults /\ issued' = issued /\ events' = events
    BY <1>4, FaultType DEF PromoteClear, counts, TypeOK
  <2> QED
    BY <1>4, <2>1, <2>2, <2>3
       DEF PromoteClear, TypeOK, Numbered, FormsKnown, ghosts
<1> QED
  BY <1>1, <1>2, <1>3, <1>4 DEF Promote

LEMMA RemoveInv == FolderInv /\ Remove => FolderInv'
<1> SUFFICES ASSUME FolderInv, Remove PROVE FolderInv'
  OBVIOUS
<1> USE DEF FolderInv
<1>1. ASSUME NEW refs \in (SUBSET Refs) \ {{}}, RemoveBegin(refs)
      PROVE  FolderInv'
  <2>1. {Meant(r) : r \in refs} \in SUBSET Refs
    BY DEF Meant, Refs
  <2>2. Here = "folder" => "folder" \in forms
    BY DEF Here, Canonical
  <2>3. /\ cmd' \in [pc : Pcs, names : SUBSET Names, refs : SUBSET Refs,
                     staged : SUBSET (1..MaxEvents)]
        /\ cmd'.pc = "idle" \/ (cmd'.pc = "unlist" /\ Here = "folder")
    <3>1. CASE Here = "folder" /\ Removable(refs)
      <4>1. cmd' = [Idle EXCEPT !.pc = "unlist", !.refs = {Meant(r) : r \in refs}]
        BY <1>1, <3>1 DEF RemoveBegin
      <4> QED
        BY <4>1, <3>1, <2>1 DEF Idle, Pcs
    <3>2. CASE ~(Here = "folder" /\ Removable(refs))
      <4>1. cmd' = Idle
        BY <1>1, <3>2 DEF RemoveBegin, Exit
      <4> QED
        BY <4>1, CmdType
    <3> QED
      BY <3>1, <3>2
  <2>4. UNCHANGED <<forms, text, held, history, editor, writer, kept, stale, late>>
    BY <1>1 DEF RemoveBegin, files, ghosts
  <2>5. issued' \in 0..MaxCommands /\ issued' # 0 /\ faults' = faults /\ events' = events
    BY <1>1, IssueType DEF RemoveBegin
  <2>6. TypeOK'
    BY <2>3, <2>4, <2>5 DEF TypeOK
  <2> QED
    BY <2>2, <2>3, <2>4, <2>5, <2>6 DEF Numbered, FormsKnown
<1>2. CASE RemoveUnlist
  <2>1. text["folder"] \in Texts
    BY DEF TypeOK, Forms
  <2>2. Unlisting(text["folder"], cmd.refs) \in Texts
    BY <2>1 DEF Unlisting, Texts
  <2>3. issued' \in Ids
    BY <1>2, UnderWay DEF RemoveUnlist, counts
  <2>4. text' \in [Forms -> Texts] /\ kept' \in SUBSET Ids
    BY <1>2, <2>2, <2>3, RewriteType DEF RemoveUnlist, Forms
  <2> QED
    BY <1>2, <2>4 DEF RemoveUnlist, TypeOK, Numbered, FormsKnown, counts, Goto, Pcs
<1>3. ASSUME NEW r \in Refs, RemoveFile(r)
      PROVE  FolderInv'
  <2>1. /\ cmd' \in [pc : Pcs, names : SUBSET Names, refs : SUBSET Refs,
                     staged : SUBSET (1..MaxEvents)]
        /\ cmd'.pc \in {"tidy", "remove"}
    BY <1>3 DEF RemoveFile, TypeOK, Pcs
  <2>2. held' \in SUBSET Refs /\ (held' # {} => held # {})
    BY <1>3 DEF RemoveFile, TypeOK
  <2> QED
    BY <1>3, <2>1, <2>2
       DEF RemoveFile, TypeOK, Numbered, FormsKnown, counts, ghosts
<1> QED
  BY <1>1, <1>2, <1>3 DEF Remove

LEMMA EditInv == \A part \in {"meta", "goal"} : FolderInv /\ Edit(part) => FolderInv'
<1> SUFFICES ASSUME NEW part \in {"meta", "goal"}, FolderInv, Edit(part)
             PROVE  FolderInv'
  OBVIOUS
<1> USE DEF FolderInv
<1> DEFINE t == IF part = "meta" THEN WithField(text[Here]) ELSE WithGoal(text[Here])
<1>1. issued' \in Ids /\ issued' \in 0..MaxCommands /\ issued' # 0
      /\ faults' = faults /\ events' = events
  BY IssueType DEF Edit
<1>2. text[Here] \in Texts /\ Here \in Forms
  BY HereForm DEF TypeOK
<1>3. t \in Texts
  BY <1>1, <1>2, TextsOps DEF WithField, WithGoal
<1>4. Rewritten(Here, t)
  BY DEF Edit
<1>5. text' \in [Forms -> Texts] /\ kept' \in SUBSET Ids
  BY <1>1, <1>2, <1>3, <1>4, RewriteType
<1>6. cmd' = [Idle EXCEPT !.pc = "tidy"]
  BY DEF Edit
<1>7. cmd' \in [pc : Pcs, names : SUBSET Names, refs : SUBSET Refs,
                staged : SUBSET (1..MaxEvents)] /\ cmd'.pc = "tidy"
  BY <1>6 DEF Idle, Pcs
<1> QED
  BY <1>1, <1>5, <1>7 DEF Edit, TypeOK, Numbered, FormsKnown

LEMMA EndInv == FolderInv /\ (Tidy \/ Stops) => FolderInv'
<1> SUFFICES ASSUME FolderInv, Tidy \/ Stops PROVE FolderInv'
  OBVIOUS
<1> USE DEF FolderInv
<1>1. CASE Tidy
  <2>1. Here \in Forms /\ Here \in forms /\ ("folder" \in forms => Here = "folder")
    BY HereForm DEF Here, Canonical
  <2>2. forms' \in (SUBSET Forms) \ {{}} /\ ("folder" \in forms => "folder" \in forms')
    BY <1>1, <2>1 DEF Tidy
  <2>3. cmd' \in [pc : Pcs, names : SUBSET Names, refs : SUBSET Refs,
                  staged : SUBSET (1..MaxEvents)] /\ cmd'.pc = "idle"
    BY <1>1 DEF Tidy, Exit, Idle, Pcs
  <2> QED
    BY <1>1, <2>2, <2>3 DEF Tidy, TypeOK, Numbered, FormsKnown, counts, ghosts
<1>2. CASE Stops
  <2>1. cmd' \in [pc : Pcs, names : SUBSET Names, refs : SUBSET Refs,
                  staged : SUBSET (1..MaxEvents)] /\ cmd'.pc = "idle"
    BY <1>2 DEF Stops, Exit, Idle, Pcs
  <2> QED
    BY <1>2, <2>1, FaultType
       DEF Stops, TypeOK, Numbered, FormsKnown, files, ghosts
<1> QED
  BY <1>1, <1>2

LEMMA EditorInv == FolderInv /\ (OpenEditor \/ CloseEditor \/ Save) => FolderInv'
<1> SUFFICES ASSUME FolderInv, OpenEditor \/ CloseEditor \/ Save PROVE FolderInv'
  OBVIOUS
<1> USE DEF FolderInv
<1>1. text[Here] \in Texts /\ Here \in Forms /\ editor.text \in Texts
  BY HereForm DEF TypeOK
<1>2. CASE OpenEditor
  BY <1>1, <1>2
     DEF OpenEditor, TypeOK, Numbered, FormsKnown, files, counts, ghosts
<1>3. CASE CloseEditor
  <2>1. editor' \in [open : BOOLEAN, text : Texts]
    BY <1>3, FolderAssumption DEF CloseEditor, Closed, Blank, Texts
  <2> QED
    BY <1>3, <2>1
       DEF CloseEditor, TypeOK, Numbered, FormsKnown, files, counts, ghosts
<1>4. CASE Save
  <2>1. issued' \in Ids /\ issued' \in 0..MaxCommands /\ issued' # 0
        /\ faults' = faults /\ events' = events
    BY <1>4, IssueType DEF Save
  <2>2. editor'.text \in Texts /\ editor' \in [open : BOOLEAN, text : Texts]
    <3>1. WithGoal(editor.text) \in Texts
      BY <1>1, <2>1, TextsOps DEF WithGoal
    <3> QED
      BY <1>4, <3>1 DEF Save, TypeOK
  <2>3. Logged(editor'.text) \in Texts
    BY <2>1, <2>2, TextsOps DEF Logged
  <2>4. text' \in [Forms -> Texts] /\ kept' \in SUBSET Ids
    BY <1>1, <1>4, <2>1, <2>3 DEF Save, TypeOK
  <2>5. stale' \in BOOLEAN
    BY <1>4 DEF Save, TypeOK
  <2> QED
    BY <1>4, <2>1, <2>2, <2>4, <2>5 DEF Save, TypeOK, Numbered, FormsKnown
<1> QED
  BY <1>2, <1>3, <1>4

LEMMA EventInv == FolderInv /\ (EventResolves \/ EventWritten) => FolderInv'
<1> SUFFICES ASSUME FolderInv, EventResolves \/ EventWritten PROVE FolderInv'
  OBVIOUS
<1> USE DEF FolderInv
<1>1. CASE EventResolves
  <2>1. events' \in 0..MaxEvents /\ events' # 0
    BY <1>1, FolderAssumption DEF EventResolves, TypeOK
  <2>2. writer' \in Forms /\ (writer' = "folder" => "folder" \in forms)
    BY <1>1, HereForm DEF EventResolves, Here, Canonical
  <2> QED
    BY <1>1, <2>1, <2>2
       DEF EventResolves, TypeOK, Numbered, FormsKnown, files, ghosts
<1>2. CASE EventWritten
  <2>1. events \in 1..MaxEvents /\ writer \in Forms
    BY <1>2, FolderAssumption DEF EventWritten, TypeOK, Numbered
  <2>2. history' \in [Forms -> SUBSET (1..MaxEvents)] /\ late' \in SUBSET (1..MaxEvents)
    BY <1>2, <2>1 DEF EventWritten, TypeOK
  <2> QED
    BY <1>2, <2>2 DEF EventWritten, TypeOK, Numbered, FormsKnown, counts
<1> QED
  BY <1>1, <1>2

LEMMA StepInv == FolderInv /\ [Next]_vars => FolderInv'
<1>1. FolderInv /\ UNCHANGED vars => FolderInv'
  BY DEF FolderInv, TypeOK, Numbered, FormsKnown, vars, files, counts, ghosts
<1> QED
  BY <1>1, AttachInv, PromoteInv, RemoveInv, EditInv, EndInv, EditorInv, EventInv
     DEF Next

\* Every variable of the task's files stays in its range; the task always has
\* markdown, and attachments only beside a folder.
THEOREM FolderTypes == Spec => []TypeOK
<1>1. FolderInv => TypeOK
  BY DEF FolderInv
<1> QED
  BY <1>1, InitInv, StepInv, PTL DEF Spec

-----------------------------------------------------------------------------
(* The attachments and the list of them.                                   *)

\* Which markdown is read changes only when a promotion publishes its folder.
LEMMA SameHere == forms' = forms => Here' = Here
BY DEF Here

LEMMA TidyHere == FolderInv /\ (Tidy \/ PromoteUnlink) => Here' = Here
BY DEF FolderInv, TypeOK, FormsKnown, Forms, Tidy, PromoteUnlink, Here, Canonical

LEMMA FolderHere == "folder" \in forms => Here = "folder"
BY DEF Here, Canonical

ListInv == RefsKnown /\ ListedExist

\* A command that ends leaves nothing to know about its attachments.
LEMMA ListIdle ==
    ASSUME ListInv, forms' = forms, text' = text, stale' = stale, held' = held,
           cmd'.pc \notin {"publish", "undo", "remove"}
    PROVE  ListInv'
BY SameHere DEF ListInv, ListedExist, RefsKnown

LEMMA AttachKeepsList == FolderInv /\ ListInv /\ Attach => ListInv'
<1> SUFFICES ASSUME FolderInv, ListInv, Attach PROVE ListInv'
  OBVIOUS
<1>1. ASSUME NEW names \in (SUBSET Names) \ {{}}, AttachBegin(names)
      PROVE  ListInv'
  <2>1. forms' = forms /\ text' = text /\ stale' = stale /\ held' = held
    BY <1>1 DEF AttachBegin, files, ghosts
  <2>2. CASE cmd'.pc \notin {"publish", "undo", "remove"}
    BY <2>1, <2>2, ListIdle
  <2>3. CASE Here # "file" /\ ~Clash(names)
    <3>1. cmd' = [Idle EXCEPT !.pc = "publish", !.names = names, !.refs = held]
      BY <1>1, <2>3 DEF AttachBegin, Found
    <3>2. cmd'.pc = "publish" /\ cmd'.refs = held
      BY <3>1 DEF Idle
    <3> QED
      BY <2>1, <3>2, SameHere DEF ListInv, ListedExist, RefsKnown
  <2>4. CASE Here = "file"
    <3>1. cmd' = [Idle EXCEPT !.pc = "stage", !.names = names]
      BY <1>1, <2>4 DEF AttachBegin
    <3> QED
      BY <2>2, <3>1 DEF Idle
  <2>5. CASE Here # "file" /\ Clash(names)
    <3>1. cmd' = Idle
      BY <1>1, <2>5 DEF AttachBegin, Exit
    <3> QED
      BY <2>2, <3>1 DEF Idle
  <2> QED
    BY <2>3, <2>4, <2>5
<1>2. ASSUME NEW name \in Names, AttachPublish(name)
      PROVE  ListInv'
  <2>1. <<"root", name>> \in Root(cmd.names)
    BY <1>2 DEF AttachPublish, Root
  <2> QED
    BY <1>2, <2>1, SameHere
       DEF AttachPublish, counts, ghosts, ListInv, ListedExist, RefsKnown
<1>3. CASE AttachList
  <2>1. Here = "folder" /\ Here' = "folder"
    BY <1>3, FolderHere, SameHere DEF AttachList, FolderInv, FormsKnown
  <2>2. text'["folder"].listed = cmd.refs \cup Root(cmd.names)
    BY <1>3 DEF AttachList, Rewritten, Listing, Logged, FolderInv, TypeOK, Forms, Texts
  <2>3. cmd'.pc = "tidy" /\ held' = held
    BY <1>3 DEF AttachList, Goto, FolderInv, TypeOK
  <2>4. cmd.refs \cup Root(cmd.names) \subseteq held
    BY <1>3 DEF AttachList, ListInv, RefsKnown
  <2> QED
    BY <2>1, <2>2, <2>3, <2>4 DEF ListInv, ListedExist, RefsKnown
<1>4. CASE AttachFails
  <2>1. cmd'.pc = "undo" /\ cmd'.refs = cmd.refs /\ cmd'.names = cmd.names
    BY <1>4 DEF AttachFails, Goto, FolderInv, TypeOK
  <2> QED
    BY <1>4, <2>1, SameHere
       DEF AttachFails, files, ghosts, ListInv, ListedExist, RefsKnown
<1>5. CASE Undo \/ UndoFails
  <2>1. cmd'.pc = "idle" /\ cmd.refs \subseteq held'
    BY <1>5 DEF Undo, UndoFails, Published, Exit, Idle, ListInv, RefsKnown
  <2>2. forms' = forms /\ text' = text /\ stale' = stale
    BY <1>5 DEF Undo, UndoFails, ghosts
  <2>3. ~stale => text[Here].listed \subseteq cmd.refs
    BY <1>5 DEF Undo, UndoFails, ListInv, RefsKnown
  <2> QED
    BY <2>1, <2>2, <2>3, SameHere DEF ListInv, ListedExist, RefsKnown
<1> QED
  BY <1>1, <1>2, <1>3, <1>4, <1>5 DEF Attach

LEMMA PromoteKeepsList == FolderInv /\ ListInv /\ Promote => ListInv'
<1> SUFFICES ASSUME FolderInv, ListInv, Promote PROVE ListInv'
  OBVIOUS
<1>1. CASE PromoteStage
  <2>1. cmd'.pc = "promote"
    BY <1>1 DEF PromoteStage, FolderInv, TypeOK
  <2> QED
    BY <1>1, <2>1, ListIdle DEF PromoteStage, files, ghosts
<1>2. CASE PromotePublish
  <2>1. Here' = "folder"
    BY <1>2 DEF PromotePublish, Here, Canonical
  <2>2. text'["folder"].listed = Root(cmd.names)
    BY <1>2 DEF PromotePublish, Rewritten, Listing, Logged, FolderInv, TypeOK,
                Forms, Texts
  <2>3. cmd'.pc = "unlink" /\ held' = Root(cmd.names)
    BY <1>2 DEF PromotePublish, Goto, FolderInv, TypeOK
  <2> QED
    BY <2>1, <2>2, <2>3 DEF ListInv, ListedExist, RefsKnown
<1>3. CASE PromoteUnlink
  <2>1. cmd'.pc = "clear"
    BY <1>3 DEF PromoteUnlink, Goto, FolderInv, TypeOK
  <2> QED
    BY <1>3, <2>1, TidyHere
       DEF PromoteUnlink, ghosts, ListInv, ListedExist, RefsKnown
<1>4. CASE PromoteClear
  <2>1. cmd'.pc = "tidy"
    BY <1>4 DEF PromoteClear, Goto, FolderInv, TypeOK
  <2> QED
    BY <1>4, <2>1, ListIdle DEF PromoteClear, ghosts
<1> QED
  BY <1>1, <1>2, <1>3, <1>4 DEF Promote

LEMMA RemoveKeepsList == FolderInv /\ ListInv /\ Remove => ListInv'
<1> SUFFICES ASSUME FolderInv, ListInv, Remove PROVE ListInv'
  OBVIOUS
<1>1. ASSUME NEW refs \in (SUBSET Refs) \ {{}}, RemoveBegin(refs)
      PROVE  ListInv'
  <2>1. CASE Here = "folder" /\ Removable(refs)
    <3>1. cmd' = [Idle EXCEPT !.pc = "unlist", !.refs = {Meant(q) : q \in refs}]
      BY <1>1, <2>1 DEF RemoveBegin
    <3>2. cmd'.pc = "unlist"
      BY <3>1 DEF Idle
    <3> QED
      BY <1>1, <3>2, ListIdle DEF RemoveBegin, files, ghosts
  <2>2. CASE ~(Here = "folder" /\ Removable(refs))
    <3>1. cmd'.pc = "idle"
      BY <1>1, <2>2 DEF RemoveBegin, Exit, Idle
    <3> QED
      BY <1>1, <3>1, ListIdle DEF RemoveBegin, files, ghosts
  <2> QED
    BY <2>1, <2>2
<1>2. CASE RemoveUnlist
  <2>1. Here = "folder" /\ Here' = "folder"
    BY <1>2, FolderHere, SameHere DEF RemoveUnlist, FolderInv, FormsKnown
  <2>2. text'["folder"].listed = text["folder"].listed \ cmd.refs
    BY <1>2 DEF RemoveUnlist, Rewritten, Unlisting, Logged, FolderInv, TypeOK,
                Forms, Texts
  <2>3. cmd'.pc = "remove" /\ cmd'.refs = cmd.refs
    BY <1>2 DEF RemoveUnlist, Goto, FolderInv, TypeOK
  <2> QED
    BY <1>2, <2>1, <2>2, <2>3 DEF RemoveUnlist, ListInv, ListedExist, RefsKnown
<1>3. ASSUME NEW r \in Refs, RemoveFile(r)
      PROVE  ListInv'
  <2>1. cmd'.pc \in {"tidy", "remove"} /\ cmd'.refs = cmd.refs \ {r}
    BY <1>3 DEF RemoveFile, FolderInv, TypeOK
  <2>2. ~stale => r \notin text[Here].listed
    BY <1>3 DEF RemoveFile, ListInv, RefsKnown
  <2> QED
    BY <1>3, <2>1, <2>2, SameHere
       DEF RemoveFile, ghosts, ListInv, ListedExist, RefsKnown
<1> QED
  BY <1>1, <1>2, <1>3 DEF Remove

\* The rest of the steps leave the attachments alone.
LEMMA ListSame ==
    ASSUME ListInv, forms' = forms, text' = text, stale' = stale, held' = held,
           cmd' = cmd
    PROVE  ListInv'
BY SameHere DEF ListInv, ListedExist, RefsKnown

LEMMA EditKeepsList ==
    \A part \in {"meta", "goal"} : FolderInv /\ ListInv /\ Edit(part) => ListInv'
<1> SUFFICES ASSUME NEW part \in {"meta", "goal"}, FolderInv, ListInv, Edit(part)
             PROVE  ListInv'
  OBVIOUS
<1>1. cmd' = [Idle EXCEPT !.pc = "tidy"]
  BY DEF Edit
<1>2. cmd'.pc = "tidy"
  BY <1>1 DEF Idle
<1>3. text'[Here].listed = text[Here].listed
  BY HereForm DEF Edit, Rewritten, Logged, WithField, WithGoal, FolderInv, TypeOK, Texts
<1> QED
  BY <1>2, <1>3, SameHere DEF Edit, ListInv, ListedExist, RefsKnown

LEMMA RestKeepsList ==
    FolderInv /\ ListInv /\ (Tidy \/ Stops \/ OpenEditor \/ CloseEditor \/ Save
                             \/ EventResolves \/ EventWritten) => ListInv'
<1> SUFFICES ASSUME FolderInv, ListInv,
                    Tidy \/ Stops \/ OpenEditor \/ CloseEditor \/ Save
                      \/ EventResolves \/ EventWritten
             PROVE  ListInv'
  OBVIOUS
<1>1. CASE Tidy
  <2>1. cmd'.pc = "idle"
    BY <1>1 DEF Tidy, Exit, Idle
  <2> QED
    BY <1>1, <2>1, TidyHere DEF Tidy, ghosts, ListInv, ListedExist, RefsKnown
<1>2. CASE Stops
  <2>1. cmd'.pc = "idle"
    BY <1>2 DEF Stops, Exit, Idle
  <2> QED
    BY <1>2, <2>1, ListIdle DEF Stops, files, ghosts
<1>3. CASE OpenEditor \/ CloseEditor \/ EventResolves \/ EventWritten
  BY <1>3, ListSame
     DEF OpenEditor, CloseEditor, EventResolves, EventWritten, files, ghosts
<1>4. CASE Save
  <2>1. cmd.pc = "idle" /\ cmd' = cmd /\ held' = held /\ Here' = Here
    BY <1>4, SameHere DEF Save, Issue
  <2>2. ~stale' => ~stale /\ text'[Here].listed = text[Here].listed
    BY <1>4, HereForm DEF Save, FolderInv, TypeOK
  <2> QED
    BY <2>1, <2>2 DEF ListInv, ListedExist, RefsKnown
<1> QED
  BY <1>1, <1>2, <1>3, <1>4

LEMMA ListStart == Init => ListInv
<1> SUFFICES ASSUME Init PROVE ListInv
  OBVIOUS
<1>1. PICK f \in StartForms :
         /\ forms = {f}
         /\ text = [g \in Forms |->
                      IF g = f THEN [Blank EXCEPT !.listed = held] ELSE Blank]
  BY DEF Init
<1>2. f \in Forms /\ Here = f
  BY <1>1, FolderAssumption DEF Here, Canonical, Forms
<1>3. text[Here].listed = held
  BY <1>1, <1>2 DEF Blank
<1>4. cmd.pc = "idle"
  BY DEF Init, Idle
<1> QED
  BY <1>3, <1>4 DEF ListInv, ListedExist, RefsKnown

LEMMA ListStep == FolderInv /\ ListInv /\ [Next]_vars => ListInv'
<1>1. ListInv /\ UNCHANGED vars => ListInv'
  BY ListSame DEF vars, files, ghosts
<1> QED
  BY <1>1, AttachKeepsList, PromoteKeepsList, RemoveKeepsList, EditKeepsList,
     RestKeepsList DEF Next

\* The task lists no attachment that is not in its folder, wherever a command
\* stopped: the order of writes of attach.go, on every path.
THEOREM ListedThere == Spec => []ListedExist
<1>1. ListInv => ListedExist
  BY DEF ListInv
<1> QED
  BY <1>1, InitInv, StepInv, ListStart, ListStep, PTL DEF Spec

LEMMA RelistStep ==
    FolderInv /\ ListInv /\ [Next]_vars
      => [cmd.pc = "publish" /\ cmd'.pc = "tidy" => text[Here]'.listed = held']_vars
<1> SUFFICES ASSUME FolderInv, ListInv, Next, cmd.pc = "publish", cmd'.pc = "tidy"
             PROVE  text'[Here'].listed = held'
  OBVIOUS
<1>1. AttachList
  <2>1. CASE Attach
    <3>1. ~ \E names \in (SUBSET Names) \ {{}} : AttachBegin(names)
      BY DEF AttachBegin, Issue
    <3>2. ~ \E name \in Names : AttachPublish(name)
      BY DEF AttachPublish
    <3>3. ~AttachFails /\ ~Undo /\ ~UndoFails
      BY DEF AttachFails, Undo, UndoFails, Goto, FolderInv, TypeOK
    <3> QED
      BY <2>1, <3>1, <3>2, <3>3 DEF Attach
  <2>2. ~Promote
    BY DEF Promote, PromoteStage, PromotePublish, PromoteUnlink, PromoteClear
  <2>3. ~Remove
    BY DEF Remove, RemoveBegin, RemoveUnlist, RemoveFile, Issue
  <2>4. ~ \E part \in {"meta", "goal"} : Edit(part)
    BY DEF Edit, Issue
  <2>5. ~Tidy /\ ~Stops
    BY DEF Tidy, Stops, Exit, Idle
  <2>6. ~OpenEditor /\ ~CloseEditor /\ ~Save /\ ~EventResolves /\ ~EventWritten
    BY DEF OpenEditor, CloseEditor, Save, Issue, EventResolves, EventWritten
  <2> QED
    BY <2>1, <2>2, <2>3, <2>4, <2>5, <2>6 DEF Next
<1>2. Here' = "folder"
  BY <1>1, FolderHere, SameHere DEF AttachList, FolderInv, FormsKnown
<1>3. text'["folder"].listed = cmd.refs \cup Root(cmd.names)
  BY <1>1 DEF AttachList, Rewritten, Listing, Logged, FolderInv, TypeOK, Forms, Texts
<1>4. held' = held /\ held = cmd.refs \cup Root(cmd.names)
  BY <1>1 DEF AttachList, ListInv, RefsKnown
<1> QED
  BY <1>2, <1>3, <1>4

\* An attach that ends well lists exactly what the folder holds: between the
\* read of attachments/ and the write of TASK.md nobody else changes either.
THEOREM RelistsAll == Spec => AttachRelists
<1> QED
  BY InitInv, StepInv, ListStart, ListStep, RelistStep, PTL DEF Spec, AttachRelists

-----------------------------------------------------------------------------
(* The log of the task.                                                    *)

\* A rewrite of the markdown that is read, or will be, keeps its entries.
LEMMA RewriteKeeps ==
    ASSUME TypeOK, EntriesStay, NEW f \in Forms, NEW t \in Texts, issued' \in Ids,
           Rewritten(f, t), Here' = f, t.log = text[Here].log
    PROVE  EntriesStay'
BY RewriteType, ZenonT(60) DEF EntriesStay, Rewritten

LEMMA AttachKeepsLog == FolderInv /\ EntriesStay /\ Attach => EntriesStay'
<1> SUFFICES ASSUME FolderInv, EntriesStay, Attach PROVE EntriesStay'
  OBVIOUS
<1> USE DEF FolderInv
<1>1. CASE AttachList
  <2>1. Here = "folder" /\ Here' = "folder"
    BY <1>1, FolderHere, SameHere DEF AttachList, FormsKnown
  <2>2. text["folder"] \in Texts /\ cmd.refs \cup Root(cmd.names) \in SUBSET Refs
    BY RootRefs DEF TypeOK, Forms
  <2> DEFINE t == Listing(text["folder"], cmd.refs \cup Root(cmd.names))
  <2>3. t \in Texts /\ t.log = text["folder"].log
    BY <2>2, TextsOps DEF Listing, Texts
  <2>4. issued' \in Ids /\ Rewritten("folder", t) /\ "folder" \in Forms
    BY <1>1, UnderWay DEF AttachList, counts, Forms
  <2> QED
    BY <2>1, <2>3, <2>4, RewriteKeeps
<1>2. CASE ~AttachList
  <2>1. forms' = forms /\ text' = text /\ kept' = kept
    BY <1>2 DEF Attach, AttachBegin, AttachPublish, AttachFails, Undo, UndoFails,
                files, ghosts
  <2> QED
    BY <2>1, SameHere DEF EntriesStay
<1> QED
  BY <1>1, <1>2

LEMMA PromoteKeepsLog == FolderInv /\ EntriesStay /\ Promote => EntriesStay'
<1> SUFFICES ASSUME FolderInv, EntriesStay, Promote PROVE EntriesStay'
  OBVIOUS
<1> USE DEF FolderInv
<1>1. CASE PromotePublish
  <2>1. Here = "file" /\ Here' = "folder"
    BY <1>1 DEF PromotePublish, FormsKnown, Here, Canonical
  <2>2. text["file"] \in Texts /\ Root(cmd.names) \in SUBSET Refs
    BY RootRefs DEF TypeOK, Forms
  <2> DEFINE t == Listing(text["file"], Root(cmd.names))
  <2>3. t \in Texts /\ t.log = text["file"].log
    BY <2>2, TextsOps DEF Listing, Texts
  <2>4. issued' \in Ids /\ Rewritten("folder", t) /\ "folder" \in Forms
    BY <1>1, UnderWay DEF PromotePublish, counts, Forms
  <2> QED
    BY <2>1, <2>3, <2>4, RewriteKeeps
<1>2. CASE PromoteStage \/ PromoteUnlink \/ PromoteClear
  <2>1. text' = text /\ kept' = kept
    BY <1>2 DEF PromoteStage, PromoteUnlink, PromoteClear, files, ghosts
  <2>2. Here' = Here
    BY <1>2, SameHere, TidyHere DEF PromoteStage, PromoteClear, files
  <2> QED
    BY <2>1, <2>2 DEF EntriesStay
<1> QED
  BY <1>1, <1>2 DEF Promote

LEMMA RemoveKeepsLog == FolderInv /\ EntriesStay /\ Remove => EntriesStay'
<1> SUFFICES ASSUME FolderInv, EntriesStay, Remove PROVE EntriesStay'
  OBVIOUS
<1> USE DEF FolderInv
<1>1. CASE RemoveUnlist
  <2>1. Here = "folder" /\ Here' = "folder"
    BY <1>1, FolderHere, SameHere DEF RemoveUnlist, FormsKnown
  <2>2. text["folder"] \in Texts
    BY DEF TypeOK, Forms
  <2> DEFINE t == Unlisting(text["folder"], cmd.refs)
  <2>3. t \in Texts /\ t.log = text["folder"].log
    BY <2>2 DEF Unlisting, Texts
  <2>4. issued' \in Ids /\ Rewritten("folder", t) /\ "folder" \in Forms
    BY <1>1, UnderWay DEF RemoveUnlist, counts, Forms
  <2> QED
    BY <2>1, <2>3, <2>4, RewriteKeeps
<1>2. CASE ~RemoveUnlist
  <2>1. forms' = forms /\ text' = text /\ kept' = kept
    BY <1>2 DEF Remove, RemoveBegin, RemoveFile, files, ghosts
  <2> QED
    BY <2>1, SameHere DEF EntriesStay
<1> QED
  BY <1>1, <1>2

LEMMA EditKeepsLog ==
    \A part \in {"meta", "goal"} : FolderInv /\ EntriesStay /\ Edit(part) => EntriesStay'
<1> SUFFICES ASSUME NEW part \in {"meta", "goal"}, FolderInv, EntriesStay, Edit(part)
             PROVE  EntriesStay'
  OBVIOUS
<1> USE DEF FolderInv
<1> DEFINE t == IF part = "meta" THEN WithField(text[Here]) ELSE WithGoal(text[Here])
<1>1. issued' \in Ids /\ Here' = Here
  BY IssueType, SameHere DEF Edit
<1>2. text[Here] \in Texts /\ Here \in Forms
  BY HereForm DEF TypeOK
<1>3. t \in Texts
  BY <1>1, <1>2, TextsOps DEF WithField, WithGoal
<1>4. t.log = text[Here].log
  BY <1>2 DEF WithField, WithGoal, Texts
<1>5. Rewritten(Here, t)
  BY DEF Edit
<1> QED
  BY <1>1, <1>2, <1>3, <1>4, <1>5, RewriteKeeps

LEMMA RestKeepsLog ==
    FolderInv /\ EntriesStay /\ (Tidy \/ Stops \/ OpenEditor \/ CloseEditor \/ Save
                                 \/ EventResolves \/ EventWritten) => EntriesStay'
<1> SUFFICES ASSUME FolderInv, EntriesStay,
                    Tidy \/ Stops \/ OpenEditor \/ CloseEditor \/ Save
                      \/ EventResolves \/ EventWritten
             PROVE  EntriesStay'
  OBVIOUS
<1>1. CASE Save
  <2>1. Here' = Here /\ Here \in Forms
    BY <1>1, SameHere, HereForm DEF Save, FolderInv
  <2>2. CASE ~HeaderKept
    BY <1>1, <2>1, <2>2 DEF Save, EntriesStay
  <2>3. CASE HeaderKept
    <3>1. Logged(editor'.text).log = editor.text.log \cup {issued'}
      BY <1>1 DEF Save, Logged, WithGoal, FolderInv, TypeOK, Texts
    <3>2. text'[Here] = Logged(editor'.text)
          /\ kept' = (kept \cap editor.text.log) \cup {issued'}
      BY <1>1, <2>1, <2>3 DEF Save, FolderInv, TypeOK
    <3> QED
      BY <2>1, <3>1, <3>2 DEF EntriesStay
  <2> QED
    BY <2>2, <2>3
<1>2. CASE Tidy
  BY <1>2, TidyHere DEF Tidy, ghosts, EntriesStay
<1>3. CASE Stops \/ OpenEditor \/ CloseEditor \/ EventResolves \/ EventWritten
  BY <1>3, SameHere
     DEF Stops, OpenEditor, CloseEditor, EventResolves, EventWritten, files, ghosts,
         EntriesStay
<1> QED
  BY <1>1, <1>2, <1>3

LEMMA LogStep == FolderInv /\ EntriesStay /\ [Next]_vars => EntriesStay'
<1>1. EntriesStay /\ UNCHANGED vars => EntriesStay'
  BY SameHere DEF EntriesStay, vars, files, ghosts
<1> QED
  BY <1>1, AttachKeepsLog, PromoteKeepsLog, RemoveKeepsLog, EditKeepsLog, RestKeepsLog
     DEF Next

\* What a command has logged is in the markdown that is read, also when a
\* promotion of the task stopped half way, unless a save overwrote it.
THEOREM LogKept == Spec => []EntriesStay
<1>1. Init => EntriesStay
  BY DEF Init, EntriesStay
<1> QED
  BY <1>1, InitInv, StepInv, LogStep, PTL DEF Spec

-----------------------------------------------------------------------------
(* The history of the runs.                                                *)

EventInvs == EventsStay /\ StagedKnown

\* A step that touches neither the histories nor their writers.
LEMMA HistorySame ==
    ASSUME EventInvs, Here' = Here, history' = history, writer' = writer,
           events' = events, late' = late,
           cmd'.pc = "promote" => cmd' = cmd
    PROVE  EventInvs'
BY DEF EventInvs, EventsStay, StagedKnown

LEMMA PromoteKeepsHistory == FolderInv /\ EventInvs /\ Promote => EventInvs'
<1> SUFFICES ASSUME FolderInv, EventInvs, Promote PROVE EventInvs'
  OBVIOUS
<1> USE DEF FolderInv, EventInvs
<1>1. CASE PromoteStage
  <2>1. Here = "file" /\ Here' = "file"
    BY <1>1, SameHere DEF PromoteStage, FormsKnown, Here, Canonical, files
  <2>2. cmd'.staged = history["file"]
    BY <1>1 DEF PromoteStage, TypeOK
  <2> QED
    BY <1>1, <2>1, <2>2
       DEF PromoteStage, files, counts, ghosts, EventsStay, StagedKnown
<1>2. CASE PromotePublish
  <2>1. Here' = "folder"
    BY <1>2 DEF PromotePublish, Here, Canonical
  <2>2. history'["folder"] = cmd.staged
    BY <1>2 DEF PromotePublish, TypeOK, Forms
  <2>3. cmd'.pc = "unlink"
    BY <1>2 DEF PromotePublish, Goto, TypeOK
  <2> QED
    BY <1>2, <2>1, <2>2, <2>3
       DEF PromotePublish, counts, EventsStay, StagedKnown
<1>3. CASE PromoteUnlink
  <2>1. cmd'.pc = "clear"
    BY <1>3 DEF PromoteUnlink, Goto, TypeOK
  <2> QED
    BY <1>3, <2>1, TidyHere, HistorySame DEF PromoteUnlink, counts, ghosts
<1>4. CASE PromoteClear
  <2>1. cmd'.pc = "tidy"
    BY <1>4 DEF PromoteClear, Goto, TypeOK
  <2>2. Here = "folder" /\ Here' = "folder"
    BY <1>4, FolderHere, SameHere DEF PromoteClear, FormsKnown
  <2>3. history'["folder"] = history["folder"]
    BY <1>4 DEF PromoteClear, TypeOK, Forms
  <2>4. events' = events /\ writer' = writer /\ late' = late
    BY <1>4, FaultType DEF PromoteClear, counts, ghosts
  <2> QED
    BY <2>1, <2>2, <2>3, <2>4 DEF EventsStay, StagedKnown
<1> QED
  BY <1>1, <1>2, <1>3, <1>4 DEF Promote

LEMMA EventKeepsHistory ==
    FolderInv /\ EventInvs /\ (EventResolves \/ EventWritten) => EventInvs'
<1> SUFFICES ASSUME FolderInv, EventInvs, EventResolves \/ EventWritten
             PROVE  EventInvs'
  OBVIOUS
<1> USE DEF FolderInv, EventInvs
<1>1. CASE EventResolves
  <2>1. Here' = Here /\ writer' # "none" /\ events' = events + 1 /\ writer = "none"
    BY <1>1, SameHere, HereForm DEF EventResolves, files, Forms
  <2>2. (1..events') \ {events'} = 1..events
    BY <2>1 DEF TypeOK
  <2> QED
    BY <1>1, <2>1, <2>2 DEF EventResolves, files, ghosts, EventsStay, StagedKnown
<1>2. CASE EventWritten
  <2>1. Here' = Here /\ writer' = "none" /\ events' = events
        /\ writer \in Forms /\ Here \in Forms
    BY <1>2, SameHere, HereForm DEF EventWritten, counts, TypeOK
  <2>2. late' = late \cup {e \in {events} : writer = "file" /\ Staged}
    BY <1>2 DEF EventWritten
  <2>3. history'[Here] = IF Here = writer THEN history[Here] \cup {events}
                         ELSE history[Here]
    BY <1>2, <2>1 DEF EventWritten, TypeOK
  <2>4. Here # writer => writer = "file" /\ Staged
    BY <2>1 DEF Numbered, Here, Canonical, Forms, Staged
  <2>5. Here # writer => events \in late'
    BY <2>2, <2>4
  <2>6. EventsStay'
    BY <2>1, <2>2, <2>3, <2>5 DEF EventsStay, Forms
  <2>7. cmd.pc = "promote" => events \in late'
    BY <2>1, <2>2 DEF Numbered, FormsKnown, Forms, Staged
  <2>8. StagedKnown'
    BY <1>2, <2>1, <2>2, <2>7 DEF EventWritten, StagedKnown, Forms
  <2> QED
    BY <2>6, <2>8
<1> QED
  BY <1>1, <1>2

LEMMA RestKeepsHistory ==
    /\ FolderInv /\ EventInvs
    /\ \/ Attach \/ Remove
       \/ \E part \in {"meta", "goal"} : Edit(part)
       \/ Tidy \/ Stops \/ OpenEditor \/ CloseEditor \/ Save
    => EventInvs'
<1> SUFFICES ASSUME FolderInv, EventInvs,
                    \/ Attach \/ Remove
                    \/ \E part \in {"meta", "goal"} : Edit(part)
                    \/ Tidy \/ Stops \/ OpenEditor \/ CloseEditor \/ Save
             PROVE  EventInvs'
  OBVIOUS
<1> USE DEF FolderInv
<1>1. CASE Attach
  <2>1. forms' = forms /\ history' = history /\ writer' = writer
        /\ events' = events /\ late' = late
    BY <1>1, IssueType, FaultType
       DEF Attach, AttachBegin, AttachPublish, AttachList, AttachFails, Undo,
           UndoFails, files, counts, ghosts
  <2>2. cmd'.pc = "promote" => cmd' = cmd
    <3>1. ASSUME NEW names \in (SUBSET Names) \ {{}}, AttachBegin(names)
          PROVE  cmd'.pc # "promote"
      <4>1. \/ cmd' = [Idle EXCEPT !.pc = "stage", !.names = names]
            \/ cmd' = [Idle EXCEPT !.pc = "publish", !.names = names, !.refs = held]
            \/ cmd' = Idle
        BY <3>1 DEF AttachBegin, Found, Exit
      <4>2. /\ [Idle EXCEPT !.pc = "stage", !.names = names].pc = "stage"
            /\ [Idle EXCEPT !.pc = "publish", !.names = names, !.refs = held].pc = "publish"
            /\ Idle.pc = "idle"
        BY DEF Idle
      <4> QED
        BY <4>1, <4>2
    <3>2. (\E name \in Names : AttachPublish(name)) => cmd' = cmd
      BY DEF AttachPublish
    <3>3. AttachList => cmd'.pc = "tidy"
      BY DEF AttachList, Goto, TypeOK
    <3>4. AttachFails => cmd'.pc = "undo"
      BY DEF AttachFails, Goto, TypeOK
    <3>5. Undo \/ UndoFails => cmd'.pc = "idle"
      BY DEF Undo, UndoFails, Exit, Idle
    <3> QED
      BY <1>1, <3>1, <3>2, <3>3, <3>4, <3>5 DEF Attach
  <2> QED
    BY <2>1, <2>2, SameHere, HistorySame
<1>2. CASE Remove
  <2>1. forms' = forms /\ history' = history /\ writer' = writer
        /\ events' = events /\ late' = late
    BY <1>2, IssueType
       DEF Remove, RemoveBegin, RemoveUnlist, RemoveFile, files, counts, ghosts
  <2>2. cmd'.pc = "promote" => cmd' = cmd
    <3>1. ASSUME NEW refs \in (SUBSET Refs) \ {{}}, RemoveBegin(refs)
          PROVE  cmd'.pc # "promote"
      <4>1. \/ cmd' = [Idle EXCEPT !.pc = "unlist", !.refs = {Meant(r) : r \in refs}]
            \/ cmd' = Idle
        BY <3>1 DEF RemoveBegin, Exit
      <4>2. /\ \A rs : [Idle EXCEPT !.pc = "unlist", !.refs = rs].pc = "unlist"
            /\ Idle.pc = "idle"
        BY DEF Idle
      <4> QED
        BY <4>1, <4>2
    <3>2. RemoveUnlist => cmd'.pc = "remove"
      BY DEF RemoveUnlist, Goto, TypeOK
    <3>3. ASSUME NEW r \in Refs, RemoveFile(r)
          PROVE  cmd'.pc # "promote"
      BY <3>3 DEF RemoveFile, TypeOK
    <3> QED
      BY <1>2, <3>1, <3>2, <3>3 DEF Remove
  <2> QED
    BY <2>1, <2>2, SameHere, HistorySame
<1>3. CASE \E part \in {"meta", "goal"} : Edit(part)
  <2>1. cmd' = [Idle EXCEPT !.pc = "tidy"]
    BY <1>3 DEF Edit
  <2>2. cmd'.pc # "promote"
    BY <2>1 DEF Idle
  <2> QED
    BY <1>3, <2>2, IssueType, SameHere, HistorySame DEF Edit
<1>4. CASE Tidy
  BY <1>4, TidyHere, HistorySame DEF Tidy, Exit, Idle, counts, ghosts
<1>5. CASE Stops
  BY <1>5, FaultType, SameHere, HistorySame DEF Stops, Exit, Idle, files, ghosts
<1>6. CASE OpenEditor \/ CloseEditor
  BY <1>6, SameHere, HistorySame DEF OpenEditor, CloseEditor, files, counts, ghosts
<1>7. CASE Save
  BY <1>7, IssueType, SameHere, HistorySame DEF Save
<1> QED
  BY <1>1, <1>2, <1>3, <1>4, <1>5, <1>6, <1>7

LEMMA HistoryStep == FolderInv /\ EventInvs /\ [Next]_vars => EventInvs'
<1>1. EventInvs /\ UNCHANGED vars => EventInvs'
  BY SameHere, HistorySame DEF vars, files, counts, ghosts
<1> QED
  BY <1>1, PromoteKeepsHistory, EventKeepsHistory, RestKeepsHistory DEF Next

\* An event of a run is in the JSONL that is read once it is written, also
\* when the task is promoted under it, unless it came after the copy.
THEOREM HistoryMoves == Spec => []EventsStay
<1>1. Init => EventInvs
  BY FolderAssumption DEF Init, Idle, EventInvs, EventsStay, StagedKnown
<1>2. EventInvs => EventsStay
  BY DEF EventInvs
<1> QED
  BY <1>1, <1>2, InitInv, StepInv, HistoryStep, PTL DEF Spec

=============================================================================
