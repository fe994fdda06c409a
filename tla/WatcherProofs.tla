---------------------------- MODULE WatcherProofs ----------------------------
(* Theorems about Watcher, for every value of its constants.               *)
EXTENDS Watcher, SequenceTheorems, TLAPS

-----------------------------------------------------------------------------
(* The inductive invariant.                                                *)

Paths  == [board : Boards, task : Tasks, col : Columns, kind : {"file", "dir", "md"}]
Events == [op : {"create", "write", "rename", "remove"}, path : Paths]
Names  == Tasks \cup {"board"}

Watches == [board : MaybeBoard, dirs : SUBSET Paths, files : SUBSET Paths,
            live : SUBSET Paths]
Calls   == [phase : {"idle", "runs", "read"}, valid : BOOLEAN, answer : Answers]

\* The records behind TypeOK, and the events under way.
Shapes ==
    /\ {watch, fresh} \subseteq Watches
    /\ out \in Seq(Events)
    /\ cache \in Answers /\ call \in Calls
    /\ open \in [step : 0..Len(Steps), board : MaybeBoard]

\* A call whose answer will be stored has asked the board of the client.
CallFresh ==
    call.valid /\ call.phase # "idle" =>
      call.answer.board = client /\ ~call.answer.overtaken

Works == [by : Coordinators, board : Boards, left : BOOLEAN]

Active == {daemon} \cup {on[c] : c \in Coordinators}

\* While the service changes its board nobody is active, and what is at work
\* without having been let go is at work for the board of its coordinator.
OnTarget ==
    /\ ~strayed => client = Target
    /\ Active \subseteq {Target, NoBoard}
    /\ At("client") \/ At("activate") => Active \subseteq {NoBoard}
    /\ \A w \in work : ~w.left => on[w.by] = w.board

TypeInv == TypeOK /\ Shapes

-----------------------------------------------------------------------------
(* Facts about the operators.                                              *)

LEMMA StepsThere ==
    /\ Len(Steps) = 5
    /\ Steps[1] = "swap" /\ Steps[2] = "deactivate" /\ Steps[3] = "client"
    /\ Steps[4] = "activate" /\ Steps[5] = "info"
BY DEF Steps

LEMMA PathType ==
    ASSUME TypeOK, NEW b \in Boards, NEW t \in Tasks, NEW k \in {"file", "dir", "md"}
    PROVE  /\ Here(b, t, k) \in Paths
           /\ \A c \in Columns : Path(b, t, c, k) \in Paths
BY DEF TypeOK, Here, Path, Paths

LEMMA FoldersType ==
    ASSUME TypeOK, NEW b \in Boards
    PROVE  Attached(b) \in Watches
<1>1. Folders(b) \subseteq Paths /\ Files(b) \subseteq Paths
  BY PathType DEF Folders, Files
<1> QED
  BY <1>1 DEF Attached, Watches, MaybeBoard

LEMMA NothingWatched == Unwatched \in Watches
BY DEF Unwatched, Watches, MaybeBoard

LEMMA DeliveredType ==
    ASSUME NEW b, NEW evs \in Seq(Events), NEW last \in Events
    PROVE  Delivered(b, evs, last) \in Seq(Events)
BY DEF Delivered

LEMMA NoAnswerType == NoAnswer \in Answers
BY DEF NoAnswer, Answers, MaybeBoard

\* What an event leaves in the caches.
LEMMA ClearedType ==
    ASSUME TypeInv, Cleared
    PROVE  cache' \in Answers /\ call' \in Calls /\ ~call'.valid
BY NoAnswerType DEF TypeInv, Shapes, Cleared, Calls, Answers

LEMMA SinkType ==
    ASSUME TypeOK, NEW name \in Names, SinkTakes(name)
    PROVE  sink' \in Seq(Names) /\ Len(sink') <= SinkSize /\ unseen' \subseteq Tasks
<1>1. Len(sink) < SinkSize => Append(sink, name) \in Seq(Names)
                               /\ Len(Append(sink, name)) <= SinkSize
  BY WatcherAssumption DEF TypeOK, Names
<1>2. unseen' \subseteq unseen
  BY DEF SinkTakes
<1> QED
  BY <1>1, <1>2 DEF TypeOK, SinkTakes, Names

LEMMA EmitType ==
    ASSUME TypeInv, NEW name \in Names, Emit(name)
    PROVE  /\ sink' \in Seq(Names) /\ Len(sink') <= SinkSize /\ unseen' \subseteq Tasks
           /\ cache' \in Answers /\ call' \in Calls
           /\ timer' \subseteq Coordinators
           /\ cache' = NoAnswer /\ ~call'.valid
BY SinkType, ClearedType
   DEF TypeInv, TypeOK, Emit, BoardSinkTakes, Scheduled, Cleared

\* Who has to look at a change.
LEMMA OwesType ==
    ASSUME TypeInv, NEW b \in Boards, NEW t \in Tasks, NEW reported \in BOOLEAN,
           Owes(b, t, reported)
    PROVE  /\ cache' \in Answers /\ call' \in Calls
           /\ owed' \subseteq Coordinators /\ unseen' \subseteq Tasks
           /\ cache'.board = cache.board /\ cache'.overtaken = cache.overtaken
           /\ call'.phase = call.phase /\ call'.valid = call.valid
           /\ call'.answer.board = call.answer.board
           /\ call'.answer.overtaken = call.answer.overtaken
<1> DEFINE outdates(answer) == reported /\ b = watch.board /\ b = answer.board
<1>1. cache' = [cache EXCEPT !.outdated = @ \/ outdates(cache)]
  BY DEF Owes
<1>2. call' = [call EXCEPT !.answer.outdated =
                   @ \/ (call.phase = "read" /\ outdates(call.answer))]
  BY DEF Owes
<1>3. cache.outdated \in BOOLEAN /\ call.answer.outdated \in BOOLEAN
      /\ call.answer \in Answers
  BY DEF TypeInv, Shapes, Calls, Answers
<1>4. (cache.outdated \/ outdates(cache)) \in BOOLEAN
      /\ (call.answer.outdated \/ (call.phase = "read" /\ outdates(call.answer)))
           \in BOOLEAN
  BY <1>3
<1> HIDE DEF outdates
<1>5. cache' \in Answers /\ call' \in Calls
      /\ cache'.board = cache.board /\ cache'.overtaken = cache.overtaken
      /\ call'.phase = call.phase /\ call'.valid = call.valid
      /\ call'.answer.board = call.answer.board
      /\ call'.answer.overtaken = call.answer.overtaken
  BY <1>1, <1>2, <1>3, <1>4 DEF TypeInv, Shapes, Calls, Answers
<1>6. owed' \subseteq Coordinators /\ unseen' \subseteq Tasks
  BY DEF Owes, TypeInv, TypeOK
<1> QED
  BY <1>5, <1>6

-----------------------------------------------------------------------------
(* Every variable stays in its range.                                      *)

LEMMA InitType == Init => TypeInv
<1> SUFFICES ASSUME Init PROVE TypeInv
  OBVIOUS
<1>1. file \in [Boards -> [Tasks -> [col : Columns, folder : BOOLEAN]]]
  <2>1. \A b \in Boards : (b \in Foldered) \in BOOLEAN
    OBVIOUS
  <2> QED
    BY <2>1 DEF Init, Columns
<1>2. \A b \in Boards : Attached(b) \in Watches
                        /\ Attached(b).live \subseteq Attached(b).dirs
  <2> SUFFICES ASSUME NEW b \in Boards
               PROVE  Attached(b) \in Watches
                      /\ Attached(b).live \subseteq Attached(b).dirs
    OBVIOUS
  <2>1. Folders(b) \subseteq Paths /\ Files(b) \subseteq Paths
    BY <1>1 DEF Folders, Files, Here, Path, Paths
  <2> QED
    BY <2>1 DEF Attached, Watches, MaybeBoard
<1>3. Unwatched \in Watches /\ Unwatched.live \subseteq Unwatched.dirs
  BY NothingWatched DEF Unwatched
<1>4. /\ {watch, fresh} \subseteq Watches
      /\ \A w \in {watch, fresh} : w.board \in MaybeBoard /\ w.live \subseteq w.dirs
  BY <1>2, <1>3, WatcherAssumption DEF Init, Watches
<1>5. cache \in Answers /\ call \in Calls
  BY NoAnswerType DEF Init, Idle, Calls
<1>6. sink \in Seq(Names) /\ Len(sink) <= SinkSize /\ out \in Seq(Events)
  BY WatcherAssumption DEF Init
<1>7. open \in [step : 0..Len(Steps), board : MaybeBoard] /\ open.step \in 0..Len(Steps)
  BY StepsThere DEF Init, Closed, MaybeBoard
<1>8. /\ on \in [Coordinators -> MaybeBoard] /\ timer \cup owed \subseteq Coordinators
      /\ unseen \subseteq Tasks /\ work = {}
      /\ {client, info, daemon, setPath, open.board} \subseteq MaybeBoard
  BY WatcherAssumption DEF Init, MaybeBoard, Closed
<1>9. call.phase \in {"idle", "runs", "read"} /\ call.valid \in BOOLEAN
      /\ {cache, call.answer} \subseteq Answers
  BY <1>5 DEF Calls
<1>10. TypeOK
  BY <1>1, <1>4, <1>6, <1>7, <1>8, <1>9 DEF TypeOK, Names
<1> QED
  BY <1>4, <1>5, <1>6, <1>7, <1>10 DEF TypeInv, Shapes

\* TypeInv, variable by variable.
Parts ==
    /\ file \in [Boards -> [Tasks -> [col : Columns, folder : BOOLEAN]]]
    /\ watch \in Watches /\ watch.live \subseteq watch.dirs
    /\ fresh \in Watches /\ fresh.live \subseteq fresh.dirs
    /\ out \in Seq(Events) /\ cache \in Answers /\ call \in Calls
    /\ sink \in Seq(Names) /\ Len(sink) <= SinkSize
    /\ on \in [Coordinators -> MaybeBoard]
    /\ timer \subseteq Coordinators /\ owed \subseteq Coordinators
    /\ work \subseteq Works
    /\ unseen \subseteq Tasks
    /\ client \in MaybeBoard /\ info \in MaybeBoard /\ daemon \in MaybeBoard
    /\ setPath \in MaybeBoard
    /\ open \in [step : 0..Len(Steps), board : MaybeBoard]

LEMMA PartsAreType == Parts <=> TypeInv
BY DEF Parts, TypeInv, TypeOK, Shapes, Watches, Calls, Names, Works

LEMMA PartsAreTypeNext == Parts' <=> TypeInv'
BY DEF Parts, TypeInv, TypeOK, Shapes, Watches, Calls, Names, Works

\* What every command leaves alone, and the events it adds.
LEMMA ChangesType ==
    ASSUME TypeInv, NEW b \in Boards, NEW evs \in Seq(Events), NEW last \in Events,
           Changes(b, evs, last)
    PROVE  /\ out' \in Seq(Events)
           /\ UNCHANGED <<reload, sink, daemon, on, timer, work, client, info,
                          open, setPath, strayed>>
<1>1. Delivered(b, evs, last) \in Seq(Events)
  BY DeliveredType
<1> QED
  BY <1>1 DEF Changes, TypeInv, Shapes, service

\* A task that moves, or gets the folder form.
LEMMA PlaceType ==
    ASSUME NEW f \in [Boards -> [Tasks -> [col : Columns, folder : BOOLEAN]]],
           NEW b \in Boards, NEW t \in Tasks
    PROVE  /\ \A c \in Columns : [f EXCEPT ![b][t].col = c]
                \in [Boards -> [Tasks -> [col : Columns, folder : BOOLEAN]]]
           /\ [f EXCEPT ![b][t].folder = TRUE]
                \in [Boards -> [Tasks -> [col : Columns, folder : BOOLEAN]]]
<1> DEFINE Place == [col : Columns, folder : BOOLEAN]
<1>1. \A r \in Place : [f EXCEPT ![b] = [f[b] EXCEPT ![t] = r]]
                           \in [Boards -> [Tasks -> Place]]
  <2> HIDE DEF Place
  <2> SUFFICES ASSUME NEW r \in Place
               PROVE  [f EXCEPT ![b] = [f[b] EXCEPT ![t] = r]]
                        \in [Boards -> [Tasks -> Place]]
    OBVIOUS
  <2>1. f \in [Boards -> [Tasks -> Place]]
    BY DEF Place
  <2>2. [f[b] EXCEPT ![t] = r] \in [Tasks -> Place]
    BY <2>1
  <2> QED
    BY <2>1, <2>2
<1>2. f[b][t] \in Place
  OBVIOUS
<1>3. /\ \A c \in Columns : [f[b][t] EXCEPT !.col = c] \in Place
      /\ [f[b][t] EXCEPT !.folder = TRUE] \in Place
  BY <1>2
<1> QED
  BY <1>1, <1>3

LEMMA EditType ==
    ASSUME TypeInv, NEW b \in Boards, NEW t \in Tasks,
           NEW op \in {"create", "write"}, Edit(b, t, op)
    PROVE  TypeInv'
<1> DEFINE k == IF file[b][t].folder THEN "md" ELSE "file"
           last == Event(op, Here(b, t, k))
<1>1. last \in Events
  BY PathType DEF Event, Events, TypeInv
<1>2. <<>> \in Seq(Events) /\ Changes(b, <<>>, last)
  BY DEF Edit
<1> HIDE DEF last
<1>3. /\ out' \in Seq(Events)
      /\ UNCHANGED <<reload, sink, daemon, on, timer, work, client, info,
                     open, setPath, strayed>>
  BY <1>1, <1>2, ChangesType
<1>4. Owes(b, t, <<b, t>> \notin deaf) /\ UNCHANGED <<file, watch, fresh, deaf>>
  BY DEF Edit
<1>5. /\ cache' \in Answers /\ call' \in Calls
      /\ owed' \subseteq Coordinators /\ unseen' \subseteq Tasks
  BY <1>4, OwesType
<1> QED
  BY <1>3, <1>4, <1>5, PartsAreType, PartsAreTypeNext DEF Parts

LEMMA MoveType ==
    ASSUME TypeInv, NEW b \in Boards, NEW t \in Tasks, NEW c \in Columns, Move(b, t, c)
    PROVE  TypeInv'
<1> DEFINE kind == IF file[b][t].folder THEN "dir" ELSE "file"
           from == Here(b, t, kind)
           to   == Path(b, t, c, kind)
           evs  == <<Event("rename", from), Event("create", to)>>
           last == Event("create", Path(b, t, c, IF kind = "dir" THEN "md" ELSE "file"))
<1>1. last \in Events /\ evs \in Seq(Events)
  <2>1. from \in Paths /\ to \in Paths
        /\ Path(b, t, c, IF kind = "dir" THEN "md" ELSE "file") \in Paths
    BY PathType DEF TypeInv
  <2> QED
    BY <2>1 DEF Event, Events
<1>2. Changes(b, evs, last)
  BY DEF Move
<1>3. /\ file' = [file EXCEPT ![b][t].col = c]
      /\ Owes(b, t, TRUE)
      /\ watch' = [watch EXCEPT !.live = @ \ {from}]
      /\ fresh' = [fresh EXCEPT !.live = @ \ {from}]
  BY DEF Move
<1> HIDE DEF last, evs, from
<1>4. /\ out' \in Seq(Events)
      /\ UNCHANGED <<reload, sink, daemon, on, timer, work, client, info,
                     open, setPath, strayed>>
  BY <1>1, <1>2, ChangesType
<1>5. /\ cache' \in Answers /\ call' \in Calls
      /\ owed' \subseteq Coordinators /\ unseen' \subseteq Tasks
  BY <1>3, OwesType
<1>6. /\ watch' \in Watches /\ watch'.live \subseteq watch'.dirs
      /\ fresh' \in Watches /\ fresh'.live \subseteq fresh'.dirs
  BY <1>3, PartsAreType DEF Parts, Watches
<1>7. file' \in [Boards -> [Tasks -> [col : Columns, folder : BOOLEAN]]]
  BY <1>3, PlaceType, PartsAreType DEF Parts
<1> QED
  BY <1>4, <1>5, <1>6, <1>7, PartsAreType, PartsAreTypeNext DEF Parts

LEMMA PromoteType ==
    ASSUME TypeInv, NEW b \in Boards, NEW t \in Tasks, Promote(b, t)
    PROVE  TypeInv'
<1> DEFINE evs  == <<Event("create", Here(b, t, "dir"))>>
           last == Event("remove", Here(b, t, "file"))
<1>1. last \in Events /\ evs \in Seq(Events)
  BY PathType DEF Event, Events, TypeInv
<1>2. Changes(b, evs, last)
  BY DEF Promote
<1>3. /\ file' = [file EXCEPT ![b][t].folder = TRUE]
      /\ Owes(b, t, TRUE)
      /\ UNCHANGED <<watch, fresh>>
  BY DEF Promote
<1> HIDE DEF last, evs
<1>4. /\ out' \in Seq(Events)
      /\ UNCHANGED <<reload, sink, daemon, on, timer, work, client, info,
                     open, setPath, strayed>>
  BY <1>1, <1>2, ChangesType
<1>5. /\ cache' \in Answers /\ call' \in Calls
      /\ owed' \subseteq Coordinators /\ unseen' \subseteq Tasks
  BY <1>3, OwesType
<1>6. file' \in [Boards -> [Tasks -> [col : Columns, folder : BOOLEAN]]]
  BY <1>3, PlaceType, PartsAreType DEF Parts
<1> QED
  BY <1>3, <1>4, <1>5, <1>6, PartsAreType, PartsAreTypeNext DEF Parts

LEMMA HandleType == TypeInv /\ Handle => TypeInv'
<1> SUFFICES ASSUME TypeInv, Handle PROVE TypeInv'
  OBVIOUS
<1> DEFINE e == Head(out)
           p == e.path
<1>1. e \in Events /\ p \in Paths /\ out' \in Seq(Events)
  <2>1. out \in Seq(Events) /\ out # <<>> /\ out' = Tail(out)
    BY DEF Handle, TypeInv, Shapes
  <2>2. e \in Events /\ out' \in Seq(Events)
    BY <2>1
  <2> QED
    BY <2>2 DEF Events
<1>2. p.task \in Names
  BY <1>1 DEF Paths, Names
<1>3. watch' = Remembered(e) /\ (IF Updates(e) THEN Emit(p.task) ELSE Quiet)
  BY DEF Handle
<1>4. UNCHANGED <<file, fresh, daemon, on, work, owed, client, info, open,
                  setPath, strayed>>
  BY DEF Handle, service
<1> HIDE DEF e
<1>5. watch' \in Watches /\ watch'.live \subseteq watch'.dirs
  <2>1. CASE watch.board = NoBoard
    BY <1>3, <2>1, PartsAreType DEF Remembered, Parts
  <2>2. CASE watch.board # NoBoard
    <3> DEFINE gone == {q \in {p} : Leaves(e)}
               come == {q \in {p} : Comes(e)}
               know == IF p.kind # "file" \/ e.op = "write" THEN watch.files
                       ELSE IF Exists(p) THEN watch.files \cup {p}
                       ELSE watch.files \ {p}
    <3>1. watch' = [watch EXCEPT !.dirs = (watch.dirs \ gone) \cup come,
                                 !.live = (watch.live \ gone) \cup come,
                                 !.files = know]
      BY <1>3, <2>2 DEF Remembered
    <3>2. gone \subseteq Paths /\ come \subseteq Paths
      BY <1>1
    <3>3. know \subseteq Paths
      BY <1>1, PartsAreType DEF Parts, Watches
    <3> HIDE DEF gone, come, know
    <3> QED
      BY <3>1, <3>2, <3>3, PartsAreType DEF Parts, Watches
  <2> QED
    BY <2>1, <2>2
<1>6. /\ sink' \in Seq(Names) /\ Len(sink') <= SinkSize /\ unseen' \subseteq Tasks
      /\ cache' \in Answers /\ call' \in Calls /\ timer' \subseteq Coordinators
  <2>1. CASE Updates(e)
    BY <1>2, <1>3, <2>1, EmitType
  <2>2. CASE ~Updates(e)
    BY <1>3, <2>2, PartsAreType DEF Quiet, triage, Parts
  <2> QED
    BY <2>1, <2>2
<1> QED
  BY <1>1, <1>4, <1>5, <1>6, PartsAreType, PartsAreTypeNext DEF Parts

LEMMA FlushType == TypeInv /\ Flush => TypeInv'
<1> SUFFICES ASSUME TypeInv, Flush PROVE TypeInv'
  OBVIOUS
<1>1. /\ sink' \in Seq(Names) /\ Len(sink') <= SinkSize /\ unseen' \subseteq Tasks
      /\ cache' \in Answers /\ call' \in Calls /\ timer' \subseteq Coordinators
  BY EmitType DEF Flush, Names
<1> QED
  BY <1>1, PartsAreType, PartsAreTypeNext DEF Flush, Parts, service

LEMMA SinkHandlesType == TypeInv /\ SinkHandles => TypeInv'
<1> SUFFICES ASSUME TypeInv, SinkHandles PROVE TypeInv'
  OBVIOUS
<1>1. sink' \in Seq(Names) /\ Len(sink') <= SinkSize
  <2>1. sink \in Seq(Names) /\ sink # <<>> /\ Len(sink) \in Nat /\ Len(sink) <= SinkSize
    BY PartsAreType DEF Parts, SinkHandles
  <2>2. Tail(sink) \in Seq(Names) /\ Len(Tail(sink)) = Len(sink) - 1
    BY <2>1
  <2> QED
    BY <2>1, <2>2, WatcherAssumption DEF SinkHandles
<1>2. unseen' \subseteq Tasks
  BY PartsAreType DEF Parts, SinkHandles
<1> QED
  BY <1>1, <1>2, PartsAreType, PartsAreTypeNext
     DEF SinkHandles, Parts, pump, triage, scans, service

LEMMA RunType == TypeInv => Run \in Calls
BY DEF TypeInv, TypeOK, Run, NoAnswer, Calls, Answers

LEMMA TriageType == TypeInv /\ Triage => TypeInv'
<1> SUFFICES ASSUME TypeInv, Triage PROVE TypeInv'
  OBVIOUS
<1>1. cache' \in Answers /\ call' \in Calls
  <2>1. Idle \in Calls
    BY NoAnswerType DEF Idle, Calls
  <2>2. Run \in Calls
    BY RunType
  <2>3. cache \in Answers /\ call \in Calls /\ call.answer \in Answers
    BY DEF TypeInv, Shapes, Calls
  <2>4. CASE TriageAsks
    BY <2>2, <2>3, <2>4 DEF TriageAsks
  <2>5. CASE TriageReads
    BY <2>3, <2>5 DEF TriageReads, Calls
  <2>6. CASE TriageStores
    BY <2>1, <2>2, <2>3, <2>6 DEF TriageStores, Stored
  <2> QED
    BY <2>4, <2>5, <2>6 DEF Triage
<1>2. UNCHANGED Outside
  BY DEF Triage, TriageAsks, TriageReads, TriageStores
<1> QED
  BY <1>1, <1>2, PartsAreType, PartsAreTypeNext
     DEF Outside, Parts, pump, feed, scans, service

\* What a coordinator begins, for the board it is activated for.
LEMMA BeginsType ==
    ASSUME TypeInv, NEW c \in Coordinators, Begins(c)
    PROVE  /\ work' \subseteq Works
           /\ \A w \in work' : w \in work \/ (w.by = c /\ w.board = on[c])
<1>1. on[c] \in Boards /\ work \subseteq Works
  BY PartsAreType DEF Parts, Begins, MaybeBoard
<1>2. [by |-> c, board |-> on[c], left |-> FALSE] \in Works
  BY <1>1 DEF Works
<1>3. work' \subseteq work \cup {[by |-> c, board |-> on[c], left |-> FALSE]}
  BY DEF Begins
<1>4. PICK n \in Works : /\ n = [by |-> c, board |-> on[c], left |-> FALSE]
                         /\ n.by = c /\ n.board = on[c]
  BY <1>2
<1>5. work' \subseteq work \cup {n}
  BY <1>3, <1>4
<1> QED
  BY <1>1, <1>4, <1>5

LEMMA ScansType == TypeInv /\ Scans => TypeInv'
<1> SUFFICES ASSUME TypeInv, Scans PROVE TypeInv'
  OBVIOUS
<1>1. work' \subseteq Works
  <2>1. ASSUME NEW c \in Coordinators, Begins(c) PROVE work' \subseteq Works
    BY <2>1, BeginsType
  <2>2. ASSUME NEW w, WorkEnds(w) PROVE work' \subseteq Works
    BY <2>2, PartsAreType DEF WorkEnds, Parts
  <2> QED
    BY <2>1, <2>2 DEF Scans, Fires, Promotes
<1> QED
  BY <1>1, PartsAreType, PartsAreTypeNext
     DEF Scans, Fires, Promotes, WorkEnds, Aside, Parts, pump, triage, feed, service

\* What a Deactivate lets go.
LEMMA LetGoType ==
    ASSUME work \subseteq Works
    PROVE  /\ {[w EXCEPT !.left = TRUE] : w \in work} \subseteq Works
           /\ \A w \in {[v EXCEPT !.left = TRUE] : v \in work} : w.left
BY DEF Works

\* The call that holds openMu goes on.
LEMMA GoesType ==
    ASSUME TypeInv, NEW step, At(step), Goes
    PROVE  /\ open' \in [step : 0..Len(Steps), board : MaybeBoard]
           /\ open'.board \in {open.board, NoBoard}
           /\ open.step \in 1..5 /\ Steps[open.step] = step
           /\ open'.step = IF open.step = 5 THEN 0 ELSE open.step + 1
           /\ open'.step # 0 => open'.board = open.board
BY StepsThere DEF TypeInv, Shapes, At, Goes, Closed, MaybeBoard

LEMMA OpeningType == TypeInv /\ Opening => TypeInv'
<1> SUFFICES ASSUME TypeInv, Opening PROVE TypeInv'
  OBVIOUS
<1>1. Parts
  BY PartsAreType
<1>2. Unwatched \in Watches /\ Unwatched.live \subseteq Unwatched.dirs
  BY NothingWatched DEF Unwatched
<1>3. open.board \in MaybeBoard
  BY <1>1 DEF Parts
<1>4. \A b \in MaybeBoard : [c \in Coordinators |-> b] \in [Coordinators -> MaybeBoard]
  OBVIOUS
<1>5. CASE AttachSwaps
  <2>1. open' \in [step : 0..Len(Steps), board : MaybeBoard]
    BY <1>5, GoesType DEF AttachSwaps
  <2> QED
    BY <1>1, <1>2, <1>5, <2>1, PartsAreTypeNext
       DEF AttachSwaps, Parts, triage, feed, scans, Retarget
<1>6. CASE Deactivate
  <2>1. open' \in [step : 0..Len(Steps), board : MaybeBoard]
    BY <1>6, GoesType DEF Deactivate
  <2>2. work' \subseteq Works
    BY <1>1, <1>6, LetGoType DEF Deactivate, Parts
  <2> QED
    BY <1>1, <1>4, <1>6, <2>1, <2>2, PartsAreTypeNext
       DEF Deactivate, Parts, pump, triage, Retarget, MaybeBoard
<1>7. CASE ClientSet
  <2>1. open' \in [step : 0..Len(Steps), board : MaybeBoard]
    BY <1>7, GoesType DEF ClientSet
  <2>2. cache' \in Answers /\ call' \in Calls
    BY <1>7, ClearedType DEF ClientSet
  <2> QED
    BY <1>1, <1>3, <1>7, <2>1, <2>2, PartsAreTypeNext
       DEF ClientSet, Parts, pump, feed, scans
<1>8. CASE Activate
  <2>1. open' \in [step : 0..Len(Steps), board : MaybeBoard]
    BY <1>8, GoesType DEF Activate
  <2> QED
    BY <1>1, <1>3, <1>4, <1>8, <2>1, PartsAreTypeNext
       DEF Activate, Parts, pump, triage, Retarget
<1>9. CASE InfoSet
  <2>1. open' \in [step : 0..Len(Steps), board : MaybeBoard]
    BY <1>9, GoesType DEF InfoSet
  <2> QED
    BY <1>1, <1>3, <1>9, <2>1, PartsAreTypeNext
       DEF InfoSet, Parts, pump, triage, feed, scans
<1> QED
  BY <1>5, <1>6, <1>7, <1>8, <1>9 DEF Opening

LEMMA RequestsType ==
    TypeInv /\ (OpenFails \/ PathReads \/ PathSets \/ \E b \in Boards : OpenBoard(b))
      => TypeInv'
<1> SUFFICES ASSUME TypeInv,
                    OpenFails \/ PathReads \/ PathSets \/ \E b \in Boards : OpenBoard(b)
             PROVE  TypeInv'
  OBVIOUS
<1>1. Parts
  BY PartsAreType
<1>2. CASE OpenFails
  <2>1. Closed \in [step : 0..Len(Steps), board : MaybeBoard]
    BY StepsThere DEF Closed, MaybeBoard
  <2>2. Unwatched \in Watches /\ Unwatched.live \subseteq Unwatched.dirs
    BY NothingWatched DEF Unwatched
  <2> QED
    BY <1>1, <1>2, <2>1, <2>2, PartsAreTypeNext
       DEF OpenFails, Parts, triage, feed, scans, Retarget
<1>3. CASE PathReads
  BY <1>1, <1>3, PartsAreTypeNext DEF PathReads, Parts, pump, triage, feed, scans
<1>4. CASE PathSets
  <2>1. cache' \in Answers /\ call' \in Calls
    BY <1>4, ClearedType DEF PathSets
  <2> QED
    BY <1>1, <1>4, <2>1, PartsAreTypeNext
       DEF PathSets, Parts, pump, feed, scans, MaybeBoard
<1>5. ASSUME NEW b \in Boards, OpenBoard(b)
      PROVE  TypeInv'
  <2>1. [step |-> 1, board |-> b] \in [step : 0..Len(Steps), board : MaybeBoard]
    BY StepsThere DEF MaybeBoard
  <2>2. Attached(b) \in Watches /\ Attached(b).live \subseteq Attached(b).dirs
    BY FoldersType DEF TypeInv, Attached
  <2> QED
    BY <1>1, <1>5, <2>1, <2>2, PartsAreTypeNext
       DEF OpenBoard, Parts, triage, feed, scans
<1> QED
  BY <1>2, <1>3, <1>4, <1>5

LEMMA TypeStep == TypeInv /\ [Next]_vars => TypeInv'
<1>1. TypeInv /\ UNCHANGED vars => TypeInv'
  BY PartsAreType, PartsAreTypeNext
     DEF Parts, vars, pump, triage, feed, scans, service
<1>2. TypeInv /\ Command => TypeInv'
  BY EditType, MoveType, PromoteType DEF Command
<1> QED
  BY <1>1, <1>2, HandleType, FlushType, SinkHandlesType, TriageType, ScansType,
     OpeningType, RequestsType DEF Next

\* Every variable of the watcher and of those it feeds stays in its range:
\* the sink never holds more than its buffer, and the Watcher listens to no
\* folder that it has not registered.
THEOREM WatcherTypes == Spec => []TypeOK
<1>1. TypeInv => TypeOK
  BY DEF TypeInv
<1> QED
  BY <1>1, InitType, TypeStep, PTL DEF Spec

-----------------------------------------------------------------------------
(* The triage cache.                                                       *)

CacheInv == CacheFresh /\ CallFresh

\* Every event that may change what a triage says clears the cache, and so
\* does every change of the client.
LEMMA ClearedFresh ==
    ASSUME TypeInv, Cleared
    PROVE  CacheInv'
BY DEF TypeInv, TypeOK, Shapes, Cleared, CacheInv, CacheFresh, CallFresh, NoAnswer, Calls

LEMMA CacheSame ==
    ASSUME CacheInv, UNCHANGED <<cache, call, client>>
    PROVE  CacheInv'
BY DEF CacheInv, CacheFresh, CallFresh

LEMMA CommandCache == TypeInv /\ CacheInv /\ Command => CacheInv'
<1> SUFFICES ASSUME TypeInv, CacheInv, Command PROVE CacheInv'
  OBVIOUS
<1>1. PICK b \in Boards, t \in Tasks :
         \/ \E op \in {"create", "write"} : Edit(b, t, op)
         \/ \E c \in Columns : Move(b, t, c)
         \/ Promote(b, t)
  BY DEF Command
<1>2. client' = client /\ \E reported \in BOOLEAN : Owes(b, t, reported)
  <2>1. ASSUME NEW op, Edit(b, t, op)
        PROVE  client' = client /\ Owes(b, t, <<b, t>> \notin deaf)
    BY <2>1 DEF Edit, Changes, service
  <2>2. ASSUME NEW c, Move(b, t, c)
        PROVE  client' = client /\ Owes(b, t, TRUE)
    BY <2>2 DEF Move, Changes, service
  <2>3. Promote(b, t) => client' = client /\ Owes(b, t, TRUE)
    BY DEF Promote, Changes, service
  <2> QED
    BY <1>1, <2>1, <2>2, <2>3
<1> QED
  BY <1>2, OwesType DEF CacheInv, CacheFresh, CallFresh

LEMMA CacheStep == TypeInv /\ CacheInv /\ [Next]_vars => CacheInv'
<1> SUFFICES ASSUME TypeInv, CacheInv, [Next]_vars PROVE CacheInv'
  OBVIOUS
<1>1. CASE Command
  BY <1>1, CommandCache
<1>2. CASE Handle
  <2>1. CASE Updates(Head(out))
    BY <1>2, <2>1, ClearedFresh DEF Handle, Emit, BoardSinkTakes
  <2>2. CASE ~Updates(Head(out))
    BY <1>2, <2>2, CacheSame DEF Handle, Quiet, triage, service
  <2> QED
    BY <2>1, <2>2
<1>3. CASE Flush
  BY <1>3, ClearedFresh DEF Flush, Emit, BoardSinkTakes
<1>4. CASE Triage
  <2>1. client' = client
    BY <1>4 DEF Triage, TriageAsks, TriageReads, TriageStores, Outside, service
  <2>2. Run.answer.board = client /\ ~Run.answer.overtaken
    BY DEF Run, NoAnswer
  <2>3. CASE TriageAsks
    BY <2>1, <2>2, <2>3 DEF TriageAsks, CacheInv, CacheFresh, CallFresh
  <2>4. CASE TriageReads
    BY <2>1, <2>4 DEF TriageReads, CacheInv, CacheFresh, CallFresh, TypeInv, Shapes, Calls
  <2>5. CASE TriageStores
    BY <2>1, <2>2, <2>5
       DEF TriageStores, Stored, Idle, CacheInv, CacheFresh, CallFresh
  <2> QED
    BY <1>4, <2>3, <2>4, <2>5 DEF Triage
<1>5. CASE ClientSet \/ PathSets
  BY <1>5, ClearedFresh DEF ClientSet, PathSets
<1>6. CASE SinkHandles \/ Scans
  BY <1>6, CacheSame DEF SinkHandles, Scans, Fires, Promotes, WorkEnds, Aside, triage, service
<1>7. CASE AttachSwaps \/ Deactivate \/ Activate \/ InfoSet
  BY <1>7, CacheSame DEF AttachSwaps, Deactivate, Activate, InfoSet, triage, Retarget
<1>8. CASE OpenFails \/ PathReads \/ \E b \in Boards : OpenBoard(b)
  BY <1>8, CacheSame DEF OpenFails, PathReads, OpenBoard, triage, Retarget
<1>9. CASE UNCHANGED vars
  BY <1>9, CacheSame DEF vars, triage, service
<1> QED
  BY <1>1, <1>2, <1>3, <1>4, <1>5, <1>6, <1>7, <1>8, <1>9 DEF Next, Opening

\* What triage has cached is of the client's board and younger than the last
\* event that cleared the cache: an answer that an event has overtaken is
\* never stored, whatever happens between the call's read and its end.
THEOREM CacheStaysFresh == Spec => []CacheFresh
<1>1. Init => CacheInv
  BY DEF Init, NoAnswer, Idle, CacheInv, CacheFresh, CallFresh
<1>2. CacheInv => CacheFresh
  BY DEF CacheInv
<1> QED
  BY <1>1, <1>2, InitType, TypeStep, CacheStep, PTL DEF Spec

-----------------------------------------------------------------------------
(* One board for everybody.                                                *)

LEMMA TargetIs ==
    ASSUME TypeInv
    PROVE  /\ Target = IF open.step \in {4, 5} THEN open.board ELSE info
           /\ At("client") <=> open.step = 3
           /\ At("activate") <=> open.step = 4
BY StepsThere DEF TypeInv, Shapes, Target, At

LEMMA TargetIsNext ==
    ASSUME TypeInv'
    PROVE  /\ Target' = IF open'.step \in {4, 5} THEN open'.board ELSE info'
           /\ At("client")' <=> open'.step = 3
           /\ At("activate")' <=> open'.step = 4
BY StepsThere DEF TypeInv, Shapes, Target, At

LEMMA TargetSame ==
    ASSUME OnTarget, UNCHANGED <<daemon, on, work, client, info, open, strayed>>
    PROVE  OnTarget'
BY DEF OnTarget, Active, Target, At

LEMMA TargetOpening == TypeInv /\ TypeInv' /\ OnTarget /\ Opening => OnTarget'
<1> SUFFICES ASSUME TypeInv, TypeInv', OnTarget, Opening PROVE OnTarget'
  OBVIOUS
<1> DEFINE step == open.step
<1>1. Target = (IF step \in {4, 5} THEN open.board ELSE info)
      /\ Target' = (IF open'.step \in {4, 5} THEN open'.board ELSE info')
      /\ (At("client") <=> step = 3) /\ (At("client")' <=> open'.step = 3)
      /\ (At("activate") <=> step = 4) /\ (At("activate")' <=> open'.step = 4)
  BY TargetIs, TargetIsNext
<1>2. \A s : At(s) /\ Goes =>
        /\ step \in 1..5 /\ Steps[step] = s
        /\ open'.step = IF step = 5 THEN 0 ELSE step + 1
        /\ open'.step # 0 => open'.board = open.board
  BY GoesType
<1>3. CASE AttachSwaps
  <2>1. step = 1 /\ open'.step = 2
    BY <1>2, <1>3, StepsThere DEF AttachSwaps
  <2>2. UNCHANGED <<daemon, on, work, client, info, strayed>>
    BY <1>3 DEF AttachSwaps, feed, scans, Retarget
  <2> QED
    BY <1>1, <2>1, <2>2 DEF OnTarget, Active
<1>4. CASE Deactivate
  <2>1. step = 2 /\ open'.step = 3
    BY <1>2, <1>4, StepsThere DEF Deactivate
  <2>2. Active' \subseteq {NoBoard} /\ UNCHANGED <<client, info, strayed>>
    BY <1>4 DEF Deactivate, Active, Retarget
  <2>3. \A w \in work' : w.left
    BY <1>4, LetGoType, PartsAreType DEF Deactivate, Parts
  <2> QED
    BY <1>1, <2>1, <2>2, <2>3 DEF OnTarget
<1>5. CASE ClientSet
  <2>1. step = 3 /\ open'.step = 4 /\ open'.board = open.board
    BY <1>2, <1>5, StepsThere DEF ClientSet
  <2>2. Active' = Active /\ client' = open.board /\ work' = work /\ on' = on
    BY <1>5 DEF ClientSet, Active, feed, scans
  <2> QED
    BY <1>1, <2>1, <2>2 DEF OnTarget
<1>6. CASE Activate
  <2>1. step = 4 /\ open'.step = 5 /\ open'.board = open.board
    BY <1>2, <1>6, StepsThere DEF Activate
  <2>2. Active' \subseteq {open.board} /\ UNCHANGED <<work, client, info, strayed>>
    BY <1>6 DEF Activate, Active, Retarget
  <2>3. \A w \in work : w.left
    <3>1. \A w \in work : w.by \in Coordinators /\ w.board # NoBoard
      BY WatcherAssumption, PartsAreType DEF Parts, Works
    <3>2. \A c \in Coordinators : on[c] = NoBoard
      BY <1>1, <2>1 DEF OnTarget, Active
    <3> QED
      BY <3>1, <3>2 DEF OnTarget
  <2> QED
    BY <1>1, <2>1, <2>2, <2>3 DEF OnTarget
<1>7. CASE InfoSet
  <2>1. step = 5 /\ open'.step = 0
    BY <1>2, <1>7, StepsThere DEF InfoSet
  <2>2. /\ Active' = Active /\ info' = open.board
        /\ UNCHANGED <<on, work, client, strayed>>
    BY <1>7 DEF InfoSet, Active, feed, scans
  <2> QED
    BY <1>1, <2>1, <2>2 DEF OnTarget
<1> QED
  BY <1>3, <1>4, <1>5, <1>6, <1>7 DEF Opening

LEMMA TargetRequests ==
    /\ TypeInv /\ TypeInv' /\ OnTarget
    /\ OpenFails \/ PathReads \/ PathSets \/ \E b \in Boards : OpenBoard(b)
    => OnTarget'
<1> SUFFICES ASSUME TypeInv, TypeInv', OnTarget,
                    OpenFails \/ PathReads \/ PathSets \/ \E b \in Boards : OpenBoard(b)
             PROVE  OnTarget'
  OBVIOUS
<1> DEFINE step == open.step
<1>1. Target = (IF step \in {4, 5} THEN open.board ELSE info)
      /\ Target' = (IF open'.step \in {4, 5} THEN open'.board ELSE info')
      /\ (At("client") <=> step = 3) /\ (At("client")' <=> open'.step = 3)
      /\ (At("activate") <=> step = 4) /\ (At("activate")' <=> open'.step = 4)
  BY TargetIs, TargetIsNext
<1>2. CASE OpenFails
  <2>1. step = 1 /\ open'.step = 0
    BY <1>2, StepsThere DEF OpenFails, At, Closed, TypeInv, Shapes
  <2>2. UNCHANGED <<daemon, on, work, client, info, strayed>>
    BY <1>2 DEF OpenFails, feed, scans, Retarget
  <2> QED
    BY <1>1, <2>1, <2>2 DEF OnTarget, Active
<1>3. CASE PathReads
  BY <1>3, TargetSame DEF PathReads, feed, scans
<1>4. CASE PathSets
  <2>1. UNCHANGED <<daemon, on, work, info, open>> /\ client' = setPath
        /\ strayed' = (setPath # Target)
    BY <1>4 DEF PathSets, feed, scans
  <2>2. /\ Target' = Target /\ Active' = Active
        /\ (At("client")' <=> At("client")) /\ (At("activate")' <=> At("activate"))
    BY <2>1 DEF Target, Active, At
  <2> QED
    BY <2>1, <2>2 DEF OnTarget
<1>5. ASSUME NEW b \in Boards, OpenBoard(b)
      PROVE  OnTarget'
  <2>1. step = 0 /\ open'.step = 1
    BY <1>5 DEF OpenBoard, Closed
  <2>2. UNCHANGED <<daemon, on, work, client, info, strayed>>
    BY <1>5 DEF OpenBoard, feed, scans
  <2> QED
    BY <1>1, <2>1, <2>2 DEF OnTarget, Active
<1> QED
  BY <1>2, <1>3, <1>4, <1>5

LEMMA TargetStep == TypeInv /\ TypeInv' /\ OnTarget /\ [Next]_vars => OnTarget'
<1> SUFFICES ASSUME TypeInv, TypeInv', OnTarget, [Next]_vars PROVE OnTarget'
  OBVIOUS
<1>1. CASE Command
  <2>1. PICK b \in Boards, t \in Tasks :
           \/ \E op \in {"create", "write"} : Edit(b, t, op)
           \/ \E c \in Columns : Move(b, t, c)
           \/ Promote(b, t)
    BY <1>1 DEF Command
  <2>2. UNCHANGED <<daemon, on, work, service>>
    <3>1. ASSUME NEW op, Edit(b, t, op) PROVE UNCHANGED <<daemon, on, work, service>>
      BY <3>1 DEF Edit, Changes
    <3>2. ASSUME NEW c, Move(b, t, c) PROVE UNCHANGED <<daemon, on, work, service>>
      BY <3>2 DEF Move, Changes
    <3>3. Promote(b, t) => UNCHANGED <<daemon, on, work, service>>
      BY DEF Promote, Changes
    <3> QED
      BY <2>1, <3>1, <3>2, <3>3
  <2> QED
    BY <2>2, TargetSame DEF service
<1>2. CASE Handle \/ Flush
  BY <1>2, TargetSame DEF Handle, Flush, service
<1>3. CASE SinkHandles \/ Triage
  BY <1>3, TargetSame
     DEF SinkHandles, Triage, TriageAsks, TriageReads, TriageStores, Outside,
         feed, scans, service
<1>5. CASE Scans
  <2>1. UNCHANGED <<daemon, on, client, info, open, strayed>>
    BY <1>5 DEF Scans, Fires, Promotes, WorkEnds, Aside, feed, service
  <2>2. ASSUME NEW w \in work', ~w.left PROVE on[w.by] = w.board
    BY <1>5, <2>2, BeginsType DEF Scans, Fires, Promotes, WorkEnds, OnTarget
  <2> QED
    BY <2>1, <2>2 DEF OnTarget, Active, Target, At
<1>4. CASE UNCHANGED vars
  BY <1>4, TargetSame DEF vars, feed, scans, service
<1> QED
  BY <1>1, <1>2, <1>3, <1>4, <1>5, TargetOpening, TargetRequests DEF Next

\* At each step of any number of switches, whoever is activated is so for the
\* board of BoardService's client, and a scan or a promotion that no Deactivate
\* has let go gives its commands to the client of the board it has begun for,
\* unless a SetCLIPath that overlapped a switch has moved the client.
THEOREM OneBoardForAll == Spec => []OneBoard
<1>1. Init => OnTarget
  BY StepsThere DEF Init, Closed, OnTarget, Active, Target, At
<1>2. TypeInv /\ OnTarget => OneBoard
  <2> SUFFICES ASSUME TypeInv, OnTarget, ~strayed
               PROVE  /\ \A b \in Active : b # NoBoard => client = b
                      /\ \A w \in work : ~w.left => client = w.board
    BY DEF OneBoard, Active
  <2>1. \A b \in Active : b # NoBoard => client = b
    BY DEF OnTarget
  <2>2. \A w \in work : w.by \in Coordinators /\ w.board # NoBoard
    BY WatcherAssumption, PartsAreType DEF Parts, Works
  <2> QED
    BY <2>1, <2>2 DEF OnTarget, Active
<1> QED
  BY <1>1, <1>2, InitType, TypeStep, TargetStep, PTL DEF Spec

=============================================================================
