------------------------------ MODULE Watcher ------------------------------
(***************************************************************************)
(* From a file on disk to those who look at it, and the switch between     *)
(* boards: gui/internal/watcher/watcher.go, gui/internal/daemon/           *)
(* watcher_sink.go, the triage cache of gui/app/board_service.go, the      *)
(* timers of the three coordinators, and SettingsService.OpenBoard, which  *)
(* retargets all of them one after another while events keep coming.       *)
(*                                                                         *)
(* A path under a board is a status directory, a task id and a kind:       *)
(* "file" (ID.md), "dir" (the folder form) or "md" (TASK.md inside it).    *)
(* Paths that isIgnored drops never appear.  Only emptiness and age of     *)
(* what is read are kept; what scans do is module Automation, what the     *)
(* daemon does with a task is module Daemon.                               *)
(***************************************************************************)
EXTENDS Naturals, Sequences, FiniteSets, SequencesExt

CONSTANTS
    Boards,      \* boards a user may open
    Tasks,       \* task ids; each board has a task of each id
    NoBoard,
    Opened,      \* the board open at the beginning, or NoBoard
    Foldered,    \* boards whose tasks have the folder form at the beginning
    Coordinators,\* the automation stages that are built
    SinkSize,    \* sinkBufferDefault
    MaxChanges,  \* bound on changes of a board and calls of SetCLIPath
    MaxOpens,    \* bound on calls of OpenBoard
    MaxWork      \* bound on scans and promotions followed at a time

ASSUME WatcherAssumption ==
    /\ NoBoard \notin Boards /\ "board" \notin Tasks
    /\ Opened \in Boards \cup {NoBoard} /\ Foldered \subseteq Boards
    /\ Coordinators \subseteq {"groom", "implement", "review"}
    /\ SinkSize \in Nat \ {0}
    /\ MaxChanges \in Nat /\ MaxOpens \in Nat /\ MaxWork \in Nat

Columns    == {"backlog", "ready"}
MaybeBoard == Boards \cup {NoBoard}

VARIABLES
    file,      \* where each task is and in which form
    watch,     \* fsw, boardDir, watchDirs and taskFiles of the Watcher
    fresh,     \* the same, as an attach under way has built them
    out,       \* fsnotify events on their way to handle
    reload,    \* whether the debouncer's timer is armed
    sink,      \* the buffer of the daemon's EventSink
    daemon,    \* the board the daemon is activated for
    on,        \* the board each coordinator is activated for
    timer,     \* coordinators with a debounce timer armed
    work,      \* scans and promotions of the coordinators that are under way
    client,    \* the board of BoardService's client
    info,      \* the board SettingsService says is open
    open,      \* the OpenBoard call that holds openMu
    setPath,   \* a SetCLIPath call that has read info
    cache,     \* triageCache
    call,      \* a call of Triage
    budget,    \* what is left of the two bounds
    owed,      \* history: coordinators that have to begin a scan
    unseen,    \* history: tasks the daemon has to look at
    deaf,      \* history: folders whose arrival the watcher has missed
    strayed    \* history: SetCLIPath has moved the client to another board

pump    == <<watch, fresh, out, reload, deaf>>
triage  == <<cache, call>>
feed    == <<sink, daemon, unseen>>
scans   == <<on, timer, work, owed>>
service == <<client, info, open, setPath, strayed>>
vars    == <<file, pump, triage, feed, scans, service, budget>>

-----------------------------------------------------------------------------
(* Paths and what is at them.                                              *)

Path(b, t, c, k) == [board |-> b, task |-> t, col |-> c, kind |-> k]

Exists(p) ==
    LET f == file[p.board][p.task]
    IN  f.col = p.col /\ f.folder = (p.kind # "file")

Here(b, t, k) == Path(b, t, file[b][t].col, k)

Folders(b) == {Here(b, t, "dir") : t \in {u \in Tasks : file[b][u].folder}}
Files(b)   == {Here(b, t, "file") : t \in {u \in Tasks : ~file[b][u].folder}}

\* What `attach` builds: the existing task folders are watched and the
\* existing files known.  `live` is what the library still listens on: it
\* forgets a directory that moves away, watchDirs does not.
Unwatched   == [board |-> NoBoard, dirs |-> {}, files |-> {}, live |-> {}]
Attached(b) == [board |-> b, dirs |-> Folders(b), files |-> Files(b),
                live |-> Folders(b)]

Event(op, p) == [op |-> op, path |-> p]

\* Events of a status directory are delivered while one of the watchers
\* listens to the board, the last one, if it is of TASK.md, while it listens
\* to the folder.
Delivered(b, evs, last) ==
    LET reaches == last.path.kind = "md" => [last.path EXCEPT !.kind = "dir"]
                                               \in watch.live \cup fresh.live
    IN  IF b \notin {watch.board, fresh.board} THEN <<>>
        ELSE IF reaches THEN Append(evs, last) ELSE evs

-----------------------------------------------------------------------------
(* The emitters, in the order of main.go.                                  *)

Covers(name) == {"board", name} \cap ToSet(sink) # {}

\* Fault variant: the sink's channel has no bound.
SinkTakesAll(name) ==
    /\ sink' = IF daemon = NoBoard THEN sink ELSE Append(sink, name)
    /\ UNCHANGED unseen

\* The sink never blocks: without room, or without a board, it drops.  What
\* only a dropped event told of is no longer owed.
SinkTakes(name) ==
    LET room == Len(sink) < SinkSize
    IN  /\ sink' = IF daemon # NoBoard /\ room THEN Append(sink, name) ELSE sink
        /\ unseen' = IF room \/ Covers(name) THEN unseen
                     ELSE IF name = "board" THEN unseen \cap ToSet(sink)
                     ELSE unseen \ {name}

\* clearTriageCache: a Triage call under way will not store its answer.
NoAnswer == [board |-> NoBoard, outdated |-> FALSE, overtaken |-> FALSE]
Cleared  == /\ cache' = NoAnswer
            /\ call' = [call EXCEPT !.valid = FALSE,
                                    !.answer.overtaken = call.phase = "read"]

\* Fault variant: only board:reloaded clears the cache.
ReloadClears(name) ==
    IF name = "board" THEN Cleared ELSE UNCHANGED triage

BoardSinkTakes(name) == Cleared

\* scheduleScan of the coordinators in cs.
Scheduled(cs) == timer' = timer \cup {c \in cs : on[c] # NoBoard}

Emit(name) == SinkTakes(name) /\ BoardSinkTakes(name) /\ Scheduled(Coordinators)
Quiet      == UNCHANGED <<sink, unseen, triage, timer>>

-----------------------------------------------------------------------------
(* Commands that change a board, and the events they leave.                *)

\* Everybody who works on board b has to look at t, unless the watcher has
\* missed the folder that t is in.
Owes(b, t, reported) ==
    LET outdates(answer) == reported /\ b = watch.board /\ b = answer.board
    IN  /\ cache' = [cache EXCEPT !.outdated = @ \/ outdates(cache)]
        /\ call' = [call EXCEPT !.answer.outdated =
                        @ \/ (call.phase = "read" /\ outdates(call.answer))]
        /\ owed' = owed \cup {c \in Coordinators : reported /\ on[c] = b}
        /\ unseen' = unseen \cup {u \in {t} : reported /\ daemon = b}

\* Changes of a board that nobody has anything to do with are left out.
Changes(b, evs, last) ==
    /\ budget.changes > 0
    /\ b \in {watch.board, fresh.board, open.board, client}
    /\ budget' = [budget EXCEPT !.changes = @ - 1]
    /\ out' = out \o Delivered(b, evs, last)
    /\ UNCHANGED <<reload, sink, daemon, on, timer, work, service>>

\* A folder that appears where watchDirs still lists one is not watched
\* again: the watcher has yet to hear that the other one left.
Arrives(b, t, p) ==
    deaf' = IF p \in watch.dirs \cup fresh.dirs THEN deaf \cup {<<b, t>>}
            ELSE deaf \ {<<b, t>>}

\* `tb edit` replaces the task's file atomically, an editor writes it.
Edit(b, t, op) ==
    /\ Changes(b, <<>>, Event(op, Here(b, t, IF file[b][t].folder THEN "md"
                                             ELSE "file")))
    /\ Owes(b, t, <<b, t>> \notin deaf)
    /\ UNCHANGED <<file, watch, fresh, deaf>>

\* `tb mv`: the rename of the file or of the folder, then the log entry in
\* its markdown.
Move(b, t, c) ==
    LET kind == IF file[b][t].folder THEN "dir" ELSE "file"
        from == Here(b, t, kind)
        to   == Path(b, t, c, kind)
    IN  /\ c # file[b][t].col
        /\ file' = [file EXCEPT ![b][t].col = c]
        /\ Changes(b, <<Event("rename", from), Event("create", to)>>,
                   Event("create", Path(b, t, c, IF kind = "dir" THEN "md"
                                                 ELSE "file")))
        /\ Owes(b, t, TRUE)
        /\ watch' = [watch EXCEPT !.live = @ \ {from}]
        /\ fresh' = [fresh EXCEPT !.live = @ \ {from}]
        /\ IF kind = "dir" THEN Arrives(b, t, to) ELSE UNCHANGED deaf

\* `tb attach` on a file: the folder is renamed into place, then the file
\* goes.
Promote(b, t) ==
    LET dir == Here(b, t, "dir")
    IN  /\ ~file[b][t].folder
        /\ file' = [file EXCEPT ![b][t].folder = TRUE]
        /\ Changes(b, <<Event("create", dir)>>, Event("remove", Here(b, t, "file")))
        /\ Owes(b, t, TRUE)
        /\ Arrives(b, t, dir)
        /\ UNCHANGED <<watch, fresh>>

-----------------------------------------------------------------------------
(* Watcher.Run                                                             *)

\* reconcileDirWatches.
Leaves(e) == e.op \in {"remove", "rename"} /\ ~Exists(e.path)

\* Fault variant: a new folder is not watched.
NeverComes(e) == FALSE

Comes(e) ==
    /\ e.op \in {"create", "rename"} /\ e.path.kind = "dir" /\ Exists(e.path)
    /\ e.path.board = watch.board /\ e.path \notin watch.dirs

\* Fault variant: an atomic replacement is not taken for an update.
UpdatesOnWrite(e) == Comes(e) \/ e.op = "write"

\* Whether task:updated goes out.
Updates(e) ==
    \/ Comes(e)
    \/ e.op \in {"create", "rename"} /\ e.path.kind # "dir" /\ Exists(e.path)
    \/ e.op = "write"

\* Whether the reload is scheduled: an event of a file that is there and was
\* known leaves the columns as they are.
Reloads(e) ==
    /\ e.op # "write" /\ e.path.kind # "md"
    /\ ~(e.path.kind = "file" /\ Exists(e.path) /\ e.path \in watch.files)

\* What the Watcher remembers; nothing is remembered before the first board.
Remembered(e) ==
    LET p == e.path
    IN  IF watch.board = NoBoard THEN watch
        ELSE [watch EXCEPT
            !.dirs  = (@ \ {q \in {p} : Leaves(e)}) \cup {q \in {p} : Comes(e)},
            !.live  = (@ \ {q \in {p} : Leaves(e)}) \cup {q \in {p} : Comes(e)},
            !.files = IF p.kind # "file" \/ e.op = "write" THEN @
                      ELSE IF Exists(p) THEN @ \cup {p} ELSE @ \ {p}]

\* `handle`.  A folder of the board that an attach is about to swap in is
\* met by the Watcher of the old one, and not watched.
Handle ==
    /\ out # <<>>
    /\ LET e == Head(out)
           p == e.path
       IN  /\ watch' = Remembered(e)
           /\ reload' = (reload \/ (Reloads(e) /\ watch.board # NoBoard))
           /\ IF Updates(e) THEN Emit(p.task) ELSE Quiet
           /\ deaf' = deaf \cup {x \in {<<p.board, p.task>>} :
                    p.kind = "dir" /\ Exists(p) /\ fresh.board = p.board}
    /\ out' = Tail(out)
    /\ UNCHANGED <<file, fresh, daemon, on, work, owed, service, budget>>

\* The debouncer's timer.
Flush ==
    /\ reload /\ reload' = FALSE
    /\ Emit("board")
    /\ UNCHANGED <<file, watch, fresh, out, deaf, daemon, on, work,
                   owed, service, budget>>

\* EventSink.loop: the reader looks at one task or at all.
SinkHandles ==
    /\ sink # <<>>
    /\ sink' = Tail(sink)
    /\ unseen' = IF Head(sink) = "board" THEN {} ELSE unseen \ {Head(sink)}
    /\ UNCHANGED <<file, pump, triage, daemon, scans, service, budget>>

-----------------------------------------------------------------------------
(* BoardService.Triage, one caller                                         *)

Idle == [phase |-> "idle", valid |-> FALSE, answer |-> NoAnswer]
Run  == [phase |-> "runs", valid |-> TRUE, answer |-> [NoAnswer EXCEPT !.board = client]]

Outside == <<file, pump, feed, scans, service, budget>>

\* The generation is read, then the client; the CLI reads the board later.
TriageAsks ==
    /\ call.phase = "idle" /\ client # NoBoard /\ cache = NoAnswer
    /\ call' = Run
    /\ UNCHANGED <<cache, Outside>>

TriageReads ==
    /\ call.phase = "runs"
    /\ call' = [call EXCEPT !.phase = "read"]
    /\ UNCHANGED <<cache, Outside>>

\* Fault variant: the generation is not compared.
StoredAnyway == call.answer

\* An answer of an older generation is thrown away and asked for again.
Stored == IF call.valid THEN call.answer ELSE cache

TriageStores ==
    /\ call.phase = "read"
    /\ cache' = Stored
    /\ call' = IF call.valid THEN Idle ELSE Run
    /\ UNCHANGED Outside

-----------------------------------------------------------------------------
(* Timers and scans of the coordinators                                    *)

Aside == <<file, pump, triage, feed, service, budget>>

\* What a coordinator begins for the board it finds itself activated for, and
\* whether it is deactivated meanwhile.  OneBoard judges each by itself, so
\* that a few at a time are enough to follow.
Begins(c) ==
    /\ on[c] # NoBoard
    /\ work' = work \cup {w \in {[by |-> c, board |-> on[c], left |-> FALSE]} :
                             Cardinality(work) < MaxWork}

\* runScan, from the debounce timer, looks once whether c is activated.
Fires(c) ==
    /\ c \in timer /\ timer' = timer \ {c}
    /\ owed' = owed \ {c}
    /\ Begins(c)
    /\ UNCHANGED <<on, Aside>>

\* OnAgentRunFinished: a groom run of this board has ended well, tryPromote.
Promotes(c) ==
    /\ c = "groom" /\ Begins(c)
    /\ UNCHANGED <<on, timer, owed, Aside>>

\* The last command of a scan or a promotion returns; until then each of them
\* has gone through the client that BoardService has at that moment.
WorkEnds(w) ==
    /\ work' = work \ {w}
    /\ UNCHANGED <<on, timer, owed, Aside>>

-----------------------------------------------------------------------------
(* SettingsService.OpenBoard and SetCLIPath                                *)

\* Fault variant: BoardService is retargeted before the old board is drained.
StepsClientFirst == <<"swap", "client", "deactivate", "activate", "info">>

Steps == <<"swap", "deactivate", "client", "activate", "info">>

Closed == [step |-> 0, board |-> NoBoard]

At(s)   == open.step > 0 /\ Steps[open.step] = s
Goes    == open' = IF open.step = Len(Steps) THEN Closed
                   ELSE [open EXCEPT !.step = @ + 1]
Retarget == <<client, info, setPath, strayed, budget>>

\* The candidate has been validated; attach builds the new watches, and
\* swaps them in later, under mu.
OpenBoard(b) ==
    /\ open = Closed /\ info # b /\ budget.opens > 0
    /\ open' = [step |-> 1, board |-> b]
    /\ budget' = [budget EXCEPT !.opens = @ - 1]
    /\ fresh' = Attached(b)
    /\ deaf' = {x \in deaf : x[1] # b}
    /\ UNCHANGED <<file, watch, out, reload, triage, feed, scans,
                   client, info, setPath, strayed>>

\* attach found no status directory: the old subscription stays.
OpenFails ==
    /\ At("swap")
    /\ open' = Closed /\ fresh' = Unwatched
    /\ UNCHANGED <<file, watch, out, reload, deaf, triage, feed, scans, Retarget>>

AttachSwaps ==
    /\ At("swap") /\ Goes
    /\ watch' = fresh /\ fresh' = Unwatched
    /\ reload' = FALSE
    /\ UNCHANGED <<file, out, deaf, triage, feed, scans, Retarget>>

\* boardActivator.Deactivate: the coordinators, whose timers are stopped and
\* whose scans are neither stopped nor awaited, then the daemon.
Deactivate ==
    /\ At("deactivate") /\ Goes
    /\ on' = [c \in Coordinators |-> NoBoard]
    /\ timer' = {} /\ owed' = {}
    /\ work' = {[w EXCEPT !.left = TRUE] : w \in work}
    /\ daemon' = NoBoard /\ unseen' = {}
    /\ UNCHANGED <<file, pump, triage, sink, Retarget>>

ClientSet ==
    /\ At("client") /\ Goes
    /\ client' = open.board /\ strayed' = FALSE
    /\ Cleared
    /\ UNCHANGED <<file, pump, feed, scans, info, setPath, budget>>

\* boardActivator.Activate: the daemon recovers and scans the whole board,
\* the coordinators forget their old timers and ask for a scan.
Activate ==
    /\ At("activate") /\ Goes
    /\ daemon' = open.board /\ unseen' = {}
    /\ on' = [c \in Coordinators |-> open.board]
    /\ timer' = Coordinators /\ owed' = Coordinators
    /\ UNCHANGED <<file, pump, triage, sink, work, Retarget>>

InfoSet ==
    /\ At("info") /\ Goes
    /\ info' = open.board
    /\ UNCHANGED <<file, pump, triage, feed, scans, client, setPath, strayed, budget>>

\* The board OpenBoard has last given BoardService.
Target == IF \E i \in 1..Len(Steps) : i < open.step /\ Steps[i] = "client"
          THEN open.board ELSE info

\* SetCLIPath does not take openMu: it reads info, and later sets a client
\* for the board it has read.
PathReads ==
    /\ setPath = NoBoard /\ info # NoBoard /\ budget.changes > 0
    /\ setPath' = info
    /\ budget' = [budget EXCEPT !.changes = @ - 1]
    /\ UNCHANGED <<file, pump, triage, feed, scans, client, info, open, strayed>>

PathSets ==
    /\ setPath # NoBoard
    /\ client' = setPath /\ strayed' = (setPath # Target) /\ setPath' = NoBoard
    /\ Cleared
    /\ UNCHANGED <<file, pump, feed, scans, info, open, budget>>

-----------------------------------------------------------------------------

\* A board that is open has been attached, scanned and looked at.
Init ==
    /\ file = [b \in Boards |-> [t \in Tasks |-> 
                [col |-> "backlog", folder |-> b \in Foldered]]]
    /\ watch = IF Opened = NoBoard THEN Unwatched ELSE Attached(Opened)
    /\ fresh = Unwatched /\ out = <<>> /\ deaf = {}
    /\ reload = FALSE
    /\ cache = NoAnswer /\ call = Idle
    /\ sink = <<>> /\ daemon = Opened /\ unseen = {}
    /\ on = [c \in Coordinators |-> Opened]
    /\ timer = {} /\ work = {} /\ owed = {}
    /\ client = Opened /\ info = Opened /\ open = Closed
    /\ setPath = NoBoard /\ strayed = FALSE
    /\ budget = [changes |-> MaxChanges, opens |-> MaxOpens]

Command == \E b \in Boards, t \in Tasks :
    \/ \E op \in {"create", "write"} : Edit(b, t, op)
    \/ \E c \in Columns : Move(b, t, c)
    \/ Promote(b, t)

Triage == TriageAsks \/ TriageReads \/ TriageStores

Scans == \/ \E c \in Coordinators : Fires(c) \/ Promotes(c)
         \/ \E w \in work : WorkEnds(w)

Opening == AttachSwaps \/ Deactivate \/ ClientSet \/ Activate \/ InfoSet

Next ==
    \/ Command \/ Handle \/ Flush \/ SinkHandles \/ Triage \/ Scans \/ Opening
    \/ OpenFails \/ PathReads \/ PathSets
    \/ \E b \in Boards : OpenBoard(b)

Spec == Init /\ [][Next]_vars

\* Goroutines run, timers fire, the steps of an open are taken: while one of
\* them can, one of them does, which the scheduler more than grants.  What a
\* user does, a failing open, a run's end and the last command of a scan may
\* never happen.
Background == \/ Handle \/ Flush \/ SinkHandles \/ Opening
              \/ \E c \in Coordinators : Fires(c)

Fairness == WF_vars(Background)

FairSpec == Spec /\ Fairness

-----------------------------------------------------------------------------

Answers == [board : MaybeBoard, outdated : BOOLEAN, overtaken : BOOLEAN]

\* The types, and the bounds of the sink's buffer and of what the Watcher
\* listens on: no more than it has registered.
TypeOK ==
    /\ file \in [Boards -> [Tasks -> [col : Columns, folder : BOOLEAN]]]
    /\ \A w \in {watch, fresh} : w.board \in MaybeBoard /\ w.live \subseteq w.dirs
    /\ {cache, call.answer} \subseteq Answers
    /\ call.phase \in {"idle", "runs", "read"} /\ call.valid \in BOOLEAN
    /\ sink \in Seq(Tasks \cup {"board"}) /\ Len(sink) <= SinkSize
    /\ on \in [Coordinators -> MaybeBoard] /\ timer \cup owed \subseteq Coordinators
    /\ work \subseteq [by : Coordinators, board : Boards, left : BOOLEAN]
    /\ unseen \subseteq Tasks
    /\ {client, info, daemon, setPath, open.board} \subseteq MaybeBoard
    /\ open.step \in 0..Len(Steps)

\* What triage has cached is of the client's board, and was not read before
\* the last event that cleared the cache.
CacheFresh == cache.board \in {client, NoBoard} /\ ~cache.overtaken

\* Whoever is activated is so for the board of BoardService's client, and a
\* scan or a promotion under way gives its commands to the client of the board
\* it has begun for: OpenBoard deactivates them all before it retargets the
\* service, and activates them after.  Two things escape: what a Deactivate
\* has let go goes on through the next client (left), and so does whoever is
\* at work when a SetCLIPath overlaps an OpenBoard (strayed).
OneBoard ==
    ~strayed =>
      /\ \A b \in {daemon} \cup {on[c] : c \in Coordinators} :
            b # NoBoard => client = b
      /\ \A w \in work : ~w.left => client = w.board

\* After a change of the open board each active coordinator begins a scan,
\* in spite of files known or not, folders that appear or move, reloads
\* that coalesce, and switches; it does so, too, after it is activated.
ChangeIsScanned == \A c \in Coordinators : []<>(c \notin owed)

\* The daemon looks at a task that has changed, unless the sink was full
\* and nothing in its buffer was about that task.
DaemonLooks == \A t \in Tasks : []<>(t \notin unseen)

\* A cached triage that a change has outdated is thrown away.
StaleCacheGoes == []<>(~cache.outdated)

=============================================================================
