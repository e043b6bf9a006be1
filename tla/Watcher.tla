-------------------------------- MODULE Watcher --------------------------------
(***************************************************************************)
(* pkg/watcher: one call of watcher.Watch on the directory Root, the       *)
(* kernel's inotify instance it reads, and the processes that change the   *)
(* file system while it scans and reads.                                   *)
(*                                                                         *)
(* A path is a sequence of names.  Root and the paths that start with it   *)
(* are watched; a path of one name is there from the start.  The kernel    *)
(* identifies a watch with the inode it is on, so a watch descriptor is an *)
(* inode here.  What happens to a file is an event for the callback and    *)
(* nothing else.                                                           *)
(***************************************************************************)
EXTENDS Integers, FiniteSets, Sequences, SequencesExt

CONSTANTS
  Root,
  Paths,     \* bound: where directories may be
  Files,     \* the names of files, none of them a directory's
  Hidden,    \* the names that add() passes over: with ".git", or "vendor" first
  Swapped,   \* the names whose events are passed over: ".swp" or ".swo" last
  Inodes,    \* bound: how many directories are ever made
  QueueMax,  \* the kernel's max_queued_events
  Budget,    \* bound: how many changes and faults happen
  None

Kinds == {"make", "remove", "write", "move", "fault"}
Top == <<Root>>
Parent(p) == Front(p)
Names == {Last(p) : p \in Paths}

ASSUME NameAssumption ==
  /\ Top \in Paths
  /\ Paths \subseteq Seq(Names)
  /\ \A p \in Paths : Len(p) > 0 /\ (Len(p) > 1 => Parent(p) \in Paths)
  /\ Files \cap Names = {} /\ Files \cap Paths = {}
  /\ None \notin Inodes /\ None \notin Paths /\ None \notin Files

\* A directory at each path of one name, and no other.
FirstTree(tree) ==
  /\ \A p \in Paths : tree[p] # None <=> Len(p) = 1
  /\ \A p, q \in Paths : tree[p] = tree[q] => p = q \/ tree[p] = None

Trees == [Paths -> Inodes \cup {None}]
ASSUME TreeAssumption == \E tree \in Trees : FirstTree(tree)
ASSUME BoundAssumption ==
  /\ QueueMax \in Nat
  /\ Budget \in [Kinds -> Nat]

VARIABLES
  at,          \* the directory at each path, or None
  gone,        \* the directories that have been removed
  files,       \* the files, each the inode of its directory and its name
  watching,    \* the inodes with an inotify watch
  queue,       \* the kernel's queue of events
  wdToPath,    \* per descriptor: the watcher's path for it, or None
  watchedDirs, \* the watcher's set of paths
  scan,        \* the calls of add() that are open, the innermost last
  stage,       \* of Watch: "run", "stopped" (nil) or "dead" (an error)
  cancelled,   \* doneCtx
  unheard,     \* ghost: the files with a write no callback has followed
  excuse,      \* ghost: the root is gone, the queue overflowed, a call failed
  budget

fsVars == <<at, gone, files>>
ownVars == <<wdToPath, watchedDirs, scan, stage>>
vars == <<fsVars, watching, queue, ownVars, cancelled, unheard, excuse, budget>>

(***************************************************************************)
(* The file system and the kernel's events                                 *)
(***************************************************************************)
Exists(p) == p \in Paths /\ at[p] # None
Below(p) == {q \in Paths : IsStrictPrefix(p, q) /\ Exists(q)}
Fresh == {i \in Inodes : i \notin gone /\ \A p \in Paths : at[p] # i}
Overflow == [wd |-> None, kind |-> "overflow", name |-> None]
Event(i, k, n) == [wd |-> i, kind |-> k, name |-> n]

Spend(k) == budget[k] > 0 /\ budget' = [budget EXCEPT ![k] = @ - 1]

\* Queue q with event e: the kernel drops a repetition, and puts one overflow
\* event where others do not fit.
Emit(q, e) ==
  CASE e.wd \notin watching \/ (q # <<>> /\ Last(q) \in {e, Overflow}) -> q
    [] e.wd \in watching /\ (q = <<>> \/ Last(q) \notin {e, Overflow}) ->
         Append(q, IF Len(q) < QueueMax THEN e ELSE Overflow)

Init ==
  /\ at = CHOOSE tree \in Trees : FirstTree(tree)
  /\ gone = {}
  /\ files = {}
  /\ watching = {}
  /\ queue = <<>>
  /\ wdToPath = [i \in Inodes |-> None]
  /\ watchedDirs = {}
  /\ scan = <<[path |-> Top, dir |-> None, step |-> "add", todo |-> {}]>>
  /\ stage = "run"
  /\ cancelled = FALSE
  /\ unheard = {}
  /\ excuse = FALSE
  /\ budget = Budget

\* Bound: nothing changes once the watcher has returned.
Change(k) ==
  /\ Spend(k)
  /\ stage = "run"
  /\ UNCHANGED <<ownVars, cancelled>>

Mkdir(p) ==
  /\ Len(p) > 1 /\ ~Exists(p) /\ Exists(Parent(p))
  /\ Fresh # {}
  /\ at' = [at EXCEPT ![p] = CHOOSE i \in Fresh : TRUE]
  /\ queue' = Emit(queue, Event(at[Parent(p)], "create", Last(p)))
  /\ Change("make")
  /\ UNCHANGED <<gone, files, watching, unheard, excuse>>

\* The kernel takes the watch away with the inode and says so (IN_IGNORED).
Rmdir(p) ==
  /\ Exists(p) /\ (Len(p) > 1 \/ p = Top) /\ Below(p) = {}
  /\ \A f \in Files : <<at[p], f>> \notin files
  /\ at' = [at EXCEPT ![p] = None]
  /\ gone' = gone \cup {at[p]}
  /\ watching' = watching \ {at[p]}
  /\ LET removed == IF p = Top THEN queue
                    ELSE Emit(queue, Event(at[Parent(p)], "delete", Last(p)))
     IN  queue' = Emit(removed, Event(at[p], "ignored", None))
  /\ excuse' = (excuse \/ p = Top)
  /\ Change("remove")
  /\ UNCHANGED <<files, unheard>>

\* File f of p is created or modified.
WriteFile(p, f) ==
  /\ Exists(p)
  /\ files' = files \cup {<<at[p], f>>}
  /\ unheard' = unheard \cup {<<at[p], f>>}
  /\ queue' = Emit(queue, Event(at[p], "file", f))
  /\ Change("write")
  /\ UNCHANGED <<at, gone, watching, excuse>>

RemoveFile(p, f) ==
  /\ Exists(p) /\ <<at[p], f>> \in files
  /\ files' = files \ {<<at[p], f>>}
  /\ unheard' = unheard \ {<<at[p], f>>}
  /\ queue' = Emit(queue, Event(at[p], "file", f))
  /\ Change("remove")
  /\ UNCHANGED <<at, gone, watching, excuse>>

\* The directory at p and all below it move to q, watches and all.
Rename(p, q) ==
  /\ Exists(p) /\ Len(p) > 1 /\ ~Exists(q) /\ Len(q) > 1 /\ Exists(Parent(q))
  /\ ~IsPrefix(p, q)
  /\ \A x \in Below(p) : q \o SubSeq(x, Len(p) + 1, Len(x)) \in Paths
  /\ Change("move")
  /\ at' = [x \in Paths |->
       IF IsPrefix(q, x)
       THEN LET y == p \o SubSeq(x, Len(q) + 1, Len(x))
            IN  IF y \in Paths THEN at[y] ELSE None
       ELSE IF IsPrefix(p, x) THEN None ELSE at[x]]
  /\ queue' = Emit(Emit(queue, Event(at[Parent(p)], "delete", Last(p))),
                   Event(at[Parent(q)], "create", Last(q)))
  /\ UNCHANGED <<gone, files, watching, unheard, excuse>>

(***************************************************************************)
(* add()                                                                   *)
(***************************************************************************)
Frame(p) == [path |-> p, dir |-> None, step |-> "add", todo |-> {}]
Call == Last(scan)
InAdd(s) == stage = "run" /\ scan # <<>> /\ Call.step = s
WithCall(f) == [scan EXCEPT ![Len(scan)] = f]

\* Mutant: the inotify instance is not closed.
KeepOpen(s) ==
  /\ stage' = s
  /\ scan' = <<>>
  /\ UNCHANGED <<wdToPath, watchedDirs, watching, queue>>

\* Watch returns and closes the inotify instance.
Close(s) ==
  /\ stage' = s
  /\ scan' = <<>>
  /\ watching' = {}
  /\ queue' = <<>>
  /\ UNCHANGED <<wdToPath, watchedDirs>>

\* Mutant: that a path is not there any more is an error for any path.
VanishedFatal == Close("dead")

\* The path is not there any more: an error for the root only, as a DELETE
\* event follows for any other.
Vanished ==
  IF Call.path = Top THEN Close("dead")
  ELSE scan' = Front(scan) /\ UNCHANGED <<wdToPath, watchedDirs, stage, watching, queue>>

AddWatch ==
  /\ InAdd("add")
  /\ IF Exists(Call.path)
     THEN /\ watching' = watching \cup {at[Call.path]}
          /\ wdToPath' = [wdToPath EXCEPT ![at[Call.path]] = Call.path]
          /\ watchedDirs' = watchedDirs \cup {Call.path}
          /\ scan' = WithCall([Call EXCEPT !.step = "list"])
          /\ UNCHANGED <<stage, queue>>
     ELSE Vanished
  /\ UNCHANGED <<fsVars, cancelled, unheard, excuse, budget>>

\* Mutant: a scan is for directories only.
NoFiles(p) == {}

FilesIn(p) == {f \in Files \ Hidden : <<at[p], f>> \in files}

\* Open and Readdir, which tells the directories from the files, and what is left
\* once the names add() passes over are taken out.
List ==
  /\ InAdd("list")
  /\ IF Exists(Call.path)
     THEN /\ LET dirs == {p \in Paths : /\ Len(p) > 1 /\ Parent(p) = Call.path
                                        /\ Exists(p) /\ Last(p) \notin Hidden}
             IN  scan' = WithCall([Call EXCEPT !.step = "children",
                                     !.dir = at[Call.path],
                                     !.todo = dirs \cup FilesIn(Call.path)])
          /\ UNCHANGED <<wdToPath, watchedDirs, stage, watching, queue>>
     ELSE Vanished
  /\ UNCHANGED <<fsVars, cancelled, unheard, excuse, budget>>

\* applyWatchEvent of a Create event for a directory, met in a scan or in the
\* queue: the second of the two is dropped.
Enter(calls, p) == IF p \in watchedDirs THEN calls ELSE Append(calls, Frame(p))

\* Readdir's order is any.
NextChild ==
  /\ InAdd("children")
  /\ \E x \in Call.todo :
       LET rest == WithCall([Call EXCEPT !.todo = @ \ {x}])
       IN  IF x \in Files
           THEN scan' = rest /\ unheard' = unheard \ {<<Call.dir, x>>}
           ELSE scan' = Enter(rest, x) /\ UNCHANGED unheard
  /\ UNCHANGED <<fsVars, watching, queue, wdToPath, watchedDirs, stage, cancelled,
                 excuse, budget>>

AddReturn ==
  /\ InAdd("children")
  /\ Call.todo = {}
  /\ scan' = Front(scan)
  /\ UNCHANGED <<fsVars, watching, queue, wdToPath, watchedDirs, stage, cancelled,
                 unheard, excuse, budget>>

(***************************************************************************)
(* run(): events are read once nothing is left to scan                     *)
(***************************************************************************)
Reading == stage = "run" /\ scan = <<>> /\ queue # <<>>
Got == Head(queue)
PathOf(e) == Append(wdToPath[e.wd], e.name)

\* toWatchEvent knows no path for the descriptor, as when the queue overflowed;
\* or the watch on the root is gone.
ReadFails ==
  /\ Reading
  /\ \/ Got = Overflow
     \/ Got # Overflow /\ wdToPath[Got.wd] = None
     \/ Got.kind = "ignored" /\ wdToPath[Got.wd] = Top
  /\ Close("dead")
  /\ excuse' = (excuse \/ Got = Overflow)
  /\ UNCHANGED <<fsVars, cancelled, unheard, budget>>

\* Mutant: watchedDirs only grows.
Remember(p) == watchedDirs

Forget(p) == watchedDirs \ {p}

\* Vim's backup files, and the directories that are named like one.
Backup(e) == e.kind \in {"create", "delete", "file"} /\ e.name \in Swapped

Apply(e) ==
  \/ /\ e.kind = "ignored" /\ wdToPath[e.wd] # Top
     /\ UNCHANGED <<scan, watchedDirs, unheard>>
  \/ /\ Backup(e)
     /\ UNCHANGED <<scan, watchedDirs, unheard>>
  \/ /\ e.kind = "file" /\ ~Backup(e)
     /\ unheard' = unheard \ {<<e.wd, e.name>>}
     /\ UNCHANGED <<scan, watchedDirs>>
  \/ /\ e.kind = "delete" /\ ~Backup(e)
     /\ watchedDirs' = Forget(PathOf(e))
     /\ UNCHANGED <<scan, unheard>>
  \/ /\ e.kind = "create" /\ ~Backup(e)
     /\ scan' = Enter(scan, PathOf(e))
     /\ UNCHANGED <<watchedDirs, unheard>>

ReadEvent ==
  /\ Reading
  /\ Got # Overflow
  /\ wdToPath[Got.wd] # None
  /\ Apply(Got)
  /\ queue' = Tail(queue)
  /\ UNCHANGED <<fsVars, watching, wdToPath, stage, cancelled, excuse, budget>>

\* Mutant: poll waits for an event.
StopOnEvent ==
  /\ Reading /\ cancelled
  /\ Close("stopped")
  /\ UNCHANGED <<fsVars, cancelled, unheard, excuse, budget>>

\* poll returns once a second at least, so doneCtx is looked at.
Stop ==
  /\ stage = "run" /\ scan = <<>> /\ cancelled
  /\ Close("stopped")
  /\ UNCHANGED <<fsVars, cancelled, unheard, excuse, budget>>

\* Any other error of a system call.
CallFails ==
  /\ stage = "run"
  /\ Spend("fault")
  /\ Close("dead")
  /\ excuse' = TRUE
  /\ UNCHANGED <<fsVars, cancelled, unheard>>

Cancel ==
  /\ ~cancelled /\ stage = "run"
  /\ cancelled' = TRUE
  /\ UNCHANGED <<fsVars, watching, queue, ownVars, unheard, excuse, budget>>

(***************************************************************************)
(* The specification                                                       *)
(***************************************************************************)
Step == AddWatch \/ List \/ NextChild \/ AddReturn \/ ReadEvent \/ ReadFails \/ Stop

Next ==
  \/ \E p \in Paths : Mkdir(p) \/ Rmdir(p)
  \/ \E p \in Paths, f \in Files : WriteFile(p, f) \/ RemoveFile(p, f)
  \/ \E p, q \in Paths : Rename(p, q)
  \/ Step
  \/ CallFails
  \/ Cancel

Spec == Init /\ [][Next]_vars
FairSpec == Spec /\ WF_vars(Step)

--------------------------------------------------------------------------------
(***************************************************************************)
(* Properties                                                              *)
(***************************************************************************)
Events ==
  [wd : Inodes \cup {None}, name : Names \cup Files \cup {None},
   kind : {"create", "delete", "file", "ignored", "overflow"}]
Frames ==
  [path : Seq(Names), dir : Inodes \cup {None},
   step : {"add", "list", "children"}, todo : SUBSET (Paths \cup Files)]

\* Every variable has its type, and a watcher that has returned leaves no inotify
\* watch behind, however it came to return.
TypeOK ==
  /\ at \in Trees
  /\ gone \subseteq Inodes /\ watching \subseteq Inodes
  /\ files \subseteq Inodes \X Files /\ unheard \subseteq files
  /\ queue \in Seq(Events) /\ Len(queue) <= QueueMax + 1
  /\ wdToPath \in [Inodes -> Seq(Names) \cup {None}]
  /\ watchedDirs \subseteq Seq(Names)
  /\ scan \in Seq(Frames)
  /\ stage \in {"run", "stopped", "dead"}
  /\ stage # "run" => watching = {} /\ queue = <<>>
  /\ cancelled \in BOOLEAN /\ excuse \in BOOLEAN
  /\ budget \in [Kinds -> Nat]

\* The watcher has nothing to scan and nothing to read.
Quiet == stage = "run" /\ scan = <<>> /\ queue = <<>>

\* The names that no heuristic passes over.
Plain(n) == n \notin Hidden \cup Swapped

\* The directories under the root that no heuristic keeps from being watched.
Visible == {p \in Paths : Exists(p) /\ p[1] = Root /\ \A k \in DOMAIN p : Plain(p[k])}

\* A watcher that has caught up watches every directory under the root, under
\* its name, whatever was made while add() was between its system calls: "Watch
\* begins watching all directories under 'dir', calling 'cb' with every event" (the
\* comment on Watch).  Not so for the names that add()'s scan (.git, vendor) or the
\* reading of events (.swp, .swo) passes over, nor for what is below them, nor once
\* directories are moved, or a directory and the one it is in are removed and made
\* again.
AllWatched ==
  Quiet => \A p \in Visible : at[p] \in watching /\ wdToPath[at[p]] = p

\* A watcher that has caught up has called back for every write to a file that has
\* none of those names, in a directory that is watched for sure; the writes that came
\* before the watch on the directory are included.  (With the same exceptions.)
WritesHeard ==
  Quiet => \A p \in Visible, f \in Files : Plain(f) => <<at[p], f>> \notin unheard

\* The watcher only ever dies because its root is gone, the kernel's queue
\* overflowed or a system call failed, and of no sequence of changes: the wd of
\* each event it reads has a path.
DeadForAReason == stage = "dead" => excuse

\* A cancelled watcher returns.
CancelStops == cancelled ~> stage # "run"
================================================================================
