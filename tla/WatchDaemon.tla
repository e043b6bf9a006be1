------------------------------ MODULE WatchDaemon ------------------------------
(***************************************************************************)
(* The watch daemon's server (watch_daemon/api_impl.go): the SQLite tables *)
(* 'ticks' and 'watches', the lock dbMu, the HTTP goroutines that call     *)
(* Watch, Tick and Clear, the goroutine syncWatchesLoop, and for each      *)
(* watch object the two goroutines syncWatches starts for it: the recorder *)
(* (recordWritesInDB) and the inotify watcher (pkg/watcher), of which this *)
(* module keeps the stages of its life and its undelivered events.         *)
(*                                                                         *)
(* A directory is the rank of its path in Go's string order.  Times are    *)
(* Unix seconds.  The lock watchMu is held only by SyncAlign and           *)
(* GetWatches, one step each, so it is not a variable.                     *)
(***************************************************************************)
EXTENDS Integers, FiniteSets, Sequences, SequencesExt

CONSTANTS
  Dirs,       \* the directories that requests name
  Prefix,     \* pairs <<a, b>>: the string a is a prefix of the string b
  Above,      \* pairs <<a, b>>: a is b or one of b's parent directories
  Labels,     \* the labels that requests carry
  MaxWatches, \* maxWatches
  Handlers,   \* concurrent HTTP goroutines
  Loop,       \* the goroutine running syncWatchesLoop
  Gen,        \* bound: watch objects of one directory alive at a time
  MaxTime,    \* bound: last value of the clock
  Budgets,    \* bound: how many calls, writes, faults and crashes happen
  Faults,     \* how many of them are faults
  None

Kinds == {"watch", "tick", "clear", "write", "fault", "busy", "crash"}
Procs == Handlers \cup {Loop}
WatchIds == Dirs \X Gen
Time == 0 .. MaxTime
NoTime == -1

ASSUME DirAssumption ==
  /\ Dirs \subseteq Nat
  /\ IsFiniteSet(Dirs)
  /\ Above \subseteq Prefix
  /\ Prefix \subseteq Dirs \X Dirs
  /\ \A d \in Dirs : <<d, d>> \in Above
ASSUME BoundAssumption ==
  /\ MaxWatches \in Nat \ {0}
  /\ MaxTime \in Nat
  /\ Faults \in Nat
  /\ Budgets \subseteq [Kinds -> Nat]
  /\ \A b \in Budgets : b["fault"] = Faults
ASSUME NameAssumption ==
  /\ Loop \notin Handlers
  /\ None \notin Procs \cup WatchIds \cup Labels \cup Dirs
  /\ Procs \cap WatchIds = {}

VARIABLES
  now,        \* the clock
  ticks,      \* table ticks: the label of the tick at each second, or None
  ticksUp,    \* does table ticks exist
  rows,       \* table watches: records of dir, label and lastWrite
  watchesTable, \* "rowid" as NewServer creates it, "pk" as Clear does, "missing"
  dbMu,       \* the goroutine that holds dbMu, or None
  pc, req,    \* per process: where it is, and the WatchRequest it serves
  snap,       \* per process: dbWatches, as syncWatches read it
  errCount,   \* syncWatchesLoop's error count
  watches,    \* s.watches: the watch object of each directory, or None
  obj,        \* the watch objects, reachable from s.watches or not
  budget      \* what is left of one of Budgets

dbVars == <<ticks, ticksUp, rows, watchesTable>>
procVars == <<pc, req, snap, errCount>>
watchVars == <<watches, obj>>
vars == <<now, dbVars, dbMu, procVars, watchVars, budget>>

(***************************************************************************)
(* Watch objects                                                           *)
(***************************************************************************)
\* rec is the stage of recordWritesInDB: "sleep", "want" (waiting for dbMu,
\* hasPending already reset), "write" (holding dbMu), "exited".  watcher is
\* the stage of watcher.Watch: "starting" (the initial scan), "polling",
\* "stopped" (returned nil) or "dead" (returned an error, which syncWatches
\* only logs).  unread: the kernel's queue holds an event.  seen is a ghost:
\* when the latest event no tick covers yet was handled.
Unused ==
  [label |-> None, cancelled |-> FALSE, pending |-> FALSE, unread |-> FALSE,
   rec |-> "none", watcher |-> "none", stamp |-> NoTime, seen |-> NoTime]

\* Mutant: syncWatches starts the watcher only.
NewWatcher(l) == [Unused EXCEPT !.label = l, !.watcher = "starting"]

NewWatch(l) ==
  [Unused EXCEPT !.label = l, !.rec = "sleep", !.watcher = "starting"]

\* An object whose two goroutines have returned is garbage.
Reap(o) ==
  IF o.rec = "exited" /\ o.watcher \in {"stopped", "dead"} THEN Unused ELSE o

\* Its recorder runs and nobody has told it to stop.
Running(w) == obj[w].rec \in {"sleep", "want", "write"} /\ ~obj[w].cancelled

\* handleEvent: store 1 into hasPending.
HandleEvent(o) == [o EXCEPT !.pending = TRUE, !.seen = now]

(***************************************************************************)
(* Helpers                                                                 *)
(***************************************************************************)
Spend(k) == budget[k] > 0 /\ budget' = [budget EXCEPT ![k] = @ - 1]

Goto(p, l) == pc' = [pc EXCEPT ![p] = l]

\* An HTTP goroutine has answered its request.
Return(h) ==
  /\ Goto(h, "idle")
  /\ req' = [req EXCEPT ![h] = None]

Acquire(g) == dbMu = None /\ dbMu' = g


Release(g) == dbMu = g /\ dbMu' = None

Boot ==
  [p \in Procs |-> IF p = Loop THEN "boot" ELSE "idle"]

\* The process dies, with whatever it holds in memory, and systemd starts it
\* again: NewServer creates the tables that are missing and keeps the others
\* as they are.
Restart ==
  /\ dbMu' = None
  /\ pc' = Boot
  /\ req' = [p \in Procs |-> None]
  /\ snap' = [p \in Procs |-> {}]
  /\ errCount' = 0
  /\ watches' = [d \in Dirs |-> None]
  /\ obj' = [w \in WatchIds |-> Unused]
  /\ ticksUp' = TRUE
  /\ watchesTable' = IF watchesTable = "missing" THEN "rowid" ELSE watchesTable
  /\ UNCHANGED <<now, ticks, rows>>

Init ==
  /\ now = 0
  /\ ticks = [t \in Time |-> None]
  /\ ticksUp = TRUE
  /\ rows = {}
  /\ watchesTable = "rowid"
  /\ dbMu = None
  /\ pc = Boot
  /\ req = [p \in Procs |-> None]
  /\ snap = [p \in Procs |-> {}]
  /\ errCount = 0
  /\ watches = [d \in Dirs |-> None]
  /\ obj = [w \in WatchIds |-> Unused]
  /\ budget \in Budgets

(***************************************************************************)
(* Watch: addWatchToDB, then syncWatches                                   *)
(***************************************************************************)
StartWatch(h, d, l) ==
  /\ pc[h] = "idle"
  /\ Spend("watch")
  /\ Goto(h, "add")
  /\ req' = [req EXCEPT ![h] = [dir |-> d, label |-> l]]
  /\ UNCHANGED <<now, dbVars, dbMu, snap, errCount, watchVars>>

AddLock(h) ==
  /\ pc[h] = "add"
  /\ Acquire(h)
  /\ Goto(h, "check")
  /\ UNCHANGED <<now, dbVars, req, snap, errCount, watchVars, budget>>

\* Mutant: only a watch on the directory or above it is looked for.
ConflictsAbove(d) == {r \in rows : <<r.dir, d>> \in Prefix}

\* The rows that make addWatchToDB return a WatchExistsErr for directory d.
Conflicts(d) ==
  {r \in rows : <<r.dir, d>> \in Prefix \/ <<d, r.dir>> \in Prefix}

CheckExisting(h) ==
  /\ pc[h] = "check"
  /\ watchesTable # "missing"
  /\ IF Conflicts(req[h].dir) = {}
     THEN /\ Goto(h, "insert")
          /\ UNCHANGED <<dbMu, req>>
     ELSE /\ Return(h)
          /\ Release(h)
  /\ UNCHANGED <<now, dbVars, snap, errCount, watchVars, budget>>

\* A new row whose last_write another row has: only Clear's schema, where
\* last_write is the primary key, refuses it.
KeyTaken(t, others) ==
  watchesTable = "pk" /\ \E r \in others : r.lastWrite = t

Insert(h) ==
  /\ pc[h] = "insert"
  /\ ~KeyTaken(now, rows)
  /\ rows' = rows \cup
       {[dir |-> req[h].dir, label |-> req[h].label, lastWrite |-> now]}
  /\ Release(h)
  /\ Goto(h, "sync")
  /\ req' = [req EXCEPT ![h] = None]
  /\ UNCHANGED <<now, ticks, ticksUp, watchesTable, snap, errCount, watchVars,
                 budget>>

\* The query or the insertion fails: the deferred Unlock runs all the same.
AddFails(h) ==
  /\ \/ pc[h] = "check" /\ watchesTable = "missing" /\ UNCHANGED budget
     \/ pc[h] = "insert" /\ KeyTaken(now, rows) /\ UNCHANGED budget
     \/ pc[h] \in {"check", "insert"} /\ Spend("fault")
  /\ Release(h)
  /\ Return(h)
  /\ UNCHANGED <<now, dbVars, snap, errCount, watchVars>>

(***************************************************************************)
(* syncWatches, run by Watch and by syncWatchesLoop                        *)
(***************************************************************************)
\* Mutant: NewServer does not start syncWatchesLoop.
SyncOnCall(p) == pc[p] = "sync"

ReadyToSync(p) == pc[p] = "sync" \/ (p = Loop /\ pc[p] \in {"boot", "sleep"})

\* syncWatches returns: Watch answers, syncWatchesLoop sleeps.
SyncReturn(p) == Goto(p, IF p = Loop THEN "sleep" ELSE "idle")

\* Mutant: DELETE deletes nothing.
AllRetained(R) == {R}

\* Mutant: ORDER BY last_write without DESC.
OldestRetained(R) ==
  {K \in SUBSET R :
     /\ Cardinality(K) =
          IF Cardinality(R) < MaxWatches THEN Cardinality(R) ELSE MaxWatches
     /\ \A k \in K, e \in R \ K : k.lastWrite <= e.lastWrite}

\* What DELETE may leave of table R: the MaxWatches rows written last, in
\* any order between rows of the same second.
Retained(R) ==
  {K \in SUBSET R :
     /\ Cardinality(K) =
          IF Cardinality(R) < MaxWatches THEN Cardinality(R) ELSE MaxWatches
     /\ \A k \in K, e \in R \ K : e.lastWrite <= k.lastWrite}

\* Nobody looks at the error the DELETE may return.
SyncSweep(p) ==
  /\ ReadyToSync(p)
  /\ Acquire(p)
  /\ Goto(p, "read")
  /\ \/ rows' \in Retained(rows) /\ UNCHANGED budget
     \/ rows' = rows /\ Spend("fault")
  /\ UNCHANGED <<now, ticks, ticksUp, watchesTable, req, snap, errCount,
                 watchVars>>

SyncRead(p) ==
  /\ pc[p] = "read"
  /\ watchesTable # "missing"
  /\ snap' = [snap EXCEPT ![p] =
                {[dir |-> r.dir, label |-> r.label] : r \in rows}]
  /\ Release(p)
  /\ Goto(p, "align")
  /\ UNCHANGED <<now, dbVars, req, errCount, watchVars, budget>>

\* Another process keeps the database busy for longer than SQLite waits.  The
\* driver reports that through rows.Err, at which nobody looks: getDBWatches
\* returns no watches and no error.
SyncReadBusy(p) ==
  /\ pc[p] = "read"
  /\ watchesTable # "missing"
  /\ Spend("busy")
  /\ snap' = [snap EXCEPT ![p] = {}]
  /\ Release(p)
  /\ Goto(p, "align")
  /\ UNCHANGED <<now, dbVars, req, errCount, watchVars>>

\* The query fails and syncWatches returns with dbMu locked.  The third error
\* of syncWatchesLoop is a panic.
SyncFails(p) ==
  /\ pc[p] = "read"
  /\ \/ watchesTable = "missing" /\ UNCHANGED budget
     \/ watchesTable # "missing" /\ Spend("fault")
  /\ IF p = Loop /\ errCount + 1 >= 3
     THEN Restart
     ELSE /\ SyncReturn(p)
          /\ errCount' = IF p = Loop THEN errCount + 1 ELSE errCount
          /\ UNCHANGED <<now, dbVars, dbMu, req, snap, watchVars>>

\* existingWatches after the removal of its element i: what copy() returns
\* counts the elements after i only, so truncating to it loses others.
DropAt(existing, i) == SubSeq(RemoveAt(existing, i), 1, Len(existing) - i)

\* The merge of existingWatches and dbWatches: where it is in both, and the
\* directories it has created and removed watches for so far.
Merging ==
  [existing : Seq(Dirs), i : Nat \ {0}, j : Nat \ {0},
   create : SUBSET Dirs, remove : SUBSET Dirs]

\* Mutant: the merge ends with the shorter slice.
MergeEndsEarly(want, m) == m.i > Len(m.existing) \/ m.j > Len(want)

MergeEnds(want, m) == m.i > Len(m.existing) /\ m.j > Len(want)

\* One turn of the loop.
MergeTurn(want, m) ==
  LET more == m.i <= Len(m.existing)
      wanted == m.j <= Len(want)
  IN  CASE wanted /\ (~more \/ m.existing[m.i] > want[m.j]) ->
             [m EXCEPT !.j = @ + 1, !.create = @ \cup {want[m.j]}]
        [] more /\ (~wanted \/ m.existing[m.i] < want[m.j]) ->
             [m EXCEPT !.i = @ + 1, !.remove = @ \cup {m.existing[m.i]},
                       !.existing = DropAt(@, m.i)]
        [] OTHER -> [m EXCEPT !.i = @ + 1, !.j = @ + 1]

\* The loop, with existingWatches and dbWatches in the order of the paths.
Align(live, want) ==
  LET merge[m \in Merging] ==
        IF MergeEnds(want, m) THEN m ELSE merge[MergeTurn(want, m)]
  IN  merge[[existing |-> live, i |-> 1, j |-> 1, create |-> {}, remove |-> {}]]

Sorted(S) ==
  CHOOSE s \in SetToSeqs(S) : \A m, n \in DOMAIN s : m < n => s[m] < s[n]

\* The directories that s.watches has a watch of.
Listed == {d \in Dirs : watches[d] # None}

Ops(p) == Align(Sorted(Listed), Sorted({s.dir : s \in snap[p]}))

Free(d) == {g \in Gen : obj[<<d, g>>] = Unused}
NextId(d) == <<d, CHOOSE g \in Free(d) : TRUE>>

\* One step, because watchMu is held.  A directory that is created while
\* s.watches has it already loses the old object without cancelling it.
SyncAlign(p) ==
  /\ pc[p] = "align"
  /\ LET ops == Ops(p)
         made == {s \in snap[p] : s.dir \in ops.create}
         gone == {d \in ops.remove : watches[d] # None}
     IN  /\ \A s \in made : Free(s.dir) # {}
         /\ watches' = [d \in Dirs |->
              IF \E s \in made : s.dir = d THEN NextId(d)
              ELSE IF d \in gone THEN None ELSE watches[d]]
         /\ obj' = [w \in WatchIds |->
              IF \E s \in made : w = NextId(s.dir)
              THEN NewWatch((CHOOSE s \in made : s.dir = w[1]).label)
              ELSE IF w[1] \in gone /\ watches[w[1]] = w
                   THEN [obj[w] EXCEPT !.cancelled = TRUE] ELSE obj[w]]
  /\ snap' = [snap EXCEPT ![p] = {}]
  /\ SyncReturn(p)
  /\ UNCHANGED <<now, dbVars, dbMu, req, errCount, budget>>

(***************************************************************************)
(* Tick, Clear and GetWatches                                              *)
(***************************************************************************)
\* A plain INSERT: a second tick in the same second is an error.
Tick(l) ==
  /\ Spend("tick")
  /\ dbMu = None
  /\ ticksUp /\ ticks[now] = None
  /\ ticks' = [ticks EXCEPT ![now] = l]
  /\ UNCHANGED <<now, ticksUp, rows, watchesTable, dbMu, procVars, watchVars>>

\* The four statements of Clear are no transaction: n of them have run when
\* it returns.  Dropping a table that is missing fails.
Clear(n) ==
  /\ dbMu = None
  /\ ticksUp
  /\ budget["clear"] > 0
  /\ \/ n = 4 /\ watchesTable # "missing" /\ Spend("clear")
     \/ n = 1 /\ watchesTable = "missing" /\ Spend("clear")
     \/ n \in 1 .. 3 /\ watchesTable # "missing" /\ Spend("fault")
  /\ ticks' = [t \in Time |-> None]
  /\ ticksUp' = (n >= 3)
  /\ rows' = IF n >= 2 THEN {} ELSE rows
  /\ watchesTable' =
       CASE n = 4 -> "pk" [] n \in {2, 3} -> "missing" [] OTHER -> watchesTable
  /\ UNCHANGED <<now, dbMu, procVars, watchVars>>

GetWatches ==
  {[dir |-> d, label |-> obj[watches[d]].label] :
     d \in {e \in Dirs : watches[e] # None}}

(***************************************************************************)
(* The recorder of watch object w: recordWritesInDB                        *)
(***************************************************************************)
\* Mutant: the recorder does not wait for dbMu.
RecTryLock(w) ==
  /\ obj[w].rec = "sleep"
  /\ obj[w].pending
  /\ obj' = [obj EXCEPT ![w].pending = FALSE,
               ![w].rec = IF dbMu = None THEN "want" ELSE "sleep"]
  /\ UNCHANGED <<now, dbVars, dbMu, procVars, watches, budget>>

\* select chooses freely between the ticker and a cancelled context, so a
\* cancelled recorder may well go round once more.
RecTick(w) ==
  /\ obj[w].rec = "sleep"
  /\ obj[w].pending
  /\ obj' = [obj EXCEPT ![w].pending = FALSE, ![w].rec = "want"]
  /\ UNCHANGED <<now, dbVars, dbMu, procVars, watches, budget>>

RecExit(w) ==
  /\ obj[w].rec = "sleep"
  /\ obj[w].cancelled
  /\ obj' = [obj EXCEPT ![w] = Reap([@ EXCEPT !.rec = "exited"])]
  /\ UNCHANGED <<now, dbVars, dbMu, procVars, watches, budget>>

\* Mutant: the second is rounded up.
RecLockAhead(w) ==
  /\ obj[w].rec = "want"
  /\ Acquire(w)
  /\ obj' = [obj EXCEPT ![w].rec = "write", ![w].stamp = now + 1]
  /\ UNCHANGED <<now, dbVars, procVars, watches, budget>>

\* Mutant: the clock is read before Lock, at some time since the event.
RecLockLate(w) ==
  /\ obj[w].rec = "want"
  /\ Acquire(w)
  /\ \E t \in Time :
       /\ obj[w].seen <= t /\ t <= now
       /\ obj' = [obj EXCEPT ![w].rec = "write", ![w].stamp = t]
  /\ UNCHANGED <<now, dbVars, procVars, watches, budget>>

RecLock(w) ==
  /\ obj[w].rec = "want"
  /\ Acquire(w)
  /\ obj' = [obj EXCEPT ![w].rec = "write", ![w].stamp = now]
  /\ UNCHANGED <<now, dbVars, procVars, watches, budget>>

\* UPDATE watches SET last_write = t WHERE dir = d
Touch(d, t) ==
  {IF r.dir = d THEN [r EXCEPT !.lastWrite = t] ELSE r : r \in rows}

UpdateFails(d, t) ==
  \/ ~ticksUp
  \/ watchesTable = "missing"
  \/ (\E r \in rows : r.dir = d) /\ KeyTaken(t, {r \in rows : r.dir # d})

RecDone(w) ==
  /\ Release(w)
  /\ UNCHANGED <<now, ticksUp, watchesTable, procVars, watches>>

\* Mutant: hasPending is reset once the transaction is done.
RecordedReset(o) ==
  [o EXCEPT !.rec = "sleep", !.stamp = NoTime, !.pending = FALSE,
            !.seen = IF @ <= o.stamp THEN NoTime ELSE @]

\* The recorder goes back to sleep; its tick covers the events up to its second.
Recorded(o) ==
  [o EXCEPT !.rec = "sleep", !.stamp = NoTime,
            !.seen = IF @ <= o.stamp THEN NoTime ELSE @]

RecCommit(w) ==
  /\ obj[w].rec = "write"
  /\ ~UpdateFails(w[1], obj[w].stamp)
  /\ ticks' = IF ticks[obj[w].stamp] = None
              THEN [ticks EXCEPT ![obj[w].stamp] = obj[w].label] ELSE ticks
  /\ rows' = Touch(w[1], obj[w].stamp)
  /\ obj' = [obj EXCEPT ![w] = Recorded(@)]
  /\ RecDone(w)
  /\ UNCHANGED budget

\* Mutant: the error of a statement does not roll the transaction back.
RecHalf(w) ==
  /\ obj[w].rec = "write"
  /\ Spend("fault")
  /\ obj' = [obj EXCEPT ![w].rec = "sleep", ![w].stamp = NoTime]
  /\ rows' = Touch(w[1], obj[w].stamp)
  /\ RecDone(w)
  /\ UNCHANGED ticks

\* Mutant: an error ends the recorder.
RecGivesUp(w) ==
  /\ obj[w].rec = "write"
  /\ Spend("fault")
  /\ obj' = [obj EXCEPT ![w].rec = "exited", ![w].stamp = NoTime]
  /\ RecDone(w)
  /\ UNCHANGED <<ticks, rows>>

\* A statement or the commit fails and the transaction is rolled back.
\* hasPending stays 0.
RecRollback(w) ==
  /\ obj[w].rec = "write"
  /\ \/ UpdateFails(w[1], obj[w].stamp) /\ UNCHANGED budget
     \/ Spend("fault")
  /\ obj' = [obj EXCEPT ![w].rec = "sleep", ![w].stamp = NoTime]
  /\ RecDone(w)
  /\ UNCHANGED <<ticks, rows>>

\* Begin fails: the error is logged and the nil txn dereferenced.
RecBeginPanics(w) ==
  /\ obj[w].rec = "write"
  /\ Spend("fault")
  /\ Restart

(***************************************************************************)
(* The watcher of watch object w: watcher.Watch                            *)
(***************************************************************************)
\* The initial scan calls handleEvent for every entry it finds: one event
\* stands for those of a directory that is not empty.
WatcherStart(w) ==
  /\ obj[w].watcher = "starting"
  /\ \/ obj' = [obj EXCEPT ![w].watcher = "polling"] /\ UNCHANGED budget
     \/ /\ Spend("write")
        /\ obj' = [obj EXCEPT ![w] =
                     [HandleEvent(@) EXCEPT !.watcher = "polling"]]
  /\ UNCHANGED <<now, dbVars, dbMu, procVars, watches>>

WatcherRead(w) ==
  /\ obj[w].watcher = "polling"
  /\ obj[w].unread
  /\ obj' = [obj EXCEPT ![w] = [HandleEvent(@) EXCEPT !.unread = FALSE]]
  /\ UNCHANGED <<now, dbVars, dbMu, procVars, watches, budget>>

\* Mutant: read blocks, so that a cancelled context is noticed with an event.
WatcherBlocks(w) ==
  /\ obj[w].watcher = "polling"
  /\ obj[w].cancelled /\ obj[w].unread
  /\ obj' = [obj EXCEPT ![w] =
               Reap([@ EXCEPT !.watcher = "stopped", !.unread = FALSE])]
  /\ UNCHANGED <<now, dbVars, dbMu, procVars, watches, budget>>

WatcherStop(w) ==
  /\ obj[w].watcher = "polling"
  /\ obj[w].cancelled
  /\ obj' = [obj EXCEPT ![w] =
               Reap([@ EXCEPT !.watcher = "stopped", !.unread = FALSE])]
  /\ UNCHANGED <<now, dbVars, dbMu, procVars, watches, budget>>

\* An error from a system call or a callback, or the root has been deleted.
WatcherFails(w) ==
  /\ obj[w].watcher \in {"starting", "polling"}
  /\ Spend("fault")
  /\ obj' = [obj EXCEPT ![w] =
               Reap([@ EXCEPT !.watcher = "dead", !.unread = FALSE])]
  /\ UNCHANGED <<now, dbVars, dbMu, procVars, watches>>

(***************************************************************************)
(* The environment: file writes, the clock, crashes                        *)
(***************************************************************************)
Hears(w, d) == obj[w].watcher = "polling" /\ <<w[1], d>> \in Above

Write(d) ==
  /\ \E w \in WatchIds : Hears(w, d)
  /\ Spend("write")
  /\ obj' = [w \in WatchIds |->
       IF Hears(w, d) THEN [obj[w] EXCEPT !.unread = TRUE] ELSE obj[w]]
  /\ UNCHANGED <<now, dbVars, dbMu, procVars, watches>>

Advance ==
  /\ now < MaxTime
  /\ now' = now + 1
  /\ UNCHANGED <<dbVars, dbMu, procVars, watchVars, budget>>

Crash == Spend("crash") /\ Restart

(***************************************************************************)
(* The specification                                                       *)
(***************************************************************************)
AddStep(h) == CheckExisting(h) \/ Insert(h) \/ AddFails(h)
SyncStep(p) == SyncRead(p) \/ SyncFails(p) \/ SyncAlign(p)
RecStep(w) == RecTick(w) \/ RecCommit(w) \/ RecRollback(w) \/ RecBeginPanics(w)
WatcherStep(w) == WatcherStart(w) \/ WatcherRead(w)

Next ==
  \/ \E h \in Handlers :
       \/ \E d \in Dirs, l \in Labels : StartWatch(h, d, l)
       \/ AddLock(h)
       \/ AddStep(h)
  \/ \E p \in Procs : SyncSweep(p) \/ SyncStep(p) \/ SyncReadBusy(p)
  \/ \E l \in Labels : Tick(l)
  \/ \E n \in 1 .. 4 : Clear(n)
  \/ \E w \in WatchIds :
       \/ RecStep(w) \/ RecExit(w) \/ RecLock(w)
       \/ WatcherStep(w) \/ WatcherStop(w) \/ WatcherFails(w)
  \/ \E d \in Dirs : Write(d)
  \/ Advance
  \/ Crash

Spec == Init /\ [][Next]_vars

\* What a goroutine does with dbMu, or without needing it, and where it waits for
\* it.
ProcStep(p) == AddStep(p) \/ SyncStep(p)
ProcLock(p) == AddLock(p) \/ SyncSweep(p)
ObjectStep(w) == RecStep(w) \/ RecExit(w) \/ WatcherStep(w) \/ WatcherStop(w)

\* Every goroutine that can run eventually does.  A goroutine waiting for
\* dbMu gets it although others take it again and again: sync.RWMutex hands
\* the lock over to a waiter that has starved for a millisecond.  Of the watch
\* objects' goroutines it is enough that they are not all kept out, because only
\* syncWatchesLoop goes on for ever.
Fairness ==
  /\ \A p \in Procs : WF_vars(ProcStep(p)) /\ SF_vars(ProcLock(p))
  /\ WF_vars(\E w \in WatchIds : ObjectStep(w))
  /\ SF_vars(\E w \in WatchIds : RecLock(w))

FairSpec == Spec /\ Fairness

--------------------------------------------------------------------------------
(***************************************************************************)
(* Properties                                                              *)
(***************************************************************************)
Requests == [dir : Dirs, label : Labels]
Rows == [dir : Dirs, label : Labels, lastWrite : Time]
Objects ==
  [label : Labels \cup {None}, cancelled : BOOLEAN, pending : BOOLEAN,
   unread : BOOLEAN, rec : {"none", "sleep", "want", "write", "exited"},
   watcher : {"none", "starting", "polling", "stopped", "dead"},
   stamp : Time \cup {NoTime}, seen : Time \cup {NoTime}]

\* Every variable has its type.
TypeOK ==
  /\ now \in Time
  /\ ticks \in [Time -> Labels \cup {None}]
  /\ ticksUp \in BOOLEAN
  /\ rows \subseteq Rows
  /\ watchesTable \in {"rowid", "pk", "missing"}
  /\ dbMu \in Procs \cup WatchIds \cup {None}
  /\ pc \in [Procs -> {"boot", "idle", "add", "check", "insert", "sync", "read",
                       "align", "sleep"}]
  /\ req \in [Procs -> Requests \cup {None}]
  /\ snap \in [Procs -> SUBSET Requests]
  /\ errCount \in Nat
  /\ watches \in [Dirs -> WatchIds \cup {None}]
  /\ obj \in [WatchIds -> Objects]
  /\ budget \in [Kinds -> Nat]

\* No two rows of the table watches are on the same directory or on one whose
\* path is a prefix of the other's: two Watch calls cannot both pass the
\* existence check of addWatchToDB before either has inserted its row.
NoNestedWatches ==
  \A r, s \in rows : r # s => <<r.dir, s.dir>> \notin Prefix

\* The Watch calls that have inserted their row and not yet reached the sweep of
\* syncWatches.
Syncing == {h \in Handlers : pc[h] = "sync"}

\* A statement or a system call has failed.
Failed == budget["fault"] # Faults

\* While no statement fails, the table watches exceeds maxWatches by at most the
\* Watch calls that are still to sweep it, whoever sweeps first; after a crash,
\* once syncWatchesLoop has swept.
WatchesBounded ==
  pc[Loop] # "boot" /\ ~Failed =>
    Cardinality(rows) <= MaxWatches + Cardinality(Syncing)

\* Each watch that GetWatches lists has a recorder that runs and has not been
\* cancelled, and is an object of that directory.
ListedIsRecording ==
  \A d \in Dirs : watches[d] # None => watches[d][1] = d /\ Running(watches[d])

\* What syncWatches makes of the snapshot it has read, although its merge loses
\* elements of existingWatches: afterwards each directory of the snapshot is
\* listed, none of the others has been added and one of them at least has gone,
\* and no watch object of a directory in the snapshot has been cancelled.
SyncConverges ==
  [][\A p \in Procs : SyncAlign(p) =>
       LET want == {s.dir : s \in snap[p]}
       IN  /\ want \subseteq Listed'
           /\ Listed' \ want \subseteq Listed
           /\ Listed \subseteq want \/ ~(Listed \subseteq Listed')
           /\ \A w \in WatchIds :
                obj'[w].cancelled => obj[w].cancelled \/ w[1] \notin want]_vars

\* "if any writes have been recorded since the last run, it writes a
\* corresponding record into the DB" (the comment on recordWritesInDB).
RecordsWrites ==
  \A w \in WatchIds :
    obj[w].rec = "sleep" /\ ~obj[w].pending => obj[w].seen = NoTime

\* Until Clear recreates the tables and while no statement or system call has
\* failed: a recorder that sleeps with hasPending = 0 has left a tick for every
\* event it has handled, in the second of the event or later.
EventsTicked ==
  watchesTable = "rowid" /\ ticksUp /\ ~Failed => RecordsWrites

\* last_write of a row never moves back: a recorder reads the clock after it
\* has the lock, so the updates come in the order of their times.
LastWriteMonotone ==
  [][\A r \in rows, s \in rows' :
       r.dir = s.dir => r.lastWrite <= s.lastWrite]_vars

\* The transaction of recordWritesInDB: a row's last_write moves only to a
\* second at which the table ticks has a tick once the step is done.
MovesWithTick ==
  [][\A r \in rows, s \in rows' :
       r.dir = s.dir /\ r.lastWrite # s.lastWrite
         => ticksUp' /\ ticks'[s.lastWrite] # None]_vars

\* The early return of syncWatches when its read fails has left dbMu locked: only
\* the death of the process unlocks it.
LockKept ==
  Failed /\ dbMu \in Procs /\ pc[dbMu] \notin {"check", "insert", "read"}

\* Once no more calls, faults or crashes come, the directories of s.watches are
\* those of the table watches for good, whatever order the snapshots of
\* concurrent syncWatches calls are applied in, after a crash or a panic, after a
\* statement that failed, and after a read of a busy database that has made
\* syncWatches cancel every watch; unless the read that failed is that of
\* syncWatches, which keeps dbMu.
EventuallyAligned ==
  <>[](LockKept \/ Listed = {r.dir : r \in rows})


\* Once cancelled, a watch object's two goroutines return, unless the recorder
\* waits for a lock that is kept.
CancelledStops ==
  <>[](LockKept \/ \A w \in WatchIds : ~obj[w].cancelled)

\* Every event a watch handles is in time covered by a tick, unless the watch is
\* cancelled, the daemon dies or a statement fails.
EventsRecorded ==
  <>[](Failed \/ \A w \in WatchIds : obj[w].seen = NoTime \/ obj[w].cancelled)

(***************************************************************************)
(* The abstract specification                                              *)
(***************************************************************************)
LastWrites ==
  [d \in Dirs |-> IF \E r \in rows : r.dir = d
                  THEN (CHOOSE r \in rows : r.dir = d).lastWrite ELSE NoTime]

Reg == INSTANCE Registry WITH reg <- LastWrites

\* The table watches is a Registry, whoever calls Watch when, whichever
\* statement returns an error and wherever the daemon dies: a directory enters it
\* only while nothing it is nested with is there, its time only grows, and what
\* syncWatches evicts was written no later than what stays.  (A read that is cut
\* short without an error, as in SyncReadBusy, is left out of addWatchToDB.)
ImplementsRegistry == Reg!Spec

(***************************************************************************)
(* What the repository says of the program and the code does not do        *)
(***************************************************************************)
\* "watches maps paths currently watched by 'server' to a cancel() fn" (the
\* comment on server.watches): a watch object that runs is the one s.watches
\* has for its directory.
RunningIsListed == \A w \in WatchIds : Running(w) => watches[w[1]] = w

\* "giving up syncing watches: too many errors" (the panic of
\* syncWatchesLoop): tables that are missing are not missing for ever, because
\* the third failing sync ends the process and the next one creates them.
TablesComeBack == (watchesTable = "missing") ~> (watchesTable # "missing")
================================================================================
