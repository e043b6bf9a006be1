--------------------------- MODULE WatchDaemonProofs ---------------------------
(***************************************************************************)
(* Theorems about WatchDaemon, for every number of directories, handlers,  *)
(* labels and watch objects, every bound and every budget of calls, faults *)
(* and crashes.                                                            *)
(***************************************************************************)
EXTENDS WatchDaemon, TLAPS

\* An HTTP goroutine in addWatchToDB has its request.
Requested ==
  \A h \in Handlers : pc[h] \in {"add", "check", "insert"} => req[h] \in Requests

\* Whoever reads or writes the database holds dbMu.
Locked ==
  /\ \A p \in Procs : pc[p] \in {"check", "insert", "read"} => dbMu = p
  /\ \A w \in WatchIds : obj[w].rec = "write" => dbMu = w

\* What CheckExisting found is still so when Insert inserts.
Checked ==
  \A h \in Handlers : pc[h] = "insert" => Conflicts(req[h].dir) = {}

\* A recorder about to write has read the clock when it took dbMu, and no row
\* has been written since.
Stamped ==
  /\ \A r \in rows : r.lastWrite <= now
  /\ \A w \in WatchIds : obj[w].rec = "write" =>
       /\ obj[w].stamp \in Time
       /\ obj[w].stamp <= now
       /\ \A r \in rows : r.lastWrite <= obj[w].stamp

\* A watch object with a recorder has the label of some request.
Labelled == \A w \in WatchIds : obj[w].rec # "none" => obj[w].label \in Labels

IInv ==
  /\ TypeOK /\ Requested /\ Locked /\ Checked /\ Stamped /\ Labelled
  /\ NoNestedWatches /\ ListedIsRecording

USE DEF Procs, WatchIds, Time, NoTime

(***************************************************************************)
(* Types                                                                   *)
(***************************************************************************)
LEMMA UnusedType == Unused \in Objects
BY DEF Unused, Objects

LEMMA NewWatchType == ASSUME NEW l \in Labels PROVE NewWatch(l) \in Objects
BY DEF NewWatch, Unused, Objects

LEMMA ReapType == ASSUME NEW o \in Objects PROVE Reap(o) \in Objects
BY UnusedType DEF Reap

LEMMA HandleEventType ==
  ASSUME now \in Time, NEW o \in Objects PROVE HandleEvent(o) \in Objects
BY DEF HandleEvent, Objects

LEMMA SpendType ==
  ASSUME TypeOK, NEW k \in Kinds, Spend(k) PROVE budget' \in [Kinds -> Nat]
BY DEF TypeOK, Spend

\* Updating one watch object.
LEMMA ObjType ==
  ASSUME TypeOK, NEW w \in WatchIds, NEW o \in Objects, obj' = [obj EXCEPT ![w] = o]
  PROVE  obj' \in [WatchIds -> Objects]
BY DEF TypeOK

\* The rows after UPDATE are the rows before, with another last_write at most.
LEMMA TouchRows ==
  ASSUME rows \subseteq Rows, NEW d, NEW t \in Time
  PROVE  /\ Touch(d, t) \subseteq Rows
         /\ \A r \in Touch(d, t) : \E q \in rows :
              /\ q.dir = r.dir /\ (r = q \/ r.lastWrite = t)
              /\ r = IF q.dir = d THEN [q EXCEPT !.lastWrite = t] ELSE q
BY DEF Touch, Rows

(***************************************************************************)
(* The steps of the goroutines of a watch object outside the lock          *)
(***************************************************************************)
\* Such a step changes no row, no lock and no entry of s.watches; it begins no
\* write to the database and stops no recorder that has not been cancelled.
LEMMA QuietStep ==
  ASSUME IInv, UNCHANGED <<now, dbVars, dbMu, procVars, watches>>,
         obj' \in [WatchIds -> Objects], budget' \in [Kinds -> Nat],
         \A w \in WatchIds :
           /\ obj'[w].rec = "write" => /\ obj[w].rec = "write"
                                   /\ obj'[w].stamp = obj[w].stamp
           /\ obj'[w].rec # "none" => /\ obj[w].rec # "none"
                                      /\ obj'[w].label = obj[w].label
           /\ Running(w) => Running(w)'
  PROVE  IInv'
<1>1. TypeOK'
  BY DEF IInv, TypeOK, dbVars, procVars
<1>2. Requested' /\ Locked' /\ Checked' /\ NoNestedWatches'
  BY DEF IInv, Requested, Locked, Checked, Conflicts, NoNestedWatches, dbVars, procVars
<1>3. Stamped' /\ Labelled'
  BY DEF IInv, Stamped, Labelled, dbVars
<1>4. ListedIsRecording'
  BY DEF IInv, TypeOK, ListedIsRecording
<1> QED  BY <1>1, <1>2, <1>3, <1>4 DEF IInv

LEMMA RecTickStep ==
  ASSUME IInv, NEW w \in WatchIds, RecTick(w) PROVE IInv'
<1> DEFINE o == [obj[w] EXCEPT !.pending = FALSE, !.rec = "want"]
<1>1. obj \in [WatchIds -> Objects] /\ budget \in [Kinds -> Nat]
  BY DEF IInv, TypeOK
<1>2. o \in Objects
  <2>1. obj[w] \in Objects
    BY <1>1
  <2> QED  BY <2>1 DEF Objects
<1>3. obj' = [obj EXCEPT ![w] = o]
  BY <1>1 DEF RecTick
<1>4. obj' \in [WatchIds -> Objects]
  BY <1>1, <1>2, <1>3
<1>5. /\ obj[w].rec = "sleep" /\ o.rec = "want" /\ o.cancelled = obj[w].cancelled
      /\ o.label = obj[w].label
  BY <1>1 DEF RecTick, Objects
<1> QED
  BY <1>1, <1>3, <1>4, <1>5, QuietStep DEF RecTick, Running

LEMMA RecExitStep ==
  ASSUME IInv, NEW w \in WatchIds, RecExit(w) PROVE IInv'
<1> DEFINE o == Reap([obj[w] EXCEPT !.rec = "exited"])
<1>1. obj \in [WatchIds -> Objects] /\ budget \in [Kinds -> Nat]
  BY DEF IInv, TypeOK
<1>2. o \in Objects
  BY <1>1, ReapType DEF Objects
<1>3. obj' = [obj EXCEPT ![w] = o]
  BY DEF RecExit
<1>4. obj' \in [WatchIds -> Objects]
  BY <1>1, <1>2, <1>3
<1>5. /\ o.rec # "write" /\ ~Running(w) /\ obj[w].rec # "none"
      /\ o.rec # "none" => o.label = obj[w].label
  BY <1>1 DEF RecExit, Running, Reap, Unused, Objects
<1> QED
  BY <1>1, <1>3, <1>4, <1>5, QuietStep DEF RecExit, Running

LEMMA WatcherStartStep ==
  ASSUME IInv, NEW w \in WatchIds, WatcherStart(w) PROVE IInv'
<1>1. now \in Time /\ obj \in [WatchIds -> Objects] /\ budget \in [Kinds -> Nat]
  BY DEF IInv, TypeOK
<1>2. PICK e \in {obj[w], HandleEvent(obj[w])} :
        obj' = [obj EXCEPT ![w] = [e EXCEPT !.watcher = "polling"]]
  BY <1>1 DEF WatcherStart
<1> DEFINE o == [e EXCEPT !.watcher = "polling"]
<1>a. /\ e \in Objects
      /\ e.rec = obj[w].rec /\ e.stamp = obj[w].stamp
      /\ e.cancelled = obj[w].cancelled /\ e.label = obj[w].label
  <2>1. obj[w] \in Objects
    BY <1>1
  <2>2. HandleEvent(obj[w]) \in Objects
    BY <1>1, <2>1, HandleEventType
  <2>3. LET c == HandleEvent(obj[w])
        IN  c.rec = obj[w].rec /\ c.stamp = obj[w].stamp /\ c.cancelled = obj[w].cancelled
            /\ c.label = obj[w].label
    BY <2>1 DEF HandleEvent, Objects
  <2> QED  BY <2>1, <2>2, <2>3
<1>b. /\ o \in Objects
      /\ o.rec = obj[w].rec /\ o.stamp = obj[w].stamp
      /\ o.cancelled = obj[w].cancelled /\ o.label = obj[w].label
  BY <1>a DEF Objects
<1>3. obj' \in [WatchIds -> Objects]
  BY <1>1, <1>2, <1>b
<1>4. budget' \in [Kinds -> Nat]
  BY <1>1, SpendType DEF WatcherStart, Kinds, IInv
<1> QED
  BY <1>1, <1>2, <1>b, <1>3, <1>4, QuietStep DEF WatcherStart, Running

LEMMA WatcherReadStep ==
  ASSUME IInv, NEW w \in WatchIds, WatcherRead(w) PROVE IInv'
<1> DEFINE o == [HandleEvent(obj[w]) EXCEPT !.unread = FALSE]
<1>1. now \in Time /\ obj \in [WatchIds -> Objects] /\ budget \in [Kinds -> Nat]
  BY DEF IInv, TypeOK
<1>2. /\ o \in Objects
      /\ o.rec = obj[w].rec /\ o.stamp = obj[w].stamp
      /\ o.cancelled = obj[w].cancelled /\ o.label = obj[w].label
  BY <1>1 DEF Objects, HandleEvent
<1>3. obj' = [obj EXCEPT ![w] = o]
  BY DEF WatcherRead
<1>4. obj' \in [WatchIds -> Objects]
  BY <1>1, <1>2, <1>3
<1> QED
  BY <1>1, <1>2, <1>3, <1>4, QuietStep DEF WatcherRead, Running

\* A watcher that returns: it is reaped only if its recorder has exited.
LEMMA WatcherEnds ==
  ASSUME IInv, NEW w \in WatchIds, NEW s \in {"stopped", "dead"},
         obj' = [obj EXCEPT ![w] = Reap([@ EXCEPT !.watcher = s, !.unread = FALSE])],
         UNCHANGED <<now, dbVars, dbMu, procVars, watches>>,
         budget' \in [Kinds -> Nat]
  PROVE  IInv'
<1> DEFINE o == [obj[w] EXCEPT !.watcher = s, !.unread = FALSE]
<1>1. obj \in [WatchIds -> Objects]
  BY DEF IInv, TypeOK
<1>2. /\ o \in Objects
      /\ o.rec = obj[w].rec /\ o.stamp = obj[w].stamp
      /\ o.cancelled = obj[w].cancelled /\ o.label = obj[w].label
  BY <1>1 DEF Objects
<1>3. Reap(o) \in Objects
  BY <1>2, ReapType
<1>4. obj' \in [WatchIds -> Objects]
  BY <1>1, <1>3
<1>5. Reap(o) = o \/ (Reap(o).rec = "none" /\ obj[w].rec = "exited")
  BY <1>2 DEF Reap, Unused
<1> QED
  BY <1>1, <1>2, <1>4, <1>5, QuietStep DEF Running

LEMMA WatcherStopStep ==
  ASSUME IInv, NEW w \in WatchIds, WatcherStop(w) PROVE IInv'
BY WatcherEnds DEF WatcherStop, IInv, TypeOK

LEMMA WatcherFailsStep ==
  ASSUME IInv, NEW w \in WatchIds, WatcherFails(w) PROVE IInv'
BY WatcherEnds, SpendType DEF WatcherFails, IInv, Kinds

LEMMA WriteStep ==
  ASSUME IInv, NEW d \in Dirs, Write(d) PROVE IInv'
<1>1. obj \in [WatchIds -> Objects]
  BY DEF IInv, TypeOK
<1>2. ASSUME NEW w \in WatchIds
      PROVE  /\ obj'[w] \in Objects
             /\ obj'[w].rec = obj[w].rec /\ obj'[w].stamp = obj[w].stamp
             /\ obj'[w].cancelled = obj[w].cancelled /\ obj'[w].label = obj[w].label
  <2>1. obj[w] \in Objects
    BY <1>1
  <2>2. obj'[w] \in {obj[w], [obj[w] EXCEPT !.unread = TRUE]}
    BY DEF Write
  <2> QED  BY <2>1, <2>2 DEF Objects
<1>3. obj' \in [WatchIds -> Objects]
  BY <1>2 DEF Write
<1>4. budget' \in [Kinds -> Nat]
  BY SpendType DEF Write, IInv, Kinds
<1> QED
  BY <1>1, <1>2, <1>3, <1>4, QuietStep DEF Write, Running

(***************************************************************************)
(* The clock, and a restart of the process                                 *)
(***************************************************************************)
LEMMA AdvanceStep == ASSUME IInv, Advance PROVE IInv'
<1>1. TypeOK' /\ Requested' /\ Locked' /\ Checked' /\ NoNestedWatches'
  BY BoundAssumption
  DEF IInv, TypeOK, Requested, Locked, Checked, Conflicts, NoNestedWatches,
      Advance, dbVars, procVars, watchVars
<1>2. Stamped'
  BY BoundAssumption DEF IInv, TypeOK, Rows, Stamped, Advance, dbVars, watchVars
<1>3. ListedIsRecording' /\ Labelled'
  BY DEF IInv, ListedIsRecording, Labelled, Running, Advance, watchVars
<1> QED  BY <1>1, <1>2, <1>3 DEF IInv

LEMMA RestartStep ==
  ASSUME IInv, Restart, budget' \in [Kinds -> Nat] PROVE IInv'
<1>1. obj' = [w \in WatchIds |-> Unused] /\ Unused.rec = "none"
  BY DEF Restart, Unused
<1>2. TypeOK'
  BY UnusedType DEF IInv, TypeOK, Restart, Boot
<1>3. Requested' /\ Locked' /\ Checked'
  BY <1>1, NameAssumption DEF IInv, Requested, Locked, Checked, Restart, Boot
<1>4. Stamped' /\ NoNestedWatches'
  BY <1>1 DEF IInv, Stamped, NoNestedWatches, Restart
<1>5. ListedIsRecording' /\ Labelled'
  BY <1>1 DEF ListedIsRecording, Labelled, Restart
<1> QED  BY <1>2, <1>3, <1>4, <1>5 DEF IInv

(***************************************************************************)
(* Watch                                                                   *)
(***************************************************************************)
LEMMA StartWatchStep ==
  ASSUME IInv, NEW h \in Handlers, NEW d \in Dirs, NEW l \in Labels, StartWatch(h, d, l)
  PROVE  IInv'
<1>1. budget' \in [Kinds -> Nat]
  BY SpendType DEF IInv, StartWatch, Kinds
<1>2. [dir |-> d, label |-> l] \in Requests
  BY DEF Requests
<1>3. TypeOK' /\ Requested'
  BY <1>1, <1>2
  DEF IInv, TypeOK, Requested, StartWatch, Goto, dbVars, watchVars
<1>4. Locked' /\ Checked' /\ Stamped' /\ NoNestedWatches'
  BY DEF IInv, TypeOK, Locked, Checked, Conflicts, Stamped, NoNestedWatches, StartWatch,
         Goto, dbVars, watchVars
<1>5. ListedIsRecording' /\ Labelled'
  BY DEF IInv, ListedIsRecording, Labelled, Running, StartWatch, watchVars
<1> QED  BY <1>3, <1>4, <1>5 DEF IInv

LEMMA AddLockStep == ASSUME IInv, NEW h \in Handlers, AddLock(h) PROVE IInv'
<1>1. TypeOK' /\ Requested' /\ Locked'
  BY NameAssumption DEF IInv, TypeOK, Requested, Locked, AddLock, Acquire, Goto, dbVars, watchVars
<1>2. Checked' /\ Stamped' /\ NoNestedWatches'
  BY DEF IInv, TypeOK, Checked, Conflicts, Stamped, NoNestedWatches, AddLock,
         Goto, dbVars, watchVars
<1>3. ListedIsRecording' /\ Labelled'
  BY DEF IInv, ListedIsRecording, Labelled, Running, AddLock, watchVars
<1> QED  BY <1>1, <1>2, <1>3 DEF IInv

LEMMA CheckStep == ASSUME IInv, NEW h \in Handlers, CheckExisting(h) PROVE IInv'
<1>1. TypeOK'
  BY DEF IInv, TypeOK, CheckExisting, Return, Release, Goto, dbVars, watchVars
<1>2. Requested' /\ Locked' /\ Checked'
  BY NameAssumption
  DEF IInv, TypeOK, Requested, Locked, Checked, Conflicts, CheckExisting, Return,
      Release, Goto, dbVars, watchVars
<1>3. Stamped' /\ NoNestedWatches'
  BY DEF IInv, Stamped, NoNestedWatches, CheckExisting, dbVars, watchVars
<1>4. ListedIsRecording' /\ Labelled'
  BY DEF IInv, ListedIsRecording, Labelled, Running, CheckExisting, watchVars
<1> QED  BY <1>1, <1>2, <1>3, <1>4 DEF IInv

\* The heart of NoNestedWatches: dbMu has been held since the check.
LEMMA InsertStep == ASSUME IInv, NEW h \in Handlers, Insert(h) PROVE IInv'
<1> DEFINE new == [dir |-> req[h].dir, label |-> req[h].label, lastWrite |-> now]
<1>1. /\ req[h] \in Requests /\ pc[h] = "insert" /\ dbMu = h
      /\ Conflicts(req[h].dir) = {}
  BY DEF IInv, Requested, Locked, Checked, Insert
<1>2. rows' = rows \cup {new} /\ new \in Rows /\ new.dir = req[h].dir /\ new.lastWrite = now
  BY <1>1 DEF IInv, TypeOK, Insert, Requests, Rows
<1>3. TypeOK' /\ Requested' /\ Locked'
  BY <1>1, <1>2, NameAssumption
  DEF IInv, TypeOK, Requested, Locked, Insert, Release, Goto, watchVars
<1>4. Checked'
  BY <1>1, NameAssumption DEF IInv, TypeOK, Locked, Checked, Insert, Goto
<1>5. Stamped'
  <2>1. \A w \in WatchIds : obj[w].rec # "write"
    BY <1>1, NameAssumption DEF IInv, Locked
  <2> QED  BY <1>2, <2>1 DEF IInv, TypeOK, Stamped, Insert, watchVars
<1>6. NoNestedWatches'
  <2>1. \A r \in rows : <<r.dir, new.dir>> \notin Prefix /\ <<new.dir, r.dir>> \notin Prefix
    BY <1>1, <1>2 DEF Conflicts
  <2> HIDE DEF new
  <2> QED  BY <1>2, <2>1 DEF IInv, NoNestedWatches
<1>7. ListedIsRecording' /\ Labelled'
  BY DEF IInv, ListedIsRecording, Labelled, Running, Insert, watchVars
<1> QED  BY <1>3, <1>4, <1>5, <1>6, <1>7 DEF IInv

LEMMA AddFailsStep == ASSUME IInv, NEW h \in Handlers, AddFails(h) PROVE IInv'
<1>1. budget' \in [Kinds -> Nat]
  BY SpendType DEF IInv, TypeOK, AddFails, Kinds
<1>2. TypeOK' /\ Requested' /\ Locked'
  BY <1>1, NameAssumption
  DEF IInv, TypeOK, Requested, Locked, AddFails, Return, Release, Goto, dbVars, watchVars
<1>3. Checked' /\ Stamped' /\ NoNestedWatches'
  BY DEF IInv, TypeOK, Checked, Conflicts, Stamped, NoNestedWatches, AddFails, Return,
         Goto, dbVars, watchVars
<1>4. ListedIsRecording' /\ Labelled'
  BY DEF IInv, ListedIsRecording, Labelled, Running, AddFails, watchVars
<1> QED  BY <1>2, <1>3, <1>4 DEF IInv

(***************************************************************************)
(* syncWatches                                                             *)
(***************************************************************************)
LEMMA SweepStep == ASSUME IInv, NEW p \in Procs, SyncSweep(p) PROVE IInv'
<1>1. budget' \in [Kinds -> Nat]
  BY SpendType DEF IInv, TypeOK, SyncSweep, Kinds
<1>2. rows' \subseteq rows
  BY DEF SyncSweep, Retained
<1>3. TypeOK' /\ Requested' /\ Locked'
  BY <1>1, <1>2, NameAssumption
  DEF IInv, TypeOK, Requested, Locked, SyncSweep, Acquire, Goto, watchVars
<1>4. Checked' /\ NoNestedWatches'
  BY <1>2 DEF IInv, TypeOK, Checked, Conflicts, NoNestedWatches, SyncSweep, Goto
<1>5. Stamped'
  BY <1>2 DEF IInv, Stamped, SyncSweep, watchVars
<1>6. ListedIsRecording' /\ Labelled'
  BY DEF IInv, ListedIsRecording, Labelled, Running, SyncSweep, watchVars
<1> QED  BY <1>3, <1>4, <1>5, <1>6 DEF IInv

LEMMA ReadStep == ASSUME IInv, NEW p \in Procs, SyncRead(p) PROVE IInv'
<1>1. {[dir |-> r.dir, label |-> r.label] : r \in rows} \in SUBSET Requests
  BY DEF IInv, TypeOK, Rows, Requests
<1>2. TypeOK'
  BY <1>1 DEF IInv, TypeOK, SyncRead, Release, Goto, dbVars, watchVars
<1>3. Requested' /\ Locked' /\ Checked'
  BY NameAssumption
  DEF IInv, TypeOK, Requested, Locked, Checked, Conflicts, SyncRead, Release, Goto,
      dbVars, watchVars
<1>4. Stamped' /\ NoNestedWatches'
  BY DEF IInv, Stamped, NoNestedWatches, SyncRead, dbVars, watchVars
<1>5. ListedIsRecording' /\ Labelled'
  BY DEF IInv, ListedIsRecording, Labelled, Running, SyncRead, watchVars
<1> QED  BY <1>2, <1>3, <1>4, <1>5 DEF IInv

\* The read that a busy database cuts short leaves an empty snapshot.
LEMMA ReadBusyStep == ASSUME IInv, NEW p \in Procs, SyncReadBusy(p) PROVE IInv'
<1>1. budget' \in [Kinds -> Nat]
  BY SpendType DEF IInv, SyncReadBusy, Kinds
<1>2. TypeOK'
  BY <1>1 DEF IInv, TypeOK, SyncReadBusy, Release, Goto, dbVars, watchVars
<1>3. Requested' /\ Locked' /\ Checked'
  BY NameAssumption
  DEF IInv, TypeOK, Requested, Locked, Checked, Conflicts, SyncReadBusy, Release, Goto,
      dbVars, watchVars
<1>4. Stamped' /\ NoNestedWatches'
  BY DEF IInv, Stamped, NoNestedWatches, SyncReadBusy, dbVars, watchVars
<1>5. ListedIsRecording' /\ Labelled'
  BY DEF IInv, ListedIsRecording, Labelled, Running, SyncReadBusy, watchVars
<1> QED  BY <1>2, <1>3, <1>4, <1>5 DEF IInv

LEMMA SyncFailsStep == ASSUME IInv, NEW p \in Procs, SyncFails(p) PROVE IInv'
<1>1. budget' \in [Kinds -> Nat]
  BY SpendType DEF IInv, TypeOK, SyncFails, Kinds
<1>2. CASE p = Loop /\ errCount + 1 >= 3
  BY <1>1, <1>2, RestartStep DEF SyncFails
<1>3. CASE ~(p = Loop /\ errCount + 1 >= 3)
  <2>1. /\ SyncReturn(p)
        /\ errCount' = IF p = Loop THEN errCount + 1 ELSE errCount
        /\ UNCHANGED <<now, dbVars, dbMu, req, snap, watchVars>>
    BY <1>3 DEF SyncFails
  <2>2. TypeOK' /\ Requested'
    BY <1>1, <2>1 DEF IInv, TypeOK, Requested, SyncReturn, Goto, dbVars, watchVars
  <2>3. Locked' /\ Checked' /\ Stamped' /\ NoNestedWatches'
    BY <2>1 DEF IInv, TypeOK, Locked, Checked, Conflicts, Stamped, NoNestedWatches,
                SyncReturn, Goto, dbVars, watchVars
  <2>4. ListedIsRecording' /\ Labelled'
    BY <2>1 DEF IInv, ListedIsRecording, Labelled, Running, watchVars
  <2> QED  BY <2>2, <2>3, <2>4 DEF IInv
<1> QED  BY <1>2, <1>3

\* What s.watches lists afterwards is either new or was listed and is kept.
LEMMA AlignStep == ASSUME IInv, NEW p \in Procs, SyncAlign(p) PROVE IInv'
<1> DEFINE made == {s \in snap[p] : s.dir \in Ops(p).create}
           gone == {d \in Ops(p).remove : watches[d] # None}
           makes(d) == \E s \in made : s.dir = d
<1>1. /\ TypeOK /\ made \subseteq Requests
      /\ \A s \in made : Free(s.dir) # {}
      /\ watches' = [d \in Dirs |->
           IF makes(d) THEN NextId(d)
           ELSE IF d \in gone THEN None ELSE watches[d]]
      /\ obj' = [w \in WatchIds |->
           IF \E s \in made : w = NextId(s.dir)
           THEN NewWatch((CHOOSE s \in made : s.dir = w[1]).label)
           ELSE IF w[1] \in gone /\ watches[w[1]] = w
                THEN [obj[w] EXCEPT !.cancelled = TRUE] ELSE obj[w]]
  BY DEF IInv, TypeOK, SyncAlign
<1> HIDE DEF made, gone
<1>2. ASSUME NEW d \in Dirs, makes(d)
      PROVE  /\ NextId(d) \in WatchIds /\ NextId(d)[1] = d /\ obj[NextId(d)] = Unused
             /\ (CHOOSE s \in made : s.dir = d).label \in Labels
  <2>1. Free(d) # {} /\ Free(d) \subseteq Gen
    BY <1>1, <1>2 DEF Free
  <2>2. NextId(d)[1] = d /\ NextId(d)[2] \in Free(d) /\ NextId(d) = <<d, NextId(d)[2]>>
    BY <2>1 DEF NextId
  <2>3. (CHOOSE s \in made : s.dir = d) \in made
    BY <1>2
  <2> QED  BY <1>1, <2>1, <2>2, <2>3 DEF Free, Requests
<1>3. ASSUME NEW w \in WatchIds
      PROVE  \/ /\ makes(w[1]) /\ w = NextId(w[1]) /\ obj[w] = Unused
                /\ \E l \in Labels : obj'[w] = NewWatch(l)
             \/ /\ ~(makes(w[1]) /\ w = NextId(w[1]))
                /\ w[1] \in gone /\ watches[w[1]] = w
                /\ obj'[w] = [obj[w] EXCEPT !.cancelled = TRUE]
             \/ /\ ~(makes(w[1]) /\ w = NextId(w[1]))
                /\ ~(w[1] \in gone /\ watches[w[1]] = w)
                /\ obj'[w] = obj[w]
  <2>1. w[1] \in Dirs
    OBVIOUS
  <2>2. (\E s \in made : w = NextId(s.dir)) <=> (makes(w[1]) /\ w = NextId(w[1]))
    BY <1>1, <1>2 DEF Requests
  <2> QED  BY <1>1, <1>2, <2>1, <2>2
<1>4. ASSUME NEW w \in WatchIds PROVE obj'[w] \in Objects
  <2>1. obj[w] \in Objects
    BY <1>1 DEF TypeOK
  <2>2. [obj[w] EXCEPT !.cancelled = TRUE] \in Objects
    BY <2>1 DEF Objects
  <2> QED  BY <1>3, <2>1, <2>2, NewWatchType
<1>5. TypeOK'
  <2>1. watches' \in [Dirs -> WatchIds \cup {None}]
    BY <1>1, <1>2 DEF TypeOK
  <2>2. obj' \in [WatchIds -> Objects]
    BY <1>1, <1>4
  <2> QED  BY <1>1, <2>1, <2>2 DEF TypeOK, SyncAlign, SyncReturn, Goto, dbVars
<1>6. \A w \in WatchIds : obj'[w].rec = "write" => obj[w].rec = "write" /\ obj'[w].stamp = obj[w].stamp
  <2> SUFFICES ASSUME NEW w \in WatchIds, obj'[w].rec = "write"
               PROVE  obj[w].rec = "write" /\ obj'[w].stamp = obj[w].stamp
    OBVIOUS
  <2>1. obj[w] \in Objects
    BY <1>1 DEF TypeOK
  <2>2. \A l \in Labels : NewWatch(l).rec = "sleep"
    BY DEF NewWatch, Unused
  <2>3. LET c == [obj[w] EXCEPT !.cancelled = TRUE]
        IN  c.rec = obj[w].rec /\ c.stamp = obj[w].stamp
    BY <2>1 DEF Objects
  <2> QED  BY <1>3, <2>2, <2>3
<1>7. Labelled'
  <2> SUFFICES ASSUME NEW w \in WatchIds, obj'[w].rec # "none"
               PROVE  obj'[w].label \in Labels
    BY DEF Labelled
  <2>1. obj[w] \in Objects /\ (obj[w].rec # "none" => obj[w].label \in Labels)
    BY <1>1 DEF IInv, TypeOK, Labelled
  <2>2. \A l \in Labels : NewWatch(l).label = l
    BY DEF NewWatch, Unused
  <2>3. LET c == [obj[w] EXCEPT !.cancelled = TRUE]
        IN  c.rec = obj[w].rec /\ c.label = obj[w].label
    BY <2>1 DEF Objects
  <2>4. CASE \E l \in Labels : obj'[w] = NewWatch(l)
    BY <2>2, <2>4
  <2>5. CASE obj'[w] \in {obj[w], [obj[w] EXCEPT !.cancelled = TRUE]}
    BY <2>1, <2>3, <2>5
  <2> QED  BY <1>3, <2>4, <2>5
<1>8. Requested' /\ Checked' /\ NoNestedWatches'
  BY DEF IInv, TypeOK, Requested, Checked, Conflicts, NoNestedWatches, SyncAlign,
         SyncReturn, Goto, dbVars
<1>9. Locked' /\ Stamped'
  <2>1. \A q \in Procs : pc'[q] \in {"check", "insert", "read"} => pc'[q] = pc[q]
    BY DEF IInv, TypeOK, SyncAlign, SyncReturn, Goto
  <2>2. UNCHANGED <<now, rows, dbMu>>
    BY DEF SyncAlign, dbVars
  <2>3. Locked'
    BY <1>6, <2>1, <2>2 DEF IInv, Locked
  <2>4. Stamped'
    BY <1>6, <2>2 DEF IInv, Stamped
  <2> QED  BY <2>3, <2>4
<1>10. ListedIsRecording'
  <2> SUFFICES ASSUME NEW d \in Dirs, watches'[d] # None
               PROVE  /\ watches'[d][1] = d
                      /\ obj'[watches'[d]].rec \in {"sleep", "want", "write"}
                      /\ ~obj'[watches'[d]].cancelled
    BY DEF ListedIsRecording, Running
  <2>1. CASE makes(d)
    <3>1. watches'[d] = NextId(d) /\ NextId(d) \in WatchIds /\ NextId(d)[1] = d
      BY <1>1, <1>2, <2>1
    <3>2. \E l \in Labels : obj'[NextId(d)] = NewWatch(l)
      BY <1>3, <2>1, <3>1
    <3> QED  BY <3>1, <3>2 DEF Running, NewWatch, Unused
  <2>2. CASE ~makes(d)
    <3> DEFINE w == watches[d]
    <3>1. watches'[d] = w /\ d \notin gone /\ w # None
      BY <1>1, <2>2
    <3>2. w \in WatchIds /\ w[1] = d /\ Running(w)
      BY <1>1, <3>1 DEF IInv, TypeOK, ListedIsRecording
    <3>3. obj'[w] = obj[w]
      BY <1>3, <2>2, <3>1, <3>2
    <3> QED  BY <3>1, <3>2, <3>3 DEF Running
  <2> QED  BY <2>1, <2>2
<1> QED  BY <1>5, <1>7, <1>8, <1>9, <1>10 DEF IInv

(***************************************************************************)
(* Tick and Clear                                                          *)
(***************************************************************************)
LEMMA TickStep == ASSUME IInv, NEW l \in Labels, Tick(l) PROVE IInv'
<1>1. budget' \in [Kinds -> Nat]
  BY SpendType DEF IInv, Tick, Kinds
<1>2. TypeOK'
  BY <1>1 DEF IInv, TypeOK, Tick, procVars, watchVars
<1>3. Requested' /\ Locked' /\ Checked' /\ Stamped' /\ NoNestedWatches'
  BY DEF IInv, Requested, Locked, Checked, Conflicts, Stamped, NoNestedWatches, Tick,
         procVars, watchVars
<1>4. ListedIsRecording' /\ Labelled'
  BY DEF IInv, ListedIsRecording, Labelled, Running, Tick, watchVars
<1> QED  BY <1>2, <1>3, <1>4 DEF IInv

LEMMA ClearStep == ASSUME IInv, NEW n \in 1 .. 4, Clear(n) PROVE IInv'
<1>1. budget' \in [Kinds -> Nat]
  BY SpendType DEF IInv, Clear, Kinds
<1>2. rows' \subseteq rows
  BY DEF Clear
<1>3. watchesTable' \in {"rowid", "pk", "missing"}
  BY DEF IInv, TypeOK, Clear
<1>4. TypeOK'
  BY <1>1, <1>2, <1>3 DEF IInv, TypeOK, Clear, procVars, watchVars
<1>5. Requested' /\ Locked' /\ Checked' /\ Stamped' /\ NoNestedWatches'
  BY <1>2 DEF IInv, Requested, Locked, Checked, Conflicts, Stamped, NoNestedWatches,
              Clear, procVars, watchVars
<1>6. ListedIsRecording' /\ Labelled'
  BY DEF IInv, ListedIsRecording, Labelled, Running, Clear, watchVars
<1> QED  BY <1>4, <1>5, <1>6 DEF IInv

(***************************************************************************)
(* The recorder under the lock                                             *)
(***************************************************************************)
LEMMA RecLockStep == ASSUME IInv, NEW w \in WatchIds, RecLock(w) PROVE IInv'
<1> DEFINE o == [obj[w] EXCEPT !.rec = "write", !.stamp = now]
<1>1. /\ now \in Time /\ obj \in [WatchIds -> Objects] /\ rows \subseteq Rows
      /\ dbMu = None /\ dbMu' = w /\ obj[w].rec = "want"
  BY DEF IInv, TypeOK, RecLock, Acquire
<1>2. o \in Objects /\ o.rec = "write" /\ o.stamp = now /\ o.cancelled = obj[w].cancelled
  <2>1. obj[w] \in Objects
    BY <1>1
  <2> QED  BY <1>1, <2>1 DEF Objects
<1>3. obj' = [obj EXCEPT ![w] = o]
  BY <1>1 DEF RecLock
<1> HIDE DEF o
<1>4. TypeOK'
  BY <1>1, <1>2, <1>3 DEF IInv, TypeOK, RecLock, dbVars, procVars
<1>5. Requested' /\ Checked' /\ NoNestedWatches'
  BY DEF IInv, Requested, Checked, Conflicts, NoNestedWatches, RecLock, dbVars, procVars
<1>6. Locked'
  BY <1>1, <1>2, <1>3, NameAssumption DEF IInv, Locked, RecLock, procVars
<1>7. Stamped'
  BY <1>1, <1>2, <1>3, NameAssumption DEF IInv, Stamped, Locked, Rows, RecLock, dbVars
<1>8. ListedIsRecording' /\ Labelled'
  BY <1>1, <1>2, <1>3
  DEF IInv, TypeOK, ListedIsRecording, Labelled, Running, RecLock
<1> QED  BY <1>4, <1>5, <1>6, <1>7, <1>8 DEF IInv

\* The end of the critical section, whether the transaction is committed or
\* rolled back.
LEMMA RecEnds ==
  ASSUME IInv, NEW w \in WatchIds, NEW o \in Objects, obj[w].rec = "write", RecDone(w),
         obj' = [obj EXCEPT ![w] = o], o.rec = "sleep", o.cancelled = obj[w].cancelled,
         o.label = obj[w].label, ticks' \in [Time -> Labels \cup {None}], budget' \in [Kinds -> Nat],
         rows' \in {rows, Touch(w[1], obj[w].stamp)}
  PROVE  IInv'
<1>1. /\ obj \in [WatchIds -> Objects] /\ rows \subseteq Rows
      /\ dbMu = w /\ dbMu' = None /\ obj[w].stamp \in Time /\ obj[w].stamp <= now
  BY DEF IInv, TypeOK, Stamped, Locked, RecDone, Release
<1>2. /\ rows' \subseteq Rows
      /\ \A r \in rows' : \E q \in rows :
           /\ q.dir = r.dir /\ (r = q \/ r.lastWrite = obj[w].stamp)
           /\ \/ rows' = rows
              \/ r = IF q.dir = w[1] THEN [q EXCEPT !.lastWrite = obj[w].stamp] ELSE q
  BY <1>1, TouchRows
<1>3. TypeOK'
  BY <1>1, <1>2 DEF IInv, TypeOK, RecDone, Release, procVars
<1>4. Requested'
  BY DEF IInv, Requested, RecDone, procVars
<1>5. \A v \in WatchIds : obj'[v].rec # "write"
  BY <1>1, NameAssumption DEF IInv, Locked
<1>6. \A p \in Procs : pc'[p] \notin {"check", "insert", "read"}
  BY <1>1, NameAssumption DEF IInv, Locked, RecDone, procVars
<1>7. Locked' /\ Checked'
  BY <1>5, <1>6 DEF Locked, Checked
<1>8. Stamped'
  BY <1>1, <1>2, <1>5 DEF IInv, Stamped, RecDone
<1>9. NoNestedWatches'
  <2>1. CASE rows' = rows
    BY <2>1 DEF IInv, NoNestedWatches
  <2>2. CASE rows' # rows
    <3> SUFFICES ASSUME NEW r \in rows', NEW s \in rows', r # s
                 PROVE  <<r.dir, s.dir>> \notin Prefix
      BY DEF NoNestedWatches
    <3>1. PICK q \in rows : /\ q.dir = r.dir
                            /\ r = IF q.dir = w[1]
                                   THEN [q EXCEPT !.lastWrite = obj[w].stamp] ELSE q
      BY <1>2, <2>2
    <3>2. PICK x \in rows : /\ x.dir = s.dir
                            /\ s = IF x.dir = w[1]
                                   THEN [x EXCEPT !.lastWrite = obj[w].stamp] ELSE x
      BY <1>2, <2>2
    <3>3. q # x
      BY <3>1, <3>2
    <3> QED  BY <3>1, <3>2, <3>3 DEF IInv, NoNestedWatches
  <2> QED  BY <2>1, <2>2
<1>10. ListedIsRecording' /\ Labelled'
  BY <1>1 DEF IInv, TypeOK, ListedIsRecording, Labelled, Running, RecDone
<1> QED  BY <1>3, <1>4, <1>7, <1>8, <1>9, <1>10 DEF IInv

LEMMA RecCommitStep == ASSUME IInv, NEW w \in WatchIds, RecCommit(w) PROVE IInv'
<1>1. /\ obj \in [WatchIds -> Objects] /\ obj[w] \in Objects
      /\ ticks \in [Time -> Labels \cup {None}]
  BY DEF IInv, TypeOK
<1>2. obj[w].label \in Labels \cup {None} /\ obj[w].seen \in Time \cup {NoTime}
  BY <1>1 DEF Objects
<1> DEFINE s == IF obj[w].seen <= obj[w].stamp THEN NoTime ELSE obj[w].seen
           o == [obj[w] EXCEPT !.rec = "sleep", !.stamp = NoTime, !.seen = s]
<1>3. s \in Time \cup {NoTime}
  BY <1>2
<1>4. /\ o \in Objects /\ o.rec = "sleep"
      /\ o.cancelled = obj[w].cancelled /\ o.label = obj[w].label
  <2> HIDE DEF s
  <2> QED  BY <1>1, <1>3 DEF Objects
<1>5. obj' = [obj EXCEPT ![w] = o]
  BY <1>1 DEF RecCommit, Recorded
<1>6. ticks' \in [Time -> Labels \cup {None}]
  BY <1>1, <1>2 DEF RecCommit
<1>7. budget' \in [Kinds -> Nat] /\ rows' = Touch(w[1], obj[w].stamp)
  BY DEF IInv, TypeOK, RecCommit
<1> QED
  BY <1>4, <1>5, <1>6, <1>7, RecEnds DEF RecCommit

LEMMA RecRollbackStep == ASSUME IInv, NEW w \in WatchIds, RecRollback(w) PROVE IInv'
<1> DEFINE o == [obj[w] EXCEPT !.rec = "sleep", !.stamp = NoTime]
<1>1. obj \in [WatchIds -> Objects] /\ obj[w] \in Objects
  BY DEF IInv, TypeOK
<1>2. o \in Objects /\ o.rec = "sleep" /\ o.cancelled = obj[w].cancelled /\ o.label = obj[w].label
  BY <1>1 DEF Objects
<1>3. obj' = [obj EXCEPT ![w] = o]
  BY <1>1 DEF RecRollback
<1>4. ticks' \in [Time -> Labels \cup {None}] /\ rows' = rows
  BY DEF IInv, TypeOK, RecRollback
<1>5. budget' \in [Kinds -> Nat]
  BY SpendType DEF IInv, TypeOK, RecRollback, Kinds
<1> QED
  BY <1>2, <1>3, <1>4, <1>5, RecEnds DEF RecRollback

LEMMA RecBeginPanicsStep == ASSUME IInv, NEW w \in WatchIds, RecBeginPanics(w) PROVE IInv'
BY SpendType, RestartStep DEF IInv, RecBeginPanics, Kinds

LEMMA CrashStep == ASSUME IInv, Crash PROVE IInv'
BY SpendType, RestartStep DEF IInv, Crash, Kinds

(***************************************************************************)
(* The invariant and what follows from it                                  *)
(***************************************************************************)
LEMMA InitInv == Init => IInv
<1> SUFFICES ASSUME Init PROVE IInv
  OBVIOUS
<1>1. \A w \in WatchIds : obj[w].rec = "none"
  BY DEF Init, Unused
<1>2. TypeOK
  BY BoundAssumption, UnusedType DEF Init, TypeOK, Boot
<1>3. /\ Requested /\ Locked /\ Checked /\ Stamped /\ Labelled
      /\ NoNestedWatches /\ ListedIsRecording
  BY <1>1 DEF Init, Boot, Requested, Locked, Checked, Stamped, Labelled,
              NoNestedWatches, ListedIsRecording
<1> QED  BY <1>2, <1>3 DEF IInv

LEMMA StepInv == IInv /\ [Next]_vars => IInv'
<1> SUFFICES ASSUME IInv, [Next]_vars PROVE IInv'
  OBVIOUS
<1>1. ASSUME NEW h \in Handlers, NEW d \in Dirs, NEW l \in Labels, StartWatch(h, d, l)
      PROVE IInv'
  BY <1>1, StartWatchStep
<1>2. ASSUME NEW h \in Handlers, AddLock(h) \/ AddStep(h) PROVE IInv'
  BY <1>2, AddLockStep, CheckStep, InsertStep, AddFailsStep DEF AddStep
<1>3. ASSUME NEW p \in Procs, SyncSweep(p) \/ SyncStep(p) \/ SyncReadBusy(p)
      PROVE IInv'
  BY <1>3, SweepStep, ReadStep, ReadBusyStep, SyncFailsStep, AlignStep DEF SyncStep
<1>4. ASSUME NEW l \in Labels, Tick(l) PROVE IInv'
  BY <1>4, TickStep
<1>5. ASSUME NEW n \in 1 .. 4, Clear(n) PROVE IInv'
  BY <1>5, ClearStep
<1>6. ASSUME NEW w \in WatchIds, RecStep(w) \/ RecExit(w) \/ RecLock(w) PROVE IInv'
  BY <1>6, RecTickStep, RecCommitStep, RecRollbackStep, RecBeginPanicsStep, RecExitStep,
     RecLockStep DEF RecStep
<1>7. ASSUME NEW w \in WatchIds, WatcherStep(w) \/ WatcherStop(w) \/ WatcherFails(w)
      PROVE IInv'
  BY <1>7, WatcherStartStep, WatcherReadStep, WatcherStopStep, WatcherFailsStep
  DEF WatcherStep
<1>8. ASSUME NEW d \in Dirs, Write(d) PROVE IInv'
  BY <1>8, WriteStep
<1>9. CASE UNCHANGED vars
  BY <1>9 DEF IInv, TypeOK, Requested, Locked, Checked, Conflicts, Stamped, Labelled,
              NoNestedWatches, ListedIsRecording, Running, vars, dbVars, procVars, watchVars
<1> QED
  BY <1>1, <1>2, <1>3, <1>4, <1>5, <1>6, <1>7, <1>8, <1>9, AdvanceStep, CrashStep DEF Next

THEOREM Invariance == Spec => []IInv
<1> QED  BY InitInv, StepInv, PTL DEF Spec

\* Every variable of the daemon keeps its type.
THEOREM TypeCorrect == Spec => []TypeOK
<1>1. IInv => TypeOK
  BY DEF IInv
<1> QED  BY Invariance, <1>1, PTL

\* No two rows of the table watches are nested, however many HTTP goroutines call
\* Watch, whatever fails and wherever the daemon dies.
THEOREM NeverNested == Spec => []NoNestedWatches
<1>1. IInv => NoNestedWatches
  BY DEF IInv
<1> QED  BY Invariance, <1>1, PTL

\* What GetWatches lists has a recorder that runs, in spite of the snapshots of
\* the table that concurrent calls of syncWatches apply out of order.
THEOREM ListedRecords == Spec => []ListedIsRecording
<1>1. IInv => ListedIsRecording
  BY DEF IInv
<1> QED  BY Invariance, <1>1, PTL
================================================================================
