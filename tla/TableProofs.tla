----------------------------- MODULE TableProofs -----------------------------
(***************************************************************************)
(* What the daemon's tables hold, for every instance of WatchDaemon: the   *)
(* table watches implements Registry and has a bounded number of rows,     *)
(* no event is without its tick, and what s.watches has in common with the *)
(* table after a syncWatches.                                              *)
(***************************************************************************)
EXTENDS WatchDaemonProofs, FoldLemmas

(***************************************************************************)
(* The table watches implements Registry, and what its last_write column   *)
(* may do.                                                                 *)
(***************************************************************************)
USE DEF Time, NoTime

\* A directory has one row at most.
LEMMA OneRow ==
  ASSUME IInv, NEW r \in rows, NEW s \in rows, r.dir = s.dir PROVE r = s
BY DirAssumption DEF IInv, TypeOK, Rows, NoNestedWatches

\* The table as a whole in a step of the daemon.
LEMMA RowsStep ==
  ASSUME IInv, [Next]_vars
  PROVE  \/ rows' = rows
         \/ rows' = {}
         \/ rows' \in Retained(rows)
         \/ \E h \in Handlers : Insert(h)
         \/ \E w \in WatchIds : RecCommit(w)
<1>1. Restart => rows' = rows
  BY DEF Restart
<1>2. ASSUME NEW h \in Handlers, NEW d \in Dirs, NEW l \in Labels, StartWatch(h, d, l)
      PROVE  rows' = rows
  BY <1>2 DEF StartWatch, dbVars
<1>3. ASSUME NEW h \in Handlers, AddLock(h) \/ AddStep(h)
      PROVE  rows' = rows \/ Insert(h)
  BY <1>3 DEF AddLock, AddStep, CheckExisting, AddFails, dbVars
<1>4. ASSUME NEW p \in Procs, SyncSweep(p) \/ SyncStep(p) \/ SyncReadBusy(p)
      PROVE  rows' = rows \/ rows' \in Retained(rows)
  BY <1>1, <1>4 DEF SyncSweep, SyncStep, SyncRead, SyncReadBusy, SyncFails, SyncAlign,
                       dbVars
<1>5. ASSUME NEW l \in Labels, Tick(l) PROVE rows' = rows
  BY <1>5 DEF Tick
<1>6. ASSUME NEW n \in 1 .. 4, Clear(n) PROVE rows' \in {rows, {}}
  BY <1>6 DEF Clear
<1>7. ASSUME NEW w \in WatchIds,
             \/ RecStep(w) \/ RecExit(w) \/ RecLock(w)
             \/ WatcherStep(w) \/ WatcherStop(w) \/ WatcherFails(w)
      PROVE  rows' = rows \/ RecCommit(w)
  BY <1>1, <1>7
  DEF RecStep, RecTick, RecRollback, RecBeginPanics, RecExit, RecLock, WatcherStep,
      WatcherStart, WatcherRead, WatcherStop, WatcherFails, dbVars
<1>8. ASSUME NEW d \in Dirs, Write(d) PROVE rows' = rows
  BY <1>8 DEF Write, dbVars
<1>9. Advance \/ Crash \/ UNCHANGED vars => rows' = rows
  BY <1>1 DEF Advance, Crash, vars, dbVars
<1> QED
  BY <1>2, <1>3, <1>4, <1>5, <1>6, <1>7, <1>8, <1>9 DEF Next

(***************************************************************************)
(* Action properties of last_write                                         *)
(***************************************************************************)
\* A row of the table after UPDATE, against the row of the same directory.
LEMMA Updated ==
  ASSUME IInv, NEW w \in WatchIds, RecCommit(w),
         NEW r \in rows, NEW s \in rows', r.dir = s.dir
  PROVE  s = r \/ (r.dir = w[1] /\ s.lastWrite = obj[w].stamp)
<1>1. rows \subseteq Rows /\ obj[w].stamp \in Time
  BY DEF IInv, TypeOK, Stamped, RecCommit
<1>2. PICK q \in rows :
        /\ q.dir = s.dir /\ (s = q \/ s.lastWrite = obj[w].stamp)
        /\ s = IF q.dir = w[1] THEN [q EXCEPT !.lastWrite = obj[w].stamp] ELSE q
  BY <1>1, TouchRows DEF RecCommit
<1>3. q = r
  BY <1>2, OneRow
<1> QED  BY <1>2, <1>3

LEMMA MonotoneStep ==
  ASSUME IInv, [Next]_vars, NEW r \in rows, NEW s \in rows', r.dir = s.dir
  PROVE  r.lastWrite <= s.lastWrite
<1>1. r \in Rows /\ r.lastWrite \in Int
  BY BoundAssumption DEF IInv, TypeOK, Rows
<1>2. CASE rows' \subseteq rows
  BY <1>1, <1>2, OneRow
<1>3. ASSUME NEW h \in Handlers, Insert(h) PROVE r.lastWrite <= s.lastWrite
  <2>1. s \in rows \/ (s.dir = req[h].dir /\ s.lastWrite = now)
    BY <1>3 DEF Insert
  <2>2. r.lastWrite <= now
    BY DEF IInv, Stamped
  <2> QED  BY <1>1, <2>1, <2>2, OneRow
<1>4. ASSUME NEW w \in WatchIds, RecCommit(w) PROVE r.lastWrite <= s.lastWrite
  <2>1. r.lastWrite <= obj[w].stamp
    BY <1>4 DEF IInv, Stamped, RecCommit
  <2> QED  BY <1>1, <1>4, <2>1, Updated
<1> QED  BY <1>2, <1>3, <1>4, RowsStep DEF Retained

\* The last write the daemon knows of a directory never moves back in time,
\* whatever goroutines race for the lock and however the clock moves meanwhile.
THEOREM WritesMonotone == Spec => LastWriteMonotone
<1>1. IInv /\ [Next]_vars
        => [\A r \in rows, s \in rows' : r.dir = s.dir => r.lastWrite <= s.lastWrite]_vars
  BY MonotoneStep
<1> QED  BY Invariance, <1>1, PTL DEF Spec, LastWriteMonotone

\* recordWritesInDB moves a row's last_write and inserts a tick for that second
\* in one transaction, which leaves neither without the other.
THEOREM MovesHaveTicks == Spec => MovesWithTick
<1>1. ASSUME IInv, [Next]_vars, NEW r \in rows, NEW s \in rows', r.dir = s.dir,
             r.lastWrite # s.lastWrite
      PROVE  ticksUp' /\ ticks'[s.lastWrite] # None
  <2>1. CASE rows' \subseteq rows
    BY <1>1, <2>1, OneRow
  <2>2. ASSUME NEW h \in Handlers, Insert(h) PROVE FALSE
    <3>1. req[h].dir \in Dirs /\ Conflicts(req[h].dir) = {}
      BY <1>1, <2>2 DEF IInv, Requested, Requests, Checked, Insert
    <3>2. s \in rows \/ s.dir = req[h].dir
      BY <2>2 DEF Insert
    <3>3. r.dir # req[h].dir
      BY <3>1, DirAssumption DEF Conflicts
    <3> QED  BY <1>1, <3>2, <3>3, OneRow
  <2>3. ASSUME NEW w \in WatchIds, RecCommit(w)
        PROVE  ticksUp' /\ ticks'[s.lastWrite] # None
    <3>1. /\ s.lastWrite = obj[w].stamp /\ obj[w].stamp \in Time
          /\ ticks \in [Time -> Labels \cup {None}]
      BY <1>1, <2>3, Updated DEF IInv, TypeOK, Stamped, RecCommit
    <3>2. ticksUp'
      BY <2>3 DEF RecCommit, UpdateFails, RecDone
    <3>3. obj[w].label # None
      <4>1. obj[w].rec # "none"
        BY <2>3 DEF RecCommit
      <4> QED  BY <1>1, <4>1, NameAssumption DEF IInv, Labelled
    <3> QED  BY <2>3, <3>1, <3>2, <3>3 DEF RecCommit
  <2> QED  BY <1>1, <2>1, <2>2, <2>3, RowsStep DEF Retained
<1>2. IInv /\ [Next]_vars
        => [\A r \in rows, s \in rows' : r.dir = s.dir /\ r.lastWrite # s.lastWrite
              => ticksUp' /\ ticks'[s.lastWrite] # None]_vars
  BY <1>1
<1> QED  BY Invariance, <1>2, PTL DEF Spec, MovesWithTick

(***************************************************************************)
(* The refinement                                                          *)
(***************************************************************************)
\* The time of each directory in a set of rows.
Lookup(R) ==
  [d \in Dirs |-> IF \E r \in R : r.dir = d
                  THEN (CHOOSE r \in R : r.dir = d).lastWrite ELSE NoTime]
DirsOf(R) == {r.dir : r \in R}
OneEach(R) == \A r, s \in R : r.dir = s.dir => r = s

LEMMA LookupRow ==
  ASSUME NEW R, R \subseteq Rows, OneEach(R)
  PROVE  /\ \A r \in R : Lookup(R)[r.dir] = r.lastWrite /\ r.lastWrite \in Time
         /\ \A d \in Dirs : d \notin DirsOf(R) => Lookup(R)[d] = NoTime
         /\ DirsOf(R) \subseteq Dirs
         /\ DirsOf(R) = {d \in Dirs : Lookup(R)[d] # NoTime}
<1>1. DirsOf(R) \subseteq Dirs
  BY DEF DirsOf, Rows
<1>2. ASSUME NEW r \in R
      PROVE  Lookup(R)[r.dir] = r.lastWrite /\ r.lastWrite \in Time
  <2>1. r.dir \in Dirs /\ r.lastWrite \in Time
    BY DEF Rows
  <2>2. (CHOOSE q \in R : q.dir = r.dir) = r
    BY DEF OneEach
  <2> QED  BY <2>1, <2>2 DEF Lookup
<1>3. \A d \in Dirs : d \notin DirsOf(R) => Lookup(R)[d] = NoTime
  BY DEF DirsOf, Lookup
<1>4. \A d \in DirsOf(R) : Lookup(R)[d] # NoTime
  BY <1>2, BoundAssumption DEF DirsOf
<1> QED  BY <1>1, <1>2, <1>3, <1>4

\* As many rows as directories.
LEMMA RowCount ==
  ASSUME NEW R, R \subseteq Rows, OneEach(R)
  PROVE  IsFiniteSet(R) /\ Cardinality(R) = Cardinality(DirsOf(R))
<1> DEFINE f == [r \in R |-> r.dir]
<1>1. f \in Bijection(R, DirsOf(R))
  BY DEF OneEach, DirsOf, Bijection, Injection, Surjection, IsInjective
<1>2. DirsOf(R) \in SUBSET Dirs
  BY DEF DirsOf, Rows
<1>3. IsFiniteSet(DirsOf(R))
  BY <1>2, DirAssumption, FS_Subset
<1> HIDE DEF f
<1>4. f \in Injection(R, DirsOf(R)) /\ ExistsBijection(R, DirsOf(R))
  BY <1>1 DEF Bijection, ExistsBijection
<1>5. IsFiniteSet(R)
  BY <1>3, <1>4, FS_Injection
<1> QED  BY <1>4, <1>5, FS_Bijection

LEMMA LookupRows == LastWrites = Lookup(rows)
BY DEF LastWrites, Lookup

LEMMA OneEachRows ==
  ASSUME IInv, IInv'
  PROVE  /\ rows \subseteq Rows /\ OneEach(rows)
         /\ rows' \subseteq Rows /\ OneEach(rows')
BY DirAssumption DEF IInv, TypeOK, Rows, NoNestedWatches, OneEach

\* The DELETE of syncWatches evicts, or leaves the table alone.
LEMMA SweepRefines ==
  ASSUME IInv, IInv', rows' \in Retained(rows)
  PROVE  Reg!Next \/ LastWrites' = LastWrites
<1> DEFINE K == DirsOf(rows')
<1>1. /\ rows \subseteq Rows /\ OneEach(rows) /\ rows' \subseteq rows
      /\ rows' \subseteq Rows /\ OneEach(rows')
  BY OneEachRows DEF Retained
<1>2. /\ IsFiniteSet(rows) /\ Cardinality(rows) = Cardinality(DirsOf(rows))
      /\ Cardinality(rows') = Cardinality(K)
  BY <1>1, RowCount
<1>3. Cardinality(rows) \in Nat /\ MaxWatches \in Nat
  BY <1>2, FS_CardinalityType, BoundAssumption
<1>4. CASE Cardinality(rows) <= MaxWatches
  <2>1. Cardinality(rows') = Cardinality(rows)
    BY <1>3, <1>4 DEF Retained
  <2>2. rows' = rows
    BY <1>1, <1>2, <2>1, FS_Subset
  <2> QED  BY <2>2 DEF LastWrites
<1>5. CASE Cardinality(rows) > MaxWatches
  <2>1. Reg!Members = DirsOf(rows)
    BY <1>1, LookupRow, LookupRows DEF Reg!Members, Reg!Absent
  <2>2. K \in SUBSET Reg!Members
    BY <1>1, <2>1 DEF DirsOf
  <2>3. Cardinality(Reg!Members) > MaxWatches /\ Cardinality(K) = MaxWatches
    BY <1>2, <1>3, <1>5, <2>1 DEF Retained
  <2>4. ASSUME NEW d \in K, NEW e \in Reg!Members \ K
        PROVE  LastWrites[e] <= LastWrites[d]
    <3>1. PICK k \in rows' : k.dir = d
      BY DEF DirsOf
    <3>2. PICK q \in rows : q.dir = e
      BY <2>1 DEF DirsOf
    <3>3. q \notin rows'
      BY <3>2 DEF DirsOf
    <3>4. q.lastWrite <= k.lastWrite
      BY <3>1, <3>2, <3>3 DEF Retained
    <3> QED  BY <1>1, <3>1, <3>2, <3>4, LookupRow, LookupRows
  <2>5. LastWrites' = [d \in Dirs |-> IF d \in K THEN LastWrites[d] ELSE NoTime]
    <3>1. LastWrites' = Lookup(rows')
      BY DEF LastWrites, Lookup
    <3>2. ASSUME NEW d \in Dirs
          PROVE  Lookup(rows')[d] = IF d \in K THEN Lookup(rows)[d] ELSE NoTime
      <4>1. CASE d \in K
        <5>1. PICK k \in rows' : k.dir = d
          BY <4>1 DEF DirsOf
        <5> QED  BY <1>1, <4>1, <5>1, LookupRow
      <4>2. CASE d \notin K
        BY <1>1, <4>2, LookupRow
      <4> QED  BY <4>1, <4>2
    <3>3. Lookup(rows') = [d \in Dirs |-> Lookup(rows')[d]]
      BY DEF Lookup
    <3> QED  BY <3>1, <3>2, <3>3, LookupRows
  <2>6. Reg!Cardinality(Reg!Members) > MaxWatches /\ Reg!Cardinality(K) = MaxWatches
    BY <2>3 DEF Cardinality, Reg!Cardinality
  <2>7. Reg!Evict(K)
    BY <2>4, <2>5, <2>6 DEF Reg!Evict, Reg!Keep, Reg!Absent
  <2> QED  BY <2>2, <2>7 DEF Reg!Next
<1> QED  BY <1>3, <1>4, <1>5

\* The INSERT of addWatchToDB registers.
LEMMA InsertRefines ==
  ASSUME IInv, IInv', NEW h \in Handlers, Insert(h) PROVE Reg!Next
<1> DEFINE d == req[h].dir
           new == [dir |-> d, label |-> req[h].label, lastWrite |-> now]
<1>1. d \in Dirs /\ Conflicts(d) = {} /\ now \in Time
  BY DEF IInv, TypeOK, Requested, Requests, Checked, Insert
<1>2. /\ rows \subseteq Rows /\ OneEach(rows)
      /\ rows' \subseteq Rows /\ OneEach(rows')
      /\ rows' = rows \cup {new}
  BY OneEachRows DEF Insert
<1> HIDE DEF new
<1>3. new.dir = d /\ new.lastWrite = now
  BY DEF new
<1>4. LastWrites' = Lookup(rows')
  BY DEF LastWrites, Lookup
<1>5. ASSUME NEW e \in Reg!Members PROVE ~Reg!Related(d, e)
  <2>1. PICK r \in rows : r.dir = e
    BY <1>2, LookupRow, LookupRows DEF Reg!Members, Reg!Absent, DirsOf
  <2> QED  BY <1>1, <2>1 DEF Conflicts, Reg!Related
<1>6. ASSUME NEW e \in Dirs
      PROVE  Lookup(rows')[e] = IF e = d THEN now ELSE Lookup(rows)[e]
  <2>1. CASE e = d
    BY <1>2, <1>3, <2>1, LookupRow
  <2>2. CASE e # d /\ e \in DirsOf(rows)
    BY <1>2, <2>2, LookupRow DEF DirsOf
  <2>3. CASE e # d /\ e \notin DirsOf(rows)
    <3>1. e \notin DirsOf(rows')
      BY <1>2, <1>3, <2>3 DEF DirsOf
    <3> QED  BY <1>2, <2>3, <3>1, LookupRow
  <2> QED  BY <2>1, <2>2, <2>3
<1>7. LastWrites' = [LastWrites EXCEPT ![d] = now]
  BY <1>4, <1>6, LookupRows DEF Lookup
<1>8. Reg!Register(d, now)
  BY <1>5, <1>7 DEF Reg!Register
<1> QED  BY <1>1, <1>8 DEF Reg!Next, Reg!Times

\* The UPDATE of recordWritesInDB touches, or finds no row.
LEMMA CommitRefines ==
  ASSUME IInv, IInv', NEW w \in WatchIds, RecCommit(w)
  PROVE  Reg!Next \/ LastWrites' = LastWrites
<1> DEFINE d == w[1]
           t == obj[w].stamp
<1>1. d \in Dirs /\ t \in Time /\ rows' = Touch(d, t)
  BY DEF IInv, Stamped, RecCommit, WatchIds
<1>2. rows \subseteq Rows /\ OneEach(rows) /\ rows' \subseteq Rows /\ OneEach(rows')
  BY OneEachRows
<1>3. LastWrites' = Lookup(rows')
  BY DEF LastWrites, Lookup
<1>4. CASE d \notin DirsOf(rows)
  <2>1. rows' = rows
    BY <1>1, <1>4 DEF Touch, DirsOf
  <2> QED  BY <2>1 DEF LastWrites
<1>5. CASE d \in DirsOf(rows)
  <2>1. PICK r \in rows : r.dir = d
    BY <1>5 DEF DirsOf
  <2>2. d \in Reg!Members
    BY <1>2, <1>5, LookupRow, LookupRows DEF Reg!Members, Reg!Absent
  <2>3. LastWrites[d] <= t
    <3>1. r.lastWrite <= t
      BY <2>1 DEF IInv, Stamped, RecCommit
    <3> QED  BY <1>2, <2>1, <3>1, LookupRow, LookupRows
  <2>4. ASSUME NEW e \in Dirs
        PROVE  Lookup(rows')[e] = IF e = d THEN t ELSE Lookup(rows)[e]
    <3>1. ASSUME NEW q \in rows
          PROVE  \E s \in rows' :
                   s.dir = q.dir /\ s.lastWrite = IF q.dir = d THEN t ELSE q.lastWrite
      <4> DEFINE s == IF q.dir = d THEN [q EXCEPT !.lastWrite = t] ELSE q
      <4>1. s \in rows'
        BY <1>1 DEF Touch
      <4>2. s.dir = q.dir /\ s.lastWrite = IF q.dir = d THEN t ELSE q.lastWrite
        BY <1>2 DEF Rows
      <4> QED  BY <4>1, <4>2
    <3>2. DirsOf(rows') \subseteq DirsOf(rows)
      BY <1>1, <1>2, TouchRows DEF DirsOf
    <3>3. CASE e \in DirsOf(rows)
      <4>1. PICK q \in rows : q.dir = e
        BY <3>3 DEF DirsOf
      <4>2. PICK s \in rows' :
              s.dir = e /\ s.lastWrite = IF e = d THEN t ELSE q.lastWrite
        BY <3>1, <4>1
      <4> QED  BY <1>2, <4>1, <4>2, LookupRow
    <3>4. CASE e \notin DirsOf(rows)
      BY <1>2, <1>5, <3>2, <3>4, LookupRow
    <3> QED  BY <3>3, <3>4
  <2>5. LastWrites' = [LastWrites EXCEPT ![d] = t]
    BY <1>3, <2>4, LookupRows DEF Lookup
  <2>6. Reg!Touch(d, t)
    BY <2>2, <2>3, <2>5 DEF Reg!Touch
  <2> QED  BY <1>1, <2>6 DEF Reg!Next, Reg!Times
<1> QED  BY <1>4, <1>5

\* The table watches implements Registry: for every instance, and whatever is
\* interleaved, fails or crashes, it is a registry of directories none of which
\* is nested with another.
THEOREM Implements == Spec => ImplementsRegistry
<1>1. Init => Reg!Init
  BY DEF Init, LastWrites, Reg!Init, Reg!Absent
<1>2. ASSUME IInv, IInv', [Next]_vars PROVE Reg!Next \/ LastWrites' = LastWrites
  <2>1. CASE rows' = rows
    BY <2>1 DEF LastWrites
  <2>2. CASE rows' = {}
    <3>1. Reg!Clear
      BY <2>2 DEF LastWrites, Reg!Clear, Reg!Keep, Reg!Absent
    <3> QED  BY <3>1 DEF Reg!Next
  <2> QED  BY <1>2, <2>1, <2>2, RowsStep, SweepRefines, InsertRefines, CommitRefines
<1>3. IInv /\ IInv' /\ [Next]_vars => [Reg!Next]_LastWrites
  BY <1>2
<1> QED  BY Invariance, <1>1, <1>3, PTL DEF Spec, ImplementsRegistry, Reg!Spec

(***************************************************************************)
(* How far the table watches exceeds maxWatches, for every number of Watch *)
(* calls at a time and whatever order they insert and sweep in.            *)
(***************************************************************************)
USE DEF Procs

(***************************************************************************)
(* The budget of faults                                                    *)
(***************************************************************************)
Faultless == ~Failed
FaultsSpent == budget["fault"] <= Faults

\* Faults are spent, never won.
LEMMA SpendFault ==
  ASSUME TypeOK, NEW k \in Kinds, Spend(k)
  PROVE  /\ budget'["fault"] <= budget["fault"]
         /\ k = "fault" => budget'["fault"] < budget["fault"]
BY DEF TypeOK, Spend, Kinds

LEMMA BudgetStep ==
  ASSUME TypeOK, [Next]_vars
  PROVE  budget' = budget \/ \E k \in Kinds : Spend(k)
<1>1. ASSUME NEW h \in Handlers, NEW d \in Dirs, NEW l \in Labels, StartWatch(h, d, l)
      PROVE  \E k \in Kinds : Spend(k)
  BY <1>1 DEF StartWatch, Kinds
<1>2. ASSUME NEW h \in Handlers, AddLock(h) \/ AddStep(h)
      PROVE  budget' = budget \/ Spend("fault")
  BY <1>2 DEF AddLock, AddStep, CheckExisting, Insert, AddFails
<1>3. ASSUME NEW p \in Procs, SyncSweep(p) \/ SyncStep(p) \/ SyncReadBusy(p)
      PROVE  budget' = budget \/ Spend("fault") \/ Spend("busy")
  BY <1>3 DEF SyncSweep, SyncStep, SyncRead, SyncReadBusy, SyncFails, SyncAlign
<1>4. ASSUME NEW l \in Labels, Tick(l) PROVE Spend("tick")
  BY <1>4 DEF Tick
<1>5. ASSUME NEW n \in 1 .. 4, Clear(n) PROVE Spend("clear") \/ Spend("fault")
  BY <1>5 DEF Clear
<1>6. ASSUME NEW w \in WatchIds,
             \/ RecStep(w) \/ RecExit(w) \/ RecLock(w)
             \/ WatcherStep(w) \/ WatcherStop(w) \/ WatcherFails(w)
      PROVE  budget' = budget \/ Spend("fault") \/ Spend("write")
  BY <1>6
  DEF RecStep, RecTick, RecCommit, RecRollback, RecBeginPanics, RecExit, RecLock,
      WatcherStep, WatcherStart, WatcherRead, WatcherStop, WatcherFails
<1>7. ASSUME NEW d \in Dirs, Write(d) PROVE Spend("write")
  BY <1>7 DEF Write
<1>8. Advance \/ Crash \/ UNCHANGED vars => budget' = budget \/ Spend("crash")
  BY DEF Advance, Crash, vars
<1>9. {"watch", "tick", "clear", "write", "fault", "busy", "crash"} \subseteq Kinds
  BY DEF Kinds
<1> QED
  BY <1>1, <1>2, <1>3, <1>4, <1>5, <1>6, <1>7, <1>8, <1>9 DEF Next

\* What has seen no fault after a step has seen none before it, and the step is
\* none.
LEMMA FaultlessStep ==
  ASSUME TypeOK, FaultsSpent, [Next]_vars
  PROVE  /\ FaultsSpent'
         /\ Faultless' => Faultless /\ ~Spend("fault")
<1>1. budget["fault"] \in Nat /\ Faults \in Nat /\ "fault" \in Kinds
  BY BoundAssumption DEF TypeOK, Kinds
<1>2. budget'["fault"] <= budget["fault"] /\ budget'["fault"] \in Int
  <2>1. CASE budget' = budget
    BY <1>1, <2>1
  <2>2. CASE \E k \in Kinds : Spend(k)
    BY <1>1, <2>2, SpendFault, SpendType
  <2> QED
    BY <2>1, <2>2, BudgetStep
<1>3. Spend("fault") => budget'["fault"] < budget["fault"]
  BY <1>1, SpendFault
<1> QED
  BY <1>1, <1>2, <1>3 DEF FaultsSpent, Faultless, Failed

(***************************************************************************)
(* The Watch calls that are still to sweep                                 *)
(***************************************************************************)
\* A step that is neither an insertion nor a sweep nor a restart leaves them, and
\* leaves syncWatchesLoop in or out of its first sweep.
SameSyncing ==
  /\ Syncing' = Syncing
  /\ pc'[Loop] # "boot" => pc[Loop] # "boot"

LEMMA SyncingStep ==
  ASSUME IInv, [Next]_vars
  PROVE  \/ SameSyncing
         \/ pc'[Loop] = "boot" /\ Syncing' = {}
         \/ \E h \in Handlers : Insert(h)
         \/ \E p \in Procs : SyncSweep(p)
<1>0. pc \in [Procs -> {"boot", "idle", "add", "check", "insert", "sync", "read",
                        "align", "sleep"}]
  BY DEF IInv, TypeOK
<1>1. ASSUME UNCHANGED pc PROVE SameSyncing
  BY <1>1 DEF SameSyncing, Syncing
<1>2. ASSUME NEW p \in Procs, NEW l \in {"idle", "add", "check", "read", "align", "sleep"},
             Goto(p, l), pc[p] \notin {"sync", "boot"}
      PROVE  SameSyncing
  BY <1>0, <1>2 DEF SameSyncing, Syncing, Goto
<1>3. ASSUME Restart
      PROVE  pc'[Loop] = "boot" /\ Syncing' = {}
  BY <1>3, NameAssumption DEF Restart, Boot, Syncing
<1>4. ASSUME NEW h \in Handlers, NEW d \in Dirs, NEW l \in Labels, StartWatch(h, d, l)
      PROVE  SameSyncing
  BY <1>2, <1>4 DEF StartWatch
<1>5. ASSUME NEW h \in Handlers, AddLock(h) PROVE SameSyncing
  BY <1>2, <1>5 DEF AddLock
<1>6. ASSUME NEW h \in Handlers, CheckExisting(h) PROVE SameSyncing
  <2>1. CASE Conflicts(req[h].dir) # {}
    BY <1>2, <1>6, <2>1 DEF CheckExisting, Return
  <2>2. CASE Conflicts(req[h].dir) = {}
    BY <1>0, <1>6, <2>2 DEF CheckExisting, SameSyncing, Syncing, Goto
  <2> QED
    BY <2>1, <2>2
<1>7. ASSUME NEW h \in Handlers, AddFails(h) PROVE SameSyncing
  BY <1>2, <1>7 DEF AddFails, Return
<1>8. ASSUME NEW p \in Procs, SyncStep(p) \/ SyncReadBusy(p)
      PROVE  SameSyncing \/ Restart
  <2>1. CASE SyncRead(p) \/ SyncReadBusy(p)
    BY <1>2, <2>1 DEF SyncRead, SyncReadBusy
  <2>2. CASE SyncFails(p)
    BY <1>2, <2>2 DEF SyncFails, SyncReturn
  <2>3. CASE SyncAlign(p)
    BY <1>2, <2>3 DEF SyncAlign, SyncReturn
  <2> QED
    BY <1>8, <2>1, <2>2, <2>3 DEF SyncStep
<1>9. ASSUME \/ \E l \in Labels : Tick(l)
             \/ \E n \in 1 .. 4 : Clear(n)
             \/ \E d \in Dirs : Write(d)
             \/ Advance
             \/ UNCHANGED vars
      PROVE  UNCHANGED pc
  BY <1>9 DEF Tick, Clear, Write, Advance, vars, procVars
<1>10. ASSUME NEW w \in WatchIds,
              \/ RecStep(w) \/ RecExit(w) \/ RecLock(w)
              \/ WatcherStep(w) \/ WatcherStop(w) \/ WatcherFails(w)
       PROVE  UNCHANGED pc \/ Restart
  BY <1>10
  DEF RecStep, RecTick, RecCommit, RecRollback, RecDone, RecBeginPanics, RecExit, RecLock,
      WatcherStep, WatcherStart, WatcherRead, WatcherStop, WatcherFails, procVars
<1> QED
  BY <1>1, <1>3, <1>4, <1>5, <1>6, <1>7, <1>8, <1>9, <1>10 DEF Next, AddStep, Crash

(***************************************************************************)
(* The inductive invariant                                                 *)
(***************************************************************************)
Finite == IsFiniteSet(rows) /\ IsFiniteSet(Syncing)
BInv == IInv /\ FaultsSpent /\ Finite /\ WatchesBounded

\* The sizes are numbers.
LEMMA Sizes ==
  ASSUME Finite
  PROVE  /\ Cardinality(rows) \in Nat /\ Cardinality(Syncing) \in Nat
         /\ MaxWatches \in Nat
BY FS_CardinalityType, BoundAssumption DEF Finite

\* UPDATE makes no rows.
LEMMA TouchSize ==
  ASSUME IsFiniteSet(rows), NEW d, NEW t
  PROVE  /\ IsFiniteSet(Touch(d, t))
         /\ Cardinality(Touch(d, t)) <= Cardinality(rows)
<1> DEFINE f == [r \in rows |-> IF r.dir = d THEN [r EXCEPT !.lastWrite = t] ELSE r]
<1>1. f \in Surjection(rows, Touch(d, t))
  BY DEF Surjection, Touch
<1> QED
  BY <1>1, FS_Surjection

\* What a sweep leaves, and how much of it.
LEMMA RetainedSize ==
  ASSUME Finite, NEW K \in Retained(rows)
  PROVE  /\ IsFiniteSet(K)
         /\ Cardinality(K) <= MaxWatches /\ Cardinality(K) <= Cardinality(rows)
<1>1. K \in SUBSET rows
  BY DEF Retained
<1>2. Cardinality(K) = IF Cardinality(rows) < MaxWatches
                       THEN Cardinality(rows) ELSE MaxWatches
  BY DEF Retained
<1>3. IsFiniteSet(K) /\ Cardinality(K) <= Cardinality(rows)
  BY <1>1, FS_Subset DEF Finite
<1> QED
  BY <1>2, <1>3, Sizes

\* The table after a step that is no insertion is no larger.
LEMMA RowsShrink ==
  ASSUME IInv, Finite, [Next]_vars, \A h \in Handlers : ~Insert(h)
  PROVE  IsFiniteSet(rows') /\ Cardinality(rows') <= Cardinality(rows)
<1>1. CASE rows' = rows
  BY <1>1, Sizes DEF Finite
<1>2. CASE rows' = {}
  BY <1>2, Sizes, FS_EmptySet
<1>3. CASE rows' \in Retained(rows)
  BY <1>3, RetainedSize
<1>4. ASSUME NEW w \in WatchIds, RecCommit(w)
      PROVE  IsFiniteSet(rows') /\ Cardinality(rows') <= Cardinality(rows)
  BY <1>4, TouchSize DEF RecCommit, Finite
<1> QED
  BY <1>1, <1>2, <1>3, <1>4, RowsStep

\* An insertion makes one row and one more call that is still to sweep.
LEMMA InsertBounded ==
  ASSUME BInv, [Next]_vars, NEW h \in Handlers, Insert(h)
  PROVE  Finite' /\ WatchesBounded'
<1>1. Finite /\ IInv /\ WatchesBounded
  BY DEF BInv
<1>2. Syncing' = Syncing \cup {h} /\ h \notin Syncing
  BY <1>1 DEF Insert, Goto, Syncing, IInv, TypeOK
<1>3. /\ IsFiniteSet(Syncing')
      /\ Cardinality(Syncing') = Cardinality(Syncing) + 1
  BY <1>1, <1>2, FS_AddElement DEF Finite
<1> DEFINE new == [dir |-> req[h].dir, label |-> req[h].label, lastWrite |-> now]
<1>4. rows' = rows \cup {new}
  BY DEF Insert
<1> HIDE DEF new
<1>5. /\ IsFiniteSet(rows')
      /\ Cardinality(rows') \in {Cardinality(rows), Cardinality(rows) + 1}
  BY <1>1, <1>4, FS_AddElement DEF Finite
<1>6. pc'[Loop] = pc[Loop]
  BY <1>1, NameAssumption DEF Insert, Goto, IInv, TypeOK
<1>7. UNCHANGED budget
  BY DEF Insert
<1> QED
  BY <1>1, <1>3, <1>5, <1>6, <1>7, Sizes DEF WatchesBounded, Finite, Failed

\* A sweep that does not fail leaves maxWatches rows at most.
LEMMA SweepBounded ==
  ASSUME BInv, [Next]_vars, NEW p \in Procs, SyncSweep(p)
  PROVE  Finite' /\ WatchesBounded'
<1>1. Finite /\ IInv /\ FaultsSpent
  BY DEF BInv
<1>2. Syncing' \in SUBSET Syncing
  BY <1>1 DEF SyncSweep, Goto, Syncing, IInv, TypeOK
<1>3. IsFiniteSet(Syncing')
  BY <1>1, <1>2, FS_Subset DEF Finite
<1>4. \A h \in Handlers : ~Insert(h)
  BY <1>1, NameAssumption DEF SyncSweep, Insert, Acquire, IInv, Locked
<1>5. IsFiniteSet(rows')
  BY <1>1, <1>4, RowsShrink
<1>6. Faultless' => rows' \in Retained(rows)
  BY <1>1, FaultlessStep DEF SyncSweep, IInv
<1>7. Faultless' => Cardinality(rows') <= MaxWatches
  BY <1>1, <1>6, RetainedSize
<1>8. Cardinality(rows') \in Nat /\ Cardinality(Syncing') \in Nat /\ MaxWatches \in Nat
  BY <1>3, <1>5, FS_CardinalityType, BoundAssumption
<1> QED
  BY <1>3, <1>5, <1>7, <1>8 DEF WatchesBounded, Finite, Faultless, Failed

\* Any other step.
LEMMA OtherBounded ==
  ASSUME BInv, [Next]_vars, \A h \in Handlers : ~Insert(h),
         SameSyncing \/ (pc'[Loop] = "boot" /\ Syncing' = {})
  PROVE  Finite' /\ WatchesBounded'
<1>1. Finite /\ IInv /\ FaultsSpent /\ WatchesBounded
  BY DEF BInv
<1>2. IsFiniteSet(rows') /\ Cardinality(rows') <= Cardinality(rows)
  BY <1>1, RowsShrink
<1>3. Cardinality(rows') \in Nat
  BY <1>2, FS_CardinalityType
<1>4. CASE SameSyncing
  <2>1. Faultless' => Faultless
    BY <1>1, FaultlessStep DEF IInv
  <2> QED
    BY <1>1, <1>2, <1>3, <1>4, <2>1, Sizes
    DEF SameSyncing, WatchesBounded, Finite, Faultless, Failed
<1>5. CASE pc'[Loop] = "boot" /\ Syncing' = {}
  BY <1>2, <1>5, FS_EmptySet DEF WatchesBounded, Finite
<1> QED
  BY <1>4, <1>5

LEMMA InitBounded == Init => BInv
<1> SUFFICES ASSUME Init PROVE BInv
  OBVIOUS
<1>1. IInv
  BY InitInv
<1>2. rows = {} /\ Syncing = {} /\ pc[Loop] = "boot"
  BY NameAssumption DEF Init, Boot, Syncing
<1>3. FaultsSpent
  BY BoundAssumption DEF Init, FaultsSpent, Kinds
<1> QED
  BY <1>1, <1>2, <1>3, FS_EmptySet DEF BInv, Finite, WatchesBounded

LEMMA StepBounded ==
  ASSUME BInv, [Next]_vars
  PROVE  BInv'
<1>1. IInv' /\ FaultsSpent'
  BY StepInv, FaultlessStep DEF BInv, IInv
<1>2. Finite' /\ WatchesBounded'
  <2>1. CASE \E h \in Handlers : Insert(h)
    BY <2>1, InsertBounded
  <2>2. CASE \E p \in Procs : SyncSweep(p)
    BY <2>2, SweepBounded
  <2>3. CASE /\ \A h \in Handlers : ~Insert(h)
             /\ \A p \in Procs : ~SyncSweep(p)
    BY <2>3, OtherBounded, SyncingStep DEF BInv
  <2> QED
    BY <2>1, <2>2, <2>3
<1> QED
  BY <1>1, <1>2 DEF BInv

\* While no statement fails the table watches exceeds maxWatches by at most the
\* Watch calls that are still to sweep, for any number of them.
THEOREM BoundedAlways == Spec => []WatchesBounded
<1>1. BInv => WatchesBounded
  BY DEF BInv
<1> QED
  BY <1>1, InitBounded, StepBounded, PTL DEF Spec

(***************************************************************************)
(* No event is without a tick once its recorder sleeps: how hasPending,    *)
(* dbMu and the clock work together in recordWritesInDB, for every number  *)
(* of watch objects.                                                       *)
(***************************************************************************)
USE DEF WatchIds

\* Clear has recreated no table, and nothing has failed.
Sound == watchesTable = "rowid" /\ ticksUp /\ Faultless

\* Events are not of the future.
Heard == \A w \in WatchIds : obj[w].seen <= now

\* Watch object o and the events it has handled: with hasPending reset, those that
\* no tick covers yet came no later than the stamp of the tick about to be written.
Told(o) ==
  /\ o.rec = "sleep" /\ ~o.pending => o.seen = NoTime
  /\ o.rec = "write" /\ ~o.pending => o.seen <= o.stamp
AllTold == Sound => \A w \in WatchIds : Told(obj[w])

RInv == IInv /\ FaultsSpent /\ Heard /\ AllTold

(***************************************************************************)
(* Steps that leave watch objects or tables alone                          *)
(***************************************************************************)
LEMMA TablesStep ==
  ASSUME [Next]_vars
  PROVE  \/ UNCHANGED <<watchesTable, ticksUp>>
         \/ Restart
         \/ \E n \in 1 .. 4 : Clear(n)
<1>1. ASSUME NEW h \in Handlers, NEW d \in Dirs, NEW l \in Labels, StartWatch(h, d, l)
      PROVE  UNCHANGED <<watchesTable, ticksUp>>
  BY <1>1 DEF StartWatch, dbVars
<1>2. ASSUME NEW h \in Handlers, AddLock(h) \/ AddStep(h)
      PROVE  UNCHANGED <<watchesTable, ticksUp>>
  BY <1>2 DEF AddLock, AddStep, CheckExisting, Insert, AddFails, dbVars
<1>3. ASSUME NEW p \in Procs, SyncSweep(p) \/ SyncStep(p) \/ SyncReadBusy(p)
      PROVE  UNCHANGED <<watchesTable, ticksUp>> \/ Restart
  BY <1>3 DEF SyncSweep, SyncStep, SyncRead, SyncReadBusy, SyncFails, SyncAlign, dbVars
<1>4. ASSUME NEW l \in Labels, Tick(l) PROVE UNCHANGED <<watchesTable, ticksUp>>
  BY <1>4 DEF Tick
<1>5. ASSUME NEW w \in WatchIds,
             \/ RecStep(w) \/ RecExit(w) \/ RecLock(w)
             \/ WatcherStep(w) \/ WatcherStop(w) \/ WatcherFails(w)
      PROVE  UNCHANGED <<watchesTable, ticksUp>> \/ Restart
  BY <1>5
  DEF RecStep, RecTick, RecCommit, RecRollback, RecDone, RecBeginPanics, RecExit, RecLock,
      WatcherStep, WatcherStart, WatcherRead, WatcherStop, WatcherFails, dbVars
<1>6. ASSUME NEW d \in Dirs, Write(d) PROVE UNCHANGED <<watchesTable, ticksUp>>
  BY <1>6 DEF Write, dbVars
<1>7. Advance \/ Crash \/ UNCHANGED vars => UNCHANGED <<watchesTable, ticksUp>> \/ Restart
  BY DEF Advance, Crash, vars, dbVars
<1> QED
  BY <1>1, <1>2, <1>3, <1>4, <1>5, <1>6, <1>7 DEF Next

\* The tables are sound after a step only if they were before, a restart aside.
LEMMA SoundBefore ==
  ASSUME RInv, [Next]_vars, ~Restart, Sound'
  PROVE  Sound /\ ~Spend("fault")
<1>1. Faultless /\ ~Spend("fault")
  BY FaultlessStep DEF RInv, IInv, Sound
<1>2. watchesTable = "rowid" /\ ticksUp
  BY TablesStep DEF Sound, Clear
<1> QED
  BY <1>1, <1>2 DEF Sound

\* Nothing happens to the watch objects.
LEMMA SameObjects ==
  ASSUME RInv, [Next]_vars, ~Restart, UNCHANGED obj, now <= now'
  PROVE  Heard' /\ AllTold'
<1>1. now \in Int /\ now' \in Int /\ \A w \in WatchIds : obj[w].seen \in Int
  BY StepInv, BoundAssumption DEF RInv, IInv, TypeOK, Objects
<1>2. Heard'
  BY <1>1 DEF RInv, Heard
<1>3. AllTold'
  BY SoundBefore DEF RInv, AllTold, Told
<1> QED
  BY <1>2, <1>3

\* Something happens to one of them.
LEMMA OneObject ==
  ASSUME RInv, [Next]_vars, ~Restart, UNCHANGED now,
         NEW w \in WatchIds, NEW o, obj' = [obj EXCEPT ![w] = o],
         o.seen <= now, Sound' => Told(o)
  PROVE  Heard' /\ AllTold'
<1>1. /\ obj \in [WatchIds -> Objects]
      /\ obj'[w] = o
      /\ \A v \in WatchIds : v # w => obj'[v] = obj[v]
  BY DEF RInv, IInv, TypeOK
<1>2. Heard'
  BY <1>1 DEF RInv, Heard
<1>3. AllTold'
  BY <1>1, SoundBefore DEF RInv, AllTold, Told
<1> QED
  BY <1>2, <1>3

\* Afterwards no watch object is left, and no event.
LEMMA RestartTold ==
  ASSUME RInv, [Next]_vars, Restart
  PROVE  Heard' /\ AllTold'
<1>1. now' \in Nat
  BY StepInv, BoundAssumption DEF RInv, IInv, TypeOK
<1>2. \A w \in WatchIds : obj'[w] = Unused
  BY DEF Restart
<1>3. Unused.seen = -1 /\ Unused.rec = "none"
  BY DEF Unused
<1> QED
  BY <1>1, <1>2, <1>3 DEF Heard, AllTold, Told

(***************************************************************************)
(* The recorder                                                            *)
(***************************************************************************)
\* The types the next lemmas need.
LEMMA ObjectParts ==
  ASSUME RInv, NEW w \in WatchIds
  PROVE  /\ obj \in [WatchIds -> Objects] /\ obj[w] \in Objects
         /\ now \in Nat /\ obj[w].seen \in Int /\ obj[w].stamp \in Int
         /\ obj[w].pending \in BOOLEAN
         /\ obj[w].seen <= now
         /\ Sound => Told(obj[w])
<1>1. obj \in [WatchIds -> Objects] /\ obj[w] \in Objects /\ now \in Nat
  BY BoundAssumption DEF RInv, IInv, TypeOK
<1>2. obj[w].seen \in Int /\ obj[w].stamp \in Int /\ obj[w].pending \in BOOLEAN
  BY <1>1, BoundAssumption DEF Objects
<1> QED
  BY <1>1, <1>2 DEF RInv, Heard, AllTold

LEMMA RecTickTold ==
  ASSUME RInv, [Next]_vars, ~Restart, NEW w \in WatchIds, RecTick(w)
  PROVE  Heard' /\ AllTold'
<1> DEFINE o == [obj[w] EXCEPT !.pending = FALSE, !.rec = "want"]
<1>1. obj' = [obj EXCEPT ![w] = o] /\ now' = now
  BY ObjectParts DEF RecTick
<1>2. o.seen <= now /\ Told(o)
  BY ObjectParts DEF Objects, Told
<1> QED
  BY <1>1, <1>2, OneObject

LEMMA RecExitTold ==
  ASSUME RInv, [Next]_vars, ~Restart, NEW w \in WatchIds, RecExit(w)
  PROVE  Heard' /\ AllTold'
<1> DEFINE e == [obj[w] EXCEPT !.rec = "exited"]
<1>1. obj' = [obj EXCEPT ![w] = Reap(e)] /\ now' = now
  BY ObjectParts DEF RecExit
<1>2. e.seen = obj[w].seen /\ e.rec = "exited"
  BY ObjectParts DEF Objects
<1>3. Unused.seen = -1 /\ Unused.rec = "none"
  BY DEF Unused
<1>4. Reap(e).seen <= now /\ Told(Reap(e))
  BY <1>2, <1>3, ObjectParts DEF Reap, Told
<1> QED
  BY <1>1, <1>4, OneObject

\* The clock is read with the lock held, after every event handled before.
LEMMA RecLockTold ==
  ASSUME RInv, [Next]_vars, ~Restart, NEW w \in WatchIds, RecLock(w)
  PROVE  Heard' /\ AllTold'
<1> DEFINE o == [obj[w] EXCEPT !.rec = "write", !.stamp = now]
<1>1. obj' = [obj EXCEPT ![w] = o] /\ now' = now
  BY ObjectParts DEF RecLock
<1>2. o.seen = obj[w].seen /\ o.rec = "write" /\ o.stamp = now
  BY ObjectParts DEF Objects
<1>3. o.seen <= now /\ Told(o)
  BY <1>2, ObjectParts DEF Told
<1> QED
  BY <1>1, <1>3, OneObject

\* The tick covers the events up to its second; a later one has set hasPending.
LEMMA RecCommitTold ==
  ASSUME RInv, [Next]_vars, ~Restart, NEW w \in WatchIds, RecCommit(w)
  PROVE  Heard' /\ AllTold'
<1> DEFINE seen == IF obj[w].seen <= obj[w].stamp THEN -1 ELSE obj[w].seen
           o == [obj[w] EXCEPT !.rec = "sleep", !.stamp = -1, !.seen = seen]
<1>1. obj' = [obj EXCEPT ![w] = o] /\ now' = now
  BY ObjectParts DEF RecCommit, RecDone, Recorded
<1>2. o.seen = seen /\ o.rec = "sleep" /\ o.pending = obj[w].pending
  <2> HIDE DEF seen
  <2> QED
    BY ObjectParts DEF Objects
<1>3. o.seen <= now
  BY <1>2, ObjectParts
<1>4. ASSUME Sound'
      PROVE  Told(o)
  <2>1. Told(obj[w]) /\ obj[w].rec = "write"
    BY <1>4, SoundBefore, ObjectParts DEF RecCommit
  <2> QED
    BY <1>2, <2>1 DEF Told
<1> QED
  BY <1>1, <1>3, <1>4, OneObject

\* Only a fault, or tables that Clear has recreated, make the transaction fail.
LEMMA RecRollbackTold ==
  ASSUME RInv, [Next]_vars, ~Restart, NEW w \in WatchIds, RecRollback(w)
  PROVE  Heard' /\ AllTold'
<1> DEFINE o == [obj[w] EXCEPT !.rec = "sleep", !.stamp = -1]
<1>1. obj' = [obj EXCEPT ![w] = o] /\ now' = now
  BY ObjectParts DEF RecRollback, RecDone
<1>2. o.seen <= now
  BY ObjectParts DEF Objects
<1>3. ~Sound'
  <2>1. ASSUME Sound' PROVE FALSE
    <3>1. Sound /\ ~Spend("fault")
      BY <2>1, SoundBefore
    <3>2. ~UpdateFails(w[1], obj[w].stamp)
      BY <3>1 DEF Sound, UpdateFails, KeyTaken
    <3> QED
      BY <3>1, <3>2 DEF RecRollback
  <2> QED
    BY <2>1
<1> QED
  BY <1>1, <1>2, <1>3, OneObject

(***************************************************************************)
(* The watcher, and syncWatches                                            *)
(***************************************************************************)
\* An event that has been handled has set hasPending.
LEMMA HandledTold ==
  ASSUME RInv, NEW w \in WatchIds
  PROVE  /\ HandleEvent(obj[w]) \in Objects
         /\ HandleEvent(obj[w]).seen = now /\ HandleEvent(obj[w]).pending
<1>1. obj[w] \in Objects /\ now \in Time
  BY DEF RInv, IInv, TypeOK
<1>2. HandleEvent(obj[w]) \in Objects
  BY <1>1, HandleEventType
<1>3. HandleEvent(obj[w]).seen = now /\ HandleEvent(obj[w]).pending
  BY <1>1 DEF HandleEvent, Objects
<1> QED
  BY <1>2, <1>3

\* What a watcher does to its object besides is nothing to the recorder.
LEMMA SameRecorder ==
  ASSUME RInv, [Next]_vars, ~Restart, UNCHANGED now,
         NEW w \in WatchIds, NEW o, obj' = [obj EXCEPT ![w] = o],
         \/ o.rec = obj[w].rec /\ o.pending = obj[w].pending /\ o.seen = obj[w].seen
            /\ o.stamp = obj[w].stamp
         \/ o.seen = now /\ o.pending
         \/ o = Unused
  PROVE  Heard' /\ AllTold'
<1>1. now \in Nat /\ obj[w].seen <= now
  BY ObjectParts
<1>2. Unused.seen = -1 /\ Unused.rec = "none"
  BY DEF Unused
<1>3. o.seen <= now
  BY <1>1, <1>2
<1>4. Sound' => Told(o)
  BY <1>2, SoundBefore, ObjectParts DEF Told
<1> QED
  BY <1>3, <1>4, OneObject

LEMMA WatcherStartTold ==
  ASSUME RInv, [Next]_vars, ~Restart, NEW w \in WatchIds, WatcherStart(w)
  PROVE  Heard' /\ AllTold'
<1>1. PICK e \in {obj[w], HandleEvent(obj[w])} :
        obj' = [obj EXCEPT ![w] = [e EXCEPT !.watcher = "polling"]]
  BY ObjectParts DEF WatcherStart
<1> DEFINE o == [e EXCEPT !.watcher = "polling"]
<1>2. e \in Objects
  BY ObjectParts, HandledTold
<1>3. o.rec = e.rec /\ o.pending = e.pending /\ o.seen = e.seen /\ o.stamp = e.stamp
  BY <1>2 DEF Objects
<1>4. now' = now
  BY DEF WatcherStart
<1> QED
  BY <1>1, <1>3, <1>4, HandledTold, SameRecorder

LEMMA WatcherReadTold ==
  ASSUME RInv, [Next]_vars, ~Restart, NEW w \in WatchIds, WatcherRead(w)
  PROVE  Heard' /\ AllTold'
<1> DEFINE o == [HandleEvent(obj[w]) EXCEPT !.unread = FALSE]
<1>1. obj' = [obj EXCEPT ![w] = o] /\ now' = now
  BY ObjectParts DEF WatcherRead
<1>2. o.seen = now /\ o.pending
  BY HandledTold DEF Objects
<1> QED
  BY <1>1, <1>2, SameRecorder

LEMMA WatcherEndsTold ==
  ASSUME RInv, [Next]_vars, ~Restart, NEW w \in WatchIds,
         WatcherStop(w) \/ WatcherFails(w)
  PROVE  Heard' /\ AllTold'
<1>1. PICK s \in {"stopped", "dead"} :
        obj' = [obj EXCEPT ![w] =
                  Reap([obj[w] EXCEPT !.watcher = s, !.unread = FALSE])]
  BY ObjectParts DEF WatcherStop, WatcherFails
<1> DEFINE e == [obj[w] EXCEPT !.watcher = s, !.unread = FALSE]
<1>2. /\ e.rec = obj[w].rec /\ e.pending = obj[w].pending /\ e.seen = obj[w].seen
      /\ e.stamp = obj[w].stamp
  BY ObjectParts DEF Objects
<1>3. Reap(e) = e \/ Reap(e) = Unused
  BY DEF Reap
<1>4. now' = now
  BY DEF WatcherStop, WatcherFails
<1> QED
  BY <1>1, <1>2, <1>3, <1>4, SameRecorder

\* Several objects at once: writes are queued, syncWatches makes and cancels.
LEMMA ManyObjects ==
  ASSUME RInv, [Next]_vars, ~Restart, UNCHANGED now,
         \A w \in WatchIds :
           \/ obj'[w] = obj[w]
           \/ obj'[w] = [obj[w] EXCEPT !.unread = TRUE]
           \/ obj'[w] = [obj[w] EXCEPT !.cancelled = TRUE]
           \/ \E l : obj'[w] = NewWatch(l)
  PROVE  Heard' /\ AllTold'
<1>1. \A l : NewWatch(l).seen = -1
  BY DEF NewWatch, Unused
<1>2. ASSUME NEW w \in WatchIds
      PROVE  \/ obj'[w].seen = -1
             \/ /\ obj'[w].rec = obj[w].rec /\ obj'[w].pending = obj[w].pending
                /\ obj'[w].seen = obj[w].seen /\ obj'[w].stamp = obj[w].stamp
  <2>1. obj[w] \in Objects
    BY ObjectParts
  <2>2. LET o == [obj[w] EXCEPT !.unread = TRUE]
        IN  /\ o.rec = obj[w].rec /\ o.pending = obj[w].pending
            /\ o.seen = obj[w].seen /\ o.stamp = obj[w].stamp
    BY <2>1 DEF Objects
  <2>3. LET o == [obj[w] EXCEPT !.cancelled = TRUE]
        IN  /\ o.rec = obj[w].rec /\ o.pending = obj[w].pending
            /\ o.seen = obj[w].seen /\ o.stamp = obj[w].stamp
    BY <2>1 DEF Objects
  <2>4. CASE \E l : obj'[w] = NewWatch(l)
    BY <1>1, <2>4
  <2>5. CASE obj'[w] = [obj[w] EXCEPT !.unread = TRUE]
    BY <2>2, <2>5
  <2>6. CASE obj'[w] = [obj[w] EXCEPT !.cancelled = TRUE]
    BY <2>3, <2>6
  <2> QED
    BY <2>4, <2>5, <2>6
<1>3. \A l : NewWatch(l).rec = "sleep"
  BY DEF NewWatch, Unused
<1>4. Heard'
  BY <1>2, ObjectParts DEF Heard
<1>5. ASSUME NEW w \in WatchIds, Sound'
      PROVE  Told(obj'[w])
  <2>1. Told(obj[w])
    BY <1>5, SoundBefore, ObjectParts
  <2>2. CASE \E l : obj'[w] = NewWatch(l)
    BY <1>1, <1>3, <2>2 DEF Told
  <2>3. CASE obj'[w] = obj[w]
    BY <2>1, <2>3
  <2>4. CASE obj'[w] = [obj[w] EXCEPT !.unread = TRUE]
    BY <2>1, <2>4, ObjectParts DEF Told, Objects
  <2>5. CASE obj'[w] = [obj[w] EXCEPT !.cancelled = TRUE]
    BY <2>1, <2>5, ObjectParts DEF Told, Objects
  <2> QED
    BY <2>2, <2>3, <2>4, <2>5
<1> QED
  BY <1>4, <1>5 DEF AllTold, Told

LEMMA WriteTold ==
  ASSUME RInv, [Next]_vars, ~Restart, NEW d \in Dirs, Write(d)
  PROVE  Heard' /\ AllTold'
BY ManyObjects DEF Write

LEMMA AlignTold ==
  ASSUME RInv, [Next]_vars, ~Restart, NEW p \in Procs, SyncAlign(p)
  PROVE  Heard' /\ AllTold'
BY ManyObjects DEF SyncAlign

(***************************************************************************)
(* The invariant and what follows from it                                  *)
(***************************************************************************)
LEMMA InitTold == Init => RInv
<1> SUFFICES ASSUME Init PROVE RInv
  OBVIOUS
<1>1. \A w \in WatchIds : obj[w] = Unused
  BY DEF Init
<1>2. now = 0 /\ Unused.seen = -1 /\ Unused.rec = "none"
  BY DEF Init, Unused
<1> QED
  BY <1>1, <1>2, InitBounded DEF RInv, BInv, Heard, AllTold, Told

\* Steps of the goroutines that serve requests, of the clock, and none at all.
LEMMA OtherTold ==
  ASSUME RInv, [Next]_vars, ~Restart,
         \/ \E h \in Handlers :
              \/ \E d \in Dirs, l \in Labels : StartWatch(h, d, l)
              \/ AddLock(h) \/ AddStep(h)
         \/ \E p \in Procs :
              SyncSweep(p) \/ SyncRead(p) \/ SyncFails(p) \/ SyncReadBusy(p)
         \/ \E l \in Labels : Tick(l)
         \/ \E n \in 1 .. 4 : Clear(n)
         \/ Advance \/ UNCHANGED vars
  PROVE  Heard' /\ AllTold'
<1>1. now \in Nat
  BY BoundAssumption DEF RInv, IInv, TypeOK
<1>2. UNCHANGED obj /\ now <= now'
  <2>1. CASE Advance
    BY <1>1, <2>1 DEF Advance, watchVars
  <2>2. CASE \E h \in Handlers :
               \/ \E d \in Dirs, l \in Labels : StartWatch(h, d, l)
               \/ AddLock(h) \/ AddStep(h)
    BY <1>1, <2>2
    DEF StartWatch, AddLock, AddStep, CheckExisting, Insert, AddFails, watchVars
  <2>3. CASE \E p \in Procs :
               SyncSweep(p) \/ SyncRead(p) \/ SyncFails(p) \/ SyncReadBusy(p)
    BY <1>1, <2>3 DEF SyncSweep, SyncRead, SyncFails, SyncReadBusy, watchVars
  <2>4. CASE \/ \E l \in Labels : Tick(l)
             \/ \E n \in 1 .. 4 : Clear(n)
             \/ UNCHANGED vars
    BY <1>1, <2>4 DEF Tick, Clear, vars, watchVars
  <2> QED
    BY <2>1, <2>2, <2>3, <2>4
<1> QED
  BY <1>2, SameObjects

LEMMA StepTold ==
  ASSUME RInv, [Next]_vars
  PROVE  RInv'
<1>1. IInv' /\ FaultsSpent'
  BY StepInv, FaultlessStep DEF RInv, IInv
<1>2. CASE Restart
  BY <1>1, <1>2, RestartTold DEF RInv
<1>3. CASE ~Restart
  <2>1. ASSUME NEW w \in WatchIds, RecStep(w) \/ RecExit(w) \/ RecLock(w)
        PROVE  Heard' /\ AllTold'
    BY <1>3, <2>1, RecTickTold, RecCommitTold, RecRollbackTold, RecExitTold, RecLockTold
    DEF RecStep, RecBeginPanics
  <2>2. ASSUME NEW w \in WatchIds, WatcherStep(w) \/ WatcherStop(w) \/ WatcherFails(w)
        PROVE  Heard' /\ AllTold'
    BY <1>3, <2>2, WatcherStartTold, WatcherReadTold, WatcherEndsTold DEF WatcherStep
  <2>3. Heard' /\ AllTold'
    BY <1>3, <2>1, <2>2, WriteTold, AlignTold, OtherTold DEF Next, SyncStep, Crash
  <2> QED
    BY <1>1, <2>3 DEF RInv
<1> QED
  BY <1>2, <1>3

\* Until Clear recreates the tables and while nothing has failed, a recorder that
\* sleeps with hasPending = 0 has left a tick for every event it has handled,
\* however many watches record and however their events come.
THEOREM EventsTickedAlways == Spec => []EventsTicked
<1>1. RInv => EventsTicked
  BY DEF RInv, AllTold, Told, Sound, Faultless, Failed, EventsTicked, RecordsWrites
<1> QED
  BY <1>1, InitTold, StepTold, PTL DEF Spec

--------------------------------------------------------------------------------
(***************************************************************************)
(* The merge of syncWatches                                                *)
(***************************************************************************)
LEMMA SortedDirs ==
  ASSUME NEW S \in SUBSET Dirs
  PROVE  /\ Sorted(S) \in Seq(Dirs)
         /\ \A k \in 1 .. Len(Sorted(S)) : Sorted(S)[k] \in S
         /\ \A x \in S : \E k \in 1 .. Len(Sorted(S)) : Sorted(S)[k] = x
         /\ \A m, n \in 1 .. Len(Sorted(S)) : m < n => Sorted(S)[m] < Sorted(S)[n]
<1> DEFINE n == Cardinality(S)
           Fits(s) == s \in SetToSeqs(S) /\ \A i, j \in DOMAIN s : i < j => s[i] < s[j]
<1>1. S \in SUBSET Nat /\ IsFiniteSet(S) /\ n \in Nat
  BY DirAssumption, FS_Subset, FS_CardinalityType
<1>2. PICK s : Enumerates(s, S)
  BY <1>1, EnumerationExists
<1>3. ASSUME NEW t PROVE Fits(t) <=> Enumerates(t, S)
  <2>1. ASSUME Enumerates(t, S) PROVE Fits(t)
    <3>1. t \in [1 .. n -> S] /\ \A i, j \in 1 .. n : i < j => t[i] < t[j]
      BY <2>1 DEF Enumerates
    <3>2. \A i \in 1 .. n : t[i] \in Nat
      BY <1>1, <3>1
    <3> HIDE DEF n
    <3>3. \A i, j \in 1 .. n : i # j => t[i] # t[j]
      BY <1>1, <3>1, <3>2
    <3> QED
      BY <3>1, <3>3 DEF SetToSeqs, n
  <2>2. ASSUME Fits(t) PROVE Enumerates(t, S)
    BY <2>2 DEF SetToSeqs, Enumerates
  <2> QED
    BY <2>1, <2>2
<1>4. Sorted(S) = CHOOSE t : Fits(t)
  BY DEF Sorted
<1> HIDE DEF Fits
<1>5. Enumerates(Sorted(S), S)
  BY <1>2, <1>3, <1>4
<1>6. /\ Sorted(S) \in [1 .. n -> S]
      /\ \A i, j \in 1 .. n : i < j => Sorted(S)[i] < Sorted(S)[j]
  BY <1>5 DEF Enumerates
<1>7. \A x \in S : \E k \in 1 .. n : Sorted(S)[k] = x
  BY <1>1, <1>5, EnumeratesAll
<1> HIDE DEF n
<1>8. Sorted(S) \in Seq(Dirs) /\ Len(Sorted(S)) = n
  <2> DEFINE t == Sorted(S)
  <2>1. t \in [1 .. n -> Dirs]
    BY <1>6
  <2> HIDE DEF t
  <2>2. t \in Seq(Dirs) /\ Len(t) = n
    BY <1>1, <2>1
  <2> QED
    BY <2>2 DEF t
<1> QED
  BY <1>6, <1>7, <1>8

\* What is left of existingWatches, at whatever index an element is removed.
LEMMA DropAtFacts ==
  ASSUME NEW e \in Seq(Dirs), NEW i \in 1 .. Len(e)
  PROVE  /\ DropAt(e, i) \in Seq(Dirs)
         /\ Len(DropAt(e, i)) = Len(e) - i
         /\ \A k \in 1 .. Len(e) - i :
              DropAt(e, i)[k] = IF k < i THEN e[k] ELSE e[k + 1]
<1> DEFINE n == Len(e)
           a == SubSeq(e, 1, i - 1)
           b == SubSeq(e, i + 1, n)
           r == a \o b
<1>1. n \in Nat /\ i \in Nat /\ i >= 1 /\ i <= n /\ i - 1 \in Nat /\ n - i \in Nat
  OBVIOUS
<1>2. /\ a \in Seq(Dirs) /\ Len(a) = i - 1
      /\ \A k \in 1 .. i - 1 : a[k] = e[k]
  BY <1>1
<1>3. /\ b \in Seq(Dirs) /\ Len(b) = n - i
      /\ \A k \in 1 .. n - i : b[k] = e[k + i]
  <2>1. \A k \in i + 1 .. n : e[k] \in Dirs
    BY <1>1
  <2> QED
    BY <1>1, <2>1
<1> HIDE DEF a, b
<1>4. /\ r \in Seq(Dirs) /\ Len(r) = n - 1
      /\ \A k \in 1 .. n - 1 : r[k] = IF k < i THEN e[k] ELSE e[k + 1]
  <2>1. r \in Seq(Dirs) /\ Len(r) = n - 1
    <3>1. r \in Seq(Dirs) /\ Len(r) = Len(a) + Len(b)
      <4>1. \A x, y \in Seq(Dirs) : x \o y \in Seq(Dirs) /\ Len(x \o y) = Len(x) + Len(y)
        OBVIOUS
      <4>2. a \in Seq(Dirs) /\ b \in Seq(Dirs)
        BY <1>2, <1>3
      <4> QED
        BY <4>1, <4>2
    <3>2. \A m, k \in Nat : (k - 1) + (m - k) = m - 1
      OBVIOUS
    <3> QED
      BY <1>1, <1>2, <1>3, <3>1, <3>2
  <2>2. ASSUME NEW k \in 1 .. n - 1
        PROVE  r[k] = IF k < i THEN e[k] ELSE e[k + 1]
    <3>1. CASE k < i
      <4>1. k \in 1 .. Len(a) /\ k \in 1 .. i - 1
        BY <1>1, <1>2, <3>1
      <4> QED
        BY <1>2, <1>3, <3>1, <4>1
    <3>2. CASE ~(k < i)
      <4>1. k - (i - 1) \in 1 .. n - i /\ k - (i - 1) + i = k + 1 /\ ~(k <= Len(a))
            /\ k \in 1 .. Len(a) + Len(b)
        BY <1>1, <1>2, <1>3, <3>2
      <4>2. r[k] = b[k - Len(a)]
        <5>1. \A x, y \in Seq(Dirs) : \A l \in 1 .. Len(x) + Len(y) :
                ~(l <= Len(x)) => (x \o y)[l] = y[l - Len(x)]
          OBVIOUS
        <5>2. a \in Seq(Dirs) /\ b \in Seq(Dirs)
          BY <1>2, <1>3
        <5> QED
          BY <4>1, <5>1, <5>2
      <4> QED
        BY <1>2, <1>3, <3>2, <4>1, <4>2
    <3> QED
      BY <3>1, <3>2
  <2> QED
    BY <2>1, <2>2
<1>5. DropAt(e, i) = SubSeq(r, 1, n - i)
  BY DEF DropAt, RemoveAt, a, b
<1> HIDE DEF r
<1>6. 1 .. n - i \subseteq 1 .. n - 1
  BY <1>1
<1>7. SubSeq(r, 1, n - i) \in Seq(Dirs) /\ Len(SubSeq(r, 1, n - i)) = n - i
      /\ \A k \in 1 .. n - i : SubSeq(r, 1, n - i)[k] = r[k]
  <2>1. \A k \in 1 .. n - i : r[k] \in Dirs
    BY <1>4, <1>6
  <2> HIDE DEF n
  <2> QED
    BY <1>1, <1>4, <1>6, <2>1
<1> QED
  BY <1>4, <1>5, <1>6, <1>7

\* s lists the directories of S, the smaller names first.
Lists(s, S) ==
  /\ s \in Seq(Dirs)
  /\ \A k \in 1 .. Len(s) : s[k] \in S
  /\ \A x \in S : \E k \in 1 .. Len(s) : s[k] = x
  /\ \A m, n \in 1 .. Len(s) : m < n => s[m] < s[n]

\* A turn creates a watch,
Creates(want, m, t) ==
  /\ m.j <= Len(want)
  /\ m.i > Len(m.existing) \/ m.existing[m.i] > want[m.j]
  /\ t.existing = m.existing /\ t.i = m.i /\ t.j = m.j + 1
  /\ t.create = m.create \cup {want[m.j]} /\ t.remove = m.remove

\* removes one,
Removes(want, m, t) ==
  /\ m.i <= Len(m.existing)
  /\ m.j > Len(want) \/ m.existing[m.i] < want[m.j]
  /\ t.existing = DropAt(m.existing, m.i) /\ t.i = m.i + 1 /\ t.j = m.j
  /\ t.create = m.create /\ t.remove = m.remove \cup {m.existing[m.i]}

\* or finds one that should and does exist.
Passes(want, m, t) ==
  /\ m.i <= Len(m.existing) /\ m.j <= Len(want)
  /\ m.existing[m.i] = want[m.j]
  /\ t.existing = m.existing /\ t.i = m.i + 1 /\ t.j = m.j + 1
  /\ t.create = m.create /\ t.remove = m.remove

LEMMA TurnCases ==
  ASSUME NEW want \in Seq(Dirs), NEW m \in Merging, ~MergeEnds(want, m)
  PROVE  /\ MergeTurn(want, m) \in Merging
         /\ \/ Creates(want, m, MergeTurn(want, m))
            \/ Removes(want, m, MergeTurn(want, m))
            \/ Passes(want, m, MergeTurn(want, m))
<1> DEFINE t == MergeTurn(want, m)
<1>1. /\ m.existing \in Seq(Dirs) /\ Len(m.existing) \in Nat /\ Len(want) \in Nat
      /\ m.i \in Nat \ {0} /\ m.j \in Nat \ {0}
      /\ m.create \in SUBSET Dirs /\ m.remove \in SUBSET Dirs
  BY DEF Merging
<1>2. m.j <= Len(want) => m.j \in 1 .. Len(want) /\ want[m.j] \in Dirs
  BY <1>1
<1>3. m.i <= Len(m.existing) => m.i \in 1 .. Len(m.existing) /\ m.existing[m.i] \in Dirs
  BY <1>1
<1>4. CASE m.j <= Len(want) /\ (~(m.i <= Len(m.existing)) \/ m.existing[m.i] > want[m.j])
  <2>1. t = [m EXCEPT !.j = @ + 1, !.create = @ \cup {want[m.j]}]
    <3>1. m.i <= Len(m.existing) => m.existing[m.i] \in Nat /\ want[m.j] \in Nat
      BY <1>2, <1>3, <1>4, DirAssumption
    <3>2. ~(m.i <= Len(m.existing) /\ (~(m.j <= Len(want)) \/ m.existing[m.i] < want[m.j]))
      BY <1>4, <3>1
    <3> QED
      BY <1>4, <3>2 DEF MergeTurn
  <2>2. t \in Merging /\ Creates(want, m, t)
    <3>1. m.create \cup {want[m.j]} \in SUBSET Dirs /\ m.j + 1 \in Nat \ {0}
      BY <1>1, <1>2, <1>4
    <3>2. m.i > Len(m.existing) \/ m.existing[m.i] > want[m.j]
      BY <1>1, <1>4
    <3> HIDE DEF t
    <3> QED
      BY <1>4, <2>1, <3>1, <3>2 DEF Merging, Creates
  <2> QED
    BY <2>2
<1>5. CASE /\ ~(m.j <= Len(want) /\ (~(m.i <= Len(m.existing)) \/ m.existing[m.i] > want[m.j]))
           /\ m.i <= Len(m.existing) /\ (~(m.j <= Len(want)) \/ m.existing[m.i] < want[m.j])
  <2>1. t = [m EXCEPT !.i = @ + 1, !.remove = @ \cup {m.existing[m.i]},
                      !.existing = DropAt(@, m.i)]
    BY <1>5 DEF MergeTurn
  <2>2. t \in Merging /\ Removes(want, m, t)
    <3>1. m.remove \cup {m.existing[m.i]} \in SUBSET Dirs /\ m.i + 1 \in Nat \ {0}
      BY <1>1, <1>3, <1>5
    <3>2. m.j > Len(want) \/ m.existing[m.i] < want[m.j]
      BY <1>1, <1>5
    <3>3. DropAt(m.existing, m.i) \in Seq(Dirs)
      BY <1>1, <1>3, <1>5, DropAtFacts
    <3> HIDE DEF t
    <3> QED
      BY <1>5, <2>1, <3>1, <3>2, <3>3 DEF Merging, Removes
  <2> QED
    BY <2>2
<1>6. CASE /\ ~(m.j <= Len(want) /\ (~(m.i <= Len(m.existing)) \/ m.existing[m.i] > want[m.j]))
           /\ ~(m.i <= Len(m.existing) /\ (~(m.j <= Len(want)) \/ m.existing[m.i] < want[m.j]))
  <2>1. t = [m EXCEPT !.i = @ + 1, !.j = @ + 1]
    BY <1>6 DEF MergeTurn
  <2>2. m.i <= Len(m.existing) /\ m.j <= Len(want)
    BY <1>1, <1>6 DEF MergeEnds
  <2>3. m.existing[m.i] = want[m.j]
    <3>1. m.existing[m.i] \in Nat /\ want[m.j] \in Nat
      BY <1>2, <1>3, <2>2, DirAssumption
    <3> QED
      BY <1>6, <2>2, <3>1
  <2>4. t \in Merging /\ Passes(want, m, t)
    <3>1. m.i + 1 \in Nat \ {0} /\ m.j + 1 \in Nat \ {0}
      BY <1>1
    <3> HIDE DEF t
    <3> QED
      BY <2>1, <2>2, <2>3, <3>1 DEF Merging, Passes
  <2> QED
    BY <2>4
<1> QED
  BY <1>4, <1>5, <1>6

\* The merge so far of the directories L, listed in live, and W, listed in want:
\* what it creates is wanted, what it removes is not, and what it has passed in
\* want comes before what is left of existingWatches.  If it has not removed any,
\* all it has passed are wanted.
Merged(live, L, want, W, m) ==
  /\ m \in Merging
  /\ m.create \subseteq W /\ m.remove \subseteq L /\ m.remove \cap W = {}
  /\ \A k \in 1 .. Len(m.existing) : m.existing[k] \in L
  /\ \A a, b \in 1 .. Len(m.existing) : a < b => m.existing[a] < m.existing[b]
  /\ \A k \in 1 .. Len(want) :
       k < m.j => /\ want[k] \in L \cup m.create
                  /\ \A n \in 1 .. Len(m.existing) : m.i <= n => want[k] < m.existing[n]
  /\ \/ m.remove # {}
     \/ m.existing = live /\ \A n \in 1 .. Len(live) : n < m.i => live[n] \in W

LEMMA CreateMerged ==
  ASSUME NEW L \in SUBSET Dirs, NEW W \in SUBSET Dirs, NEW live, NEW want,
         Lists(live, L), Lists(want, W),
         NEW m, Merged(live, L, want, W, m), NEW t \in Merging, Creates(want, m, t)
  PROVE  Merged(live, L, want, W, t)
<1> DEFINE e == m.existing
<1>1. /\ e \in Seq(Dirs) /\ Len(e) \in Nat /\ m.i \in Nat \ {0} /\ m.j \in Nat \ {0}
      /\ want \in Seq(Dirs) /\ Len(want) \in Nat /\ m.j \in 1 .. Len(want)
  BY DEF Merged, Merging, Lists, Creates
<1>2. /\ want[m.j] \in W /\ want[m.j] \in Nat
      /\ \A k \in 1 .. Len(e) : e[k] \in Nat
  <2>1. want[m.j] \in W
    BY <1>1 DEF Lists
  <2>2. \A k \in 1 .. Len(e) : e[k] \in L
    BY DEF Merged
  <2> QED
    BY <2>1, <2>2, DirAssumption
<1>3. /\ t.existing = e /\ t.i = m.i /\ t.j = m.j + 1
      /\ t.create = m.create \cup {want[m.j]} /\ t.remove = m.remove
  BY DEF Creates
<1>4. \A n \in 1 .. Len(e) : m.i <= n => want[m.j] < e[n]
  <2>1. SUFFICES ASSUME NEW n \in 1 .. Len(e), m.i <= n PROVE want[m.j] < e[n]
    OBVIOUS
  <2>2. m.i \in 1 .. Len(e) /\ ~(m.i > Len(e))
    BY <1>1, <2>1
  <2>3. e[m.i] > want[m.j]
    BY <2>2 DEF Creates
  <2>4. e[m.i] = e[n] \/ e[m.i] < e[n]
    BY <1>1, <2>1, <2>2 DEF Merged
  <2> HIDE DEF e
  <2> QED
    BY <1>2, <2>1, <2>2, <2>3, <2>4
<1>5. ASSUME NEW k \in 1 .. Len(want), k < t.j
      PROVE  /\ want[k] \in L \cup t.create
             /\ \A n \in 1 .. Len(t.existing) : t.i <= n => want[k] < t.existing[n]
  <2>1. CASE k = m.j
    BY <1>3, <1>4, <2>1
  <2>2. CASE k # m.j
    <3>1. k < m.j
      BY <1>1, <1>3, <1>5, <2>2
    <3> QED
      BY <1>3, <3>1 DEF Merged
  <2> QED
    BY <2>1, <2>2
<1> HIDE DEF e
<1>6. t.create \subseteq W /\ t.remove \subseteq L /\ t.remove \cap W = {}
  BY <1>2, <1>3 DEF Merged
<1>7. /\ \A k \in 1 .. Len(t.existing) : t.existing[k] \in L
      /\ \A a, b \in 1 .. Len(t.existing) : a < b => t.existing[a] < t.existing[b]
      /\ \/ t.remove # {}
         \/ t.existing = live /\ \A n \in 1 .. Len(live) : n < t.i => live[n] \in W
  BY <1>3 DEF Merged, e
<1> QED
  BY <1>5, <1>6, <1>7 DEF Merged

LEMMA RemoveMerged ==
  ASSUME NEW L \in SUBSET Dirs, NEW W \in SUBSET Dirs, NEW live, NEW want,
         Lists(live, L), Lists(want, W),
         NEW m, Merged(live, L, want, W, m), NEW t \in Merging, Removes(want, m, t)
  PROVE  Merged(live, L, want, W, t)
<1> DEFINE e == m.existing
           d == t.existing
<1>1. /\ e \in Seq(Dirs) /\ Len(e) \in Nat /\ m.i \in Nat \ {0} /\ m.j \in Nat \ {0}
      /\ want \in Seq(Dirs) /\ Len(want) \in Nat /\ m.i \in 1 .. Len(e)
  BY DEF Merged, Merging, Lists, Removes
<1>2. /\ \A k \in 1 .. Len(want) : want[k] \in Nat
      /\ \A k \in 1 .. Len(e) : e[k] \in Nat
  <2>1. \A k \in 1 .. Len(want) : want[k] \in W
    BY DEF Lists
  <2>2. \A k \in 1 .. Len(e) : e[k] \in L
    BY DEF Merged
  <2> QED
    BY <2>1, <2>2, DirAssumption
<1>3. /\ d = DropAt(e, m.i) /\ t.i = m.i + 1 /\ t.j = m.j
      /\ t.create = m.create /\ t.remove = m.remove \cup {e[m.i]}
  BY DEF Removes
<1>4. /\ Len(d) = Len(e) - m.i
      /\ \A k \in 1 .. Len(e) - m.i : d[k] = IF k < m.i THEN e[k] ELSE e[k + 1]
  <2> HIDE DEF e, d
  <2> QED
    BY <1>1, <1>3, DropAtFacts
<1>5. e[m.i] \in L
  BY <1>1 DEF Merged
<1>6. \A k \in 1 .. Len(want) : want[k] # e[m.i]
  <2>1. SUFFICES ASSUME NEW k \in 1 .. Len(want) PROVE want[k] # e[m.i]
    OBVIOUS
  <2>2. CASE k < m.j
    <3>1. want[k] < e[m.i]
      BY <1>1, <2>2 DEF Merged
    <3> HIDE DEF e
    <3> QED
      BY <1>1, <1>2, <3>1
  <2>3. CASE ~(k < m.j)
    <3>1. m.j \in 1 .. Len(want) /\ ~(m.j > Len(want))
      BY <1>1, <2>3
    <3>2. e[m.i] < want[m.j]
      BY <3>1 DEF Removes
    <3>3. m.j = k \/ want[m.j] < want[k]
      BY <1>1, <2>3, <3>1 DEF Lists
    <3> HIDE DEF e
    <3> QED
      BY <1>1, <1>2, <3>1, <3>2, <3>3
  <2> QED
    BY <2>2, <2>3
<1>7. e[m.i] \notin W
  BY <1>6 DEF Lists
<1>8. /\ \A k \in 1 .. Len(e) : e[k] \in L
      /\ \A a, b \in 1 .. Len(e) : a < b => e[a] < e[b]
      /\ \A k \in 1 .. Len(want) :
           k < m.j => /\ want[k] \in L \cup m.create
                      /\ \A n \in 1 .. Len(e) : m.i <= n => want[k] < e[n]
  BY DEF Merged
<1> HIDE DEF e, d
<1>9. \A k \in 1 .. Len(d) : k \in 1 .. Len(e) /\ k + 1 \in 1 .. Len(e)
  BY <1>1, <1>4
<1>10. \A k \in 1 .. Len(d) : d[k] \in L
  BY <1>4, <1>8, <1>9
<1>11. ASSUME NEW a \in 1 .. Len(d), NEW b \in 1 .. Len(d), a < b
       PROVE  d[a] < d[b]
  <2>1. /\ d[a] = IF a < m.i THEN e[a] ELSE e[a + 1]
        /\ d[b] = IF b < m.i THEN e[b] ELSE e[b + 1]
    BY <1>4
  <2>2. /\ a \in 1 .. Len(e) /\ a + 1 \in 1 .. Len(e)
        /\ b \in 1 .. Len(e) /\ b + 1 \in 1 .. Len(e)
    BY <1>9
  <2>3. e[a] < e[b] /\ e[a] < e[b + 1] /\ e[a + 1] < e[b + 1]
    BY <1>8, <1>11, <2>2
  <2> QED
    BY <1>1, <1>11, <2>1, <2>3
<1>12. ASSUME NEW k \in 1 .. Len(want), k < t.j
       PROVE  /\ want[k] \in L \cup t.create
              /\ \A n \in 1 .. Len(d) : t.i <= n => want[k] < d[n]
  <2>1. ASSUME NEW n \in 1 .. Len(d), t.i <= n PROVE want[k] < d[n]
    <3>1. d[n] = e[n + 1] /\ n + 1 \in 1 .. Len(e) /\ m.i <= n + 1
      BY <1>1, <1>3, <1>4, <1>9, <2>1
    <3> QED
      BY <1>3, <1>8, <1>12, <3>1
  <2> QED
    BY <1>3, <1>8, <1>12, <2>1
<1>13. /\ t.create \subseteq W /\ t.remove \subseteq L /\ t.remove \cap W = {}
       /\ t.remove # {}
  BY <1>3, <1>5, <1>7 DEF Merged
<1> QED
  BY <1>10, <1>11, <1>12, <1>13 DEF Merged, d

LEMMA PassMerged ==
  ASSUME NEW L \in SUBSET Dirs, NEW W \in SUBSET Dirs, NEW live, NEW want,
         Lists(live, L), Lists(want, W),
         NEW m, Merged(live, L, want, W, m), NEW t \in Merging, Passes(want, m, t)
  PROVE  Merged(live, L, want, W, t)
<1> DEFINE e == m.existing
<1>1. /\ e \in Seq(Dirs) /\ Len(e) \in Nat /\ m.i \in 1 .. Len(e) /\ m.i \in Nat
      /\ want \in Seq(Dirs) /\ Len(want) \in Nat /\ m.j \in 1 .. Len(want) /\ m.j \in Nat
  BY DEF Merged, Merging, Lists, Passes
<1>2. /\ t.existing = e /\ t.i = m.i + 1 /\ t.j = m.j + 1
      /\ t.create = m.create /\ t.remove = m.remove /\ e[m.i] = want[m.j]
  BY DEF Passes
<1>3. want[m.j] \in W /\ e[m.i] \in L
  BY <1>1 DEF Merged, Lists
<1>4. /\ \A k \in 1 .. Len(e) : e[k] \in L
      /\ \A a, b \in 1 .. Len(e) : a < b => e[a] < e[b]
      /\ \A k \in 1 .. Len(want) :
           k < m.j => /\ want[k] \in L \cup m.create
                      /\ \A n \in 1 .. Len(e) : m.i <= n => want[k] < e[n]
      /\ m.create \subseteq W /\ m.remove \subseteq L /\ m.remove \cap W = {}
      /\ \/ m.remove # {}
         \/ e = live /\ \A n \in 1 .. Len(live) : n < m.i => live[n] \in W
  BY DEF Merged
<1> HIDE DEF e
<1>5. ASSUME NEW k \in 1 .. Len(want), k < t.j
      PROVE  /\ want[k] \in L \cup t.create
             /\ \A n \in 1 .. Len(e) : t.i <= n => want[k] < e[n]
  <2>1. CASE k = m.j
    <3>1. ASSUME NEW n \in 1 .. Len(e), t.i <= n PROVE want[k] < e[n]
      <4>1. m.i < n
        BY <1>1, <1>2, <3>1
      <4> QED
        BY <1>1, <1>2, <1>4, <2>1, <4>1
    <3> QED
      BY <1>2, <1>3, <2>1, <3>1
  <2>2. CASE k # m.j
    <3>1. k < m.j /\ \A n \in 1 .. Len(e) : t.i <= n => m.i <= n
      BY <1>1, <1>2, <1>5, <2>2
    <3> QED
      BY <1>2, <1>4, <3>1
  <2> QED
    BY <2>1, <2>2
<1>6. \/ t.remove # {}
      \/ e = live /\ \A n \in 1 .. Len(live) : n < t.i => live[n] \in W
  <2>1. SUFFICES ASSUME m.remove = {}
                 PROVE  e = live /\ \A n \in 1 .. Len(live) : n < t.i => live[n] \in W
    BY <1>2
  <2>2. e = live /\ \A n \in 1 .. Len(live) : n < m.i => live[n] \in W
    BY <1>4, <2>1
  <2>3. ASSUME NEW n \in 1 .. Len(live), n < t.i PROVE live[n] \in W
    <3>1. n = m.i \/ n < m.i
      BY <1>1, <1>2, <2>3
    <3> QED
      BY <1>2, <1>3, <2>2, <3>1
  <2> QED
    BY <2>2, <2>3
<1> QED
  BY <1>2, <1>4, <1>5, <1>6 DEF Merged

\* How many elements of the two slices are to be looked at yet.
Ahead(n, k) == IF k > n THEN 0 ELSE n + 1 - k
LeftToMerge(want) ==
  [m \in Merging |-> Ahead(Len(m.existing), m.i) + Ahead(Len(want), m.j)]

LEMMA TurnDescends ==
  ASSUME NEW want \in Seq(Dirs), NEW m \in Merging, ~MergeEnds(want, m)
  PROVE  /\ LeftToMerge(want)[m] \in Nat
         /\ LeftToMerge(want)[MergeTurn(want, m)] < LeftToMerge(want)[m]
<1> DEFINE t == MergeTurn(want, m)
           e == m.existing
<1>1. /\ e \in Seq(Dirs) /\ Len(e) \in Nat /\ Len(want) \in Nat
      /\ m.i \in Nat /\ m.i > 0 /\ m.j \in Nat /\ m.j > 0
  BY DEF Merging
<1>2. /\ t \in Merging
      /\ Creates(want, m, t) \/ Removes(want, m, t) \/ Passes(want, m, t)
  BY TurnCases
<1>3. /\ LeftToMerge(want)[m] = Ahead(Len(e), m.i) + Ahead(Len(want), m.j)
      /\ LeftToMerge(want)[t] = Ahead(Len(t.existing), t.i) + Ahead(Len(want), t.j)
  BY <1>2 DEF LeftToMerge
<1>4. \A n, k \in Nat : k > 0 =>
        /\ Ahead(n, k) \in Nat
        /\ k <= n => Ahead(n, k + 1) < Ahead(n, k)
        /\ k <= n => Ahead(n - k, k + 1) < Ahead(n, k)
  BY DEF Ahead
<1> HIDE DEF t, e
<1>5. CASE Creates(want, m, t)
  <2>1. t.existing = e /\ t.i = m.i /\ t.j = m.j + 1 /\ m.j <= Len(want)
    BY <1>5 DEF Creates, e
  <2>2. /\ Ahead(Len(e), m.i) \in Nat /\ Ahead(Len(want), m.j) \in Nat
        /\ Ahead(Len(want), m.j + 1) \in Nat
        /\ Ahead(Len(want), m.j + 1) < Ahead(Len(want), m.j)
    <3>1. m.j + 1 \in Nat /\ m.j + 1 > 0
      BY <1>1
    <3> QED
      BY <1>1, <1>4, <2>1, <3>1
  <2> QED
    BY <1>3, <2>1, <2>2 DEF t
<1>6. CASE Removes(want, m, t)
  <2>1. /\ t.existing = DropAt(e, m.i) /\ t.i = m.i + 1 /\ t.j = m.j
        /\ m.i <= Len(e)
    BY <1>6 DEF Removes, e
  <2>2. Len(t.existing) = Len(e) - m.i
    BY <1>1, <2>1, DropAtFacts
  <2>3. Len(e) - m.i \in Nat /\ m.i + 1 \in Nat /\ m.i + 1 > 0
    BY <1>1, <2>1
  <2>4. /\ Ahead(Len(e), m.i) \in Nat /\ Ahead(Len(want), m.j) \in Nat
        /\ Ahead(Len(e) - m.i, m.i + 1) \in Nat
        /\ Ahead(Len(e) - m.i, m.i + 1) < Ahead(Len(e), m.i)
    BY <1>1, <1>4, <2>1, <2>3
  <2> QED
    BY <1>3, <2>1, <2>2, <2>4 DEF t
<1>7. CASE Passes(want, m, t)
  <2>1. /\ t.existing = e /\ t.i = m.i + 1 /\ t.j = m.j + 1
        /\ m.i <= Len(e) /\ m.j <= Len(want)
    BY <1>7 DEF Passes, e
  <2>2. /\ Ahead(Len(e), m.i) \in Nat /\ Ahead(Len(want), m.j) \in Nat
        /\ Ahead(Len(e), m.i + 1) \in Nat /\ Ahead(Len(want), m.j + 1) \in Nat
        /\ Ahead(Len(e), m.i + 1) < Ahead(Len(e), m.i)
        /\ Ahead(Len(want), m.j + 1) < Ahead(Len(want), m.j)
    <3>1. /\ m.i + 1 \in Nat /\ m.i + 1 > 0 /\ m.j + 1 \in Nat /\ m.j + 1 > 0
      BY <1>1
    <3> QED
      BY <1>1, <1>4, <2>1, <3>1
  <2> QED
    BY <1>3, <2>1, <2>2 DEF t
<1> QED
  BY <1>2, <1>5, <1>6, <1>7 DEF t

LEMMA AlignMerges ==
  ASSUME NEW L \in SUBSET Dirs, NEW W \in SUBSET Dirs, NEW live, NEW want,
         Lists(live, L), Lists(want, W)
  PROVE  Merged(live, L, want, W, Align(live, want)) /\ MergeEnds(want, Align(live, want))
<1> DEFINE stop == {m \in Merging : MergeEnds(want, m)}
           next == [m \in Merging |-> IF m \in stop THEN m ELSE MergeTurn(want, m)]
           left == LeftToMerge(want)
           start == [existing |-> live, i |-> 1, j |-> 1, create |-> {}, remove |-> {}]
           Merges(f) == f = [m \in Merging |-> IF MergeEnds(want, m) THEN m
                                                ELSE f[MergeTurn(want, m)]]
           merge == CHOOSE f : Merges(f)
           I == {m \in Merging : Merged(live, L, want, W, m)}
<1>1. live \in Seq(Dirs) /\ want \in Seq(Dirs) /\ Len(live) \in Nat /\ Len(want) \in Nat
  BY DEF Lists
<1>2. ASSUME NEW m \in Merging, m \notin stop
      PROVE  MergeTurn(want, m) \in Merging /\ next[m] = MergeTurn(want, m)
  BY <1>1, <1>2, TurnCases
<1>3. next \in [Merging -> Merging]
  BY <1>2
<1>4. Descends(left, Merging, next, stop)
  <2>1. ASSUME NEW m \in Merging PROVE left[m] \in Nat
    <3>1. /\ Len(m.existing) \in Nat /\ m.i \in Nat /\ m.j \in Nat
          /\ left[m] = Ahead(Len(m.existing), m.i) + Ahead(Len(want), m.j)
      BY DEF Merging, LeftToMerge
    <3>2. \A n, k \in Nat : Ahead(n, k) \in Nat
      BY DEF Ahead
    <3> HIDE DEF left
    <3>3. Ahead(Len(m.existing), m.i) \in Nat
      BY <3>1, <3>2
    <3>4. Ahead(Len(want), m.j) \in Nat
      BY <1>1, <3>1, <3>2
    <3> QED
      BY <3>1, <3>3, <3>4
  <2>2. left \in [Merging -> Nat]
    <3>1. left = [m \in Merging |-> left[m]]
      BY DEF LeftToMerge
    <3> HIDE DEF left
    <3> QED
      BY <2>1, <3>1
  <2>3. ASSUME NEW m \in Merging, m \notin stop PROVE left[next[m]] < left[m]
    BY <1>1, <1>2, <2>3, TurnDescends
  <2> HIDE DEF left, next, stop
  <2> QED
    BY <2>2, <2>3 DEF Descends
<1>5. ASSUME NEW f PROVE Runs(f, Merging, next, stop) <=> Merges(f)
  <2>1. ASSUME NEW m \in Merging
        PROVE  (IF m \in stop THEN m ELSE f[next[m]])
                 = (IF MergeEnds(want, m) THEN m ELSE f[MergeTurn(want, m)])
    BY <1>2
  <2> HIDE DEF next, stop
  <2> QED
    BY <2>1 DEF Runs
<1>6. Merges(merge)
  <2>1. \E f : Runs(f, Merging, next, stop)
    <3> HIDE DEF next, stop, left
    <3> QED
      BY <1>3, <1>4, LoopExists
  <2> HIDE DEF Merges, next, stop
  <2> QED
    BY <1>5, <2>1
<1>7. Align(live, want) = merge[start]
  BY DEF Align
<1> HIDE DEF merge
<1>8. Runs(merge, Merging, next, stop)
  BY <1>5, <1>6
<1>9. start \in I
  <2>1. start \in Merging
    BY <1>1 DEF Merging
  <2>2. Merged(live, L, want, W, start)
    <3>1. /\ start.existing = live /\ start.i = 1 /\ start.j = 1
          /\ start.create = {} /\ start.remove = {}
      OBVIOUS
    <3> HIDE DEF start
    <3>2. /\ \A k \in 1 .. Len(live) : live[k] \in L
          /\ \A a, b \in 1 .. Len(live) : a < b => live[a] < live[b]
      BY DEF Lists
    <3>3. ~(\E k \in 1 .. Len(want) : k < 1) /\ ~(\E k \in 1 .. Len(live) : k < 1)
      BY <1>1
    <3> QED
      BY <2>1, <3>1, <3>2, <3>3 DEF Merged
  <2> QED
    BY <2>1, <2>2
<1>10. ASSUME NEW m \in I, m \notin stop PROVE next[m] \in I
  <2>1. /\ m \in Merging /\ Merged(live, L, want, W, m) /\ ~MergeEnds(want, m)
    BY <1>10
  <2> DEFINE t == MergeTurn(want, m)
  <2>2. /\ t \in Merging /\ next[m] = t
        /\ Creates(want, m, t) \/ Removes(want, m, t) \/ Passes(want, m, t)
    BY <1>1, <1>2, <1>10, <2>1, TurnCases
  <2> HIDE DEF t
  <2>3. Merged(live, L, want, W, t)
    BY <2>1, <2>2, CreateMerged, RemoveMerged, PassMerged
  <2> QED
    BY <2>2, <2>3
<1>11. merge[start] \in I /\ merge[start] \in stop
  <2>1. I \in SUBSET Merging
    OBVIOUS
  <2> HIDE DEF I, next, stop, left, start
  <2> QED
    BY <1>3, <1>4, <1>8, <1>9, <1>10, <2>1, LoopKeeps
<1> QED
  BY <1>7, <1>11

\* Whatever directories s.watches has and the snapshot asks for, and although the
\* merge truncates existingWatches too far: syncWatches creates watches for
\* wanted directories only and leaves none of them without a watch, it removes
\* none that is wanted, and one at least if there are any that are not.
THEOREM MergeConverges ==
  ASSUME NEW live \in SUBSET Dirs, NEW want \in SUBSET Dirs
  PROVE  LET ops == Align(Sorted(live), Sorted(want))
         IN  /\ ops.create \subseteq want /\ want \subseteq live \cup ops.create
             /\ ops.remove \subseteq live \ want
             /\ live \subseteq want \/ ops.remove # {}
<1> DEFINE l == Sorted(live)
           w == Sorted(want)
           ops == Align(l, w)
<1>1. Lists(l, live) /\ Lists(w, want)
  BY SortedDirs DEF Lists
<1> HIDE DEF l, w
<1>2. Merged(l, live, w, want, ops) /\ MergeEnds(w, ops)
  BY <1>1, AlignMerges
<1> HIDE DEF ops
<1>3. /\ ops.create \subseteq want /\ ops.remove \subseteq live
      /\ ops.remove \cap want = {} /\ ops.i \in Nat /\ ops.j \in Nat
      /\ ops.i > Len(ops.existing) /\ ops.j > Len(w)
  BY <1>2 DEF Merged, Merging, MergeEnds
<1>4. /\ w \in Seq(Dirs) /\ Len(w) \in Nat /\ l \in Seq(Dirs) /\ Len(l) \in Nat
      /\ \A x \in want : \E k \in 1 .. Len(w) : w[k] = x
      /\ \A x \in live : \E k \in 1 .. Len(l) : l[k] = x
  BY <1>1 DEF Lists
<1>5. want \subseteq live \cup ops.create
  <2>1. \A k \in 1 .. Len(w) : k < ops.j
    BY <1>3, <1>4
  <2>2. \A k \in 1 .. Len(w) : w[k] \in live \cup ops.create
    BY <1>2, <2>1 DEF Merged
  <2> QED
    BY <1>4, <2>2
<1>6. ASSUME ops.remove = {} PROVE live \subseteq want
  <2>1. ops.existing = l /\ \A n \in 1 .. Len(l) : n < ops.i => l[n] \in want
    BY <1>2, <1>6 DEF Merged
  <2>2. \A n \in 1 .. Len(l) : n < ops.i
    BY <1>3, <1>4, <2>1
  <2> QED
    BY <1>4, <2>1, <2>2
<1> QED
  BY <1>3, <1>5, <1>6 DEF ops, l, w

\* What a step of SyncAlign makes of s.watches and the watch objects.
LEMMA AlignConverges ==
  ASSUME IInv, NEW p \in Procs, SyncAlign(p)
  PROVE  LET want == {s.dir : s \in snap[p]}
         IN  /\ want \subseteq Listed'
             /\ Listed' \ want \subseteq Listed
             /\ Listed \subseteq want \/ ~(Listed \subseteq Listed')
             /\ \A w \in WatchIds :
                  obj'[w].cancelled => obj[w].cancelled \/ w[1] \notin want
<1> DEFINE want == {s.dir : s \in snap[p]}
           ops == Ops(p)
           made == {s \in snap[p] : s.dir \in ops.create}
           gone == {d \in ops.remove : watches[d] # None}
           makes(d) == \E s \in made : s.dir = d
<1>1. /\ TypeOK /\ snap[p] \subseteq Requests
      /\ \A s \in made : Free(s.dir) # {}
      /\ watches' = [d \in Dirs |->
           IF makes(d) THEN NextId(d)
           ELSE IF d \in gone THEN None ELSE watches[d]]
      /\ obj' = [w \in WatchIds |->
           IF \E s \in made : w = NextId(s.dir)
           THEN NewWatch((CHOOSE s \in made : s.dir = w[1]).label)
           ELSE IF w[1] \in gone /\ watches[w[1]] = w
                THEN [obj[w] EXCEPT !.cancelled = TRUE] ELSE obj[w]]
  BY DEF IInv, TypeOK, SyncAlign
<1>2. want \in SUBSET Dirs /\ Listed \in SUBSET Dirs
  BY <1>1 DEF Requests, Listed
<1>3. ops = Align(Sorted(Listed), Sorted(want))
  BY DEF Ops
<1> HIDE DEF ops
<1>4. /\ ops.create \subseteq want /\ want \subseteq Listed \cup ops.create
      /\ ops.remove \subseteq Listed \ want
      /\ Listed \subseteq want \/ ops.remove # {}
  <2> HIDE DEF want
  <2> QED
    BY <1>2, <1>3, MergeConverges
<1>5. \A d \in Dirs : makes(d) <=> d \in ops.create
  BY <1>4
<1>6. gone = ops.remove
  BY <1>4 DEF Listed
<1>7. ASSUME NEW d \in Dirs, d \in ops.create PROVE NextId(d) # None
  <2>1. makes(d)
    BY <1>5, <1>7
  <2>2. Free(d) # {}
    <3> HIDE DEF made
    <3> QED
      BY <1>1, <2>1
  <2>3. NextId(d) \in WatchIds
    BY <2>2 DEF NextId, Free, WatchIds
  <2> QED
    BY <2>3, NameAssumption
<1>8. \A d \in Dirs : d \in Listed' <=> d \in ops.create \/ (d \in Listed /\ d \notin ops.remove)
  <2> HIDE DEF made, gone, makes
  <2>1. ASSUME NEW d \in Dirs
        PROVE  watches'[d] = IF d \in ops.create THEN NextId(d)
                             ELSE IF d \in ops.remove THEN None ELSE watches[d]
    BY <1>1, <1>5, <1>6 DEF makes
  <2> QED
    BY <1>7, <2>1 DEF Listed
<1>9. Listed' \subseteq Dirs
  BY DEF Listed
<1>10. ASSUME NEW w \in WatchIds, obj'[w].cancelled
       PROVE  obj[w].cancelled \/ w[1] \notin want
  <2>1. CASE \E s \in made : w = NextId(s.dir)
    <3>1. \E l : obj'[w] = NewWatch(l)
      BY <1>1, <2>1
    <3>2. \A l : NewWatch(l).cancelled = FALSE
      BY DEF NewWatch, Unused
    <3> QED
      BY <1>10, <3>1, <3>2
  <2>2. CASE ~(\E s \in made : w = NextId(s.dir)) /\ w[1] \in gone
    BY <1>4, <1>6, <2>2
  <2>3. CASE ~(\E s \in made : w = NextId(s.dir)) /\ w[1] \notin gone
    <3>1. obj'[w] = obj[w]
      BY <1>1, <2>3
    <3> QED
      BY <1>10, <3>1
  <2> QED
    BY <2>1, <2>2, <2>3
<1> HIDE DEF want
<1>11. /\ want \subseteq Listed'
       /\ Listed' \ want \subseteq Listed
       /\ Listed \subseteq want \/ ~(Listed \subseteq Listed')
  BY <1>2, <1>4, <1>8, <1>9
<1> QED
  BY <1>10, <1>11 DEF want

\* In every behaviour, whatever the other goroutines do and wherever the daemon
\* dies: a syncWatches leaves all of its snapshot listed, cancels none of that, and
\* brings the number of the other directories that are listed down.
THEOREM SyncsConverge == Spec => SyncConverges
<1>1. IInv /\ [Next]_vars =>
        [\A p \in Procs : SyncAlign(p) =>
           LET want == {s.dir : s \in snap[p]}
           IN  /\ want \subseteq Listed'
               /\ Listed' \ want \subseteq Listed
               /\ Listed \subseteq want \/ ~(Listed \subseteq Listed')
               /\ \A w \in WatchIds :
                    obj'[w].cancelled => obj[w].cancelled \/ w[1] \notin want]_vars
  BY AlignConverges
<1> QED
  BY <1>1, Invariance, PTL DEF Spec, SyncConverges
==============================================================================
