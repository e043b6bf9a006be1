----------------------------- MODULE WatcherProofs -----------------------------
(***************************************************************************)
(* Theorems about Watcher, for every tree of paths, number of directories, *)
(* length of the kernel's queue and budget of changes and faults.          *)
(***************************************************************************)
EXTENDS Watcher, SequenceTheorems, FiniteSetTheorems, WellFoundedInduction, TLAPS

(***************************************************************************)
(* The inductive invariant                                                 *)
(***************************************************************************)
\* The kernel's queue exceeds its length by one overflow event at most, and that
\* one is the last.
QueueBound ==
  /\ Len(queue) <= QueueMax + 1
  /\ Len(queue) > QueueMax => queue[Len(queue)] = Overflow

\* The fields an event has, by its kind.
Proper(e) ==
  \/ e = Overflow
  \/ /\ e.wd \in Inodes
     /\ e.kind \in {"create", "delete", "file", "ignored"}
     /\ e.kind \in {"create", "delete"} => e.name \in Names
ProperQueue == \A k \in 1 .. Len(queue) : Proper(queue[k])

\* Each inotify watch has a path, and so has the descriptor of each event.
KnownWatches ==
  /\ \A i \in watching : wdToPath[i] # None
  /\ \A k \in 1 .. Len(queue) : queue[k] # Overflow => wdToPath[queue[k].wd] # None

\* Unless there is an excuse: the root is there, no other path leads to it, no
\* other descriptor has its path, and its watch has not been taken away.
RootThere ==
  /\ at[Top] # None
  /\ \A p \in Paths : at[p] = at[Top] => p = Top
  /\ \A i \in Inodes : wdToPath[i] = Top => i = at[Top]
  /\ \A k \in 1 .. Len(queue) : queue[k].kind = "ignored" => queue[k].wd # at[Top]
RootSafe == excuse \/ RootThere

DInv ==
  TypeOK /\ QueueBound /\ ProperQueue /\ KnownWatches /\ RootSafe /\ DeadForAReason


(***************************************************************************)
(* Sequences, frames and the kernel's queue                                *)
(***************************************************************************)
\* A sequence without its last element.
LEMMA FrontOf ==
  ASSUME NEW S, NEW s \in Seq(S), s # <<>>
  PROVE  /\ Front(s) \in Seq(S)
         /\ Len(s) \in Nat \ {0}
         /\ Len(Front(s)) = Len(s) - 1
         /\ \A k \in 1 .. Len(s) - 1 : Front(s)[k] = s[k]
<1>1. Len(s) \in Nat \ {0} /\ \A k \in 1 .. Len(s) : s[k] \in S
  BY EmptySeq, ElementOfSeq
<1>2. \A k \in 1 .. Len(s) - 1 : s[k] \in S
  BY <1>1
<1>3. Len(s) - 1 \in Int
  BY <1>1
<1> DEFINE n == Len(s) - 1
           t == SubSeq(s, 1, n)
<1>4. n \in Int /\ n >= 0
  BY <1>1
<1>5. Front(s) = t
  BY DEF Front
<1> HIDE DEF n
<1>6. /\ t \in Seq(S)
      /\ Len(t) = IF 1 <= n THEN n - 1 + 1 ELSE 0
      /\ \A k \in 1 .. n - 1 + 1 : t[k] = s[1 + k - 1]
  BY <1>2, <1>4, SubSeqProperties DEF n
<1> HIDE DEF t
<1>7. Len(t) = n
  BY <1>4, <1>6
<1>8. \A k \in 1 .. n : t[k] = s[k]
  BY <1>4, <1>6
<1> QED
  BY <1>1, <1>5, <1>6, <1>7, <1>8 DEF n

\* Paths are sequences of names, and None is neither.
LEMMA PathFacts ==
  /\ Top \in Paths /\ Top # None /\ Len(Top) = 1 /\ Top[1] = Root
  /\ Paths \subseteq Seq(Names)
  /\ None \notin Paths /\ None \notin Inodes
  /\ \A p \in Paths : Len(p) \in Nat \ {0} /\ Last(p) \in Names
  /\ \A p \in Paths : Len(p) > 1 => Parent(p) \in Paths
<1>1. \A p \in Paths : Len(p) \in Nat \ {0}
  BY NameAssumption
<1> QED
  BY <1>1, NameAssumption DEF Top, Names

\* The root's path has one name.
LEMMA LongPath ==
  ASSUME NEW p \in Paths, Len(p) > 1 PROVE p # Top
<1>1. Len(Top) = 1
  BY PathFacts
<1> QED
  BY <1>1

\* What the queue holds after an event: what it held, and the event or an overflow
\* if there is a watch.
LEMMA EmitQueue ==
  ASSUME NEW q \in Seq(Events), NEW e \in Events,
         Len(q) <= QueueMax + 1, Len(q) > QueueMax => q[Len(q)] = Overflow
  PROVE  LET r == Emit(q, e)
         IN  /\ r \in Seq(Events)
             /\ Len(r) <= QueueMax + 1
             /\ Len(r) > QueueMax => r[Len(r)] = Overflow
             /\ \A k \in 1 .. Len(r) :
                  \/ r[k] = Overflow
                  \/ r[k] = e /\ e.wd \in watching
                  \/ \E j \in 1 .. Len(q) : r[k] = q[j]
             /\ \A j \in 1 .. Len(q) : \E k \in 1 .. Len(r) : r[k] = q[j]
             /\ e.wd \in watching =>
                  \E k \in 1 .. Len(r) : r[k] = e \/ r[k] = Overflow
<1> DEFINE r == Emit(q, e)
<1>1. Overflow \in Events
  BY DEF Overflow, Events
<1>2. QueueMax \in Nat /\ Len(q) \in Nat
  BY BoundAssumption
<1>3. q # <<>> => Len(q) \in 1 .. Len(q) /\ Last(q) = q[Len(q)]
  BY <1>2, EmptySeq DEF Last
<1>4. CASE e.wd \notin watching \/ (q # <<>> /\ Last(q) \in {e, Overflow})
  <2>1. r = q
    BY <1>4 DEF Emit
  <2>2. e.wd \in watching => \E k \in 1 .. Len(q) : q[k] = e \/ q[k] = Overflow
    BY <1>3, <1>4
  <2> QED
    BY <2>1, <2>2
<1>5. CASE e.wd \in watching /\ (q = <<>> \/ Last(q) \notin {e, Overflow})
  <2> DEFINE x == IF Len(q) < QueueMax THEN e ELSE Overflow
  <2>1. r = Append(q, x)
    BY <1>5 DEF Emit
  <2>2. x \in Events
    BY <1>1
  <2>3. /\ r \in Seq(Events) /\ Len(r) = Len(q) + 1
        /\ \A k \in 1 .. Len(q) : r[k] = q[k]
        /\ r[Len(q) + 1] = x
    <3> HIDE DEF x
    <3> QED
      BY <2>1, <2>2, AppendProperties
  <2>4. Len(q) <= QueueMax
    BY <1>2, <1>3, <1>5, EmptySeq
  <2>5. Len(q) >= QueueMax => x = Overflow
    BY <1>2
  <2>6. x = e \/ x = Overflow
    OBVIOUS
  <2> HIDE DEF r, x
  <2>7. \A k \in 1 .. Len(r) : k \in 1 .. Len(q) \/ k = Len(q) + 1
    BY <1>2, <2>3
  <2>8. \A j \in 1 .. Len(q) : j \in 1 .. Len(r)
    BY <1>2, <2>3
  <2>9. Len(q) + 1 \in 1 .. Len(r)
    BY <1>2, <2>3
  <2>10. /\ Len(r) <= QueueMax + 1
         /\ Len(r) > QueueMax => r[Len(r)] = Overflow
    BY <1>2, <2>3, <2>4, <2>5
  <2>11. \A k \in 1 .. Len(r) :
           \/ r[k] = Overflow
           \/ r[k] = e /\ e.wd \in watching
           \/ \E j \in 1 .. Len(q) : r[k] = q[j]
    BY <1>5, <2>3, <2>6, <2>7
  <2>12. \A j \in 1 .. Len(q) : \E k \in 1 .. Len(r) : r[k] = q[j]
    BY <2>3, <2>8
  <2>13. \E k \in 1 .. Len(r) : r[k] = e \/ r[k] = Overflow
    BY <2>3, <2>6, <2>9
  <2> QED
    BY <2>3, <2>10, <2>11, <2>12, <2>13 DEF r
<1> QED
  BY <1>4, <1>5

\* The top of the stack of calls of add().
LEMMA TopCall ==
  ASSUME DInv, scan # <<>>
  PROVE  /\ Len(scan) \in Nat \ {0} /\ Len(scan) \in 1 .. Len(scan)
         /\ Call \in Frames /\ Call = scan[Len(scan)]
         /\ Call.path \in Seq(Names) /\ Call.todo \subseteq Paths \cup Files
         /\ Front(scan) \in Seq(Frames)
<1>1. scan \in Seq(Frames)
  BY DEF DInv, TypeOK
<1>2. Len(scan) \in Nat \ {0}
  BY <1>1, EmptySeq
<1>3. Call \in Frames /\ Call = scan[Len(scan)]
  BY <1>1, <1>2 DEF Call, Last
<1>4. Front(scan) \in Seq(Frames)
  BY <1>1, FrontOf
<1> QED
  BY <1>2, <1>3, <1>4 DEF Frames

LEMMA WithCallType ==
  ASSUME DInv, scan # <<>>, NEW f \in Frames
  PROVE  /\ WithCall(f) \in Seq(Frames)
         /\ Len(WithCall(f)) = Len(scan)
         /\ \A k \in 1 .. Len(scan) : WithCall(f)[k] = IF k = Len(scan) THEN f ELSE scan[k]
<1>1. scan \in Seq(Frames) /\ Len(scan) \in 1 .. Len(scan)
  BY TopCall DEF DInv, TypeOK
<1> QED
  BY <1>1, ExceptSeq DEF WithCall

LEMMA FrameType ==
  ASSUME NEW p \in Seq(Names) PROVE Frame(p) \in Frames
BY DEF Frame, Frames

\* Entering a directory opens a call for it at most.
LEMMA EnterType ==
  ASSUME NEW calls \in Seq(Frames), NEW p \in Seq(Names)
  PROVE  Enter(calls, p) \in Seq(Frames)
BY FrameType, AppendProperties DEF Enter

\* The path of a directory that an event is about.
LEMMA PathOfType ==
  ASSUME DInv, NEW e, Proper(e), e # Overflow, wdToPath[e.wd] # None,
         e.kind \in {"create", "delete"}
  PROVE  PathOf(e) \in Seq(Names)
<1>1. e.wd \in Inodes /\ e.name \in Names
  BY DEF Proper
<1>2. wdToPath[e.wd] \in Seq(Names)
  BY <1>1 DEF DInv, TypeOK
<1> QED
  BY <1>1, <1>2, AppendProperties DEF PathOf

LEMMA SpendType ==
  ASSUME DInv, NEW k \in Kinds, Spend(k) PROVE budget' \in [Kinds -> Nat]
BY DEF DInv, TypeOK, Spend

(***************************************************************************)
(* Changes of the file system                                              *)
(***************************************************************************)
\* What all of them have in common: the queue gains events of watched directories
\* and the root stays where it is, or there is an excuse.
LEMMA ChangeStep ==
  ASSUME DInv, NEW k \in Kinds, Change(k),
         at' \in Trees, gone' \subseteq Inodes, files' \subseteq Inodes \X Files,
         watching' \subseteq watching, unheard' \subseteq files',
         excuse' \in BOOLEAN, excuse => excuse',
         queue' \in Seq(Events), QueueBound',
         \A n \in 1 .. Len(queue') :
           \/ queue'[n] = Overflow
           \/ \E m \in 1 .. Len(queue) : queue'[n] = queue[m]
           \/ /\ Proper(queue'[n]) /\ queue'[n].wd \in watching
              /\ excuse' \/ queue'[n].kind # "ignored" \/ queue'[n].wd # at[Top],
         \/ excuse'
         \/ at'[Top] = at[Top] /\ \A p \in Paths : at'[p] = at[Top] => p = Top
  PROVE  DInv'
<1>1. budget' \in [Kinds -> Nat] /\ stage = "run"
  BY SpendType DEF Change
<1>2. UNCHANGED <<wdToPath, watchedDirs, scan, stage, cancelled>>
  BY DEF Change, ownVars
<1>3. TypeOK'
  BY <1>1, <1>2 DEF DInv, TypeOK, QueueBound
<1>4. ProperQueue'
  BY DEF DInv, ProperQueue, Proper
<1>5. KnownWatches'
  BY <1>2 DEF DInv, KnownWatches
<1>6. RootSafe'
  <2> SUFFICES ASSUME ~excuse' PROVE RootThere'
    BY DEF RootSafe
  <2>1. RootThere /\ at'[Top] = at[Top] /\ \A p \in Paths : at'[p] = at[Top] => p = Top
    BY DEF DInv, RootSafe
  <2>2. \A n \in 1 .. Len(queue') : queue'[n].kind = "ignored" => queue'[n].wd # at[Top]
    BY <2>1 DEF RootThere, Overflow
  <2> QED
    BY <1>2, <2>1, <2>2 DEF RootThere
<1>7. DeadForAReason'
  BY <1>1, <1>2 DEF DeadForAReason
<1> QED
  BY <1>3, <1>4, <1>5, <1>6, <1>7 DEF DInv

\* Events of the inodes and names of the model.
LEMMA EventType ==
  ASSUME NEW i \in Inodes, NEW k \in {"create", "delete", "file", "ignored"},
         NEW n \in Names \cup Files \cup {None}, k \in {"create", "delete"} => n \in Names
  PROVE  /\ Event(i, k, n) \in Events /\ Proper(Event(i, k, n))
         /\ Event(i, k, n).wd = i /\ Event(i, k, n).kind = k /\ Event(i, k, n).name = n
BY DEF Event, Events, Proper

\* The directory at a path that exists.
LEMMA AtType ==
  ASSUME DInv, NEW p, Exists(p)
  PROVE  p \in Paths /\ at[p] \in Inodes
BY DEF Exists, DInv, TypeOK, Trees

\* One event more.
LEMMA EmitOne ==
  ASSUME DInv, NEW e \in Events, queue' = Emit(queue, e)
  PROVE  /\ queue' \in Seq(Events) /\ QueueBound'
         /\ \A n \in 1 .. Len(queue') :
              \/ queue'[n] = Overflow
              \/ \E m \in 1 .. Len(queue) : queue'[n] = queue[m]
              \/ queue'[n] = e /\ e.wd \in watching
<1>1. /\ queue \in Seq(Events) /\ Len(queue) <= QueueMax + 1
      /\ Len(queue) > QueueMax => queue[Len(queue)] = Overflow
  BY DEF DInv, TypeOK, QueueBound
<1> QED
  BY <1>1, EmitQueue DEF QueueBound

\* Two events more.
LEMMA EmitTwo ==
  ASSUME DInv, NEW d \in Events, NEW e \in Events, queue' = Emit(Emit(queue, d), e)
  PROVE  /\ queue' \in Seq(Events) /\ QueueBound'
         /\ \A n \in 1 .. Len(queue') :
              \/ queue'[n] = Overflow
              \/ \E m \in 1 .. Len(queue) : queue'[n] = queue[m]
              \/ queue'[n] = d /\ d.wd \in watching
              \/ queue'[n] = e /\ e.wd \in watching
<1> DEFINE q == Emit(queue, d)
<1>1. /\ queue \in Seq(Events) /\ Len(queue) <= QueueMax + 1
      /\ Len(queue) > QueueMax => queue[Len(queue)] = Overflow
  BY DEF DInv, TypeOK, QueueBound
<1>2. /\ q \in Seq(Events) /\ Len(q) <= QueueMax + 1
      /\ Len(q) > QueueMax => q[Len(q)] = Overflow
      /\ \A k \in 1 .. Len(q) :
           \/ q[k] = Overflow
           \/ q[k] = d /\ d.wd \in watching
           \/ \E m \in 1 .. Len(queue) : q[k] = queue[m]
  BY <1>1, EmitQueue
<1> HIDE DEF q
<1>3. /\ Emit(q, e) \in Seq(Events) /\ Len(Emit(q, e)) <= QueueMax + 1
      /\ Len(Emit(q, e)) > QueueMax => Emit(q, e)[Len(Emit(q, e))] = Overflow
      /\ \A k \in 1 .. Len(Emit(q, e)) :
           \/ Emit(q, e)[k] = Overflow
           \/ Emit(q, e)[k] = e /\ e.wd \in watching
           \/ \E m \in 1 .. Len(q) : Emit(q, e)[k] = q[m]
  BY <1>2, EmitQueue
<1>4. queue' = Emit(q, e)
  BY DEF q
<1> QED
  BY <1>2, <1>3, <1>4 DEF QueueBound

\* A new directory is at one path and has an inode of its own.
LEMMA MkdirStep ==
  ASSUME DInv, NEW p \in Paths, Mkdir(p)
  PROVE  DInv'
<1> DEFINE i == CHOOSE j \in Fresh : TRUE
           e == Event(at[Parent(p)], "create", Last(p))
<1>1. /\ Change("make") /\ "make" \in Kinds
      /\ queue' = Emit(queue, e)
      /\ at' = [at EXCEPT ![p] = i]
      /\ UNCHANGED <<gone, files, watching, unheard, excuse>>
  BY DEF Mkdir, Kinds
<1>2. i \in Inodes /\ \A q \in Paths : at[q] # i
  <2>1. i \in Fresh
    BY DEF Mkdir
  <2> QED
    BY <2>1 DEF Fresh
<1>3. e \in Events /\ Proper(e) /\ e.wd = at[Parent(p)] /\ e.kind = "create"
  <2>1. at[Parent(p)] \in Inodes
    BY AtType DEF Mkdir
  <2> QED
    BY <2>1, PathFacts, EventType
<1> HIDE DEF i, e
<1>4. at \in Trees /\ at' \in Trees
  BY <1>1, <1>2 DEF DInv, TypeOK, Trees
<1>5. p # Top
  BY LongPath DEF Mkdir
<1>6. RootThere => at'[Top] = at[Top] /\ \A q \in Paths : at'[q] = at[Top] => q = Top
  BY <1>1, <1>2, <1>4, <1>5, PathFacts DEF RootThere, Trees
<1>7. /\ queue' \in Seq(Events) /\ QueueBound'
      /\ \A n \in 1 .. Len(queue') :
           \/ queue'[n] = Overflow
           \/ \E m \in 1 .. Len(queue) : queue'[n] = queue[m]
           \/ queue'[n] = e /\ e.wd \in watching
  BY <1>1, <1>3, EmitOne
<1>8. gone' \subseteq Inodes /\ files' \subseteq Inodes \X Files /\ unheard' \subseteq files'
      /\ excuse' \in BOOLEAN /\ watching' \subseteq watching
  BY <1>1 DEF DInv, TypeOK
<1> QED
  BY <1>1, <1>3, <1>4, <1>6, <1>7, <1>8, ChangeStep DEF DInv, RootSafe

\* An event of a file in a directory.
LEMMA FileStep ==
  ASSUME DInv, NEW p \in Paths, Exists(p), NEW k \in Kinds, Change(k), NEW f \in Files,
         queue' = Emit(queue, Event(at[p], "file", f)),
         files' \subseteq Inodes \X Files, unheard' \subseteq files',
         UNCHANGED <<at, gone, watching, excuse>>
  PROVE  DInv'
<1> DEFINE e == Event(at[p], "file", f)
<1>1. e \in Events /\ Proper(e) /\ e.kind = "file"
  BY AtType, EventType
<1> HIDE DEF e
<1>2. queue' = Emit(queue, e)
  BY DEF e
<1>3. /\ queue' \in Seq(Events) /\ QueueBound'
      /\ \A n \in 1 .. Len(queue') :
           \/ queue'[n] = Overflow
           \/ \E m \in 1 .. Len(queue) : queue'[n] = queue[m]
           \/ queue'[n] = e /\ e.wd \in watching
  BY <1>1, <1>2, EmitOne
<1>4. at' \in Trees /\ gone' \subseteq Inodes /\ excuse' \in BOOLEAN
  BY DEF DInv, TypeOK
<1> QED
  BY <1>1, <1>3, <1>4, ChangeStep DEF DInv, RootSafe, RootThere

LEMMA WriteFileStep ==
  ASSUME DInv, NEW p \in Paths, NEW f \in Files, WriteFile(p, f)
  PROVE  DInv'
<1>1. Exists(p) /\ at[p] \in Inodes /\ "write" \in Kinds
  BY AtType DEF WriteFile, Kinds
<1>2. files' \subseteq Inodes \X Files /\ unheard' \subseteq files'
  BY <1>1 DEF DInv, TypeOK, WriteFile
<1> QED
  BY <1>1, <1>2, FileStep DEF WriteFile

LEMMA RemoveFileStep ==
  ASSUME DInv, NEW p \in Paths, NEW f \in Files, RemoveFile(p, f)
  PROVE  DInv'
<1>1. Exists(p) /\ "remove" \in Kinds
  BY DEF RemoveFile, Kinds
<1>2. files' \subseteq Inodes \X Files /\ unheard' \subseteq files'
  BY DEF DInv, TypeOK, RemoveFile
<1> QED
  BY <1>1, <1>2, FileStep DEF RemoveFile

\* The inode of a removed directory is not the root's, or there is an excuse.
LEMMA RmdirStep ==
  ASSUME DInv, NEW p \in Paths, Rmdir(p)
  PROVE  DInv'
<1> DEFINE d == Event(at[Parent(p)], "delete", Last(p))
           e == Event(at[p], "ignored", None)
<1>1. /\ Change("remove") /\ "remove" \in Kinds
      /\ at' = [at EXCEPT ![p] = None]
      /\ gone' = gone \cup {at[p]}
      /\ watching' = watching \ {at[p]}
      /\ excuse' = (excuse \/ p = Top)
      /\ UNCHANGED <<files, unheard>>
  BY DEF Rmdir, Kinds
<1>2. at[p] \in Inodes /\ Exists(p)
  BY AtType DEF Rmdir
<1>3. e \in Events /\ Proper(e) /\ e.wd = at[p]
  BY <1>2, EventType
<1>4. at \in Trees /\ at' \in Trees
  BY <1>1 DEF DInv, TypeOK, Trees
<1>5. /\ gone' \subseteq Inodes /\ files' \subseteq Inodes \X Files /\ unheard' \subseteq files'
      /\ watching' \subseteq watching /\ excuse' \in BOOLEAN /\ excuse => excuse'
  BY <1>1, <1>2 DEF DInv, TypeOK
<1>6. ~excuse' => at'[Top] = at[Top] /\ \A q \in Paths : at'[q] = at[Top] => q = Top
  BY <1>1, <1>4, PathFacts DEF DInv, RootSafe, RootThere, Trees
<1>7. ~excuse' => at[p] # at[Top]
  BY <1>1 DEF DInv, RootSafe, RootThere
<1>8. CASE p = Top
  <2>1. queue' = Emit(queue, e)
    BY <1>8 DEF Rmdir
  <2> HIDE DEF e, d
  <2>2. /\ queue' \in Seq(Events) /\ QueueBound'
        /\ \A n \in 1 .. Len(queue') :
             \/ queue'[n] = Overflow
             \/ \E m \in 1 .. Len(queue) : queue'[n] = queue[m]
             \/ queue'[n] = e /\ e.wd \in watching
    BY <1>3, <2>1, EmitOne
  <2>3. excuse'
    BY <1>1, <1>8
  <2> QED
    BY <1>1, <1>3, <1>4, <1>5, <2>2, <2>3, ChangeStep
<1>9. CASE p # Top
  <2>1. queue' = Emit(Emit(queue, d), e)
    BY <1>9 DEF Rmdir
  <2>2. d.kind = "delete" /\ d.wd = at[Parent(p)]
    BY DEF Event
  <2>3. e.kind = "ignored"
    BY DEF Event
  <2>4. CASE at[Parent(p)] \in Inodes
    <3>1. d \in Events /\ Proper(d)
      BY <2>4, PathFacts, EventType
    <3> HIDE DEF e, d
    <3>2. /\ queue' \in Seq(Events) /\ QueueBound'
          /\ \A n \in 1 .. Len(queue') :
               \/ queue'[n] = Overflow
               \/ \E m \in 1 .. Len(queue) : queue'[n] = queue[m]
               \/ queue'[n] = d /\ d.wd \in watching
               \/ queue'[n] = e /\ e.wd \in watching
      BY <1>3, <2>1, <3>1, EmitTwo
    <3>3. \A n \in 1 .. Len(queue') :
            \/ queue'[n] = Overflow
            \/ \E m \in 1 .. Len(queue) : queue'[n] = queue[m]
            \/ /\ Proper(queue'[n]) /\ queue'[n].wd \in watching
               /\ excuse' \/ queue'[n].kind # "ignored" \/ queue'[n].wd # at[Top]
      BY <1>3, <1>7, <2>2, <3>1, <3>2
    <3> QED
      BY <1>1, <1>4, <1>5, <1>6, <3>2, <3>3, ChangeStep
  <2>5. CASE at[Parent(p)] \notin Inodes
    <3>1. Emit(queue, d) = queue
      BY <2>2, <2>5 DEF Emit, DInv, TypeOK
    <3>2. queue' = Emit(queue, e)
      BY <2>1, <3>1
    <3> HIDE DEF e, d
    <3>3. /\ queue' \in Seq(Events) /\ QueueBound'
          /\ \A n \in 1 .. Len(queue') :
               \/ queue'[n] = Overflow
               \/ \E m \in 1 .. Len(queue) : queue'[n] = queue[m]
               \/ queue'[n] = e /\ e.wd \in watching
      BY <1>3, <3>2, EmitOne
    <3>4. \A n \in 1 .. Len(queue') :
            \/ queue'[n] = Overflow
            \/ \E m \in 1 .. Len(queue) : queue'[n] = queue[m]
            \/ /\ Proper(queue'[n]) /\ queue'[n].wd \in watching
               /\ excuse' \/ queue'[n].kind # "ignored" \/ queue'[n].wd # at[Top]
      BY <1>3, <1>7, <3>3
    <3> QED
      BY <1>1, <1>4, <1>5, <1>6, <3>3, <3>4, ChangeStep
  <2> QED
    BY <2>4, <2>5
<1> QED
  BY <1>8, <1>9

\* A directory moves neither from the root's path nor to it, so the root stays where
\* it is.
LEMMA RenameStep ==
  ASSUME DInv, NEW p \in Paths, NEW q \in Paths, Rename(p, q)
  PROVE  DInv'
<1> DEFINE d == Event(at[Parent(p)], "delete", Last(p))
           e == Event(at[Parent(q)], "create", Last(q))
           y(x) == p \o SubSeq(x, Len(q) + 1, Len(x))
<1>1. /\ Change("move") /\ "move" \in Kinds
      /\ queue' = Emit(Emit(queue, d), e)
      /\ at' = [x \in Paths |->
                  IF IsPrefix(q, x) THEN IF y(x) \in Paths THEN at[y(x)] ELSE None
                  ELSE IF IsPrefix(p, x) THEN None ELSE at[x]]
      /\ UNCHANGED <<gone, files, watching, unheard, excuse>>
      /\ Len(p) > 1 /\ Len(q) > 1
  BY DEF Rename, Kinds
<1>2. d.kind = "delete" /\ d.wd = at[Parent(p)]
  BY DEF Event
<1>3. e \in Events /\ Proper(e) /\ e.kind = "create"
  <2>1. at[Parent(q)] \in Inodes
    BY AtType DEF Rename
  <2> QED
    BY <2>1, PathFacts, EventType
<1>4. at' \in Trees
  <2>1. at \in Trees
    BY DEF DInv, TypeOK
  <2> HIDE DEF y
  <2> QED
    BY <1>1, <2>1 DEF Trees
<1>5. ~IsPrefix(q, Top) /\ ~IsPrefix(p, Top)
  <2>1. Len(Top) = 1
    BY PathFacts
  <2> QED
    BY <1>1, <2>1 DEF IsPrefix
<1>6. \A x \in Paths : y(x) # Top
  <2> TAKE x \in Paths
  <2>1. p \in Seq(Names) /\ q \in Seq(Names) /\ x \in Seq(Names)
    BY PathFacts
  <2>2. SubSeq(x, Len(q) + 1, Len(x)) \in Seq(Names)
    BY <2>1
  <2>3. Len(y(x)) = Len(p) + Len(SubSeq(x, Len(q) + 1, Len(x)))
    BY <2>1, <2>2
  <2>4. Len(y(x)) > 1
    BY <1>1, <2>1, <2>2, <2>3
  <2>5. Len(Top) = 1
    BY PathFacts
  <2> HIDE DEF y
  <2> QED
    BY <2>4, <2>5
<1> HIDE DEF y
<1>7. RootThere => at'[Top] = at[Top] /\ \A x \in Paths : at'[x] = at[Top] => x = Top
  BY <1>1, <1>5, <1>6, PathFacts DEF RootThere
<1>8. /\ gone' \subseteq Inodes /\ files' \subseteq Inodes \X Files /\ unheard' \subseteq files'
      /\ excuse' \in BOOLEAN /\ watching' \subseteq watching
  BY <1>1 DEF DInv, TypeOK
<1>9. CASE at[Parent(p)] \in Inodes
  <2>1. d \in Events /\ Proper(d)
    BY <1>9, PathFacts, EventType
  <2> HIDE DEF d, e
  <2>2. /\ queue' \in Seq(Events) /\ QueueBound'
        /\ \A n \in 1 .. Len(queue') :
             \/ queue'[n] = Overflow
             \/ \E m \in 1 .. Len(queue) : queue'[n] = queue[m]
             \/ queue'[n] = d /\ d.wd \in watching
             \/ queue'[n] = e /\ e.wd \in watching
    BY <1>1, <1>3, <2>1, EmitTwo
  <2>3. \A n \in 1 .. Len(queue') :
          \/ queue'[n] = Overflow
          \/ \E m \in 1 .. Len(queue) : queue'[n] = queue[m]
          \/ /\ Proper(queue'[n]) /\ queue'[n].wd \in watching
             /\ queue'[n].kind # "ignored"
    BY <1>2, <1>3, <2>1, <2>2
  <2> QED
    BY <1>1, <1>4, <1>7, <1>8, <2>2, <2>3, ChangeStep DEF DInv, RootSafe
<1>10. CASE at[Parent(p)] \notin Inodes
  <2>1. Emit(queue, d) = queue
    BY <1>2, <1>10 DEF Emit, DInv, TypeOK
  <2>2. queue' = Emit(queue, e)
    BY <1>1, <2>1
  <2> HIDE DEF d, e
  <2>3. /\ queue' \in Seq(Events) /\ QueueBound'
        /\ \A n \in 1 .. Len(queue') :
             \/ queue'[n] = Overflow
             \/ \E m \in 1 .. Len(queue) : queue'[n] = queue[m]
             \/ queue'[n] = e /\ e.wd \in watching
    BY <1>3, <2>2, EmitOne
  <2> QED
    BY <1>1, <1>3, <1>4, <1>7, <1>8, <2>3, ChangeStep DEF DInv, RootSafe
<1> QED
  BY <1>9, <1>10

(***************************************************************************)
(* Steps of the watcher                                                    *)
(***************************************************************************)
\* Watch returns, with an error only if there is an excuse.
LEMMA CloseStep ==
  ASSUME DInv, NEW s \in {"stopped", "dead"}, Close(s), UNCHANGED <<fsVars, cancelled, unheard>>,
         excuse' \in BOOLEAN, excuse => excuse', budget' \in [Kinds -> Nat],
         s = "dead" => excuse'
  PROVE  DInv'
<1>1. /\ stage' = s /\ scan' = <<>> /\ watching' = {} /\ queue' = <<>>
      /\ UNCHANGED <<wdToPath, watchedDirs, at, gone, files, cancelled, unheard>>
  BY DEF Close, fsVars
<1>2. /\ Len(queue') = 0 /\ queue' \in Seq(Events) /\ scan' \in Seq(Frames)
      /\ QueueMax \in Nat
  BY <1>1, BoundAssumption
<1>3. TypeOK'
  BY <1>1, <1>2 DEF DInv, TypeOK
<1>4. QueueBound' /\ ProperQueue' /\ KnownWatches'
  BY <1>1, <1>2 DEF QueueBound, ProperQueue, KnownWatches
<1>5. RootSafe'
  BY <1>1, <1>2 DEF DInv, RootSafe, RootThere
<1>6. DeadForAReason'
  BY <1>1 DEF DeadForAReason
<1> QED
  BY <1>3, <1>4, <1>5, <1>6 DEF DInv

\* The root's own call of add() fails only if the root is gone.
LEMMA VanishedStep ==
  ASSUME DInv, stage = "run", scan # <<>>, ~Exists(Call.path), Vanished,
         UNCHANGED <<fsVars, cancelled, unheard, excuse, budget>>
  PROVE  DInv'
<1>1. CASE Call.path = Top
  <2>1. Close("dead")
    BY <1>1 DEF Vanished
  <2>2. excuse
    BY <1>1, PathFacts DEF Exists, DInv, RootSafe, RootThere
  <2> QED
    BY <2>1, <2>2, CloseStep DEF DInv, TypeOK
<1>2. CASE Call.path # Top
  <2>1. /\ scan' = Front(scan)
        /\ UNCHANGED <<wdToPath, watchedDirs, stage, watching, queue>>
    BY <1>2 DEF Vanished
  <2>2. scan' \in Seq(Frames)
    BY <2>1, TopCall
  <2> QED
    BY <2>1, <2>2 DEF DInv, TypeOK, QueueBound, ProperQueue, KnownWatches, RootSafe,
                      RootThere, DeadForAReason, fsVars
<1> QED
  BY <1>1, <1>2

\* A descriptor gets the path its directory is at.
LEMMA AddWatchStep ==
  ASSUME DInv, AddWatch
  PROVE  DInv'
<1>1. /\ stage = "run" /\ scan # <<>>
      /\ UNCHANGED <<fsVars, cancelled, unheard, excuse, budget>>
  BY DEF AddWatch, InAdd
<1>2. CASE Exists(Call.path)
  <2> DEFINE f == [Call EXCEPT !.step = "list"]
  <2>1. /\ watching' = watching \cup {at[Call.path]}
        /\ wdToPath' = [wdToPath EXCEPT ![at[Call.path]] = Call.path]
        /\ watchedDirs' = watchedDirs \cup {Call.path}
        /\ scan' = WithCall(f)
        /\ UNCHANGED <<stage, queue>>
    BY <1>2 DEF AddWatch
  <2>2. at[Call.path] \in Inodes /\ Call.path \in Paths /\ Call.path # None
    BY <1>2, AtType, PathFacts
  <2>3. f \in Frames /\ Call.path \in Seq(Names)
    BY <1>1, TopCall DEF Frames
  <2> HIDE DEF f
  <2>4. scan' \in Seq(Frames)
    BY <1>1, <2>1, <2>3, WithCallType
  <2>5. /\ wdToPath \in [Inodes -> Seq(Names) \cup {None}]
        /\ wdToPath' \in [Inodes -> Seq(Names) \cup {None}]
    BY <2>1, <2>2, <2>3 DEF DInv, TypeOK
  <2>6. TypeOK'
    BY <1>1, <2>1, <2>2, <2>3, <2>4, <2>5 DEF DInv, TypeOK, fsVars
  <2>7. KnownWatches'
    <3>1. \A i \in Inodes : wdToPath[i] # None => wdToPath'[i] # None
      BY <2>1, <2>2, <2>5
    <3>2. \A i \in watching' : wdToPath'[i] # None
      BY <2>1, <2>2, <2>5, <3>1 DEF DInv, TypeOK, KnownWatches
    <3>3. \A k \in 1 .. Len(queue) : queue[k] # Overflow => queue[k].wd \in Inodes
      BY DEF DInv, ProperQueue, Proper
    <3> QED
      BY <2>1, <3>1, <3>2, <3>3 DEF DInv, KnownWatches
  <2>8. RootSafe'
    <3>1. RootThere => \A i \in Inodes : wdToPath'[i] = Top => i = at[Top]
      BY <2>1, <2>2, <2>5 DEF RootThere
    <3> QED
      BY <1>1, <2>1, <3>1 DEF DInv, RootSafe, RootThere, fsVars
  <2> QED
    BY <1>1, <2>1, <2>6, <2>7, <2>8
    DEF DInv, QueueBound, ProperQueue, DeadForAReason
<1>3. CASE ~Exists(Call.path)
  BY <1>1, <1>3, VanishedStep DEF AddWatch
<1> QED
  BY <1>2, <1>3

\* What only opens, changes or closes a call of add(), or hears of a file.
LEMMA ScanStep ==
  ASSUME DInv, scan' \in Seq(Frames), unheard' \subseteq unheard,
         UNCHANGED <<fsVars, watching, queue, wdToPath, watchedDirs, stage, cancelled,
                     excuse, budget>>
  PROVE  DInv'
BY DEF DInv, TypeOK, QueueBound, ProperQueue, KnownWatches, RootSafe,
       RootThere, DeadForAReason, fsVars

LEMMA ListStep ==
  ASSUME DInv, List
  PROVE  DInv'
<1>1. /\ stage = "run" /\ scan # <<>>
      /\ UNCHANGED <<fsVars, cancelled, unheard, excuse, budget>>
  BY DEF List, InAdd
<1>2. CASE Exists(Call.path)
  <2> DEFINE dirs == {p \in Paths : /\ Len(p) > 1 /\ Parent(p) = Call.path
                                    /\ Exists(p) /\ Last(p) \notin Hidden}
             f == [Call EXCEPT !.step = "children", !.dir = at[Call.path],
                               !.todo = dirs \cup FilesIn(Call.path)]
  <2>1. /\ scan' = WithCall(f)
        /\ UNCHANGED <<wdToPath, watchedDirs, stage, watching, queue>>
    BY <1>2 DEF List
  <2>2. at[Call.path] \in Inodes
    BY <1>2, AtType
  <2>3. dirs \cup FilesIn(Call.path) \subseteq Paths \cup Files
    BY DEF FilesIn
  <2> HIDE DEF dirs
  <2>4. f \in Frames
    BY <1>1, <2>2, <2>3, TopCall DEF Frames
  <2> HIDE DEF f
  <2>5. scan' \in Seq(Frames)
    BY <1>1, <2>1, <2>4, WithCallType
  <2> QED
    BY <1>1, <2>1, <2>5, ScanStep
<1>3. CASE ~Exists(Call.path)
  BY <1>1, <1>3, VanishedStep DEF List
<1> QED
  BY <1>2, <1>3

LEMMA NextChildStep ==
  ASSUME DInv, NextChild
  PROVE  DInv'
<1>1. /\ stage = "run" /\ scan # <<>>
      /\ UNCHANGED <<fsVars, watching, queue, wdToPath, watchedDirs, stage, cancelled,
                     excuse, budget>>
  BY DEF NextChild, InAdd
<1>2. PICK x \in Call.todo :
        LET rest == WithCall([Call EXCEPT !.todo = @ \ {x}])
        IN  IF x \in Files
            THEN scan' = rest /\ unheard' = unheard \ {<<Call.dir, x>>}
            ELSE scan' = Enter(rest, x) /\ UNCHANGED unheard
  BY DEF NextChild
<1> DEFINE f == [Call EXCEPT !.todo = @ \ {x}]
<1>3. f \in Frames
  BY <1>1, TopCall DEF Frames
<1>4. WithCall(f) \in Seq(Frames)
  <2> HIDE DEF f
  <2> QED
    BY <1>1, <1>3, WithCallType
<1>5. x \notin Files => x \in Seq(Names)
  BY <1>1, TopCall, PathFacts
<1>6. x \notin Files => Enter(WithCall(f), x) \in Seq(Frames)
  <2> HIDE DEF f
  <2> QED
    BY <1>4, <1>5, EnterType
<1>7. scan' \in Seq(Frames) /\ unheard' \subseteq unheard
  BY <1>2, <1>4, <1>6
<1> QED
  BY <1>1, <1>7, ScanStep

LEMMA AddReturnStep ==
  ASSUME DInv, AddReturn
  PROVE  DInv'
<1>1. scan' \in Seq(Frames)
  BY TopCall DEF AddReturn, InAdd
<1> QED
  BY <1>1, ScanStep DEF AddReturn

\* The event to be read, and the queue after it.
LEMMA GotFacts ==
  ASSUME DInv, Reading
  PROVE  /\ Got \in Events /\ Proper(Got) /\ Got = queue[1] /\ 1 \in 1 .. Len(queue)
         /\ Tail(queue) \in Seq(Events) /\ Len(Tail(queue)) = Len(queue) - 1
         /\ \A k \in 1 .. Len(Tail(queue)) :
              Tail(queue)[k] = queue[k + 1] /\ k + 1 \in 1 .. Len(queue)
<1>1. queue \in Seq(Events) /\ queue # <<>>
  BY DEF DInv, TypeOK, Reading
<1>2. Len(queue) \in Nat \ {0}
  BY <1>1, EmptySeq
<1>3. /\ Head(queue) \in Events /\ Head(queue) = queue[1]
      /\ Tail(queue) \in Seq(Events) /\ Len(Tail(queue)) = Len(queue) - 1
      /\ \A k \in 1 .. Len(Tail(queue)) : Tail(queue)[k] = queue[k + 1]
  BY <1>1, HeadTailProperties
<1>4. \A k \in 1 .. Len(Tail(queue)) : k + 1 \in 1 .. Len(queue)
  BY <1>2, <1>3
<1>5. 1 \in 1 .. Len(queue)
  BY <1>2
<1> QED
  BY <1>3, <1>4, <1>5 DEF Got, DInv, ProperQueue

\* Each descriptor has a path, and the root's watch is taken away with the root.
LEMMA ReadFailsStep ==
  ASSUME DInv, ReadFails
  PROVE  DInv'
<1>1. /\ Reading /\ Close("dead") /\ excuse' = (excuse \/ Got = Overflow)
      /\ UNCHANGED <<fsVars, cancelled, unheard, budget>>
  BY DEF ReadFails
<1>2. Got # Overflow => wdToPath[Got.wd] # None
  BY <1>1, GotFacts DEF DInv, KnownWatches
<1>3. Got # Overflow /\ Got.kind = "ignored" /\ wdToPath[Got.wd] = Top => excuse
  <2>1. Got # Overflow => Got.wd \in Inodes
    BY <1>1, GotFacts DEF Proper
  <2> QED
    BY <1>1, <2>1, GotFacts DEF DInv, RootSafe, RootThere
<1>4. excuse'
  BY <1>1, <1>2, <1>3 DEF ReadFails
<1> QED
  BY <1>1, <1>4, CloseStep DEF DInv, TypeOK

LEMMA ReadEventStep ==
  ASSUME DInv, ReadEvent
  PROVE  DInv'
<1>1. /\ Reading /\ Got # Overflow /\ wdToPath[Got.wd] # None
      /\ Apply(Got) /\ queue' = Tail(queue)
      /\ UNCHANGED <<fsVars, watching, wdToPath, stage, cancelled, excuse, budget>>
  BY DEF ReadEvent
<1>2. Got.kind \in {"create", "delete"} => PathOf(Got) \in Seq(Names)
  BY <1>1, GotFacts, PathOfType
<1>3. /\ scan' \in Seq(Frames) /\ watchedDirs' \subseteq watchedDirs
      /\ unheard' \subseteq unheard
  <2>1. scan \in Seq(Frames)
    BY DEF DInv, TypeOK
  <2>2. Got.kind = "create" => Enter(scan, PathOf(Got)) \in Seq(Frames)
    BY <1>2, <2>1, EnterType
  <2> QED
    BY <1>1, <2>1, <2>2 DEF Apply, Forget
<1>4. /\ queue' \in Seq(Events) /\ Len(queue') = Len(queue) - 1 /\ Len(queue) \in Nat
      /\ \A k \in 1 .. Len(queue') : queue'[k] = queue[k + 1] /\ k + 1 \in 1 .. Len(queue)
      /\ QueueMax \in Nat
  BY <1>1, GotFacts, BoundAssumption DEF DInv, TypeOK
<1>5. TypeOK'
  BY <1>1, <1>3, <1>4 DEF DInv, TypeOK, Reading, fsVars
<1>6. QueueBound'
  BY <1>4 DEF DInv, QueueBound
<1>7. ProperQueue' /\ KnownWatches'
  BY <1>1, <1>4 DEF DInv, ProperQueue, Proper, KnownWatches
<1>8. RootSafe'
  BY <1>1, <1>4 DEF DInv, RootSafe, RootThere, fsVars
<1> QED
  BY <1>1, <1>5, <1>6, <1>7, <1>8 DEF DInv, DeadForAReason

(***************************************************************************)
(* The theorems about its end                                              *)
(***************************************************************************)
\* The first tree has the root, at one path.
LEMMA InitInv ==
  ASSUME Init
  PROVE  DInv
<1>1. at \in Trees /\ FirstTree(at)
  BY TreeAssumption DEF Init
<1>2. scan = <<Frame(Top)>>
  BY DEF Init, Frame
<1>3. Frame(Top) \in Frames
  BY PathFacts, FrameType
<1>4. scan \in Seq(Frames)
  BY <1>2, <1>3
<1>5. Len(queue) = 0 /\ queue \in Seq(Events) /\ QueueMax \in Nat
  BY BoundAssumption DEF Init
<1>6. /\ gone = {} /\ files = {} /\ watching = {} /\ watchedDirs = {} /\ unheard = {}
      /\ stage = "run" /\ cancelled = FALSE /\ excuse = FALSE
      /\ wdToPath = [i \in Inodes |-> None] /\ budget = Budget
  BY DEF Init
<1>7. TypeOK
  <2>1. wdToPath \in [Inodes -> Seq(Names) \cup {None}]
    BY <1>6
  <2>2. Len(queue) <= QueueMax + 1
    BY <1>5
  <2> QED
    BY <1>1, <1>4, <1>5, <1>6, <2>1, <2>2, BoundAssumption DEF TypeOK
<1>8. QueueBound /\ ProperQueue /\ KnownWatches
  BY <1>5, <1>6 DEF QueueBound, ProperQueue, KnownWatches
<1>9. RootThere
  <2>1. at[Top] # None
    BY <1>1, PathFacts DEF FirstTree
  <2>2. \A p \in Paths : at[p] = at[Top] => p = Top
    BY <1>1, <2>1, PathFacts DEF FirstTree
  <2>3. \A i \in Inodes : wdToPath[i] # Top
    BY <1>6, PathFacts
  <2>4. \A k \in 1 .. Len(queue) : FALSE
    BY <1>5
  <2> QED
    BY <2>1, <2>2, <2>3, <2>4 DEF RootThere
<1> QED
  BY <1>6, <1>7, <1>8, <1>9 DEF DInv, RootSafe, DeadForAReason

LEMMA StepInv ==
  ASSUME DInv, [Next]_vars
  PROVE  DInv'
<1>1. CASE \/ \E p \in Paths : Mkdir(p) \/ Rmdir(p)
           \/ \E p \in Paths, f \in Files : WriteFile(p, f) \/ RemoveFile(p, f)
  BY <1>1, MkdirStep, RmdirStep, WriteFileStep, RemoveFileStep
<1>2. CASE \E p, q \in Paths : Rename(p, q)
  BY <1>2, RenameStep
<1>3. CASE Step
  <2>1. CASE Stop
    BY <2>1, CloseStep DEF Stop, DInv, TypeOK
  <2> QED
    BY <1>3, <2>1, AddWatchStep, ListStep, NextChildStep, AddReturnStep, ReadEventStep,
       ReadFailsStep DEF Step
<1>4. CASE CallFails
  <2>1. budget' \in [Kinds -> Nat]
    BY <1>4, SpendType DEF CallFails, Kinds
  <2> QED
    BY <1>4, <2>1, CloseStep DEF CallFails
<1>5. CASE Cancel
  BY <1>5 DEF Cancel, DInv, TypeOK, QueueBound, ProperQueue, KnownWatches, RootSafe,
              RootThere, DeadForAReason, fsVars, ownVars
<1>6. CASE UNCHANGED vars
  BY <1>6 DEF vars, DInv, TypeOK, QueueBound, ProperQueue, KnownWatches, RootSafe,
              RootThere, DeadForAReason, fsVars, ownVars
<1> QED
  BY <1>1, <1>2, <1>3, <1>4, <1>5, <1>6 DEF Next

THEOREM Invariance == Spec => []DInv
<1>1. Init => DInv
  BY InitInv
<1>2. DInv /\ [Next]_vars => DInv'
  BY StepInv
<1> QED
  BY <1>1, <1>2, PTL DEF Spec

\* Every variable has its type, and a watcher that has returned leaves no watch and
\* no event behind.
THEOREM TypeCorrect == Spec => []TypeOK
<1>1. DInv => TypeOK
  BY DEF DInv
<1> QED
  BY <1>1, Invariance, PTL

\* However directories are made, removed, moved and written to, the watcher dies only
\* because its root is gone, the queue overflowed or a system call failed.
THEOREM DiesForAReason == Spec => []DeadForAReason
<1>1. DInv => DeadForAReason
  BY DEF DInv
<1> QED
  BY <1>1, Invariance, PTL

(***************************************************************************)
(* Theorems about Watcher while directories only appear: until one is      *)
(* removed or moved, the watcher misses none, whatever is made and written *)
(* to between its system calls.                                            *)
(***************************************************************************)
(***************************************************************************)
(* The inductive invariant                                                 *)
(***************************************************************************)
\* No directory has been removed or moved.
Growing == gone = {} /\ budget["move"] = Budget["move"]

\* Each path that exists is in a directory, and is its directory's only one.
TreeRight ==
  /\ \A p \in Paths : Exists(p) /\ Len(p) > 1 => Exists(Parent(p))
  /\ \A p, q \in Paths : Exists(p) /\ at[p] = at[q] => p = q

\* The watcher's paths are where it has its watches.
PathsRight ==
  /\ \A i \in Inodes : wdToPath[i] # None => wdToPath[i] \in Paths /\ at[wdToPath[i]] = i
  /\ \A p \in watchedDirs : /\ Exists(p)
                            /\ at[p] \in watching
                            /\ wdToPath[at[p]] = p

\* A call of add() is for directories that exist and lists before it descends.
CallRight(c) ==
  /\ Exists(c.path)
  /\ \A p \in c.todo : p \notin Files => Exists(p)
  /\ c.step # "children" => c.todo = {}

\* A queued event says that a directory is gone only if one is.
EventRight(e) ==
  /\ e.kind \notin {"delete", "ignored"}
  /\ e.kind = "create" => Exists(PathOf(e))

WorkRight ==
  /\ \A c \in ToSet(scan) : CallRight(c)
  /\ \A e \in ToSet(queue) : EventRight(e)

\* Call c of add() is going to watch the directory at p.
Reaches(c, p) ==
  \/ c.path = p /\ c.step = "add"
  \/ Len(p) > 1 /\ c.path = Parent(p) /\ c.step = "list"
  \/ p \in c.todo
Announces(e, p) ==
  e = Overflow \/ (e.kind = "create" /\ ~Backup(e) /\ PathOf(e) = p)
Pending(p) ==
  \/ \E c \in ToSet(scan) : Reaches(c, p)
  \/ \E e \in ToSet(queue) : Announces(e, p)

\* The directories that are to be watched: the root, and what is in a watched
\* directory and has no name that is passed over.
Wanted ==
  {p \in Paths : \/ p = Top
                 \/ /\ Exists(p) /\ Len(p) > 1
                    /\ Plain(Last(p)) /\ Parent(p) \in watchedDirs}
NoneMissed == \A p \in Wanted : p \in watchedDirs \/ Pending(p)

PlainFiles == {f \in Files : Plain(f)}

\* Call c of add() is going to call back for file f of the directory at p.
ReachesFile(c, p, f) ==
  \/ c.path = p /\ c.step = "list"
  \/ f \in c.todo /\ c.dir = at[p]
AnnouncesFile(e, p, f) ==
  e = Overflow \/ (e.kind = "file" /\ ~Backup(e) /\ e.wd = at[p] /\ e.name = f)
FilePending(p, f) ==
  \/ \E c \in ToSet(scan) : ReachesFile(c, p, f)
  \/ \E e \in ToSet(queue) : AnnouncesFile(e, p, f)
AllHeard ==
  \A p \in watchedDirs, f \in PlainFiles : <<at[p], f>> \in unheard => FilePending(p, f)

Grown == TreeRight /\ PathsRight /\ WorkRight /\ NoneMissed /\ AllHeard
GInv ==
  /\ budget["move"] <= Budget["move"]
  /\ Growing /\ stage = "run" => Grown

(***************************************************************************)
(* What is open and what is queued, as sets                                *)
(***************************************************************************)
LEMMA SetOf ==
  ASSUME NEW S, NEW s \in Seq(S)
  PROVE  /\ \A x : x \in ToSet(s) <=> \E k \in 1 .. Len(s) : x = s[k]
         /\ ToSet(s) \subseteq S
BY DEF ToSet

LEMMA AppendSet ==
  ASSUME NEW S, NEW s \in Seq(S), NEW x \in S
  PROVE  ToSet(Append(s, x)) = ToSet(s) \cup {x}
<1> DEFINE t == Append(s, x)
<1>1. /\ t \in Seq(S) /\ Len(t) = Len(s) + 1 /\ Len(s) \in Nat
      /\ \A k \in 1 .. Len(s) : t[k] = s[k]
      /\ t[Len(s) + 1] = x
  BY AppendProperties
<1> HIDE DEF t
<1>2. \A k \in 1 .. Len(t) : k \in 1 .. Len(s) \/ k = Len(s) + 1
  BY <1>1
<1>3. Len(s) + 1 \in 1 .. Len(t) /\ \A k \in 1 .. Len(s) : k \in 1 .. Len(t)
  BY <1>1
<1>4. \A y : y \in ToSet(t) <=> \E k \in 1 .. Len(t) : y = t[k]
  BY <1>1, SetOf
<1>5. \A y : y \in ToSet(s) <=> \E k \in 1 .. Len(s) : y = s[k]
  BY SetOf
<1>6. ToSet(t) = ToSet(s) \cup {x}
  BY <1>1, <1>2, <1>3, <1>4, <1>5
<1> QED
  BY <1>6 DEF t

\* The open calls when the innermost one goes on.
LEMMA GoneOn ==
  ASSUME DInv, scan # <<>>, NEW f \in Frames
  PROVE  /\ Call \in ToSet(scan) /\ f \in ToSet(WithCall(f))
         /\ \A c \in ToSet(WithCall(f)) : c = f \/ c \in ToSet(scan)
         /\ \A c \in ToSet(scan) : c = Call \/ c \in ToSet(WithCall(f))
<1>1. scan \in Seq(Frames) /\ Len(scan) \in 1 .. Len(scan) /\ Call = scan[Len(scan)]
  BY TopCall DEF DInv, TypeOK
<1>2. /\ WithCall(f) \in Seq(Frames) /\ Len(WithCall(f)) = Len(scan)
      /\ \A k \in 1 .. Len(scan) : WithCall(f)[k] = IF k = Len(scan) THEN f ELSE scan[k]
  BY WithCallType
<1>3. \A c : c \in ToSet(scan) <=> \E k \in 1 .. Len(scan) : c = scan[k]
  BY <1>1, SetOf
<1>4. \A c : c \in ToSet(WithCall(f)) <=> \E k \in 1 .. Len(scan) : c = WithCall(f)[k]
  BY <1>2, SetOf
<1> QED
  BY <1>1, <1>2, <1>3, <1>4

\* The open calls when the innermost one returns.
LEMMA Returned ==
  ASSUME DInv, scan # <<>>
  PROVE  /\ Call \in ToSet(scan)
         /\ \A c \in ToSet(Front(scan)) : c \in ToSet(scan)
         /\ \A c \in ToSet(scan) : c = Call \/ c \in ToSet(Front(scan))
<1>1. scan \in Seq(Frames) /\ Call = scan[Len(scan)]
  BY TopCall DEF DInv, TypeOK
<1>2. /\ Front(scan) \in Seq(Frames)
      /\ Len(scan) \in Nat \ {0}
      /\ Len(Front(scan)) = Len(scan) - 1
      /\ \A k \in 1 .. Len(scan) - 1 : Front(scan)[k] = scan[k]
  BY <1>1, FrontOf
<1>3. \A c : c \in ToSet(scan) <=> \E k \in 1 .. Len(scan) : c = scan[k]
  BY <1>1, SetOf
<1>4. \A c : c \in ToSet(Front(scan)) <=> \E k \in 1 .. Len(Front(scan)) : c = Front(scan)[k]
  BY <1>2, SetOf
<1>5. \A k \in 1 .. Len(scan) : k \in 1 .. Len(Front(scan)) \/ k = Len(scan)
  BY <1>2
<1>6. Len(scan) \in 1 .. Len(scan) /\ \A k \in 1 .. Len(Front(scan)) : k \in 1 .. Len(scan)
  BY <1>2
<1> QED
  BY <1>1, <1>2, <1>3, <1>4, <1>5, <1>6

\* The open calls after a directory is entered.
LEMMA Entered ==
  ASSUME NEW calls \in Seq(Frames), NEW p \in Seq(Names)
  PROVE  ToSet(Enter(calls, p)) =
           IF p \in watchedDirs THEN ToSet(calls) ELSE ToSet(calls) \cup {Frame(p)}
<1>1. Frame(p) \in Frames
  BY FrameType
<1>2. ToSet(Append(calls, Frame(p))) = ToSet(calls) \cup {Frame(p)}
  BY <1>1, AppendSet
<1> QED
  BY <1>2 DEF Enter

\* The queue after an event.
LEMMA Emitted ==
  ASSUME DInv, NEW e \in Events
  PROVE  LET new == ToSet(Emit(queue, e))
         IN  /\ ToSet(queue) \subseteq new
             /\ \A n \in new : \/ n \in ToSet(queue) \/ n = Overflow
                               \/ n = e /\ e.wd \in watching
             /\ e.wd \in watching => e \in new \/ Overflow \in new
<1> DEFINE r == Emit(queue, e)
<1>1. /\ queue \in Seq(Events) /\ Len(queue) <= QueueMax + 1
      /\ Len(queue) > QueueMax => queue[Len(queue)] = Overflow
  BY DEF DInv, TypeOK, QueueBound
<1>2. /\ r \in Seq(Events)
      /\ \A k \in 1 .. Len(r) :
           \/ r[k] = Overflow
           \/ r[k] = e /\ e.wd \in watching
           \/ \E j \in 1 .. Len(queue) : r[k] = queue[j]
      /\ \A j \in 1 .. Len(queue) : \E k \in 1 .. Len(r) : r[k] = queue[j]
      /\ e.wd \in watching => \E k \in 1 .. Len(r) : r[k] = e \/ r[k] = Overflow
  BY <1>1, EmitQueue
<1> HIDE DEF r
<1>3. \A n : n \in ToSet(r) <=> \E k \in 1 .. Len(r) : n = r[k]
  BY <1>2, SetOf
<1>4. \A n : n \in ToSet(queue) <=> \E k \in 1 .. Len(queue) : n = queue[k]
  BY <1>1, SetOf
<1>5. /\ ToSet(queue) \subseteq ToSet(r)
      /\ \A n \in ToSet(r) : \/ n \in ToSet(queue) \/ n = Overflow
                             \/ n = e /\ e.wd \in watching
      /\ e.wd \in watching => e \in ToSet(r) \/ Overflow \in ToSet(r)
  BY <1>2, <1>3, <1>4
<1> QED
  BY <1>5 DEF r

\* The queue when its first event is read.
LEMMA Read ==
  ASSUME DInv, Reading
  PROVE  /\ Got \in ToSet(queue)
         /\ ToSet(Tail(queue)) \subseteq ToSet(queue)
         /\ \A e \in ToSet(queue) : e = Got \/ e \in ToSet(Tail(queue))
<1>1. /\ queue \in Seq(Events) /\ Len(queue) \in Nat
      /\ Got = queue[1] /\ 1 \in 1 .. Len(queue)
      /\ Tail(queue) \in Seq(Events) /\ Len(Tail(queue)) = Len(queue) - 1
      /\ \A k \in 1 .. Len(Tail(queue)) :
           Tail(queue)[k] = queue[k + 1] /\ k + 1 \in 1 .. Len(queue)
  BY GotFacts DEF DInv, TypeOK
<1>2. \A n : n \in ToSet(queue) <=> \E k \in 1 .. Len(queue) : n = queue[k]
  BY <1>1, SetOf
<1>3. \A n : n \in ToSet(Tail(queue)) <=> \E k \in 1 .. Len(Tail(queue)) : n = Tail(queue)[k]
  BY <1>1, SetOf
<1>4. \A k \in 1 .. Len(queue) : k = 1 \/ (k - 1 \in 1 .. Len(Tail(queue)) /\ (k - 1) + 1 = k)
  BY <1>1
<1>5. Got \in ToSet(queue) /\ ToSet(Tail(queue)) \subseteq ToSet(queue)
  BY <1>1, <1>2, <1>3
<1>6. \A e \in ToSet(queue) : e = Got \/ e \in ToSet(Tail(queue))
  <2> SUFFICES ASSUME NEW k \in 1 .. Len(queue), k # 1 PROVE queue[k] \in ToSet(Tail(queue))
    BY <1>1, <1>2
  <2>1. k - 1 \in 1 .. Len(Tail(queue)) /\ (k - 1) + 1 = k
    BY <1>4
  <2>2. Tail(queue)[k - 1] = queue[k]
    BY <1>1, <2>1
  <2> QED
    BY <1>3, <2>1, <2>2
<1> QED
  BY <1>5, <1>6

\* What DInv says of the queue and of the open calls.
LEMMA QueuedFacts ==
  ASSUME DInv
  PROVE  /\ \A e \in ToSet(queue) :
              Proper(e) /\ (e # Overflow => e.wd \in Inodes /\ wdToPath[e.wd] # None)
         /\ \A c \in ToSet(scan) : c \in Frames
         /\ \A i \in watching : i \in Inodes /\ wdToPath[i] # None
<1>1. queue \in Seq(Events) /\ scan \in Seq(Frames) /\ watching \subseteq Inodes
  BY DEF DInv, TypeOK
<1>2. \A n : n \in ToSet(queue) <=> \E k \in 1 .. Len(queue) : n = queue[k]
  BY <1>1, SetOf
<1>3. \A e \in ToSet(queue) : Proper(e) /\ (e # Overflow => wdToPath[e.wd] # None)
  BY <1>2 DEF DInv, ProperQueue, KnownWatches
<1>4. ToSet(scan) \subseteq Frames
  BY <1>1, SetOf
<1> QED
  BY <1>1, <1>3, <1>4 DEF Proper, DInv, KnownWatches

(***************************************************************************)
(* Changes of the file system                                              *)
(***************************************************************************)
\* What exists stays where it is, and what is queued stays queued.
LEMMA FsGrows ==
  ASSUME DInv, Grown, stage = "run", UNCHANGED <<ownVars, watching>>,
         \A x \in Paths : Exists(x) => at'[x] = at[x],
         TreeRight',
         ToSet(queue) \subseteq ToSet(queue'),
         \A n \in ToSet(queue') : n \in ToSet(queue) \/ n = Overflow \/ EventRight(n)',
         \A x \in Wanted' : x \in Wanted \/ Pending(x)',
         \A x \in watchedDirs, f \in PlainFiles :
           <<at[x], f>> \in unheard' => <<at[x], f>> \in unheard \/ FilePending(x, f)'
  PROVE  Grown'
<1>1. UNCHANGED <<wdToPath, watchedDirs, scan, stage, watching>>
  BY DEF ownVars
<1>2. \A x \in Paths : Exists(x) => Exists(x)' /\ at'[x] = at[x]
  BY DEF Exists
<1>3. \A x : Exists(x) => x \in Paths /\ Exists(x)' /\ at'[x] = at[x]
  BY <1>2 DEF Exists
<1>4. PathsRight'
  <2>1. \A i \in Inodes : wdToPath[i] # None => Exists(wdToPath[i])
    BY PathFacts DEF Grown, PathsRight, Exists
  <2> QED
    BY <1>1, <1>3, <2>1 DEF Grown, PathsRight
<1>5. WorkRight'
  <2>1. \A c \in ToSet(scan') : CallRight(c)'
    BY <1>1, <1>3 DEF Grown, WorkRight, CallRight
  <2>2. \A n \in ToSet(queue) : EventRight(n)'
    BY <1>1, <1>3 DEF Grown, WorkRight, EventRight, PathOf
  <2>3. EventRight(Overflow)'
    BY DEF EventRight, Overflow
  <2> QED
    BY <2>1, <2>2, <2>3 DEF WorkRight
<1>6. NoneMissed'
  <2>1. \A x : Pending(x) => Pending(x)'
    BY <1>1 DEF Pending, Reaches, Announces, Backup, PathOf
  <2> QED
    BY <1>1, <2>1 DEF Grown, NoneMissed
<1>7. AllHeard'
  <2>1. \A x \in watchedDirs : Exists(x)
    BY DEF Grown, PathsRight
  <2>2. \A x \in watchedDirs, f \in PlainFiles : FilePending(x, f) => FilePending(x, f)'
    BY <1>1, <1>3, <2>1 DEF FilePending, ReachesFile, AnnouncesFile
  <2> QED
    BY <1>1, <1>3, <2>1, <2>2 DEF Grown, AllHeard
<1> QED
  BY <1>4, <1>5, <1>6, <1>7 DEF Grown

\* A path ends with its last name.
LEMMA PathEnd ==
  ASSUME NEW p \in Paths, Len(p) > 1
  PROVE  Append(Parent(p), Last(p)) = p
<1>1. p \in Seq(Names) /\ p # <<>> /\ Len(p) \in Nat \ {0}
  BY PathFacts
<1>2. /\ Parent(p) \in Seq(Names)
      /\ Len(Parent(p)) = Len(p) - 1
      /\ \A k \in 1 .. Len(p) - 1 : Parent(p)[k] = p[k]
  BY <1>1, FrontOf DEF Parent
<1>3. Last(p) = p[Len(p)] /\ Last(p) \in Names
  BY PathFacts DEF Last
<1> DEFINE t == Append(Parent(p), Last(p))
<1>4. /\ t \in Seq(Names) /\ Len(t) = Len(Parent(p)) + 1
      /\ \A k \in 1 .. Len(Parent(p)) : t[k] = Parent(p)[k]
      /\ t[Len(Parent(p)) + 1] = Last(p)
  BY <1>2, <1>3, AppendProperties
<1> HIDE DEF t
<1>5. Len(t) = Len(p)
  BY <1>1, <1>2, <1>4
<1>6. \A k \in 1 .. Len(p) : k \in 1 .. Len(p) - 1 \/ k = Len(p)
  BY <1>1
<1>7. \A k \in 1 .. Len(p) - 1 : t[k] = p[k]
  BY <1>2, <1>4
<1>8. t[Len(p)] = p[Len(p)]
  BY <1>1, <1>2, <1>3, <1>4
<1>9. \A k \in 1 .. Len(t) : t[k] = p[k]
  BY <1>5, <1>6, <1>7, <1>8
<1>10. t = p
  BY <1>1, <1>4, <1>5, <1>9, SeqEqual
<1> QED
  BY <1>10 DEF t

\* A directory made in a watched one is announced.
LEMMA MkdirGrows ==
  ASSUME DInv, Grown, NEW p \in Paths, Mkdir(p)
  PROVE  Grown'
<1> PICK i : i = CHOOSE j \in Fresh : TRUE
  OBVIOUS
<1> PICK e : e = Event(at[Parent(p)], "create", Last(p))
  OBVIOUS
<1>1. /\ Change("make") /\ stage = "run"
      /\ queue' = Emit(queue, e)
      /\ at' = [at EXCEPT ![p] = i]
      /\ UNCHANGED <<gone, files, watching, unheard, excuse>>
      /\ Len(p) > 1 /\ ~Exists(p) /\ Exists(Parent(p))
  BY DEF Mkdir, Change
<1>2. UNCHANGED <<ownVars, wdToPath, watchedDirs, scan>>
  BY <1>1 DEF Change, ownVars
<1>3. i \in Inodes /\ i # None /\ \A q \in Paths : at[q] # i
  <2>1. i \in Fresh
    BY DEF Mkdir
  <2> QED
    BY <2>1, PathFacts DEF Fresh
<1>4. /\ e \in Events /\ e # Overflow
      /\ e.wd = at[Parent(p)] /\ e.kind = "create" /\ e.name = Last(p)
  <2>1. at[Parent(p)] \in Inodes
    BY <1>1, AtType
  <2> QED
    BY <2>1, PathFacts, EventType DEF Overflow
<1>5. at \in Trees /\ \A x \in Paths : at'[x] = IF x = p THEN i ELSE at[x]
  BY <1>1 DEF DInv, TypeOK, Trees
<1>6. \A x : Exists(x)' <=> Exists(x) \/ x = p
  BY <1>3, <1>5 DEF Exists
<1>7. \A x \in Paths : Exists(x) => at'[x] = at[x]
  BY <1>1, <1>5
<1>8. TreeRight'
  BY <1>1, <1>3, <1>5, <1>6 DEF Grown, TreeRight, Exists
<1>9. /\ ToSet(queue) \subseteq ToSet(queue')
      /\ \A n \in ToSet(queue') : \/ n \in ToSet(queue) \/ n = Overflow
                                  \/ n = e /\ e.wd \in watching
      /\ e.wd \in watching => e \in ToSet(queue') \/ Overflow \in ToSet(queue')
  BY <1>1, <1>4, Emitted
<1>10. e.wd \in watching => PathOf(e) = p
  <2> SUFFICES ASSUME e.wd \in watching PROVE PathOf(e) = p
    OBVIOUS
  <2>1. e.wd \in Inodes /\ wdToPath[e.wd] # None
    BY QueuedFacts
  <2>2. wdToPath[e.wd] \in Paths /\ at[wdToPath[e.wd]] = at[Parent(p)]
    BY <1>4, <2>1 DEF Grown, PathsRight
  <2>3. wdToPath[e.wd] = Parent(p)
    BY <1>1, <2>2, PathFacts DEF Grown, TreeRight
  <2> QED
    BY <1>1, <1>4, <2>3, PathEnd DEF PathOf
<1>11. e.wd \in watching => EventRight(e)' /\ PathOf(e)' = p
  BY <1>2, <1>4, <1>6, <1>10 DEF EventRight, PathOf
<1>12. \A x \in Wanted' : x \in Wanted \/ Pending(x)'
  <2> SUFFICES ASSUME p \in Wanted' PROVE p \in Wanted \/ Pending(p)'
    BY <1>2, <1>6 DEF Wanted
  <2>1. Parent(p) \in watchedDirs
    BY <1>1, <1>2, LongPath DEF Wanted
  <2>2. e.wd \in watching
    BY <1>4, <2>1 DEF Grown, PathsRight
  <2>3. ~Backup(e)
    BY <1>1, <1>4, LongPath DEF Wanted, Plain, Backup
  <2> QED
    BY <1>4, <1>9, <1>11, <2>2, <2>3 DEF Pending, Announces, Backup
<1>13. unheard' = unheard
  BY <1>1
<1> QED
  BY <1>1, <1>2, <1>7, <1>8, <1>9, <1>11, <1>12, <1>13, FsGrows

\* An event of a file in a directory.
LEMMA FileGrows ==
  ASSUME DInv, Grown, NEW p \in Paths, Exists(p), NEW k \in Kinds, Change(k), NEW g \in Files,
         queue' = Emit(queue, Event(at[p], "file", g)),
         unheard' \subseteq unheard \cup {<<at[p], g>>},
         UNCHANGED <<at, watching>>
  PROVE  Grown'
<1> PICK e : e = Event(at[p], "file", g)
  OBVIOUS
<1>1. e \in Events /\ e.kind = "file" /\ e.wd = at[p] /\ e.name = g
  BY AtType, EventType
<1>2. queue' = Emit(queue, e)
  OBVIOUS
<1>3. /\ ToSet(queue) \subseteq ToSet(queue')
      /\ \A n \in ToSet(queue') : n \in ToSet(queue) \/ n = Overflow \/ n = e
      /\ e.wd \in watching => e \in ToSet(queue') \/ Overflow \in ToSet(queue')
  BY <1>1, <1>2, Emitted
<1>4. UNCHANGED <<ownVars, watchedDirs>> /\ stage = "run"
  BY DEF Change, ownVars
<1>5. EventRight(e)'
  BY <1>1 DEF EventRight
<1>6. TreeRight' /\ Wanted' = Wanted
  BY <1>4 DEF Grown, TreeRight, Exists, Wanted
<1>7. \A x \in watchedDirs, f \in PlainFiles :
        <<at[x], f>> \in unheard' => <<at[x], f>> \in unheard \/ FilePending(x, f)'
  <2> SUFFICES ASSUME NEW x \in watchedDirs, g \in PlainFiles, at[x] = at[p]
               PROVE  FilePending(x, g)'
    OBVIOUS
  <2>1. e.wd \in watching
    BY <1>1 DEF Grown, PathsRight
  <2>2. ~Backup(e)
    BY <1>1 DEF PlainFiles, Plain, Backup
  <2> QED
    BY <1>1, <1>3, <2>1, <2>2 DEF FilePending, AnnouncesFile, Backup
<1> QED
  BY <1>3, <1>4, <1>5, <1>6, <1>7, FsGrows

LEMMA WriteFileGrows ==
  ASSUME DInv, Grown, NEW p \in Paths, NEW f \in Files, WriteFile(p, f)
  PROVE  Grown'
<1>1. "write" \in Kinds
  BY DEF Kinds
<1>2. unheard' \subseteq unheard \cup {<<at[p], f>>}
  BY DEF WriteFile
<1> QED
  BY <1>1, <1>2, FileGrows DEF WriteFile

LEMMA RemoveFileGrows ==
  ASSUME DInv, Grown, NEW p \in Paths, NEW f \in Files, RemoveFile(p, f)
  PROVE  Grown'
<1>1. "remove" \in Kinds
  BY DEF Kinds
<1>2. unheard' \subseteq unheard \cup {<<at[p], f>>}
  BY DEF RemoveFile
<1> QED
  BY <1>1, <1>2, FileGrows DEF RemoveFile

(***************************************************************************)
(* Steps of the watcher                                                    *)
(***************************************************************************)
\* The watched directory is to be listed, and its children are wanted from then on.
LEMMA AddWatchGrows ==
  ASSUME DInv, Grown, AddWatch
  PROVE  Grown'
<1> PICK p : p = Call.path
  OBVIOUS
<1> PICK f : f = [Call EXCEPT !.step = "list"]
  OBVIOUS
<1>1. /\ stage = "run" /\ scan # <<>> /\ Call.step = "add"
      /\ UNCHANGED <<at, gone, files, cancelled, unheard, excuse, budget>>
  BY DEF AddWatch, InAdd, fsVars
<1>2. /\ Call \in ToSet(scan) /\ CallRight(Call) /\ Call \in Frames
  BY <1>1, GoneOn, TopCall DEF Grown, WorkRight
<1>3. Exists(p) /\ p \in Paths /\ at[p] \in Inodes /\ Call.todo = {}
  BY <1>1, <1>2, AtType DEF CallRight
<1>4. /\ watching' = watching \cup {at[p]}
      /\ wdToPath' = [wdToPath EXCEPT ![at[p]] = p]
      /\ watchedDirs' = watchedDirs \cup {p}
      /\ scan' = WithCall(f)
      /\ UNCHANGED <<stage, queue>>
  BY <1>3 DEF AddWatch
<1>5. f \in Frames /\ f.path = p /\ f.step = "list" /\ f.todo = {}
  BY <1>2, <1>3 DEF Frames
<1>6. /\ f \in ToSet(scan')
      /\ \A c \in ToSet(scan') : c = f \/ c \in ToSet(scan)
      /\ \A c \in ToSet(scan) : c = Call \/ c \in ToSet(scan')
  BY <1>1, <1>4, <1>5, GoneOn
<1>7. \A i \in Inodes : wdToPath'[i] = IF i = at[p] THEN p ELSE wdToPath[i]
  BY <1>3, <1>4 DEF DInv, TypeOK
<1>8. \A x : Exists(x)' <=> Exists(x)
  BY <1>1 DEF Exists
<1>9. \A x, y \in Paths : Exists(x) /\ at[x] = at[y] => x = y
  BY DEF Grown, TreeRight
<1>10. TreeRight'
  BY <1>1, <1>8 DEF Grown, TreeRight
<1>11. PathsRight'
  <2>1. \A i \in Inodes : wdToPath'[i] # None => wdToPath'[i] \in Paths /\ at[wdToPath'[i]] = i
    BY <1>3, <1>7 DEF Grown, PathsRight
  <2>2. \A x \in watchedDirs : /\ Exists(x) /\ x \in Paths /\ at[x] \in watching
                               /\ at[x] \in Inodes /\ wdToPath[at[x]] = x
    BY AtType DEF Grown, PathsRight
  <2>3. \A x \in watchedDirs' : Exists(x) /\ at[x] \in watching' /\ wdToPath'[at[x]] = x
    BY <1>3, <1>4, <1>7, <1>9, <2>2
  <2> QED
    BY <1>1, <1>8, <2>1, <2>3 DEF PathsRight
<1>12. \A e \in ToSet(queue) : e # Overflow => PathOf(e)' = PathOf(e)
  <2> SUFFICES ASSUME NEW e \in ToSet(queue), e # Overflow PROVE wdToPath'[e.wd] = wdToPath[e.wd]
    BY DEF PathOf
  <2>1. e.wd \in Inodes /\ wdToPath[e.wd] # None
    BY QueuedFacts
  <2>2. wdToPath[e.wd] \in Paths /\ at[wdToPath[e.wd]] = e.wd
    BY <2>1 DEF Grown, PathsRight
  <2> QED
    BY <1>3, <1>7, <1>9, <2>1, <2>2
<1>13. WorkRight'
  <2>1. CallRight(f)'
    BY <1>3, <1>5, <1>8 DEF CallRight
  <2>2. \A c \in ToSet(scan) : CallRight(c)'
    BY <1>8 DEF Grown, WorkRight, CallRight
  <2>3. \A e \in ToSet(queue) : EventRight(e)'
    BY <1>8, <1>12 DEF Grown, WorkRight, EventRight, Overflow
  <2> QED
    BY <1>4, <1>6, <2>1, <2>2, <2>3 DEF WorkRight
<1>14. NoneMissed'
  <2> SUFFICES ASSUME NEW x \in Wanted', x # p PROVE x \in watchedDirs' \/ Pending(x)'
    BY <1>4 DEF NoneMissed
  <2>1. CASE x \in Wanted
    <3>1. x \in watchedDirs \/ Pending(x)
      BY <2>1 DEF Grown, NoneMissed
    <3>2. ~Reaches(Call, x)
      BY <1>1, <1>3 DEF Reaches
    <3>3. Pending(x) => Pending(x)'
      BY <1>4, <1>6, <1>12, <3>2 DEF Pending, Reaches, Announces, Backup
    <3> QED
      BY <1>4, <3>1, <3>3
  <2>2. CASE x \notin Wanted
    <3>1. Len(x) > 1 /\ Parent(x) = p
      BY <1>4, <1>8, <2>2 DEF Wanted
    <3> QED
      BY <1>5, <1>6, <3>1 DEF Pending, Reaches
  <2> QED
    BY <2>1, <2>2
<1>15. AllHeard'
  <2> SUFFICES ASSUME NEW x \in watchedDirs', NEW g \in PlainFiles, <<at[x], g>> \in unheard
               PROVE  FilePending(x, g)'
    BY <1>1 DEF Grown, AllHeard
  <2>1. CASE x = p
    BY <1>5, <1>6, <2>1 DEF FilePending, ReachesFile
  <2>2. CASE x # p
    <3>1. FilePending(x, g)
      BY <1>4, <2>2 DEF Grown, AllHeard
    <3>2. ~ReachesFile(Call, x, g)
      BY <1>1, <1>3 DEF ReachesFile
    <3> QED
      BY <1>1, <1>4, <1>6, <3>1, <3>2 DEF FilePending, ReachesFile, AnnouncesFile
  <2> QED
    BY <2>1, <2>2
<1> QED
  BY <1>10, <1>11, <1>13, <1>14, <1>15 DEF Grown

\* What changes nothing but the calls, the queue and what has been heard of.
LEMMA ScanGrows ==
  ASSUME DInv, Grown, UNCHANGED <<at, gone, files, watching, wdToPath, watchedDirs>>,
         ToSet(queue') \subseteq ToSet(queue),
         \A c \in ToSet(scan') : c \in ToSet(scan) \/ CallRight(c),
         \A x \in Wanted : Pending(x) => x \in watchedDirs \/ Pending(x)',
         unheard' \subseteq unheard,
         \A x \in watchedDirs, g \in PlainFiles :
           <<at[x], g>> \in unheard' /\ FilePending(x, g) => FilePending(x, g)'
  PROVE  Grown'
<1>1. \A x : Exists(x)' <=> Exists(x)
  BY DEF Exists
<1>2. TreeRight' /\ PathsRight' /\ Wanted' = Wanted
  BY <1>1 DEF Grown, TreeRight, PathsRight, Wanted
<1>3. \A c : CallRight(c) => CallRight(c)'
  BY <1>1 DEF CallRight
<1>4. \A e : EventRight(e) => EventRight(e)'
  BY <1>1 DEF EventRight, PathOf
<1>5. WorkRight'
  BY <1>3, <1>4 DEF Grown, WorkRight
<1>6. NoneMissed' /\ AllHeard'
  BY <1>2 DEF Grown, NoneMissed, AllHeard
<1> QED
  BY <1>2, <1>5, <1>6 DEF Grown

\* Listed, a directory's children are to be entered, and its files are to be heard of.
LEMMA ListGrows ==
  ASSUME DInv, Grown, List
  PROVE  Grown'
<1> PICK p : p = Call.path
  OBVIOUS
<1> PICK todo : todo = {x \in Paths : /\ Len(x) > 1 /\ Parent(x) = p
                                      /\ Exists(x) /\ Last(x) \notin Hidden} \cup FilesIn(p)
  OBVIOUS
<1> PICK f : f = [Call EXCEPT !.step = "children", !.dir = at[p], !.todo = todo]
  OBVIOUS
<1>1. /\ stage = "run" /\ scan # <<>> /\ Call.step = "list"
      /\ UNCHANGED <<at, gone, files, cancelled, unheard, excuse, budget>>
  BY DEF List, InAdd, fsVars
<1>2. Call \in ToSet(scan) /\ CallRight(Call) /\ Call \in Frames
  BY <1>1, GoneOn, TopCall DEF Grown, WorkRight
<1>3. Exists(p) /\ p \in Paths /\ at[p] \in Inodes /\ Call.todo = {}
  BY <1>1, <1>2, AtType DEF CallRight
<1>4. scan' = WithCall(f) /\ UNCHANGED <<wdToPath, watchedDirs, stage, watching, queue>>
  BY <1>3 DEF List
<1>5. todo \subseteq Paths \cup Files /\ \A x \in todo : x \notin Files => Exists(x)
  BY DEF FilesIn
<1>6. /\ f \in Frames /\ f.path = p /\ f.step = "children" /\ f.dir = at[p] /\ f.todo = todo
  BY <1>2, <1>3, <1>5 DEF Frames
<1>7. /\ f \in ToSet(scan')
      /\ \A c \in ToSet(scan') : c = f \/ c \in ToSet(scan)
      /\ \A c \in ToSet(scan) : c = Call \/ c \in ToSet(scan')
  BY <1>1, <1>4, <1>6, GoneOn
<1>8. CallRight(f)
  BY <1>3, <1>5, <1>6 DEF CallRight
<1>9. \A x \in Wanted : Pending(x) => Pending(x)'
  <2> SUFFICES ASSUME NEW x \in Wanted, Reaches(Call, x) PROVE Pending(x)'
    BY <1>4, <1>7 DEF Pending, Reaches, Announces, PathOf
  <2>1. Len(x) > 1 /\ Parent(x) = p
    BY <1>1, <1>3 DEF Reaches
  <2>2. Exists(x) /\ Last(x) \notin Hidden /\ x \in Paths
    BY <2>1, LongPath DEF Wanted, Plain
  <2>3. x \in todo
    BY <2>1, <2>2
  <2> QED
    BY <1>6, <1>7, <2>3 DEF Pending, Reaches
<1>10. \A x \in watchedDirs, g \in PlainFiles :
         <<at[x], g>> \in unheard' /\ FilePending(x, g) => FilePending(x, g)'
  <2> SUFFICES ASSUME NEW x \in watchedDirs, NEW g \in PlainFiles, <<at[x], g>> \in unheard,
                      ReachesFile(Call, x, g)
               PROVE  FilePending(x, g)'
    <3> SUFFICES ASSUME NEW x \in watchedDirs, NEW g \in PlainFiles, FilePending(x, g),
                        ~(ReachesFile(Call, x, g) /\ <<at[x], g>> \in unheard),
                        <<at[x], g>> \in unheard
                 PROVE  FilePending(x, g)'
      BY <1>1
    <3>1. \A c : ReachesFile(c, x, g)' = ReachesFile(c, x, g)
      BY <1>1 DEF ReachesFile
    <3>2. \A e : AnnouncesFile(e, x, g)' = AnnouncesFile(e, x, g)
      BY <1>1 DEF AnnouncesFile, Backup
    <3> QED
      BY <1>4, <1>7, <3>1, <3>2 DEF FilePending
  <2>1. x = p
    BY <1>3 DEF ReachesFile
  <2>2. g \in todo
    BY <2>1 DEF FilesIn, PlainFiles, Plain, DInv, TypeOK
  <2> QED
    BY <1>1, <1>6, <1>7, <2>1, <2>2 DEF FilePending, ReachesFile
<1> QED
  BY <1>1, <1>4, <1>7, <1>8, <1>9, <1>10, ScanGrows

\* What leaves a call's list is heard of, watched already, or about to be watched.
LEMMA NextChildGrows ==
  ASSUME DInv, Grown, NextChild
  PROVE  Grown'
<1>1. /\ stage = "run" /\ scan # <<>>
      /\ UNCHANGED <<at, gone, files, watching, queue, wdToPath, watchedDirs, stage,
                     cancelled, excuse, budget>>
      /\ Call.step = "children"
  BY DEF NextChild, InAdd, fsVars
<1>2. Call \in ToSet(scan) /\ CallRight(Call) /\ Call \in Frames
  BY <1>1, GoneOn, TopCall DEF Grown, WorkRight
<1>3. PICK z \in Call.todo :
        LET rest == WithCall([Call EXCEPT !.todo = @ \ {z}])
        IN  IF z \in Files
            THEN scan' = rest /\ unheard' = unheard \ {<<Call.dir, z>>}
            ELSE scan' = Enter(rest, z) /\ UNCHANGED unheard
  BY DEF NextChild
<1> PICK f : f = [Call EXCEPT !.todo = @ \ {z}]
  OBVIOUS
<1>4. /\ f \in Frames /\ f.path = Call.path /\ f.step = Call.step /\ f.dir = Call.dir
      /\ f.todo = Call.todo \ {z}
  BY <1>2 DEF Frames
<1>5. /\ f \in ToSet(WithCall(f))
      /\ \A c \in ToSet(WithCall(f)) : c = f \/ c \in ToSet(scan)
      /\ \A c \in ToSet(scan) : c = Call \/ c \in ToSet(WithCall(f))
      /\ WithCall(f) \in Seq(Frames)
  BY <1>1, <1>4, GoneOn, WithCallType
<1>6. CallRight(f)
  BY <1>1, <1>2, <1>4 DEF CallRight
<1>7. CASE z \in Files
  <2>1. scan' = WithCall(f) /\ unheard' = unheard \ {<<Call.dir, z>>}
    BY <1>3, <1>7
  <2>2. \A x \in Wanted : Pending(x) => Pending(x)'
    <3>1. \A x \in Wanted : x # z
      BY <1>7, NameAssumption DEF Wanted
    <3>2. \A x \in Wanted : Reaches(Call, x) => Reaches(f, x)
      BY <1>4, <3>1 DEF Reaches
    <3> QED
      BY <1>1, <1>5, <2>1, <3>2 DEF Pending, Reaches, Announces, PathOf
  <2>3. \A x \in watchedDirs, g \in PlainFiles :
          <<at[x], g>> \in unheard' /\ FilePending(x, g) => FilePending(x, g)'
    <3>1. \A x, g : <<at[x], g>> \in unheard' /\ ReachesFile(Call, x, g) => ReachesFile(f, x, g)
      BY <1>1, <1>4, <2>1 DEF ReachesFile
    <3> QED
      BY <1>1, <1>5, <2>1, <3>1 DEF FilePending, ReachesFile, AnnouncesFile
  <2> QED
    BY <1>1, <1>5, <1>6, <2>1, <2>2, <2>3, ScanGrows
<1>8. CASE z \notin Files
  <2>1. scan' = Enter(WithCall(f), z) /\ unheard' = unheard
    BY <1>3, <1>8
  <2>2. Exists(z) /\ z \in Paths /\ z \in Seq(Names)
    BY <1>2, <1>3, <1>8, AtType, PathFacts DEF CallRight
  <2>3. ToSet(scan') = IF z \in watchedDirs THEN ToSet(WithCall(f))
                       ELSE ToSet(WithCall(f)) \cup {Frame(z)}
    BY <1>5, <2>1, <2>2, Entered
  <2>4. CallRight(Frame(z)) /\ Reaches(Frame(z), z)
    BY <2>2 DEF CallRight, Frame, Reaches
  <2>5. \A x \in Wanted : Pending(x) => x \in watchedDirs \/ Pending(x)'
    <3>1. \A x \in Wanted : Reaches(Call, x) => x = z \/ Reaches(f, x)
      BY <1>4 DEF Reaches
    <3>2. z \notin watchedDirs => Frame(z) \in ToSet(scan') /\ Reaches(Frame(z), z)'
      BY <2>3, <2>4 DEF Reaches
    <3>3. ToSet(WithCall(f)) \subseteq ToSet(scan')
      BY <2>3
    <3>4. \A x \in Wanted, c \in ToSet(scan) : Reaches(c, x) => x \in watchedDirs \/ Pending(x)'
      BY <1>5, <3>1, <3>2, <3>3 DEF Pending, Reaches
    <3>5. \A x \in Wanted, e \in ToSet(queue) : Announces(e, x) => Pending(x)'
      BY <1>1 DEF Pending, Announces, PathOf
    <3> QED
      BY <3>4, <3>5 DEF Pending
  <2>6. \A x \in watchedDirs, g \in PlainFiles :
          <<at[x], g>> \in unheard' /\ FilePending(x, g) => FilePending(x, g)'
    <3>1. \A x : \A g \in PlainFiles : ReachesFile(Call, x, g) => ReachesFile(f, x, g)
      BY <1>4, <1>8 DEF ReachesFile, PlainFiles
    <3> QED
      <4> SUFFICES ASSUME NEW x \in watchedDirs, NEW g \in PlainFiles, FilePending(x, g)
                   PROVE  FilePending(x, g)'
        OBVIOUS
      <4>1. \A c : ReachesFile(c, x, g)' = ReachesFile(c, x, g)
        BY <1>1 DEF ReachesFile
      <4>2. \A e : AnnouncesFile(e, x, g)' = AnnouncesFile(e, x, g)
        BY <1>1 DEF AnnouncesFile, Backup
      <4>3. ToSet(WithCall(f)) \subseteq ToSet(scan')
        BY <2>3
      <4> QED
        BY <1>1, <1>5, <3>1, <4>1, <4>2, <4>3 DEF FilePending
  <2> QED
    BY <1>1, <1>5, <1>6, <2>1, <2>3, <2>4, <2>5, <2>6, ScanGrows
<1> QED
  BY <1>7, <1>8

LEMMA AddReturnGrows ==
  ASSUME DInv, Grown, AddReturn
  PROVE  Grown'
<1>1. /\ scan # <<>> /\ Call.step = "children" /\ Call.todo = {}
      /\ UNCHANGED <<at, gone, files, watching, queue, wdToPath, watchedDirs, stage,
                     cancelled, unheard, excuse, budget>>
      /\ scan' = Front(scan)
  BY DEF AddReturn, InAdd, fsVars
<1>2. /\ \A c \in ToSet(scan') : c \in ToSet(scan)
      /\ \A c \in ToSet(scan) : c = Call \/ c \in ToSet(scan')
  BY <1>1, Returned
<1>3. \A x, g : ~Reaches(Call, x) /\ ~ReachesFile(Call, x, g)
  BY <1>1 DEF Reaches, ReachesFile
<1>4. \A x : Pending(x) => Pending(x)'
  BY <1>1, <1>2, <1>3 DEF Pending, Reaches, Announces, PathOf
<1>5. \A x, g : FilePending(x, g) => FilePending(x, g)'
  BY <1>1, <1>2, <1>3 DEF FilePending, ReachesFile, AnnouncesFile
<1> QED
  BY <1>1, <1>2, <1>4, <1>5, ScanGrows

\* No event announces a removal; one of a directory opens a call for it.
LEMMA ReadEventGrows ==
  ASSUME DInv, Grown, ReadEvent
  PROVE  Grown'
<1> PICK g : g = Got
  OBVIOUS
<1>1. /\ Reading /\ g # Overflow /\ wdToPath[g.wd] # None
      /\ Apply(g) /\ queue' = Tail(queue)
      /\ UNCHANGED <<at, gone, files, watching, wdToPath, stage, cancelled, excuse,
                     budget>>
  BY DEF ReadEvent, fsVars
<1>2. /\ g \in ToSet(queue) /\ EventRight(g)
      /\ ToSet(queue') \subseteq ToSet(queue)
      /\ \A e \in ToSet(queue) : e = g \/ e \in ToSet(queue')
  BY <1>1, Read DEF Grown, WorkRight
<1>3. CASE Backup(g)
  <2>1. UNCHANGED <<scan, watchedDirs, unheard>>
    BY <1>1, <1>3 DEF Apply, Backup
  <2>2. \A x : Pending(x) => Pending(x)'
    BY <1>1, <1>2, <1>3, <2>1 DEF Pending, Reaches, Announces, Backup, PathOf
  <2>3. \A x, f : FilePending(x, f) => FilePending(x, f)'
    BY <1>1, <1>2, <1>3, <2>1 DEF FilePending, ReachesFile, AnnouncesFile, Backup
  <2> QED
    BY <1>1, <1>2, <2>1, <2>2, <2>3, ScanGrows
<1>4. CASE g.kind = "file" /\ ~Backup(g)
  <2>1. unheard' = unheard \ {<<g.wd, g.name>>} /\ UNCHANGED <<scan, watchedDirs>>
    BY <1>1, <1>4 DEF Apply
  <2>2. \A x : ~Announces(g, x)
    BY <1>1, <1>4 DEF Announces
  <2>3. \A x : Pending(x) => Pending(x)'
    BY <1>1, <1>2, <2>1, <2>2 DEF Pending, Reaches, Announces, Backup, PathOf
  <2>4. \A x, f : <<at[x], f>> \in unheard' /\ FilePending(x, f) => FilePending(x, f)'
    <3>1. \A x, f : <<at[x], f>> \in unheard' => ~AnnouncesFile(g, x, f)
      BY <1>1, <2>1 DEF AnnouncesFile
    <3> QED
      BY <1>1, <1>2, <2>1, <3>1 DEF FilePending, ReachesFile, AnnouncesFile, Backup
  <2> QED
    BY <1>1, <1>2, <2>1, <2>3, <2>4, ScanGrows
<1>5. CASE g.kind = "create" /\ ~Backup(g)
  <2> PICK p : p = PathOf(g)
    OBVIOUS
  <2>1. scan' = Enter(scan, p) /\ UNCHANGED <<watchedDirs, unheard>>
    BY <1>1, <1>5 DEF Apply
  <2>2. Exists(p) /\ p \in Seq(Names) /\ scan \in Seq(Frames)
    BY <1>2, <1>5, AtType, PathFacts DEF EventRight, DInv, TypeOK
  <2>3. ToSet(scan') = IF p \in watchedDirs THEN ToSet(scan)
                       ELSE ToSet(scan) \cup {Frame(p)}
    BY <2>1, <2>2, Entered
  <2>4. CallRight(Frame(p)) /\ Reaches(Frame(p), p)
    BY <2>2 DEF CallRight, Frame, Reaches
  <2>5. \A x : Pending(x) => x \in watchedDirs \/ Pending(x)'
    <3>1. \A x : Announces(g, x) => x = p
      BY <1>1 DEF Announces
    <3>2. p \notin watchedDirs => Frame(p) \in ToSet(scan') /\ Reaches(Frame(p), p)'
      BY <2>3, <2>4 DEF Reaches
    <3>3. p \in watchedDirs \/ Pending(p)'
      BY <3>2 DEF Pending
    <3>4. \A x : Pending(x) => Announces(g, x) \/ Pending(x)'
      BY <1>1, <1>2, <2>3 DEF Pending, Reaches, Announces, Backup, PathOf
    <3> QED
      BY <3>1, <3>3, <3>4
  <2>6. \A x, f : FilePending(x, f) => FilePending(x, f)'
    <3>1. \A x, f : ~AnnouncesFile(g, x, f)
      BY <1>1, <1>5 DEF AnnouncesFile
    <3> QED
      BY <1>1, <1>2, <2>3, <3>1 DEF FilePending, ReachesFile, AnnouncesFile, Backup
  <2> QED
    BY <1>1, <1>2, <2>1, <2>3, <2>4, <2>5, <2>6, ScanGrows
<1> QED
  BY <1>1, <1>2, <1>3, <1>4, <1>5 DEF Apply, EventRight

(***************************************************************************)
(* The theorems                                                            *)
(***************************************************************************)
\* At first there is the call for the root only.
LEMMA InitGrown ==
  ASSUME Init
  PROVE  Grown
<1>1. at \in Trees /\ FirstTree(at)
  BY TreeAssumption DEF Init
<1>2. /\ scan = <<Frame(Top)>> /\ queue = <<>>
      /\ wdToPath = [i \in Inodes |-> None] /\ watchedDirs = {} /\ unheard = {}
      /\ files = {}
  BY DEF Init, Frame
<1>3. ToSet(scan) = {Frame(Top)} /\ ToSet(queue) = {}
  BY <1>2 DEF ToSet
<1>4. TreeRight
  <2>1. \A p \in Paths : Exists(p) => ~(Len(p) > 1)
    <3> TAKE p \in Paths
    <3> HAVE Exists(p)
    <3>1. Len(p) = 1
      BY <1>1 DEF FirstTree, Exists
    <3> QED
      BY <3>1
  <2>2. \A p, q \in Paths : Exists(p) /\ at[p] = at[q] => p = q
    BY <1>1 DEF FirstTree, Exists
  <2> QED
    BY <2>1, <2>2 DEF TreeRight
<1>5. PathsRight
  BY <1>2 DEF PathsRight
<1>6. Exists(Top)
  BY <1>1, PathFacts DEF FirstTree, Exists
<1>7. WorkRight
  BY <1>3, <1>6 DEF WorkRight, CallRight, Frame
<1>8. NoneMissed
  <2>1. Reaches(Frame(Top), Top)
    BY DEF Reaches, Frame
  <2> QED
    BY <1>2, <1>3, <2>1 DEF NoneMissed, Wanted, Pending
<1>9. AllHeard
  BY <1>2 DEF AllHeard
<1> QED
  BY <1>4, <1>5, <1>7, <1>8, <1>9 DEF Grown

\* A step takes no removal or move back, and a watcher that has returned stays so.
LEMMA NoWayBack ==
  ASSUME DInv, [Next]_vars
  PROVE  /\ gone \subseteq gone' /\ budget'["move"] <= budget["move"]
         /\ stage' = "run" => stage = "run"
         /\ budget["move"] \in Nat
<1> USE DEF Kinds
<1>1. budget["move"] \in Nat /\ \A k \in Kinds : Spend(k) => budget'["move"] <= budget["move"]
  <2>1. budget \in [Kinds -> Nat]
    BY DEF DInv, TypeOK
  <2> QED
    BY <2>1 DEF Spend
<1>2. CASE \/ \E p \in Paths : Mkdir(p) \/ Rmdir(p)
           \/ \E p \in Paths, f \in Files : WriteFile(p, f) \/ RemoveFile(p, f)
  <2>1. gone \subseteq gone' /\ \E k \in Kinds : Change(k)
    BY <1>2 DEF Mkdir, Rmdir, WriteFile, RemoveFile
  <2> QED
    BY <1>1, <2>1 DEF Change, ownVars
<1>3. CASE \E p, q \in Paths : Rename(p, q)
  <2>1. gone \subseteq gone' /\ Change("move")
    BY <1>3 DEF Rename
  <2> QED
    BY <1>1, <2>1 DEF Change, ownVars
<1>4. CASE Step
  <2>1. UNCHANGED <<gone, budget>> /\ stage = "run"
    BY <1>4 DEF Step, AddWatch, List, NextChild, AddReturn, ReadEvent, ReadFails, Stop,
                InAdd, Reading, fsVars
  <2> QED
    BY <1>1, <2>1
<1>5. CASE CallFails
  BY <1>1, <1>5 DEF CallFails, fsVars
<1>6. CASE Cancel \/ UNCHANGED vars
  BY <1>1, <1>6 DEF Cancel, vars, fsVars, ownVars
<1> QED
  BY <1>2, <1>3, <1>4, <1>5, <1>6 DEF Next

LEMMA StepGrown ==
  ASSUME DInv, GInv, [Next]_vars
  PROVE  GInv'
<1>1. budget'["move"] <= budget["move"] /\ budget["move"] \in Nat /\ Budget["move"] \in Nat
      /\ budget'["move"] \in Nat
  BY NoWayBack, StepInv, BoundAssumption DEF Kinds, DInv, TypeOK
<1>2. budget'["move"] <= Budget["move"]
  BY <1>1 DEF GInv
<1> SUFFICES ASSUME Growing', stage' = "run" PROVE Grown'
  BY <1>2 DEF GInv
<1>3. gone = {} /\ gone' = {} /\ stage = "run"
  BY NoWayBack DEF Growing
<1>4. budget["move"] = Budget["move"] /\ budget'["move"] = budget["move"]
  BY <1>1 DEF GInv, Growing
<1>5. Grown
  BY <1>3, <1>4 DEF GInv, Growing
<1>6. CASE \/ \E p \in Paths : Mkdir(p) \/ Rmdir(p)
           \/ \E p \in Paths, f \in Files : WriteFile(p, f) \/ RemoveFile(p, f)
  <2>1. \A p \in Paths : ~Rmdir(p)
    BY <1>3 DEF Rmdir
  <2> QED
    BY <1>5, <1>6, <2>1, MkdirGrows, WriteFileGrows, RemoveFileGrows
<1>7. CASE \E p, q \in Paths : Rename(p, q)
  <2>1. Spend("move") /\ budget \in [Kinds -> Nat] /\ "move" \in Kinds
    BY <1>7 DEF Rename, Change, DInv, TypeOK, Kinds
  <2>2. budget'["move"] = budget["move"] - 1
    BY <2>1 DEF Spend
  <2> QED
    BY <1>1, <1>4, <2>2
<1>8. CASE Step
  <2>1. ~ReadFails /\ ~Stop
    BY DEF ReadFails, Stop, Close
  <2> QED
    BY <1>5, <1>8, <2>1, AddWatchGrows, ListGrows, NextChildGrows, AddReturnGrows,
       ReadEventGrows DEF Step
<1>9. CASE CallFails
  BY <1>9 DEF CallFails, Close
<1>10. CASE Cancel \/ UNCHANGED vars
  BY <1>5, <1>10
  DEF Cancel, vars, fsVars, ownVars, Grown, TreeRight, PathsRight, WorkRight, CallRight,
      EventRight, NoneMissed, Wanted, Pending, Reaches, Announces, Backup, PathOf, AllHeard,
      FilePending, ReachesFile, AnnouncesFile, Exists
<1> QED
  BY <1>6, <1>7, <1>8, <1>9, <1>10 DEF Next

\* Of a set of paths that is not empty, one is no longer than any other.
LEMMA ShortestPath ==
  ASSUME NEW S \in SUBSET Paths, S # {}
  PROVE  \E p \in S : \A q \in S : Len(p) <= Len(q)
<1> DEFINE L == {Len(p) : p \in S}
<1>1. L \subseteq Nat /\ L # {}
  BY PathFacts
<1> HIDE DEF L
<1>2. PICK m \in L : \A n \in L : ~(<<n, m>> \in OpToRel(<, Nat))
  BY <1>1, NatLessThanWellFounded, WFMin, Zenon
<1>3. \A n \in L : ~(n < m)
  BY <1>1, <1>2 DEF OpToRel
<1>4. \A n \in L : m <= n
  BY <1>1, <1>3
<1> QED
  BY <1>4 DEF L

\* The directory of a visible one is visible.
LEMMA VisibleParent ==
  ASSUME Grown, NEW p \in Visible, p # Top
  PROVE  /\ Len(p) > 1 /\ Len(Parent(p)) < Len(p)
         /\ Parent(p) \in Visible /\ Plain(Last(p))
<1>1. /\ p \in Paths /\ p \in Seq(Names) /\ p # <<>> /\ Len(p) \in Nat \ {0}
      /\ Exists(p) /\ p[1] = Root /\ \A k \in DOMAIN p : Plain(p[k])
  BY PathFacts DEF Visible
<1>2. DOMAIN p = 1 .. Len(p)
  BY <1>1
<1>3. Len(p) > 1
  <2> SUFFICES ASSUME Len(p) = 1 PROVE p = Top
    <3>1. \A n \in Nat \ {0} : n > 1 \/ n = 1
      OBVIOUS
    <3> QED
      BY <1>1, <3>1, Zenon
  <2>1. Len(Top) = 1 /\ Top[1] = Root /\ Top \in Seq(Names)
    BY PathFacts
  <2>2. \A k \in 1 .. Len(p) : p[k] = Top[k]
    BY <1>1, <2>1
  <2> QED
    BY <1>1, <2>1, <2>2, SeqEqual
<1>4. /\ Parent(p) \in Seq(Names) /\ Len(Parent(p)) = Len(p) - 1
      /\ \A k \in 1 .. Len(p) - 1 : Parent(p)[k] = p[k]
  BY <1>1, FrontOf DEF Parent
<1>5. Plain(Last(p))
  BY <1>1, <1>2 DEF Last
<1>6. Parent(p) \in Paths /\ Exists(Parent(p))
  BY <1>1, <1>3, PathFacts DEF Grown, TreeRight
<1>7. Parent(p)[1] = Root /\ \A k \in DOMAIN Parent(p) : Plain(Parent(p)[k])
  <2>1. DOMAIN Parent(p) = 1 .. Len(p) - 1
    BY <1>4
  <2>2. 1 \in 1 .. Len(p) - 1 /\ \A k \in 1 .. Len(p) - 1 : k \in 1 .. Len(p)
    BY <1>1, <1>3
  <2> QED
    BY <1>1, <1>2, <1>4, <2>1, <2>2
<1>8. Len(Parent(p)) < Len(p)
  BY <1>1, <1>4
<1> QED
  BY <1>3, <1>5, <1>6, <1>7, <1>8 DEF Visible

\* With nothing pending, a shortest visible directory that is not watched would be
\* wanted.
LEMMA QuietWatched ==
  ASSUME DInv, Grown, Quiet
  PROVE  Visible \subseteq watchedDirs
<1>1. ToSet(scan) = {} /\ ToSet(queue) = {}
  BY DEF Quiet, ToSet
<1>2. \A p \in Wanted : p \in watchedDirs
  BY <1>1 DEF Grown, NoneMissed, Pending
<1> SUFFICES ASSUME Visible \ watchedDirs # {} PROVE FALSE
  OBVIOUS
<1>3. PICK p \in Visible \ watchedDirs : \A q \in Visible \ watchedDirs : Len(p) <= Len(q)
  <2>1. Visible \ watchedDirs \in SUBSET Paths
    BY DEF Visible
  <2> QED
    BY <2>1, ShortestPath
<1>4. p # Top
  BY <1>2, <1>3, PathFacts DEF Wanted
<1>5. /\ Len(p) > 1 /\ Len(Parent(p)) < Len(p)
      /\ Parent(p) \in Visible /\ Plain(Last(p))
  BY <1>3, <1>4, VisibleParent
<1>6. Len(p) \in Nat /\ Len(Parent(p)) \in Nat
  BY <1>3, <1>5, PathFacts DEF Visible
<1>7. Parent(p) \in watchedDirs
  BY <1>3, <1>5, <1>6
<1>8. p \in Wanted
  BY <1>3, <1>5, <1>7 DEF Wanted, Visible
<1> QED
  BY <1>2, <1>3, <1>8

THEOREM GrowthInvariance == Spec => [](DInv /\ GInv)
<1>1. Init => DInv /\ GInv
  <2>1. Init => budget["move"] <= Budget["move"]
    BY BoundAssumption DEF Init, Kinds
  <2> QED
    BY <2>1, InitInv, InitGrown DEF GInv
<1>2. DInv /\ GInv /\ [Next]_vars => (DInv /\ GInv)'
  BY StepInv, StepGrown
<1> QED
  BY <1>1, <1>2, PTL DEF Spec

\* Until a directory is removed or moved, a watcher that has caught up watches every
\* directory under the root that no heuristic passes over, however many were made
\* while add() was between its system calls, and however short the kernel's queue.
THEOREM GrowthWatched == Spec => [](Growing => AllWatched)
<1>1. DInv /\ GInv => (Growing => AllWatched)
  <2> SUFFICES ASSUME DInv, GInv, Growing, Quiet, NEW p \in Visible
               PROVE  at[p] \in watching /\ wdToPath[at[p]] = p
    BY DEF AllWatched
  <2>1. Grown
    BY DEF GInv, Quiet
  <2>2. p \in watchedDirs
    BY <2>1, QuietWatched
  <2> QED
    BY <2>1, <2>2 DEF Grown, PathsRight
<1> QED
  BY <1>1, GrowthInvariance, PTL

\* Until then it has also called back for every write to a file whose name, and whose
\* directories' names, no heuristic passes over: those before the watch on their
\* directory included.
THEOREM GrowthHeard == Spec => [](Growing => WritesHeard)
<1>1. DInv /\ GInv => (Growing => WritesHeard)
  <2> SUFFICES ASSUME DInv, GInv, Growing, Quiet, NEW p \in Visible,
                      NEW f \in Files, Plain(f)
               PROVE  <<at[p], f>> \notin unheard
    BY DEF WritesHeard
  <2>1. Grown
    BY DEF GInv, Quiet
  <2>2. p \in watchedDirs
    BY <2>1, QuietWatched
  <2>3. ToSet(scan) = {} /\ ToSet(queue) = {}
    BY DEF Quiet, ToSet
  <2> QED
    BY <2>1, <2>2, <2>3 DEF Grown, AllHeard, PlainFiles, FilePending
<1> QED
  BY <1>1, GrowthInvariance, PTL
================================================================================
