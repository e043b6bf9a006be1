---------------------------- MODULE DayReportProofs ----------------------------
(***************************************************************************)
(* What dayRow and Bar print, for any response that GetIntervals can give. *)
(***************************************************************************)
EXTENDS DayReport, IntervalsProofs, FoldLemmas

--------------------------------------------------------------------------------
(***************************************************************************)
(* Places in the bar                                                       *)
(***************************************************************************)
\* The quotient and the remainder by the number of bits in a character.
LEMMA Place ==
  ASSUME NEW b \in Nat \ {0}, NEW q \in Nat, NEW r \in 0 .. b - 1
  PROVE  (q * b + r) \div b = q /\ (q * b + r) % b = r
<1> DEFINE x == q * b + r
<1>1. x \in Nat /\ r \in Int
  OBVIOUS
<1>2. PICK d \in Int, m \in 0 .. b - 1 : x = d * b + m /\ x \div b = d /\ x % b = m
  <2> DEFINE d == x \div b
             m == x % b
  <2> HIDE DEF x
  <2>1. d \in Int /\ m \in 0 .. b - 1 /\ x = d * b + m
    BY <1>1
  <2> QED
    BY <2>1
<1>3. (d - q) * b = r - m
  BY <1>2
<1>4. r - m < b /\ m - r < b
  BY <1>2
<1>5. d <= q
  <2>1. SUFFICES ASSUME d - q >= 1 PROVE FALSE
    OBVIOUS
  <2>2. (d - q) * b >= b
    BY <1>1, <2>1
  <2> QED
    BY <1>3, <1>4, <2>2
<1>6. d >= q
  <2>1. SUFFICES ASSUME q - d >= 1 PROVE FALSE
    OBVIOUS
  <2>2. (q - d) * b >= b
    BY <1>1, <2>1
  <2>3. (q - d) * b = m - r
    BY <1>2
  <2> QED
    BY <1>4, <2>2, <2>3
<1> QED
  BY <1>2, <1>3, <1>5, <1>6

\* Every number has a quotient and a remainder.
LEMMA Places ==
  ASSUME NEW b \in Nat \ {0}, NEW x \in Nat
  PROVE  \E q \in Nat, r \in 0 .. b - 1 : x = q * b + r
<1> DEFINE d == x \div b
           m == x % b
<1>1. d \in Int /\ m \in 0 .. b - 1 /\ x = d * b + m
  OBVIOUS
<1>2. d >= 0
  <2>1. SUFFICES ASSUME d <= -1 PROVE FALSE
    BY <1>1
  <2> HIDE DEF d, m
  <2>2. d * b <= -b
    BY <1>1, <2>1
  <2> QED
    BY <1>1, <2>2
<1>3. d \in Nat
  BY <1>1, <1>2
<1> HIDE DEF d, m
<1> QED
  BY <1>1, <1>3

--------------------------------------------------------------------------------
(***************************************************************************)
(* The loop over the intervals                                             *)
(***************************************************************************)
\* The intervals of a bar: the last one may end before it begins.
Shade == [start : Nat, end : Int]
Shades == Seq(Shade)

LEMMA ShadeParts ==
  ASSUME NEW v \in Shades
  PROVE  /\ Len(v) \in Nat /\ DOMAIN v = 1 .. Len(v)
         /\ \A i \in 1 .. Len(v) : v[i] \in Shade /\ v[i].start \in Nat /\ v[i].end \in Int
<1>1. Len(v) \in Nat /\ DOMAIN v = 1 .. Len(v) /\ \A i \in 1 .. Len(v) : v[i] \in Shade
  BY DEF Shades
<1>2. \A i \in Shade : i.start \in Nat /\ i.end \in Int
  BY DEF Shade
<1> QED
  BY <1>1, <1>2

\* loop does what the loop over the intervals v does at the bit [cl, cr].
Loops(loop, v, cl, cr) ==
  \A o \in Loop :
    loop[o] = IF o.n > Len(v) \/ cr < v[o.n].start THEN o
              ELSE IF Meet(v, cl, cr, o).n = o.n THEN Meet(v, cl, cr, o)
                   ELSE loop[Meet(v, cl, cr, o)]

Enter(s) == [n |-> s.n, duration |-> 0, short |-> s.short, first |-> s.first]

LEMMA MeetType ==
  ASSUME NEW v \in Shades, NEW cl \in Int, NEW cr \in Int, NEW o \in Loop, o.n <= Len(v)
  PROVE  /\ Meet(v, cl, cr, o) \in Loop
         /\ Meet(v, cl, cr, o).n \in {o.n, o.n + 1}
         /\ o.n \in Nat /\ o.n \in 1 .. Len(v)
         /\ v[o.n].start \in Nat /\ v[o.n].end \in Int
<1>1. o.n \in Nat \ {0} /\ o.duration \in Int /\ o.short \in BOOLEAN /\ o.first \in BOOLEAN
  BY DEF Loop
<1>2. o.n \in 1 .. Len(v)
  BY <1>1, ShadeParts
<1>3. v[o.n].start \in Nat /\ v[o.n].end \in Int
  BY <1>2, ShadeParts
<1> DEFINE d == IF cl <= v[o.n].end
                THEN o.duration + (min(cr, v[o.n].end) - max(cl, v[o.n].start))
                ELSE o.duration
<1>4. d \in Int
  BY <1>1, <1>3 DEF min, max
<1>5. Meet(v, cl, cr, o).n \in Nat \ {0}
  BY <1>1 DEF Meet
<1>6. Meet(v, cl, cr, o) \in Loop
  BY <1>1, <1>4, <1>5 DEF Meet, Loop, Long
<1> QED
  BY <1>1, <1>2, <1>3, <1>6 DEF Meet

\* The recursion ends, because an interval is passed at each turn.
LEMMA LoopEnds ==
  ASSUME NEW v \in Shades, NEW cl \in Int, NEW cr \in Int
  PROVE  \E loop : /\ Loops(loop, v, cl, cr)
                   /\ \A s : Overlap(v, cl, cr, s) = loop[Enter(s)]
<1> DEFINE Turn(f, o) == IF o.n > Len(v) \/ cr < v[o.n].start THEN o
                         ELSE IF Meet(v, cl, cr, o).n = o.n THEN Meet(v, cl, cr, o)
                              ELSE f[Meet(v, cl, cr, o)]
           Late(k) == {o \in Loop : o.n + k > Len(v)}
           Solved(k) == \E f : f = [o \in Late(k) |-> f[o]]
                               /\ \A o \in Late(k) : f[o] = Turn(f, o)
           S == {k \in Nat : Solved(k)}
<1>1. Len(v) \in Nat
  BY DEF Shades
<1>2. 0 \in S
  <2> DEFINE f == [o \in Late(0) |-> o]
  <2>1. \A o \in Late(0) : f[o] = Turn(f, o)
    BY <1>1 DEF Loop
  <2>2. f = [o \in Late(0) |-> f[o]]
    OBVIOUS
  <2> HIDE DEF f, Late, Turn
  <2> QED
    BY <2>1, <2>2
<1>3. ASSUME NEW k \in Nat, k \in S
      PROVE  k + 1 \in S
  <2> HIDE DEF Turn
  <2>1. PICK f : f = [o \in Late(k) |-> f[o]] /\ \A o \in Late(k) : f[o] = Turn(f, o)
    BY <1>3
  <2> DEFINE g == [o \in Late(k + 1) |-> Turn(f, o)]
  <2>2. ASSUME NEW o \in Late(k + 1)
        PROVE  g[o] = Turn(g, o)
    <3>1. CASE o.n > Len(v) \/ cr < v[o.n].start
      BY <3>1 DEF Turn
    <3>2. CASE Meet(v, cl, cr, o).n = o.n
      BY <3>2 DEF Turn
    <3>3. CASE ~(o.n > Len(v) \/ cr < v[o.n].start) /\ Meet(v, cl, cr, o).n # o.n
      <4> DEFINE p == Meet(v, cl, cr, o)
      <4>1. o \in Loop /\ o.n + (k + 1) > Len(v) /\ o.n \in Nat
        BY DEF Loop
      <4>2. p \in Loop /\ p.n = o.n + 1
        BY <1>1, <3>3, <4>1, MeetType
      <4> HIDE DEF p
      <4>3. p \in Late(k) /\ p \in Late(k + 1)
        BY <1>1, <4>1, <4>2
      <4> HIDE DEF Late
      <4>4. g[p] = f[p]
        BY <2>1, <4>3
      <4>5. g[o] = f[p] /\ Turn(g, o) = g[p]
        BY <3>3 DEF Turn, p
      <4> QED
        BY <4>4, <4>5
    <3> QED
      BY <3>1, <3>2, <3>3
  <2>3. g = [o \in Late(k + 1) |-> g[o]]
    OBVIOUS
  <2> HIDE DEF g, Late
  <2>4. Solved(k + 1)
    BY <2>2, <2>3
  <2> QED
    BY <2>4
<1> DEFINE IsLoop(f) == f = [o \in Loop |-> Turn(f, o)]
           loop == CHOOSE f : IsLoop(f)
<1>4. \E f : IsLoop(f)
  <2> HIDE DEF S, Turn, Late
  <2>1. Len(v) \in S
    BY <1>1, <1>2, <1>3, NatSet
  <2>2. PICK f : f = [o \in Late(Len(v)) |-> f[o]] /\ \A o \in Late(Len(v)) : f[o] = Turn(f, o)
    BY <2>1 DEF S
  <2>3. Late(Len(v)) = Loop
    <3>1. \A o \in Loop : o.n \in Nat /\ o.n > 0
      BY DEF Loop
    <3> QED
      BY <1>1, <3>1 DEF Late
  <2>4. f = [o \in Loop |-> f[o]] /\ \A o \in Loop : f[o] = Turn(f, o)
    BY <2>2, <2>3
  <2>5. IsLoop(f)
    BY <2>4
  <2> QED
    BY <2>5
<1>5. IsLoop(loop)
  <2> HIDE DEF IsLoop
  <2> QED
    BY <1>4
<1>6. \A s : Overlap(v, cl, cr, s) = loop[Enter(s)]
  BY DEF Overlap, Enter
<1> HIDE DEF loop
<1>7. Loops(loop, v, cl, cr)
  BY <1>5 DEF Loops
<1> QED
  BY <1>6, <1>7

\* The second s.n - 1 intervals have been passed: they end before cl.
Behind(v, n, cl) == \A i \in DOMAIN v : i < n => v[i].end < cl

\* Most of the bit that begins at cl is covered.
Mostly(v, cl) == 2 * Cardinality({x \in cl .. cl + BitLen - 1 : Covers(v, x)}) > BitLen

\* The intervals are in order and apart, the last one cut perhaps.
Ordered(v) ==
  /\ v \in Shades
  /\ \A i \in 1 .. Len(v) - 1 : v[i].start < v[i].end
  /\ \A i, j \in 1 .. Len(v) : i < j => v[i].end + Gap < v[j].start

\* The outcome of the loop at a bit.
Met(v, cl, p) ==
  /\ p \in Loop
  /\ Behind(v, p.n, cl + BitLen)
  /\ 2 * p.duration > BitLen <=> Mostly(v, cl)

LEMMA LoopTyped ==
  ASSUME NEW v \in Shades, NEW cl \in Int, NEW cr \in Int, NEW loop, Loops(loop, v, cl, cr)
  PROVE  \A o \in Loop : loop[o] \in Loop
<1> DEFINE S == {k \in Nat : \A o \in Loop : o.n + k > Len(v) => loop[o] \in Loop}
<1>1. Len(v) \in Nat /\ \A o \in Loop : o.n \in Nat /\ o.n > 0
  BY DEF Shades, Loop
<1>2. 0 \in S
  BY <1>1 DEF Loops
<1>3. ASSUME NEW k \in Nat, k \in S
      PROVE  k + 1 \in S
  <2>1. ASSUME NEW o \in Loop, o.n + (k + 1) > Len(v)
        PROVE  loop[o] \in Loop
    <3>1. CASE o.n > Len(v) \/ cr < v[o.n].start
      BY <3>1 DEF Loops
    <3>2. CASE ~(o.n > Len(v) \/ cr < v[o.n].start)
      <4> DEFINE p == Meet(v, cl, cr, o)
      <4>1. p \in Loop /\ p.n \in {o.n, o.n + 1}
        BY <1>1, <3>2, MeetType
      <4>2. loop[o] = IF p.n = o.n THEN p ELSE loop[p]
        BY <3>2 DEF Loops
      <4> HIDE DEF p
      <4>3. p.n # o.n => p.n + k > Len(v)
        BY <1>1, <2>1, <4>1
      <4> QED
        BY <1>3, <4>1, <4>2, <4>3
    <3> QED
      BY <3>1, <3>2
  <2> QED
    BY <2>1
<1> HIDE DEF S
<1>4. Len(v) \in S
  BY <1>1, <1>2, <1>3, NatSet
<1> QED
  BY <1>1, <1>4 DEF S

\* No interval meets a bit when the next one begins after it.
LEMMA NoneMet ==
  ASSUME NEW v, Ordered(v), NEW cl \in Nat, NEW o \in Loop, Behind(v, o.n, cl),
         o.duration = 0, o.n > Len(v) \/ cl + BitLen < v[o.n].start
  PROVE  Met(v, cl, o)
<1>1. /\ Len(v) \in Nat /\ DOMAIN v = 1 .. Len(v)
      /\ \A i \in 1 .. Len(v) : v[i].start \in Nat /\ v[i].end \in Int
      /\ o.n \in Nat /\ o.n > 0
      /\ BitLen \in Nat /\ BitLen > 0 /\ BitLen <= Gap /\ Gap \in Nat
  <2>1. BitLen \in Nat /\ BitLen > 0 /\ BitLen <= Gap /\ Gap \in Nat
    BY BarAssumption, TimeAssumption
  <2> QED
    BY <2>1, ShadeParts DEF Ordered, Loop
<1>2. ASSUME NEW i \in 1 .. Len(v)
      PROVE  v[i].end < cl \/ v[i].start > cl + BitLen
  <2>1. CASE i < o.n
    BY <1>1, <2>1 DEF Behind
  <2>2. CASE i = o.n
    BY <1>1, <2>2
  <2>3. CASE i > o.n
    <3>1. o.n \in 1 .. Len(v) - 1 /\ o.n \in 1 .. Len(v)
      BY <1>1, <2>3
    <3>2. v[o.n].start < v[o.n].end /\ v[o.n].end + Gap < v[i].start
      BY <2>3, <3>1 DEF Ordered
    <3>3. cl + BitLen < v[o.n].start
      BY <1>1, <3>1
    <3> QED
      BY <1>1, <3>1, <3>2, <3>3
  <2> QED
    BY <1>1, <2>1, <2>2, <2>3
<1>3. {x \in cl .. cl + BitLen - 1 : Covers(v, x)} = {}
  BY <1>1, <1>2 DEF Covers
<1>4. ~Mostly(v, cl)
  <2>1. Cardinality({x \in cl .. cl + BitLen - 1 : Covers(v, x)}) = 0
    BY <1>3, FS_EmptySet
  <2> QED
    BY <1>1, <2>1 DEF Mostly
<1>5. Behind(v, o.n, cl + BitLen)
  BY <1>1 DEF Behind
<1>6. ~(2 * o.duration > BitLen)
  BY <1>1
<1> QED
  BY <1>4, <1>5, <1>6 DEF Met

\* The interval that meets a bit is the only one to do so.
LEMMA OneMet ==
  ASSUME NEW v, Ordered(v), NEW cl \in Nat, NEW o \in Loop, Behind(v, o.n, cl),
         o.duration = 0, o.n <= Len(v), v[o.n].start <= cl + BitLen, cl <= v[o.n].end
  PROVE  /\ Met(v, cl, Meet(v, cl, cl + BitLen, o))
         /\ Meet(v, cl, cl + BitLen, o).n # o.n =>
              \/ Meet(v, cl, cl + BitLen, o).n > Len(v)
              \/ cl + BitLen < v[Meet(v, cl, cl + BitLen, o).n].start
<1> DEFINE cr == cl + BitLen
           p == Meet(v, cl, cr, o)
           from == max(cl, v[o.n].start)
           to == min(cr, v[o.n].end)
           covered == {x \in cl .. cl + BitLen - 1 : Covers(v, x)}
<1>1. /\ Len(v) \in Nat /\ DOMAIN v = 1 .. Len(v)
      /\ \A i \in 1 .. Len(v) : v[i].start \in Nat /\ v[i].end \in Int
      /\ o.n \in 1 .. Len(v)
      /\ BitLen \in Nat /\ BitLen > 0 /\ BitLen <= Gap /\ Gap \in Nat
      /\ cr \in Nat
  <2>1. BitLen \in Nat /\ BitLen > 0 /\ BitLen <= Gap /\ Gap \in Nat
    BY BarAssumption, TimeAssumption
  <2>2. o.n \in Nat /\ o.n > 0
    BY DEF Loop
  <2> QED
    BY <2>1, <2>2, ShadeParts DEF Ordered
<1>2. /\ p \in Loop
      /\ p.n = IF cr <= v[o.n].end THEN o.n ELSE o.n + 1
      /\ p.duration = to - from
  <2>1. p \in Loop
    BY <1>1, MeetType DEF Ordered
  <2>2. to \in Int /\ from \in Int
    BY <1>1 DEF min, max
  <2> QED
    BY <2>1, <2>2 DEF Meet
<1>3. ASSUME NEW i \in 1 .. Len(v), i # o.n
      PROVE  v[i].end < cl \/ v[i].start > cr
  <2>1. CASE i < o.n
    BY <1>1, <2>1 DEF Behind
  <2>2. CASE i > o.n
    <3>1. v[o.n].end + Gap < v[i].start
      BY <1>1, <2>2 DEF Ordered
    <3> QED
      BY <1>1, <3>1
  <2> QED
    BY <1>1, <1>3, <2>1, <2>2
<1>4. from \in Int /\ to \in Int /\ cl <= from /\ to <= cr
      /\ \A x \in Int : from <= x /\ x < to
                          <=> cl <= x /\ x < cr /\ v[o.n].start <= x /\ x < v[o.n].end
  BY <1>1 DEF min, max
<1>5. \A x \in cl .. cl + BitLen - 1 : Covers(v, x) <=> v[o.n].start <= x /\ x < v[o.n].end
  <2>1. ASSUME NEW x \in cl .. cl + BitLen - 1, Covers(v, x)
        PROVE  v[o.n].start <= x /\ x < v[o.n].end
    <3>1. PICK i \in 1 .. Len(v) : v[i].start <= x /\ x < v[i].end
      BY <1>1, <2>1 DEF Covers
    <3>2. i = o.n
      BY <1>1, <1>3, <3>1
    <3> QED
      BY <3>1, <3>2
  <2>2. ASSUME NEW x, v[o.n].start <= x, x < v[o.n].end
        PROVE  Covers(v, x)
    BY <1>1, <2>2 DEF Covers
  <2> QED
    BY <2>1, <2>2
<1> HIDE DEF from, to, p
<1>6. covered = from .. to - 1
  <2>1. \A x \in covered : x \in from .. to - 1
    BY <1>1, <1>4, <1>5
  <2>2. \A x \in from .. to - 1 : x \in covered
    BY <1>1, <1>4, <1>5
  <2> QED
    BY <2>1, <2>2
<1>7. Cardinality(from .. to - 1) = IF from > to - 1 THEN 0 ELSE (to - 1) - from + 1
  BY <1>4, FS_Interval
<1>8. 2 * p.duration > BitLen <=> Mostly(v, cl)
  <2>1. Cardinality(covered) = IF from > to - 1 THEN 0 ELSE (to - 1) - from + 1
    BY <1>6, <1>7
  <2>2. Mostly(v, cl) <=> 2 * Cardinality(covered) > BitLen
    BY DEF Mostly
  <2> HIDE DEF covered
  <2> QED
    BY <1>1, <1>2, <1>4, <2>1, <2>2
<1>9. Behind(v, p.n, cr)
  BY <1>1, <1>2 DEF Behind
<1>10. p.n # o.n => p.n > Len(v) \/ cr < v[p.n].start
  <2>1. ASSUME p.n = o.n + 1, ~(p.n > Len(v))
        PROVE  cr < v[p.n].start
    <3>1. p.n \in 1 .. Len(v) /\ p.n # o.n /\ ~(p.n < o.n)
      BY <1>1, <2>1
    <3>2. o.n < p.n
      BY <1>1, <2>1
    <3>3. v[o.n].end + Gap < v[p.n].start
      BY <1>1, <3>1, <3>2 DEF Ordered
    <3> QED
      BY <1>1, <3>1, <3>3
  <2> QED
    BY <1>2, <2>1
<1> QED
  BY <1>2, <1>8, <1>9, <1>10 DEF Met, p

\* The loop over the intervals, from the first that may meet the bit.
LEMMA OverlapMet ==
  ASSUME NEW v, Ordered(v), NEW cl \in Nat, NEW s, Enter(s) \in Loop, Behind(v, s.n, cl)
  PROVE  Met(v, cl, Overlap(v, cl, cl + BitLen, s))
<1> DEFINE cr == cl + BitLen
<1>1. /\ v \in Shades /\ cr \in Int
      /\ Len(v) \in Nat /\ \A o \in Loop : o.n \in Nat /\ o.n > 0
  BY BarAssumption, ShadeParts DEF Ordered, Loop
<1>2. PICK loop : /\ Loops(loop, v, cl, cr)
                  /\ \A t : Overlap(v, cl, cr, t) = loop[Enter(t)]
  BY <1>1, LoopEnds
<1> DEFINE Ready(o) == o.duration = 0 /\ Behind(v, o.n, cl)
           S == {k \in Nat : \A o \in Loop : Ready(o) /\ o.n + k > Len(v) => Met(v, cl, loop[o])}
<1>3. ASSUME NEW o \in Loop, Ready(o), o.n > Len(v) \/ cr < v[o.n].start
      PROVE  Met(v, cl, loop[o])
  <2>1. loop[o] = o
    BY <1>2, <1>3 DEF Loops
  <2> QED
    BY <1>3, <2>1, NoneMet
<1>4. 0 \in S
  BY <1>1, <1>3
<1>5. ASSUME NEW k \in Nat, k \in S
      PROVE  k + 1 \in S
  <2>1. ASSUME NEW o \in Loop, Ready(o), o.n + (k + 1) > Len(v),
               ~(o.n > Len(v) \/ cr < v[o.n].start)
        PROVE  Met(v, cl, loop[o])
    <3> DEFINE p == Meet(v, cl, cr, o)
    <3>1. loop[o] = IF p.n = o.n THEN p ELSE loop[p]
      BY <1>2, <2>1 DEF Loops
    <3>2. /\ p \in Loop /\ p.n \in {o.n, o.n + 1}
          /\ o.n \in 1 .. Len(v) /\ v[o.n].start \in Nat /\ v[o.n].end \in Int
      BY <1>1, <2>1, MeetType
    <3>3. CASE cl <= v[o.n].end
      <4>1. /\ Met(v, cl, p)
            /\ p.n # o.n => p.n > Len(v) \/ cr < v[p.n].start
        BY <1>1, <2>1, <3>2, <3>3, OneMet
      <4>2. p.n # o.n => loop[p] = p
        BY <1>2, <3>2, <4>1 DEF Loops
      <4> QED
        BY <3>1, <4>1, <4>2
    <3>4. CASE ~(cl <= v[o.n].end)
      <4>1. BitLen \in Nat /\ BitLen > 0
        BY BarAssumption
      <4>2. p.duration = 0 /\ p.n = o.n + 1
        BY <2>1, <3>2, <3>4, <4>1 DEF Meet
      <4> HIDE DEF p
      <4>3. Behind(v, p.n, cl)
        <5>1. \A i \in DOMAIN v : i \in Nat
          BY <1>1, ShadeParts
        <5>2. \A i \in DOMAIN v : i < p.n => i < o.n \/ i = o.n
          BY <3>2, <4>2, <5>1
        <5> QED
          BY <2>1, <3>2, <3>4, <5>2 DEF Behind
      <4>4. p.n + k > Len(v)
        BY <1>1, <2>1, <3>2, <4>2
      <4>5. Met(v, cl, loop[p])
        BY <1>5, <3>2, <4>2, <4>3, <4>4
      <4> QED
        BY <3>1, <3>2, <4>2, <4>5
    <3> QED
      BY <3>3, <3>4
  <2>2. \A o \in Loop : Ready(o) /\ o.n + (k + 1) > Len(v) => Met(v, cl, loop[o])
    BY <1>3, <2>1
  <2> QED
    BY <2>2
<1> HIDE DEF S
<1>6. Len(v) \in S
  BY <1>1, <1>4, <1>5, NatSet
<1>7. Enter(s).n = s.n /\ Enter(s).duration = 0
  BY DEF Enter
<1>8. Enter(s).n \in Nat /\ Enter(s).n > 0
  BY <1>1
<1>9. Enter(s).n + Len(v) > Len(v)
  BY <1>1, <1>8
<1>10. Ready(Enter(s))
  BY <1>7
<1>11. Met(v, cl, loop[Enter(s)])
  BY <1>6, <1>9, <1>10 DEF S
<1> QED
  BY <1>2, <1>11

--------------------------------------------------------------------------------
(***************************************************************************)
(* The bits of a day                                                       *)
(***************************************************************************)
\* What Windows does at bit k of the day, and its locals.
Bit(v, morning, s, k) ==
  LET cl == morning + (k - 1) * BitLen
      o == Overlap(v, cl, cl + BitLen, s)
      window == Append(s.window, 2 * o.duration > BitLen)
  IN  IF k % CharBits = 0
      THEN [n |-> o.n, short |-> FALSE, first |-> TRUE, window |-> <<>>,
            chars |-> Append(s.chars, [bits |-> window, short |-> o.short])]
      ELSE [n |-> o.n, short |-> o.short, first |-> o.first,
            window |-> window, chars |-> s.chars]
NewWindow == [n |-> 1, short |-> FALSE, first |-> TRUE, window |-> <<>>, chars |-> <<>>]

Character == [bits : Seq(BOOLEAN), short : BOOLEAN]
WindowStates ==
  [n : Nat \ {0}, short : BOOLEAN, first : BOOLEAN, window : Seq(BOOLEAN),
   chars : Seq(Character)]
Bits == CharBits * Chars

LEMMA BarNumbers ==
  /\ BitLen \in Nat /\ BitLen > 0 /\ BitLen <= Gap /\ Gap \in Nat
  /\ CharBits \in Nat /\ CharBits > 0 /\ Chars \in Nat /\ Chars > 0
  /\ Bits \in Nat /\ Day = BitLen * Bits
  /\ Hour \in Nat /\ Gap < Hour
<1>1. /\ BitLen \in Nat /\ BitLen > 0 /\ BitLen <= Gap /\ Gap \in Nat
      /\ CharBits \in Nat /\ CharBits > 0 /\ Chars \in Nat /\ Chars > 0
      /\ Hour \in Nat /\ Gap < Hour
  BY BarAssumption, TimeAssumption
<1>2. Bits \in Nat /\ Day = BitLen * Bits
  BY <1>1 DEF Bits, Day
<1> QED
  BY <1>1, <1>2

LEMMA OverlapType ==
  ASSUME NEW v \in Shades, NEW cl \in Int, NEW cr \in Int, NEW s, Enter(s) \in Loop
  PROVE  Overlap(v, cl, cr, s) \in Loop
BY LoopEnds, LoopTyped

LEMMA EnterType ==
  ASSUME NEW s \in WindowStates
  PROVE  Enter(s) \in Loop
BY DEF WindowStates, Enter, Loop

LEMMA BitType ==
  ASSUME NEW v \in Shades, NEW morning \in Int, NEW k \in Nat, NEW s \in WindowStates
  PROVE  Bit(v, morning, s, k) \in WindowStates
<1> DEFINE cl == morning + (k - 1) * BitLen
           o == Overlap(v, cl, cl + BitLen, s)
           on == 2 * o.duration > BitLen
           window == Append(s.window, on)
           chars == Append(s.chars, [bits |-> window, short |-> o.short])
<1>1. cl \in Int /\ cl + BitLen \in Int
  BY BarNumbers
<1> HIDE DEF cl
<1>2. o \in Loop
  BY <1>1, EnterType, OverlapType
<1> HIDE DEF o
<1>3. o.n \in Nat \ {0} /\ o.duration \in Int /\ o.short \in BOOLEAN /\ o.first \in BOOLEAN
  BY <1>2 DEF Loop
<1>4. s.window \in Seq(BOOLEAN) /\ s.chars \in Seq(Character)
  BY DEF WindowStates
<1>5. on \in BOOLEAN
  OBVIOUS
<1> HIDE DEF on
<1>6. window \in Seq(BOOLEAN)
  BY <1>4, <1>5
<1> HIDE DEF window
<1>7. [bits |-> window, short |-> o.short] \in Character
  BY <1>3, <1>6 DEF Character
<1>8. chars \in Seq(Character)
  BY <1>4, <1>7
<1> HIDE DEF chars
<1>9. /\ [n |-> o.n, short |-> FALSE, first |-> TRUE, window |-> <<>>, chars |-> chars]
           \in WindowStates
      /\ [n |-> o.n, short |-> o.short, first |-> o.first, window |-> window,
          chars |-> s.chars] \in WindowStates
  BY <1>3, <1>4, <1>6, <1>8 DEF WindowStates
<1> QED
  BY <1>9 DEF Bit, cl, o, on, window, chars

\* w is how Windows goes through the bits of the day.
Renders(v, morning, w) ==
  /\ w \in [0 .. Bits -> WindowStates]
  /\ w[0] = NewWindow
  /\ \A k \in 1 .. Bits : w[k] = Bit(v, morning, w[k - 1], k)
  /\ Windows(v, morning) = w[Bits].chars

LEMMA WindowsTrace ==
  ASSUME NEW v \in Shades, NEW morning \in Int
  PROVE  \E w : Renders(v, morning, w)
<1> DEFINE n == CharBits * Chars
           t == [k \in 1 .. n |-> k]
           step == [k \in 1 .. n |-> [s \in WindowStates |-> Bit(v, morning, s, k)]]
           Folds(it) == it = [s \in SUBSET DOMAIN t |->
                                IF s = {} THEN NewWindow
                                ELSE Bit(v, morning, it[s \ {Max(s)}], t[Max(s)])]
           fold == CHOOSE it : Folds(it)
<1>1. Windows(v, morning) = fold[DOMAIN t].chars
  BY DEF Windows, FoldLeft, MapThenFoldSet, Bit, NewWindow
<1>2. n \in Nat /\ n = Bits
  BY BarNumbers DEF Bits
<1> HIDE DEF n
<1>3. DOMAIN t = 1 .. n /\ \A k \in 1 .. n : t[k] = k
  OBVIOUS
<1> HIDE DEF t
<1>4. NewWindow \in WindowStates
  BY DEF NewWindow, WindowStates
<1>5. step \in [1 .. n -> [WindowStates -> WindowStates]]
  BY <1>2, BitType
<1>6. \E it : Folds(it)
  <2>1. PICK it : Solves(it, n, WindowStates, NewWindow, step)
    <3> HIDE DEF step
    <3> QED
      BY <1>2, <1>4, <1>5, FoldExists
  <2>2. ASSUME NEW s \in SUBSET (1 .. n), s # {}
        PROVE  it[s] = Bit(v, morning, it[s \ {Max(s)}], t[Max(s)])
    <3>1. Max(s) \in 1 .. n /\ s \ {Max(s)} \in SUBSET (1 .. n)
      BY <1>2, <2>2, MaxIn
    <3>2. it[s \ {Max(s)}] \in WindowStates
      BY <2>1, <3>1 DEF Solves
    <3>3. it[s] = step[Max(s)][it[s \ {Max(s)}]]
      BY <2>1, <2>2 DEF Solves
    <3> QED
      BY <1>3, <3>1, <3>2, <3>3
  <2>3. Folds(it)
    BY <1>3, <2>1, <2>2 DEF Solves
  <2> QED
    BY <2>3
<1>7. Folds(fold)
  <2> HIDE DEF Folds
  <2> QED
    BY <1>6
<1> HIDE DEF fold
<1>8. /\ fold[1 .. 0] = NewWindow
      /\ \A k \in 1 .. n : fold[1 .. k] = Bit(v, morning, fold[1 .. k - 1], k)
  <2>1. 1 .. 0 = {}
    OBVIOUS
  <2>2. fold[{}] = NewWindow
    BY <1>7
  <2>3. ASSUME NEW k \in 1 .. n
        PROVE  fold[1 .. k] = Bit(v, morning, fold[1 .. k - 1], k)
    <3>1. /\ 1 .. k \in SUBSET (1 .. n) /\ 1 .. k # {}
          /\ Max(1 .. k) = k
          /\ (1 .. k) \ {Max(1 .. k)} = 1 .. k - 1
      BY <1>2, MaxPrefix
    <3>2. fold[1 .. k] = Bit(v, morning, fold[(1 .. k) \ {Max(1 .. k)}], t[Max(1 .. k)])
      BY <1>3, <1>7, <3>1, Zenon
    <3>3. t[Max(1 .. k)] = k
      BY <1>3, <3>1
    <3> QED
      BY <3>1, <3>2, <3>3
  <2> QED
    BY <2>1, <2>2, <2>3
<1>9. \A k \in 1 .. n : fold[1 .. k - 1] \in WindowStates =>
                          fold[1 .. k] = step[k][fold[1 .. k - 1]]
  BY <1>8
<1> HIDE DEF step
<1>10. PICK w : Steps(w, n, WindowStates, NewWindow, step, fold[1 .. n])
  BY <1>2, <1>4, <1>5, <1>8, <1>9, FoldPrefixes
<1>11. ASSUME NEW k \in 1 .. n
       PROVE  w[k] = Bit(v, morning, w[k - 1], k)
  <2>1. w[k - 1] \in WindowStates
    BY <1>2, <1>10 DEF Steps
  <2> QED
    BY <1>10, <2>1 DEF Steps, step
<1>12. Renders(v, morning, w)
  BY <1>1, <1>2, <1>3, <1>10, <1>11 DEF Steps, Renders
<1> QED
  BY <1>12

\* The character that a bit belongs to, and its place there.
LEMMA CharacterOf ==
  ASSUME NEW k \in Nat, NEW q \in Nat, NEW r \in Nat, k = q * CharBits + r, r < CharBits
  PROVE  k \div CharBits = q /\ k % CharBits = r
<1>1. CharBits \in Nat \ {0} /\ r \in 0 .. CharBits - 1
  BY BarNumbers
<1> QED
  BY <1>1, Place

LEMMA NextPlace ==
  ASSUME NEW k \in Nat, NEW q \in Nat, NEW r \in Nat, q * CharBits + r = k, r < CharBits
  PROVE  /\ r + 1 < CharBits => q * CharBits + (r + 1) = k + 1 /\ (k + 1) % CharBits = r + 1
         /\ r + 1 = CharBits => (q + 1) * CharBits = k + 1 /\ (k + 1) % CharBits = 0
<1>1. CharBits \in Nat /\ CharBits > 0
  BY BarNumbers
<1>2. q * CharBits + (r + 1) = k + 1
  BY <1>1
<1>3. r + 1 = CharBits => (q + 1) * CharBits = k + 1
  BY <1>1
<1>4. r + 1 < CharBits => (k + 1) % CharBits = r + 1
  BY <1>2, CharacterOf
<1>5. ASSUME r + 1 = CharBits
      PROVE  (k + 1) % CharBits = 0
  <2>1. k + 1 = (q + 1) * CharBits + 0 /\ q + 1 \in Nat /\ k + 1 \in Nat
    BY <1>1, <1>3, <1>5
  <2> QED
    BY <1>1, <2>1, CharacterOf
<1> QED
  BY <1>2, <1>3, <1>4, <1>5

\* Bit m of the day (from 0) is mostly covered.
RightBit(v, morning, m) == Mostly(v, morning + m * BitLen)

\* The first k bits of the day are right, in their characters and in the window.
RightChars(v, morning, chars) ==
  \A i \in 1 .. Len(chars), j \in 1 .. CharBits :
    chars[i].bits[j] <=> RightBit(v, morning, (i - 1) * CharBits + (j - 1))
RightWindow(v, morning, q, window) ==
  \A j \in 1 .. Len(window) : window[j] <=> RightBit(v, morning, q * CharBits + (j - 1))
Drawing(v, morning, s, k) ==
  /\ Behind(v, s.n, morning + k * BitLen)
  /\ Len(s.chars) * CharBits + Len(s.window) = k
  /\ Len(s.window) < CharBits
  /\ RightChars(v, morning, s.chars)
  /\ RightWindow(v, morning, Len(s.chars), s.window)

LEMMA NextBit ==
  ASSUME NEW v, NEW morning, NEW q \in Nat, NEW window \in Seq(BOOLEAN), NEW on \in BOOLEAN,
         RightWindow(v, morning, q, window),
         on <=> RightBit(v, morning, q * CharBits + Len(window))
  PROVE  RightWindow(v, morning, q, Append(window, on))
<1> DEFINE w == Append(window, on)
<1>1. /\ Len(window) \in Nat /\ Len(w) = Len(window) + 1
      /\ \A j \in 1 .. Len(window) : w[j] = window[j]
      /\ w[Len(window) + 1] = on
  OBVIOUS
<1> HIDE DEF w
<1>2. ASSUME NEW j \in 1 .. Len(w)
      PROVE  w[j] <=> RightBit(v, morning, q * CharBits + (j - 1))
  <2>1. CASE j \in 1 .. Len(window)
    BY <1>1, <2>1 DEF RightWindow
  <2>2. CASE j = Len(window) + 1
    <3>1. j - 1 = Len(window)
      BY <1>1, <2>2
    <3> QED
      BY <1>1, <2>2, <3>1
  <2> QED
    BY <1>1, <2>1, <2>2
<1> QED
  BY <1>2 DEF RightWindow, w

LEMMA NextCharacter ==
  ASSUME NEW v, NEW morning, NEW chars \in Seq(Character), NEW ch \in Character,
         RightChars(v, morning, chars), Len(ch.bits) = CharBits,
         RightWindow(v, morning, Len(chars), ch.bits)
  PROVE  RightChars(v, morning, Append(chars, ch))
<1> DEFINE a == Append(chars, ch)
<1>1. /\ Len(chars) \in Nat /\ Len(a) = Len(chars) + 1
      /\ \A i \in 1 .. Len(chars) : a[i] = chars[i]
      /\ a[Len(chars) + 1] = ch
  OBVIOUS
<1> HIDE DEF a
<1>2. ASSUME NEW i \in 1 .. Len(a), NEW j \in 1 .. CharBits
      PROVE  a[i].bits[j] <=> RightBit(v, morning, (i - 1) * CharBits + (j - 1))
  <2>1. CASE i \in 1 .. Len(chars)
    BY <1>1, <2>1 DEF RightChars
  <2>2. CASE i = Len(chars) + 1
    <3>1. i - 1 = Len(chars) /\ a[i] = ch
      BY <1>1, <2>2
    <3> QED
      BY <3>1 DEF RightWindow
  <2> QED
    BY <1>1, <2>1, <2>2
<1> QED
  BY <1>2 DEF RightChars, a

\* One more bit.
LEMMA BitDrawn ==
  ASSUME NEW v, Ordered(v), NEW morning \in Nat, NEW k \in Nat, NEW s \in WindowStates,
         Drawing(v, morning, s, k)
  PROVE  Drawing(v, morning, Bit(v, morning, s, k + 1), k + 1)
<1> DEFINE cl == morning + k * BitLen
           o == Overlap(v, cl, cl + BitLen, s)
           on == 2 * o.duration > BitLen
           window == Append(s.window, on)
           ch == [bits |-> window, short |-> o.short]
           q == Len(s.chars)
           r == Len(s.window)
<1>1. /\ s.window \in Seq(BOOLEAN) /\ s.chars \in Seq(Character)
      /\ q \in Nat /\ r \in Nat /\ q * CharBits + r = k /\ r < CharBits
  BY DEF WindowStates, Drawing
<1>2. cl \in Nat /\ cl + BitLen = morning + (k + 1) * BitLen /\ (k + 1) - 1 = k
  BY BarNumbers
<1>3. Met(v, cl, o)
  <2>1. cl \in Nat /\ Enter(s) \in Loop /\ Behind(v, s.n, cl)
    BY <1>2, EnterType DEF Drawing
  <2> HIDE DEF cl
  <2> QED
    BY <2>1, OverlapMet
<1>4. Bit(v, morning, s, k + 1) =
        IF (k + 1) % CharBits = 0
        THEN [n |-> o.n, short |-> FALSE, first |-> TRUE, window |-> <<>>,
              chars |-> Append(s.chars, ch)]
        ELSE [n |-> o.n, short |-> o.short, first |-> o.first,
              window |-> window, chars |-> s.chars]
  <2> HIDE DEF cl, window
  <2>1. morning + ((k + 1) - 1) * BitLen = cl
    BY <1>2 DEF cl
  <2> QED
    BY <2>1 DEF Bit, window
<1>5. on \in BOOLEAN /\ (on <=> RightBit(v, morning, q * CharBits + r))
  <2>1. on <=> Mostly(v, cl)
    BY <1>3 DEF Met
  <2> QED
    BY <1>1, <2>1 DEF RightBit
<1>6. Behind(v, o.n, morning + (k + 1) * BitLen) /\ o \in Loop
  BY <1>2, <1>3 DEF Met
<1> HIDE DEF o, on, cl
<1>7. /\ window \in Seq(BOOLEAN) /\ Len(window) = r + 1
      /\ RightWindow(v, morning, q, window)
  BY <1>1, <1>5, NextBit DEF Drawing
<1> HIDE DEF window
<1>8. CASE r + 1 < CharBits
  <2>1. q * CharBits + (r + 1) = k + 1 /\ (k + 1) % CharBits = r + 1
    BY <1>1, <1>8, NextPlace
  <2>2. (k + 1) % CharBits # 0
    BY <1>1, <2>1
  <2> DEFINE b == Bit(v, morning, s, k + 1)
  <2>3. b = [n |-> o.n, short |-> o.short, first |-> o.first,
             window |-> window, chars |-> s.chars]
    BY <1>1, <1>4, <2>2
  <2>4. b.n = o.n /\ b.window = window /\ b.chars = s.chars
    BY <2>3
  <2> HIDE DEF b
  <2>5. Len(b.chars) * CharBits + Len(b.window) = k + 1 /\ Len(b.window) < CharBits
    BY <1>1, <1>7, <1>8, <2>1, <2>4
  <2>6. Drawing(v, morning, b, k + 1)
    BY <1>6, <1>7, <2>4, <2>5 DEF Drawing
  <2> QED
    BY <2>6 DEF b
<1>9. CASE r + 1 = CharBits
  <2>1. (q + 1) * CharBits = k + 1
    BY <1>1, <1>9, NextPlace
  <2>2. (k + 1) % CharBits = 0
    BY <1>1, <1>9, NextPlace
  <2> DEFINE chars == Append(s.chars, ch)
             b == Bit(v, morning, s, k + 1)
  <2>3. b = [n |-> o.n, short |-> FALSE, first |-> TRUE, window |-> <<>>, chars |-> chars]
    BY <1>4, <2>2
  <2>4. b.n = o.n /\ b.window = <<>> /\ b.chars = chars
    BY <2>3
  <2> HIDE DEF b
  <2>5. ch \in Character /\ ch.bits = window
    BY <1>6, <1>7 DEF Character, Loop
  <2> HIDE DEF ch
  <2>6. RightChars(v, morning, chars)
    BY <1>1, <1>7, <1>9, <2>5, NextCharacter DEF Drawing
  <2>7. Len(chars) = q + 1
    BY <1>1, <2>5
  <2> HIDE DEF chars, q
  <2>8. Len(b.chars) * CharBits + Len(b.window) = k + 1 /\ Len(b.window) < CharBits
    BY <1>1, <2>1, <2>4, <2>7, BarNumbers
  <2>9. RightWindow(v, morning, Len(b.chars), b.window)
    BY <2>4 DEF RightWindow
  <2>10. Drawing(v, morning, b, k + 1)
    BY <1>6, <2>4, <2>6, <2>8, <2>9 DEF Drawing
  <2> QED
    BY <2>10 DEF b
<1> QED
  BY <1>1, <1>8, <1>9, BarNumbers

\* Every bit of the day is on if it is mostly covered.
LEMMA BitsRight ==
  ASSUME NEW v, Ordered(v), NEW morning \in Nat, NEW k \in 1 .. Bits
  PROVE  Windows(v, morning)[((k - 1) \div CharBits) + 1].bits[((k - 1) % CharBits) + 1]
           <=> RightBit(v, morning, k - 1)
<1>1. v \in Shades /\ morning \in Int /\ Bits \in Nat
  BY BarNumbers DEF Ordered
<1>2. PICK w : Renders(v, morning, w)
  BY <1>1, WindowsTrace
<1> DEFINE S == {m \in Nat : m <= Bits => Drawing(v, morning, w[m], m)}
<1>3. 0 \in S
  <2>1. Drawing(v, morning, NewWindow, 0)
    <3>1. \A i \in DOMAIN v : ~(i < 1)
      BY <1>1, ShadeParts
    <3>2. NewWindow.n = 1 /\ NewWindow.window = <<>> /\ NewWindow.chars = <<>>
      BY DEF NewWindow
    <3> QED
      BY <3>1, <3>2, BarNumbers DEF Drawing, Behind, RightChars, RightWindow
  <2> QED
    BY <1>2, <2>1 DEF Renders
<1>4. ASSUME NEW m \in Nat, m \in S
      PROVE  m + 1 \in S
  <2>1. SUFFICES ASSUME m + 1 <= Bits PROVE Drawing(v, morning, w[m + 1], m + 1)
    OBVIOUS
  <2>2. m + 1 \in 1 .. Bits /\ (m + 1) - 1 = m /\ m \in 0 .. Bits /\ m <= Bits
    BY <1>1, <2>1
  <2>3. w[m + 1] = Bit(v, morning, w[m], m + 1) /\ w[m] \in WindowStates
    BY <1>2, <2>2 DEF Renders
  <2> QED
    BY <1>4, <2>2, <2>3, BitDrawn
<1> HIDE DEF S
<1>5. Bits \in S
  BY <1>1, <1>3, <1>4, NatSet
<1> DEFINE s == w[Bits]
<1>6. Drawing(v, morning, s, Bits) /\ s \in WindowStates /\ Windows(v, morning) = s.chars
  BY <1>1, <1>2, <1>5 DEF Renders, S
<1> HIDE DEF s
<1>7. Len(s.chars) \in Nat /\ Len(s.window) \in Nat
  BY <1>6 DEF WindowStates
<1>8. Len(s.chars) = Chars
  <2>1. Bits = Len(s.chars) * CharBits + Len(s.window) /\ Len(s.window) < CharBits
    BY <1>6 DEF Drawing
  <2>2. Bits \div CharBits = Len(s.chars)
    BY <1>1, <1>7, <2>1, CharacterOf
  <2>3. Bits = Chars * CharBits + 0
    BY BarNumbers DEF Bits
  <2>4. Bits \div CharBits = Chars
    BY <1>1, <2>3, BarNumbers, CharacterOf
  <2> QED
    BY <2>2, <2>4
<1>9. PICK q \in Nat, r \in 0 .. CharBits - 1 : k - 1 = q * CharBits + r
  <2>1. k - 1 \in Nat /\ CharBits \in Nat \ {0}
    BY <1>1, BarNumbers
  <2> QED
    BY <2>1, Places
<1>10. (k - 1) \div CharBits = q /\ (k - 1) % CharBits = r
  <2>1. k - 1 \in Nat /\ r \in Nat /\ r < CharBits
    BY <1>1, BarNumbers
  <2> QED
    BY <1>9, <2>1, CharacterOf
<1>11. q < Chars
  <2>1. SUFFICES ASSUME q >= Chars PROVE FALSE
    BY <1>9, BarNumbers
  <2>2. q * CharBits >= Chars * CharBits
    BY <2>1, BarNumbers
  <2>3. k - 1 < Chars * CharBits
    BY BarNumbers DEF Bits
  <2> QED
    BY <1>9, <2>2, <2>3, BarNumbers
<1>12. q + 1 \in 1 .. Len(s.chars) /\ r + 1 \in 1 .. CharBits
       /\ (q + 1) - 1 = q /\ (r + 1) - 1 = r
  BY <1>8, <1>9, <1>11, BarNumbers
<1>13. s.chars[q + 1].bits[r + 1] <=> RightBit(v, morning, q * CharBits + r)
  BY <1>6, <1>12 DEF Drawing, RightChars
<1> QED
  BY <1>6, <1>9, <1>10, <1>13

--------------------------------------------------------------------------------
(***************************************************************************)
(* The response that dayRow has                                            *)
(***************************************************************************)
\* The intervals and EndGap of a response.
RowOK(resp) ==
  /\ resp.intervals \in Seq(Interval)
  /\ Apart(resp.intervals)
  /\ resp.endGap \in Nat
  /\ resp.endGap > 0 => resp.endGap < Gap

LEMMA ReportOK ==
  ASSUME IInv, [Next]_vars, Reports
  PROVE  RowOK(Row) /\ c.l \in Nat /\ c.r \in Nat /\ c.r - c.l = Day
<1>1. Finish
  BY OnlyFinish DEF Reports
<1>2. /\ phase = "rows"
      /\ Collected(Final, FinalTicks)
      /\ response' = [intervals |-> WithInterval(Final), endGap |-> FinalGap]
  BY <1>1, FinishStep
<1>3. WithInterval(Final) \in Seq(Interval) /\ Apart(WithInterval(Final))
  BY <1>2, CloseInterval
<1>4. now \in Nat /\ prevT \in Nat /\ prevT <= now /\ Gap \in Nat
  BY <1>2, RowsRead, TimesAfterGap
<1>5. FinalGap \in Nat /\ (FinalGap > 0 => FinalGap < Gap)
  BY <1>4 DEF FinalGap, Ongoing
<1>6. c.l \in Nat /\ c.r \in Nat
  BY CollectorParts DEF IInv, Types
<1> QED
  BY <1>2, <1>3, <1>5, <1>6 DEF RowOK, Row, Reports

LEMMA IntervalParts ==
  ASSUME NEW v \in Seq(Interval)
  PROVE  /\ Len(v) \in Nat /\ DOMAIN v = 1 .. Len(v)
         /\ \A i \in 1 .. Len(v) : v[i] \in Interval /\ v[i].start \in Nat /\ v[i].end \in Nat
<1>1. Len(v) \in Nat /\ DOMAIN v = 1 .. Len(v) /\ \A i \in 1 .. Len(v) : v[i] \in Interval
  OBVIOUS
<1>2. \A i \in Interval : i.start \in Nat /\ i.end \in Nat
  BY DEF Interval
<1> QED
  BY <1>1, <1>2

\* What the bar shows: EndGap is shorter than the gap before the last interval.
LEMMA ShownOrdered ==
  ASSUME NEW resp, RowOK(resp), ~Panics(resp), NEW e \in BOOLEAN
  PROVE  Ordered(Shown(resp, e)) /\ Len(Shown(resp, e)) = Len(resp.intervals)
<1> DEFINE v == resp.intervals
           g == resp.endGap
           u == Shown(resp, e)
           n == Len(v)
           shade == [v[n] EXCEPT !.end = @ - g]
<1>1. /\ v \in Seq(Interval) /\ Apart(v) /\ g \in Nat /\ (g > 0 => g < Gap)
      /\ Gap \in Nat
  BY BarNumbers DEF RowOK
<1>2. /\ n \in Nat /\ DOMAIN v = 1 .. n
      /\ \A i \in 1 .. n : v[i] \in Interval /\ v[i].start \in Nat /\ v[i].end \in Nat
  BY <1>1, IntervalParts
<1>3. /\ \A i \in 1 .. n : v[i].start < v[i].end
      /\ \A i, j \in 1 .. n : i < j => v[i].end + Gap < v[j].start
  BY <1>1, <1>2 DEF Apart
<1>4. v \in Shades
  <2>1. Interval \subseteq Shade
    BY DEF Interval, Shade
  <2>2. v \in Seq(Shade)
    BY <1>1, <2>1
  <2> QED
    BY <2>2 DEF Shades
<1>5. CASE ~(g > 0 /\ ~e)
  <2>1. u = v
    BY <1>5 DEF Shown
  <2> HIDE DEF u, v
  <2>2. Ordered(u) /\ Len(u) = n
    BY <1>2, <1>3, <1>4, <2>1 DEF Ordered
  <2> QED
    BY <2>2 DEF u, v
<1>6. CASE g > 0 /\ ~e
  <2>1. u = [v EXCEPT ![n] = shade]
    BY <1>6 DEF Shown
  <2>2. n \in 1 .. n
    <3>1. v # <<>>
      BY <1>6 DEF Panics
    <3> QED
      BY <1>1, <3>1
  <2>3. shade \in Shade /\ shade.start = v[n].start /\ shade.end = v[n].end - g
    <3>1. v[n] \in Interval
      BY <1>2, <2>2
    <3> QED
      BY <1>1, <1>2, <2>2, <3>1 DEF Interval, Shade
  <2> HIDE DEF u, v, shade
  <2>4. u \in Shades /\ Len(u) = n
    <3>1. v \in Seq(Shade)
      BY <1>4 DEF Shades
    <3>2. u \in Seq(Shade) /\ Len(u) = n
      BY <2>1, <2>2, <2>3, <3>1
    <3> QED
      BY <3>2 DEF Shades
  <2>5. u[n] = shade /\ \A i \in 1 .. n : i # n => u[i] = v[i]
    BY <1>2, <2>1, <2>2
  <2>6. \A i \in 1 .. n : u[i].start = v[i].start
    BY <2>3, <2>5
  <2>7. \A i \in 1 .. n - 1 : i \in 1 .. n /\ i # n
    <3>1. \A m \in Nat : \A i \in 1 .. m - 1 : i \in 1 .. m /\ i # m
      OBVIOUS
    <3> QED
      BY <1>2, <3>1
  <2>8. \A i \in 1 .. n - 1 : u[i].start < u[i].end
    BY <1>3, <2>5, <2>7
  <2>9. ASSUME NEW i \in 1 .. n, NEW j \in 1 .. n, i < j
        PROVE  u[i].end + Gap < u[j].start
    <3>1. i # n
      BY <1>2, <2>9
    <3>2. u[i] = v[i] /\ u[j].start = v[j].start
      BY <2>5, <2>6, <3>1
    <3> QED
      BY <1>3, <2>9, <3>2
  <2>10. Ordered(u)
    BY <2>4, <2>8, <2>9 DEF Ordered
  <2> QED
    BY <2>4, <2>10 DEF u, v
<1> QED
  BY <1>5, <1>6

\* A bit of the bar is on if most of it is covered by the intervals shown: for
\* any number and length of the bits, as long as a bit is no longer than the gap
\* that keeps two intervals apart, and for any response.
THEOREM BitsCorrect == Spec => BitsAreCovered
<1> DEFINE Right ==
      \A includeEndGap \in BOOLEAN :
        LET v == Shown(Row, includeEndGap)
            chars == Windows(v, c.l)
            covered(k) == {x \in c.l + (k - 1) * BitLen .. c.l + k * BitLen - 1 : Covers(v, x)}
        IN  \A k \in 1 .. CharBits * Chars :
              chars[((k - 1) \div CharBits) + 1].bits[((k - 1) % CharBits) + 1]
                <=> 2 * Cardinality(covered(k)) > BitLen
<1>1. ASSUME IInv, [Next]_vars, Reports, ~Panics(Row)
      PROVE  Right
  <2>1. ASSUME NEW e \in BOOLEAN, NEW k \in 1 .. CharBits * Chars
        PROVE  Windows(Shown(Row, e), c.l)[((k - 1) \div CharBits) + 1].bits[((k - 1) % CharBits) + 1]
                 <=> 2 * Cardinality({x \in c.l + (k - 1) * BitLen .. c.l + k * BitLen - 1 :
                                        Covers(Shown(Row, e), x)}) > BitLen
    <3>1. RowOK(Row) /\ c.l \in Nat
      BY <1>1, ReportOK
    <3>2. Ordered(Shown(Row, e))
      BY <1>1, <3>1, ShownOrdered
    <3>3. k \in 1 .. Bits /\ k \in Nat
      BY <2>1, BarNumbers DEF Bits
    <3>4. Windows(Shown(Row, e), c.l)[((k - 1) \div CharBits) + 1].bits[((k - 1) % CharBits) + 1]
            <=> RightBit(Shown(Row, e), c.l, k - 1)
      BY <3>1, <3>2, <3>3, BitsRight
    <3>5. (c.l + (k - 1) * BitLen) + BitLen - 1 = c.l + k * BitLen - 1
      <4>1. \A l, m, b \in Nat : (l + (m - 1) * b) + b - 1 = l + m * b - 1
        OBVIOUS
      <4> QED
        BY <3>1, <3>3, <4>1, BarNumbers
    <3> QED
      BY <3>4, <3>5 DEF RightBit, Mostly
  <2> QED
    BY <2>1
<1>2. IInv /\ [Next]_vars => [Reports /\ ~Panics(Row) => Right]_vars
  BY <1>1
<1> QED
  BY <1>2, Invariance, PTL DEF Spec, BitsAreCovered

--------------------------------------------------------------------------------
(***************************************************************************)
(* The colours                                                             *)
(***************************************************************************)
Colours == {"default", "bar", "barDark", "short", "shortDark"}
Drawn == [block : {"off", "full", "part"}, fg : Colours, mark : BOOLEAN, short : BOOLEAN]
Bars == [size : Nat, onMark : BOOLEAN, fg : Colours, short : BOOLEAN, drawn : Seq(Drawn)]

Painted(t) == FoldLeft(Put, NewBar, t)

\* Until the first colour is written no mark is on and no short block was drawn;
\* after it the foreground is the colour that the bar remembers.
Inked(b) ==
  /\ b.fg = "default" => /\ ~b.onMark /\ ~b.short
                         /\ \A j \in 1 .. Len(b.drawn) : b.drawn[j].fg = "default"
  /\ b.fg # "default" => b.fg = Colour(b.onMark, b.short)

\* Block k of drawn has its colour.
Follows(drawn, k) ==
  drawn[k].block # "off" =>
    \/ drawn[k].fg = Colour(drawn[k].mark, drawn[k].short)
    \/ \A j \in 1 .. k : drawn[j].fg = "default"
Coloured(b) == Inked(b) /\ \A k \in 1 .. Len(b.drawn) : Follows(b.drawn, k)

\* What put draws, and what it remembers.
LEMMA PutParts ==
  ASSUME NEW b \in Bars, NEW ch \in Character
  PROVE  \E d \in Drawn :
           LET p == Put(b, ch)
           IN  /\ p \in Bars
               /\ p.drawn = Append(b.drawn, d)
               /\ p.fg = d.fg /\ p.onMark = d.mark
               /\ \/ d.fg = Colour(d.mark, ch.short) /\ p.short = ch.short
                  \/ /\ d.fg = b.fg /\ p.short = b.short /\ b.onMark = d.mark
                     /\ d.block = "off" \/ ch.short = b.short
               /\ d.short = ch.short
<1> DEFINE block == Block(ch.bits)
           mark == b.size > 0 /\ b.size % MarkEvery = 0
           changeFG == b.onMark # mark \/ (block # "off" /\ b.short # ch.short)
           fg == IF changeFG THEN Colour(mark, ch.short) ELSE b.fg
           short == IF changeFG THEN ch.short ELSE b.short
           d == [block |-> block, fg |-> fg, mark |-> mark, short |-> ch.short]
           p == [size |-> b.size + 1, onMark |-> mark, fg |-> fg, short |-> short,
                 drawn |-> Append(b.drawn, d)]
<1>1. /\ b.size \in Nat /\ b.onMark \in BOOLEAN /\ b.fg \in Colours /\ b.short \in BOOLEAN
      /\ b.drawn \in Seq(Drawn) /\ ch.short \in BOOLEAN
  BY DEF Bars, Character
<1>2. Put(b, ch) = p
  BY DEF Put
<1>3. block \in {"off", "full", "part"}
  BY DEF Block
<1> HIDE DEF block
<1>4. mark \in BOOLEAN
  OBVIOUS
<1> HIDE DEF mark
<1>5. changeFG \in BOOLEAN
  OBVIOUS
<1>6. Colour(mark, ch.short) \in Colours
  BY <1>1, <1>4 DEF Colour, Colours
<1>7. /\ fg = Colour(mark, ch.short) /\ short = ch.short
      \/ /\ fg = b.fg /\ short = b.short /\ b.onMark = mark
         /\ block = "off" \/ ch.short = b.short
  BY <1>1, <1>4
<1> HIDE DEF changeFG
<1>8. fg \in Colours /\ short \in BOOLEAN
  BY <1>1, <1>5, <1>6
<1> HIDE DEF fg, short
<1>9. d \in Drawn /\ d.block = block /\ d.fg = fg /\ d.mark = mark /\ d.short = ch.short
  BY <1>1, <1>3, <1>4, <1>8 DEF Drawn
<1> HIDE DEF d
<1>10. Append(b.drawn, d) \in Seq(Drawn) /\ b.size + 1 \in Nat
  BY <1>1, <1>9
<1>11. p \in Bars
  BY <1>4, <1>8, <1>10 DEF Bars
<1>12. p.drawn = Append(b.drawn, d) /\ p.fg = fg /\ p.onMark = mark /\ p.short = short
  OBVIOUS
<1> HIDE DEF p
<1> QED
  BY <1>2, <1>7, <1>9, <1>11, <1>12

LEMMA PutType ==
  ASSUME NEW b \in Bars, NEW ch \in Character
  PROVE  Put(b, ch) \in Bars
BY PutParts

\* Each block keeps the colours right.
LEMMA PutColours ==
  ASSUME NEW b \in Bars, NEW ch \in Character, Coloured(b)
  PROVE  Coloured(Put(b, ch))
<1> DEFINE p == Put(b, ch)
<1>1. PICK d \in Drawn :
        /\ p \in Bars
        /\ p.drawn = Append(b.drawn, d)
        /\ p.fg = d.fg /\ p.onMark = d.mark
        /\ \/ d.fg = Colour(d.mark, ch.short) /\ p.short = ch.short
           \/ /\ d.fg = b.fg /\ p.short = b.short /\ b.onMark = d.mark
              /\ d.block = "off" \/ ch.short = b.short
        /\ d.short = ch.short
  BY PutParts
<1> HIDE DEF p
<1> DEFINE n == Len(b.drawn)
<1>2. b.drawn \in Seq(Drawn) /\ b.fg \in Colours
  BY DEF Bars
<1>3. /\ n \in Nat /\ Len(p.drawn) = n + 1
      /\ \A j \in 1 .. n : p.drawn[j] = b.drawn[j]
      /\ p.drawn[n + 1] = d
  BY <1>1, <1>2
<1>4. \A m, s : Colour(m, s) # "default"
  BY DEF Colour
<1>5. d.fg = "default" => b.fg = "default" /\ p.short = b.short /\ d.mark = b.onMark
  BY <1>1, <1>4
<1>6. d.fg = "default" => \A j \in 1 .. n + 1 : p.drawn[j].fg = "default"
  BY <1>1, <1>3, <1>5 DEF Coloured, Inked
<1>7. Inked(p)
  <2>1. p.fg = "default" => ~p.onMark /\ ~p.short
    BY <1>1, <1>5 DEF Coloured, Inked
  <2>2. p.fg = "default" => \A j \in 1 .. Len(p.drawn) : p.drawn[j].fg = "default"
    BY <1>1, <1>3, <1>6
  <2>3. p.fg # "default" => p.fg = Colour(p.onMark, p.short)
    BY <1>1 DEF Coloured, Inked
  <2> QED
    BY <2>1, <2>2, <2>3 DEF Inked
<1>8. Follows(p.drawn, n + 1)
  <2>1. CASE d.fg = "default"
    BY <1>6, <2>1 DEF Follows
  <2>2. CASE d.fg # "default" /\ d.block # "off"
    <3>1. d.fg = Colour(d.mark, d.short)
      BY <1>1, <2>2 DEF Coloured, Inked
    <3> QED
      BY <1>3, <3>1 DEF Follows
  <2>3. CASE d.block = "off"
    BY <1>3, <2>3 DEF Follows
  <2> QED
    BY <2>1, <2>2, <2>3
<1>9. ASSUME NEW k \in 1 .. n
      PROVE  Follows(p.drawn, k)
  <2>1. Follows(b.drawn, k)
    BY DEF Coloured
  <2>2. p.drawn[k] = b.drawn[k] /\ \A j \in 1 .. k : p.drawn[j] = b.drawn[j]
    BY <1>3
  <2> QED
    BY <2>1, <2>2 DEF Follows
<1> HIDE DEF n
<1>10. \A k \in 1 .. Len(p.drawn) : Follows(p.drawn, k)
  <2>1. \A k \in 1 .. n + 1 : k \in 1 .. n \/ k = n + 1
    BY <1>3
  <2> QED
    BY <1>3, <1>8, <1>9, <2>1
<1> QED
  BY <1>7, <1>10 DEF Coloured, p

\* The bar is painted block by block.
LEMMA PaintTrace ==
  ASSUME NEW t \in Seq(Character)
  PROVE  \E d \in [0 .. Len(t) -> Bars] :
           /\ d[0] = NewBar
           /\ \A k \in 1 .. Len(t) : d[k] = Put(d[k - 1], t[k])
           /\ Painted(t) = d[Len(t)]
<1> DEFINE n == Len(t)
           step == [k \in 1 .. n |-> [b \in Bars |-> Put(b, t[k])]]
           Folds(it) == it = [s \in SUBSET DOMAIN t |->
                                IF s = {} THEN NewBar
                                ELSE Put(it[s \ {Max(s)}], t[Max(s)])]
           fold == CHOOSE it : Folds(it)
<1>1. n \in Nat /\ DOMAIN t = 1 .. n /\ \A k \in 1 .. n : t[k] \in Character
  OBVIOUS
<1>2. Painted(t) = fold[DOMAIN t]
  BY DEF Painted, FoldLeft, MapThenFoldSet
<1> HIDE DEF n
<1>3. NewBar \in Bars
  BY DEF NewBar, Bars, Colours
<1>4. step \in [1 .. n -> [Bars -> Bars]]
  BY <1>1, PutType
<1>5. \E it : Folds(it)
  <2>1. PICK it : Solves(it, n, Bars, NewBar, step)
    <3> HIDE DEF step
    <3> QED
      BY <1>1, <1>3, <1>4, FoldExists
  <2>2. ASSUME NEW s \in SUBSET (1 .. n), s # {}
        PROVE  it[s] = Put(it[s \ {Max(s)}], t[Max(s)])
    <3>1. Max(s) \in 1 .. n /\ s \ {Max(s)} \in SUBSET (1 .. n)
      BY <1>1, <2>2, MaxIn
    <3>2. it[s \ {Max(s)}] \in Bars
      BY <2>1, <3>1 DEF Solves
    <3>3. it[s] = step[Max(s)][it[s \ {Max(s)}]]
      BY <2>1, <2>2 DEF Solves
    <3> QED
      BY <3>1, <3>2, <3>3
  <2>3. Folds(it)
    BY <1>1, <2>1, <2>2 DEF Solves
  <2> QED
    BY <2>3
<1>6. Folds(fold)
  <2> HIDE DEF Folds
  <2> QED
    BY <1>5
<1> HIDE DEF fold
<1>7. /\ fold[1 .. 0] = NewBar
      /\ \A k \in 1 .. n : fold[1 .. k] = Put(fold[1 .. k - 1], t[k])
  <2>1. 1 .. 0 = {}
    OBVIOUS
  <2>2. fold[{}] = NewBar
    BY <1>6
  <2>3. ASSUME NEW k \in 1 .. n
        PROVE  fold[1 .. k] = Put(fold[1 .. k - 1], t[k])
    <3>1. /\ 1 .. k \in SUBSET (1 .. n) /\ 1 .. k # {}
          /\ Max(1 .. k) = k
          /\ (1 .. k) \ {Max(1 .. k)} = 1 .. k - 1
      BY <1>1, MaxPrefix
    <3>2. fold[1 .. k] = Put(fold[(1 .. k) \ {Max(1 .. k)}], t[Max(1 .. k)])
      BY <1>1, <1>6, <3>1, Zenon
    <3> QED
      BY <3>1, <3>2
  <2> QED
    BY <2>1, <2>2, <2>3
<1>8. \A k \in 1 .. n : fold[1 .. k - 1] \in Bars =>
                          fold[1 .. k] = step[k][fold[1 .. k - 1]]
  BY <1>7
<1> HIDE DEF step
<1>9. PICK d : Steps(d, n, Bars, NewBar, step, fold[1 .. n])
  BY <1>1, <1>3, <1>4, <1>7, <1>8, FoldPrefixes
<1>10. ASSUME NEW k \in 1 .. n
       PROVE  d[k] = Put(d[k - 1], t[k])
  <2>1. d[k - 1] \in Bars
    BY <1>1, <1>9 DEF Steps
  <2> QED
    BY <1>9, <2>1 DEF Steps, step
<1>11. d \in [0 .. Len(t) -> Bars] /\ d[0] = NewBar /\ Painted(t) = d[Len(t)]
  BY <1>1, <1>2, <1>9 DEF Steps, n
<1> QED
  BY <1>10, <1>11 DEF n

LEMMA PaintedColours ==
  ASSUME NEW t \in Seq(Character)
  PROVE  Painted(t) \in Bars /\ Coloured(Painted(t))
<1>1. PICK d \in [0 .. Len(t) -> Bars] :
           /\ d[0] = NewBar
           /\ \A k \in 1 .. Len(t) : d[k] = Put(d[k - 1], t[k])
           /\ Painted(t) = d[Len(t)]
  BY PaintTrace
<1> DEFINE n == Len(t)
           S == {m \in Nat : m <= n => Coloured(d[m])}
<1>2. n \in Nat /\ \A k \in 1 .. n : t[k] \in Character
  OBVIOUS
<1>3. 0 \in S
  <2>1. Coloured(NewBar)
    BY DEF NewBar, Coloured, Inked
  <2> QED
    BY <1>1, <2>1
<1> HIDE DEF n
<1>4. ASSUME NEW m \in Nat, m \in S
      PROVE  m + 1 \in S
  <2>1. SUFFICES ASSUME m + 1 <= n PROVE Coloured(d[m + 1])
    OBVIOUS
  <2>2. m + 1 \in 1 .. n /\ (m + 1) - 1 = m /\ m \in 0 .. n /\ m <= n
    BY <1>2, <2>1
  <2>3. d[m + 1] = Put(d[m], t[m + 1]) /\ d[m] \in Bars /\ t[m + 1] \in Character
    BY <1>1, <1>2, <2>2 DEF n
  <2> QED
    BY <1>4, <2>2, <2>3, PutColours
<1> HIDE DEF S
<1>5. n \in S
  BY <1>2, <1>3, <1>4, NatSet
<1> QED
  BY <1>1, <1>2, <1>5 DEF S, n

\* The windows of a day are characters.
LEMMA WindowsType ==
  ASSUME NEW v \in Shades, NEW morning \in Int
  PROVE  Windows(v, morning) \in Seq(Character)
<1>1. PICK w : Renders(v, morning, w)
  BY WindowsTrace
<1>2. w[Bits] \in WindowStates
  BY <1>1, BarNumbers DEF Renders
<1> QED
  BY <1>1, <1>2 DEF Renders, WindowStates

\* Once a colour is written, each block that is not off has its character's: for
\* any response, any length of the bar and any distance of the marks.
THEOREM ColoursCorrect == Spec => ColoursFollow
<1> DEFINE Right ==
      LET drawn == Bar(Shown(Row, TRUE), c.l)
      IN  \A k \in DOMAIN drawn :
            drawn[k].block # "off" =>
              \/ drawn[k].fg = Colour(drawn[k].mark, drawn[k].short)
              \/ \A j \in 1 .. k : drawn[j].fg = "default"
<1>1. ASSUME IInv, [Next]_vars, Reports, ~Panics(Row)
      PROVE  Right
  <2>1. RowOK(Row) /\ c.l \in Nat
    BY <1>1, ReportOK
  <2>2. Shown(Row, TRUE) \in Shades
    BY <1>1, <2>1, ShownOrdered DEF Ordered
  <2>3. PICK t \in Seq(Character) : Bar(Shown(Row, TRUE), c.l) = Painted(t).drawn
    <3> DEFINE blank == [bits |-> [j \in 1 .. CharBits |-> FALSE], short |-> FALSE]
               blanks == [k \in 1 .. Chars |-> blank]
    <3>1. blank \in Character
      <4>1. [j \in 1 .. CharBits |-> FALSE] \in Seq(BOOLEAN)
        BY BarNumbers
      <4> QED
        BY <4>1 DEF Character
    <3>2. blanks \in Seq(Character)
      <4> HIDE DEF blank
      <4> QED
        BY <3>1, BarNumbers
    <3>3. Windows(Shown(Row, TRUE), c.l) \in Seq(Character)
      <4>1. c.l \in Int
        BY <2>1
      <4> QED
        BY <2>2, <4>1, WindowsType
    <3>4. \/ Bar(Shown(Row, TRUE), c.l) = Painted(blanks).drawn
          \/ Bar(Shown(Row, TRUE), c.l) = Painted(Windows(Shown(Row, TRUE), c.l)).drawn
      BY DEF Bar, Painted
    <3> HIDE DEF blanks
    <3> QED
      BY <3>2, <3>3, <3>4
  <2> DEFINE b == Painted(t)
  <2>4. b \in Bars /\ Coloured(b)
    BY PaintedColours
  <2> HIDE DEF b
  <2>5. DOMAIN b.drawn = 1 .. Len(b.drawn)
    BY <2>4 DEF Bars
  <2>6. \A k \in DOMAIN b.drawn : Follows(b.drawn, k)
    BY <2>4, <2>5 DEF Coloured
  <2> QED
    BY <2>3, <2>6 DEF Follows, b
<1>2. IInv /\ [Next]_vars => [Reports /\ ~Panics(Row) => Right]_vars
  BY <1>1
<1> QED
  BY <1>2, Invariance, PTL DEF Spec, ColoursFollow

--------------------------------------------------------------------------------
(***************************************************************************)
(* The time worked                                                         *)
(***************************************************************************)
LongOnes(resp) == {k \in DOMAIN resp.intervals : Long(resp.intervals[k])}

\* Where interval k ends, the last one without EndGap.
NetEnd(resp, k) ==
  resp.intervals[k].end - (IF k = Len(resp.intervals) THEN resp.endGap ELSE 0)
Begins(resp) == [k \in LongOnes(resp) |-> resp.intervals[k].start]
NetEnds(resp) == [k \in LongOnes(resp) |-> NetEnd(resp, k)]
Lengths(resp) == [k \in LongOnes(resp) |-> NetEnd(resp, k) - resp.intervals[k].start]

\* An interval that counts is longer than EndGap, and they are apart.
LEMMA LongParts ==
  ASSUME NEW resp, RowOK(resp)
  PROVE  /\ IsFiniteSet(LongOnes(resp)) /\ LongOnes(resp) \subseteq 1 .. Len(resp.intervals)
         /\ Len(resp.intervals) \in Nat
         /\ Begins(resp) \in [LongOnes(resp) -> Int]
         /\ NetEnds(resp) \in [LongOnes(resp) -> Int]
         /\ Lengths(resp) \in [LongOnes(resp) -> Int]
         /\ \A k \in LongOnes(resp) :
              /\ Begins(resp)[k] <= NetEnds(resp)[k]
              /\ NetEnds(resp)[k] <= resp.intervals[k].end
              /\ Lengths(resp)[k] = NetEnds(resp)[k] - Begins(resp)[k]
         /\ \A j, k \in LongOnes(resp) : j # k =>
              NetEnds(resp)[j] <= Begins(resp)[k] \/ NetEnds(resp)[k] <= Begins(resp)[j]
<1> DEFINE v == resp.intervals
           n == Len(v)
           L == LongOnes(resp)
<1>1. /\ v \in Seq(Interval) /\ Apart(v)
      /\ resp.endGap \in Nat /\ (resp.endGap > 0 => resp.endGap < Gap)
  BY DEF RowOK
<1>2. /\ n \in Nat /\ DOMAIN v = 1 .. n
      /\ \A k \in 1 .. n : v[k].start \in Nat /\ v[k].end \in Nat
  BY <1>1, IntervalParts
<1>3. L \subseteq 1 .. n /\ \A k \in L : v[k].end - v[k].start >= Hour
  BY <1>2 DEF LongOnes, Long
<1>4. IsFiniteSet(L)
  <2>1. IsFiniteSet(1 .. n)
    BY <1>2, FS_Interval
  <2> QED
    BY <1>3, <2>1, FS_Subset
<1>5. ASSUME NEW k \in L
      PROVE  /\ NetEnd(resp, k) \in Int
             /\ v[k].start <= NetEnd(resp, k)
             /\ NetEnd(resp, k) <= v[k].end
             /\ v[k].start \in Nat /\ v[k].end \in Nat
  BY <1>1, <1>2, <1>3, BarNumbers DEF NetEnd
<1>6. ASSUME NEW j \in L, NEW k \in L, j < k
      PROVE  NetEnd(resp, j) <= v[k].start
  <2>1. v[j].end + Gap < v[k].start
    BY <1>1, <1>2, <1>3, <1>6 DEF Apart
  <2> QED
    BY <1>5, <2>1, BarNumbers
<1>7. \A j, k \in L : j # k => j < k \/ k < j
  BY <1>2, <1>3
<1> HIDE DEF L, n
<1>8. /\ Begins(resp) \in [L -> Int] /\ NetEnds(resp) \in [L -> Int]
      /\ Lengths(resp) \in [L -> Int]
      /\ \A k \in L : /\ Begins(resp)[k] = v[k].start
                      /\ NetEnds(resp)[k] = NetEnd(resp, k)
                      /\ Lengths(resp)[k] = NetEnd(resp, k) - v[k].start
  BY <1>5 DEF Begins, NetEnds, Lengths, L
<1>9. \A k \in L : /\ Begins(resp)[k] <= NetEnds(resp)[k]
                   /\ NetEnds(resp)[k] <= v[k].end
                   /\ Lengths(resp)[k] = NetEnds(resp)[k] - Begins(resp)[k]
  BY <1>5, <1>8
<1>10. \A j, k \in L : j # k =>
         NetEnds(resp)[j] <= Begins(resp)[k] \/ NetEnds(resp)[k] <= Begins(resp)[j]
  BY <1>6, <1>7, <1>8
<1> QED
  BY <1>2, <1>3, <1>4, <1>8, <1>9, <1>10 DEF L, n

\* WorkDuration is a sum.
LEMMA DurationSum ==
  ASSUME NEW resp, RowOK(resp)
  PROVE  \E it : /\ Sums(it, LongOnes(resp), Lengths(resp))
                 /\ WorkDuration(resp) = it[LongOnes(resp)]
<1> DEFINE v == resp.intervals
           L == {k \in DOMAIN v : Long(v[k])}
           term(k) == v[k].end - v[k].start - (IF k = Len(v) THEN resp.endGap ELSE 0)
           Folds(it) == it = [s \in SUBSET L |->
                                IF s = {} THEN 0
                                ELSE term(CHOOSE x \in s : TRUE)
                                     + it[s \ {CHOOSE x \in s : TRUE}]]
           fold == CHOOSE it : Folds(it)
<1>1. WorkDuration(resp) = fold[L]
  BY DEF WorkDuration, MapThenSumSet, MapThenFoldSet
<1>2. L = LongOnes(resp)
  BY DEF LongOnes
<1> HIDE DEF L
<1>3. \A k \in L : term(k) = Lengths(resp)[k]
  <2>1. ASSUME NEW k \in L
        PROVE  term(k) = Lengths(resp)[k]
    <3>1. resp.endGap \in Nat
      BY DEF RowOK
    <3>2. v[k].start \in Nat /\ v[k].end \in Nat
      <4>1. v \in Seq(Interval)
        BY DEF RowOK
      <4>2. k \in 1 .. Len(v)
        BY <1>2, LongParts
      <4> QED
        BY <4>1, <4>2, IntervalParts
    <3> QED
      BY <1>2, <3>1, <3>2 DEF Lengths, NetEnd
  <2> QED
    BY <2>1
<1> HIDE DEF term
<1>4. \E it : Folds(it)
  <2>1. IsFiniteSet(L) /\ Lengths(resp) \in [L -> Int]
    BY <1>2, LongParts
  <2>2. PICK it : Sums(it, L, Lengths(resp))
    BY <2>1, SumExists
  <2>3. ASSUME NEW s \in SUBSET L
        PROVE  it[s] = IF s = {} THEN 0
                       ELSE term(CHOOSE x \in s : TRUE) + it[s \ {CHOOSE x \in s : TRUE}]
    <3>1. CASE s = {}
      BY <2>2, <3>1 DEF Sums
    <3>2. CASE s # {}
      <4>1. Taken(s) \in L
        BY <3>2 DEF Taken
      <4>2. it[s] = Lengths(resp)[Taken(s)] + it[s \ {Taken(s)}]
        BY <2>2, <3>2 DEF Sums
      <4> QED
        BY <1>3, <3>2, <4>1, <4>2 DEF Taken
    <3> QED
      BY <3>1, <3>2
  <2>4. Folds(it)
    BY <2>2, <2>3 DEF Sums
  <2> QED
    BY <2>4
<1>5. Folds(fold)
  <2> HIDE DEF Folds
  <2> QED
    BY <1>4
<1> HIDE DEF fold
<1>6. ASSUME NEW s \in SUBSET L
      PROVE  fold[s] = IF s = {} THEN 0 ELSE Lengths(resp)[Taken(s)] + fold[s \ {Taken(s)}]
  <2>1. s # {} => Taken(s) \in L
    BY DEF Taken
  <2> QED
    BY <1>3, <1>5, <2>1 DEF Taken
<1>7. fold \in [SUBSET L -> Int]
  <2> DEFINE Good == {s \in SUBSET L : fold[s] \in Int}
  <2>1. Lengths(resp) \in [L -> Int] /\ IsFiniteSet(L)
    BY <1>2, LongParts
  <2>2. {} \in Good
    BY <1>6
  <2>3. ASSUME NEW t \in SUBSET L, NEW s \in SUBSET t, s # {}, s \ {Taken(s)} \in Good
        PROVE  s \in Good
    <3>1. Taken(s) \in L /\ s \in SUBSET L
      BY <2>3 DEF Taken
    <3>2. fold[s] = Lengths(resp)[Taken(s)] + fold[s \ {Taken(s)}]
      BY <1>6, <2>3, <3>1
    <3> QED
      BY <2>1, <2>3, <3>1, <3>2
  <2> HIDE DEF Good
  <2>4. ASSUME NEW t \in SUBSET L
        PROVE  t \in Good
    <3>1. IsFiniteSet(t)
      BY <2>1, FS_Subset
    <3> QED
      BY <2>2, <2>3, <3>1, TakeInduction
  <2>5. \A s \in SUBSET L : fold[s] \in Int
    BY <2>4 DEF Good
  <2> QED
    BY <1>5, <2>5
<1>8. Sums(fold, L, Lengths(resp))
  BY <1>6, <1>7 DEF Sums
<1> QED
  BY <1>1, <1>2, <1>8

\* What is printed is not negative, and as many seconds as there are in the
\* intervals that count, the last one without EndGap.
LEMMA DurationSeconds ==
  ASSUME NEW resp, RowOK(resp)
  PROVE  /\ WorkDuration(resp) >= 0
         /\ WorkDuration(resp) = Cardinality(Inside(LongOnes(resp), Begins(resp), NetEnds(resp)))
<1> DEFINE L == LongOnes(resp)
           f == Lengths(resp)
           from == Begins(resp)
           to == NetEnds(resp)
<1>1. PICK it : Sums(it, L, f) /\ WorkDuration(resp) = it[L]
  BY DurationSum
<1>2. /\ IsFiniteSet(L)
      /\ from \in [L -> Int] /\ to \in [L -> Int] /\ f \in [L -> Int]
      /\ \A k \in L : from[k] <= to[k] /\ f[k] = to[k] - from[k]
      /\ \A j, k \in L : j # k => to[j] <= from[k] \/ to[k] <= from[j]
  BY LongParts
<1> HIDE DEF L, f, from, to
<1>3. it[L] = Cardinality(Inside(L, from, to))
  BY <1>1, <1>2, SumOfLengths
<1>4. it[L] >= 0
  <2>1. \A k \in L : f[k] >= 0
    BY <1>2
  <2> QED
    BY <1>1, <1>2, <2>1, SumNotNegative
<1> QED
  BY <1>1, <1>3, <1>4 DEF L, f, from, to

\* The response to a request for a day that holds the latest tick read and
\* the present.
LEMMA TodayParts ==
  ASSUME IInv, Finish, Reports, c.l <= prevT, now <= c.r
  PROVE  LET v == Row.intervals
         IN  /\ v \in Seq(Interval)
             /\ Row.endGap = FinalGap
             /\ \A i \in DOMAIN v : v[i].end <= MaxTime
             /\ \A x \in Nat : Covers(v, x) <=> c.l <= x /\ x < c.r /\ Worked(FinalTicks, x)
             /\ FinalGap > 0 => /\ FinalGap = now - prevT /\ prevT < now /\ prevT \in ReadRows
                                /\ NetEnd(Row, Len(v)) = prevT
                                /\ \A k \in DOMAIN v : NetEnd(Row, k) <= prevT
<1> DEFINE v == WithInterval(Final)
<1>1. /\ phase = "rows"
      /\ Collected(Final, FinalTicks)
      /\ Final.l = c.l /\ Final.r = c.r
      /\ Row.intervals = v /\ Row.endGap = FinalGap
  BY FinishStep DEF Row
<1>2. /\ v \in Seq(Interval)
      /\ \A i \in DOMAIN v : v[i].end <= Final.end \/ v[i].end + Gap < Final.start
      /\ \A x \in Nat : Covers(v, x) <=> WorkedIn(Final, FinalTicks, x)
  BY <1>1, CloseInterval
<1>3. /\ Len(v) \in Nat /\ DOMAIN v = 1 .. Len(v)
      /\ \A i \in 1 .. Len(v) : v[i].start \in Nat /\ v[i].end \in Nat
  BY <1>2, IntervalParts
<1> HIDE DEF v
<1>4. \A i \in DOMAIN v : v[i].end <= MaxTime
  <2>1. Final.start \in Times \cup {0} /\ Final.end \in Times \cup {0}
    BY <1>1 DEF Collected, Collectors
  <2>2. \A t \in Times \cup {0} : t \in Nat /\ t <= MaxTime
    BY TimeAssumption DEF Times
  <2>3. /\ Final.start \in Nat /\ Final.start <= MaxTime
        /\ Final.end \in Nat /\ Final.end <= MaxTime
        /\ MaxTime \in Nat
    BY <2>1, <2>2, TimeAssumption
  <2> QED
    BY <1>2, <1>3, <2>3, BarNumbers
<1>5. \A x \in Nat : Covers(v, x) <=> c.l <= x /\ x < c.r /\ Worked(FinalTicks, x)
  BY <1>1, <1>2 DEF WorkedIn
<1>6. ASSUME FinalGap > 0
      PROVE  /\ FinalGap = now - prevT /\ prevT < now /\ prevT \in ReadRows
             /\ NetEnd(Row, Len(v)) = prevT
             /\ \A k \in DOMAIN v : NetEnd(Row, k) <= prevT
  <2>1. /\ FinalGap = now - prevT /\ prevT < now /\ prevT \in ReadRows
        /\ c.intervals \in Seq(Interval)
        /\ \A j \in DOMAIN c.intervals : c.intervals[j].end <= prevT
    BY <1>6, OngoingStep
  <2>2. PICK i \in Interval : i.start <= prevT /\ i.end = now /\ v = Append(c.intervals, i)
    BY <1>6, OngoingStep DEF v
  <2> DEFINE n == Len(c.intervals)
  <2>3. /\ n \in Nat /\ Len(v) = n + 1 /\ v[n + 1] = i
        /\ \A k \in 1 .. n : k \in DOMAIN c.intervals /\ v[k] = c.intervals[k]
    BY <2>1, <2>2
  <2>4. prevT \in Nat /\ now \in Nat
    BY <1>1, RowsRead
  <2> HIDE DEF n
  <2>5. NetEnd(Row, n + 1) = prevT
    BY <1>1, <2>1, <2>2, <2>3, <2>4 DEF NetEnd
  <2>6. ASSUME NEW k \in 1 .. n
        PROVE  NetEnd(Row, k) <= prevT
    <3>1. v[k].end \in Nat /\ v[k].end <= prevT /\ k # Len(v)
      BY <1>3, <2>1, <2>3
    <3> QED
      BY <1>1, <2>4, <3>1 DEF NetEnd
  <2>7. ASSUME NEW k \in DOMAIN v
        PROVE  NetEnd(Row, k) <= prevT
    <3>1. k \in 1 .. n \/ k = n + 1
      BY <1>3, <2>3
    <3> QED
      BY <2>4, <2>5, <2>6, <3>1
  <2> QED
    BY <2>1, <2>3, <2>5, <2>7
<1> QED
  BY <1>1, <1>2, <1>4, <1>5, <1>6

\* Before the latest tick, and so without EndGap, the seconds of the intervals
\* are those between the ticks read.
LEMMA WorkedSeconds ==
  ASSUME IInv, [Next]_vars, Reports, c.l <= prevT, now <= c.r
  PROVE  {x \in LongSeconds(Row.intervals) : Worked(ReadTicks, x)}
           = Inside(LongOnes(Row), Begins(Row), NetEnds(Row))
<1> DEFINE v == Row.intervals
           L == LongOnes(Row)
<1>1. Finish /\ RowOK(Row)
  BY OnlyFinish, ReportOK DEF Reports
<1>2. /\ v \in Seq(Interval)
      /\ Row.endGap = FinalGap
      /\ \A i \in DOMAIN v : v[i].end <= MaxTime
      /\ \A x \in Nat : Covers(v, x) <=> c.l <= x /\ x < c.r /\ Worked(FinalTicks, x)
      /\ FinalGap > 0 => /\ FinalGap = now - prevT /\ prevT < now /\ prevT \in ReadRows
                         /\ NetEnd(Row, Len(v)) = prevT
                         /\ \A k \in DOMAIN v : NetEnd(Row, k) <= prevT
  BY <1>1, TodayParts
<1>3. /\ Len(v) \in Nat /\ DOMAIN v = 1 .. Len(v)
      /\ \A i \in 1 .. Len(v) : v[i].start \in Nat /\ v[i].end \in Nat
  BY <1>2, IntervalParts
<1>4. phase = "rows"
  BY <1>1, FinishStep
<1>5. /\ \A t \in ReadRows : t <= prevT
      /\ prevT = 0 \/ prevT \in ReadRows
      /\ prevT \in Nat /\ now \in Nat /\ prevT <= now
      /\ ReadRows \subseteq ReadTicks /\ ReadTicks \subseteq table
      /\ \A t \in ReadTicks : t \in Nat /\ t <= now /\ (t \in Rows => t \in ReadRows)
      /\ now > Gap /\ Gap \in Nat /\ MaxTime \in Nat
      /\ c.l \in Nat /\ c.r \in Nat
  <2>1. c.l \in Nat /\ c.r \in Nat
    BY CollectorParts DEF IInv, Types
  <2> QED
    BY <1>4, <2>1, RowsRead, TimesAfterGap, TimeAssumption
<1>6. \A k \in L : /\ k \in 1 .. Len(v) /\ Long(v[k])
                   /\ Begins(Row)[k] = v[k].start
                   /\ NetEnds(Row)[k] = NetEnd(Row, k)
                   /\ NetEnd(Row, k) <= v[k].end /\ NetEnd(Row, k) \in Int
  <2>1. \A k \in L : NetEnds(Row)[k] <= v[k].end /\ NetEnds(Row)[k] \in Int
    BY <1>1, LongParts
  <2> QED
    BY <1>3, <2>1 DEF LongOnes, Begins, NetEnds
<1> HIDE DEF v
<1>7. ASSUME NEW x \in Int, NEW k \in L, v[k].start <= x, x < NetEnd(Row, k)
      PROVE  x \in LongSeconds(v) /\ Worked(ReadTicks, x)
  <2>1. k \in 1 .. Len(v) /\ k \in DOMAIN v /\ Long(v[k]) /\ x < v[k].end /\ x \in Nat
        /\ x <= MaxTime
    BY <1>2, <1>3, <1>5, <1>6, <1>7
  <2>2. x \in LongSeconds(v) /\ Covers(v, x)
    BY <1>5, <1>7, <2>1 DEF LongSeconds, Covers
  <2>3. PICK a \in FinalTicks, b \in FinalTicks : a <= x /\ x < b /\ b - a <= Gap
    BY <1>2, <2>1, <2>2 DEF Worked
  <2>4. CASE FinalTicks \subseteq ReadRows
    BY <1>5, <2>2, <2>3, <2>4 DEF Worked
  <2>5. CASE ~(FinalTicks \subseteq ReadRows)
    <3>1. FinalTicks = ReadRows \cup {now} /\ now \notin ReadRows /\ FinalGap = now - prevT
      BY <2>5 DEF FinalTicks, FinalGap
    <3>2. prevT # now
      BY <1>5, <3>1
    <3>3. FinalGap > 0
      BY <1>5, <3>1, <3>2
    <3>4. x < prevT /\ prevT \in ReadRows /\ prevT < now
      BY <1>2, <1>5, <1>6, <1>7, <2>1, <3>3
    <3>5. a # now /\ a \in ReadRows
      BY <1>5, <2>1, <2>3, <3>1, <3>4
    <3>6. CASE b \in ReadRows
      BY <1>5, <2>2, <2>3, <3>5, <3>6 DEF Worked
    <3>7. CASE b = now
      <4>1. a \in Nat /\ prevT - a <= Gap
        BY <1>5, <2>3, <3>4, <3>5, <3>7
      <4> QED
        BY <1>5, <2>2, <2>3, <3>4, <3>5, <4>1 DEF Worked
    <3> QED
      BY <3>1, <3>6, <3>7
  <2> QED
    BY <2>4, <2>5
<1>8. ASSUME NEW x \in LongSeconds(v), Worked(ReadTicks, x)
      PROVE  \E k \in L : v[k].start <= x /\ x < NetEnd(Row, k)
  <2>1. PICK k \in DOMAIN v : Long(v[k]) /\ v[k].start <= x /\ x < v[k].end
    BY DEF LongSeconds
  <2>2. x \in Nat /\ k \in L /\ Covers(v, x)
    BY <1>5, <2>1 DEF LongSeconds, LongOnes, Covers, v
  <2>3. PICK a \in ReadTicks, b \in ReadTicks : a <= x /\ x < b /\ b - a <= Gap
    BY <1>8 DEF Worked
  <2>4. b <= prevT
    <3>1. c.l <= x
      BY <1>2, <2>2
    <3>2. b \in Nat /\ b <= now /\ c.l <= b
      BY <1>5, <2>2, <2>3, <3>1
    <3>3. b \in Rows
      BY <1>5, <2>3, <3>2 DEF Rows
    <3> QED
      BY <1>5, <2>3, <3>3
  <2>5. x < NetEnd(Row, k)
    <3>1. CASE FinalGap > 0 /\ k = Len(v)
      BY <1>2, <1>5, <2>2, <2>3, <2>4, <3>1
    <3>2. CASE ~(FinalGap > 0 /\ k = Len(v))
      <4>1. FinalGap \in Nat
        BY <1>1, <1>2 DEF RowOK
      <4>2. NetEnd(Row, k) = v[k].end
        BY <1>2, <1>3, <2>1, <3>2, <4>1 DEF NetEnd, v
      <4> QED
        BY <2>1, <4>2
    <3> QED
      BY <3>1, <3>2
  <2> QED
    BY <2>1, <2>2, <2>5
<1> HIDE DEF L
<1>9. \A x \in LongSeconds(v) : x \in Int
  BY <1>5 DEF LongSeconds
<1>10. \A x : x \in Inside(L, Begins(Row), NetEnds(Row))
                <=> x \in Int /\ \E k \in L : v[k].start <= x /\ x < NetEnd(Row, k)
  BY <1>6 DEF Inside
<1>11. \A x : x \in LongSeconds(v) /\ Worked(ReadTicks, x)
                <=> x \in Inside(L, Begins(Row), NetEnds(Row))
  BY <1>7, <1>8, <1>9, <1>10
<1> QED
  BY <1>11 DEF v, L

\* The time printed is never negative, and for a day that holds the latest tick
\* and the present it is the seconds between ticks in the intervals that count:
\* for any gap, any least length and any ticks.
THEOREM DurationCorrect == Spec => DurationIsWorked
<1> DEFINE Right ==
      /\ WorkDuration(Row) >= 0
      /\ c.l <= prevT /\ now <= c.r =>
           WorkDuration(Row) = Cardinality({x \in LongSeconds(Row.intervals) : Worked(ReadTicks, x)})
<1>1. ASSUME IInv, [Next]_vars, Reports
      PROVE  Right
  <2>1. RowOK(Row)
    BY <1>1, ReportOK
  <2>2. /\ WorkDuration(Row) >= 0
        /\ WorkDuration(Row) = Cardinality(Inside(LongOnes(Row), Begins(Row), NetEnds(Row)))
    BY <2>1, DurationSeconds
  <2> QED
    BY <1>1, <2>2, WorkedSeconds
<1>2. IInv /\ [Next]_vars => [Reports => Right]_vars
  BY <1>1
<1> QED
  BY <1>2, Invariance, PTL DEF Spec, DurationIsWorked

===============================================================================
