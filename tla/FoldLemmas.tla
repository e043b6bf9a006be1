------------------------------- MODULE FoldLemmas -------------------------------
(***************************************************************************)
(* What the recursive functions behind folds over sequences, sums over     *)
(* sets and loops compute, and sets of numbers in order.  Induction is     *)
(* over sets of numbers, so that the lemmas need no operator for a         *)
(* parameter: an operator to be folded is given as the functions it is at  *)
(* each position, the body of a loop as a function.                        *)
(***************************************************************************)
EXTENDS Integers, Sequences, FiniteSetsExt, SequencesExt, FiniteSetTheorems,
        WellFoundedInduction, TLAPS

\* Induction over the naturals.
LEMMA NatSet ==
  ASSUME NEW S, 0 \in S, \A n \in Nat : n \in S => n + 1 \in S
  PROVE  \A n \in Nat : n \in S
<1> DEFINE T == {n \in Nat : n \notin S}
<1>1. SUFFICES ASSUME T # {} PROVE FALSE
  OBVIOUS
<1>2. PICK m \in T : \A n \in T : ~(<<n, m>> \in OpToRel(<, Nat))
  <2>1. T \subseteq Nat
    OBVIOUS
  <2> HIDE DEF T
  <2> QED
    BY <1>1, <2>1, NatLessThanWellFounded, WFMin, Zenon
<1>3. m \in Nat /\ m # 0
  OBVIOUS
<1>4. m - 1 \in Nat /\ m - 1 \notin T
  <2>1. m - 1 \in Nat /\ m - 1 < m
    BY <1>3
  <2>2. <<m - 1, m>> \in OpToRel(<, Nat)
    BY <1>3, <2>1 DEF OpToRel
  <2> QED
    BY <1>2, <2>1, <2>2
<1>5. (m - 1) + 1 \in S
  BY <1>4
<1> QED
  BY <1>3, <1>5

--------------------------------------------------------------------------------
(***************************************************************************)
(* Folds: the positions of a sequence are taken from the last to the first *)
(***************************************************************************)
\* The largest of the first positions, and of any of them.
LEMMA MaxLast ==
  ASSUME NEW n \in Nat, NEW s \in SUBSET (1 .. n + 1), n + 1 \in s
  PROVE  Max(s) = n + 1
<1>1. \A y \in s : n + 1 >= y
  OBVIOUS
<1>2. \A x \in s : (\A y \in s : x >= y) => x = n + 1
  OBVIOUS
<1> QED
  BY <1>1, <1>2 DEF Max

LEMMA MaxIn ==
  ASSUME NEW n \in Nat, NEW s \in SUBSET (1 .. n), s # {}
  PROVE  Max(s) \in s
<1> DEFINE S == {k \in Nat : \A t \in SUBSET (1 .. k) : t # {} => Max(t) \in t}
<1>1. 0 \in S
  <2>1. SUBSET (1 .. 0) = {{}}
    OBVIOUS
  <2> QED
    BY <2>1
<1>2. ASSUME NEW k \in Nat, k \in S
      PROVE  k + 1 \in S
  <2>1. ASSUME NEW t \in SUBSET (1 .. k + 1), t # {}
        PROVE  Max(t) \in t
    <3>1. CASE k + 1 \in t
      BY <3>1, MaxLast
    <3>2. CASE k + 1 \notin t
      <4>1. t \in SUBSET (1 .. k)
        BY <3>2
      <4> QED
        BY <1>2, <2>1, <4>1
    <3> QED
      BY <3>1, <3>2
  <2> QED
    BY <2>1
<1> HIDE DEF S
<1>3. n \in S
  BY <1>1, <1>2, NatSet
<1> QED
  BY <1>3 DEF S

\* The positions up to k without k.
LEMMA MaxPrefix ==
  ASSUME NEW n \in Nat, NEW k \in 1 .. n
  PROVE  /\ 1 .. k \in SUBSET (1 .. n) /\ 1 .. k # {}
         /\ 1 .. k - 1 \in SUBSET (1 .. n)
         /\ Max(1 .. k) = k
         /\ (1 .. k) \ {Max(1 .. k)} = 1 .. k - 1
<1>1. k - 1 \in Nat /\ k = (k - 1) + 1
  OBVIOUS
<1>2. 1 .. k \in SUBSET (1 .. (k - 1) + 1) /\ (k - 1) + 1 \in 1 .. k
  OBVIOUS
<1>3. Max(1 .. k) = k
  BY <1>1, <1>2, MaxLast
<1> QED
  BY <1>3

\* it solves the equation of a fold with the functions step.
Solves(it, n, T, base, step) ==
  /\ it \in [SUBSET (1 .. n) -> T]
  /\ \A s \in SUBSET (1 .. n) :
       it[s] = IF s = {} THEN base ELSE step[Max(s)][it[s \ {Max(s)}]]

\* The equation of a fold has a solution.
LEMMA FoldExists ==
  ASSUME NEW n \in Nat, NEW T, NEW base \in T, NEW step \in [1 .. n -> [T -> T]]
  PROVE  \E it : Solves(it, n, T, base, step)
<1> DEFINE S == {k \in Nat : k <= n => \E it : Solves(it, k, T, base, step)}
<1>1. 0 \in S
  <2> DEFINE it == [s \in SUBSET (1 .. 0) |-> base]
  <2>1. SUBSET (1 .. 0) = {{}}
    OBVIOUS
  <2>2. Solves(it, 0, T, base, step)
    BY <2>1 DEF Solves
  <2> QED
    BY <2>2
<1>2. ASSUME NEW k \in Nat, k \in S
      PROVE  k + 1 \in S
  <2>1. SUFFICES ASSUME k + 1 <= n PROVE \E it : Solves(it, k + 1, T, base, step)
    BY DEF S
  <2>2. PICK f : Solves(f, k, T, base, step)
    BY <1>2, <2>1
  <2> DEFINE it == [s \in SUBSET (1 .. k + 1) |->
                      IF k + 1 \in s THEN step[k + 1][f[s \ {k + 1}]] ELSE f[s]]
  <2>3. ASSUME NEW s \in SUBSET (1 .. k + 1)
        PROVE  s \ {k + 1} \in SUBSET (1 .. k)
    OBVIOUS
  <2>4. k + 1 \in 1 .. n
    BY <2>1
  <2>5. it \in [SUBSET (1 .. k + 1) -> T]
    BY <2>2, <2>3, <2>4 DEF Solves
  <2>6. ASSUME NEW s \in SUBSET (1 .. k + 1)
        PROVE  it[s] = IF s = {} THEN base ELSE step[Max(s)][it[s \ {Max(s)}]]
    <3>1. CASE k + 1 \in s
      <4>1. Max(s) = k + 1
        BY <3>1, MaxLast
      <4>2. it[s \ {k + 1}] = f[s \ {k + 1}]
        BY <2>3
      <4> QED
        BY <3>1, <4>1, <4>2
    <3>2. CASE k + 1 \notin s
      <4>1. s \in SUBSET (1 .. k)
        BY <3>2
      <4>2. it[s] = f[s]
        BY <3>2
      <4>3. CASE s = {}
        BY <2>2, <4>1, <4>2, <4>3 DEF Solves
      <4>4. CASE s # {}
        <5>1. it[s \ {Max(s)}] = f[s \ {Max(s)}]
          BY <3>2
        <5> QED
          BY <2>2, <4>1, <4>2, <4>4, <5>1 DEF Solves
      <4> QED
        BY <4>3, <4>4
    <3> QED
      BY <3>1, <3>2
  <2> HIDE DEF it
  <2>7. Solves(it, k + 1, T, base, step)
    BY <2>5, <2>6 DEF Solves
  <2> QED
    BY <2>7
<1> HIDE DEF S
<1>3. n \in S
  BY <1>1, <1>2, NatSet
<1> QED
  BY <1>3 DEF S

\* d takes the steps one by one, from base to the value last.
Steps(d, n, T, base, step, last) ==
  /\ d \in [0 .. n -> T]
  /\ d[0] = base
  /\ d[n] = last
  /\ \A k \in 1 .. n : d[k] = step[k][d[k - 1]]

\* The values of a fold over longer and longer parts of the sequence.
LEMMA FoldPrefixes ==
  ASSUME NEW n \in Nat, NEW T, NEW base \in T, NEW step \in [1 .. n -> [T -> T]], NEW it,
         it[1 .. 0] = base,
         \A k \in 1 .. n : it[1 .. k - 1] \in T => it[1 .. k] = step[k][it[1 .. k - 1]]
  PROVE  \E d : Steps(d, n, T, base, step, it[1 .. n])
<1> DEFINE S == {k \in Nat : k <= n => it[1 .. k] \in T}
<1>1. 0 \in S
  OBVIOUS
<1>2. ASSUME NEW k \in Nat, k \in S
      PROVE  k + 1 \in S
  <2>1. SUFFICES ASSUME k + 1 <= n PROVE it[1 .. k + 1] \in T
    OBVIOUS
  <2>2. k + 1 \in 1 .. n /\ it[1 .. k] \in T /\ (k + 1) - 1 = k
    BY <1>2, <2>1
  <2>3. it[1 .. k + 1] = step[k + 1][it[1 .. k]]
    BY <2>2
  <2> QED
    BY <2>2, <2>3
<1> HIDE DEF S
<1>3. \A k \in Nat : k \in S
  BY <1>1, <1>2, NatSet
<1>4. \A k \in 0 .. n : it[1 .. k] \in T
  BY <1>3 DEF S
<1> DEFINE d == [k \in 0 .. n |-> it[1 .. k]]
<1>5. d \in [0 .. n -> T] /\ d[0] = base /\ d[n] = it[1 .. n]
  BY <1>4
<1>6. ASSUME NEW k \in 1 .. n
      PROVE  d[k] = step[k][d[k - 1]]
  <2>1. k - 1 \in 0 .. n /\ it[1 .. k - 1] \in T
    BY <1>4
  <2> QED
    BY <2>1
<1> HIDE DEF d
<1>7. Steps(d, n, T, base, step, it[1 .. n])
  BY <1>5, <1>6 DEF Steps
<1> QED
  BY <1>7

\* FlattenSeq appends the sequences one by one.
LEMMA FlattenTrace ==
  ASSUME NEW X, NEW seqs \in Seq(Seq(X))
  PROVE  \E d \in [0 .. Len(seqs) -> Seq(X)] :
           /\ d[0] = <<>>
           /\ d[Len(seqs)] = FlattenSeq(seqs)
           /\ \A k \in 1 .. Len(seqs) : d[k] = d[k - 1] \o seqs[k]
<1> DEFINE n == Len(seqs)
           Flattens(f, k) ==
             /\ f \in [1 .. k -> Seq(X)]
             /\ \A i \in 1 .. k : f[i] = IF i = 1 THEN seqs[i] ELSE f[i - 1] \o seqs[i]
           S == {k \in Nat : k <= n => \E f : Flattens(f, k)}
<1>1. n \in Nat /\ \A k \in 1 .. n : seqs[k] \in Seq(X)
  OBVIOUS
<1>2. 0 \in S
  <2> DEFINE f == [i \in 1 .. 0 |-> <<>>]
  <2>1. Flattens(f, 0)
    OBVIOUS
  <2> HIDE DEF Flattens
  <2> QED
    BY <2>1
<1> HIDE DEF n
<1>3. ASSUME NEW k \in Nat, k \in S
      PROVE  k + 1 \in S
  <2> HIDE DEF Flattens
  <2>1. SUFFICES ASSUME k + 1 <= n PROVE \E f : Flattens(f, k + 1)
    BY DEF S
  <2>2. PICK g : Flattens(g, k)
    BY <1>1, <1>3, <2>1 DEF S
  <2> USE DEF Flattens
  <2> DEFINE new == IF k = 0 THEN seqs[k + 1] ELSE g[k] \o seqs[k + 1]
             f == [i \in 1 .. k + 1 |-> IF i = k + 1 THEN new ELSE g[i]]
  <2>3. k + 1 \in 1 .. n /\ seqs[k + 1] \in Seq(X)
    BY <1>1, <2>1
  <2>4. new \in Seq(X)
    <3>1. k # 0 => k \in 1 .. k
      OBVIOUS
    <3> QED
      BY <2>2, <2>3, <3>1
  <2>5. f \in [1 .. k + 1 -> Seq(X)]
    BY <2>2, <2>4
  <2>6. ASSUME NEW i \in 1 .. k + 1
        PROVE  f[i] = IF i = 1 THEN seqs[i] ELSE f[i - 1] \o seqs[i]
    <3>1. CASE i = k + 1
      <4>1. i = 1 <=> k = 0
        BY <3>1
      <4>2. k # 0 => f[i - 1] = g[k]
        BY <3>1
      <4> QED
        BY <3>1, <4>1, <4>2
    <3>2. CASE i # k + 1
      <4>1. i \in 1 .. k /\ f[i] = g[i] /\ (i # 1 => f[i - 1] = g[i - 1])
        BY <3>2
      <4> QED
        BY <2>2, <4>1
    <3> QED
      BY <3>1, <3>2
  <2> HIDE DEF f
  <2>7. Flattens(f, k + 1)
    BY <2>5, <2>6
  <2> HIDE DEF Flattens
  <2> QED
    BY <2>7
<1>4. PICK f : Flattens(f, n)
  <2> HIDE DEF S
  <2>1. n \in S
    BY <1>1, <1>2, <1>3, NatSet
  <2> HIDE DEF Flattens
  <2> QED
    BY <1>1, <2>1 DEF S
<1> DEFINE Flat(g) == g = [i \in 1 .. Len(seqs) |->
                             IF i = 1 THEN seqs[i] ELSE g[i - 1] \o seqs[i]]
           flatten == CHOOSE g : Flat(g)
<1>5. Flat(f)
  BY <1>4 DEF n
<1>6. Flat(flatten)
  <2> HIDE DEF Flat
  <2> QED
    BY <1>5
<1>7. n # 0 => FlattenSeq(seqs) = flatten[n]
  BY DEF FlattenSeq, n
<1>8. n = 0 => FlattenSeq(seqs) = <<>>
  BY DEF FlattenSeq, n
<1> HIDE DEF flatten
<1>9. \A i \in 1 .. n : flatten[i] = IF i = 1 THEN seqs[i] ELSE flatten[i - 1] \o seqs[i]
  BY <1>6 DEF n
<1> DEFINE d == [k \in 0 .. n |-> IF k = 0 THEN <<>> ELSE flatten[k]]
           P == {k \in Nat : k <= n => d[k] \in Seq(X)}
<1>10. 0 \in P
  BY <1>1
<1>11. ASSUME NEW k \in 1 .. n, d[k - 1] \in Seq(X)
       PROVE  d[k] = d[k - 1] \o seqs[k]
  <2>1. CASE k = 1
    <3>1. d[k - 1] = <<>> /\ d[k] = seqs[k] /\ seqs[k] \in Seq(X)
      BY <1>1, <1>9, <2>1
    <3> HIDE DEF d
    <3>2. <<>> \o seqs[k] = seqs[k]
      BY <3>1
    <3> QED
      BY <3>1, <3>2
  <2>2. CASE k # 1
    <3>1. d[k - 1] = flatten[k - 1] /\ d[k] = flatten[k]
      BY <1>1, <2>2
    <3> QED
      BY <1>9, <2>2, <3>1
  <2> QED
    BY <2>1, <2>2
<1> HIDE DEF d
<1>12. ASSUME NEW k \in Nat, k \in P
       PROVE  k + 1 \in P
  <2>1. SUFFICES ASSUME k + 1 <= n PROVE d[k + 1] \in Seq(X)
    OBVIOUS
  <2>2. k + 1 \in 1 .. n /\ (k + 1) - 1 = k /\ d[k] \in Seq(X)
    BY <1>1, <1>12, <2>1
  <2>3. d[k + 1] = d[k] \o seqs[k + 1] /\ seqs[k + 1] \in Seq(X)
    BY <1>1, <1>11, <2>2
  <2> QED
    BY <2>2, <2>3
<1> HIDE DEF P
<1>13. \A k \in Nat : k \in P
  BY <1>10, <1>12, NatSet
<1>14. \A k \in 0 .. n : d[k] \in Seq(X)
  BY <1>13 DEF P
<1>15. d \in [0 .. n -> Seq(X)] /\ d[0] = <<>> /\ d[n] = FlattenSeq(seqs)
  BY <1>1, <1>7, <1>8, <1>14 DEF d
<1>16. \A k \in 1 .. n : d[k] = d[k - 1] \o seqs[k]
  <2>1. \A k \in 1 .. n : k - 1 \in 0 .. n
    BY <1>1
  <2> QED
    BY <1>11, <1>14, <2>1
<1> QED
  BY <1>15, <1>16 DEF n

--------------------------------------------------------------------------------
(***************************************************************************)
(* Sums: the elements of a set are taken one by one, in some order         *)
(***************************************************************************)
Taken(s) == CHOOSE x \in s : TRUE

\* it solves the equation of a sum of f.
Sums(it, S, f) ==
  /\ it \in [SUBSET S -> Int]
  /\ \A s \in SUBSET S :
       it[s] = IF s = {} THEN 0 ELSE f[Taken(s)] + it[s \ {Taken(s)}]

LEMMA TakeOne ==
  ASSUME NEW s, IsFiniteSet(s), s # {}
  PROVE  /\ Taken(s) \in s
         /\ IsFiniteSet(s \ {Taken(s)})
         /\ Cardinality(s) \in Nat /\ Cardinality(s \ {Taken(s)}) \in Nat
         /\ Cardinality(s \ {Taken(s)}) = Cardinality(s) - 1
<1>1. Taken(s) \in s
  BY DEF Taken
<1> QED
  BY <1>1, FS_RemoveElement, FS_CardinalityType

\* The equation of a sum has a solution.
LEMMA SumExists ==
  ASSUME NEW S, IsFiniteSet(S), NEW f \in [S -> Int]
  PROVE  \E it : Sums(it, S, f)
<1> DEFINE Small(k) == {s \in SUBSET S : Cardinality(s) <= k}
           Solution(it, k) ==
             /\ it \in [Small(k) -> Int]
             /\ \A s \in Small(k) :
                  it[s] = IF s = {} THEN 0 ELSE f[Taken(s)] + it[s \ {Taken(s)}]
           P == {k \in Nat : \E it : Solution(it, k)}
<1>1. \A s \in SUBSET S : IsFiniteSet(s) /\ Cardinality(s) \in Nat /\ Cardinality(s) <= Cardinality(S)
  BY FS_Subset, FS_CardinalityType
<1>2. 0 \in P
  <2> DEFINE it == [s \in Small(0) |-> 0]
  <2>1. \A s \in Small(0) : s = {}
    BY <1>1, FS_EmptySet
  <2>2. Solution(it, 0)
    BY <2>1
  <2> HIDE DEF Solution
  <2> QED
    BY <2>2
<1>3. ASSUME NEW k \in Nat, k \in P
      PROVE  k + 1 \in P
  <2>1. PICK g : Solution(g, k)
    BY <1>3
  <2> DEFINE it == [s \in Small(k + 1) |->
                      IF s = {} THEN 0 ELSE f[Taken(s)] + g[s \ {Taken(s)}]]
  <2>2. ASSUME NEW s \in Small(k + 1), s # {}
        PROVE  /\ s \ {Taken(s)} \in Small(k) /\ s \ {Taken(s)} \in Small(k + 1)
               /\ Taken(s) \in S
    <3>1. IsFiniteSet(s) /\ Cardinality(s) <= k + 1 /\ s \in SUBSET S
      BY <1>1
    <3>2. /\ Taken(s) \in s /\ Cardinality(s) \in Nat
          /\ Cardinality(s \ {Taken(s)}) = Cardinality(s) - 1
      BY <2>2, <3>1, TakeOne
    <3> DEFINE r == s \ {Taken(s)}
    <3>3. r \in SUBSET S
      BY <3>1
    <3> HIDE DEF r
    <3>4. Cardinality(r) <= k /\ Cardinality(r) <= k + 1
      BY <3>1, <3>2 DEF r
    <3> QED
      BY <3>1, <3>2, <3>3, <3>4 DEF r
  <2>3. \A s \in Small(k) : s \in Small(k + 1)
    BY <1>1
  <2> HIDE DEF Small
  <2>4. it \in [Small(k + 1) -> Int]
    BY <2>1, <2>2
  <2>5. \A s \in Small(k) : it[s] = g[s]
    BY <2>1, <2>3
  <2>6. \A s \in Small(k + 1) :
          it[s] = IF s = {} THEN 0 ELSE f[Taken(s)] + it[s \ {Taken(s)}]
    BY <2>2, <2>5
  <2> HIDE DEF it
  <2>7. Solution(it, k + 1)
    BY <2>4, <2>6
  <2> HIDE DEF Solution
  <2> QED
    BY <2>7
<1> HIDE DEF P
<1>4. Cardinality(S) \in P
  BY <1>1, <1>2, <1>3, NatSet
<1>5. PICK it : Solution(it, Cardinality(S))
  BY <1>4 DEF P
<1>6. Small(Cardinality(S)) = SUBSET S
  BY <1>1
<1> HIDE DEF Small
<1> QED
  BY <1>5, <1>6 DEF Sums

\* Induction over the finite sets that a sum is taken over.
LEMMA TakeInduction ==
  ASSUME NEW S, IsFiniteSet(S), NEW Good, {} \in Good,
         \A s \in SUBSET S : s # {} /\ s \ {Taken(s)} \in Good => s \in Good
  PROVE  S \in Good
<1> DEFINE P == {k \in Nat : \A s \in SUBSET S : Cardinality(s) = k => s \in Good}
<1>1. \A s \in SUBSET S : IsFiniteSet(s) /\ Cardinality(s) \in Nat
  BY FS_Subset, FS_CardinalityType
<1>2. 0 \in P
  BY <1>1, FS_EmptySet
<1>3. ASSUME NEW k \in Nat, k \in P
      PROVE  k + 1 \in P
  <2>1. ASSUME NEW s \in SUBSET S, Cardinality(s) = k + 1
        PROVE  s \in Good
    <3>1. s # {}
      BY <1>1, <2>1, FS_EmptySet
    <3> DEFINE r == s \ {Taken(s)}
    <3>2. r \in SUBSET S
      OBVIOUS
    <3>3. Cardinality(r) = Cardinality(s) - 1
      BY <1>1, <3>1, TakeOne
    <3> HIDE DEF r
    <3>4. r \in Good
      BY <1>3, <2>1, <3>2, <3>3
    <3> QED
      BY <3>1, <3>4 DEF r
  <2> QED
    BY <2>1
<1> HIDE DEF P
<1>4. Cardinality(S) \in P
  <2>1. Cardinality(S) \in Nat
    BY FS_CardinalityType
  <2> QED
    BY <1>2, <1>3, <2>1, NatSet
<1> QED
  BY <1>4 DEF P

\* A sum of terms that are not negative is not negative.
LEMMA SumNotNegative ==
  ASSUME NEW S, IsFiniteSet(S), NEW f \in [S -> Int], NEW it, Sums(it, S, f),
         \A x \in S : f[x] >= 0
  PROVE  it[S] \in Int /\ it[S] >= 0
<1> DEFINE Good == {s \in SUBSET S : it[s] \in Int /\ it[s] >= 0}
<1>1. {} \in Good
  <2>1. {} \in SUBSET S
    OBVIOUS
  <2>2. it[{}] = 0
    BY <2>1 DEF Sums
  <2> QED
    BY <2>1, <2>2
<1>2. ASSUME NEW s \in SUBSET S, s # {}, s \ {Taken(s)} \in Good
      PROVE  s \in Good
  <2>1. Taken(s) \in S
    BY <1>2 DEF Taken
  <2>2. it[s] = f[Taken(s)] + it[s \ {Taken(s)}]
    BY <1>2 DEF Sums
  <2> QED
    BY <1>2, <2>1, <2>2
<1> HIDE DEF Good
<1>3. S \in Good
  BY <1>1, <1>2, TakeInduction
<1> QED
  BY <1>3 DEF Good

\* The numbers in the intervals of s, which begin at from and end before to.
Inside(s, from, to) == {x \in Int : \E k \in s : from[k] <= x /\ x < to[k]}

\* The lengths of intervals that are apart add up to the numbers inside them.
LEMMA SumOfLengths ==
  ASSUME NEW S, IsFiniteSet(S), NEW from \in [S -> Int], NEW to \in [S -> Int],
         NEW f \in [S -> Int], NEW it, Sums(it, S, f),
         \A k \in S : from[k] <= to[k] /\ f[k] = to[k] - from[k],
         \A j, k \in S : j # k => to[j] <= from[k] \/ to[k] <= from[j]
  PROVE  it[S] = Cardinality(Inside(S, from, to))
<1> DEFINE Good == {s \in SUBSET S : /\ IsFiniteSet(Inside(s, from, to))
                                     /\ it[s] = Cardinality(Inside(s, from, to))}
<1>1. {} \in Good
  <2>1. Inside({}, from, to) = {}
    BY DEF Inside
  <2> QED
    BY <2>1, FS_EmptySet DEF Sums
<1>2. ASSUME NEW s \in SUBSET S, s # {}, s \ {Taken(s)} \in Good
      PROVE  s \in Good
  <2> DEFINE t == Taken(s)
             r == s \ {Taken(s)}
             A == Inside(r, from, to)
             B == from[t] .. to[t] - 1
  <2>1. t \in s /\ t \in S
    BY <1>2 DEF Taken
  <2>2. it[s] = f[t] + it[r]
    BY <1>2 DEF Sums
  <2>3. r \subseteq S /\ t \notin r /\ \A k : k \in s <=> k \in r \/ k = t
    BY <2>1
  <2>4. IsFiniteSet(A) /\ it[r] = Cardinality(A)
    BY <1>2
  <2> HIDE DEF t, r
  <2>5. from[t] \in Int /\ to[t] \in Int /\ from[t] <= to[t] /\ f[t] = to[t] - from[t]
    BY <2>1
  <2>6. IsFiniteSet(B) /\ Cardinality(B) = f[t]
    <3>1. to[t] - 1 \in Int
      BY <2>5
    <3>2. /\ IsFiniteSet(B)
          /\ Cardinality(B) = IF from[t] > to[t] - 1 THEN 0 ELSE (to[t] - 1) - from[t] + 1
      BY <2>5, <3>1, FS_Interval
    <3> QED
      BY <2>5, <3>2
  <2>7. Inside(s, from, to) = A \cup B
    <3>1. \A x : x \in B <=> x \in Int /\ from[t] <= x /\ x < to[t]
      BY <2>5
    <3> HIDE DEF B
    <3> QED
      BY <2>3, <3>1 DEF Inside
  <2>8. A \cap B = {}
    <3>1. ASSUME NEW x \in A, x \in B
          PROVE  FALSE
      <4>1. PICK k \in r : x \in Int /\ from[k] <= x /\ x < to[k]
        BY DEF Inside
      <4>2. from[t] <= x /\ x < to[t]
        BY <2>5, <3>1
      <4>3. k \in S /\ k # t /\ from[k] \in Int /\ to[k] \in Int
        BY <2>3
      <4>4. to[k] <= from[t] \/ to[t] <= from[k]
        BY <2>1, <4>3
      <4> QED
        BY <2>5, <4>1, <4>2, <4>3, <4>4
    <3> QED
      BY <3>1
  <2> HIDE DEF A, B
  <2>9. /\ IsFiniteSet(A \cup B)
        /\ Cardinality(A \cup B) = Cardinality(A) + Cardinality(B) - Cardinality(A \cap B)
    BY <2>4, <2>6, FS_Union
  <2>10. Cardinality(A \cap B) = 0 /\ Cardinality(A) \in Nat /\ Cardinality(B) \in Nat
    BY <2>4, <2>6, <2>8, FS_EmptySet, FS_CardinalityType
  <2>11. Cardinality(A \cup B) = it[s]
    BY <2>2, <2>4, <2>6, <2>9, <2>10
  <2> QED
    BY <2>7, <2>9, <2>11
<1> HIDE DEF Good
<1>3. S \in Good
  BY <1>1, <1>2, TakeInduction
<1> QED
  BY <1>3 DEF Good

--------------------------------------------------------------------------------
(***************************************************************************)
(* Loops: a function that calls itself until it meets stop                 *)
(***************************************************************************)
\* f is what the loop with the body next makes of each element of D.
Runs(f, D, next, stop) ==
  f = [x \in D |-> IF x \in stop THEN x ELSE f[next[x]]]

\* Each turn leaves less to do.
Descends(left, D, next, stop) ==
  /\ left \in [D -> Nat]
  /\ \A x \in D : x \notin stop => left[next[x]] < left[x]

\* f runs the loop from where less than k is left.
RunsBelow(f, D, next, stop, left, k) ==
  /\ f \in [D -> D]
  /\ \A x \in D : left[x] < k => f[x] = IF x \in stop THEN x ELSE f[next[x]]

LEMMA RunsAlike ==
  ASSUME NEW D, NEW next \in [D -> D], NEW stop, NEW left, Descends(left, D, next, stop),
         NEW f, NEW g, NEW k \in Nat,
         RunsBelow(f, D, next, stop, left, k), RunsBelow(g, D, next, stop, left, k)
  PROVE  \A x \in D : left[x] < k => f[x] = g[x]
<1> DEFINE S == {n \in Nat : n <= k => \A x \in D : left[x] < n => f[x] = g[x]}
<1>1. \A x \in D : left[x] \in Nat
  BY DEF Descends
<1>2. 0 \in S
  BY <1>1
<1>3. ASSUME NEW n \in Nat, n \in S
      PROVE  n + 1 \in S
  <2>1. ASSUME n + 1 <= k, NEW x \in D, left[x] < n + 1
        PROVE  f[x] = g[x]
    <3>1. CASE x \in stop
      BY <1>1, <2>1, <3>1 DEF RunsBelow
    <3>2. CASE x \notin stop
      <4>1. next[x] \in D /\ left[next[x]] < left[x]
        BY <3>2 DEF Descends
      <4>2. left[next[x]] < n
        BY <1>1, <2>1, <4>1
      <4>3. f[next[x]] = g[next[x]]
        BY <1>3, <2>1, <4>1, <4>2
      <4> QED
        BY <1>1, <2>1, <3>2, <4>3 DEF RunsBelow
    <3> QED
      BY <3>1, <3>2
  <2> QED
    BY <2>1
<1> HIDE DEF S
<1>4. k \in S
  BY <1>2, <1>3, NatSet
<1> QED
  BY <1>4 DEF S

LEMMA RunsLonger ==
  ASSUME NEW D, NEW next \in [D -> D], NEW stop, NEW left, Descends(left, D, next, stop),
         NEW k \in Nat
  PROVE  \E f : RunsBelow(f, D, next, stop, left, k)
<1> DEFINE S == {n \in Nat : \E f : RunsBelow(f, D, next, stop, left, n)}
<1>1. \A x \in D : left[x] \in Nat
  BY DEF Descends
<1>2. 0 \in S
  <2> DEFINE f == [x \in D |-> x]
  <2>1. RunsBelow(f, D, next, stop, left, 0)
    BY <1>1 DEF RunsBelow
  <2> QED
    BY <2>1
<1>3. ASSUME NEW n \in Nat, n \in S
      PROVE  n + 1 \in S
  <2>1. PICK f : RunsBelow(f, D, next, stop, left, n)
    BY <1>3
  <2> DEFINE g == [x \in D |-> IF x \in stop THEN x ELSE f[next[x]]]
  <2>2. g \in [D -> D]
    BY <2>1 DEF RunsBelow
  <2>3. ASSUME NEW x \in D, left[x] < n + 1
        PROVE  g[x] = IF x \in stop THEN x ELSE g[next[x]]
    <3>1. SUFFICES ASSUME x \notin stop PROVE g[next[x]] = f[next[x]]
      OBVIOUS
    <3>2. next[x] \in D /\ left[next[x]] < left[x]
      BY <3>1 DEF Descends
    <3>3. left[next[x]] < n
      BY <1>1, <2>3, <3>2
    <3> QED
      BY <2>1, <3>2, <3>3 DEF RunsBelow
  <2> HIDE DEF g
  <2>4. RunsBelow(g, D, next, stop, left, n + 1)
    BY <2>2, <2>3 DEF RunsBelow
  <2> QED
    BY <2>4
<1> HIDE DEF S
<1>4. k \in S
  BY <1>2, <1>3, NatSet
<1> QED
  BY <1>4 DEF S

\* A loop of which each turn leaves less to do has an outcome.
LEMMA LoopExists ==
  ASSUME NEW D, NEW next \in [D -> D], NEW stop, NEW left, Descends(left, D, next, stop)
  PROVE  \E f : Runs(f, D, next, stop)
<1> DEFINE some(k) == CHOOSE f : RunsBelow(f, D, next, stop, left, k)
           f == [x \in D |-> some(left[x] + 1)[x]]
<1>1. \A x \in D : left[x] \in Nat
  BY DEF Descends
<1>2. \A k \in Nat : RunsBelow(some(k), D, next, stop, left, k)
  BY RunsLonger
<1> HIDE DEF some
<1>3. f \in [D -> D]
  <2>1. ASSUME NEW x \in D PROVE some(left[x] + 1)[x] \in D
    <3>1. left[x] + 1 \in Nat
      BY <1>1
    <3> QED
      BY <1>2, <3>1 DEF RunsBelow
  <2> QED
    BY <2>1
<1>4. ASSUME NEW x \in D
      PROVE  f[x] = IF x \in stop THEN x ELSE f[next[x]]
  <2> DEFINE h == some(left[x] + 1)
  <2>1. left[x] + 1 \in Nat /\ left[x] < left[x] + 1 /\ left[x] \in Nat
    BY <1>1
  <2>2. RunsBelow(h, D, next, stop, left, left[x] + 1)
    BY <1>2, <2>1
  <2>3. f[x] = h[x]
    OBVIOUS
  <2> HIDE DEF h
  <2>4. h[x] = IF x \in stop THEN x ELSE h[next[x]]
    BY <2>1, <2>2 DEF RunsBelow
  <2>5. CASE x \notin stop
    <3> DEFINE y == next[x]
               g == some(left[y] + 1)
    <3>1. y \in D /\ left[y] < left[x] /\ left[y] \in Nat
      BY <1>1, <2>5 DEF Descends
    <3>2. left[y] + 1 \in Nat /\ left[y] < left[y] + 1
      BY <3>1
    <3>3. RunsBelow(g, D, next, stop, left, left[y] + 1)
      BY <1>2, <3>2
    <3>4. f[y] = g[y]
      BY <3>1
    <3> HIDE DEF g
    <3>5. RunsBelow(h, D, next, stop, left, left[y] + 1)
      <4>1. \A z \in D : left[z] < left[y] + 1 => left[z] < left[x] + 1
        BY <1>1, <3>1
      <4> QED
        BY <2>2, <4>1 DEF RunsBelow
    <3>6. g[y] = h[y]
      BY <3>1, <3>2, <3>3, <3>5, RunsAlike
    <3> QED
      BY <2>3, <2>4, <2>5, <3>4, <3>6
  <2> QED
    BY <2>3, <2>4, <2>5
<1>5. f = [x \in D |-> f[x]]
  BY <1>3
<1> HIDE DEF f
<1> QED
  BY <1>4, <1>5 DEF Runs

\* What each turn keeps the loop keeps, and it ends where it stops.
LEMMA LoopKeeps ==
  ASSUME NEW D, NEW next \in [D -> D], NEW stop, NEW left, Descends(left, D, next, stop),
         NEW f, Runs(f, D, next, stop), NEW I \in SUBSET D,
         \A x \in I : x \notin stop => next[x] \in I
  PROVE  \A x \in I : f[x] \in I /\ f[x] \in stop
<1> DEFINE S == {n \in Nat : \A x \in I : left[x] < n => f[x] \in I /\ f[x] \in stop}
<1>1. /\ \A x \in D : left[x] \in Nat
      /\ \A x \in D : f[x] = IF x \in stop THEN x ELSE f[next[x]]
  BY DEF Descends, Runs
<1>2. 0 \in S
  BY <1>1
<1>3. ASSUME NEW n \in Nat, n \in S
      PROVE  n + 1 \in S
  <2>1. ASSUME NEW x \in I, left[x] < n + 1
        PROVE  f[x] \in I /\ f[x] \in stop
    <3>1. CASE x \in stop
      BY <1>1, <3>1
    <3>2. CASE x \notin stop
      <4>1. next[x] \in I /\ left[next[x]] < left[x]
        BY <3>2 DEF Descends
      <4>2. left[next[x]] < n
        BY <1>1, <2>1, <4>1
      <4> QED
        BY <1>1, <1>3, <3>2, <4>1, <4>2
    <3> QED
      BY <3>1, <3>2
  <2> QED
    BY <2>1
<1> HIDE DEF S
<1>4. ASSUME NEW x \in I
      PROVE  f[x] \in I /\ f[x] \in stop
  <2>1. left[x] + 1 \in Nat /\ left[x] < left[x] + 1
    BY <1>1
  <2>2. left[x] + 1 \in S
    BY <1>2, <1>3, <2>1, NatSet
  <2> QED
    BY <2>1, <2>2 DEF S
<1> QED
  BY <1>4

--------------------------------------------------------------------------------
(***************************************************************************)
(* Finite sets of numbers in order                                         *)
(***************************************************************************)
LEMMA FiniteBounded ==
  ASSUME NEW S \in SUBSET Nat, IsFiniteSet(S)
  PROVE  \E b \in Nat : \A x \in S : x < b
<1> DEFINE n == Cardinality(S)
<1>1. n \in Nat /\ ExistsBijection(1 .. n, S)
  BY FS_CardinalityType
<1> HIDE DEF n
<1>2. PICK f : f \in Bijection(1 .. n, S)
  BY <1>1 DEF ExistsBijection
<1>3. f \in [1 .. n -> S] /\ \A x \in S : \E k \in 1 .. n : f[k] = x
  BY <1>2 DEF Bijection, Injection, Surjection
<1> DEFINE B == {k \in Nat : k <= n => \E b \in Nat : \A i \in 1 .. k : f[i] < b}
<1>4. 0 \in B
  <2>1. \A i \in 1 .. 0 : f[i] < 0
    OBVIOUS
  <2> QED
    BY <2>1
<1>5. ASSUME NEW k \in Nat, k \in B
      PROVE  k + 1 \in B
  <2>1. SUFFICES ASSUME k + 1 <= n
                 PROVE  \E b \in Nat : \A i \in 1 .. k + 1 : f[i] < b
    OBVIOUS
  <2>2. PICK b \in Nat : \A i \in 1 .. k : f[i] < b
    BY <1>1, <1>5, <2>1
  <2>3. k + 1 \in 1 .. n /\ \A i \in 1 .. k + 1 : i \in 1 .. n
    BY <1>1, <2>1
  <2>4. \A i \in 1 .. k + 1 : f[i] \in Nat
    BY <1>3, <2>3
  <2>5. b + f[k + 1] + 1 \in Nat
    BY <2>3, <2>4
  <2>6. ASSUME NEW i \in 1 .. k + 1 PROVE f[i] < b + f[k + 1] + 1
    <3>1. CASE i = k + 1
      BY <2>4, <3>1
    <3>2. CASE i # k + 1
      <4>1. i \in 1 .. k
        BY <3>2
      <4>2. f[i] < b /\ f[i] \in Nat /\ f[k + 1] \in Nat
        BY <2>2, <2>4, <4>1
      <4> HIDE DEF B
      <4> QED
        BY <4>2
    <3> QED
      BY <3>1, <3>2
  <2> QED
    BY <2>5, <2>6
<1> HIDE DEF B
<1>6. n \in B
  BY <1>1, <1>4, <1>5, NatSet
<1>7. PICK b \in Nat : \A i \in 1 .. n : f[i] < b
  BY <1>1, <1>6 DEF B
<1> QED
  BY <1>3, <1>7

\* s has the elements of S, the smaller ones first.
Enumerates(s, S) ==
  /\ s \in [1 .. Cardinality(S) -> S]
  /\ \A m, n \in 1 .. Cardinality(S) : m < n => s[m] < s[n]

LEMMA EnumerationExists ==
  ASSUME NEW S \in SUBSET Nat, IsFiniteSet(S)
  PROVE  \E s : Enumerates(s, S)
<1> DEFINE B == {k \in Nat : \A T \in SUBSET (0 .. k - 1) : \E s : Enumerates(s, T)}
<1>1. 0 \in B
  <2>1. \A T \in SUBSET (0 .. 0 - 1) : T = {}
    OBVIOUS
  <2>2. Cardinality({}) = 0
    BY FS_EmptySet
  <2> DEFINE s == [k \in 1 .. 0 |-> k]
  <2>3. s \in [1 .. 0 -> {}]
    OBVIOUS
  <2>4. Enumerates(s, {})
    BY <2>2, <2>3 DEF Enumerates
  <2> QED
    BY <2>1, <2>4
<1>2. ASSUME NEW k \in Nat, k \in B
      PROVE  k + 1 \in B
  <2>1. ASSUME NEW T \in SUBSET (0 .. (k + 1) - 1)
        PROVE  \E s : Enumerates(s, T)
    <3> DEFINE R == T \ {k}
               c == Cardinality(R)
    <3>1. R \in SUBSET (0 .. k - 1)
      OBVIOUS
    <3>2. PICK s : Enumerates(s, R)
      BY <1>2, <3>1
    <3>3. CASE k \notin T
      <4>1. R = T
        BY <3>3
      <4> QED
        BY <3>2, <4>1
    <3>4. CASE k \in T
      <4>1. IsFiniteSet(0 .. k - 1)
        BY FS_Interval
      <4>2. IsFiniteSet(R) /\ c \in Nat
        BY <3>1, <4>1, FS_Subset, FS_CardinalityType
      <4>3. T = R \cup {k} /\ k \notin R
        BY <3>4
      <4> HIDE DEF R
      <4>4. Cardinality(T) = c + 1
        BY <4>2, <4>3, FS_AddElement
      <4> HIDE DEF c
      <4> DEFINE t == [i \in 1 .. c + 1 |-> IF i = c + 1 THEN k ELSE s[i]]
      <4>5. s \in [1 .. c -> R] /\ \A m, n \in 1 .. c : m < n => s[m] < s[n]
        BY <3>2 DEF Enumerates, c
      <4>6. ASSUME NEW i \in 1 .. c + 1
            PROVE  t[i] \in T /\ (i # c + 1 => i \in 1 .. c /\ t[i] = s[i] /\ s[i] < k)
        <5>1. CASE i = c + 1
          BY <4>3, <5>1
        <5>2. CASE i # c + 1
          <6>1. i \in 1 .. c
            BY <4>2, <5>2
          <6>2. s[i] \in R /\ s[i] \in 0 .. k - 1
            BY <3>1, <4>5, <6>1
          <6> QED
            BY <4>3, <5>2, <6>1, <6>2
        <5> QED
          BY <5>1, <5>2
      <4>7. t \in [1 .. c + 1 -> T]
        BY <4>6
      <4>8. ASSUME NEW m \in 1 .. c + 1, NEW n \in 1 .. c + 1, m < n
            PROVE  t[m] < t[n]
        <5>1. m # c + 1
          BY <4>2, <4>8
        <5>2. m \in 1 .. c /\ t[m] = s[m] /\ s[m] < k
          BY <4>6, <5>1
        <5>3. CASE n = c + 1
          BY <5>2, <5>3
        <5>4. CASE n # c + 1
          BY <4>5, <4>6, <4>8, <5>2, <5>4
        <5> QED
          BY <5>3, <5>4
      <4> HIDE DEF t
      <4>9. Enumerates(t, T)
        BY <4>4, <4>7, <4>8 DEF Enumerates
      <4> QED
        BY <4>9
    <3> QED
      BY <3>3, <3>4
  <2> QED
    BY <2>1
<1> HIDE DEF B
<1>3. PICK b \in Nat : \A x \in S : x < b
  BY FiniteBounded
<1>4. S \in SUBSET (0 .. b - 1)
  BY <1>3
<1>5. b \in B
  BY <1>1, <1>2, NatSet
<1> QED
  BY <1>4, <1>5 DEF B

\* Such a sequence leaves out no element.
LEMMA EnumeratesAll ==
  ASSUME NEW S \in SUBSET Nat, IsFiniteSet(S), NEW s, Enumerates(s, S)
  PROVE  /\ Cardinality(S) \in Nat
         /\ \A x \in S : \E k \in 1 .. Cardinality(S) : s[k] = x
<1> DEFINE n == Cardinality(S)
<1>1. n \in Nat
  BY FS_CardinalityType
<1>2. IsFiniteSet(1 .. n) /\ Cardinality(1 .. n) = n
  BY <1>1, FS_Interval
<1>3. s \in [1 .. n -> S] /\ \A i, j \in 1 .. n : i < j => s[i] < s[j]
  BY DEF Enumerates
<1>4. \A i, j \in 1 .. n : i # j => s[i] # s[j]
  <2>1. \A i \in 1 .. n : s[i] \in Nat
    BY <1>3
  <2> HIDE DEF n
  <2> QED
    BY <1>1, <1>3, <2>1
<1>5. s \in Injection(1 .. n, S)
  <2> HIDE DEF n
  <2> QED
    BY <1>3, <1>4 DEF Injection, IsInjective
<1>6. s \in Surjection(1 .. n, S)
  BY <1>2, <1>5, FS_Injection
<1> QED
  BY <1>1, <1>6 DEF Surjection
===============================================================================
