---------------------------- MODULE DirNamesProofs ----------------------------
(***************************************************************************)
(* Escaping is undone by unescaping and keeps the order of names, whatever *)
(* the names: theorems about Escape, and from them the order in which the  *)
(* table of WatchDaemon is read.                                           *)
(***************************************************************************)
EXTENDS DirNames, WatchDaemonProofs, FoldLemmas

(***************************************************************************)
(* Escape                                                                  *)
(***************************************************************************)
\* A text is a sequence of character codes, and what Escape makes of one character.
Text == Seq(Int)
Piece(ch) == IF ch \in {Quote, Backslash} THEN <<Backslash, ch>> ELSE <<ch>>

\* A character becomes one or two.
LEMMA PieceFacts ==
  ASSUME NEW ch \in Int
  PROVE  /\ Piece(ch) \in Text
         /\ ch \notin {Quote, Backslash} => Len(Piece(ch)) = 1 /\ Piece(ch)[1] = ch
         /\ ch \in {Quote, Backslash} =>
              /\ Len(Piece(ch)) = 2
              /\ Piece(ch)[1] = Backslash /\ Piece(ch)[2] = ch
BY DEF Piece, Text, Quote, Backslash

\* What is appended to a text.
LEMMA Joined ==
  ASSUME NEW s \in Text, NEW t \in Text
  PROVE  /\ s \o t \in Text
         /\ Len(s \o t) = Len(s) + Len(t)
         /\ \A i \in 1 .. Len(s) : (s \o t)[i] = s[i]
         /\ \A i \in 1 .. Len(t) : (s \o t)[Len(s) + i] = t[i]
BY DEF Text

\* d is what Escape makes of the first characters of s, for each number of them.
Escapes(s, d) ==
  /\ d \in [0 .. Len(s) -> Text]
  /\ d[0] = <<>>
  /\ d[Len(s)] = Escape(s)
  /\ \A k \in 1 .. Len(s) : d[k] = d[k - 1] \o Piece(s[k])

\* Escape takes the characters one by one.
LEMMA EscapeTrace ==
  ASSUME NEW s \in Text
  PROVE  \E d : Escapes(s, d)
<1> DEFINE seqs == [i \in DOMAIN s |-> IF s[i] \in {Quote, Backslash}
                                       THEN <<Backslash, s[i]>> ELSE <<s[i]>>]
<1>1. Len(s) \in Nat /\ DOMAIN s = 1 .. Len(s) /\ \A k \in 1 .. Len(s) : s[k] \in Int
  BY DEF Text
<1>2. \A k \in 1 .. Len(s) : seqs[k] = Piece(s[k]) /\ seqs[k] \in Text
  BY <1>1, PieceFacts DEF Piece
<1>3. DOMAIN seqs = 1 .. Len(s)
  BY <1>1
<1>4. Escape(s) = FlattenSeq(seqs)
  BY DEF Escape
<1>5. seqs = [k \in 1 .. Len(s) |-> seqs[k]]
  BY <1>1
<1> HIDE DEF seqs
<1>6. seqs \in Seq(Text) /\ Len(seqs) = Len(s)
  BY <1>1, <1>2, <1>5
<1>7. PICK d \in [0 .. Len(s) -> Text] :
        /\ d[0] = <<>>
        /\ d[Len(s)] = FlattenSeq(seqs)
        /\ \A k \in 1 .. Len(s) : d[k] = d[k - 1] \o seqs[k]
  <2>1. seqs \in Seq(Seq(Int))
    BY <1>6 DEF Text
  <2>2. \E d \in [0 .. Len(seqs) -> Seq(Int)] :
          /\ d[0] = <<>>
          /\ d[Len(seqs)] = FlattenSeq(seqs)
          /\ \A k \in 1 .. Len(seqs) : d[k] = d[k - 1] \o seqs[k]
    BY <2>1, FlattenTrace
  <2> QED
    BY <1>6, <2>2 DEF Text
<1>8. \A k \in 1 .. Len(s) : d[k] = d[k - 1] \o Piece(s[k])
  BY <1>2, <1>7
<1>9. Escapes(s, d)
  BY <1>4, <1>7, <1>8 DEF Escapes
<1> QED
  BY <1>9

\* What is escaped first stays in front.
LEMMA EscapePrefix ==
  ASSUME NEW s \in Text, NEW d, Escapes(s, d), NEW k \in 0 .. Len(s)
  PROVE  /\ Escape(s) \in Text
         /\ Len(d[k]) \in Nat /\ Len(d[k]) <= Len(Escape(s))
         /\ \A i \in 1 .. Len(d[k]) : Escape(s)[i] = d[k][i]
<1>1. Len(s) \in Nat /\ \A j \in 1 .. Len(s) : s[j] \in Int
  BY DEF Text
<1>2. \A j \in 0 .. Len(s) : d[j] \in Text /\ Len(d[j]) \in Nat
  BY DEF Escapes, Text
<1> DEFINE Ahead(j) == /\ Len(d[k]) <= Len(d[j])
                       /\ \A i \in 1 .. Len(d[k]) : d[j][i] = d[k][i]
           S == {m \in Nat : k + m <= Len(s) => Ahead(k + m)}
<1>3. 0 \in S
  BY <1>2
<1>4. ASSUME NEW m \in Nat, m \in S
      PROVE  m + 1 \in S
  <2>1. SUFFICES ASSUME k + (m + 1) <= Len(s) PROVE Ahead(k + (m + 1))
    OBVIOUS
  <2>2. Ahead(k + m)
    BY <1>1, <1>4, <2>1
  <2> DEFINE j == k + (m + 1)
  <2>3. j \in 1 .. Len(s) /\ j - 1 = k + m /\ j - 1 \in 0 .. Len(s)
    BY <1>1, <2>1
  <2> HIDE DEF j
  <2>4. d[j] = d[j - 1] \o Piece(s[j]) /\ Piece(s[j]) \in Text /\ s[j] \in Int
    BY <1>1, <2>3, PieceFacts DEF Escapes
  <2>5. Len(Piece(s[j])) \in Nat
    BY <2>4 DEF Text
  <2>6. /\ Len(d[j]) = Len(d[j - 1]) + Len(Piece(s[j]))
        /\ \A i \in 1 .. Len(d[j - 1]) : d[j][i] = d[j - 1][i]
    <3> DEFINE a == d[j - 1]
               b == Piece(s[j])
    <3>1. a \in Text /\ b \in Text /\ d[j] = a \o b
      BY <1>2, <2>3, <2>4
    <3> HIDE DEF a, b
    <3>2. /\ Len(d[j]) = Len(a) + Len(b)
          /\ \A i \in 1 .. Len(a) : d[j][i] = a[i]
      BY <3>1, Joined
    <3> QED
      BY <3>2 DEF a, b
  <2>7. Ahead(j - 1)
    BY <2>2, <2>3
  <2>8. Len(d[k]) \in Nat /\ Len(d[j - 1]) \in Nat
    BY <1>2, <2>3
  <2>9. Len(d[k]) <= Len(d[j])
    <3>1. Len(d[k]) <= Len(d[j - 1]) /\ Len(d[j]) = Len(d[j - 1]) + Len(Piece(s[j]))
      BY <2>6, <2>7
    <3>2. \A x, y, z \in Nat : x <= y => x <= y + z
      OBVIOUS
    <3> QED
      BY <2>5, <2>8, <3>1, <3>2
  <2>10. ASSUME NEW i \in 1 .. Len(d[k])
         PROVE  d[j][i] = d[k][i]
    <3>1. i \in 1 .. Len(d[j - 1])
      BY <2>7, <2>8
    <3> QED
      BY <2>6, <2>7, <3>1
  <2>11. Ahead(j)
    BY <2>9, <2>10
  <2> HIDE DEF Ahead
  <2> QED
    BY <2>11 DEF j
<1> HIDE DEF S
<1>5. \A m \in Nat : m \in S
  BY <1>3, <1>4, NatSet
<1>6. Len(s) - k \in Nat /\ k + (Len(s) - k) = Len(s)
  BY <1>1
<1>7. Ahead(Len(s))
  BY <1>5, <1>6 DEF S
<1>8. d[Len(s)] = Escape(s)
  BY DEF Escapes
<1> QED
  BY <1>1, <1>2, <1>7, <1>8

\* part is in t, after the first p characters.
Holds(t, p, part) ==
  /\ p \in Nat /\ p + Len(part) <= Len(t)
  /\ \A i \in 1 .. Len(part) : t[p + i] = part[i]

\* The characters that one character of s becomes are where they were appended.
LEMMA EscapePiece ==
  ASSUME NEW s \in Text, NEW d, Escapes(s, d), NEW k \in 1 .. Len(s)
  PROVE  /\ Len(d[k]) = Len(d[k - 1]) + Len(Piece(s[k]))
         /\ Holds(Escape(s), Len(d[k - 1]), Piece(s[k]))
<1>1. Len(s) \in Nat /\ s[k] \in Int /\ k - 1 \in 0 .. Len(s) /\ k \in 0 .. Len(s)
  BY DEF Text
<1>2. d[k] = d[k - 1] \o Piece(s[k]) /\ Piece(s[k]) \in Text /\ d[k - 1] \in Text
  BY <1>1, PieceFacts DEF Escapes
<1> DEFINE a == d[k - 1]
           b == Piece(s[k])
<1>3. a \in Text /\ b \in Text /\ d[k] = a \o b
  BY <1>2
<1> HIDE DEF a, b
<1>4. Len(a) \in Nat /\ Len(b) \in Nat
  BY <1>3 DEF Text
<1>5. /\ Len(d[k]) = Len(a) + Len(b)
      /\ \A i \in 1 .. Len(b) : d[k][Len(a) + i] = b[i]
  BY <1>3, Joined
<1>6. ASSUME NEW i \in 1 .. Len(b)
      PROVE  Escape(s)[Len(a) + i] = b[i]
  <2>1. Len(a) + i \in 1 .. Len(d[k])
    BY <1>4, <1>5
  <2>2. Escape(s)[Len(a) + i] = d[k][Len(a) + i]
    BY <1>1, <2>1, EscapePrefix
  <2> QED
    BY <1>5, <2>2
<1>7. Len(d[k]) <= Len(Escape(s))
  BY <1>1, EscapePrefix
<1> QED
  BY <1>4, <1>5, <1>6, <1>7 DEF Holds, a, b

--------------------------------------------------------------------------------
(***************************************************************************)
(* Unescape                                                                *)
(***************************************************************************)
Readings == [out : Text, escaped : BOOLEAN]
NothingRead == [out |-> <<>>, escaped |-> FALSE]

\* What the loop does with one character.
Reading(state, ch) ==
  IF ~state.escaped /\ ch = Backslash
  THEN [state EXCEPT !.escaped = TRUE]
  ELSE [out |-> Append(state.out, ch), escaped |-> FALSE]

\* u is where the loop is after the first characters of t, for each number of them.
Reads(t, u) ==
  /\ u \in [0 .. Len(t) -> Readings]
  /\ u[0] = NothingRead
  /\ u[Len(t)].out = Unescape(t)
  /\ \A k \in 1 .. Len(t) : u[k] = Reading(u[k - 1], t[k])

LEMMA ReadingType ==
  ASSUME NEW state \in Readings, NEW ch \in Int
  PROVE  Reading(state, ch) \in Readings
<1>1. state.out \in Seq(Int)
  BY DEF Readings, Text
<1>2. Append(state.out, ch) \in Seq(Int)
  BY <1>1
<1> QED
  BY <1>2 DEF Reading, Readings, Text

LEMMA SetEscaped ==
  ASSUME NEW state \in Readings
  PROVE  [state EXCEPT !.escaped = TRUE] = [out |-> state.out, escaped |-> TRUE]
<1> DEFINE x == [state EXCEPT !.escaped = TRUE]
<1>1. x \in Readings /\ x.out = state.out /\ x.escaped = TRUE
  BY DEF Readings
<1> HIDE DEF x
<1>2. x = [out |-> state.out, escaped |-> TRUE]
  BY <1>1 DEF Readings
<1> QED
  BY <1>2 DEF x

\* Unescape takes the characters one by one.
LEMMA UnescapeTrace ==
  ASSUME NEW t \in Text
  PROVE  \E u : Reads(t, u)
<1> DEFINE n == Len(t)
           step == [k \in 1 .. n |-> [state \in Readings |-> Reading(state, t[k])]]
           Folds(it) == it = [s \in SUBSET DOMAIN t |->
                                IF s = {} THEN NothingRead
                                ELSE Reading(it[s \ {Max(s)}], t[Max(s)])]
           fold == CHOOSE it : Folds(it)
<1>1. n \in Nat /\ DOMAIN t = 1 .. n /\ \A k \in 1 .. n : t[k] \in Int
  BY DEF Text
<1>2. Unescape(t) = fold[DOMAIN t].out
  BY DEF Unescape, FoldLeft, MapThenFoldSet, Reading, NothingRead
<1> HIDE DEF n
<1>3. NothingRead \in Readings
  BY DEF NothingRead, Readings, Text
<1>4. step \in [1 .. n -> [Readings -> Readings]]
  BY <1>1, ReadingType
<1>5. \E it : Folds(it)
  <2>1. PICK it : Solves(it, n, Readings, NothingRead, step)
    <3> HIDE DEF step
    <3> QED
      BY <1>1, <1>3, <1>4, FoldExists
  <2>2. ASSUME NEW s \in SUBSET (1 .. n), s # {}
        PROVE  it[s] = Reading(it[s \ {Max(s)}], t[Max(s)])
    <3>1. Max(s) \in 1 .. n /\ s \ {Max(s)} \in SUBSET (1 .. n)
      BY <1>1, <2>2, MaxIn
    <3> HIDE DEF Reading
    <3> QED
      BY <2>1, <2>2, <3>1 DEF Solves
  <2>3. Folds(it)
    BY <1>1, <2>1, <2>2 DEF Solves
  <2> QED
    BY <2>3
<1>6. Folds(fold)
  <2> HIDE DEF Folds
  <2> QED
    BY <1>5
<1> HIDE DEF fold
<1>7. /\ fold[1 .. 0] = NothingRead
      /\ \A k \in 1 .. n : fold[1 .. k] = Reading(fold[1 .. k - 1], t[k])
  <2>1. 1 .. 0 = {}
    OBVIOUS
  <2>2. fold[{}] = NothingRead
    BY <1>6
  <2>3. ASSUME NEW k \in 1 .. n
        PROVE  fold[1 .. k] = Reading(fold[1 .. k - 1], t[k])
    <3>1. /\ 1 .. k \in SUBSET (1 .. n) /\ 1 .. k # {}
          /\ Max(1 .. k) = k
          /\ (1 .. k) \ {Max(1 .. k)} = 1 .. k - 1
      BY <1>1, MaxPrefix
    <3> QED
      BY <1>1, <1>6, <3>1
  <2> QED
    BY <2>1, <2>2, <2>3
<1>8. \A k \in 1 .. n : fold[1 .. k - 1] \in Readings =>
                          fold[1 .. k] = step[k][fold[1 .. k - 1]]
  BY <1>7
<1> HIDE DEF step
<1>9. PICK u : Steps(u, n, Readings, NothingRead, step, fold[1 .. n])
  BY <1>1, <1>3, <1>4, <1>7, <1>8, FoldPrefixes
<1>10. ASSUME NEW k \in 1 .. n
       PROVE  u[k] = Reading(u[k - 1], t[k])
  <2>1. u[k - 1] \in Readings
    BY <1>1, <1>9 DEF Steps
  <2> QED
    BY <1>9, <2>1 DEF Steps, step
<1>11. Reads(t, u)
  BY <1>1, <1>2, <1>9, <1>10 DEF Steps, Reads, n
<1> QED
  BY <1>11

\* Reading what one character was escaped to appends that character.
LEMMA ReadPiece ==
  ASSUME NEW t \in Text, NEW u, Reads(t, u), NEW out \in Text, NEW ch \in Int, NEW p \in Nat,
         Holds(t, p, Piece(ch)),
         u[p] = [out |-> out, escaped |-> FALSE]
  PROVE  u[p + Len(Piece(ch))] = [out |-> Append(out, ch), escaped |-> FALSE]
<1>1. Len(t) \in Nat
  BY DEF Text
<1>2. \A i \in 1 .. Len(Piece(ch)) : u[p + i] = Reading(u[p + i - 1], Piece(ch)[i])
  <2>1. ASSUME NEW i \in 1 .. Len(Piece(ch))
        PROVE  u[p + i] = Reading(u[p + i - 1], Piece(ch)[i])
    <3>1. Len(Piece(ch)) \in Nat
      BY PieceFacts DEF Text
    <3>2. p + i \in 1 .. Len(t)
      BY <1>1, <3>1 DEF Holds
    <3> QED
      BY <3>2 DEF Holds, Reads
  <2> QED
    BY <2>1
<1>3. CASE ch \notin {Quote, Backslash}
  <2>1. Len(Piece(ch)) = 1 /\ Piece(ch)[1] = ch
    BY <1>3, PieceFacts
  <2>2. u[p + 1] = Reading(u[p], ch)
    <3>1. p + 1 - 1 = p /\ 1 \in 1 .. Len(Piece(ch))
      BY <2>1
    <3> QED
      BY <1>2, <2>1, <3>1
  <2>3. Reading(u[p], ch) = [out |-> Append(out, ch), escaped |-> FALSE]
    BY <1>3 DEF Reading
  <2> QED
    BY <2>1, <2>2, <2>3
<1>4. CASE ch \in {Quote, Backslash}
  <2>1. Len(Piece(ch)) = 2 /\ Piece(ch)[1] = Backslash /\ Piece(ch)[2] = ch
    BY <1>4, PieceFacts
  <2>2. u[p + 1] = Reading(u[p], Backslash) /\ u[p + 2] = Reading(u[p + 1], ch)
    <3>1. p + 1 - 1 = p /\ p + 2 - 1 = p + 1 /\ {1, 2} \subseteq 1 .. Len(Piece(ch))
      BY <2>1
    <3> QED
      BY <1>2, <2>1, <3>1
  <2>3. Reading(u[p], Backslash) = [out |-> out, escaped |-> TRUE]
    <3>1. u[p] \in Readings
      BY DEF Readings
    <3>2. [u[p] EXCEPT !.escaped = TRUE] = [out |-> u[p].out, escaped |-> TRUE]
      BY <3>1, SetEscaped
    <3>3. ~u[p].escaped /\ u[p].out = out
      OBVIOUS
    <3> QED
      BY <3>2, <3>3, Zenon DEF Reading
  <2>4. Reading(u[p + 1], ch) = [out |-> Append(out, ch), escaped |-> FALSE]
    BY <2>2, <2>3 DEF Reading
  <2> QED
    BY <2>1, <2>2, <2>4
<1> QED
  BY <1>3, <1>4

\* The texts that the first characters make.
LEMMA FirstPart ==
  ASSUME NEW s \in Text, NEW k \in 0 .. Len(s)
  PROVE  /\ SubSeq(s, 1, k) \in Text
         /\ SubSeq(s, 1, 0) = <<>> /\ SubSeq(s, 1, Len(s)) = s
         /\ k < Len(s) => SubSeq(s, 1, k + 1) = Append(SubSeq(s, 1, k), s[k + 1])
BY DEF Text

\* What Escape makes of a text, Unescape makes the text again: whatever backslashes
\* and quotation marks it has.
THEOREM UnescapeUndoesEscape ==
  ASSUME NEW s \in Text
  PROVE  Unescape(Escape(s)) = s
<1>1. PICK d : Escapes(s, d)
  BY EscapeTrace
<1>2. Len(s) \in Nat /\ \A k \in 1 .. Len(s) : s[k] \in Int
  BY DEF Text
<1> DEFINE t == Escape(s)
<1>3. t \in Text /\ \A k \in 0 .. Len(s) : Len(d[k]) \in Nat /\ Len(d[k]) <= Len(t)
  <2>1. 0 \in 0 .. Len(s)
    BY <1>2
  <2> QED
    BY <1>1, <2>1, EscapePrefix
<1>4. d[Len(s)] = t /\ Len(d[0]) = 0
  BY <1>1 DEF Escapes
<1>5. \A k \in 1 .. Len(s) : /\ Len(d[k]) = Len(d[k - 1]) + Len(Piece(s[k]))
                              /\ Holds(t, Len(d[k - 1]), Piece(s[k]))
  BY <1>1, EscapePiece
<1> HIDE DEF t
<1>6. PICK u : Reads(t, u)
  BY <1>3, UnescapeTrace
<1> DEFINE Read(k) == u[Len(d[k])] = [out |-> SubSeq(s, 1, k), escaped |-> FALSE]
           S == {k \in Nat : k <= Len(s) => Read(k)}
<1>7. 0 \in S
  <2>1. SubSeq(s, 1, 0) = <<>>
    BY <1>2, FirstPart
  <2> QED
    BY <1>4, <1>6, <2>1 DEF Reads, NothingRead
<1>8. ASSUME NEW k \in Nat, k \in S
      PROVE  k + 1 \in S
  <2>1. SUFFICES ASSUME k + 1 <= Len(s) PROVE Read(k + 1)
    OBVIOUS
  <2>2. Read(k)
    BY <1>2, <1>8, <2>1
  <2> DEFINE p == Len(d[k])
             ch == s[k + 1]
             out == SubSeq(s, 1, k)
  <2>3. k + 1 \in 1 .. Len(s) /\ (k + 1) - 1 = k /\ k \in 0 .. Len(s) /\ k < Len(s)
    BY <1>2, <2>1
  <2>4. p \in Nat /\ ch \in Int /\ out \in Text
    BY <1>2, <1>3, <2>3, FirstPart
  <2>5. Len(d[k + 1]) = p + Len(Piece(ch)) /\ Holds(t, p, Piece(ch))
    BY <1>5, <2>3
  <2>7. SubSeq(s, 1, k + 1) = Append(out, ch)
    BY <2>3, FirstPart
  <2>8. u[p] = [out |-> out, escaped |-> FALSE]
    BY <2>2
  <2> HIDE DEF p, ch, out
  <2>9. u[p + Len(Piece(ch))] = [out |-> Append(out, ch), escaped |-> FALSE]
    BY <1>3, <1>6, <2>4, <2>5, <2>8, ReadPiece
  <2> QED
    BY <2>5, <2>7, <2>9
<1> HIDE DEF S
<1>9. Len(s) \in S
  BY <1>2, <1>7, <1>8, NatSet
<1>10. u[Len(t)] = [out |-> SubSeq(s, 1, Len(s)), escaped |-> FALSE]
  BY <1>2, <1>4, <1>9 DEF S
<1>11. SubSeq(s, 1, Len(s)) = s
  BY <1>2, FirstPart
<1> QED
  BY <1>6, <1>10, <1>11 DEF Reads, t

--------------------------------------------------------------------------------
(***************************************************************************)
(* The order of escaped names                                              *)
(***************************************************************************)
\* The first n characters of s are those of t.
Alike(s, t, n) == n <= Len(s) /\ n <= Len(t) /\ \A i \in 1 .. n : s[i] = t[i]

\* Texts that begin alike are escaped alike, as far as they are alike.
LEMMA SameStart ==
  ASSUME NEW s \in Text, NEW t \in Text, NEW d, Escapes(s, d), NEW e, Escapes(t, e),
         NEW n \in Nat, Alike(s, t, n)
  PROVE  d[n] = e[n]
<1> DEFINE S == {k \in Nat : k <= n => d[k] = e[k]}
<1>1. Len(s) \in Nat /\ Len(t) \in Nat
  BY DEF Text
<1>2. 0 \in S
  BY DEF Escapes
<1>3. ASSUME NEW k \in Nat, k \in S
      PROVE  k + 1 \in S
  <2>1. SUFFICES ASSUME k + 1 <= n PROVE d[k + 1] = e[k + 1]
    OBVIOUS
  <2>2. /\ k + 1 \in 1 .. Len(s) /\ k + 1 \in 1 .. Len(t) /\ k + 1 \in 1 .. n
        /\ (k + 1) - 1 = k /\ d[k] = e[k]
    BY <1>1, <1>3, <2>1 DEF Alike
  <2>3. /\ d[k + 1] = d[k] \o Piece(s[k + 1])
        /\ e[k + 1] = e[k] \o Piece(t[k + 1])
    BY <2>2 DEF Escapes
  <2>4. s[k + 1] = t[k + 1]
    BY <2>2 DEF Alike
  <2> QED
    BY <2>2, <2>3, <2>4
<1> HIDE DEF S
<1>4. \A k \in Nat : k \in S
  BY <1>2, <1>3, NatSet
<1> QED
  BY <1>4 DEF S

\* The first m characters of a text are those of another.
LEMMA StartsAlike ==
  ASSUME NEW s \in Text, NEW t \in Text, NEW m \in Nat, m <= Len(s), m <= Len(t)
  PROVE  SubSeq(s, 1, m) = SubSeq(t, 1, m) <=> \A i \in 1 .. m : s[i] = t[i]
<1>1. /\ SubSeq(s, 1, m) = [i \in 1 .. m |-> s[i]]
      /\ SubSeq(t, 1, m) = [i \in 1 .. m |-> t[i]]
  BY DEF Text
<1>2. ASSUME SubSeq(s, 1, m) = SubSeq(t, 1, m), NEW i \in 1 .. m
      PROVE  s[i] = t[i]
  <2>1. [j \in 1 .. m |-> s[j]][i] = [j \in 1 .. m |-> t[j]][i]
    BY <1>1, <1>2
  <2> QED
    BY <2>1
<1>3. ASSUME \A i \in 1 .. m : s[i] = t[i]
      PROVE  SubSeq(s, 1, m) = SubSeq(t, 1, m)
  BY <1>1, <1>3
<1> QED
  BY <1>2, <1>3

\* Names without quotation marks come in the same order escaped as they do plain:
\* a backslash becomes two, and never anything that another letter could begin with.
THEOREM EscapeKeepsOrder ==
  ASSUME NEW s \in Seq(Int \ {Quote}), NEW t \in Seq(Int \ {Quote}), Precedes(s, t)
  PROVE  Precedes(Escape(s), Escape(t))
<1>1. /\ s \in Text /\ t \in Text /\ Len(s) \in Nat /\ Len(t) \in Nat
      /\ \A k \in 1 .. Len(s) : s[k] \in Int \ {Quote}
      /\ \A k \in 1 .. Len(t) : t[k] \in Int \ {Quote}
  BY DEF Text
<1>2. PICK n \in 0 .. Len(s) : /\ n < Len(t)
                               /\ SubSeq(s, 1, n) = SubSeq(t, 1, n)
                               /\ n < Len(s) => s[n + 1] < t[n + 1]
  BY DEF Precedes
<1>3. PICK d : Escapes(s, d)
  BY <1>1, EscapeTrace
<1>4. PICK e : Escapes(t, e)
  BY <1>1, EscapeTrace
<1>5. n \in Nat /\ Alike(s, t, n)
  BY <1>1, <1>2, StartsAlike DEF Alike
<1>6. d[n] = e[n]
  BY <1>1, <1>3, <1>4, <1>5, SameStart
<1> DEFINE m == Len(d[n])
<1>7. /\ Escape(s) \in Text /\ m \in Nat /\ m <= Len(Escape(s))
      /\ \A i \in 1 .. m : Escape(s)[i] = d[n][i]
  BY <1>1, <1>3, EscapePrefix
<1>8. /\ Escape(t) \in Text
      /\ \A i \in 1 .. m : Escape(t)[i] = d[n][i]
  <2>1. n \in 0 .. Len(t)
    BY <1>1, <1>2
  <2> QED
    BY <1>1, <1>4, <1>6, <2>1, EscapePrefix
<1> HIDE DEF m
\* A piece begins with its character.
<1>9. ASSUME NEW r \in Text, NEW ch \in Int \ {Quote}, Holds(r, m, Piece(ch))
      PROVE  m < Len(r) /\ r[m + 1] = ch
  <2>1. Len(Piece(ch)) \in {1, 2} /\ Piece(ch)[1] = ch
    BY PieceFacts
  <2>2. 1 \in 1 .. Len(Piece(ch)) /\ Len(r) \in Nat
    BY <2>1 DEF Text
  <2> QED
    BY <1>7, <1>9, <2>1, <2>2 DEF Holds
<1>10. m < Len(Escape(t)) /\ Escape(t)[m + 1] = t[n + 1]
  <2>1. n + 1 \in 1 .. Len(t) /\ (n + 1) - 1 = n
    BY <1>1, <1>2
  <2>2. Holds(Escape(t), m, Piece(t[n + 1]))
    BY <1>1, <1>4, <1>6, <2>1, EscapePiece DEF m
  <2> QED
    BY <1>1, <1>8, <1>9, <2>1, <2>2
<1>11. ASSUME m < Len(Escape(s))
       PROVE  n < Len(s) /\ Escape(s)[m + 1] = s[n + 1]
  <2>1. n # Len(s)
    <3>1. ASSUME n = Len(s)
          PROVE  FALSE
      <4>1. d[n] = Escape(s)
        BY <1>3, <3>1 DEF Escapes
      <4> QED
        BY <1>7, <1>11, <4>1 DEF m
    <3> QED
      BY <3>1
  <2>2. n + 1 \in 1 .. Len(s) /\ (n + 1) - 1 = n
    BY <1>1, <2>1
  <2>3. Holds(Escape(s), m, Piece(s[n + 1]))
    BY <1>1, <1>3, <2>2, EscapePiece DEF m
  <2> QED
    BY <1>1, <1>7, <1>9, <2>2, <2>3
<1>12. SubSeq(Escape(s), 1, m) = SubSeq(Escape(t), 1, m)
  <2>1. m <= Len(Escape(t))
    BY <1>7, <1>8, <1>10 DEF Text
  <2> QED
    BY <1>7, <1>8, <2>1, StartsAlike
<1>13. m \in 0 .. Len(Escape(s))
  BY <1>7 DEF Text
<1> QED
  BY <1>2, <1>10, <1>11, <1>12, <1>13 DEF Precedes

\* Escaping brings in no quotation mark.
LEMMA EscapeUnquoted ==
  ASSUME NEW s \in Seq(Int \ {Quote})
  PROVE  Escape(s) \in Seq(Int \ {Quote})
<1>1. s \in Text /\ Len(s) \in Nat /\ \A k \in 1 .. Len(s) : s[k] \in Int \ {Quote}
  BY DEF Text
<1>2. PICK d : Escapes(s, d)
  BY <1>1, EscapeTrace
<1> DEFINE S == {k \in Nat : k <= Len(s) => d[k] \in Seq(Int \ {Quote})}
<1>3. 0 \in S
  BY <1>2 DEF Escapes
<1>4. ASSUME NEW k \in Nat, k \in S
      PROVE  k + 1 \in S
  <2>1. SUFFICES ASSUME k + 1 <= Len(s) PROVE d[k + 1] \in Seq(Int \ {Quote})
    OBVIOUS
  <2>2. k + 1 \in 1 .. Len(s) /\ (k + 1) - 1 = k /\ d[k] \in Seq(Int \ {Quote})
    BY <1>1, <1>4, <2>1
  <2>3. d[k + 1] = d[k] \o Piece(s[k + 1])
    BY <1>2, <2>2 DEF Escapes
  <2>4. Piece(s[k + 1]) \in Seq(Int \ {Quote})
    <3>1. s[k + 1] \in Int \ {Quote} /\ Backslash \in Int \ {Quote}
      BY <1>1, <2>2 DEF Backslash, Quote
    <3>2. \A X : \A a, b \in X : <<a>> \in Seq(X) /\ <<a, b>> \in Seq(X)
      OBVIOUS
    <3> QED
      BY <3>1, <3>2 DEF Piece
  <2> QED
    BY <2>2, <2>3, <2>4
<1> HIDE DEF S
<1>5. Len(s) \in S
  BY <1>1, <1>3, <1>4, NatSet
<1> QED
  BY <1>1, <1>2, <1>5 DEF S, Escapes

\* Whatever the directories are called, rows that are in the order of the plain names
\* are in the order of the names as the table has them.
LEMMA StoredOrder ==
  ASSUME NEW d \in Dirs, NEW e \in Dirs, d < e
  PROVE  ReadBefore[d][e]
<1>1. ASSUME NEW n \in Namings
      PROVE  Precedes(Stored(n[d]), Stored(n[e]))
  <2>1. n[d] \in Names /\ n[e] \in Names
    BY <1>1 DEF Namings
  <2>2. Names \subseteq Seq(Int \ {Quote})
    <3>1. Letters \cup {Backslash} \subseteq Int \ {Quote}
      BY LetterAssumption DEF Backslash, Quote
    <3>2. ASSUME NEW f \in Names
          PROVE  f \in Seq(Int \ {Quote})
      <4>1. PICK m \in 0 .. MaxLength : f \in [1 .. m -> Letters \cup {Backslash}]
        BY DEF Names, SeqOf
      <4>2. m \in Nat /\ f \in [1 .. m -> Int \ {Quote}]
        BY <3>1, <4>1, LetterAssumption
      <4> QED
        BY <4>2
    <3> QED
      BY <3>2
  <2> DEFINE s == Escape(n[d])
             t == Escape(n[e])
  <2>3. s \in Seq(Int \ {Quote}) /\ t \in Seq(Int \ {Quote})
    BY <2>1, <2>2, EscapeUnquoted
  <2>4. Precedes(Unescape(Escape(s)), Unescape(Escape(t)))
    BY <1>1 DEF Namings, Stored
  <2> HIDE DEF s, t
  <2>5. s \in Text /\ t \in Text
    BY <2>3 DEF Text
  <2>6. Precedes(s, t)
    BY <2>4, <2>5, UnescapeUndoesEscape
  <2>7. Precedes(Escape(s), Escape(t))
    BY <2>3, <2>6, EscapeKeepsOrder
  <2> QED
    BY <2>7 DEF Stored, s, t
<1> QED
  BY <1>1 DEF ReadBefore

\* "matches sort order from getDBWatches": for any alphabet, any names and any order
\* of them, the table is read in the order in which existingWatches is sorted.
THEOREM AlwaysInOrder == Spec => []ReadInOrder
<1>1. IInv => ReadInOrder
  <2> SUFFICES ASSUME IInv, NEW r \in rows, NEW s \in rows, r.dir < s.dir
               PROVE  ReadBefore[r.dir][s.dir]
    BY DEF ReadInOrder
  <2>1. r.dir \in Dirs /\ s.dir \in Dirs
    BY DEF IInv, TypeOK, Rows
  <2> QED
    BY <2>1, StoredOrder
<1> QED
  BY <1>1, Invariance, PTL
================================================================================
