---------------------------- MODULE IntervalsProofs ----------------------------
(***************************************************************************)
(* What a Collector holds after any set of ticks fed to it in order, and   *)
(* from it the properties of Intervals for any gap, clock and ranges.      *)
(***************************************************************************)
EXTENDS Intervals, TLAPS

(***************************************************************************)
(* The Collector                                                           *)
(***************************************************************************)
Collectors ==
  [l : Nat, r : Nat, start : Times \cup {0}, end : Times \cup {0},
   intervals : Seq(Interval)]

\* The intervals have a duration, in order and more than Gap apart.
Apart(v) ==
  /\ \A i \in DOMAIN v : v[i].start < v[i].end
  /\ \A i, j \in DOMAIN v : i < j => v[i].end + Gap < v[j].start

\* Second x is in the interval that the collector has not closed yet.
InOpen(k, x) == max(k.l, k.start) <= x /\ x < min(k.r, k.end)

\* The second x of [l, r] is worked in S.
WorkedIn(k, S, x) == k.l <= x /\ x < k.r /\ Worked(S, x)

\* Collector k has been given the ticks of S, the earliest first.
Ends(k, S) ==
  /\ S = {} => k.start = 0 /\ k.end = 0 /\ k.intervals = <<>>
  /\ S # {} => k.start \in S /\ k.end \in S /\ k.start <= k.end
  /\ S # {} /\ k.start <= k.r => \A t \in S : t <= k.end
Closed(k) == \A i \in DOMAIN k.intervals : k.intervals[i].end + Gap < k.start
Covered(k, S) ==
  \A x \in Nat : Covers(k.intervals, x) \/ InOpen(k, x) <=> WorkedIn(k, S, x)
Collected(k, S) ==
  /\ k \in Collectors
  /\ S \subseteq Times
  /\ Ends(k, S)
  /\ Apart(k.intervals)
  /\ Closed(k)
  /\ Covered(k, S)

\* Times are numbers after Gap.
LEMMA TimesAfterGap ==
  /\ Times \subseteq Nat
  /\ \A t \in Times : t > Gap
  /\ Gap \in Nat
BY TimeAssumption DEF Times

\* The types of a collector's fields, the clock's bounds aside.
LEMMA CollectorParts ==
  ASSUME NEW k \in Collectors
  PROVE  /\ k.l \in Nat /\ k.r \in Nat /\ k.start \in Nat /\ k.end \in Nat
         /\ k.intervals \in Seq(Interval)
<1>1. k.l \in Nat /\ k.r \in Nat /\ k.intervals \in Seq(Interval)
  BY DEF Collectors
<1>2. k.start \in Times \cup {0} /\ k.end \in Times \cup {0}
  BY DEF Collectors
<1>3. Times \cup {0} \subseteq Nat
  BY TimesAfterGap
<1> QED
  BY <1>1, <1>2, <1>3

\* A collector starts with no tick.
LEMMA CollectedNew ==
  ASSUME NEW l \in Nat, NEW r \in Nat
  PROVE  Collected(NewCollector(l, r), {})
<1> DEFINE k == NewCollector(l, r)
<1>1. k \in Collectors
  BY DEF NewCollector, Collectors
<1>2. Ends(k, {}) /\ Apart(k.intervals) /\ Closed(k)
  BY DEF NewCollector, Ends, Apart, Closed
<1>3. Covered(k, {})
  BY DEF NewCollector, Covered, Covers, InOpen, WorkedIn, Worked, max, min
<1> QED
  BY <1>1, <1>2, <1>3 DEF Collected

\* Closing the open interval: what WithInterval returns is apart, all of it lies
\* before a tick more than Gap after the open one, and it covers what the
\* collector covered.
LEMMA CloseInterval ==
  ASSUME NEW S, NEW k, Collected(k, S)
  PROVE  /\ WithInterval(k) \in Seq(Interval)
         /\ Apart(WithInterval(k))
         /\ \A i \in DOMAIN WithInterval(k) :
              WithInterval(k)[i].end <= k.end \/ WithInterval(k)[i].end + Gap < k.start
         /\ \A x \in Nat : Covers(WithInterval(k), x) <=> WorkedIn(k, S, x)
<1> DEFINE s == max(k.l, k.start)
           e == min(k.r, k.end)
           v == k.intervals
<1>1. /\ Apart(v) /\ Closed(k) /\ Covered(k, S)
      /\ v \in Seq(Interval)
      /\ k.l \in Nat /\ k.r \in Nat /\ k.start \in Nat /\ k.end \in Nat
      /\ Gap \in Nat
  BY TimesAfterGap, CollectorParts DEF Collected
<1>2. s \in Nat /\ e \in Nat /\ k.start <= s /\ e <= k.end
  BY <1>1 DEF min, max
<1>3. CASE e <= s
  <2>1. WithInterval(k) = v
    BY <1>3 DEF WithInterval
  <2>2. \A x \in Nat : ~InOpen(k, x)
    BY <1>2, <1>3 DEF InOpen
  <2>3. \A x \in Nat : Covers(v, x) <=> WorkedIn(k, S, x)
    BY <1>1, <2>2 DEF Covered
  <2> QED
    BY <1>1, <2>1, <2>3 DEF Closed
<1>4. CASE ~(e <= s)
  <2> DEFINE w == Append(v, [start |-> s, end |-> e])
  <2>1. WithInterval(k) = w
    BY <1>4 DEF WithInterval
  <2>2. [start |-> s, end |-> e] \in Interval
    BY <1>2 DEF Interval
  <2> HIDE DEF s, e, v
  <2>3. /\ w \in Seq(Interval)
        /\ DOMAIN w = 1 .. Len(v) + 1
        /\ DOMAIN v = 1 .. Len(v)
        /\ Len(v) \in Nat
        /\ \A i \in 1 .. Len(v) : w[i] = v[i]
        /\ w[Len(v) + 1] = [start |-> s, end |-> e]
    BY <1>1, <2>2
  <2> HIDE DEF w
  <2>4. \A i \in 1 .. Len(v) : /\ v[i] \in Interval
                               /\ v[i].start \in Nat
                               /\ v[i].end \in Nat
    <3>1. \A i \in 1 .. Len(v) : v[i] \in Interval
      BY <1>1
    <3> QED
      BY <3>1 DEF Interval
  <2>5. \A i \in DOMAIN w : i \in 1 .. Len(v) \/ i = Len(v) + 1
    BY <2>3
  <2>6. \A i \in 1 .. Len(v) : v[i].end + Gap < s
    <3>1. \A i \in 1 .. Len(v) : v[i].end + Gap < k.start
      BY <1>1, <2>3 DEF Closed, v
    <3> QED
      BY <1>1, <1>2, <2>4, <3>1
  <2>7. Apart(w)
    <3>1. \A i \in DOMAIN w : w[i].start < w[i].end
      BY <1>1, <1>2, <1>4, <2>3, <2>5 DEF Apart
    <3>2. \A i, j \in DOMAIN w : i < j => w[i].end + Gap < w[j].start
      BY <1>1, <1>2, <2>3, <2>5, <2>6 DEF Apart
    <3> QED
      BY <3>1, <3>2 DEF Apart
  <2>8. \A i \in DOMAIN w : w[i].end <= k.end \/ w[i].end + Gap < k.start
    BY <1>1, <1>2, <2>3, <2>5 DEF Closed, v
  <2>9. \A x \in Nat : Covers(w, x) <=> Covers(v, x) \/ (s <= x /\ x < e)
    BY <2>3, <2>5 DEF Covers
  <2>10. \A x \in Nat : Covers(w, x) <=> WorkedIn(k, S, x)
    BY <1>1, <2>9 DEF Covered, InOpen, s, e, v
  <2> QED
    BY <2>1, <2>3, <2>7, <2>8, <2>10
<1> QED
  BY <1>3, <1>4

\* One more tick, no earlier than the others.
LEMMA CollectedAdd ==
  ASSUME NEW S, NEW k, Collected(k, S), NEW t \in Times, \A u \in S : u <= t
  PROVE  /\ Collected(Add(k, t), S \cup {t})
         /\ Add(k, t).l = k.l /\ Add(k, t).r = k.r
<1> DEFINE a == Add(k, t)
           T == S \cup {t}
<1>1. /\ k \in Collectors /\ S \subseteq Times /\ Ends(k, S)
      /\ Apart(k.intervals) /\ Closed(k) /\ Covered(k, S)
  BY DEF Collected
<1>2. /\ k.l \in Nat /\ k.r \in Nat /\ k.start \in Nat /\ k.end \in Nat
      /\ k.intervals \in Seq(Interval)
  BY <1>1, CollectorParts
<1>3. /\ t \in Nat /\ Gap \in Nat /\ t > Gap /\ S \subseteq Nat
      /\ \A u \in S : u > Gap /\ u \in Nat
  BY <1>1, TimesAfterGap
<1>4. T \subseteq Times
  BY <1>1
<1>5. CASE k.start > k.r
  <2>1. a = k
    BY <1>2, <1>5 DEF Add
  <2>2. S # {} /\ k.start \in S
    BY <1>1, <1>2, <1>5 DEF Ends
  <2>3. Ends(k, T)
    BY <1>1, <1>2, <1>5, <2>2 DEF Ends
  <2>4. ASSUME NEW x \in Nat
        PROVE  WorkedIn(k, T, x) <=> WorkedIn(k, S, x)
    <3>1. WorkedIn(k, S, x) => WorkedIn(k, T, x)
      BY DEF WorkedIn, Worked
    <3>2. ASSUME WorkedIn(k, T, x)
          PROVE  WorkedIn(k, S, x)
      <4>1. PICK b \in T, d \in T : b <= x /\ x < d /\ d - b <= Gap
        BY <3>2 DEF WorkedIn, Worked
      <4>2. b \in S /\ x < k.r
        BY <1>2, <1>3, <1>5, <2>2, <3>2, <4>1 DEF WorkedIn
      <4>3. CASE d \in S
        BY <3>2, <4>1, <4>2, <4>3 DEF WorkedIn, Worked
      <4>4. CASE d = t
        <5>1. b <= x /\ x < k.start /\ k.start - b <= Gap
          BY <1>2, <1>3, <1>5, <2>2, <4>1, <4>2, <4>4
        <5> QED
          BY <2>2, <3>2, <4>2, <5>1 DEF WorkedIn, Worked
      <4> QED
        BY <4>1, <4>3, <4>4
    <3> QED
      BY <3>1, <3>2
  <2>5. Covered(k, T)
    BY <1>1, <2>4 DEF Covered
  <2> QED
    BY <1>1, <1>4, <2>1, <2>3, <2>5 DEF Collected
<1>6. CASE k.start <= k.r /\ t - k.end <= Gap
  <2>1. a = [k EXCEPT !.end = t]
    BY <1>2, <1>6 DEF Add
  <2>2. /\ a \in Collectors
        /\ a.l = k.l /\ a.r = k.r /\ a.start = k.start /\ a.end = t
        /\ a.intervals = k.intervals
    BY <1>1, <2>1 DEF Collectors
  <2> HIDE DEF a
  <2>3. S # {}
    BY <1>1, <1>3, <1>6 DEF Ends
  <2>4. k.start \in S /\ k.end \in S /\ k.start <= k.end /\ \A u \in S : u <= k.end
    BY <1>1, <1>6, <2>3 DEF Ends
  <2>5. k.end <= t
    BY <2>4
  <2>6. Ends(a, T)
    BY <1>2, <1>3, <2>2, <2>4, <2>5 DEF Ends
  <2>7. Apart(a.intervals) /\ Closed(a)
    BY <1>1, <2>2 DEF Closed
  <2>8. ASSUME NEW x \in Nat
        PROVE  InOpen(a, x) <=>
                 InOpen(k, x) \/ (k.l <= x /\ x < k.r /\ k.end <= x /\ x < t)
    BY <1>2, <1>3, <2>2, <2>4, <2>5 DEF InOpen, max, min
  <2>9. ASSUME NEW x \in Nat
        PROVE  Worked(T, x) <=> Worked(S, x) \/ (k.end <= x /\ x < t)
    <3>1. Worked(S, x) => Worked(T, x)
      BY DEF Worked
    <3>2. k.end <= x /\ x < t => Worked(T, x)
      BY <1>6, <2>4 DEF Worked
    <3>3. ASSUME Worked(T, x), ~(k.end <= x /\ x < t)
          PROVE  Worked(S, x)
      <4>1. PICK b \in T, d \in T : b <= x /\ x < d /\ d - b <= Gap
        BY <3>3 DEF Worked
      <4>2. d <= t /\ x < t /\ x < k.end /\ b \in S
        BY <1>2, <1>3, <2>5, <3>3, <4>1
      <4>3. CASE d \in S
        BY <4>1, <4>2, <4>3 DEF Worked
      <4>4. CASE d = t
        <5>1. k.end - b <= Gap
          BY <1>2, <1>3, <2>5, <4>1, <4>2, <4>4
        <5> QED
          BY <2>4, <4>1, <4>2, <5>1 DEF Worked
      <4> QED
        BY <4>1, <4>3, <4>4
    <3> QED
      BY <3>1, <3>2, <3>3
  <2>10. Covered(a, T)
    BY <1>1, <2>2, <2>8, <2>9 DEF Covered, WorkedIn
  <2> QED
    BY <1>4, <2>2, <2>6, <2>7, <2>10 DEF Collected, a
<1>7. CASE ~(k.start > k.r) /\ ~(k.start <= k.r /\ t - k.end <= Gap)
  <2> DEFINE v == WithInterval(k)
  <2>1. t - k.end > Gap /\ k.start <= k.r
    BY <1>2, <1>3, <1>7
  <2>2. a = [k EXCEPT !.start = t, !.end = t, !.intervals = v]
    BY <1>2, <1>7 DEF Add
  <2>3. /\ v \in Seq(Interval) /\ Apart(v)
        /\ \A i \in DOMAIN v : v[i].end <= k.end \/ v[i].end + Gap < k.start
        /\ \A x \in Nat : Covers(v, x) <=> WorkedIn(k, S, x)
    BY CloseInterval
  <2> HIDE DEF v
  <2>4. /\ a \in Collectors
        /\ a.l = k.l /\ a.r = k.r /\ a.start = t /\ a.end = t /\ a.intervals = v
    BY <1>1, <2>2, <2>3 DEF Collectors
  <2> HIDE DEF a
  <2>5. \A u \in S : u <= k.end
    BY <1>1, <2>1 DEF Ends
  <2>6. k.start <= k.end
    BY <1>1, <1>2 DEF Ends
  <2>7. Ends(a, T)
    BY <1>3, <2>4 DEF Ends
  <2>8. Closed(a)
    <3>1. ASSUME NEW i \in DOMAIN v
          PROVE  v[i].end + Gap < t
      <4>1. v[i] \in Interval
        BY <2>3
      <4>2. v[i].end \in Nat
        BY <4>1 DEF Interval
      <4> QED
        BY <1>2, <1>3, <2>1, <2>3, <2>6, <4>2
    <3> QED
      BY <2>4, <3>1 DEF Closed
  <2>9. ASSUME NEW x \in Nat
        PROVE  Worked(T, x) <=> Worked(S, x)
    BY <1>2, <1>3, <2>1, <2>5 DEF Worked
  <2>10. ASSUME NEW x \in Nat
         PROVE  ~InOpen(a, x)
    BY <1>2, <1>3, <2>4 DEF InOpen, max, min
  <2>11. Covered(a, T)
    BY <2>3, <2>4, <2>9, <2>10 DEF Covered, WorkedIn
  <2> QED
    BY <1>4, <2>3, <2>4, <2>7, <2>8, <2>11 DEF Collected, a
<1> QED
  BY <1>5, <1>6, <1>7

--------------------------------------------------------------------------------
(***************************************************************************)
(* The inductive invariant                                                 *)
(***************************************************************************)
\* The rows that the request has read.
ReadRows == {t \in Rows : t <= prevT}

\* Every variable has its type.
Types ==
  /\ now \in Times
  /\ ticks \subseteq Times
  /\ phase \in {"none", "rows"}
  /\ table \subseteq Times
  /\ c \in Collectors
  /\ prevT \in Times \cup {0}
  /\ response \in [intervals : Seq(Interval), endGap : Nat]
Past == \A t \in ticks \cup table : t <= now
Request ==
  phase = "rows" =>
    /\ Collected(c, ReadRows)
    /\ prevT = 0 \/ prevT \in Rows
IInv == Types /\ Past /\ Request /\ IntervalsApart

\* The invariant holds at first.
LEMMA InitInv == Init => IInv
<1> SUFFICES ASSUME Init PROVE IInv
  OBVIOUS
<1>1. Types
  <2>1. now \in Times
    BY TimeAssumption DEF Init, Times
  <2>2. c \in Collectors
    BY DEF Init, NewCollector, Collectors
  <2> QED
    BY <2>1, <2>2 DEF Init, NoResponse, Types
<1>2. Past /\ Request /\ IntervalsApart
  BY DEF Init, NoResponse, Past, Request, IntervalsApart
<1> QED
  BY <1>1, <1>2 DEF IInv

\* A request starts with no row read.
LEMMA GetIntervalsInv ==
  ASSUME IInv, NEW l \in Nat, NEW r \in Nat, GetIntervals(l, r)
  PROVE  IInv'
<1>1. Collected(c', {})
  BY CollectedNew DEF GetIntervals
<1>2. ReadRows' = {}
  <2>1. Rows' \subseteq Times /\ prevT' = 0
    BY DEF GetIntervals, Rows, IInv, Types
  <2>2. \A t \in Times : ~(t <= 0)
    BY TimesAfterGap
  <2> QED
    BY <2>1, <2>2 DEF ReadRows
<1>3. Request'
  BY <1>1, <1>2 DEF GetIntervals, Request
<1>4. response' = [intervals |-> <<>>, endGap |-> 0]
  BY DEF GetIntervals, NoResponse
<1>5. IntervalsApart'
  BY <1>4 DEF IntervalsApart
<1>6. Types' /\ Past'
  BY <1>1, <1>4 DEF IInv, Types, Past, GetIntervals, Collected
<1> QED
  BY <1>3, <1>5, <1>6 DEF IInv

\* The next row joins the rows read, and the collector has been given it.
LEMMA ReadRowInv ==
  ASSUME IInv, ReadRow
  PROVE  IInv'
<1>1. PICK t \in Unread : /\ \A u \in Unread : t <= u
                          /\ c' = Add(c, t)
                          /\ prevT' = t
  BY DEF ReadRow
<1>2. /\ phase = "rows" /\ phase' = "rows"
      /\ UNCHANGED <<now, ticks, table, response>>
  BY DEF ReadRow
<1>3. t \in Rows /\ prevT < t /\ t \in Times /\ Rows \subseteq Times
  BY DEF Unread, Rows, IInv, Types
<1>4. t \in Nat /\ prevT \in Nat /\ Times \subseteq Nat
  BY <1>3, TimesAfterGap DEF IInv, Types
<1>5. Collected(c, ReadRows)
  BY <1>2 DEF IInv, Request
<1>6. \A u \in ReadRows : u <= t
  BY <1>3, <1>4 DEF ReadRows
<1>7. /\ Collected(Add(c, t), ReadRows \cup {t})
      /\ Add(c, t).l = c.l /\ Add(c, t).r = c.r
  BY <1>3, <1>5, <1>6, CollectedAdd
<1>8. Rows' = Rows
  BY <1>1, <1>2, <1>7 DEF Rows
<1>9. ReadRows' = ReadRows \cup {t}
  <2>1. \A u \in Rows : u \in Nat /\ (u <= t <=> u <= prevT \/ u = t)
    BY <1>1, <1>3, <1>4 DEF Unread
  <2>2. ReadRows' = {u \in Rows : u <= t}
    BY <1>1, <1>8 DEF ReadRows
  <2> QED
    BY <1>3, <2>1, <2>2 DEF ReadRows
<1>10. Request'
  BY <1>1, <1>3, <1>7, <1>8, <1>9 DEF Request
<1>11. Types'
  BY <1>1, <1>2, <1>3, <1>7 DEF IInv, Types, Collected
<1>12. Past' /\ IntervalsApart'
  BY <1>2 DEF IInv, Past, IntervalsApart
<1> QED
  BY <1>10, <1>11, <1>12 DEF IInv

\* What a request that ends knows: the latest tick it has read, and all the rows
\* before that one.
LEMMA RowsRead ==
  ASSUME IInv, phase = "rows"
  PROVE  /\ Collected(c, ReadRows)
         /\ \A t \in ReadRows : t <= prevT
         /\ prevT = 0 \/ prevT \in ReadRows
         /\ prevT \in Nat /\ now \in Times /\ now \in Nat /\ prevT <= now
         /\ ReadRows \subseteq ReadTicks /\ ReadTicks \subseteq table /\ table \subseteq Times
         /\ \A t \in ReadTicks : t \in Nat /\ t <= now /\ (t \in Rows => t \in ReadRows)
<1>1. prevT \in Nat /\ now \in Times /\ now \in Nat /\ table \subseteq Times
  BY TimesAfterGap DEF IInv, Types
<1>2. \A t \in table : t \in Nat /\ t <= now
  BY <1>1, TimesAfterGap DEF IInv, Past
<1>3. Collected(c, ReadRows) /\ (prevT = 0 \/ prevT \in ReadRows)
  BY <1>1 DEF IInv, Request, ReadRows
<1>4. ReadRows \subseteq Rows /\ Rows \subseteq table /\ ReadTicks \subseteq table
  BY DEF ReadRows, Rows, ReadTicks
<1>5. prevT <= now
  BY <1>1, <1>2, <1>3, <1>4
<1>6. \A t \in Rows : t \in Unread <=> ~(t <= prevT)
  BY <1>1, <1>2, <1>4 DEF Unread
<1>7. Unread \subseteq Rows
  BY DEF Unread
<1>8. /\ ReadRows \subseteq ReadTicks
      /\ \A t \in ReadTicks : t \in Rows => t \in ReadRows
  BY <1>4, <1>6, <1>7 DEF ReadRows, ReadTicks
<1> QED
  BY <1>1, <1>2, <1>3, <1>4, <1>5, <1>8 DEF ReadRows

\* The collector and the ticks it has been given when it closes: the present is
\* one of them if the latest tick is near.
Final == IF Ongoing THEN Add(c, now) ELSE c
FinalTicks == IF Ongoing THEN ReadRows \cup {now} ELSE ReadRows
FinalGap == IF Ongoing THEN now - prevT ELSE 0

\* What a request does when it ends.
LEMMA FinishStep ==
  ASSUME IInv, Finish
  PROVE  /\ phase = "rows"
         /\ Collected(Final, FinalTicks)
         /\ Final.l = c.l /\ Final.r = c.r
         /\ response' = [intervals |-> WithInterval(Final), endGap |-> FinalGap]
         /\ phase' = "none" /\ table' = {} /\ prevT' = 0
         /\ c' = NewCollector(0, 0)
         /\ UNCHANGED <<now, ticks>>
<1>1. phase = "rows"
  BY DEF Finish, Respond
<1>2. /\ Collected(c, ReadRows) /\ now \in Times
      /\ \A t \in ReadRows : t <= now
  BY <1>1, RowsRead
<1>3. Collected(Final, FinalTicks) /\ Final.l = c.l /\ Final.r = c.r
  BY <1>2, CollectedAdd DEF Final, FinalTicks
<1> QED
  BY <1>1, <1>3 DEF Finish, Respond, Final, FinalGap

\* A response leaves the invariant.
LEMMA FinishInv ==
  ASSUME IInv, Finish
  PROVE  IInv'
<1>1. /\ WithInterval(Final) \in Seq(Interval)
      /\ Apart(WithInterval(Final))
  BY FinishStep, CloseInterval
<1>2. FinalGap \in Nat
  BY FinishStep, RowsRead DEF FinalGap
<1>3. c' \in Collectors
  BY FinishStep, CollectedNew DEF Collected
<1>4. Types'
  BY <1>1, <1>2, <1>3, FinishStep DEF IInv, Types
<1>5. IntervalsApart'
  BY <1>1, FinishStep DEF Apart, IntervalsApart
<1>6. Past' /\ Request'
  BY FinishStep DEF IInv, Past, Request
<1> QED
  BY <1>4, <1>5, <1>6 DEF IInv

\* Ticks and the clock leave a request alone.
LEMMA OutsideInv ==
  ASSUME IInv, Tick \/ Advance \/ UNCHANGED vars
  PROVE  IInv'
<1>1. UNCHANGED <<phase, table, c, prevT, response>>
  BY DEF Tick, Advance, vars
<1>2. Types' /\ Past'
  <2>1. now \in Nat /\ \A t \in ticks \cup table : t \in Nat /\ t <= now
    BY TimesAfterGap DEF IInv, Types, Past
  <2>2. CASE Tick
    BY <1>1, <2>1, <2>2 DEF IInv, Types, Past, Tick
  <2>3. CASE Advance
    <3>1. now' = now + 1 /\ now' \in Times /\ ticks' = ticks
      BY <2>1, <2>3, TimeAssumption DEF IInv, Types, Advance, Times
    <3>2. \A t \in ticks \cup table : t <= now + 1
      BY <2>1
    <3> QED
      BY <1>1, <3>1, <3>2 DEF IInv, Types, Past
  <2>4. CASE UNCHANGED vars
    BY <2>4 DEF IInv, Types, Past, vars
  <2> QED
    BY <2>2, <2>3, <2>4
<1>3. ReadRows' = ReadRows /\ Rows' = Rows
  BY <1>1 DEF ReadRows, Rows
<1>4. Request' /\ IntervalsApart'
  BY <1>1, <1>3 DEF IInv, Request, IntervalsApart
<1> QED
  BY <1>2, <1>4 DEF IInv

\* Every step keeps the invariant.
LEMMA StepInv ==
  ASSUME IInv, [Next]_vars
  PROVE  IInv'
<1>1. ASSUME NEW range \in Ranges, GetIntervals(range[1], range[2])
      PROVE  IInv'
  <2>1. range[1] \in Nat /\ range[2] \in Nat
    BY TimeAssumption
  <2> QED
    BY <1>1, <2>1, GetIntervalsInv
<1> QED
  BY <1>1, ReadRowInv, FinishInv, OutsideInv DEF Next

\* The invariant of GetIntervals.
THEOREM Invariance == Spec => []IInv
BY InitInv, StepInv, PTL DEF Spec

\* Every variable has its type.
THEOREM TypeCorrect == Spec => []TypeOK
<1>1. IInv => TypeOK
  BY DEF IInv, Types, TypeOK, Collectors
<1> QED
  BY <1>1, Invariance, PTL

\* The intervals of a response have a duration, in order, and are apart by more
\* than maxEventGap, for any ticks and any range.
THEOREM ApartAlways == Spec => []IntervalsApart
<1>1. IInv => IntervalsApart
  BY DEF IInv
<1> QED
  BY <1>1, Invariance, PTL

--------------------------------------------------------------------------------
(***************************************************************************)
(* What a response says                                                    *)
(***************************************************************************)
\* Only Finish answers.
LEMMA OnlyFinish ==
  ASSUME [Next]_vars, Answers
  PROVE  Finish
BY DEF Next, vars, Answers, GetIntervals, ReadRow, Tick, Advance

\* The query's window holds both ticks of any second of the range that is worked.
LEMMA WindowWideEnough ==
  ASSUME IInv, phase = "rows", NEW x \in Nat, c.l <= x, x < c.r,
         NEW a \in Nat, NEW b \in Nat, a <= x, x < b, b - a <= Gap
  PROVE  /\ a \in ReadTicks => a \in ReadRows
         /\ b \in ReadTicks => b \in ReadRows
         /\ b <= c.r + Gap /\ c.l - Gap <= a
<1>1. c.l \in Nat /\ c.r \in Nat /\ Gap \in Nat
  BY CollectorParts, TimesAfterGap DEF IInv, Types
<1>2. b <= c.r + Gap /\ c.l - Gap <= a
  BY <1>1
<1>3. /\ a \in table => a \in Rows
      /\ b \in table => b \in Rows
  BY <1>1, <1>2 DEF Rows
<1> QED
  BY <1>2, <1>3, RowsRead

\* The rows the query leaves out, and the ticks near the present it does not see,
\* make no difference to a second of the range.
LEMMA RowsSuffice ==
  ASSUME IInv, phase = "rows", NEW x \in Nat, c.l <= x, x < c.r
  PROVE  Worked(FinalTicks, x) <=> Worked(WithNow(ReadTicks), x)
<1>1. /\ prevT = 0 \/ prevT \in ReadRows
      /\ \A t \in ReadRows : t <= prevT
      /\ prevT \in Nat /\ now \in Nat /\ prevT <= now
      /\ ReadRows \subseteq ReadTicks
      /\ ReadTicks \subseteq table
      /\ \A t \in ReadTicks : t \in Nat /\ t <= now /\ (t \in Rows => t \in ReadRows)
      /\ Gap \in Nat /\ now > Gap
  BY RowsRead, TimesAfterGap
<1>2. FinalTicks \subseteq WithNow(ReadTicks)
  BY <1>1 DEF FinalTicks, WithNow, Ongoing
<1>3. Worked(FinalTicks, x) => Worked(WithNow(ReadTicks), x)
  BY <1>2 DEF Worked
<1>4. ASSUME Worked(WithNow(ReadTicks), x)
      PROVE  Worked(FinalTicks, x)
  <2>1. PICK a \in WithNow(ReadTicks), b \in WithNow(ReadTicks) :
          a <= x /\ x < b /\ b - a <= Gap
    BY <1>4 DEF Worked
  <2>2. a \in Nat /\ b \in Nat /\ b <= now
    BY <1>1 DEF WithNow
  <2>3. /\ a \in ReadTicks => a \in ReadRows
        /\ b \in ReadTicks => b \in ReadRows
        /\ b <= c.r + Gap /\ c.l - Gap <= a
    BY <2>1, <2>2, WindowWideEnough
  <2>4. a \in ReadTicks
    BY <1>1, <2>1, <2>2 DEF WithNow
  <2>5. a \in ReadRows /\ a \in FinalTicks
    BY <2>3, <2>4 DEF FinalTicks
  <2>6. CASE b \in ReadTicks
    <3>1. b \in FinalTicks
      BY <2>3, <2>6 DEF FinalTicks
    <3> QED
      BY <2>1, <2>5, <3>1 DEF Worked
  <2>7. CASE b \notin ReadTicks
    <3>1. b = now /\ \E t \in ReadTicks : now - t < Gap
      BY <2>7 DEF WithNow
    <3>2. PICK t \in ReadTicks : now - t < Gap
      BY <3>1
    <3>3. CASE Ongoing
      BY <2>1, <2>5, <3>1, <3>3 DEF FinalTicks, Worked
    <3>4. CASE ~Ongoing
      \* The latest row is exactly Gap old, and t after it, in the window.
      <4>1. now - prevT >= Gap
        BY <1>1, <3>4 DEF Ongoing
      <4>2. a <= prevT /\ t > prevT
        BY <1>1, <2>5, <3>2, <4>1
      <4>3. c.l \in Nat /\ c.r \in Nat
        BY CollectorParts DEF IInv, Types
      <4>4. t \in Rows
        BY <1>1, <2>2, <2>3, <3>1, <3>2, <4>2, <4>3 DEF Rows
      <4> QED
        BY <1>1, <4>2, <4>4
    <3> QED
      BY <3>3, <3>4
  <2> QED
    BY <2>6, <2>7
<1> QED
  BY <1>3, <1>4

\* A response covers the seconds of the range between ticks no more than
\* maxEventGap apart, the present one of them if the latest is near, and no
\* others: for any gap and range, whatever is recorded while rows are read, and,
\* where the reading fails, of the ticks that were read.
THEOREM WorkedTimeCorrect == Spec => WorkedTime
<1> DEFINE Right == \A x \in 0 .. MaxTime :
             Covers(response'.intervals, x)
               <=> c.l <= x /\ x < c.r /\ Worked(WithNow(ReadTicks), x)
<1>1. ASSUME IInv, [Next]_vars, Answers
      PROVE  Right
  <2>1. Finish
    BY <1>1, OnlyFinish
  <2>2. /\ phase = "rows"
        /\ response'.intervals = WithInterval(Final)
        /\ Final.l = c.l /\ Final.r = c.r
    BY <1>1, <2>1, FinishStep
  <2>3. \A x \in Nat :
          Covers(WithInterval(Final), x) <=> WorkedIn(Final, FinalTicks, x)
    BY <1>1, <2>1, FinishStep, CloseInterval
  <2>4. ASSUME NEW x \in Nat, c.l <= x, x < c.r
        PROVE  Worked(FinalTicks, x) <=> Worked(WithNow(ReadTicks), x)
    BY <1>1, <2>2, <2>4, RowsSuffice
  <2>5. \A x \in Nat : Covers(response'.intervals, x)
                         <=> c.l <= x /\ x < c.r /\ Worked(WithNow(ReadTicks), x)
    BY <2>2, <2>3, <2>4 DEF WorkedIn
  <2>6. 0 .. MaxTime \subseteq Nat
    BY TimeAssumption
  <2> QED
    BY <2>5, <2>6
<1>2. IInv /\ [Next]_vars => [Answers => Right]_vars
  BY <1>1
<1> QED
  BY <1>2, Invariance, PTL DEF Spec, WorkedTime

\* A response with an EndGap, for a range that holds the latest tick and the
\* present: the interval that goes on to the present holds the latest tick, and
\* the others end before it.
LEMMA OngoingStep ==
  ASSUME IInv, Finish, c.l <= prevT, now <= c.r, FinalGap > 0
  PROVE  /\ FinalGap = now - prevT /\ prevT < now /\ prevT \in ReadRows
         /\ c.intervals \in Seq(Interval)
         /\ \A j \in DOMAIN c.intervals : c.intervals[j].end <= prevT
         /\ \E i \in Interval : /\ i.start <= prevT /\ i.end = now
                                /\ WithInterval(Final) = Append(c.intervals, i)
<1>1. phase = "rows"
  BY FinishStep
<1>2. Ongoing /\ FinalGap = now - prevT
  BY DEF FinalGap
<1>3. /\ Collected(c, ReadRows)
      /\ prevT = 0 \/ prevT \in ReadRows
      /\ prevT \in Nat /\ now \in Nat /\ now \in Times
      /\ \A t \in ReadRows : t <= prevT
      /\ ReadRows \subseteq ReadTicks /\ ReadTicks \subseteq table
  BY <1>1, RowsRead
<1>4. now > Gap /\ Gap \in Nat
  BY <1>3, TimesAfterGap
<1>5. prevT < now /\ prevT \in ReadRows
  BY <1>2, <1>3, <1>4 DEF Ongoing
<1>6. /\ c \in Collectors
      /\ c.l \in Nat /\ c.r \in Nat /\ c.start \in Nat /\ c.end \in Nat
      /\ c.intervals \in Seq(Interval)
  BY <1>3, CollectorParts DEF Collected
<1>7. c.start \in ReadRows /\ c.end \in ReadRows /\ Ends(c, ReadRows)
  BY <1>3, <1>5 DEF Collected, Ends
<1>8. c.start <= prevT /\ c.start <= c.r
  BY <1>3, <1>5, <1>6, <1>7
<1>9. c.end = prevT
  BY <1>3, <1>5, <1>6, <1>7, <1>8 DEF Ends
<1>10. Final = [c EXCEPT !.end = now]
  BY <1>2, <1>3, <1>4, <1>6, <1>8, <1>9 DEF Final, Add, Ongoing
<1>11. /\ Final.l = c.l /\ Final.r = c.r /\ Final.start = c.start
       /\ Final.end = now /\ Final.intervals = c.intervals
  BY <1>6, <1>10 DEF Collectors
<1> DEFINE i == [start |-> max(Final.l, Final.start), end |-> now]
<1>12. WithInterval(Final) = Append(c.intervals, i)
  BY <1>3, <1>5, <1>6, <1>8, <1>11 DEF WithInterval, max, min
<1>13. i \in Interval /\ i.start <= prevT /\ i.end = now
  BY <1>3, <1>6, <1>8, <1>11 DEF Interval, max
<1> HIDE DEF i
<1>14. ASSUME NEW j \in DOMAIN c.intervals
       PROVE  c.intervals[j].end <= prevT
  <2>1. c.intervals[j].end + Gap < c.start
    BY <1>3 DEF Collected, Closed
  <2>2. c.intervals[j] \in Interval
    BY <1>6
  <2>3. c.intervals[j].end \in Nat
    BY <2>2 DEF Interval
  <2> QED
    BY <1>3, <1>4, <1>6, <1>8, <2>1, <2>3
<1> QED
  BY <1>2, <1>5, <1>6, <1>12, <1>13, <1>14

\* In a response for a range that holds the latest tick and the present, EndGap is
\* the age of a tick, and the last interval ends now.
THEOREM EndGapCorrect == Spec => EndGapToday
<1> DEFINE Today == /\ response'.intervals # <<>>
                    /\ LastOf(response'.intervals).end = now
                    /\ now - response'.endGap \in table
<1>1. ASSUME IInv, [Next]_vars,
             Answers /\ c.l <= prevT /\ now <= c.r /\ response'.endGap > 0
      PROVE  Today
  <2>1. Finish
    BY <1>1, OnlyFinish
  <2>2. /\ phase = "rows"
        /\ response'.intervals = WithInterval(Final)
        /\ response'.endGap = FinalGap
    BY <1>1, <2>1, FinishStep
  <2>3. /\ FinalGap = now - prevT /\ prevT \in ReadRows
        /\ c.intervals \in Seq(Interval)
    BY <1>1, <2>1, <2>2, OngoingStep
  <2>4. PICK i \in Interval : i.end = now /\ WithInterval(Final) = Append(c.intervals, i)
    BY <1>1, <2>1, <2>2, OngoingStep
  <2>5. WithInterval(Final) # <<>> /\ LastOf(WithInterval(Final)) = i
    BY <2>3, <2>4 DEF LastOf
  <2>6. now - response'.endGap = prevT /\ ReadRows \subseteq ReadTicks /\ ReadTicks \subseteq table
    BY <1>1, <2>2, <2>3, RowsRead
  <2> QED
    BY <2>2, <2>3, <2>4, <2>5, <2>6
<1>2. IInv /\ [Next]_vars =>
        [Answers /\ c.l <= prevT /\ now <= c.r /\ response'.endGap > 0 => Today]_vars
  BY <1>1
<1> QED
  BY <1>2, Invariance, PTL DEF Spec, EndGapToday

===============================================================================
