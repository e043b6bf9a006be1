------------------------------- MODULE Intervals -------------------------------
(***************************************************************************)
(* GetIntervals (watch_daemon/api_impl.go) and the Collector it feeds      *)
(* (watch_daemon/interval.go): one request at a time, read row by row      *)
(* while ticks keep being recorded and time passes.                        *)
(*                                                                         *)
(* A tick is its Unix second.  Labels are left out: the intervals of the   *)
(* collectors GetIntervals keeps per label are in no response.  The first  *)
(* second is after Gap because Unix times of this century are.             *)
(***************************************************************************)
EXTENDS Integers, Sequences

CONSTANTS
  Gap,      \* maxEventGap
  Start,    \* bound: first value of the clock
  MaxTime,  \* bound: last value of the clock
  Ranges    \* bound: pairs <<req.Start, req.End>>

ASSUME TimeAssumption ==
  /\ Gap \in Nat /\ Start \in Nat /\ MaxTime \in Nat
  /\ Gap < Start /\ Start <= MaxTime
  /\ Ranges \subseteq Nat \X Nat

Times == Start .. MaxTime

VARIABLES
  now,      \* the clock
  ticks,    \* the table ticks
  phase,    \* "rows" while a request is served, or "none"
  table,    \* ghost: what the query sees of ticks
  c,        \* collector[""], with the request's Start and End as l and r
  prevT,    \* the latest tick read, 0 at first
  response  \* of the latest request, once there is one

vars == <<now, ticks, phase, table, c, prevT, response>>

(***************************************************************************)
(* The Collector                                                           *)
(***************************************************************************)
min(a, b) == IF a < b THEN a ELSE b
max(a, b) == IF a > b THEN a ELSE b

\* Mutant: -1 stands for no tick yet.
EmptyCollector(l, r) ==
  [l |-> l, r |-> r, start |-> -1, end |-> -1, intervals |-> <<>>]

NewCollector(l, r) ==
  [l |-> l, r |-> r, start |-> 0, end |-> 0, intervals |-> <<>>]

\* addInterval, which leaves out an interval without duration.
WithInterval(k) ==
  LET s == max(k.l, k.start)
      e == min(k.r, k.end)
  IN  IF e <= s THEN k.intervals
      ELSE Append(k.intervals, [start |-> s, end |-> e])

\* Mutant: gaps of maxEventGap break an interval.
AddStrict(k, t) ==
  CASE k.start > k.r -> k
    [] k.start <= k.r /\ t - k.end < Gap -> [k EXCEPT !.end = t]
    [] OTHER -> [k EXCEPT !.start = t, !.end = t, !.intervals = WithInterval(k)]

Add(k, t) ==
  CASE k.start > k.r -> k
    [] k.start <= k.r /\ t - k.end <= Gap -> [k EXCEPT !.end = t]
    [] OTHER -> [k EXCEPT !.start = t, !.end = t, !.intervals = WithInterval(k)]

(***************************************************************************)
(* GetIntervals                                                            *)
(***************************************************************************)
NoResponse == [intervals |-> <<>>, endGap |-> 0]

Init ==
  /\ now = Start
  /\ ticks = {}
  /\ phase = "none"
  /\ table = {}
  /\ c = NewCollector(0, 0)
  /\ prevT = 0
  /\ response = NoResponse

GetIntervals(l, r) ==
  /\ phase = "none"
  /\ phase' = "rows"
  /\ table' = ticks
  /\ c' = NewCollector(l, r)
  /\ prevT' = 0
  /\ response' = NoResponse
  /\ UNCHANGED <<now, ticks>>

\* Mutant: the query takes the request's range as it is.
RowsInRange == {t \in table : c.l <= t /\ t <= c.r}

\* The rows the query selects.
Rows == {t \in table : c.l - Gap <= t /\ t <= c.r + Gap}

\* Those that are still to come.
Unread == {t \in Rows : prevT < t}

\* The rows come in the order of the primary key.
ReadRow ==
  /\ phase = "rows"
  /\ \E t \in Unread :
       /\ \A u \in Unread : t <= u
       /\ c' = Add(c, t)
       /\ prevT' = t
  /\ UNCHANGED <<now, ticks, phase, table, response>>

\* The rows have come to an end, or a read of them has failed, as on a busy
\* database: GetIntervals does not ask rows.Err which, and returns what it has.
Respond(k, gap) ==
  /\ phase = "rows"
  /\ response' = [intervals |-> WithInterval(k), endGap |-> gap]
  /\ phase' = "none"
  /\ table' = {}
  /\ c' = NewCollector(0, 0)
  /\ prevT' = 0
  /\ UNCHANGED <<now, ticks>>

\* The latest tick read is near enough for the last interval to go on to the present.
Ongoing == now - prevT < Gap

\* Mutant: the gap is reported and the interval not extended.
FinishShort == Respond(c, IF Ongoing THEN now - prevT ELSE 0)

\* The clock is read once more, after the last row.
Finish == IF Ongoing THEN Respond(Add(c, now), now - prevT) ELSE Respond(c, 0)

\* Tick and recordWritesInDB: at most one tick a second.
Tick ==
  /\ ticks' = ticks \cup {now}
  /\ UNCHANGED <<now, phase, table, c, prevT, response>>

Advance ==
  /\ now < MaxTime
  /\ now' = now + 1
  /\ UNCHANGED <<ticks, phase, table, c, prevT, response>>

Next ==
  \/ \E range \in Ranges : GetIntervals(range[1], range[2])
  \/ ReadRow
  \/ Finish
  \/ Tick
  \/ Advance

Spec == Init /\ [][Next]_vars

--------------------------------------------------------------------------------
(***************************************************************************)
(* Properties                                                              *)
(***************************************************************************)
Interval == [start : Nat, end : Nat]

\* Every variable has its type.
TypeOK ==
  /\ now \in Times
  /\ ticks \subseteq Times
  /\ phase \in {"none", "rows"}
  /\ table \subseteq Times
  /\ c \in [l : Nat, r : Nat, start : Times \cup {0}, end : Times \cup {0},
            intervals : Seq(Interval)]
  /\ prevT \in Times \cup {0}
  /\ response \in [intervals : Seq(Interval), endGap : Nat]

\* Second x (from x to x + 1) lies between two ticks of S no more than Gap
\* apart.
Worked(S, x) == \E a, b \in S : a <= x /\ x < b /\ b - a <= Gap

Covers(intervals, x) ==
  \E i \in DOMAIN intervals : intervals[i].start <= x /\ x < intervals[i].end

\* The ticks but for those that a failing read has lost.
ReadTicks == table \ Unread

\* The moment GetIntervals answers counts as a tick if the latest one is near.
WithNow(S) == IF \E t \in S : now - t < Gap THEN S \cup {now} ELSE S
Answers == phase = "rows" /\ phase' = "none"
LastOf(intervals) == intervals[Len(intervals)]

\* A response covers the seconds of [Start, End] that lie between ticks no more
\* than maxEventGap apart, and no others: the query's window is wide enough for
\* the ticks on either side of Start and of End, runs of ticks that the request
\* cuts are cut there, and ticks recorded while the rows are read change nothing.
\* Where a read fails, and the response does not say that it did, this holds of
\* the ticks read before: it is short of the time worked after them, and of no
\* other.
WorkedTime ==
  [][Answers =>
       \A x \in 0 .. MaxTime :
         Covers(response'.intervals, x)
           <=> c.l <= x /\ x < c.r /\ Worked(WithNow(ReadTicks), x)]_vars

\* The intervals of a response have a duration, come in order, and are apart by
\* more than maxEventGap: no two of them are one run of ticks.
IntervalsApart ==
  LET v == response.intervals
  IN  /\ \A i \in DOMAIN v : v[i].start < v[i].end
      /\ \A i, j \in DOMAIN v : i < j => v[i].end + Gap < v[j].start

\* A request for a range that holds both the latest tick read and the present:
\* EndGap is what was added to the last interval, which ends now, as TestWatchBasic
\* expects.
EndGapToday ==
  [][Answers /\ c.l <= prevT /\ now <= c.r /\ response'.endGap > 0 =>
       /\ response'.intervals # <<>>
       /\ LastOf(response'.intervals).end = now
       /\ now - response'.endGap \in table]_vars
===============================================================================
