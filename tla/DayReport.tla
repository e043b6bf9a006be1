------------------------------- MODULE DayReport -------------------------------
(***************************************************************************)
(* What the commands 'today' and 'week' print for a day (dayRow in         *)
(* cli/main.go, Bar in cli/bar.go), from the response to GetIntervals for  *)
(* that day: the time worked, and a bar of characters.                     *)
(*                                                                         *)
(* Of a character, its bits and its colours are modelled.  Which of the    *)
(* partial blocks comes closest to its bits is not: "part" stands for any. *)
(***************************************************************************)
EXTENDS Intervals, FiniteSets, FiniteSetsExt, SequencesExt

CONSTANTS
  Hour,      \* s_Hour: shorter intervals do not count
  BitLen,    \* 3 minutes
  CharBits,  \* 8
  Chars,     \* 60
  MarkEvery  \* 15: six hours

ASSUME BarAssumption ==
  /\ Hour \in Nat /\ Gap < Hour
  /\ {BitLen, CharBits, Chars, MarkEvery} \subseteq Nat \ {0}
  /\ BitLen <= Gap

Day == BitLen * CharBits * Chars

(***************************************************************************)
(* dayRow                                                                  *)
(***************************************************************************)
Long(i) == i.end - i.start >= Hour

\* Mutant: EndGap is removed above the check for intervals that are too short.
DurationLessGap(resp) ==
  LET v == resp.intervals
      worked(k) == IF Long(v[k]) THEN v[k].end - v[k].start ELSE 0
      gap(k) == IF k = Len(v) THEN resp.endGap ELSE 0
  IN  MapThenSumSet(LAMBDA k : worked(k) - gap(k), DOMAIN v)

\* The intervals that are long enough, the last one without EndGap.
WorkDuration(resp) ==
  LET v == resp.intervals
      gap(k) == IF k = Len(v) THEN resp.endGap ELSE 0
  IN  MapThenSumSet(LAMBDA k : v[k].end - v[k].start - gap(k),
                    {k \in DOMAIN v : Long(v[k])})

\* dayRow indexes the last interval.
Panics(resp) == resp.endGap > 0 /\ resp.intervals = <<>>

\* The intervals in the bar: every other second the last one ends at its tick.
Shown(resp, includeEndGap) ==
  LET v == resp.intervals
  IN  IF resp.endGap > 0 /\ ~includeEndGap
      THEN [v EXCEPT ![Len(v)].end = @ - resp.endGap] ELSE v

(***************************************************************************)
(* Bar                                                                     *)
(***************************************************************************)
\* Mutant: each bit takes the next interval.
OverlapNext(v, cl, cr, s) ==
  LET in == s.n <= Len(v) /\ v[s.n].start <= cr
      meets == in /\ cl <= v[s.n].end
  IN  [n |-> IF in THEN s.n + 1 ELSE s.n,
       duration |-> IF meets THEN min(cr, v[s.n].end) - max(cl, v[s.n].start) ELSE 0,
       short |-> s.short, first |-> s.first /\ ~meets]

\* The loop over the intervals at a bit: the next one, how much of the bit is
\* covered, is the first interval to meet the character short, is none met yet.
Loop == [n : Nat \ {0}, duration : Int, short : BOOLEAN, first : BOOLEAN]

\* Interval o.n begins before the end of [cl, cr]: how much of it is there?
\* It is passed unless it reaches beyond cr, to be met again at the next bit.
Meet(v, cl, cr, o) ==
  LET i == v[o.n]
      meets == cl <= i.end
  IN  [n |-> IF cr <= i.end THEN o.n ELSE o.n + 1,
       duration |-> IF meets THEN o.duration + (min(cr, i.end) - max(cl, i.start))
                             ELSE o.duration,
       short |-> IF meets /\ o.first THEN ~Long(i) ELSE o.short,
       first |-> o.first /\ ~meets]

Overlap(v, cl, cr, s) ==
  LET loop[o \in Loop] ==
        IF o.n > Len(v) \/ cr < v[o.n].start THEN o
        ELSE LET next == Meet(v, cl, cr, o)
             IN  IF next.n = o.n THEN next ELSE loop[next]
  IN  loop[[n |-> s.n, duration |-> 0, short |-> s.short, first |-> s.first]]

\* The characters of the day: which of their bits are set, and are they short.
Windows(v, morning) ==
  LET bit(s, k) ==
        LET cl == morning + (k - 1) * BitLen
            o == Overlap(v, cl, cl + BitLen, s)
            window == Append(s.window, 2 * o.duration > BitLen)
        IN  IF k % CharBits = 0
            THEN [n |-> o.n, short |-> FALSE, first |-> TRUE, window |-> <<>>,
                  chars |-> Append(s.chars, [bits |-> window, short |-> o.short])]
            ELSE [n |-> o.n, short |-> o.short, first |-> o.first,
                  window |-> window, chars |-> s.chars]
      start == [n |-> 1, short |-> FALSE, first |-> TRUE, window |-> <<>>,
                chars |-> <<>>]
  IN  FoldLeft(bit, start, [k \in 1 .. CharBits * Chars |-> k]).chars

(***************************************************************************)
(* put: the terminal has a foreground, a background and may be inverted.   *)
(***************************************************************************)
Block(bits) ==
  CASE \A k \in DOMAIN bits : ~bits[k] -> "off"
    [] \A k \in DOMAIN bits : bits[k] -> "full"
    [] OTHER -> "part"

Colour(mark, short) ==
  IF mark THEN IF short THEN "shortDark" ELSE "barDark"
          ELSE IF short THEN "short" ELSE "bar"

\* Mutant: the foreground is not set again when the mark's colours are reset.
PutReset(b, ch) ==
  LET block == Block(ch.bits)
      mark == b.size > 0 /\ b.size % MarkEvery = 0
      changeFG == (~b.onMark /\ mark) \/ (block # "off" /\ b.short # ch.short)
      fg == IF changeFG THEN Colour(mark, ch.short)
            ELSE IF b.onMark /\ ~mark THEN "default" ELSE b.fg
  IN  [size |-> b.size + 1, onMark |-> mark, fg |-> fg,
       short |-> IF changeFG THEN ch.short ELSE b.short,
       drawn |-> Append(b.drawn, [block |-> block, fg |-> fg, mark |-> mark,
                                  short |-> ch.short])]

\* The foreground is written when a mark begins or ends (its end resets all
\* colours) and when a block that is not off changes between long and short.
Put(b, ch) ==
  LET block == Block(ch.bits)
      mark == b.size > 0 /\ b.size % MarkEvery = 0
      changeFG == b.onMark # mark \/ (block # "off" /\ b.short # ch.short)
      fg == IF changeFG THEN Colour(mark, ch.short) ELSE b.fg
  IN  [size |-> b.size + 1, onMark |-> mark, fg |-> fg,
       short |-> IF changeFG THEN ch.short ELSE b.short,
       drawn |-> Append(b.drawn, [block |-> block, fg |-> fg, mark |-> mark,
                                  short |-> ch.short])]

NewBar == [size |-> 0, onMark |-> FALSE, fg |-> "default", short |-> FALSE, drawn |-> <<>>]

Bar(v, morning) ==
  IF v = <<>>
  THEN FoldLeft(Put, NewBar, [k \in 1 .. Chars |->
                  [bits |-> [j \in 1 .. CharBits |-> FALSE], short |-> FALSE]]).drawn
  ELSE FoldLeft(Put, NewBar, Windows(v, morning)).drawn

--------------------------------------------------------------------------------
(***************************************************************************)
(* Properties                                                              *)
(***************************************************************************)
\* dayRow has the response to its request for the day that begins at c.l: the
\* commands ask for today and for days before it.
Reports == Answers /\ c.r - c.l = Day /\ c.l <= now
Row == response'

\* Seconds of the long intervals of v.
LongSeconds(v) ==
  {x \in 0 .. MaxTime : \E i \in DOMAIN v : Long(v[i]) /\ v[i].start <= x /\ x < v[i].end}

\* The time dayRow prints: for a day that holds both the latest tick read and the
\* present, the seconds between ticks in intervals that count, EndGap or no
\* EndGap; and on no day is it negative, although EndGap may be longer than what
\* midnight leaves of the last interval.
DurationIsWorked ==
  [][Reports =>
       /\ WorkDuration(Row) >= 0
       /\ c.l <= prevT /\ now <= c.r =>
            WorkDuration(Row) =
              Cardinality({x \in LongSeconds(Row.intervals) : Worked(ReadTicks, x)})]_vars

\* "A bit is 'on' if most of its 3 minutes is covered by intervals in the slice of
\* intervals, and off otherwise" (the comment at the top of bar.go): no interval
\* is skipped or counted twice where intervals begin and end inside a bit, where
\* one spans many, or where EndGap leaves less than nothing of the last one.
BitsAreCovered ==
  [][Reports /\ ~Panics(Row) => \A includeEndGap \in BOOLEAN :
       LET v == Shown(Row, includeEndGap)
           chars == Windows(v, c.l)
           covered(k) == {x \in c.l + (k - 1) * BitLen .. c.l + k * BitLen - 1 : Covers(v, x)}
       IN  \A k \in 1 .. CharBits * Chars :
             chars[((k - 1) \div CharBits) + 1].bits[((k - 1) % CharBits) + 1]
               <=> 2 * Cardinality(covered(k)) > BitLen]_vars

\* Once Bar has written a colour, each block that is not off has the colour of its
\* character, on a mark or not, short or not, whatever came before it.
ColoursFollow ==
  [][Reports /\ ~Panics(Row) =>
       LET drawn == Bar(Shown(Row, TRUE), c.l)
       IN  \A k \in DOMAIN drawn :
             drawn[k].block # "off" =>
               \/ drawn[k].fg = Colour(drawn[k].mark, drawn[k].short)
               \/ \A j \in 1 .. k : drawn[j].fg = "default"]_vars

(***************************************************************************)
(* What the repository says of the program and the code does not do        *)
(***************************************************************************)
\* "EndGap > 0 => last interval is in-progress" (the comment in dayRow, which
\* goes on to index the last interval): there is a last interval.
LastInProgress == [][Reports => ~Panics(Row)]_vars
================================================================================
