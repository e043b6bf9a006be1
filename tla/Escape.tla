-------------------------------- MODULE Escape ---------------------------------
(***************************************************************************)
(* A name on its way into the database and back: pkg/escape/escape.go and  *)
(* the statements of api_impl.go.  A text is a sequence of character       *)
(* codes.  Besides the backslash and the quotation mark %q escapes control *)
(* characters only, which are left out.                                    *)
(***************************************************************************)
EXTENDS Integers, Sequences, SequencesExt

Quote == 34
Backslash == 92

\* Mutant: escaped with a letter, as in a percent encoding.
EscapeByLetter(label) ==
  FlattenSeq([i \in DOMAIN label |->
    IF label[i] \in {Quote, Backslash} THEN <<Backslash, 65>> ELSE <<label[i]>>])

Escape(label) ==
  FlattenSeq([i \in DOMAIN label |->
    IF label[i] \in {Quote, Backslash}
    THEN <<Backslash, label[i]>> ELSE <<label[i]>>])

\* The loop over in, with the flag escaped.
Unescape(in) ==
  LET Read(state, c) ==
        IF ~state.escaped /\ c = Backslash
        THEN [state EXCEPT !.escaped = TRUE]
        ELSE [out |-> Append(state.out, c), escaped |-> FALSE]
  IN  FoldLeft(Read, [out |-> <<>>, escaped |-> FALSE], in).out

\* What a statement made with %q stores of a name without quotation marks: %q
\* escapes what Escape returns once more, and to SQLite a backslash means
\* nothing.
Stored(name) == Escape(Escape(name))

\* Text s comes before t, for Go and for SQLite's ORDER BY.
Precedes(s, t) ==
  \E n \in 0 .. Len(s) :
    /\ n < Len(t)
    /\ SubSeq(s, 1, n) = SubSeq(t, 1, n)
    /\ n < Len(s) => s[n + 1] < t[n + 1]
================================================================================
