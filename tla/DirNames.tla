------------------------------- MODULE DirNames --------------------------------
(***************************************************************************)
(* WatchDaemon's directories are ranks, and the table is read in their     *)
(* order.  In the code it is read in the order of the column dir, which is *)
(* escaped, and merged with a slice in the order of the names unescaped.   *)
(***************************************************************************)
EXTENDS WatchDaemon, Escape

CONSTANTS
  Letters,   \* codes of characters that are not escaped
  MaxLength  \* bound: characters of a name

ASSUME LetterAssumption ==
  /\ Letters \subseteq Int \ {Quote, Backslash}
  /\ MaxLength \in Nat

Names == SeqOf(Letters \cup {Backslash}, MaxLength)

\* What the directories of the watch objects may be called.
Namings ==
  {n \in [Dirs -> Names] :
     \A d, e \in Dirs :
       d < e => Precedes(Unescape(Stored(n[d])), Unescape(Stored(n[e])))}

\* Rows that ORDER BY dir returns one before the other, whatever their names.
ReadBefore ==
  [d \in Dirs |-> [e \in Dirs |->
    \A n \in Namings : Precedes(Stored(n[d]), Stored(n[e]))]]

\* "matches sort order from getDBWatches" (syncWatches): whatever names the
\* directories of the table have, with backslashes or without, the order in which
\* getDBWatches reads them escaped is the one sort.Strings gives them unescaped,
\* without which the merge would cancel watches that are to stay.
ReadInOrder == \A r, s \in rows : r.dir < s.dir => ReadBefore[r.dir][s.dir]
================================================================================
