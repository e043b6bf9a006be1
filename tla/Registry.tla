-------------------------------- MODULE Registry --------------------------------
(***************************************************************************)
(* What the server promises of the directories it is asked to watch: a set *)
(* of directories, each with the time it was last written, that one call   *)
(* extends by one directory or not at all, that forgets the directories    *)
(* written longest ago when there are too many, and that survives the      *)
(* daemon's crashes.                                                       *)
(***************************************************************************)
EXTENDS Integers, FiniteSets

CONSTANTS Dirs, Prefix, MaxWatches, MaxTime

VARIABLE reg  \* per directory: when it was last written, or Absent

Absent == -1
Times == 0 .. MaxTime
Members == {d \in Dirs : reg[d] # Absent}
Related(d, e) == <<d, e>> \in Prefix \/ <<e, d>> \in Prefix

Init == reg = [d \in Dirs |-> Absent]

Register(d, t) ==
  /\ \A e \in Members : ~Related(d, e)
  /\ reg' = [reg EXCEPT ![d] = t]

Touch(d, t) ==
  /\ d \in Members
  /\ reg[d] <= t
  /\ reg' = [reg EXCEPT ![d] = t]

Keep(K) == reg' = [d \in Dirs |-> IF d \in K THEN reg[d] ELSE Absent]

Evict(K) ==
  /\ Cardinality(Members) > MaxWatches
  /\ Cardinality(K) = MaxWatches
  /\ \A d \in K, e \in Members \ K : reg[e] <= reg[d]
  /\ Keep(K)

Clear == Keep({})

Next ==
  \/ \E d \in Dirs, t \in Times : Register(d, t) \/ Touch(d, t)
  \/ \E K \in SUBSET Members : Evict(K)
  \/ Clear

Spec == Init /\ [][Next]_reg

\* Writers that do not wait for each other: the one that has read the clock first
\* may be the last to write.
Rewrite(d, t) ==
  /\ d \in Members
  /\ reg' = [reg EXCEPT ![d] = t]

SharedNext == Next \/ \E d \in Dirs, t \in Times : Rewrite(d, t)

SharedSpec == Init /\ [][SharedNext]_reg
================================================================================
