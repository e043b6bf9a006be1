----------------------------- MODULE MCWatchDaemon -----------------------------
(***************************************************************************)
(* Values of WatchDaemon's constants for TLC.  Nested: 1 is /a, 2 is /a/b, *)
(* 3 is /ab, a string prefix of which is /a although it is not in /a.      *)
(* Apart: no path is a prefix of another.                                  *)
(***************************************************************************)
EXTENDS DirNames

Reflexive(S) == {<<d, d>> : d \in S}
NestedPrefix == Reflexive(Dirs) \cup {<<1, 2>>, <<1, 3>>}
NestedAbove == Reflexive(Dirs) \cup {<<1, 2>>}
Apart == Reflexive(Dirs)

BudgetOf(watch, tick, clear, write, fault, busy, crash) ==
  [k \in Kinds |->
     CASE k = "watch" -> watch [] k = "tick" -> tick [] k = "clear" -> clear
       [] k = "write" -> write [] k = "fault" -> fault [] k = "busy" -> busy
       [] k = "crash" -> crash]

\*                          watch tick clear write fault busy crash
RaceBudgets   == {BudgetOf(3,    1,   0,    0,    0,    0,   1)}
FaultBudgets  == {BudgetOf(2,    0,   1,    2,    1,    0,   0)}
SettleBudgets == {BudgetOf(1,    0,   0,    1,    1,    1,   1),
                  BudgetOf(2,    0,   0,    0,    1,    1,   1)}
OrphanBudgets == {BudgetOf(3,    0,   0,    0,    0,    0,   0)}
ClearBudgets  == {BudgetOf(2,    0,   1,    1,    0,    0,   0)}
TablesBudgets == {BudgetOf(1,    0,   1,    0,    1,    0,   0)}

HandlerSymmetry == Permutations(Handlers)
================================================================================
