------------------------------- MODULE MCWatcher -------------------------------
(***************************************************************************)
(* Values of Watcher's constants for TLC: directory trees that are closed  *)
(* under parents, and how many changes, moves and failing calls happen.    *)
(***************************************************************************)
EXTENDS Watcher

\* "g" stands for a name that add() passes over, "s" for one whose events are.
Tree == {<<"root">>, <<"root", "a">>, <<"root", "a", "a">>, <<"root", "a", "g">>,
         <<"root", "s">>}
TwoTrees == {<<"root">>, <<"root", "a">>, <<"root", "b">>, <<"root", "a", "b">>,
             <<"away">>, <<"away", "a">>}
Beside == {<<"root">>, <<"root", "a">>, <<"root", "a", "a">>,
           <<"away">>, <<"away", "a">>, <<"away", "a", "a">>}

BudgetOf(make, remove, write, move, fault) ==
  [k \in Kinds |->
     CASE k = "make" -> make [] k = "remove" -> remove [] k = "write" -> write
       [] k = "move" -> move [] k = "fault" -> fault]

\*                     make remove write move fault
GrowBudget  == BudgetOf(3,   1,     1,    0,   0)
AllBudget   == BudgetOf(2,   1,     1,    2,   1)
MovesBudget == BudgetOf(4,   0,     0,    1,   0)
================================================================================
