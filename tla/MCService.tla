------------------------------- MODULE MCService -------------------------------
(***************************************************************************)
(* Values of Service's constants for TLC: /a, /a/b in it, and the path b,  *)
(* which a command issued in /a joins to /a/b.                             *)
(***************************************************************************)
EXTENDS Service, TLC

CONSTANTS c1, c2

Directories == {"/a", "/a/b", "b"}
JoinedInA == [d \in Directories |-> IF d = "b" THEN "/a/b" ELSE d]
Nested == {<<d, d>> : d \in Directories} \cup {<<"/a", "/a/b">>}

Command(cmd, arg) == [cmd |-> cmd, arg |-> arg]
\* Two watches on nested directories, or one of them and another call; what a
\* browser sends is read or refused.
SomeCommands ==
  c1 :> {Command("watch", "/a"), Command("tick", "")} @@
  c2 :> {Command("watch", "b"), Command("clear", "")}
SomeOthers ==
  c1 :> {Post("/watch", "b"), Get("/clear")} @@ c2 :> {Post("/tick", ""), Get("/intervals")}

BudgetOf(crash, fault, record, second) ==
  [k \in Kinds |-> CASE k = "crash" -> crash [] k = "fault" -> fault
                     [] k = "record" -> record [] k = "second" -> second]
\*                        crash fault record second
ServeBudgets == {BudgetOf(1,    1,    1,     0),
                 BudgetOf(0,    0,    2,     1)}
================================================================================
