-------------------------------- MODULE Service --------------------------------
(***************************************************************************)
(* How a call reaches the server and what becomes of it: the commands and  *)
(* the client (cli/main.go, client/client.go), which start a daemon when   *)
(* they find none; the daemons, of systemd and of the commands, that       *)
(* compete for the port and share one database while they do (serveCmd,    *)
(* ServeOverHTTP); and the HTTP handlers, from the validation of a request *)
(* to its reply (http_api.go, logging_api.go).                             *)
(*                                                                         *)
(* The table watches is Registry's, and the server's goroutines are kept   *)
(* only as far as they share it and the lock with the handlers:            *)
(* WatchDaemon has both in full, and Intervals what is read from the table *)
(* ticks.                                                                  *)
(***************************************************************************)
EXTENDS Integers, FiniteSets

CONSTANTS
  Calls,      \* the calls that are made, each once
  Commands,   \* what each may ask of the client: records of cmd and arg
  Others,     \* what else each may send, as a browser does: see Get and Post
  Unit,       \* systemd's daemon
  Dirs,       \* the directories that calls name
  Relative,   \* those of them that are relative paths
  Joined,     \* what watchCmd makes of each: p.Join with its directory
  Prefix,     \* pairs <<a, b>>: the string a is a prefix of the string b
  MaxWatches, \* maxWatches
  MaxTime,    \* bound: last value of the clock
  Budgets,    \* bound: how many crashes, faults, recorded writes and seconds there are
  None

Daemons == Calls \cup {Unit}  \* a daemon a command starts is named after it
Kinds == {"crash", "fault", "record", "second"}
Times == 0 .. MaxTime
Statuses == {"200", "400", "405", "500", "failed"}

ASSUME CallAssumption ==
  /\ IsFiniteSet(Calls) /\ Unit \notin Calls
  /\ None \notin Daemons
  /\ (Calls \cup {None}) \cap {"recorder", "leaked"} = {}
  /\ Relative \subseteq Dirs
  /\ Joined \in [Dirs -> Dirs \ Relative]
  /\ \A d \in Dirs \ Relative : Joined[d] = d
  /\ Prefix \subseteq Dirs \X Dirs
  /\ \A d \in Dirs : <<d, d>> \in Prefix
  /\ MaxWatches \in Nat \ {0}
  /\ MaxTime \in Nat
  /\ Budgets \subseteq [Kinds -> Nat]

\* A watch is on a directory, a tick has a label; what the client encodes can be
\* decoded.
ASSUME RequestAssumption ==
  /\ "malformed" \notin Dirs
  /\ None \notin Statuses \cup {"malformed"}
  /\ \A c \in Calls : \A k \in Commands[c] :
       \/ k.cmd = "watch" /\ k.arg \in Dirs
       \/ k.cmd = "tick" /\ k.arg # "malformed"
       \/ k.cmd \in {"clear", "/intervals", "/watches", "/status"}
  /\ \A c \in Calls : \A r \in Others[c] :
       r.path = "/watch" /\ r.method = "POST" => r.body \in Dirs \cup {"malformed"}

VARIABLES
  now,     \* the clock
  home,    \* does the directory ~/.time-tracker exist
  daemon,  \* the stage each daemon is at
  port,    \* the daemon that listens, or None
  dbMu,    \* per daemon: the call that holds its dbMu, "recorder", "leaked", or None
  rec,     \* per daemon: what its recorder with dbMu is about to write, or None
  reg,     \* table watches
  known,   \* the directories that have been in it
  call,    \* the calls
  budget   \* what is left of one of Budgets

daemonVars == <<home, daemon, port>>
lockVars == <<dbMu, rec>>
tableVars == <<reg, known>>
vars == <<now, daemonVars, lockVars, tableVars, call, budget>>

Reg == INSTANCE Registry

(***************************************************************************)
(* The client and the commands                                             *)
(***************************************************************************)
Get(path) == [path |-> path, method |-> "GET", body |-> None]
Post(path, body) == [path |-> path, method |-> "POST", body |-> body]

\* Mutant: Client.Tick posts whatever label it is given.
EncodePosting(k) ==
  CASE k.cmd = "watch" -> Post("/watch", Joined[k.arg])
    [] k.cmd = "tick" -> Post("/tick", k.arg)
    [] k.cmd = "clear" -> Post("/clear", "yes")
    [] OTHER -> Get(k.cmd)

\* The request the client makes of a command.
Encode(k) ==
  CASE k.cmd = "watch" -> Post("/watch", Joined[k.arg])
    [] k.cmd = "tick" /\ k.arg # "" -> Post("/tick", k.arg)
    [] k.cmd = "tick" /\ k.arg = "" -> Get("/tick")
    [] k.cmd = "clear" -> Post("/clear", "yes")
    [] OTHER -> Get(k.cmd)

\* stage: "idle", in getCLIClient "probe", "start" and "retry", then "send",
\* in the handler "call", "insert", "sync" and "reply", at last "done".  at is
\* the daemon that handles the call, status the one its reply carries, or
\* "failed" when there is no reply.  changes (how often the tables have been
\* changed for this call) and found (an existing watch was in its way) are
\* ghosts.
NoCall ==
  [stage |-> "idle", command |-> FALSE, req |-> None, at |-> None,
   status |-> None, changes |-> 0, found |-> FALSE]

Stage(c, s) == call' = [call EXCEPT ![c].stage = s]

Failed(k) == [k EXCEPT !.stage = "done", !.status = "failed"]

Spend(k) == budget[k] > 0 /\ budget' = [budget EXCEPT ![k] = @ - 1]

\* A command goes through getCLIClient, another client sends its request.
Issue(c) ==
  /\ call[c].stage = "idle"
  /\ \/ \E k \in Commands[c] :
          call' = [call EXCEPT ![c].stage = "probe", ![c].command = TRUE,
                               ![c].req = Encode(k)]
     \/ \E r \in Others[c] :
          call' = [call EXCEPT ![c].stage = "send", ![c].req = r]
  /\ UNCHANGED <<now, daemonVars, lockVars, tableVars, budget>>

\* Somebody answers /status.
Reachable == port # None

Probe(c) ==
  /\ call[c].stage = "probe"
  /\ Stage(c, IF Reachable THEN "send" ELSE "start")
  /\ UNCHANGED <<now, daemonVars, lockVars, tableVars, budget>>

\* The log files are opened first, in a directory only a daemon creates.
StartDaemon(c) ==
  /\ call[c].stage = "start"
  /\ \/ /\ home
        /\ daemon' = [daemon EXCEPT ![c] = "boot"]
        /\ Stage(c, "retry")
        /\ UNCHANGED budget
     \/ /\ IF home THEN Spend("fault") ELSE UNCHANGED budget
        /\ call' = [call EXCEPT ![c] = Failed(@)]
        /\ UNCHANGED daemon
  /\ UNCHANGED <<now, home, port, lockVars, tableVars>>

\* Mutant: getCLIClient asks again until it is answered.
RetryForEver(c) ==
  /\ call[c].stage = "retry"
  /\ Reachable
  /\ Stage(c, "send")
  /\ UNCHANGED <<now, daemonVars, lockVars, tableVars, budget>>

\* One second later, whatever has become of the daemon.
Retry(c) ==
  /\ call[c].stage = "retry"
  /\ IF Reachable
     THEN Stage(c, "send")
     ELSE call' = [call EXCEPT ![c] = Failed(@)]
  /\ UNCHANGED <<now, daemonVars, lockVars, tableVars, budget>>

(***************************************************************************)
(* The daemons: serveCmd, NewServer, ServeOverHTTP                         *)
(***************************************************************************)
\* Its server exists, and with it its syncWatchesLoop.
Up(s) == daemon[s] \in {"check", "listen", "serve"}

\* The directory is made if need be, and NewServer opens the database.
DaemonBoot(s) ==
  /\ daemon[s] = "boot"
  /\ \/ /\ daemon' = [daemon EXCEPT ![s] = "check"]
        /\ home' = TRUE
        /\ UNCHANGED budget
     \/ /\ daemon' = [daemon EXCEPT ![s] = "failed"]
        /\ home' \in {home, TRUE}
        /\ Spend("fault")
  /\ UNCHANGED <<now, port, lockVars, tableVars, call>>

Exit(s, stage) ==
  /\ daemon' = [daemon EXCEPT ![s] = stage]
  /\ dbMu' = [dbMu EXCEPT ![s] = None]
  /\ rec' = [rec EXCEPT ![s] = None]

\* Another daemon answers: this one is not needed.
DaemonCheck(s) ==
  /\ daemon[s] = "check"
  /\ IF Reachable
     THEN Exit(s, "exited")
     ELSE daemon' = [daemon EXCEPT ![s] = "listen"] /\ UNCHANGED lockVars
  /\ UNCHANGED <<now, home, port, tableVars, call, budget>>

\* Mutant: the error of ListenAndServe is ignored.
DaemonListenAnyway(s) ==
  /\ daemon[s] = "listen"
  /\ daemon' = [daemon EXCEPT ![s] = "serve"]
  /\ port' = IF port = None THEN s ELSE port
  /\ UNCHANGED <<now, home, lockVars, tableVars, call, budget>>

DaemonListen(s) ==
  /\ daemon[s] = "listen"
  /\ IF port = None
     THEN /\ port' = s
          /\ daemon' = [daemon EXCEPT ![s] = "serve"]
          /\ UNCHANGED lockVars
     ELSE /\ Exit(s, "exited")
          /\ UNCHANGED port
  /\ UNCHANGED <<now, home, tableVars, call, budget>>

Handled(c) == call[c].stage \in {"call", "insert", "sync", "reply"}

\* The callers of a daemon that dies see their connections break.
HangUp(s) ==
  call' = [c \in Calls |->
    IF Handled(c) /\ call[c].at = s THEN Failed(call[c]) ELSE call[c]]

\* A panic or a signal.
Crash(s) ==
  /\ Up(s)
  /\ Spend("crash")
  /\ Exit(s, "crashed")
  /\ port' = IF port = s THEN None ELSE port
  /\ HangUp(s)
  /\ UNCHANGED <<now, home, tableVars>>

\* Mutant: the unit says Restart=on-abnormal.
UnitRestartAbnormal ==
  /\ daemon[Unit] = "crashed"
  /\ daemon' = [daemon EXCEPT ![Unit] = "boot"]
  /\ UNCHANGED <<now, home, port, lockVars, tableVars, call, budget>>

\* systemd starts its daemon again however it has ended and however often.
UnitRestart ==
  /\ daemon[Unit] \in {"failed", "exited", "crashed"}
  /\ daemon' = [daemon EXCEPT ![Unit] = "boot"]
  /\ UNCHANGED <<now, home, port, lockVars, tableVars, call, budget>>

(***************************************************************************)
(* The daemon's own goroutines, as far as they share the tables            *)
(***************************************************************************)
Free(s) == dbMu[s] = None

\* The sweep of syncWatchesLoop.  A daemon that is about to exit has one, too.
Sweep(s) ==
  /\ Up(s)
  /\ Free(s)
  /\ \E K \in SUBSET Reg!Members : Reg!Evict(K)
  /\ UNCHANGED <<now, daemonVars, lockVars, known, call, budget>>

\* getDBWatches fails in syncWatchesLoop, which keeps the lock.
SweepFails(s) ==
  /\ Up(s)
  /\ Free(s)
  /\ Spend("fault")
  /\ dbMu' = [dbMu EXCEPT ![s] = "leaked"]
  /\ UNCHANGED <<now, daemonVars, rec, tableVars, call>>

\* A recorder of daemon s has something to write for directory d, which may have
\* been evicted since, takes the lock of its daemon and reads the clock.
RecLock(s, d) ==
  /\ Up(s)
  /\ d \in known
  /\ Free(s)
  /\ Spend("record")
  /\ dbMu' = [dbMu EXCEPT ![s] = "recorder"]
  /\ rec' = [rec EXCEPT ![s] = [dir |-> d, stamp |-> now]]
  /\ UNCHANGED <<now, daemonVars, tableVars, call>>

RecDone(s) ==
  /\ dbMu[s] = "recorder"
  /\ dbMu' = [dbMu EXCEPT ![s] = None]
  /\ rec' = [rec EXCEPT ![s] = None]
  /\ UNCHANGED <<now, daemonVars, call>>

\* The transaction: the row's last_write becomes the time the recorder has read,
\* whatever the other daemons have written there since.
RecCommit(s) ==
  /\ RecDone(s)
  /\ reg' = IF rec[s].dir \in Reg!Members
            THEN [reg EXCEPT ![rec[s].dir] = rec[s].stamp] ELSE reg
  /\ UNCHANGED <<known, budget>>

RecRollback(s) ==
  /\ RecDone(s)
  /\ Spend("fault")
  /\ UNCHANGED tableVars

(***************************************************************************)
(* The HTTP handlers                                                       *)
(***************************************************************************)
Methods(path) ==
  CASE path = "/tick" -> {"GET", "POST"}
    [] path \in {"/watch", "/clear"} -> {"POST"}
    [] OTHER -> {"GET"}

\* The body (or the range of /intervals) can be read, and Clear is confirmed.
WellFormed(r) ==
  /\ r.body # "malformed"
  /\ r.path = "/clear" => r.body = "yes"

\* A relative directory or an empty label: the handler replies 400 and has no
\* return there, so it goes on.
Refused(r) ==
  \/ r.path = "/watch" /\ r.body \in Relative
  \/ r.path = "/tick" /\ r.method = "POST" /\ r.body = ""

\* The first status written is the one the reply has.
Answer(k, code) ==
  [k EXCEPT !.stage = "reply", !.status = IF @ = None THEN code ELSE @]

\* The request reaches the daemon that listens, and is validated.
Receive(c) ==
  /\ call[c].stage = "send"
  /\ LET r == call[c].req
         k == [call[c] EXCEPT !.at = port]
     IN  call' = [call EXCEPT ![c] =
           CASE ~Reachable -> Failed(@)
             [] Reachable /\ r.method \notin Methods(r.path) -> Answer(k, "405")
             [] Reachable /\ r.method \in Methods(r.path) /\ ~WellFormed(r) ->
                  Answer(k, "400")
             [] OTHER -> [k EXCEPT !.stage = "call",
                            !.status = IF Refused(r) THEN "400" ELSE None]]
  /\ UNCHANGED <<now, daemonVars, lockVars, tableVars, budget>>

\* Call c is at stage s of a request for path, and can have the lock it needs.
Runs(c, s, path) == call[c].stage = s /\ call[c].req.path = path
LockFree(c) == Free(call[c].at)

\* The call is answered with the tables as they are.
NoChange(c, code) ==
  /\ call' = [call EXCEPT ![c] = Answer(@, code)]
  /\ UNCHANGED tableVars

Changing(k, code) == [Answer(k, code) EXCEPT !.changes = @ + 1]
Changed(c, code) == call' = [call EXCEPT ![c] = Changing(@, code)]

\* A WatchExistsErr is no error to the client.
Finding(k) == [Answer(k, "200") EXCEPT !.found = TRUE]

Existing(d) == {e \in Reg!Members : Reg!Related(d, e)}

\* Mutant: dbMu is released between the check and the insertion.
CheckUnlocked(c) ==
  /\ Runs(c, "call", "/watch")
  /\ LockFree(c)
  /\ IF Existing(call[c].req.body) = {}
     THEN Stage(c, "insert")
     ELSE call' = [call EXCEPT ![c] = Finding(@)]
  /\ UNCHANGED <<now, daemonVars, lockVars, tableVars, budget>>

\* addWatchToDB as far as its check.
CheckWatch(c) ==
  /\ Runs(c, "call", "/watch")
  /\ LockFree(c)
  /\ IF Existing(call[c].req.body) = {}
     THEN /\ Stage(c, "insert")
          /\ dbMu' = [dbMu EXCEPT ![call[c].at] = c]
     ELSE /\ call' = [call EXCEPT ![c] = Finding(@)]
          /\ UNCHANGED dbMu
  /\ UNCHANGED <<now, daemonVars, rec, tableVars, budget>>

Inserting(k) == [k EXCEPT !.stage = "sync", !.changes = @ + 1]

\* Mutant: the row is stamped ahead of the clock.
InsertWatchAhead(c) ==
  /\ Runs(c, "insert", "/watch")
  /\ reg' = [reg EXCEPT ![call[c].req.body] = now + 1]
  /\ known' = known \cup {call[c].req.body}
  /\ call' = [call EXCEPT ![c] = Inserting(@)]
  /\ dbMu' = [dbMu EXCEPT ![call[c].at] = None]
  /\ UNCHANGED <<now, daemonVars, rec, budget>>

\* The clock is read before SQLite has let the statement through, which waits for
\* the transactions of other daemons.
InsertWatch(c) ==
  /\ Runs(c, "insert", "/watch")
  /\ \E t \in 0 .. now : reg' = [reg EXCEPT ![call[c].req.body] = t]
  /\ known' = known \cup {call[c].req.body}
  /\ call' = [call EXCEPT ![c] = Inserting(@)]
  /\ dbMu' = [dbMu EXCEPT ![call[c].at] = None]
  /\ UNCHANGED <<now, daemonVars, rec, budget>>

\* Nobody looks at the error the DELETE may return.
SyncWatch(c) ==
  /\ Runs(c, "sync", "/watch")
  /\ LockFree(c)
  /\ \/ (\E K \in SUBSET Reg!Members : Reg!Evict(K)) /\ UNCHANGED budget
     \/ Cardinality(Reg!Members) <= MaxWatches /\ UNCHANGED <<reg, budget>>
     \/ Cardinality(Reg!Members) > MaxWatches /\ UNCHANGED reg /\ Spend("fault")
  /\ call' = [call EXCEPT ![c] = Answer(@, "200")]
  /\ UNCHANGED <<now, daemonVars, lockVars, known>>

\* A GET asks for the time.  The second may have a tick already.
CallTick(c) ==
  /\ Runs(c, "call", "/tick")
  /\ LockFree(c)
  /\ \/ call[c].req.method = "GET" /\ NoChange(c, "200")
     \/ call[c].req.method = "POST" /\ NoChange(c, "500")
     \/ call[c].req.method = "POST" /\ Changed(c, "200") /\ UNCHANGED tableVars
  /\ UNCHANGED <<now, daemonVars, lockVars, budget>>

CallClear(c) ==
  /\ Runs(c, "call", "/clear")
  /\ LockFree(c)
  /\ Reg!Clear
  /\ Changed(c, "200")
  /\ UNCHANGED <<now, daemonVars, lockVars, known, budget>>

\* Only the intervals are read from the database.
CallRead(c) ==
  /\ call[c].stage = "call"
  /\ call[c].req.path \notin {"/watch", "/tick", "/clear"}
  /\ call[c].req.path \in {"/intervals", "/viz"} => LockFree(c)
  /\ NoChange(c, "200")
  /\ UNCHANGED <<now, daemonVars, lockVars, budget>>

\* Mutant: the handler looks for a WatchExistsErr only.
CallFailsSilently(c) ==
  /\ \/ Runs(c, "call", "/watch") /\ LockFree(c)
     \/ Runs(c, "insert", "/watch")
  /\ Spend("fault")
  /\ dbMu' = [dbMu EXCEPT ![call[c].at] = None]
  /\ NoChange(c, "200")
  /\ UNCHANGED <<now, daemonVars, rec>>

\* A statement fails.  syncWatches keeps the lock; Clear may have dropped the
\* table before; LoggingAPI dereferences the response there is none of, which ends
\* the connection and not the daemon.
CallFails(c) ==
  /\ \/ \E path \in {"/watch", "/tick", "/clear"} :
          /\ Runs(c, "call", path) /\ call[c].req.method = "POST"
          /\ LockFree(c)
          /\ NoChange(c, "500") /\ UNCHANGED dbMu
     \/ /\ Runs(c, "call", "/clear")
        /\ LockFree(c)
        /\ Changed(c, "500")
        /\ Reg!Clear /\ UNCHANGED <<known, dbMu>>
     \/ /\ Runs(c, "insert", "/watch")
        /\ NoChange(c, "500") /\ dbMu' = [dbMu EXCEPT ![call[c].at] = None]
     \/ /\ Runs(c, "sync", "/watch")
        /\ LockFree(c)
        /\ NoChange(c, "500") /\ dbMu' = [dbMu EXCEPT ![call[c].at] = "leaked"]
     \/ \E path \in {"/intervals", "/viz"} :
          /\ Runs(c, "call", path)
          /\ LockFree(c)
          /\ call' = [call EXCEPT ![c] = Failed(@)] /\ UNCHANGED <<tableVars, dbMu>>
  /\ Spend("fault")
  /\ UNCHANGED <<now, daemonVars, rec>>

\* Until it is sent, a crash of the daemon takes the reply with it.
Reply(c) ==
  /\ call[c].stage = "reply"
  /\ Stage(c, "done")
  /\ UNCHANGED <<now, daemonVars, lockVars, tableVars, budget>>

(***************************************************************************)
(* The specification                                                       *)
(***************************************************************************)
Advance ==
  /\ now < MaxTime
  /\ now' = now + 1
  /\ Spend("second")
  /\ UNCHANGED <<daemonVars, lockVars, tableVars, call>>

\* With or without the service installed, in a home with or without the
\* directory that the first daemon makes.
Init ==
  /\ now = 0
  /\ home \in BOOLEAN
  /\ daemon \in {[s \in Daemons |-> IF s = Unit THEN u ELSE "off"] : u \in {"off", "boot"}}
  /\ port = None
  /\ dbMu = [s \in Daemons |-> None]
  /\ rec = [s \in Daemons |-> None]
  /\ Reg!Init
  /\ known = {}
  /\ call = [c \in Calls |-> NoCall]
  /\ budget \in Budgets

DaemonStep(s) == DaemonBoot(s) \/ DaemonCheck(s) \/ DaemonListen(s)
ClientStep(c) == Probe(c) \/ StartDaemon(c) \/ Retry(c) \/ Receive(c)
HandlerStep(c) == InsertWatch(c) \/ Reply(c)
LockStep(c) ==
  CheckWatch(c) \/ SyncWatch(c) \/ CallTick(c) \/ CallClear(c) \/ CallRead(c)

Next ==
  \/ \E c \in Calls :
       \/ Issue(c) \/ ClientStep(c)
       \/ LockStep(c) \/ HandlerStep(c) \/ CallFails(c)
  \/ \E s \in Daemons :
       \/ DaemonStep(s) \/ Crash(s)
       \/ Sweep(s) \/ SweepFails(s)
       \/ \E d \in Dirs : RecLock(s, d)
       \/ RecCommit(s) \/ RecRollback(s)
  \/ UnitRestart
  \/ Advance

Spec == Init /\ [][Next]_vars

\* Processes and goroutines that can run do, the reply to a probe takes less
\* than for ever, and systemd does what Restart=always without a start limit
\* says.  A goroutine that waits for dbMu gets it in the end: see WatchDaemon.
Fairness ==
  /\ \A c \in Calls :
       WF_vars(ClientStep(c)) /\ WF_vars(HandlerStep(c)) /\ SF_vars(LockStep(c))
  /\ \A s \in Daemons : WF_vars(DaemonStep(s)) /\ WF_vars(RecCommit(s))
  /\ WF_vars(UnitRestart)

FairSpec == Spec /\ Fairness

--------------------------------------------------------------------------------
(***************************************************************************)
(* Properties                                                              *)
(***************************************************************************)
Stages ==
  {"idle", "probe", "start", "retry", "send", "call", "insert", "sync", "reply", "done"}

Writes == [dir : Dirs, stamp : Times]

\* Every variable has its type, and the port is listened on by a daemon that is
\* there.
TypeOK ==
  /\ now \in Times
  /\ home \in BOOLEAN
  /\ daemon \in [Daemons -> {"off", "boot", "failed", "check", "listen", "serve",
                           "exited", "crashed"}]
  /\ port \in Daemons \cup {None}
  /\ port # None => daemon[port] = "serve"
  /\ dbMu \in [Daemons -> Calls \cup {None, "recorder", "leaked"}]
  /\ rec \in [Daemons -> Writes \cup {None}]
  /\ reg \in [Dirs -> Times \cup {Reg!Absent}]
  /\ Reg!Members \subseteq known /\ known \subseteq Dirs
  /\ \A c \in Calls :
       /\ call[c].stage \in Stages
       /\ call[c].at \in Daemons \cup {None}
       /\ call[c].status \in Statuses \cup {None}
       /\ call[c].changes \in Nat
  /\ budget \in [Kinds -> Nat]

Changes(r) == r.path \in {"/watch", "/clear"} \/ (r.path = "/tick" /\ r.method = "POST")

\* What a caller may conclude from the end of its call, though daemons die
\* under it, start beside each other and fail: a 200 to a request for a change
\* means that it was made, or for a watch that one was there; a 405 that it was
\* not; and no call is ever executed twice.
RepliesTrue ==
  \A c \in Calls :
    LET k == call[c] IN
    k.stage = "done" =>
      /\ k.status = "200" /\ Changes(k.req) => k.changes = 1 \/ k.found
      /\ k.status = "405" => k.changes = 0
      /\ k.changes <= 1

\* The client and the handlers agree on what a request looks like: no command
\* is refused.
CommandsAccepted ==
  \A c \in Calls : call[c].command => call[c].status \notin {"400", "405"}

\* Every call ends, unless the daemon it is at has lost its lock.
CallsEnd ==
  <>[](\A c \in Calls :
         \/ call[c].stage \in {"idle", "done"}
         \/ Handled(c) /\ dbMu[call[c].at] = "leaked")

\* In the end somebody serves: always if the service is installed, whoever else
\* has held the port, and without it if a command has started a daemon and no
\* daemon has crashed or failed to start.
ServedInTheEnd ==
  LET started == \E c \in Calls : daemon[c] # "off"
      well == \A s \in Daemons : daemon[s] \notin {"failed", "crashed"}
  IN  <>[](daemon[Unit] # "off" \/ (started /\ well) => port # None)

\* In the end no daemon that lost the race for the port is left on the database,
\* but for the one systemd keeps trying.
LosersExit == <>[](\A s \in Calls : Up(s) => port = s)

\* Although daemons that compete for the port share the database and each has a
\* lock of its own, the table watches is a Registry, but for the order of the
\* times: a recorder may write one that it has read before another daemon wrote.
ImplementsRegistry == Reg!SharedSpec
================================================================================
