----------------------------- MODULE ServiceProofs -----------------------------
(***************************************************************************)
(* Theorems about Service, for every number of calls, every set of         *)
(* directories and requests and every budget of crashes and faults.        *)
(***************************************************************************)
EXTENDS Service, TLAPS

\* What call c may send.
Commanded(c) == {Encode(k) : k \in Commands[c]}
Sent(c) == Commanded(c) \cup Others[c]
Requests == {None} \cup UNION {Sent(c) : c \in Calls}

Records ==
  [stage : Stages, command : BOOLEAN, req : Requests, at : Daemons \cup {None},
   status : Statuses \cup {None}, changes : Nat,
   found : BOOLEAN]

\* A handler that gets as far as the server has validated the request.
Validated(r) == r.method \in Methods(r.path) /\ WellFormed(r)

\* What is true of the call c at each of its stages, whatever becomes of the
\* daemons: k is what call[c] says of it.
Sound(c, k) ==
  /\ k \in Records
  /\ IF k.stage = "idle" THEN ~k.command ELSE k.req \in Sent(c)
  /\ k.command => k.req \in Commanded(c) /\ k.status \notin {"400", "405"}
  /\ k.stage \in {"idle", "probe", "start", "retry", "send"}
       => k.changes = 0 /\ k.status = None
  /\ k.stage \in {"call", "insert", "sync"}
       => /\ Validated(k.req)
          /\ k.status \in {None, "400"}
          /\ k.changes = IF k.stage = "sync" THEN 1 ELSE 0
  /\ k.stage \in {"insert", "sync"} => k.req.path = "/watch"
  /\ k.stage \in {"reply", "done"}
       => /\ k.status = "200" /\ Changes(k.req) => k.changes = 1 \/ k.found
          /\ k.status = "405" => k.changes = 0
          /\ k.changes <= 1

\* The types of what calls share.
Locks ==
  /\ dbMu \in [Daemons -> Calls \cup {None, "recorder", "leaked"}]
  /\ rec \in [Daemons -> Writes \cup {None}]
  /\ \A s \in Daemons : dbMu[s] = "recorder" => rec[s] \in Writes

Table ==
  /\ reg \in [Dirs -> Times \cup {Reg!Absent}]
  /\ Reg!Members \subseteq known /\ known \subseteq Dirs

Shared ==
  /\ now \in Times
  /\ home \in BOOLEAN
  /\ daemon \in [Daemons -> {"off", "boot", "failed", "check", "listen", "serve",
                           "exited", "crashed"}]
  /\ port \in Daemons \cup {None}
  /\ port # None => daemon[port] = "serve"
  /\ Locks /\ Table
  /\ budget \in [Kinds -> Nat]

\* A daemon of a command starts with it.
Unstarted == \A c \in Calls : call[c].stage \in {"idle", "probe", "start"} => daemon[c] = "off"

\* Only the daemon that has the port handles calls.
AtPort == \A c \in Calls : Handled(c) => port # None /\ call[c].at = port

\* What CheckWatch found is still so when InsertWatch inserts.
Checked ==
  \A c \in Calls : call[c].stage = "insert" =>
    dbMu[call[c].at] = c /\ Existing(call[c].req.body) = {}

IInv ==
  /\ Shared
  /\ call \in [Calls -> Records]
  /\ \A c \in Calls : Sound(c, call[c])
  /\ Unstarted /\ AtPort /\ Checked

(***************************************************************************)
(* Requests                                                                *)
(***************************************************************************)
\* The client asks nothing that the handlers refuse.
LEMMA Encoded ==
  ASSUME NEW c \in Calls, NEW k \in Commands[c]
  PROVE  /\ Validated(Encode(k))
         /\ ~Refused(Encode(k))
         /\ Encode(k).path = "/watch" => Encode(k).body \in Dirs
<1>1. CASE k.cmd = "watch" /\ k.arg \in Dirs
  <2>1. Joined[k.arg] \in Dirs \ Relative
    BY <1>1, CallAssumption
  <2>2. Encode(k) = [path |-> "/watch", method |-> "POST", body |-> Joined[k.arg]]
    BY <1>1 DEF Encode, Post
  <2> QED  BY <2>1, <2>2, RequestAssumption DEF Validated, Methods, WellFormed, Refused
<1>2. CASE k.cmd = "tick" /\ k.arg # "malformed" /\ k.arg # ""
  <2>1. Encode(k) = [path |-> "/tick", method |-> "POST", body |-> k.arg]
    BY <1>2 DEF Encode, Post
  <2>2. Encode(k).path = "/tick" /\ Encode(k).method = "POST" /\ Encode(k).body = k.arg
    BY <2>1
  <2>3. Methods(Encode(k).path) = {"GET", "POST"}
    BY <2>2 DEF Methods
  <2> QED  BY <1>2, <2>2, <2>3 DEF Validated, WellFormed, Refused
<1>3. CASE k.cmd = "tick" /\ k.arg = ""
  <2>1. Encode(k) = [path |-> "/tick", method |-> "GET", body |-> None]
    BY <1>3 DEF Encode, Get
  <2> QED  BY <2>1, RequestAssumption DEF Validated, Methods, WellFormed, Refused
<1>4. CASE k.cmd = "clear"
  <2>1. Encode(k) = [path |-> "/clear", method |-> "POST", body |-> "yes"]
    BY <1>4 DEF Encode, Post
  <2> QED  BY <2>1 DEF Validated, Methods, WellFormed, Refused
<1>5. CASE k.cmd \in {"/intervals", "/watches", "/status"}
  <2>1. Encode(k) = [path |-> k.cmd, method |-> "GET", body |-> None]
    BY <1>5 DEF Encode, Get
  <2> QED  BY <1>5, <2>1, RequestAssumption DEF Validated, Methods, WellFormed, Refused
<1> QED  BY <1>1, <1>2, <1>3, <1>4, <1>5, RequestAssumption

LEMMA WatchBody ==
  ASSUME NEW c \in Calls, NEW r \in Sent(c), r.path = "/watch", Validated(r)
  PROVE  r.body \in Dirs
<1>1. CASE r \in Others[c]
  BY <1>1, RequestAssumption DEF Validated, Methods, WellFormed
<1>2. CASE r \in Commanded(c)
  BY <1>2, Encoded DEF Commanded
<1> QED  BY <1>1, <1>2 DEF Sent

(***************************************************************************)
(* What calls share                                                        *)
(***************************************************************************)
LEMMA SameTable == tableVars' = tableVars =>
  reg' = reg /\ known' = known /\ Reg!Members' = Reg!Members /\ Table' = Table
BY DEF tableVars, Reg!Members, Reg!Absent, Table

LEMMA SameLocks == lockVars' = lockVars =>
  dbMu' = dbMu /\ rec' = rec /\ Locks' = Locks
BY DEF lockVars, Locks

\* A lock passes to a call or to nobody, or is kept for good.
LEMMA LockMoves ==
  ASSUME Locks, NEW s \in Daemons, NEW g \in Calls \cup {None, "leaked"},
         dbMu' = [dbMu EXCEPT ![s] = g], rec' = rec \/ rec' = [rec EXCEPT ![s] = None]
  PROVE  Locks'
<1>1. g # "recorder"
  BY CallAssumption DEF Daemons
<1>2. /\ \A e \in Daemons : e # s => dbMu'[e] = dbMu[e] /\ rec'[e] = rec[e]
      /\ dbMu'[s] = g
  BY DEF Locks
<1>3. /\ dbMu' \in [Daemons -> Calls \cup {None, "recorder", "leaked"}]
      /\ rec' \in [Daemons -> Writes \cup {None}]
  BY DEF Locks
<1> QED  BY <1>1, <1>2, <1>3 DEF Locks

LEMMA ExitLocks ==
  ASSUME Locks, NEW s \in Daemons, NEW stage, Exit(s, stage)
  PROVE  Locks' /\ dbMu' = [dbMu EXCEPT ![s] = None]
<1>1. dbMu' = [dbMu EXCEPT ![s] = None] /\ rec' = [rec EXCEPT ![s] = None]
  BY DEF Exit
<1> QED  BY <1>1, LockMoves

LEMMA SpendType ==
  ASSUME Shared, NEW k \in Kinds, Spend(k) PROVE budget' \in [Kinds -> Nat]
BY DEF Shared, Spend

LEMMA SameShared ==
  ASSUME Shared, UNCHANGED <<now, daemonVars, lockVars, tableVars, budget>> PROVE Shared'
BY SameTable, SameLocks DEF Shared, daemonVars

(***************************************************************************)
(* Steps of one call                                                       *)
(***************************************************************************)
\* Call c becomes k, and the locks and watches of other calls stand.
LEMMA CallMoves ==
  ASSUME IInv, Shared', port' = port,
         NEW c \in Calls, NEW k, Sound(c, k), call' = [call EXCEPT ![c] = k],
         k.stage \in {"call", "insert", "sync", "reply"} => port # None /\ k.at = port,
         k.stage \in {"idle", "probe", "start"} => daemon[c] = "off",
         \A d \in Calls : d # c \/ k.stage \in {"idle", "probe", "start"}
                            => daemon'[d] = daemon[d],
         k.stage = "insert" => dbMu'[k.at] = c /\ Existing(k.req.body) = {},
         \A e \in Calls : e # c /\ call[e].stage = "insert" => dbMu'[call[e].at] = e,
         \/ Reg!Members' \subseteq Reg!Members
         \/ \A e \in Calls : (IF e = c THEN k ELSE call[e]).stage # "insert"
  PROVE  IInv'
<1>1. /\ call'[c] = k
      /\ \A e \in Calls : e # c => call'[e] = call[e]
  BY DEF IInv
<1>2. call' \in [Calls -> Records]
  BY DEF IInv, Sound
<1>3. \A e \in Calls : Sound(e, call'[e])
  BY <1>1 DEF IInv
<1>4. Unstarted'
  BY <1>1 DEF IInv, Unstarted
<1>5. AtPort'
  BY <1>1 DEF IInv, AtPort, Handled
<1>6. Checked'
  <2> SUFFICES ASSUME NEW e \in Calls, call'[e].stage = "insert"
               PROVE  dbMu'[call'[e].at] = e /\ Existing(call[e].req.body)' = {}
    BY DEF Checked
  <2>1. /\ Reg!Members' \subseteq Reg!Members
        /\ dbMu'[call'[e].at] = e /\ Existing(call'[e].req.body) = {}
    BY <1>1 DEF IInv, Checked
  <2>2. {d \in Reg!Members' : Reg!Related(call'[e].req.body, d)} = {}
    BY <2>1 DEF Existing
  <2> QED  BY <2>1, <2>2 DEF Existing, Reg!Related
<1> QED  BY <1>2, <1>3, <1>4, <1>5, <1>6 DEF IInv, Sound

\* Such a step that changes no lock and no watch.
LEMMA CallOnly ==
  ASSUME IInv, NEW c \in Calls, NEW k, Sound(c, k), call' = [call EXCEPT ![c] = k],
         UNCHANGED <<home, port, lockVars, tableVars>>, Shared',
         k.stage \in {"call", "sync", "reply"} => port # None /\ k.at = port,
         k.stage \in {"idle", "probe", "start"} => daemon[c] = "off",
         \A d \in Calls : d # c \/ k.stage \in {"idle", "probe", "start"}
                            => daemon'[d] = daemon[d],
         k.stage # "insert"
  PROVE  IInv'
<1>1. /\ \A e \in Calls : call[e].stage = "insert" => dbMu'[call[e].at] = e
      /\ Reg!Members' \subseteq Reg!Members
  BY SameTable, SameLocks DEF IInv, Checked
<1> QED  BY <1>1, CallMoves

LEMMA IssueStep == ASSUME IInv, NEW c \in Calls, Issue(c) PROVE IInv'
<1>1. call[c] \in Records /\ call[c].stage = "idle" /\ Sound(c, call[c])
  BY DEF IInv, Issue
<1>2. Shared' /\ UNCHANGED <<now, home, port, lockVars, tableVars, daemon>>
  BY SameShared DEF IInv, Issue, daemonVars
<1>3. ASSUME NEW k \in Commands[c],
             call' = [call EXCEPT ![c].stage = "probe", ![c].command = TRUE,
                                  ![c].req = Encode(k)]
      PROVE  IInv'
  <2> DEFINE n == [call[c] EXCEPT !.stage = "probe", !.command = TRUE, !.req = Encode(k)]
  <2>1. Encode(k) \in Commanded(c) /\ Encode(k) \in Requests
    BY DEF Commanded, Sent, Requests
  <2>2. /\ n \in Records /\ n.stage = "probe" /\ n.req \in Commanded(c)
        /\ n.status = call[c].status /\ n.changes = call[c].changes
    BY <1>1, <2>1 DEF Records, Stages
  <2>3. Sound(c, n)
    BY <1>1, <2>2, RequestAssumption DEF Sound, Sent, Statuses
  <2>4. call' = [call EXCEPT ![c] = n]
    BY <1>3 DEF IInv
  <2>5. daemon[c] = "off"
    BY <1>1 DEF IInv, Unstarted
  <2> HIDE DEF n
  <2> QED  BY <1>2, <2>2, <2>3, <2>4, <2>5, CallOnly
<1>4. ASSUME NEW r \in Others[c],
             call' = [call EXCEPT ![c].stage = "send", ![c].req = r]
      PROVE  IInv'
  <2> DEFINE n == [call[c] EXCEPT !.stage = "send", !.req = r]
  <2>1. r \in Sent(c) /\ r \in Requests
    BY DEF Sent, Requests
  <2>2. /\ n \in Records /\ n.stage = "send" /\ n.req = r /\ n.command = call[c].command
        /\ n.status = call[c].status /\ n.changes = call[c].changes
    BY <1>1, <2>1 DEF Records, Stages
  <2>3. Sound(c, n)
    BY <1>1, <2>1, <2>2, RequestAssumption DEF Sound
  <2>4. call' = [call EXCEPT ![c] = n]
    BY <1>4 DEF IInv
  <2> HIDE DEF n
  <2> QED  BY <1>2, <2>2, <2>3, <2>4, CallOnly
<1> QED  BY <1>3, <1>4 DEF Issue

LEMMA FailedSound ==
  ASSUME NEW c \in Calls, NEW k, Sound(c, k), k.stage # "idle"
  PROVE  Sound(c, Failed(k)) /\ Failed(k).stage = "done"
<1>1. k \in Records /\ k.changes <= 1
  BY DEF Sound, Records, Stages
<1>2. /\ Failed(k) \in Records /\ Failed(k).stage = "done" /\ Failed(k).status = "failed"
      /\ Failed(k).req = k.req /\ Failed(k).command = k.command
      /\ Failed(k).changes = k.changes
  BY <1>1 DEF Failed, Records, Stages, Statuses
<1> HIDE DEF Failed
<1> QED  BY <1>1, <1>2 DEF Sound

\* A reply is true of the changes made so far.
LEMMA AnswerSound ==
  ASSUME NEW c \in Calls, NEW k, Sound(c, k),
         k.stage \in {"send", "call", "insert", "sync"},
         NEW code \in Statuses,
         code = "200" /\ Changes(k.req) => k.changes = 1 \/ k.found,
         code \in {"400", "405"} => ~k.command /\ k.changes = 0
  PROVE  Sound(c, Answer(k, code)) /\ Answer(k, code).stage = "reply"
<1> DEFINE n == Answer(k, code)
<1>1. k \in Records /\ k.changes <= 1 /\ k.status \in {None, "400"}
  BY DEF Sound, Records
<1>2. /\ n \in Records /\ n.stage = "reply" /\ n.status = IF k.status = None THEN code ELSE k.status
      /\ n.req = k.req /\ n.command = k.command
      /\ n.changes = k.changes /\ n.found = k.found
  BY <1>1 DEF Answer, Records, Stages
<1> HIDE DEF n
<1>3. n.command => n.req \in Commanded(c) /\ n.status \notin {"400", "405"}
  BY <1>1, <1>2 DEF Sound
<1>4. /\ n.status = "200" /\ Changes(n.req) => n.changes = 1 \/ n.found
      /\ n.status = "405" => n.changes = 0
  BY <1>1, <1>2
<1>5. n.req \in Sent(c)
  BY <1>2 DEF Sound
<1>6. Sound(c, n)
  BY <1>1, <1>2, <1>3, <1>4, <1>5 DEF Sound
<1> QED  BY <1>2, <1>6 DEF n

\* Any other move to a stage at which no request is in a handler.
LEMMA StageSound ==
  ASSUME NEW c \in Calls, NEW k, Sound(c, k), NEW s \in {"probe", "start", "retry", "send"},
         k.stage \in {"probe", "start", "retry", "send"}
  PROVE  Sound(c, [k EXCEPT !.stage = s]) /\ [k EXCEPT !.stage = s].stage = s
<1>1. k \in Records
  BY DEF Sound
<1>2. LET n == [k EXCEPT !.stage = s]
      IN  /\ n \in Records /\ n.stage = s /\ n.status = k.status /\ n.req = k.req
          /\ n.command = k.command /\ n.changes = k.changes
  BY <1>1 DEF Records, Stages
<1> QED  BY <1>2 DEF Sound

(***************************************************************************)
(* The client                                                              *)
(***************************************************************************)
LEMMA ProbeStep == ASSUME IInv, NEW c \in Calls, Probe(c) PROVE IInv'
<1>1. Shared' /\ UNCHANGED <<now, home, port, lockVars, tableVars, daemon>>
  BY SameShared DEF IInv, Probe, daemonVars
<1>2. PICK s \in {"send", "start"} : call' = [call EXCEPT ![c] = [call[c] EXCEPT !.stage = s]]
  BY DEF IInv, Probe, Stage
<1>3. /\ Sound(c, [call[c] EXCEPT !.stage = s]) /\ [call[c] EXCEPT !.stage = s].stage = s
      /\ daemon[c] = "off"
  BY StageSound DEF IInv, Probe, Unstarted
<1> QED  BY <1>1, <1>2, <1>3, CallOnly

LEMMA StartDaemonStep == ASSUME IInv, NEW c \in Calls, StartDaemon(c) PROVE IInv'
<1>1. Sound(c, call[c]) /\ call[c].stage = "start" /\ daemon[c] = "off"
  BY DEF IInv, StartDaemon, Unstarted
<1>2. UNCHANGED <<now, home, port, lockVars, tableVars>> /\ budget' \in [Kinds -> Nat]
  BY SpendType DEF IInv, Shared, StartDaemon, Kinds
<1>3. CASE /\ daemon' = [daemon EXCEPT ![c] = "boot"]
           /\ call' = [call EXCEPT ![c] = [call[c] EXCEPT !.stage = "retry"]]
  <2>1. Shared' /\ \A d \in Calls : d # c => daemon'[d] = daemon[d]
    BY <1>1, <1>2, <1>3, SameTable, SameLocks DEF IInv, Shared, Daemons
  <2>2. /\ Sound(c, [call[c] EXCEPT !.stage = "retry"])
        /\ [call[c] EXCEPT !.stage = "retry"].stage = "retry"
    BY <1>1, StageSound
  <2> QED  BY <1>2, <1>3, <2>1, <2>2, CallOnly
<1>4. CASE daemon' = daemon /\ call' = [call EXCEPT ![c] = Failed(call[c])]
  <2>1. Shared'
    BY <1>2, <1>4, SameTable, SameLocks DEF IInv, Shared
  <2> QED  BY <1>1, <1>2, <1>4, <2>1, FailedSound, CallOnly
<1> QED  BY <1>3, <1>4 DEF IInv, StartDaemon, Stage

LEMMA RetryStep == ASSUME IInv, NEW c \in Calls, Retry(c) PROVE IInv'
<1>1. Shared' /\ UNCHANGED <<now, home, port, lockVars, tableVars, daemon>>
  BY SameShared DEF IInv, Retry, daemonVars
<1>2. Sound(c, call[c]) /\ call[c].stage = "retry"
  BY DEF IInv, Retry
<1>3. CASE call' = [call EXCEPT ![c] = [call[c] EXCEPT !.stage = "send"]]
  <2>1. /\ Sound(c, [call[c] EXCEPT !.stage = "send"])
        /\ [call[c] EXCEPT !.stage = "send"].stage = "send"
    BY <1>2, StageSound
  <2> QED  BY <1>1, <1>3, <2>1, CallOnly
<1>4. CASE call' = [call EXCEPT ![c] = Failed(call[c])]
  BY <1>1, <1>2, <1>4, FailedSound, CallOnly
<1> QED  BY <1>3, <1>4 DEF IInv, Retry, Stage

LEMMA ReceiveStep == ASSUME IInv, NEW c \in Calls, Receive(c) PROVE IInv'
<1> DEFINE r == call[c].req
           k == [call[c] EXCEPT !.at = port]
           n == [k EXCEPT !.stage = "call", !.status = IF Refused(r) THEN "400" ELSE None]
<1>1. Shared' /\ UNCHANGED <<now, home, port, lockVars, tableVars, daemon>>
  BY SameShared DEF IInv, Receive, daemonVars
<1>2. /\ Sound(c, call[c]) /\ call[c] \in Records /\ call[c].stage = "send"
      /\ port \in Daemons \cup {None}
  BY DEF IInv, Shared, Receive
<1>3. /\ k \in Records /\ k.stage = "send" /\ k.at = port /\ k.req = r
      /\ k.command = call[c].command /\ k.status = call[c].status
      /\ k.changes = call[c].changes
  BY <1>2 DEF Records
<1>4. Sound(c, k)
  <2> HIDE DEF k
  <2> QED  BY <1>2, <1>3 DEF Sound
<1>5. call[c].command => Validated(r) /\ ~Refused(r)
  BY <1>2, Encoded DEF Sound, Commanded
<1>6. CASE ~Reachable
  <2>1. call' = [call EXCEPT ![c] = Failed(call[c])]
    BY <1>6 DEF Receive, IInv
  <2> QED  BY <1>1, <1>2, <2>1, FailedSound, CallOnly
<1>7. CASE Reachable /\ ~Validated(r)
  <2>1. PICK code \in {"400", "405"} : call' = [call EXCEPT ![c] = Answer(k, code)]
    BY <1>7 DEF Receive, IInv, Validated
  <2>2. k.changes = 0 /\ ~k.command
    BY <1>2, <1>3, <1>5, <1>7 DEF Sound
  <2>3. Sound(c, Answer(k, code)) /\ Answer(k, code).stage = "reply"
    BY <1>3, <1>4, <2>2, AnswerSound DEF Statuses
  <2>4. Answer(k, code).at = port
    BY <1>3 DEF Answer, Records
  <2> QED  BY <1>1, <1>7, <2>1, <2>3, <2>4, CallOnly DEF Reachable
<1>8. CASE Reachable /\ Validated(r)
  <2>1. call' = [call EXCEPT ![c] = n]
    BY <1>8 DEF Receive, IInv, Validated
  <2>2. /\ n \in Records /\ n.stage = "call" /\ n.at = port /\ n.req = r
        /\ n.command = call[c].command /\ n.changes = call[c].changes
        /\ n.status = IF Refused(r) THEN "400" ELSE None
    BY <1>3 DEF Records, Stages, Statuses
  <2> HIDE DEF n
  <2>3. Sound(c, n)
    BY <1>2, <1>5, <1>8, <2>2, RequestAssumption DEF Sound, Statuses
  <2> QED  BY <1>1, <1>8, <2>1, <2>2, <2>3, CallOnly DEF Reachable
<1> QED  BY <1>6, <1>7, <1>8

(***************************************************************************)
(* The daemons                                                             *)
(***************************************************************************)
\* Nothing happens to a call while a daemon starts, sweeps, or ends before it
\* has the port.
LEMMA DaemonMoves ==
  ASSUME IInv, Shared', call' = call, port' = port \/ port = None,
         Reg!Members' \subseteq Reg!Members,
         \A s \in Daemons : dbMu'[s] = dbMu[s] \/ s # port \/ dbMu[s] \in {None, "recorder"},
         \A s \in Daemons : daemon[s] = "off" => daemon'[s] = "off"
  PROVE  IInv'
<1>1. call' \in [Calls -> Records] /\ \A c \in Calls : Sound(c, call'[c])
  BY DEF IInv
<1>2. Unstarted'
  BY DEF IInv, Unstarted, Daemons
<1>3. AtPort'
  BY DEF IInv, AtPort, Handled
<1>4. Checked'
  <2> SUFFICES ASSUME NEW c \in Calls, call[c].stage = "insert"
               PROVE  dbMu'[call[c].at] = c /\ Existing(call[c].req.body)' = {}
    BY DEF Checked
  <2>1. /\ call[c].at = port /\ port \in Daemons /\ dbMu[call[c].at] = c
        /\ Existing(call[c].req.body) = {} /\ c \notin {None, "recorder"}
    BY CallAssumption DEF IInv, AtPort, Handled, Checked, Shared, Daemons
  <2>2. {d \in Reg!Members' : Reg!Related(call'[c].req.body, d)} = {}
    BY <2>1 DEF Existing
  <2> QED  BY <2>1, <2>2 DEF Existing, Reg!Related
<1> QED  BY <1>1, <1>2, <1>3, <1>4 DEF IInv

LEMMA SameMembers == tableVars' = tableVars => Reg!Members' \subseteq Reg!Members
BY SameTable

LEMMA DaemonStepInv == ASSUME IInv, NEW s \in Daemons, DaemonStep(s) PROVE IInv'
<1>0. Shared /\ Locks /\ Table
  BY DEF IInv, Shared
<1>1. CASE DaemonBoot(s)
  <2>1. budget' \in [Kinds -> Nat]
    BY <1>1, SpendType DEF IInv, Shared, DaemonBoot, Kinds
  <2>2. Locks' /\ Table' /\ dbMu' = dbMu /\ UNCHANGED <<now, port, tableVars, call>>
    BY <1>0, <1>1, SameTable, SameLocks DEF DaemonBoot
  <2>3. Shared' /\ \A e \in Daemons : daemon[e] = "off" => daemon'[e] = "off"
    BY <1>0, <1>1, <2>1, <2>2 DEF Shared, DaemonBoot
  <2> QED  BY <2>2, <2>3, DaemonMoves, SameMembers
<1>2. ASSUME s # port, UNCHANGED <<now, home, tableVars, call, budget>>,
             \/ Exit(s, "exited") /\ port' = port
             \/ /\ daemon' \in {[daemon EXCEPT ![s] = "listen"], [daemon EXCEPT ![s] = "serve"]}
                /\ lockVars' = lockVars
                /\ port' = port \/ (port = None /\ port' = s /\ daemon'[s] = "serve"),
             daemon[s] # "off"
      PROVE  IInv'
  <2>1. Locks' /\ dbMu' \in {dbMu, [dbMu EXCEPT ![s] = None]}
    BY <1>0, <1>2, ExitLocks, SameLocks
  <2>2. Table'
    BY <1>0, <1>2, SameTable
  <2>3. Shared' /\ \A e \in Daemons : daemon[e] = "off" => daemon'[e] = "off"
    BY <1>0, <1>2, <2>1, <2>2 DEF Shared, Exit
  <2>4. \A e \in Daemons : dbMu'[e] = dbMu[e] \/ e # port
    BY <1>0, <1>2, <2>1 DEF Locks
  <2> QED  BY <1>2, <2>3, <2>4, DaemonMoves, SameMembers
<1>3. CASE DaemonCheck(s)
  BY <1>0, <1>2, <1>3, CallAssumption DEF Shared, DaemonCheck
<1>4. CASE DaemonListen(s)
  BY <1>0, <1>2, <1>4, CallAssumption DEF Shared, DaemonListen
<1> QED  BY <1>1, <1>3, <1>4 DEF DaemonStep

LEMMA UnitRestartStep == ASSUME IInv, UnitRestart PROVE IInv'
<1>1. /\ Unit \in Daemons /\ daemon[Unit] \in {"failed", "exited", "crashed"}
      /\ UNCHANGED <<now, home, port, lockVars, tableVars, call, budget>>
  BY DEF UnitRestart, Daemons
<1>2. Locks' /\ Table' /\ dbMu' = dbMu
  BY <1>1, SameTable, SameLocks DEF IInv, Shared
<1>3. Shared' /\ \A e \in Daemons : daemon[e] = "off" => daemon'[e] = "off"
  BY <1>1, <1>2 DEF IInv, Shared, UnitRestart
<1> QED  BY <1>1, <1>2, <1>3, DaemonMoves, SameMembers

LEMMA AdvanceStep == ASSUME IInv, Advance PROVE IInv'
<1>1. UNCHANGED <<home, daemon, port, lockVars, tableVars, call>>
  BY DEF Advance, daemonVars
<1>2. Locks' /\ Table' /\ dbMu' = dbMu
  BY <1>1, SameTable, SameLocks DEF IInv, Shared
<1>3. budget' \in [Kinds -> Nat] /\ now' \in Times
  BY SpendType, CallAssumption DEF IInv, Shared, Advance, Kinds, Times
<1>4. Shared'
  BY <1>1, <1>2, <1>3 DEF IInv, Shared
<1> QED  BY <1>1, <1>2, <1>4, DaemonMoves, SameMembers

LEMMA CrashStep == ASSUME IInv, NEW s \in Daemons, Crash(s) PROVE IInv'
<1>0. Locks' /\ dbMu' = [dbMu EXCEPT ![s] = None]
  BY ExitLocks DEF IInv, Shared, Crash
<1>1. budget' \in [Kinds -> Nat] /\ Table' /\ Reg!Members' = Reg!Members
  BY SpendType, SameTable DEF IInv, Shared, Crash, Kinds
<1>2. Shared'
  BY <1>0, <1>1 DEF IInv, Shared, Crash, Exit
<1>3. ASSUME NEW c \in Calls
      PROVE  \/ call'[c] = call[c] /\ ~(Handled(c) /\ call[c].at = s)
             \/ call'[c] = Failed(call[c]) /\ Handled(c)
  BY DEF Crash, HangUp
<1>4. ASSUME NEW c \in Calls PROVE Sound(c, call'[c])
  BY <1>3, FailedSound DEF IInv, Handled
<1>5. call' \in [Calls -> Records]
  BY <1>4 DEF Crash, HangUp, Sound
<1>6. \A c \in Calls : \/ call'[c] = call[c] /\ ~(Handled(c) /\ call[c].at = s)
                       \/ call'[c].stage = "done"
  BY <1>3, FailedSound DEF IInv, Handled
<1>7. Unstarted'
  BY <1>6, CallAssumption DEF IInv, Unstarted, Shared, Crash, Exit, Up, Daemons
<1>8. AtPort'
  BY <1>6 DEF IInv, AtPort, Handled, Crash
<1>9. Checked'
  <2> SUFFICES ASSUME NEW c \in Calls, call'[c].stage = "insert"
               PROVE  dbMu'[call'[c].at] = c /\ Existing(call[c].req.body)' = {}
    BY DEF Checked
  <2>1. call'[c] = call[c] /\ call[c].at # s
    BY <1>6 DEF Handled
  <2>2. /\ dbMu[call[c].at] = c /\ call[c].at \in Daemons
        /\ Existing(call[c].req.body) = {}
    BY <2>1 DEF IInv, AtPort, Handled, Checked, Shared
  <2>3. dbMu'[call'[c].at] = c
    BY <1>0, <2>1, <2>2 DEF IInv, Shared, Locks
  <2>4. {d \in Reg!Members' : Reg!Related(call[c].req.body, d)} = {}
    BY <1>1, <2>2 DEF Existing
  <2> QED  BY <2>1, <2>3, <2>4 DEF Existing, Reg!Related
<1> QED  BY <1>2, <1>4, <1>5, <1>7, <1>8, <1>9 DEF IInv

\* An eviction leaves times and absences only, and nothing new.
LEMMA EvictType ==
  ASSUME Table, NEW K \in SUBSET Reg!Members, Reg!Evict(K) \/ Reg!Clear, known' = known
  PROVE  Table' /\ Reg!Members' \subseteq Reg!Members
BY DEF Table, Reg!Evict, Reg!Clear, Reg!Keep, Reg!Members, Reg!Absent

LEMMA ClearType ==
  ASSUME Table, Reg!Clear, known' = known PROVE Table' /\ Reg!Members' \subseteq Reg!Members
BY DEF Table, Reg!Clear, Reg!Keep, Reg!Members, Reg!Absent

LEMMA SweepStep == ASSUME IInv, NEW s \in Daemons, Sweep(s) PROVE IInv'
<1>1. Table' /\ Reg!Members' \subseteq Reg!Members
  BY EvictType DEF IInv, Shared, Sweep
<1>2. Locks' /\ dbMu' = dbMu
  BY SameLocks DEF IInv, Shared, Sweep
<1>3. Shared'
  BY <1>1, <1>2 DEF IInv, Shared, Sweep, daemonVars
<1> QED  BY <1>1, <1>2, <1>3, DaemonMoves DEF Sweep, daemonVars

LEMMA SweepFailsStep == ASSUME IInv, NEW s \in Daemons, SweepFails(s) PROVE IInv'
<1>1. budget' \in [Kinds -> Nat]
  BY SpendType DEF IInv, Shared, SweepFails, Kinds
<1>2. Locks' /\ Table' /\ \A e \in Daemons : dbMu'[e] = dbMu[e] \/ dbMu[e] = None
  BY LockMoves, SameTable DEF IInv, Shared, SweepFails, Free, Locks
<1>3. Shared'
  BY <1>1, <1>2 DEF IInv, Shared, SweepFails, daemonVars
<1> QED  BY <1>2, <1>3, DaemonMoves, SameMembers DEF SweepFails, daemonVars

(***************************************************************************)
(* The recorders                                                           *)
(***************************************************************************)
LEMMA RecLockStep ==
  ASSUME IInv, NEW s \in Daemons, NEW d \in Dirs, RecLock(s, d) PROVE IInv'
<1>1. budget' \in [Kinds -> Nat] /\ Table' /\ UNCHANGED <<daemonVars, now, tableVars, call>>
  BY SpendType, SameTable DEF IInv, Shared, RecLock, Kinds
<1> DEFINE w == [dir |-> d, stamp |-> now]
<1>2. w \in Writes
  BY DEF IInv, Shared, Writes
<1>3. /\ dbMu' = [dbMu EXCEPT ![s] = "recorder"] /\ rec' = [rec EXCEPT ![s] = w]
      /\ dbMu[s] = None
  BY DEF RecLock, Free
<1> HIDE DEF w
<1>4. Locks' /\ \A e \in Daemons : dbMu'[e] = dbMu[e] \/ dbMu[e] = None
  BY <1>2, <1>3 DEF IInv, Shared, Locks
<1>5. Shared'
  BY <1>1, <1>4 DEF IInv, Shared, daemonVars
<1> QED  BY <1>1, <1>4, <1>5, DaemonMoves, SameMembers DEF daemonVars

\* A recorder touches a row that is there.
LEMMA CommitType ==
  ASSUME Locks, Table, NEW s \in Daemons, RecCommit(s)
  PROVE  /\ Table' /\ Reg!Members' = Reg!Members
         /\ rec[s].dir \in Dirs /\ rec[s].stamp \in Times
<1> DEFINE d == rec[s].dir
           t == rec[s].stamp
<1>1. d \in Dirs /\ t \in Times
  BY DEF Locks, RecCommit, RecDone, Writes
<1>2. t # Reg!Absent
  BY <1>1, CallAssumption DEF Times, Reg!Absent
<1>3. reg' \in {reg, [reg EXCEPT ![d] = t]} /\ (reg' = reg \/ d \in Reg!Members) /\ known' = known
  BY DEF RecCommit
<1> HIDE DEF d, t
<1>4. reg' \in [Dirs -> Times \cup {Reg!Absent}]
  BY <1>1, <1>3 DEF Table
<1>5. Reg!Members' = Reg!Members
  BY <1>1, <1>2, <1>3 DEF Table, Reg!Members, Reg!Absent
<1> QED  BY <1>1, <1>3, <1>4, <1>5 DEF Table, d, t

LEMMA RecDoneStep ==
  ASSUME IInv, NEW s \in Daemons, RecCommit(s) \/ RecRollback(s) PROVE IInv'
<1>1. RecDone(s)
  BY DEF RecCommit, RecRollback
<1>2. Locks' /\ \A e \in Daemons : dbMu'[e] = dbMu[e] \/ dbMu[e] = "recorder"
  BY <1>1, LockMoves DEF IInv, Shared, Locks, RecDone
<1>3. Table' /\ Reg!Members' \subseteq Reg!Members
  BY CommitType, SameTable DEF IInv, Shared, RecRollback
<1>4. budget' \in [Kinds -> Nat]
  BY SpendType DEF IInv, Shared, RecCommit, RecRollback, Kinds
<1>5. Shared' /\ UNCHANGED <<daemon, port, call>>
  BY <1>1, <1>2, <1>3, <1>4 DEF IInv, Shared, RecDone, daemonVars
<1> QED  BY <1>2, <1>3, <1>5, DaemonMoves

(***************************************************************************)
(* The handlers                                                            *)
(***************************************************************************)
\* A call in a handler is at the daemon that has the port.
LEMMA AtHandler ==
  ASSUME IInv, NEW c \in Calls, Handled(c)
  PROVE  /\ Sound(c, call[c]) /\ call[c] \in Records
         /\ port # None /\ call[c].at = port /\ port \in Daemons
BY DEF IInv, AtPort, Shared

\* Whoever finds the lock free, or has it, is alone with the table.
LEMMA Alone ==
  ASSUME IInv, NEW c \in Calls, Handled(c),
         LockFree(c) \/ call[c].stage = "insert"
  PROVE  \A e \in Calls : e # c => call[e].stage # "insert"
BY CallAssumption DEF IInv, AtPort, Handled, Checked, LockFree, Free, Daemons

\* A handler that has its lock, or ends with it, replies.
LEMMA Replies ==
  ASSUME IInv, NEW c \in Calls, Handled(c),
         LockFree(c) \/ call[c].stage = "insert" \/ UNCHANGED <<lockVars, tableVars>>,
         NEW n, Sound(c, n), n.stage \in {"sync", "reply", "done"}, n.at = port,
         call' = [call EXCEPT ![c] = n], Shared', UNCHANGED daemonVars
  PROVE  IInv'
<1>1. port # None /\ UNCHANGED <<home, daemon, port>>
  BY AtHandler DEF daemonVars
<1>2. CASE LockFree(c) \/ call[c].stage = "insert"
  BY <1>1, <1>2, Alone, CallMoves
<1>3. CASE UNCHANGED <<lockVars, tableVars>>
  BY <1>1, <1>3, CallOnly
<1> QED  BY <1>2, <1>3

LEMMA AnswerAt ==
  ASSUME NEW k, k \in Records, NEW code PROVE Answer(k, code).at = k.at
BY DEF Answer, Records

\* The call as it is after a change that it makes.
LEMMA ChangedSound ==
  ASSUME NEW c \in Calls, NEW k, Sound(c, k), k.stage \in {"call", "insert"},
         NEW code \in {"200", "500"},
         NEW n, n = Changing(k, code)
  PROVE  Sound(c, n) /\ n.stage = "reply" /\ n.at = k.at
<1>1. /\ k \in Records /\ k.changes = 0 /\ k.req \in Sent(c)
      /\ k.status \in {None, "400"} /\ (k.command => k.status # "400")
  BY DEF Sound
<1> DEFINE m == Answer(k, code)
<1>a. /\ m \in Records /\ m.stage = "reply" /\ m.status = IF k.status = None THEN code ELSE "400"
      /\ m.req = k.req /\ m.command = k.command /\ m.at = k.at /\ m.changes = 0
  BY <1>1 DEF Answer, Records, Stages, Statuses
<1>b. n = [m EXCEPT !.changes = 1]
  BY <1>a DEF Changing, Records
<1> HIDE DEF m
<1>2. /\ n \in Records /\ n.stage = "reply" /\ n.status = IF k.status = None THEN code ELSE "400"
      /\ n.req = k.req /\ n.command = k.command /\ n.at = k.at /\ n.changes = 1
  BY <1>a, <1>b DEF Records
<1>3. k.command => k.req \in Commanded(c)
  BY DEF Sound
<1>4. Sound(c, n)
  BY <1>1, <1>2, <1>3 DEF Sound
<1> QED  BY <1>2, <1>4

LEMMA FoundSound ==
  ASSUME NEW c \in Calls, NEW k, Sound(c, k), k.stage = "call",
         NEW n, n = Finding(k)
  PROVE  Sound(c, n) /\ n.stage = "reply" /\ n.at = k.at
<1>1. /\ k \in Records /\ k.changes = 0 /\ k.req \in Sent(c)
      /\ k.status \in {None, "400"} /\ (k.command => k.status # "400")
  BY DEF Sound
<1> DEFINE m == Answer(k, "200")
<1>2. /\ m \in Records /\ m.stage = "reply" /\ m.status = IF k.status = None THEN "200" ELSE "400"
      /\ m.req = k.req /\ m.command = k.command /\ m.at = k.at /\ m.changes = 0
  BY <1>1 DEF Answer, Records, Stages, Statuses
<1>3. n = [m EXCEPT !.found = TRUE]
  BY DEF Finding
<1> HIDE DEF m
<1>a. n \in Records
  BY <1>2, <1>3, Zenon DEF Records
<1>b. n.found = TRUE
  BY <1>2, <1>3 DEF Records
<1>4. /\ n \in Records /\ n.stage = "reply" /\ n.status = IF k.status = None THEN "200" ELSE "400"
      /\ n.req = k.req /\ n.command = k.command /\ n.at = k.at /\ n.changes = 0
      /\ n.found
  BY <1>a, <1>b, <1>2, <1>3 DEF Records
<1>5. k.command => k.req \in Commanded(c)
  BY DEF Sound
<1>6. Sound(c, n)
  BY <1>1, <1>4, <1>5 DEF Sound
<1> QED  BY <1>4, <1>6

LEMMA CheckWatchStep == ASSUME IInv, NEW c \in Calls, CheckWatch(c) PROVE IInv'
<1>1. /\ Handled(c) /\ call[c].stage = "call" /\ call[c].req.path = "/watch"
      /\ LockFree(c)
      /\ Sound(c, call[c]) /\ call[c] \in Records
      /\ port # None /\ call[c].at = port /\ port \in Daemons
  BY AtHandler DEF CheckWatch, Runs, Handled
<1>2. UNCHANGED <<now, home, daemon, port, rec, tableVars, budget>>
  BY DEF CheckWatch, daemonVars
<1>a. Shared /\ Locks /\ Table'
  BY <1>2, SameTable DEF IInv, Shared
<1>3. CASE /\ Existing(call[c].req.body) = {}
           /\ call' = [call EXCEPT ![c] = [call[c] EXCEPT !.stage = "insert"]]
           /\ dbMu' = [dbMu EXCEPT ![call[c].at] = c]
  <2> DEFINE n == [call[c] EXCEPT !.stage = "insert"]
  <2>1. /\ n \in Records /\ n.stage = "insert" /\ n.req = call[c].req /\ n.at = port
        /\ n.status = call[c].status /\ n.command = call[c].command
        /\ n.changes = call[c].changes
    BY <1>1 DEF Records, Stages
  <2> HIDE DEF n
  <2>2. Sound(c, n)
    BY <1>1, <2>1 DEF Sound
  <2>3. Locks' /\ Shared'
    <3>1. Locks'
      BY <1>1, <1>2, <1>3, <1>a, LockMoves
    <3> QED  BY <1>2, <1>a, <3>1 DEF Shared
  <2>4. dbMu'[n.at] = c
    BY <1>1, <1>3, <1>a, <2>1 DEF Locks
  <2>5. /\ \A e \in Calls : e # c => call[e].stage # "insert"
        /\ Reg!Members' \subseteq Reg!Members
    BY <1>1, <1>2, Alone, SameMembers
  <2>6. call' = [call EXCEPT ![c] = n]
    BY <1>3 DEF n
  <2> QED  BY <1>1, <1>2, <1>3, <2>1, <2>2, <2>3, <2>4, <2>5, <2>6, CallMoves
<1>4. CASE call' = [call EXCEPT ![c] = Finding(call[c])] /\ dbMu' = dbMu
  <2>1. lockVars' = lockVars
    BY <1>2, <1>4 DEF lockVars
  <2>2. /\ Sound(c, Finding(call[c])) /\ Finding(call[c]).stage = "reply"
        /\ Finding(call[c]).at = port
    BY <1>1, FoundSound
  <2>3. Shared' /\ UNCHANGED daemonVars
    BY <1>2, <1>a, <2>1, SameShared DEF daemonVars
  <2> QED  BY <1>1, <1>2, <1>4, <2>1, <2>2, <2>3, Replies
<1> QED  BY <1>3, <1>4 DEF IInv, CheckWatch, Stage

\* A registration has a directory and a time that has been.
LEMMA InsertType ==
  ASSUME IInv, Table, now \in Times, NEW c \in Calls, InsertWatch(c)
  PROVE  /\ Table'
         /\ \E d \in Dirs, t \in Times :
              Existing(d) = {} /\ reg' = [reg EXCEPT ![d] = t]
<1> DEFINE d == call[c].req.body
<1>1. call[c].stage = "insert" /\ Sound(c, call[c]) /\ Existing(d) = {}
  BY DEF IInv, InsertWatch, Runs, Checked
<1>2. d \in Dirs
  BY <1>1, WatchBody DEF Sound
<1>3. PICK t \in 0 .. now : reg' = [reg EXCEPT ![d] = t]
  BY DEF InsertWatch
<1>4. t \in Times /\ known' = known \cup {d}
  BY <1>3, CallAssumption DEF Times, InsertWatch
<1> HIDE DEF d
<1>5. Table'
  BY <1>2, <1>3, <1>4 DEF Table, Reg!Members, Reg!Absent
<1> QED  BY <1>1, <1>2, <1>3, <1>4, <1>5

LEMMA InsertWatchStep == ASSUME IInv, NEW c \in Calls, InsertWatch(c) PROVE IInv'
<1> DEFINE n == [call[c] EXCEPT !.stage = "sync", !.changes = 1]
<1>1. /\ Handled(c) /\ call[c].stage = "insert" /\ Sound(c, call[c]) /\ call[c] \in Records
      /\ call[c].at = port /\ port \in Daemons /\ call[c].changes = 0
  BY AtHandler DEF InsertWatch, Runs, Handled, Sound
<1>2. /\ n \in Records /\ n.stage = "sync" /\ n.req = call[c].req /\ n.at = port
      /\ n.status = call[c].status /\ n.command = call[c].command /\ n.changes = 1
  BY <1>1 DEF Records, Stages
<1>3. call' = [call EXCEPT ![c] = n]
  BY <1>1 DEF IInv, InsertWatch, Inserting
<1> HIDE DEF n
<1>4. Sound(c, n)
  BY <1>1, <1>2 DEF Sound
<1>5. UNCHANGED daemonVars /\ Shared'
  <2>1. UNCHANGED <<now, home, daemon, port, rec, budget>>
    BY DEF InsertWatch, daemonVars
  <2>2. Shared /\ Locks /\ Table /\ dbMu' = [dbMu EXCEPT ![port] = None]
    BY <1>1 DEF IInv, Shared, InsertWatch
  <2>3. Locks'
    BY <1>1, <2>1, <2>2, LockMoves
  <2>4. Table'
    BY <2>2, InsertType DEF Shared
  <2> QED  BY <2>1, <2>2, <2>3, <2>4 DEF Shared, daemonVars
<1> QED  BY <1>1, <1>2, <1>3, <1>4, <1>5, Replies

LEMMA SyncWatchStep == ASSUME IInv, NEW c \in Calls, SyncWatch(c) PROVE IInv'
<1>1. /\ Handled(c) /\ call[c].stage = "sync" /\ Sound(c, call[c]) /\ call[c] \in Records
      /\ call[c].at = port /\ call[c].changes = 1 /\ ~(call[c].status \in {"405"})
  BY AtHandler, RequestAssumption DEF SyncWatch, Runs, Handled, Sound, Statuses
<1>2. Shared /\ Table /\ UNCHANGED <<now, daemonVars, lockVars, known>>
  BY DEF IInv, Shared, SyncWatch
<1>a. Table'
  BY <1>2, EvictType, SameTable DEF SyncWatch, tableVars
<1>b. Locks' /\ budget' \in [Kinds -> Nat]
  BY <1>2, SameLocks, SpendType DEF Shared, SyncWatch, Kinds
<1>3. Shared'
  BY <1>2, <1>a, <1>b DEF Shared, daemonVars
<1>4. Sound(c, Answer(call[c], "200")) /\ Answer(call[c], "200").stage = "reply"
  BY <1>1, AnswerSound DEF Statuses
<1>5. call' = [call EXCEPT ![c] = Answer(call[c], "200")] /\ LockFree(c)
  BY DEF IInv, SyncWatch
<1> QED  BY <1>1, <1>2, <1>3, <1>4, <1>5, AnswerAt, Replies

\* A handler that answers without a change.
LEMMA NoChangeReplies ==
  ASSUME IInv, NEW c \in Calls, Handled(c), call[c].stage # "reply",
         LockFree(c) \/ call[c].stage = "insert" \/ lockVars' = lockVars,
         NEW code \in {"200", "500"}, NoChange(c, code), Shared', UNCHANGED daemonVars,
         code = "200" => ~Changes(call[c].req)
  PROVE  IInv'
<1>1. Sound(c, call[c]) /\ call[c].at = port /\ call[c] \in Records
  BY AtHandler
<1>2. Sound(c, Answer(call[c], code)) /\ Answer(call[c], code).stage = "reply"
  BY <1>1, AnswerSound DEF Handled, Statuses
<1>3. call' = [call EXCEPT ![c] = Answer(call[c], code)] /\ UNCHANGED tableVars
  BY DEF IInv, NoChange
<1> QED  BY <1>1, <1>2, <1>3, AnswerAt, Replies

LEMMA CallTickStep == ASSUME IInv, NEW c \in Calls, CallTick(c) PROVE IInv'
<1>1. /\ Handled(c) /\ call[c].stage = "call" /\ call[c].req.path = "/tick" /\ LockFree(c)
      /\ Sound(c, call[c]) /\ call[c].at = port
  BY AtHandler DEF CallTick, Runs, Handled
<1>2. Shared' /\ UNCHANGED daemonVars
  BY SameShared DEF IInv, CallTick, NoChange
<1>3. CASE NoChange(c, "500")
  BY <1>1, <1>2, <1>3, NoChangeReplies
<1>4. CASE call[c].req.method = "GET" /\ NoChange(c, "200")
  <2>1. ~Changes(call[c].req)
    BY <1>1, <1>4 DEF Changes
  <2> QED  BY <1>1, <1>2, <1>4, <2>1, NoChangeReplies
<1>5. CASE Changed(c, "200")
  <2>1. call' = [call EXCEPT ![c] = Changing(call[c], "200")]
    BY <1>5 DEF IInv, Changed
  <2>2. /\ Sound(c, Changing(call[c], "200")) /\ Changing(call[c], "200").stage = "reply"
        /\ Changing(call[c], "200").at = port
    BY <1>1, ChangedSound
  <2> QED  BY <1>1, <1>2, <2>1, <2>2, Replies
<1> QED  BY <1>3, <1>4, <1>5 DEF CallTick

LEMMA CallClearStep == ASSUME IInv, NEW c \in Calls, CallClear(c) PROVE IInv'
<1>1. /\ Handled(c) /\ call[c].stage = "call" /\ LockFree(c)
      /\ Sound(c, call[c]) /\ call[c].at = port
  BY AtHandler DEF CallClear, Runs, Handled
<1>2. Shared' /\ UNCHANGED daemonVars
  <2>1. Shared /\ Table /\ UNCHANGED <<now, daemonVars, lockVars, known, budget>>
    BY DEF IInv, Shared, CallClear
  <2>2. Table' /\ Locks'
    BY <2>1, ClearType, SameLocks DEF Shared, CallClear
  <2> QED  BY <2>1, <2>2 DEF Shared, daemonVars
<1>3. call' = [call EXCEPT ![c] = Changing(call[c], "200")]
  BY DEF IInv, CallClear, Changed
<1>4. /\ Sound(c, Changing(call[c], "200")) /\ Changing(call[c], "200").stage = "reply"
      /\ Changing(call[c], "200").at = port
  BY <1>1, ChangedSound
<1> QED  BY <1>1, <1>2, <1>3, <1>4, Replies

LEMMA CallReadStep == ASSUME IInv, NEW c \in Calls, CallRead(c) PROVE IInv'
<1>1. Handled(c) /\ call[c].stage = "call" /\ ~Changes(call[c].req) /\ lockVars' = lockVars
  BY DEF CallRead, Handled, Changes
<1>2. Shared' /\ UNCHANGED daemonVars
  BY SameShared DEF IInv, CallRead, NoChange
<1>3. NoChange(c, "200")
  BY DEF CallRead
<1> QED  BY <1>1, <1>2, <1>3, NoChangeReplies

LEMMA CallFailsStep == ASSUME IInv, NEW c \in Calls, CallFails(c) PROVE IInv'
<1>1. budget' \in [Kinds -> Nat] /\ UNCHANGED <<now, daemonVars, rec>>
  BY SpendType DEF IInv, CallFails, Kinds
<1>2. Table'
  BY ClearType, SameTable DEF IInv, Shared, CallFails, NoChange
<1>3. Shared'
  <2>1. call[c].stage \in {"call", "insert", "sync"}
    BY DEF CallFails, Runs
  <2>2. call[c].at \in Daemons
    BY <2>1, AtHandler DEF Handled
  <2>3. \/ lockVars' = lockVars
        \/ \E g \in {None, "leaked"} : dbMu' = [dbMu EXCEPT ![call[c].at] = g]
    BY <1>1 DEF CallFails, lockVars
  <2>4. Locks'
    BY <1>1, <2>2, <2>3, LockMoves, SameLocks DEF IInv, Shared
  <2> QED  BY <1>1, <1>2, <2>4 DEF IInv, Shared, daemonVars
<1>4. CASE call[c].stage \in {"call", "insert", "sync"} /\ NoChange(c, "500")
           /\ (LockFree(c) \/ call[c].stage = "insert")
  BY <1>1, <1>3, <1>4, NoChangeReplies DEF Handled
<1>5. CASE call[c].stage = "call" /\ LockFree(c)
           /\ call' = [call EXCEPT ![c] = Failed(@)]
  <2>1. Handled(c) /\ Sound(c, call[c]) /\ call[c] \in Records /\ call[c].at = port
    BY <1>5, AtHandler DEF Handled
  <2>2. Sound(c, Failed(call[c])) /\ Failed(call[c]).stage = "done" /\ Failed(call[c]).at = port
    BY <1>5, <2>1, FailedSound DEF Failed, Records
  <2>3. call' = [call EXCEPT ![c] = Failed(call[c])]
    BY <1>5 DEF IInv
  <2> QED  BY <1>1, <1>3, <1>5, <2>1, <2>2, <2>3, Replies
<1>6. CASE /\ call[c].stage = "call" /\ LockFree(c)
           /\ Changed(c, "500")
  <2> DEFINE n == Changing(call[c], "500")
  <2>1. Handled(c) /\ Sound(c, call[c]) /\ call[c] \in Records /\ call[c].at = port
    BY <1>6, AtHandler DEF Handled
  <2>2. Sound(c, n) /\ n.stage = "reply" /\ n.at = port
    BY <1>6, <2>1, ChangedSound
  <2>3. call' = [call EXCEPT ![c] = n]
    BY <1>6 DEF IInv, Changed
  <2> HIDE DEF n
  <2> QED  BY <1>1, <1>3, <1>6, <2>1, <2>2, <2>3, Replies
<1> QED  BY <1>4, <1>5, <1>6 DEF CallFails, Runs

LEMMA ReplyStep == ASSUME IInv, NEW c \in Calls, Reply(c) PROVE IInv'
<1> DEFINE n == [call[c] EXCEPT !.stage = "done"]
<1>1. /\ Handled(c) /\ Sound(c, call[c]) /\ call[c] \in Records /\ call[c].at = port
      /\ call[c].stage = "reply"
  BY AtHandler DEF Reply, Handled
<1>2. /\ n \in Records /\ n.stage = "done" /\ n.req = call[c].req /\ n.at = port
      /\ n.status = call[c].status /\ n.command = call[c].command
      /\ n.changes = call[c].changes /\ n.found = call[c].found
  BY <1>1 DEF Records, Stages
<1>3. call' = [call EXCEPT ![c] = n]
  BY DEF IInv, Reply, Stage
<1> HIDE DEF n
<1>4. Sound(c, n)
  BY <1>1, <1>2 DEF Sound
<1>5. Shared' /\ UNCHANGED <<daemonVars, lockVars, tableVars>>
  BY SameShared DEF IInv, Reply
<1> QED  BY <1>1, <1>2, <1>3, <1>4, <1>5, Replies

(***************************************************************************)
(* The invariant and what follows from it                                  *)
(***************************************************************************)
LEMMA InitInv == Init => IInv
<1> SUFFICES ASSUME Init PROVE IInv
  OBVIOUS
<1>1. Shared
  <2>1. Locks
    BY CallAssumption DEF Init, Locks, Daemons
  <2>2. Table
    BY DEF Init, Table, Reg!Init, Reg!Members, Reg!Absent
  <2>3. now \in Times /\ budget \in [Kinds -> Nat]
    BY CallAssumption DEF Init, Times
  <2> QED  BY <2>1, <2>2, <2>3 DEF Init, Shared, Daemons
<1>2. NoCall \in Records /\ NoCall.stage = "idle" /\ ~NoCall.command
      /\ NoCall.status = None /\ NoCall.changes = 0
  BY DEF NoCall, Records, Stages, Requests
<1>3. \A c \in Calls : call[c] = NoCall /\ Sound(c, call[c])
  BY <1>2 DEF Init, Sound
<1>4. call \in [Calls -> Records]
  BY <1>2 DEF Init
<1>5. Unstarted
  BY CallAssumption DEF Init, Unstarted, Daemons
<1>6. AtPort /\ Checked
  BY <1>2, <1>3 DEF AtPort, Checked, Handled
<1> QED  BY <1>1, <1>3, <1>4, <1>5, <1>6 DEF IInv

LEMMA StepInv == IInv /\ [Next]_vars => IInv'
<1> SUFFICES ASSUME IInv, [Next]_vars PROVE IInv'
  OBVIOUS
<1>1. ASSUME NEW c \in Calls, Issue(c) \/ ClientStep(c) PROVE IInv'
  BY <1>1, IssueStep, ProbeStep, StartDaemonStep, RetryStep, ReceiveStep DEF ClientStep
<1>2. ASSUME NEW c \in Calls, LockStep(c) PROVE IInv'
  BY <1>2, CheckWatchStep, SyncWatchStep, CallTickStep, CallClearStep, CallReadStep
  DEF LockStep
<1>3. ASSUME NEW c \in Calls, HandlerStep(c) \/ CallFails(c) PROVE IInv'
  BY <1>3, InsertWatchStep, ReplyStep, CallFailsStep DEF HandlerStep
<1>4. ASSUME NEW s \in Daemons, DaemonStep(s) \/ Crash(s) \/ Sweep(s) \/ SweepFails(s)
      PROVE  IInv'
  BY <1>4, DaemonStepInv, CrashStep, SweepStep, SweepFailsStep
<1>5. ASSUME NEW s \in Daemons,
             (\E d \in Dirs : RecLock(s, d)) \/ RecCommit(s) \/ RecRollback(s)
      PROVE  IInv'
  BY <1>5, RecLockStep, RecDoneStep
<1>6. CASE UNCHANGED vars
  <2>1. UNCHANGED <<now, daemonVars, lockVars, tableVars, call, budget>>
    BY <1>6 DEF vars
  <2>2. dbMu' = dbMu
    BY <2>1 DEF lockVars
  <2>3. Shared' /\ UNCHANGED <<daemon, port>>
    BY <2>1, SameShared DEF IInv, daemonVars
  <2> QED  BY <2>1, <2>2, <2>3, DaemonMoves, SameMembers
<1> QED  BY <1>1, <1>2, <1>3, <1>4, <1>5, <1>6, UnitRestartStep, AdvanceStep DEF Next

THEOREM Invariance == Spec => []IInv
<1> QED  BY InitInv, StepInv, PTL DEF Spec

\* Every variable of Service keeps its type, and nobody listens on the port but a
\* daemon that serves.
THEOREM TypeCorrect == Spec => []TypeOK
<1>1. IInv => TypeOK
  BY DEF IInv, Shared, Locks, Table, Records, TypeOK
<1> QED  BY Invariance, <1>1, PTL

\* The replies are true, however many calls and daemons there are and wherever
\* the daemons die.
THEOREM RepliesAreTrue == Spec => []RepliesTrue
<1>1. IInv => RepliesTrue
  BY DEF IInv, Sound, RepliesTrue
<1> QED  BY Invariance, <1>1, PTL

\* No command of the client is one that the handlers refuse.
THEOREM NoneRefused == Spec => []CommandsAccepted
<1>1. IInv => CommandsAccepted
  BY DEF IInv, Sound, CommandsAccepted
<1> QED  BY Invariance, <1>1, PTL

(***************************************************************************)
(* The refinement                                                          *)
(***************************************************************************)
LEMMA RegStep ==
  ASSUME IInv, [Next]_vars PROVE Reg!SharedNext \/ reg' = reg
<1>0. Reg!Times = Times /\ Shared /\ Locks /\ Table
  BY DEF Reg!Times, Times, IInv, Shared
<1>1. ASSUME NEW c \in Calls, InsertWatch(c) PROVE Reg!Next
  <2>1. PICK d \in Dirs, t \in Times : Existing(d) = {} /\ reg' = [reg EXCEPT ![d] = t]
    BY <1>0, <1>1, InsertType DEF Shared
  <2>2. Reg!Register(d, t)
    BY <2>1 DEF Reg!Register, Existing
  <2> QED  BY <1>0, <2>2 DEF Reg!Next
<1>2. ASSUME NEW c \in Calls, SyncWatch(c) PROVE Reg!Next \/ reg' = reg
  BY <1>2 DEF SyncWatch, Reg!Next
<1>3. ASSUME NEW c \in Calls, CallClear(c) \/ CallFails(c) PROVE Reg!Next \/ reg' = reg
  BY <1>3 DEF CallClear, CallFails, NoChange, tableVars, Reg!Next
<1>4. ASSUME NEW s \in Daemons, Sweep(s) PROVE Reg!Next
  BY <1>4 DEF Sweep, Reg!Next
<1>5. ASSUME NEW c \in Calls,
             \/ Issue(c) \/ ClientStep(c) \/ CheckWatch(c) \/ CallTick(c) \/ CallRead(c)
             \/ Reply(c)
      PROVE  reg' = reg
  BY <1>5 DEF Issue, ClientStep, Probe, StartDaemon, Retry, Receive, CheckWatch, CallTick,
              CallRead, Reply, NoChange, tableVars
<1>6. ASSUME NEW s \in Daemons,
             \/ DaemonStep(s) \/ Crash(s) \/ SweepFails(s) \/ RecRollback(s)
             \/ \E d \in Dirs : RecLock(s, d)
      PROVE  reg' = reg
  BY <1>6 DEF DaemonStep, DaemonBoot, DaemonCheck, DaemonListen, Crash, SweepFails,
              RecLock, RecRollback, tableVars
<1>7. ASSUME NEW s \in Daemons, RecCommit(s) PROVE Reg!SharedNext \/ reg' = reg
  <2>1. rec[s].dir \in Dirs /\ rec[s].stamp \in Times
    BY <1>0, <1>7, CommitType
  <2>2. Reg!Rewrite(rec[s].dir, rec[s].stamp) \/ reg' = reg
    BY <1>7 DEF RecCommit, Reg!Rewrite
  <2> QED  BY <1>0, <2>1, <2>2 DEF Reg!SharedNext
<1>8. UnitRestart \/ Advance \/ UNCHANGED vars => reg' = reg
  BY DEF UnitRestart, Advance, vars, tableVars
<1> QED
  BY <1>1, <1>2, <1>3, <1>4, <1>5, <1>6, <1>7, <1>8
  DEF Next, LockStep, HandlerStep, Reg!SharedNext

\* Whatever daemons share the database, each with a lock of its own, and wherever
\* they die, the table watches is a registry, in which a last_write may move back.
THEOREM Implements == Spec => ImplementsRegistry
<1>1. Init => Reg!Init
  BY DEF Init
<1>2. IInv /\ [Next]_vars => [Reg!SharedNext]_reg
  BY RegStep
<1> QED  BY Invariance, <1>1, <1>2, PTL DEF Spec, ImplementsRegistry, Reg!SharedSpec
================================================================================
