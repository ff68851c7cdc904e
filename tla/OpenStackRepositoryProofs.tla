--------------------- MODULE OpenStackRepositoryProofs ---------------------
(***************************************************************************)
(* What OpenStackRepository guarantees for any number of servers and       *)
(* requests, whichever errors are misread.  The argument is IInv: Nova and *)
(* the other users of the cloud move a server in ways (Onward) that leave  *)
(* true what a request has learnt of it, and a step of this service        *)
(* changes one request.                                                    *)
(***************************************************************************)
EXTENDS OpenStackRepository, TLAPS

USE NoneAssumption

\* How a server may change while requests hold what they know of it.
Onward(v) ==
  /\ server[v] # "none" => server'[v] # "none"
  /\ server[v] \notin {"none", "BUILD"} => server'[v] # "BUILD"
  /\ server[v] # "none" /\ ~Served(v) => ~Served(v)'
----------------------------------------------------------------------------
\* Updates of a request, field by field, leave a request.
LEMMA ReplyType ==
  ASSUME NEW q \in Request, NEW c \in Codes, NEW s \in VMStatus \cup {"none"}
  PROVE  LET p == Reply(q, c, s) IN
         /\ p \in Request /\ p.pc = "done" /\ p.mem = s /\ p.code = c
         /\ p.op = q.op /\ p.vm = q.vm /\ p.sent = q.sent /\ p.misread = q.misread
BY DEF Reply, Request

LEMMA MisreadType ==
  ASSUME NEW q \in Request
  PROVE  LET p == [q EXCEPT !.misread = TRUE] IN
         /\ p \in Request /\ p.misread
         /\ p.op = q.op /\ p.vm = q.vm /\ p.sent = q.sent
BY DEF Request

LEMMA SentType ==
  ASSUME NEW q \in Request
  PROVE  LET p == [q EXCEPT !.sent = TRUE] IN
         /\ p \in Request /\ p.sent
         /\ p.op = q.op /\ p.vm = q.vm /\ p.pc = q.pc
BY DEF Request

LEMMA IdleType ==
  /\ Idle \in Request
  /\ Idle.pc = "idle" /\ Idle.vm = None /\ Idle.code = 0 /\ ~Idle.sent /\ ~Idle.misread
BY DEF Idle, Request

\* The exception of a call ends the request with 404 or 502; with a 404 that
\* was not misread only if the server was not found.
LEMMA CaughtShape ==
  ASSUME NEW q \in Request, NEW kind, NEW p \in Caught(q, kind)
  PROVE  /\ p \in Request /\ p.pc = "done" /\ p.op = q.op /\ p.vm = q.vm /\ p.sent = q.sent
         /\ p.code \in {404, 502}
         /\ p.code = 404 => kind = "NotFound" \/ p.misread
PROOF
  <1>1. 404 \in Codes /\ 502 \in Codes /\ "none" \in VMStatus \cup {"none"}
        /\ ErrorCode.NotFound = 404 /\ ErrorCode.OpenStack = 502
    BY DEF Codes, ErrorCode
  <1> DEFINE m == [q EXCEPT !.misread = TRUE]
  <1>2. m \in Request /\ m.misread /\ m.op = q.op /\ m.vm = q.vm /\ m.sent = q.sent
    BY MisreadType
  <1> HIDE DEF m
  <1>3. \/ p = Reply(q, 404, "none") /\ kind = "NotFound"
        \/ p = Reply(q, 502, "none")
        \/ p = Reply(m, 404, "none")
    BY <1>1 DEF Caught, m
  <1>4. CASE p = Reply(q, 404, "none") /\ kind = "NotFound"
    BY <1>1, <1>4, ReplyType
  <1>5. CASE p = Reply(q, 502, "none")
    BY <1>1, <1>5, ReplyType
  <1>6. CASE p = Reply(m, 404, "none")
    BY <1>1, <1>2, <1>6, ReplyType
  <1> QED
    BY <1>3, <1>4, <1>5, <1>6

\* A server may change under any number of requests.
LEMMA ServersMove ==
  ASSUME IInv, \A v \in Ids : Onward(v),
         NEW q, Knows(q)
  PROVE  Knows(q)'
BY DEF Onward, Knows

\* A step of one request: the others still know what they knew.
LEMMA OneRequestStep ==
  ASSUME IInv, NEW r \in Reqs, NEW STATE p, p \in Request,
         req' = [req EXCEPT ![r] = p],
         server' \in [Ids -> NovaStatus \cup Absent],
         task' \in [Ids -> {"none", "start", "stop", "delete"}],
         \A v \in Ids : Onward(v),
         TasksServed',
         Knows(req[r])'
  PROVE  IInv'
PROOF
  <1>1. req'[r] = p /\ \A q \in Reqs \ {r} : req'[q] = req[q]
    BY DEF IInv, TypeOK
  <1>2. TypeOK'
    BY DEF IInv, TypeOK
  <1>3. \A q \in Reqs \ {r} : Knows(req[q])'
    BY <1>1 DEF IInv, Onward, Knows
  <1> QED
    BY <1>2, <1>3 DEF IInv

\* The steps that ask Nova for nothing, or in vain.
LEMMA QuietStep ==
  ASSUME IInv, NEW r \in Reqs, NEW STATE p, p \in Request,
         req' = [req EXCEPT ![r] = p],
         UNCHANGED <<server, task>>,
         Knows(p)
  PROVE  IInv'
PROOF
  <1>1. req'[r] = p
    BY DEF IInv, TypeOK
  <1>2. \A v \in Ids : Onward(v)
    BY DEF Onward, Served
  <1>3. TasksServed'
    BY DEF IInv, TasksServed, Served
  <1>4. Knows(req[r])'
    BY <1>1 DEF Knows, Served
  <1> QED
    BY <1>2, <1>3, <1>4, OneRequestStep DEF IInv, TypeOK
----------------------------------------------------------------------------
LEMMA InitIInv == Init => IInv
PROOF
  <1> SUFFICES ASSUME Init PROVE IInv
    OBVIOUS
  <1>1. TypeOK /\ TasksServed
    BY IdleType DEF Init, TypeOK, TasksServed, Absent
  <1>2. \A r \in Reqs : Knows(req[r])
    BY IdleType DEF Init, Knows
  <1> QED
    BY <1>1, <1>2 DEF IInv

\* Nova finishes an action, or others act on the server.
LEMMA NovaIInv ==
  ASSUME IInv, NEW v \in Ids, Nova(v)
  PROVE  IInv'
PROOF
  <1>1. CASE FinishTask(v)
    <2>1. Served(v) /\ task[v] \in {"start", "stop", "delete"}
      BY <1>1 DEF FinishTask, IInv, TypeOK, TasksServed
    <2>2. PICK s \in Ends[task[v]] : server' = [server EXCEPT ![v] = s]
      BY <1>1 DEF FinishTask
    <2>3. s \in {"ACTIVE", "SHUTOFF", "DELETED", "gone", "ERROR"}
      BY <2>1, <2>2 DEF Ends
    <2>4. \A w \in Ids : Onward(w)
      BY <2>1, <2>2, <2>3 DEF IInv, TypeOK, Onward, Served
    <2>5. task' = [task EXCEPT ![v] = "none"] /\ req' = req
      BY <1>1 DEF FinishTask
    <2>6. TypeOK' /\ TasksServed'
      BY <2>2, <2>3, <2>5 DEF IInv, TypeOK, TasksServed, Served, NovaStatus, Absent
    <2>7. \A r \in Reqs : Knows(req[r])'
      BY <2>4, <2>5 DEF IInv, Onward, Knows
    <2> QED
      BY <2>6, <2>7 DEF IInv
  <1>2. CASE ChangeElsewhere(v)
    <2>1. PICK s \in Elsewhere(server[v]) : server' = [server EXCEPT ![v] = s]
      BY <1>2 DEF ChangeElsewhere
    <2>2. /\ s \in {"ACTIVE", "SHUTOFF", "PAUSED", "REBOOT", "ERROR", "gone"}
          /\ \/ server[v] \in {"BUILD", "ACTIVE", "SHUTOFF", "PAUSED", "REBOOT", "ERROR"}
             \/ server[v] = "DELETED" /\ s = "gone"
      BY <2>1 DEF Elsewhere, IInv, TypeOK, NovaStatus, Absent
    <2>3. \A w \in Ids : Onward(w)
      BY <2>1, <2>2 DEF IInv, TypeOK, Onward, Served
    <2>4. task' = task /\ req' = req /\ task[v] = "none"
      BY <1>2 DEF ChangeElsewhere
    <2>5. TypeOK' /\ TasksServed'
      BY <2>1, <2>2, <2>4 DEF IInv, TypeOK, TasksServed, Served, NovaStatus, Absent
    <2>6. \A r \in Reqs : Knows(req[r])'
      BY <2>3, <2>4 DEF IInv, Onward, Knows
    <2> QED
      BY <2>5, <2>6 DEF IInv
  <1> QED
    BY <1>1, <1>2 DEF Nova
----------------------------------------------------------------------------
LEMMA ReceiveCreateIInv ==
  ASSUME IInv, NEW r \in Reqs, ReceiveCreate(r)
  PROVE  IInv'
PROOF
  <1> DEFINE p == [req[r] EXCEPT !.op = "create", !.pc = "create"]
  <1>1. req[r] \in Request /\ Knows(req[r]) /\ req[r].pc = "idle"
    BY DEF IInv, TypeOK, ReceiveCreate
  <1>2. p \in Request /\ p.op = "create" /\ p.pc = "create" /\ p.vm = req[r].vm
        /\ p.sent = req[r].sent /\ p.code = req[r].code
    BY <1>1 DEF Request, Ops
  <1>3. Knows(p)
    BY <1>1, <1>2 DEF Knows
  <1>4. req' = [req EXCEPT ![r] = p] /\ UNCHANGED <<server, task>>
    BY DEF ReceiveCreate, IInv, TypeOK
  <1> HIDE DEF p
  <1> QED
    BY <1>2, <1>3, <1>4, QuietStep

LEMMA ReceiveIInv ==
  ASSUME IInv, NEW r \in Reqs, NEW op \in Ops \ {"create"}, NEW v \in Ids, Receive(r, op, v)
  PROVE  IInv'
PROOF
  <1> DEFINE p == [req[r] EXCEPT !.op = op, !.vm = v, !.pc = "get"]
  <1>1. req[r] \in Request /\ Knows(req[r]) /\ req[r].pc = "idle" /\ server[v] # "none"
    BY DEF IInv, TypeOK, Receive
  <1>2. p \in Request /\ p.op = op /\ p.pc = "get" /\ p.vm = v
        /\ p.sent = req[r].sent /\ p.code = req[r].code
    BY <1>1 DEF Request
  <1>3. Knows(p)
    <2>1. ~p.sent /\ p.code = 0
      BY <1>1, <1>2 DEF Knows
    <2> QED
      BY <1>1, <1>2, <2>1 DEF Knows, Ops
  <1>4. req' = [req EXCEPT ![r] = p] /\ UNCHANGED <<server, task>>
    BY DEF Receive, IInv, TypeOK
  <1> HIDE DEF p
  <1> QED
    BY <1>2, <1>3, <1>4, QuietStep

\* A failure before Nova has done anything, whatever the request was about to
\* ask, is 404 only if it is misread.
LEMMA CallFailsIInv ==
  ASSUME IInv, NEW r \in Reqs, CallFails(r)
  PROVE  IInv'
PROOF
  <1>1. req[r] \in Request /\ Knows(req[r]) /\ UNCHANGED <<server, task>>
    BY DEF IInv, TypeOK, CallFails
  <1>2. PICK p \in Caught(req[r], "Other") : req' = [req EXCEPT ![r] = p]
    BY DEF CallFails
  <1>3. /\ p \in Request /\ p.pc = "done" /\ p.vm = req[r].vm /\ p.sent = req[r].sent
        /\ p.code \in {404, 502} /\ (p.code = 404 => p.misread)
    BY <1>1, CaughtShape
  <1>4. Knows(p)
    BY <1>1, <1>3 DEF Knows
  <1> QED
    BY <1>1, <1>2, <1>3, <1>4, QuietStep

\* A delete goes on only if its fetch did not show BUILD, and Nova has no other
\* word for that.
LEMMA GetIInv ==
  ASSUME IInv, NEW r \in Reqs, Get(r)
  PROVE  IInv'
PROOF
  <1> DEFINE q == req[r]
             v == req[r].vm
  <1>1. q \in Request /\ Knows(q) /\ q.pc = "get" /\ v \in Ids /\ server[v] # "none"
        /\ ~q.sent /\ ~q.misread /\ q.code = 0 /\ q.op \in {"get", "delete", "start", "stop"}
        /\ server[v] \in NovaStatus \cup Absent
    <2>1. q \in Request /\ Knows(q) /\ q.pc = "get"
      BY DEF IInv, TypeOK, Get
    <2>2. q.op \in Ops \cup {"none"}
      BY <2>1 DEF Request
    <2> QED
      BY <2>1, <2>2 DEF IInv, TypeOK, Knows, Ops
  <1>2. CASE server[v] = "gone"
    <2>3. PICK p \in Caught(q, "NotFound") :
            req' = [req EXCEPT ![r] = p] /\ UNCHANGED <<server, task>>
      BY <1>2 DEF Get
    <2>1. p \in Request /\ p.pc = "done" /\ p.vm = v /\ ~p.sent /\ p.code \in {404, 502}
      BY <1>1, CaughtShape
    <2>2. Knows(p)
      BY <1>1, <1>2, <2>1 DEF Knows, Served
    <2> QED
      BY <2>1, <2>2, <2>3, QuietStep
  <1>3. CASE server[v] # "gone"
    <2> DEFINE s == View(server[v])
               p == AfterGet(q, s)
    <2>1. s \in VMStatus /\ (server[v] = "BUILD" => s = "BUILD")
      BY <1>1, <1>3 DEF View, NovaStatus, Absent, VMStatus
    <2>2. req' = [req EXCEPT ![r] = p] /\ UNCHANGED <<server, task>>
      BY <1>3 DEF Get
    <2> HIDE DEF s
    <2>3. CASE q.op = "get"
      <3>1. p = Reply(q, 200, s) /\ 200 \in Codes
        BY <2>3 DEF AfterGet, SuccessCode, Codes
      <3>2. p \in Request /\ p.pc = "done" /\ p.vm = v /\ ~p.sent /\ p.code = 200
            /\ p.op = "get" /\ p.mem = s
        BY <1>1, <2>1, <2>3, <3>1, ReplyType
      <3>3. Knows(p)
        BY <1>1, <2>1, <3>2 DEF Knows
      <3> HIDE DEF p
      <3> QED
        BY <2>2, <3>2, <3>3, QuietStep
    <2>4. CASE q.op = "delete" /\ s = "BUILD"
      <3>1. p = Reply(q, 422, s) /\ 422 \in Codes
        BY <2>4 DEF AfterGet, DeleteRefused, ErrorCode, Codes
      <3>2. p \in Request /\ p.pc = "done" /\ p.vm = v /\ ~p.sent /\ p.code = 422
        BY <1>1, <2>1, <3>1, ReplyType
      <3>3. Knows(p)
        BY <1>1, <3>2 DEF Knows
      <3> HIDE DEF p
      <3> QED
        BY <2>2, <3>2, <3>3, QuietStep
    <2>5. CASE q.op # "get" /\ ~(q.op = "delete" /\ s = "BUILD")
      <3>1. p = [q EXCEPT !.pc = "act", !.mem = s]
        BY <2>5 DEF AfterGet, DeleteRefused
      <3>2. p \in Request /\ p.pc = "act" /\ p.vm = v /\ p.op = q.op
            /\ ~p.sent /\ ~p.misread /\ p.code = 0
        BY <1>1, <2>1, <3>1 DEF Request
      <3>3. Knows(p)
        BY <1>1, <2>1, <2>5, <3>2 DEF Knows
      <3> HIDE DEF p
      <3> QED
        BY <2>2, <3>2, <3>3, QuietStep
    <2> QED
      BY <2>3, <2>4, <2>5
  <1> QED
    BY <1>2, <1>3

LEMMA ActRefusedIInv ==
  ASSUME IInv, NEW r \in Reqs, ActRefused(r)
  PROVE  IInv'
PROOF
  <1> DEFINE q == req[r]
  <1>1. q \in Request /\ Knows(q) /\ q.pc = "act" /\ q.vm \in Ids /\ ~q.sent /\ q.code = 0
    BY DEF IInv, TypeOK, ActRefused, Knows
  <1>2. UNCHANGED <<server, task>>
    BY DEF ActRefused
  <1>3. CASE Served(q.vm)
    <2>3. PICK p \in Caught(q, "Conflict") : req' = [req EXCEPT ![r] = p]
      BY <1>3 DEF ActRefused
    <2>1. /\ p \in Request /\ p.pc = "done" /\ p.vm = q.vm /\ ~p.sent
          /\ p.code \in {404, 502} /\ (p.code = 404 => p.misread)
      BY <1>1, CaughtShape
    <2>2. Knows(p)
      BY <1>1, <2>1 DEF Knows
    <2> QED
      BY <1>2, <2>1, <2>2, <2>3, QuietStep
  <1>4. CASE ~Served(q.vm) /\ q.op = "delete"
    <2> DEFINE p == Reply(q, 204, "none")
    <2>1. p \in Request /\ p.pc = "done" /\ p.vm = q.vm /\ ~p.sent /\ p.code = 204
      BY <1>1, ReplyType DEF Codes
    <2>2. Knows(p)
      BY <1>1, <1>4, <2>1 DEF Knows
    <2>3. req' = [req EXCEPT ![r] = p]
      BY <1>4 DEF ActRefused, SuccessCode
    <2> HIDE DEF p
    <2> QED
      BY <1>2, <2>1, <2>2, <2>3, QuietStep
  <1>5. CASE ~Served(q.vm) /\ q.op # "delete"
    <2>3. PICK p \in Caught(q, "NotFound") : req' = [req EXCEPT ![r] = p]
      BY <1>5 DEF ActRefused
    <2>1. p \in Request /\ p.pc = "done" /\ p.vm = q.vm /\ ~p.sent /\ p.code \in {404, 502}
      BY <1>1, CaughtShape
    <2>2. Knows(p)
      BY <1>1, <1>5, <2>1 DEF Knows
    <2> QED
      BY <1>2, <2>1, <2>2, <2>3, QuietStep
  <1> QED
    BY <1>3, <1>4, <1>5
----------------------------------------------------------------------------
\* The two calls that change something at Nova, answered or not.
LEMMA CreateIInv ==
  ASSUME IInv, NEW r \in Reqs, NEW v \in Ids, Create(r, v)
  PROVE  IInv'
PROOF
  <1>1. req[r] \in Request /\ Knows(req[r]) /\ server[v] = "none"
    BY DEF IInv, TypeOK, Create
  <1>2. /\ server' = [server EXCEPT ![v] = "BUILD"] /\ task' = task
        /\ server'[v] = "BUILD" /\ \A w \in Ids \ {v} : server'[w] = server[w]
    BY DEF IInv, TypeOK, Create
  <1>3. \A w \in Ids : Onward(w)
    BY <1>1, <1>2 DEF Onward, Served
  <1>4. server' \in [Ids -> NovaStatus \cup Absent] /\ TasksServed'
    BY <1>1, <1>2 DEF IInv, TypeOK, TasksServed, Served, NovaStatus
  <1>5. ASSUME NEW s \in {"BUILD", "none"},
               req' = [req EXCEPT ![r] = Reply([@ EXCEPT !.vm = v, !.sent = TRUE],
                                               SuccessCode("create"), View(s))]
        PROVE  IInv'
    <2> DEFINE q == [req[r] EXCEPT !.vm = v, !.sent = TRUE]
               p == Reply(q, SuccessCode("create"), View(s))
    <2>1. q \in Request /\ q.vm = v /\ q.sent
      BY <1>1 DEF Request
    <2>2. SuccessCode("create") = 201 /\ 201 \in Codes /\ View(s) \in VMStatus
      BY DEF SuccessCode, Codes, View, VMStatus
    <2> HIDE DEF q
    <2>3. p \in Request /\ p.pc = "done" /\ p.vm = v /\ p.code = 201 /\ p.sent
      BY <2>1, <2>2, ReplyType
    <2>4. req' = [req EXCEPT ![r] = p]
      BY <1>5 DEF q
    <2>5. req'[r] = p
      BY <2>4 DEF IInv, TypeOK
    <2>6. Knows(req[r])'
      BY <1>2, <2>3, <2>5 DEF Knows
    <2> HIDE DEF p
    <2> QED
      BY <1>2, <1>3, <1>4, <2>3, <2>4, <2>6, OneRequestStep DEF IInv, TypeOK
  <1> DEFINE q == [req[r] EXCEPT !.sent = TRUE]
  <1>6. ASSUME NEW p \in Caught(q, "Other"), req' = [req EXCEPT ![r] = p] PROVE IInv'
    <2>1. q \in Request /\ q.vm = req[r].vm
      BY <1>1, SentType
    <2> HIDE DEF q
    <2>2. p \in Request /\ p.pc = "done" /\ p.vm = req[r].vm /\ p.code \in {404, 502}
          /\ (p.code = 404 => p.misread)
      BY <1>6, <2>1, CaughtShape
    <2>4. req'[r] = p
      BY <1>6 DEF IInv, TypeOK
    <2>5. p.vm \in Ids => server'[p.vm] # "none"
      BY <1>1, <1>3, <2>2 DEF Knows, Onward
    <2>6. Knows(req[r])'
      BY <2>2, <2>4, <2>5 DEF Knows
    <2> QED
      BY <1>2, <1>3, <1>4, <1>6, <2>2, <2>6, OneRequestStep DEF IInv, TypeOK
  <1> QED
    BY <1>5, <1>6 DEF Create

LEMMA ActIInv ==
  ASSUME IInv, NEW r \in Reqs, Act(r)
  PROVE  IInv'
PROOF
  <1> DEFINE v == req[r].vm
  <1>1. req[r] \in Request /\ Knows(req[r]) /\ v \in Ids /\ Accepts(req[r].op, v)
        /\ req[r].op \in {"start", "stop", "delete"} /\ server[v] # "none"
    BY DEF IInv, TypeOK, Act, Knows
  <1>2. Served(v)
    BY <1>1 DEF Accepts, Allowed, Served, NovaStatus
  <1>3. server' = server /\ task' = [task EXCEPT ![v] = req[r].op]
    BY DEF Act
  <1>4. (\A w \in Ids : Onward(w)) /\ TasksServed'
    BY <1>1, <1>2, <1>3 DEF IInv, TypeOK, TasksServed, Onward, Served
  <1>5. task' \in [Ids -> {"none", "start", "stop", "delete"}]
    BY <1>1, <1>3 DEF IInv, TypeOK
  <1> DEFINE q == [req[r] EXCEPT !.sent = TRUE]
  <1>6. q \in Request /\ q.vm = v /\ q.op = req[r].op /\ q.sent
    BY <1>1, SentType
  <1>9. req[r].op \in {"start", "stop"} => server[v] # "BUILD"
    BY <1>1 DEF Accepts, Allowed
  <1>7. CASE req' = [req EXCEPT ![r] = AfterAct(@)]
    <2> DEFINE s == IF req[r].op = "delete" THEN "none" ELSE Target[req[r].op]
               p == Reply(q, SuccessCode(req[r].op), s)
    <2>1. SuccessCode(req[r].op) \in {200, 204} /\ SuccessCode(req[r].op) \in Codes
          /\ s \in VMStatus \cup {"none"}
      BY <1>1 DEF SuccessCode, Codes, Target, VMStatus
    <2>2. req' = [req EXCEPT ![r] = p]
      BY <1>7 DEF AfterAct
    <2> HIDE DEF q, s
    <2>3. /\ p \in Request /\ p.pc = "done" /\ p.vm = v /\ p.sent
          /\ p.code \in {200, 204} /\ (p.code = 200 => req[r].op \in {"start", "stop"})
      BY <1>1, <1>6, <2>1, ReplyType DEF SuccessCode
    <2>4. req'[r] = p
      BY <2>2 DEF IInv, TypeOK
    <2>5. Knows(req[r])'
      BY <1>1, <1>3, <1>9, <2>3, <2>4 DEF Knows
    <2> HIDE DEF p
    <2> QED
      BY <1>3, <1>4, <1>5, <2>2, <2>3, <2>5, OneRequestStep DEF IInv, TypeOK
  <1>8. ASSUME NEW p \in Caught(q, "Other"), req' = [req EXCEPT ![r] = p] PROVE IInv'
    <2> HIDE DEF q
    <2>2. p \in Request /\ p.pc = "done" /\ p.vm = v /\ p.code \in {404, 502}
          /\ (p.code = 404 => p.misread)
      BY <1>6, <1>8, CaughtShape
    <2>3. req'[r] = p
      BY <1>8 DEF IInv, TypeOK
    <2>4. Knows(req[r])'
      BY <1>1, <1>3, <2>2, <2>3 DEF Knows
    <2> QED
      BY <1>3, <1>4, <1>5, <1>8, <2>2, <2>4, OneRequestStep DEF IInv, TypeOK
  <1> QED
    BY <1>7, <1>8 DEF Act
----------------------------------------------------------------------------
LEMMA RespondIInv ==
  ASSUME IInv, NEW r \in Reqs, Respond(r)
  PROVE  IInv'
PROOF
  <1>1. Knows(Idle)
    BY IdleType DEF Knows
  <1> QED
    BY <1>1, IdleType, QuietStep DEF Respond

LEMMA RestartIInv ==
  ASSUME IInv, Restart
  PROVE  IInv'
PROOF
  <1>1. req' = [r \in Reqs |-> Idle] /\ UNCHANGED <<server, task>>
    BY DEF Restart
  <1>2. TypeOK' /\ TasksServed'
    BY <1>1, IdleType DEF IInv, TypeOK, TasksServed, Served
  <1>3. \A r \in Reqs : Knows(req[r])'
    BY <1>1, IdleType DEF Knows
  <1> QED
    BY <1>2, <1>3 DEF IInv

\* The invariant is inductive.
LEMMA StepIInv == IInv /\ [Next]_vars => IInv'
PROOF
  <1> SUFFICES ASSUME IInv, [Next]_vars PROVE IInv'
    OBVIOUS
  <1>1. CASE UNCHANGED vars
    BY <1>1 DEF vars, IInv, TypeOK, TasksServed, Served, Knows
  <1>2. ASSUME NEW r \in Reqs, Serve(r) PROVE IInv'
    BY <1>2, ReceiveCreateIInv, ReceiveIInv, CreateIInv, GetIInv, ActIInv, ActRefusedIInv,
       CallFailsIInv, RespondIInv DEF Serve
  <1> QED
    BY <1>1, <1>2, NovaIInv, RestartIInv DEF Next

\* Spec => []IInv: whatever Nova, its other users, failures and restarts did,
\* a request is right about its server.
THEOREM InvariantHolds == Spec => []IInv
PROOF
  <1> QED
    BY InitIInv, StepIInv, PTL DEF Spec

\* Spec => []TypeOK: the servers, Nova's tasks and the requests stay in their
\* types.
THEOREM TypeCorrect == Spec => []TypeOK
PROOF
  <1>1. IInv => TypeOK
    BY DEF IInv
  <1> QED
    BY <1>1, InvariantHolds, PTL

\* Spec => []RefusalsTruthful: a 404 or 422 of any request, unless it is a 404
\* misread in another error's text, still means what the client takes it to mean
\* once the server has moved on however it may.
THEOREM RefusalsAreTruthful == Spec => []RefusalsTruthful
PROOF
  <1>1. IInv => RefusalsTruthful
    BY DEF IInv, Knows, RefusalsTruthful
  <1> QED
    BY <1>1, InvariantHolds, PTL

\* Spec => []SuccessesTruthful: whatever others do to its server, a request that
\* was answered with success has had it, and what it showed stays true of the past.
THEOREM SuccessesAreTruthful == Spec => []SuccessesTruthful
PROOF
  <1>1. IInv => SuccessesTruthful
    BY DEF IInv, Knows, SuccessesTruthful
  <1> QED
    BY <1>1, InvariantHolds, PTL

\* Spec => NeverDeletesBuild: the test of VMService and the delete are two calls
\* to Nova, and no server gets back into BUILD between them.
THEOREM BuildIsNeverDeleted == Spec => NeverDeletesBuild
PROOF
  <1> DEFINE A == \A v \in Ids :
                    task'[v] = "delete" /\ task[v] # "delete" => server[v] # "BUILD"
  <1>1. ASSUME IInv, [Next]_vars PROVE [A]_vars
    <2> SUFFICES ASSUME Next, NEW v \in Ids, task'[v] = "delete", task[v] # "delete"
                 PROVE  server[v] # "BUILD"
      BY <1>1
    <2>1. task \in [Ids -> {"none", "start", "stop", "delete"}] /\ req \in [Reqs -> Request]
          /\ \A r \in Reqs : Knows(req[r])
      BY <1>1 DEF IInv, TypeOK
    <2>2. (\A w \in Ids : ~FinishTask(w) /\ ~ChangeElsewhere(w)) /\ ~Restart
      BY <2>1 DEF FinishTask, ChangeElsewhere, Restart
    <2>3. PICK r \in Reqs : Act(r)
      <3>1. PICK r \in Reqs : Serve(r)
        BY <2>2 DEF Next, Nova
      <3>2. ~ReceiveCreate(r) /\ ~Get(r) /\ ~ActRefused(r) /\ ~CallFails(r) /\ ~Respond(r)
        BY DEF ReceiveCreate, Get, ActRefused, CallFails, Respond
      <3>3. \A op \in Ops \ {"create"}, w \in Ids : ~Receive(r, op, w)
        BY DEF Receive
      <3>4. \A w \in Ids : ~Create(r, w)
        BY DEF Create
      <3> QED
        BY <3>1, <3>2, <3>3, <3>4 DEF Serve
    <2>4. task' = [task EXCEPT ![req[r].vm] = req[r].op] /\ req[r].pc = "act"
      BY <2>3 DEF Act
    <2>5. v = req[r].vm /\ req[r].op = "delete"
      BY <2>1, <2>4
    <2> QED
      BY <2>1, <2>4, <2>5 DEF Knows
  <1> QED
    BY <1>1, InvariantHolds, PTL DEF Spec, NeverDeletesBuild
=============================================================================
