----------------------- MODULE SQLiteRepositoryProofs -----------------------
(***************************************************************************)
(* What SQLiteRepository guarantees for any number of requests, any ids    *)
(* and any provisioning delay.  The argument is IInv: every action changes *)
(* one request and at most one row, and a row only moves forward (Forward),*)
(* so what the other requests know of their VMs stays true.                *)
(***************************************************************************)
EXTENDS SQLiteRepository, TLAPS

USE BuildDelayAssumption, NoneAssumption

\* How one row may change while requests hold what they have read of it.
Forward(v) ==
  /\ table[v] # "none" => table'[v] # "none"
  /\ Settled(v) => table'[v] \notin {"none", "BUILD"}
  /\ table[v] = "gone" => table'[v] = "gone"

\* Step r minds its own slot: the others keep theirs.
OnlySlot(r) == \A q \in Reqs \ {r} : req'[q] = req[q]
----------------------------------------------------------------------------
\* An answer is a well-formed request.
LEMMA ReplyType ==
  ASSUME NEW q \in Request, NEW c \in Codes, NEW s \in LocalStatus \cup {"none"}
  PROVE  Reply(q, c, s) \in Request
BY DEF Reply, Request, Running

LEMMA FailType ==
  ASSUME NEW q \in Request,
         NEW e \in {"NotFound", "Conflict", "Operation", "OpenStack", "Unhandled"}
  PROVE  Fail(q, e) \in Request
BY ReplyType DEF Fail, ErrorCode, Codes

LEMMA SucceedType ==
  ASSUME NEW q \in Request, NEW s \in LocalStatus \cup {"none"}
  PROVE  Succeed(q, s) \in Request
PROOF
  <1>1. SuccessCode(q.op) \in Codes
    BY DEF SuccessCode, Codes
  <1> QED
    BY <1>1, ReplyType DEF Succeed

\* So is a request that goes on to its next statement.
LEMMA GoOnType ==
  ASSUME NEW q \in Request, NEW pc \in Running, NEW s \in LocalStatus \cup {"none"}
  PROVE  /\ [q EXCEPT !.pc = pc, !.mem = s] \in Request
         /\ [q EXCEPT !.pc = pc, !.checked = TRUE, !.mem = s] \in Request
BY DEF Request

\* The local work after a read leaves a well-formed request.
LEMMA AfterGetType ==
  ASSUME NEW q \in Request, NEW s \in LocalStatus
  PROVE  AfterGet(q, s) \in Request
PROOF
  <1>1. {"remove", "write", "select"} \subseteq Running
    BY DEF Running, Statements
  <1>2. CASE q.op = "get"
    BY <1>2, SucceedType DEF AfterGet
  <1>3. Reply(q, ErrorCode.Operation, s) \in Request
    BY ReplyType DEF ErrorCode, Codes
  <1>4. CASE q.op = "delete"
    BY <1>1, <1>3, <1>4, GoOnType DEF AfterGet
  <1>5. CASE q.op \notin {"get", "delete"}
    BY <1>1, <1>3, <1>5, GoOnType DEF AfterGet
  <1> QED
    BY <1>2, <1>4, <1>5

\* An UPDATE moves one row forward, in both columns, or does nothing.
LEMMA UpdateForward ==
  ASSUME IInv, NEW v \in Ids, table[v] # "none", NEW s \in LocalStatus \ {"BUILD"},
         UpdateRow(v, s)
  PROVE  /\ table' \in [Ids -> LocalStatus \cup Absent]
         /\ blob' \in [Ids -> LocalStatus \cup Absent]
         /\ ColumnsAgree'
         /\ \A w \in Ids : Forward(w)
         /\ \A w \in Ids \ {v} : table'[w] = table[w]
         /\ table'[v] \notin {"none", "BUILD"} \/ ~Present(v)
         /\ ~Present(v) => table' = table
BY DEF IInv, TypeOK, ColumnsAgree, UpdateRow, Forward, Settled, Present, store,
       LocalStatus, Absent

\* A step of one request preserves the invariant when it changes rows forward
\* only, and the request knows what it now claims.
LEMMA OneRequestStep ==
  ASSUME IInv,
         NEW r \in Reqs,
         TypeOK',
         ColumnsAgree',
         OnlySlot(r),
         minted \subseteq minted',
         \A v \in Ids : Forward(v),
         \A v \in Ids \ minted' : table'[v] = "none",
         Knows(req[r])',
         \A q \in Reqs \ {r} : req[q].pc = "insert" =>
            /\ table'[req[q].vm] = table[req[q].vm]
            /\ req'[r].pc = "insert" => req'[r].vm # req[q].vm,
         req'[r].code = 204 => table[req'[r].vm] # "gone"
  PROVE  IInv'
PROOF
  <1>1. ASSUME NEW q \in Reqs, q # r PROVE Knows(req[q])'
    <2>1. Knows(req[q]) /\ req[q] = req'[q] /\ req[q] \in Request
      BY <1>1 DEF IInv, OnlySlot, TypeOK
    <2>2. CASE req[q].vm \in Ids
      <3>1. Forward(req[q].vm)
        BY <2>2
      <3> QED
        BY <1>1, <2>1, <2>2, <3>1 DEF Knows, Forward, Settled
    <2>3. CASE req[q].vm \notin Ids
      <3>1. req[q].pc = "idle"
        BY <2>1, <2>3 DEF Knows
      <3> QED
        BY <2>1, <3>1 DEF Knows, Request, Running, Statements
    <2> QED
      BY <2>2, <2>3
  <1>2. \A q \in Reqs : Knows(req[q])'
    BY <1>1
  <1>3. OneInserter'
    BY DEF OneInserter, OnlySlot, IInv
  <1>4. OneDeleteSucceeds'
    <2> SUFFICES ASSUME NEW p \in Reqs, NEW q \in Reqs, p # q,
                        req'[p].code = 204, req'[q].code = 204,
                        req'[p].vm = req'[q].vm
                 PROVE  FALSE
      BY DEF OneDeleteSucceeds
    <2>1. CASE p # r /\ q # r
      BY <2>1 DEF IInv, OneDeleteSucceeds, OnlySlot
    <2>2. ASSUME NEW o \in Reqs, o # r, req'[o].code = 204
          PROVE  table[req'[o].vm] = "gone"
      BY <2>2 DEF IInv, Knows, OnlySlot
    <2> QED
      BY <2>1, <2>2
  <1> QED
    BY <1>2, <1>3, <1>4 DEF IInv
----------------------------------------------------------------------------
LEMMA InitIInv == Init => IInv
BY DEF Init, IInv, TypeOK, ColumnsAgree, OneInserter, Knows, OneDeleteSucceeds, Idle,
       Request, Running, Statements, LocalStatus, Absent, Codes, Settled

LEMMA ReceiveCreateIInv ==
  ASSUME IInv, NEW r \in Reqs, NEW v \in Ids, ReceiveCreate(r, v)
  PROVE  IInv'
PROOF
  <1> DEFINE q == Incoming("create", v, "insert", "BUILD")
  <1>1. q \in Request
    BY DEF Incoming, Request, Ops, Running, Statements, LocalStatus
  <1>2. req' = [req EXCEPT ![r] = q] /\ UNCHANGED <<table, blob, age>>
        /\ minted' = minted \cup {v} /\ v \notin minted
    BY DEF ReceiveCreate
  <1>3. TypeOK'
    BY <1>1, <1>2 DEF IInv, TypeOK
  <1>4. req'[r] = q /\ OnlySlot(r)
    BY <1>2 DEF IInv, TypeOK, OnlySlot
  <1>5. Knows(req[r])'
    BY <1>2, <1>4 DEF Knows, IInv, Incoming, Ops, Settled
  <1>6. \A p \in Reqs \ {r} : req[p].pc = "insert" => req'[r].vm # req[p].vm
    BY <1>2, <1>4 DEF IInv, Knows, Incoming
  <1>7. req'[r].code # 204
    BY <1>4 DEF Incoming
  <1>8. ColumnsAgree' /\ (\A w \in Ids : Forward(w))
        /\ (\A w \in Ids \ minted' : table'[w] = "none")
    BY <1>2 DEF IInv, ColumnsAgree, Forward, Settled
  <1> QED
    BY <1>2, <1>3, <1>4, <1>5, <1>6, <1>7, <1>8, OneRequestStep

\* The actions that leave rows and ids alone need only account for the request.
LEMMA QuietStep ==
  ASSUME IInv,
         NEW r \in Reqs,
         NEW STATE q, q \in Request,
         req' = [req EXCEPT ![r] = q],
         UNCHANGED <<table, blob, age, minted>>,
         q.pc # "insert",
         q.code # 204,
         Knows(q)
  PROVE  IInv'
PROOF
  <1>1. TypeOK'
    BY DEF IInv, TypeOK
  <1>2. req'[r] = q /\ OnlySlot(r)
    BY DEF IInv, TypeOK, OnlySlot
  <1>3. Knows(req[r])'
    BY <1>2 DEF Knows, Settled
  <1>4. ColumnsAgree' /\ (\A w \in Ids : Forward(w))
        /\ (\A w \in Ids \ minted' : table'[w] = "none")
    BY DEF IInv, ColumnsAgree, Forward, Settled
  <1> QED
    BY <1>1, <1>2, <1>3, <1>4, OneRequestStep

LEMMA ReceiveIInv ==
  ASSUME IInv, NEW r \in Reqs, NEW v \in Ids, NEW op \in Ops \ {"create"},
         Receive(r, op, v)
  PROVE  IInv'
PROOF
  <1> DEFINE q == Incoming(op, v, "select", "none")
  <1>1. q \in Request
    BY DEF Incoming, Request, Ops, Running, Statements, LocalStatus
  <1>2. Knows(q) /\ q.pc # "insert" /\ q.code # 204
    BY DEF Knows, Incoming, Settled
  <1> QED
    BY <1>1, <1>2, QuietStep DEF Receive

\* A failure claims nothing of the VM.
LEMMA FailKnows ==
  ASSUME NEW q \in Request, Knows(q), q.pc # "idle",
         NEW e \in {"NotFound", "Conflict", "Operation", "OpenStack", "Unhandled"}
  PROVE  /\ Knows(Fail(q, e))
         /\ Fail(q, e).pc # "insert"
         /\ Fail(q, e).code # 204
PROOF
  <1>1. ErrorCode[e] # 204
    BY DEF ErrorCode
  <1>2. /\ Fail(q, e).pc = "done" /\ Fail(q, e).code # 204 /\ ~Fail(q, e).checked
        /\ Fail(q, e).op = q.op /\ Fail(q, e).vm = q.vm
    BY <1>1 DEF Fail, Reply, Request
  <1> QED
    BY <1>2 DEF Knows

\* Where the local work after a read can lead.
LEMMA AfterGetShape ==
  ASSUME NEW q \in Request, NEW s \in LocalStatus, Knows(q), q.pc \in Running, q.op # "create"
  PROVE  LET p == AfterGet(q, s) IN
         /\ p.op = q.op /\ p.vm = q.vm
         /\ p.pc \in {"done", "remove", "write", "select"}
         /\ p.pc = "remove" => p.op = "delete" /\ s # "BUILD"
         /\ p.pc = "write" => p.checked
         /\ p.checked => /\ p.op \in {"start", "stop"}
                         /\ p.pc \in Running
                         /\ q.checked \/ s # "BUILD"
         /\ p.code # 204
         /\ p.op \in Ops /\ p.vm \in Ids
PROOF
  <1> DEFINE p == AfterGet(q, s)
  <1>1. /\ q.op \in {"get", "delete", "start", "stop"} /\ q.vm \in Ids
        /\ q.code # 204 /\ (q.checked => q.op \in {"start", "stop"})
        /\ {"write", "remove", "select"} \subseteq Running
    BY DEF Knows, Running, Statements, Ops
  <1>2. CASE q.op = "get"
    <2>1. p = Reply(q, 200, s)
      BY <1>2 DEF AfterGet, Succeed, SuccessCode
    <2> QED
      BY <1>1, <1>2, <2>1 DEF Reply, Request, Ops
  <1>3. CASE q.op = "delete"
    <2>1. CASE s = "BUILD"
      <3>1. p = Reply(q, 422, s)
        BY <1>3, <2>1 DEF AfterGet, DeleteRefused, ErrorCode
      <3> QED
        BY <1>1, <1>3, <3>1 DEF Reply, Request, Ops
    <2>2. CASE s # "BUILD"
      <3>1. p = [q EXCEPT !.pc = "remove", !.mem = s]
        BY <1>3, <2>2 DEF AfterGet, DeleteRefused
      <3> QED
        BY <1>1, <1>3, <2>2, <3>1 DEF Request, Ops
    <2> QED
      BY <2>1, <2>2
  <1>4. CASE q.op \in {"start", "stop"}
    <2>1. CASE q.checked
      <3>1. p = [q EXCEPT !.pc = "write", !.mem = s]
        BY <1>4, <2>1 DEF AfterGet
      <3> QED
        BY <1>1, <1>4, <2>1, <3>1 DEF Request, Ops
    <2>2. CASE ~q.checked /\ s # Source[q.op]
      <3>1. p = Reply(q, 422, s)
        BY <1>4, <2>2 DEF AfterGet, ErrorCode
      <3> QED
        BY <1>1, <1>4, <3>1 DEF Reply, Request, Ops
    <2>3. CASE ~q.checked /\ s = Source[q.op]
      <3>1. p = [q EXCEPT !.pc = "select", !.checked = TRUE, !.mem = s]
        BY <1>4, <2>3 DEF AfterGet
      <3>2. s # "BUILD"
        BY <1>4, <2>3 DEF Source
      <3> QED
        BY <1>1, <1>4, <3>1, <3>2 DEF Request, Ops
    <2> QED
      BY <2>1, <2>2, <2>3
  <1> QED
    BY <1>1, <1>2, <1>3, <1>4

\* A request that a read has just shown a row in state s goes on soundly.
LEMMA AfterGetKnows ==
  ASSUME NEW q \in Request, NEW s \in LocalStatus, Knows(q), q.pc \in Running, q.op # "create",
         s # "BUILD" \/ q.checked => Settled(q.vm)
  PROVE  /\ Knows(AfterGet(q, s))
         /\ AfterGet(q, s).pc # "insert"
         /\ AfterGet(q, s).code # 204
BY AfterGetShape DEF Knows

LEMMA SelectIInv ==
  ASSUME IInv, NEW r \in Reqs, Select(r)
  PROVE  IInv'
PROOF
  <1> DEFINE q == req[r]
             v == req[r].vm
  <1>1. q \in Request /\ Knows(q) /\ q.pc = "select" /\ q.op # "create" /\ v \in Ids
        /\ q.pc \in Running /\ blob[v] = table[v]
    BY DEF IInv, TypeOK, Select, Knows, ColumnsAgree, Running, Statements
  <1>2. CASE ~Present(v)
    <2>1. Fail(q, "NotFound") \in Request /\ Knows(Fail(q, "NotFound"))
          /\ Fail(q, "NotFound").pc # "insert" /\ Fail(q, "NotFound").code # 204
      BY <1>1, FailType, FailKnows
    <2> QED
      BY <1>2, <2>1, QuietStep DEF Select
  <1>3. CASE Present(v) /\ blob[v] = "BUILD"
    <2> DEFINE p == [q EXCEPT !.pc = "resolve", !.mem = "BUILD"]
    <2>1. p \in Request
      BY <1>1, GoOnType DEF Running, LocalStatus
    <2>2. /\ p.pc = "resolve" /\ p.op = q.op /\ p.vm = q.vm
          /\ p.checked = q.checked /\ p.code = q.code
      BY <1>1 DEF Request
    <2>3. table[v] # "none" /\ "resolve" \in Running
      BY <1>3 DEF Present, Absent, Running
    <2>4. Knows(p) /\ p.pc # "insert" /\ p.code # 204
      BY <1>1, <2>2, <2>3 DEF Knows
    <2> QED
      BY <1>3, <2>1, <2>4, QuietStep DEF Select
  <1>4. CASE Present(v) /\ blob[v] # "BUILD"
    <2>1. blob[v] \in LocalStatus /\ Settled(v)
      BY <1>1, <1>4 DEF IInv, TypeOK, Present, Absent, Settled
    <2>2. AfterGet(q, blob[v]) \in Request
      BY <1>1, <2>1, AfterGetType
    <2>3. Knows(AfterGet(q, blob[v])) /\ AfterGet(q, blob[v]).pc # "insert"
          /\ AfterGet(q, blob[v]).code # 204
      BY <1>1, <2>1, AfterGetKnows
    <2> QED
      BY <1>4, <2>2, <2>3, QuietStep DEF Select
  <1> QED
    BY <1>2, <1>3, <1>4

LEMMA ResolveEarlyIInv ==
  ASSUME IInv, NEW r \in Reqs, ResolveEarly(r)
  PROVE  IInv'
PROOF
  <1>1. req[r] \in Request /\ Knows(req[r]) /\ req[r].pc \in Running /\ req[r].op # "create"
    BY DEF IInv, TypeOK, ResolveEarly, Knows, Running
  <1>2. req[r].checked => Settled(req[r].vm)
    BY <1>1 DEF Knows
  <1>3. AfterGet(req[r], "BUILD") \in Request /\ Knows(AfterGet(req[r], "BUILD"))
        /\ AfterGet(req[r], "BUILD").pc # "insert" /\ AfterGet(req[r], "BUILD").code # 204
    BY <1>1, <1>2, AfterGetType, AfterGetKnows DEF LocalStatus
  <1> QED
    BY <1>3, QuietStep DEF ResolveEarly

LEMMA ResolveElapsedIInv ==
  ASSUME IInv, NEW r \in Reqs, ResolveElapsed(r)
  PROVE  IInv'
PROOF
  <1> DEFINE p == [req[r] EXCEPT !.pc = "promote", !.mem = "ACTIVE"]
  <1>1. req[r] \in Request /\ Knows(req[r]) /\ req[r].pc = "resolve"
    BY DEF IInv, TypeOK, ResolveElapsed
  <1>2. p \in Request
    BY <1>1, GoOnType DEF Running, Statements, LocalStatus
  <1>3. Knows(p) /\ p.pc # "insert" /\ p.code # 204
    BY <1>1 DEF Knows, Request, Running, Statements, Settled
  <1>4. req' = [req EXCEPT ![r] = p] /\ UNCHANGED <<table, blob, age, minted>>
    BY DEF ResolveElapsed
  <1> QED
    BY <1>2, <1>3, <1>4, QuietStep

LEMMA StorageErrorIInv ==
  ASSUME IInv, NEW r \in Reqs, StorageError(r)
  PROVE  IInv'
PROOF
  <1> DEFINE p == Fail(req[r], "Unhandled")
  <1>1. req[r] \in Request /\ Knows(req[r]) /\ req[r].pc # "idle"
    BY DEF IInv, TypeOK, StorageError, Statements
  <1>2. p \in Request
    BY <1>1, FailType
  <1>3. Knows(p) /\ p.pc # "insert" /\ p.code # 204
    BY <1>1, FailKnows
  <1> QED
    BY <1>2, <1>3, QuietStep DEF StorageError

LEMMA RespondIInv ==
  ASSUME IInv, NEW r \in Reqs, Respond(r)
  PROVE  IInv'
PROOF
  <1>1. Idle \in Request
    BY DEF Idle, Request
  <1>2. Knows(Idle) /\ Idle.pc # "insert" /\ Idle.code # 204
    BY DEF Knows, Idle
  <1> QED
    BY <1>1, <1>2, QuietStep DEF Respond
----------------------------------------------------------------------------
\* The four statements that write.
LEMMA InsertIInv ==
  ASSUME IInv, NEW r \in Reqs, Insert(r)
  PROVE  IInv'
PROOF
  <1> DEFINE v == req[r].vm
             p == Succeed(req[r], "BUILD")
  <1>1. req[r] \in Request /\ Knows(req[r]) /\ req[r].pc = "insert" /\ v \in Ids
        /\ req[r].op = "create" /\ v \in minted /\ table[v] = "none"
    BY DEF IInv, TypeOK, Insert, Knows
  <1>2. p \in Request
    BY <1>1, SucceedType DEF LocalStatus
  <1>3. /\ table' = [table EXCEPT ![v] = "BUILD"]
        /\ blob' = [blob EXCEPT ![v] = "BUILD"]
        /\ req' = [req EXCEPT ![r] = p]
        /\ UNCHANGED <<age, minted>>
    BY DEF Insert
  <1>4. TypeOK'
    BY <1>2, <1>3 DEF IInv, TypeOK, LocalStatus
  <1>5. ColumnsAgree' /\ (\A w \in Ids : Forward(w))
        /\ (\A w \in Ids \ minted' : table'[w] = "none")
    BY <1>1, <1>3 DEF IInv, TypeOK, ColumnsAgree, Forward, Settled
  <1>6. req'[r] = p /\ OnlySlot(r)
    BY <1>3 DEF IInv, TypeOK, OnlySlot
  <1>7. p.pc = "done" /\ p.code = 201 /\ ~p.checked /\ p.op = "create" /\ p.vm = v
    BY <1>1 DEF Succeed, Reply, SuccessCode, Request
  <1>8. Knows(req[r])'
    BY <1>1, <1>6, <1>7 DEF Knows, Ops
  <1>9. \A q \in Reqs \ {r} : req[q].pc = "insert" => table'[req[q].vm] = table[req[q].vm]
    BY <1>1, <1>3 DEF IInv, TypeOK, OneInserter, Knows
  <1> QED
    BY <1>3, <1>4, <1>5, <1>6, <1>7, <1>8, <1>9, OneRequestStep

\* An UPDATE of a row that some request has seen leaves the rows that others
\* are about to insert alone.
LEMMA UpdateStep ==
  ASSUME IInv, NEW r \in Reqs, NEW STATE s, s \in LocalStatus \ {"BUILD"}, NEW STATE p, p \in Request,
         req[r].vm \in Ids,
         table[req[r].vm] # "none",
         UpdateRow(req[r].vm, s),
         req' = [req EXCEPT ![r] = p],
         UNCHANGED <<age, minted>>,
         p.pc # "insert",
         p.code # 204,
         Knows(req[r])'
  PROVE  IInv'
PROOF
  <1> DEFINE v == req[r].vm
  <1>1. /\ table' \in [Ids -> LocalStatus \cup Absent]
        /\ blob' \in [Ids -> LocalStatus \cup Absent]
        /\ ColumnsAgree'
        /\ \A w \in Ids : Forward(w)
        /\ \A w \in Ids \ {v} : table'[w] = table[w]
    BY UpdateForward
  <1>2. TypeOK'
    BY <1>1 DEF IInv, TypeOK
  <1>3. req'[r] = p /\ OnlySlot(r)
    BY DEF IInv, TypeOK, OnlySlot
  <1>4. \A w \in Ids \ minted' : table'[w] = "none"
    BY <1>1 DEF IInv
  <1>5. \A q \in Reqs \ {r} : req[q].pc = "insert" => table'[req[q].vm] = table[req[q].vm]
    BY <1>1 DEF IInv, Knows
  <1> QED
    BY <1>1, <1>2, <1>3, <1>4, <1>5, OneRequestStep

LEMMA PromoteIInv ==
  ASSUME IInv, NEW r \in Reqs, Promote(r)
  PROVE  IInv'
PROOF
  <1> DEFINE v == req[r].vm
             p == AfterGet(req[r], "ACTIVE")
  <1>1. req[r] \in Request /\ Knows(req[r]) /\ req[r].pc = "promote" /\ v \in Ids
        /\ req[r].pc \in Running /\ req[r].op # "create" /\ table[v] # "none"
    BY DEF IInv, TypeOK, Promote, Knows, Running, Statements
  <1>2. UpdateRow(v, "ACTIVE") /\ req' = [req EXCEPT ![r] = p] /\ UNCHANGED <<age, minted>>
    BY DEF Promote
  <1>3. p \in Request
    BY <1>1, AfterGetType DEF LocalStatus
  <1>4. table'[v] \notin {"none", "BUILD"} /\ (\A w \in Ids : Forward(w))
    <2>1. /\ \A w \in Ids : Forward(w)
          /\ table'[v] \notin {"none", "BUILD"} \/ ~Present(v)
          /\ ~Present(v) => table' = table
      BY <1>1, <1>2, UpdateForward DEF LocalStatus
    <2> QED
      BY <1>1, <2>1 DEF Present, Absent
  <1>5. req'[r] = p
    BY <1>2 DEF IInv, TypeOK
  <1>6. Knows(req[r])' /\ p.pc # "insert" /\ p.code # 204
    BY <1>1, <1>4, <1>5, AfterGetShape DEF Knows, LocalStatus, Settled
  <1> QED
    BY <1>1, <1>2, <1>3, <1>6, UpdateStep DEF LocalStatus

LEMMA WriteStatusIInv ==
  ASSUME IInv, NEW r \in Reqs, WriteStatus(r)
  PROVE  IInv'
PROOF
  <1> DEFINE v == req[r].vm
             s == Target[req[r].op]
             p == Succeed(req[r], s)
  <1>1. req[r] \in Request /\ Knows(req[r]) /\ req[r].pc = "write" /\ v \in Ids
        /\ req[r].op \in {"start", "stop"} /\ Settled(v) /\ table[v] # "none"
    BY DEF IInv, TypeOK, WriteStatus, Knows, Settled
  <1>2. s \in LocalStatus \ {"BUILD"}
    BY <1>1 DEF Target, LocalStatus
  <1>3. UpdateRow(v, s) /\ req' = [req EXCEPT ![r] = p] /\ UNCHANGED <<age, minted>>
    BY DEF WriteStatus
  <1>4. p \in Request
    BY <1>1, <1>2, SucceedType
  <1>5. p.pc = "done" /\ p.code = 200 /\ ~p.checked /\ p.op = req[r].op /\ p.vm = v
    BY <1>1 DEF Succeed, Reply, SuccessCode, Request
  <1>6. req'[r] = p
    BY <1>3 DEF IInv, TypeOK
  <1>7. Knows(req[r])'
    BY <1>1, <1>5, <1>6 DEF Knows, Ops
  <1>8. p.pc # "insert" /\ p.code # 204 /\ table[req[r].vm] # "none" /\ req[r].vm \in Ids
    BY <1>1, <1>5
  <1> HIDE DEF s, p
  <1> QED
    BY <1>2, <1>3, <1>4, <1>7, <1>8, UpdateStep

LEMMA RemoveIInv ==
  ASSUME IInv, NEW r \in Reqs, Remove(r)
  PROVE  IInv'
PROOF
  <1> DEFINE v == req[r].vm
  <1>1. req[r] \in Request /\ Knows(req[r]) /\ req[r].pc = "remove" /\ v \in Ids
        /\ req[r].op = "delete" /\ Settled(v)
    BY DEF IInv, TypeOK, Remove, Knows
  <1>2. CASE ~Present(v)
    <2> DEFINE p == Fail(req[r], "NotFound")
    <2>1. p \in Request /\ Knows(p) /\ p.pc # "insert" /\ p.code # 204
      BY <1>1, FailType, FailKnows
    <2>2. req' = [req EXCEPT ![r] = p] /\ UNCHANGED <<table, blob, age, minted>>
      BY <1>2 DEF Remove, store
    <2> QED
      BY <2>1, <2>2, QuietStep
  <1>3. CASE Present(v)
    <2> DEFINE p == Succeed(req[r], "none")
    <2>1. /\ table' = [table EXCEPT ![v] = "gone"]
          /\ blob' = [blob EXCEPT ![v] = "gone"]
          /\ req' = [req EXCEPT ![r] = p]
          /\ UNCHANGED <<age, minted>>
      BY <1>3 DEF Remove
    <2>2. p \in Request
      BY <1>1, SucceedType
    <2>3. p.pc = "done" /\ p.code = 204 /\ ~p.checked /\ p.op = "delete" /\ p.vm = v
      BY <1>1 DEF Succeed, Reply, SuccessCode, Request
    <2>4. TypeOK'
      BY <2>1, <2>2 DEF IInv, TypeOK, Absent
    <2>5. ColumnsAgree' /\ (\A w \in Ids : Forward(w))
          /\ (\A w \in Ids \ minted' : table'[w] = "none")
      BY <1>1, <1>3, <2>1
      DEF IInv, TypeOK, ColumnsAgree, Forward, Settled, Present, Absent
    <2>6. req'[r] = p /\ OnlySlot(r)
      BY <2>1 DEF IInv, TypeOK, OnlySlot
    <2>7. table'[v] = "gone" /\ table[v] # "gone"
      BY <1>1, <1>3, <2>1 DEF IInv, TypeOK, Present, Absent
    <2>8. Knows(req[r])'
      BY <1>1, <2>3, <2>6, <2>7 DEF Knows, Ops
    <2>9. \A q \in Reqs \ {r} : req[q].pc = "insert" => table'[req[q].vm] = table[req[q].vm]
      BY <1>1, <2>1 DEF IInv, TypeOK, Knows, Settled
    <2> QED
      BY <2>1, <2>3, <2>4, <2>5, <2>6, <2>7, <2>8, <2>9, OneRequestStep
  <1> QED
    BY <1>2, <1>3
----------------------------------------------------------------------------
\* The clock, and the process.
LEMMA ClockIInv ==
  ASSUME IInv, Tick \/ ClockSetBack
  PROVE  IInv'
PROOF
  <1>1. age' \in [Ids -> 0..BuildDelay]
    <2>1. CASE Tick
      BY <2>1 DEF Tick, IInv, TypeOK
    <2>2. CASE ClockSetBack
      BY <2>2 DEF ClockSetBack
    <2> QED
      BY <2>1, <2>2
  <1>2. UNCHANGED <<table, blob, minted, req>>
    BY DEF Tick, ClockSetBack
  <1> QED
    BY <1>1, <1>2 DEF IInv, TypeOK, ColumnsAgree, OneInserter, OneDeleteSucceeds, Knows, Settled

LEMMA RestartIInv ==
  ASSUME IInv, Restart
  PROVE  IInv'
PROOF
  <1>1. Idle \in Request /\ Idle.pc = "idle" /\ Idle.code = 0 /\ ~Idle.checked
    BY DEF Idle, Request
  <1>2. req' = [r \in Reqs |-> Idle] /\ UNCHANGED <<table, blob, age, minted>>
    BY DEF Restart
  <1>3. \A r \in Reqs : Knows(req[r])'
    BY <1>1, <1>2 DEF Knows
  <1> QED
    BY <1>1, <1>2, <1>3 DEF IInv, TypeOK, ColumnsAgree, OneInserter, OneDeleteSucceeds

\* The invariant is inductive.
LEMMA StepIInv == IInv /\ [Next]_vars => IInv'
PROOF
  <1> SUFFICES ASSUME IInv, [Next]_vars PROVE IInv'
    OBVIOUS
  <1>1. CASE UNCHANGED vars
    BY <1>1 DEF vars, IInv, TypeOK, ColumnsAgree, OneInserter, OneDeleteSucceeds, Knows, Settled
  <1>2. ASSUME NEW r \in Reqs, Step(r) PROVE IInv'
    BY <1>2, InsertIInv, SelectIInv, ResolveEarlyIInv, ResolveElapsedIInv, PromoteIInv,
       WriteStatusIInv, RemoveIInv DEF Step
  <1>3. ASSUME NEW r \in Reqs, Client(r) PROVE IInv'
    BY <1>3, ReceiveCreateIInv, ReceiveIInv, RespondIInv DEF Client
  <1>4. CASE Tick
    BY <1>4, ClockIInv
  <1>5. CASE Fault
    BY <1>5, StorageErrorIInv, RestartIInv, ClockIInv DEF Fault
  <1> QED
    BY <1>1, <1>2, <1>3, <1>4, <1>5 DEF Next

\* Spec => []IInv: after any number of statements of any number of requests,
\* whatever errors, restarts and clock changes came between them, every request
\* is right about its VM.
THEOREM InvariantHolds == Spec => []IInv
PROOF
  <1>1. Init => IInv
    BY InitIInv
  <1>2. IInv /\ [Next]_vars => IInv'
    BY StepIInv
  <1> QED
    BY <1>1, <1>2, PTL DEF Spec

\* Every row, age and request stays within its type; in particular UPDATE is
\* never given a status that is not one of LocalStatus.
THEOREM TypeCorrect == Spec => []TypeOK
PROOF
  <1>1. IInv => TypeOK
    BY DEF IInv
  <1> QED
    BY <1>1, InvariantHolds, PTL

\* The status column and the status in the data column never disagree.
THEOREM ColumnsAlwaysAgree == Spec => []ColumnsAgree
PROOF
  <1>1. IInv => ColumnsAgree
    BY DEF IInv
  <1> QED
    BY <1>1, InvariantHolds, PTL

\* No two concurrent DELETE requests for one VM are both answered 204.
THEOREM OneDeleteOnly == Spec => []OneDeleteSucceeds
PROOF
  <1>1. IInv => OneDeleteSucceeds
    BY DEF IInv
  <1> QED
    BY <1>1, InvariantHolds, PTL
----------------------------------------------------------------------------
\* One row of the table changes: a move of the life cycle.
LEMMA RowMoves ==
  ASSUME NEW v \in Ids, table \in [Ids -> LocalStatus \cup Absent],
         NEW STATE s, table' = [table EXCEPT ![v] = s],
         \/ table[v] = "none" /\ s = "BUILD"
         \/ table[v] \in LocalStatus /\ s = "ACTIVE"
         \/ table[v] = "ACTIVE" /\ s = "STOPPED"
         \/ table[v] \in {"ACTIVE", "STOPPED"} /\ s = "gone"
         \/ table[v] = s
  PROVE  [Lifecycle!Next]_table
PROOF
  <1>1. CASE table[v] = s
    BY <1>1
  <1>2. CASE table[v] = "none" /\ s = "BUILD"
    BY <1>2 DEF Lifecycle!Next, Lifecycle!CreateVM, Lifecycle!Move
  <1>3. CASE table[v] = "BUILD" /\ s = "ACTIVE"
    BY <1>3 DEF Lifecycle!Next, Lifecycle!FinishBuild, Lifecycle!Move
  <1>4. CASE table[v] = "STOPPED" /\ s = "ACTIVE"
    BY <1>4 DEF Lifecycle!Next, Lifecycle!StartVM, Lifecycle!Move
  <1>5. CASE table[v] = "ACTIVE" /\ s = "STOPPED"
    BY <1>5 DEF Lifecycle!Next, Lifecycle!StopVM, Lifecycle!Move
  <1>6. CASE table[v] \in {"ACTIVE", "STOPPED"} /\ s = "gone"
    BY <1>6 DEF Lifecycle!Next, Lifecycle!DeleteVM, Lifecycle!Move
  <1> QED
    BY <1>1, <1>2, <1>3, <1>4, <1>5, <1>6 DEF LocalStatus

\* Every statement that writes is one move of the life cycle or none, by what
\* IInv says its request knows; nothing else touches the table.
LEMMA StepRefines == IInv /\ [Next]_vars => [Lifecycle!Next]_table
PROOF
  <1> SUFFICES ASSUME IInv, [Next]_vars PROVE [Lifecycle!Next]_table
    OBVIOUS
  <1>1. table \in [Ids -> LocalStatus \cup Absent]
    BY DEF IInv, TypeOK
  <1>2. ASSUME NEW r \in Reqs, Insert(r) PROVE [Lifecycle!Next]_table
    <2>1. req[r].vm \in Ids /\ table[req[r].vm] = "none"
      BY <1>2 DEF IInv, Insert, Knows
    <2> QED
      BY <1>1, <1>2, <2>1, RowMoves DEF Insert
  <1>3. ASSUME NEW r \in Reqs, Promote(r) PROVE [Lifecycle!Next]_table
    <2>1. req[r].vm \in Ids /\ UpdateRow(req[r].vm, "ACTIVE")
      BY <1>3 DEF IInv, Promote, Knows
    <2>2. CASE Present(req[r].vm)
      <3>1. table[req[r].vm] \in LocalStatus
            /\ table' = [table EXCEPT ![req[r].vm] = "ACTIVE"]
        BY <1>1, <2>1, <2>2 DEF UpdateRow, Present, Absent
      <3> QED
        BY <1>1, <2>1, <3>1, RowMoves
    <2>3. CASE ~Present(req[r].vm)
      BY <2>1, <2>3 DEF UpdateRow, store
    <2> QED
      BY <2>2, <2>3
  <1>4. ASSUME NEW r \in Reqs, WriteStatus(r) PROVE [Lifecycle!Next]_table
    <2> DEFINE s == Target[req[r].op]
    <2>1. req[r].vm \in Ids /\ UpdateRow(req[r].vm, s) /\ Settled(req[r].vm)
          /\ s \in {"ACTIVE", "STOPPED"}
      BY <1>4 DEF IInv, WriteStatus, Knows, Target
    <2>2. CASE Present(req[r].vm)
      <3>1. table[req[r].vm] \in {"ACTIVE", "STOPPED"}
            /\ table' = [table EXCEPT ![req[r].vm] = s]
        BY <1>1, <2>1, <2>2 DEF UpdateRow, Present, Absent, LocalStatus, Settled
      <3>2. table[req[r].vm] \in LocalStatus
        BY <3>1 DEF LocalStatus
      <3> HIDE DEF s
      <3> QED
        BY <1>1, <2>1, <3>1, <3>2, RowMoves
    <2>3. CASE ~Present(req[r].vm)
      BY <2>1, <2>3 DEF UpdateRow, store
    <2> QED
      BY <2>2, <2>3
  <1>5. ASSUME NEW r \in Reqs, Remove(r) PROVE [Lifecycle!Next]_table
    <2>1. req[r].vm \in Ids /\ Settled(req[r].vm)
      BY <1>5 DEF IInv, Remove, Knows
    <2>2. CASE Present(req[r].vm)
      <3>1. table[req[r].vm] \in {"ACTIVE", "STOPPED"}
            /\ table' = [table EXCEPT ![req[r].vm] = "gone"]
        BY <1>1, <1>5, <2>1, <2>2 DEF Remove, Present, Absent, LocalStatus, Settled
      <3> QED
        BY <1>1, <2>1, <3>1, RowMoves
    <2>3. CASE ~Present(req[r].vm)
      BY <1>5, <2>3 DEF Remove, store
    <2> QED
      BY <2>2, <2>3
  <1>6. ASSUME NEW r \in Reqs,
               Select(r) \/ ResolveEarly(r) \/ ResolveElapsed(r) \/ Client(r)
        PROVE  UNCHANGED table
    BY <1>6 DEF Select, ResolveEarly, ResolveElapsed, Client, ReceiveCreate, Receive, Respond
  <1>7. CASE Tick \/ Fault \/ UNCHANGED vars
    BY <1>7 DEF Tick, Fault, StorageError, Restart, ClockSetBack, vars
  <1> QED
    BY <1>2, <1>3, <1>4, <1>5, <1>6, <1>7 DEF Next, Step

\* SQLiteRepository implements VMLifecycle: the stale statements of concurrent
\* requests never take a row off the life cycle.
THEOREM ImplementsLifecycle == Spec => RefinesLifecycle
PROOF
  <1>1. Init => Lifecycle!Init
    BY DEF Init, Lifecycle!Init
  <1>2. IInv /\ [Next]_vars => [Lifecycle!Next]_table
    BY StepRefines
  <1> QED
    BY <1>1, <1>2, InvariantHolds, PTL DEF Spec, RefinesLifecycle, Lifecycle!Spec
=============================================================================
