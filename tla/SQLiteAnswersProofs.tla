------------------------ MODULE SQLiteAnswersProofs ------------------------
(***************************************************************************)
(* What an answer of SQLiteRepository is worth: it stands, and it is the   *)
(* answer of the mock's atomic operation when no other request runs on the *)
(* VM meanwhile.  The argument is ObservedIInv.  That answers stand needs  *)
(* only that rows drift forward; that lone requests are exact needs that   *)
(* the row of a VM is written by requests on that VM alone.                *)
(***************************************************************************)
EXTENDS SQLiteObservedProofs

\* Of a request that has its VM to itself.
Lone(r) ==
  found[r] # "shared" =>
    /\ req[r].pc \in Running
    /\ Beside(r) = {}
    /\ Exact(req[r], found[r], table[req[r].vm])
----------------------------------------------------------------------------
\* Where AfterGet leads, in full: it answers with the status it was given, or
\* goes on to a DELETE, a second SELECT or an UPDATE.
LEMMA AfterGetCases ==
  ASSUME NEW q \in Request, NEW s \in LocalStatus, q.op \in {"get", "delete", "start", "stop"},
         q.checked => q.op \in {"start", "stop"}
  PROVE  LET p == AfterGet(q, s) IN
         /\ p.vm = q.vm /\ p.op = q.op
         /\ \/ /\ p.pc = "done" /\ ~p.checked /\ p.mem = s
               /\ \/ q.op = "get" /\ p.code = 200
                  \/ q.op = "delete" /\ s = "BUILD" /\ p.code = 422
                  \/ q.op \in {"start", "stop"} /\ ~q.checked /\ s # Source[q.op] /\ p.code = 422
            \/ q.op = "delete" /\ s # "BUILD" /\ p.pc = "remove" /\ ~p.checked
            \/ q.op \in {"start", "stop"} /\ q.checked /\ p.pc = "write" /\ p.checked
            \/ q.op \in {"start", "stop"} /\ s = Source[q.op] /\ p.pc = "select" /\ p.checked
PROOF
  <1> DEFINE p == AfterGet(q, s)
  <1>1. CASE q.op = "get"
    <2>1. p = Reply(q, 200, s)
      BY <1>1 DEF AfterGet, Succeed, SuccessCode
    <2> QED
      BY <1>1, <2>1, ReplyShape
  <1>2. CASE q.op = "delete" /\ s = "BUILD"
    <2>1. p = Reply(q, 422, s)
      BY <1>2 DEF AfterGet, DeleteRefused, ErrorCode
    <2> QED
      BY <1>2, <2>1, ReplyShape
  <1>3. CASE q.op = "delete" /\ s # "BUILD"
    <2>1. p = [q EXCEPT !.pc = "remove", !.mem = s]
      BY <1>3 DEF AfterGet, DeleteRefused
    <2> QED
      BY <1>3, <2>1 DEF Request
  <1>4. CASE q.op \in {"start", "stop"} /\ q.checked
    <2>1. p = [q EXCEPT !.pc = "write", !.mem = s]
      BY <1>4 DEF AfterGet
    <2> QED
      BY <1>4, <2>1 DEF Request
  <1>5. CASE q.op \in {"start", "stop"} /\ ~q.checked /\ s # Source[q.op]
    <2>1. p = Reply(q, 422, s)
      BY <1>5 DEF AfterGet, ErrorCode
    <2> QED
      BY <1>5, <2>1, ReplyShape
  <1>6. CASE q.op \in {"start", "stop"} /\ ~q.checked /\ s = Source[q.op]
    <2>1. p = [q EXCEPT !.pc = "select", !.checked = TRUE, !.mem = s]
      BY <1>6 DEF AfterGet
    <2> QED
      BY <1>6, <2>1 DEF Request
  <1> QED
    BY <1>1, <1>2, <1>3, <1>4, <1>5, <1>6

\* What each step of a request does, in the terms of the lemmas above: the
\* request that takes it, the row it finds and the row it leaves.
StepShape(r) ==
  LET q == req[r]
      p == req'[r]
      now  == table[q.vm]
      next == table'[q.vm]
  IN
  /\ p.vm = q.vm /\ p.op = q.op
  /\ \/ /\ q.pc = "insert" /\ q.op = "create" /\ now = "none"
        /\ next = "BUILD" /\ p.pc = "done" /\ p.code = 201 /\ p.mem = "BUILD"
     \/ /\ q.pc = "select" /\ now \in Absent
        /\ next = now /\ p.pc = "done" /\ p.code = 404 /\ p.mem = "none"
     \/ /\ q.pc = "select" /\ now = "BUILD"
        /\ next = now /\ p.pc = "resolve" /\ p.checked = q.checked
     \/ /\ q.pc = "select" /\ now \in LocalStatus \ {"BUILD"}
        /\ next = now /\ p = AfterGet(q, now)
     \/ /\ q.pc = "resolve"
        /\ next = now /\ p = AfterGet(q, "BUILD")
     \/ /\ q.pc = "resolve"
        /\ next = now /\ p.pc = "promote" /\ p.checked = q.checked
     \/ /\ q.pc = "promote"
        /\ next = (IF now \in Absent THEN now ELSE "ACTIVE") /\ p = AfterGet(q, "ACTIVE")
     \/ /\ q.pc = "write" /\ q.checked
        /\ next = (IF now \in Absent THEN now ELSE Target[q.op])
        /\ p.pc = "done" /\ p.code = 200 /\ p.mem = Target[q.op]
     \/ /\ q.pc = "remove" /\ q.op = "delete" /\ now \notin Absent
        /\ next = "gone" /\ p.pc = "done" /\ p.code = 204 /\ p.mem = "none"
     \/ /\ q.pc = "remove" /\ q.op = "delete" /\ now \in Absent
        /\ next = now /\ p.pc = "done" /\ p.code = 404 /\ p.mem = "none"
LEMMA StepHasShape ==
  ASSUME IInv, NEW r \in Reqs, Step(r)
  PROVE  /\ StepShape(r)
         /\ req[r].pc \in Running
         /\ \A q \in Reqs \ {r} : req'[q] = req[q]
         /\ \A w \in Ids \ {req[r].vm} : table'[w] = table[w]
PROOF
  <1> DEFINE q == req[r]
             v == req[r].vm
  <1>1. req[r].pc \in Running /\ \A p \in Reqs \ {r} : req'[p] = req[p]
    BY DEF Step, Insert, Select, ResolveEarly, ResolveElapsed, Promote, WriteStatus,
       Remove, IInv, TypeOK, Running, Statements
  <1>2. q \in Request /\ Knows(q) /\ v \in Ids
    BY <1>1 DEF IInv, TypeOK, Knows, Running, Statements
  <1>3. table[v] \in LocalStatus \cup Absent /\ blob[v] = table[v]
    BY <1>2 DEF IInv, TypeOK, ColumnsAgree
  <1>4. q.pc \in {"select", "resolve", "promote"} => q.op \in {"get", "delete", "start", "stop"}
    BY <1>1, <1>2 DEF Knows, Ops, Running, Statements
  <1>5. q.checked => q.op \in {"start", "stop"}
    BY <1>2 DEF Knows
  <1>6. \A w \in Ids \ {v} : table'[w] = table[w]
    BY <1>2 DEF Step, Insert, Select, ResolveEarly, ResolveElapsed, Promote, WriteStatus,
       Remove, UpdateRow, store, IInv, TypeOK
  <1>7. CASE Insert(r)
    <2>1. req'[r] = Reply(q, 201, "BUILD") /\ table'[v] = "BUILD"
          /\ q.op = "create" /\ table[v] = "none" /\ q.pc = "insert"
      BY <1>2, <1>7 DEF Insert, Succeed, SuccessCode, Knows, IInv, TypeOK
    <2> QED
      BY <1>2, <2>1, ReplyShape, <1>1, <1>6 DEF StepShape
  <1>8. CASE Select(r)
    <2>1. /\ q.pc = "select" /\ table' = table
          /\ req'[r] = IF ~Present(v) THEN Fail(q, "NotFound")
                       ELSE IF blob[v] = "BUILD"
                            THEN [q EXCEPT !.pc = "resolve", !.mem = "BUILD"]
                            ELSE AfterGet(q, blob[v])
      BY <1>8 DEF Select, IInv, TypeOK
    <2>2. CASE table[v] \in Absent
      <3>1. req'[r] = Reply(q, 404, "none")
        BY <2>1, <2>2 DEF Present, Fail, ErrorCode
      <3>2. /\ req'[r].pc = "done" /\ req'[r].op = q.op /\ req'[r].vm = v
            /\ req'[r].mem = "none" /\ req'[r].code = 404
        BY <1>2, <3>1, ReplyShape
      <3> QED
        BY <2>1, <2>2, <3>2, <1>1, <1>6 DEF StepShape
    <2>3. CASE table[v] = "BUILD"
      <3>1. req'[r] = [q EXCEPT !.pc = "resolve", !.mem = "BUILD"]
        BY <1>3, <2>1, <2>3 DEF Present, Absent
      <3>2. req'[r].pc = "resolve" /\ req'[r].op = q.op /\ req'[r].vm = v
            /\ req'[r].checked = q.checked
        BY <1>2, <3>1 DEF Request
      <3> QED
        BY <2>1, <2>3, <3>2, <1>1, <1>6 DEF StepShape
    <2>4. CASE table[v] \in LocalStatus \ {"BUILD"}
      <3>1. req'[r] = AfterGet(q, table[v])
        BY <1>3, <2>1, <2>4 DEF Present, Absent, LocalStatus
      <3>2. req'[r].vm = v /\ req'[r].op = q.op
        BY <1>2, <1>4, <1>5, <2>1, <2>4, <3>1, AfterGetCases
      <3> QED
        BY <2>1, <2>4, <3>1, <3>2, <1>1, <1>6 DEF StepShape
    <2> QED
      BY <1>3, <2>2, <2>3, <2>4
  <1>9. CASE ResolveEarly(r)
    <2>1. q.pc = "resolve" /\ req'[r] = AfterGet(q, "BUILD") /\ table' = table
      BY <1>9 DEF ResolveEarly, IInv, TypeOK
    <2>2. req'[r].vm = v /\ req'[r].op = q.op
      BY <1>2, <1>4, <1>5, <2>1, AfterGetCases DEF LocalStatus
    <2> QED
      BY <2>1, <2>2, <1>1, <1>6 DEF StepShape
  <1>10. CASE ResolveElapsed(r)
    <2>1. q.pc = "resolve" /\ table' = table
          /\ req'[r] = [q EXCEPT !.pc = "promote", !.mem = "ACTIVE"]
      BY <1>10 DEF ResolveElapsed, IInv, TypeOK
    <2>2. req'[r].pc = "promote" /\ req'[r].op = q.op /\ req'[r].vm = v
          /\ req'[r].checked = q.checked
      BY <1>2, <2>1 DEF Request
    <2> QED
      BY <2>1, <2>2, <1>1, <1>6 DEF StepShape
  <1>11. CASE Promote(r)
    <2>1. /\ q.pc = "promote" /\ req'[r] = AfterGet(q, "ACTIVE")
          /\ table'[v] = IF table[v] \in Absent THEN table[v] ELSE "ACTIVE"
      BY <1>2, <1>11 DEF Promote, UpdateRow, store, Present, IInv, TypeOK
    <2>2. req'[r].vm = v /\ req'[r].op = q.op
      BY <1>2, <1>4, <1>5, <2>1, AfterGetCases DEF LocalStatus
    <2> QED
      BY <2>1, <2>2, <1>1, <1>6 DEF StepShape
  <1>12. CASE WriteStatus(r)
    <2>1. q.pc = "write" /\ q.checked /\ q.op \in {"start", "stop"}
      BY <1>2, <1>12 DEF WriteStatus, Knows
    <2>2. /\ req'[r] = Reply(q, 200, Target[q.op])
          /\ table'[v] = IF table[v] \in Absent THEN table[v] ELSE Target[q.op]
      BY <1>2, <1>12, <2>1
      DEF WriteStatus, UpdateRow, store, Present, Succeed, SuccessCode, IInv, TypeOK
    <2> QED
      BY <1>2, <2>1, <2>2, ReplyShape, <1>1, <1>6 DEF StepShape
  <1>13. CASE Remove(r)
    <2>1. q.pc = "remove" /\ q.op = "delete"
      BY <1>2, <1>13 DEF Remove, Knows
    <2>2. CASE table[v] \in Absent
      <3>1. req'[r] = Reply(q, 404, "none") /\ table' = table
        BY <1>13, <2>2 DEF Remove, Present, Fail, ErrorCode, store, IInv, TypeOK
      <3> QED
        BY <1>2, <2>1, <2>2, <3>1, ReplyShape, <1>1, <1>6 DEF StepShape
    <2>3. CASE table[v] \notin Absent
      <3>1. req'[r] = Reply(q, 204, "none") /\ table'[v] = "gone"
        BY <1>2, <1>13, <2>1, <2>3
        DEF Remove, Present, Succeed, SuccessCode, IInv, TypeOK
      <3> QED
        BY <1>2, <2>1, <2>3, <3>1, ReplyShape, <1>1, <1>6 DEF StepShape
    <2> QED
      BY <2>2, <2>3
  <1> QED
    BY <1>7, <1>8, <1>9, <1>10, <1>11, <1>12, <1>13 DEF Step
----------------------------------------------------------------------------
\* An answer stands however the row drifts after it.
LEMMA StandsOn ==
  ASSUME IInv, NEW r \in Reqs, req[r].pc = "done", Stands(req[r], table[req[r].vm]),
         \A v \in Ids : Drifts(v)
  PROVE  Stands(req[r], table'[req[r].vm])
PROOF
  <1>1. req[r].vm \in Ids
    BY DEF IInv, Knows
  <1>2. Drifts(req[r].vm)
    BY <1>1
  <1> QED
    BY <1>2 DEF Stands, Drifts, Settled

\* And it stands when it is given: what is shown out of BUILD was found so, or
\* has just been written so, or is already gone.
LEMMA StepStands ==
  ASSUME IInv, NEW r \in Reqs, Step(r), req'[r].pc = "done", \A v \in Ids : Drifts(v)
  PROVE  Stands(req'[r], table'[req'[r].vm])
PROOF
  <1> DEFINE q == req[r]
             v == req[r].vm
  <1>1. StepShape(r) /\ q \in Request /\ Knows(q) /\ q.pc \in Running
    BY StepHasShape DEF IInv, TypeOK
  <1>2. v \in Ids /\ table[v] \in LocalStatus \cup Absent
    BY <1>1 DEF IInv, TypeOK, Knows, Running, Statements
  <1>3. Drifts(v)
    BY <1>2
  <1>4. /\ q.pc \in {"resolve", "promote"} => table[v] # "none"
        /\ q.checked => Settled(v) /\ q.op \in {"start", "stop"}
        /\ q.pc \in {"select", "resolve", "promote"} => q.op \in {"get", "delete", "start", "stop"}
    BY <1>1 DEF Knows, Ops, Running, Statements
  <1>5. ASSUME NEW s \in LocalStatus, req'[r] = AfterGet(q, s),
               q.pc \in {"select", "resolve", "promote"},
               table'[v] # "none", s # "BUILD" => table'[v] \notin {"none", "BUILD"}
        PROVE  Stands(req'[r], table'[req'[r].vm])
    <2>1. /\ req'[r].vm = v /\ req'[r].mem = s /\ req'[r].code \in {200, 422}
      BY <1>1, <1>4, <1>5, AfterGetCases
    <2> QED
      BY <1>5, <2>1 DEF Stands
  <1>6. CASE q.pc = "insert"
    BY <1>1, <1>6 DEF StepShape, Stands
  <1>7. CASE q.pc = "select"
    <2>1. CASE table[v] \in Absent
      BY <1>1, <1>7, <2>1 DEF StepShape, Stands, LocalStatus, Absent
    <2>2. CASE table[v] \in LocalStatus \ {"BUILD"}
      <3>1. req'[r] = AfterGet(q, table[v]) /\ table'[v] = table[v]
        BY <1>1, <1>7, <2>2 DEF StepShape, LocalStatus, Absent
      <3> QED
        BY <1>5, <1>7, <2>2, <3>1 DEF LocalStatus
    <2>3. CASE table[v] = "BUILD"
      BY <1>1, <1>7, <2>3 DEF StepShape, Absent
    <2> QED
      BY <1>2, <2>1, <2>2, <2>3
  <1>8. CASE q.pc = "resolve"
    <2>1. req'[r] = AfterGet(q, "BUILD") /\ table'[v] = table[v]
      BY <1>1, <1>8 DEF StepShape
    <2> QED
      BY <1>4, <1>5, <1>8, <2>1 DEF LocalStatus
  <1>9. CASE q.pc = "promote"
    <2>1. /\ req'[r] = AfterGet(q, "ACTIVE")
          /\ table'[v] = IF table[v] \in Absent THEN table[v] ELSE "ACTIVE"
      BY <1>1, <1>9 DEF StepShape
    <2>2. table'[v] \notin {"none", "BUILD"}
      BY <1>4, <1>9, <2>1 DEF Absent
    <2> QED
      BY <1>5, <1>9, <2>1, <2>2 DEF LocalStatus
  <1>10. CASE q.pc = "write"
    <2>1. req'[r].code = 200 /\ req'[r].vm = v /\ Settled(v)
      BY <1>1, <1>4, <1>10 DEF StepShape
    <2>2. table'[v] \notin {"none", "BUILD"}
      BY <1>3, <2>1 DEF Drifts
    <2> QED
      BY <2>1, <2>2 DEF Stands
  <1>11. CASE q.pc = "remove"
    BY <1>1, <1>11 DEF StepShape, Stands
  <1> QED
    BY <1>1, <1>6, <1>7, <1>8, <1>9, <1>10, <1>11 DEF Running, Statements

\* Answers are given by steps of requests and by errors of the database, which
\* claim nothing; all other steps leave those that were given to the drift.
LEMMA NextStands == IInv /\ AnswersStand /\ [Next]_vars => AnswersStand'
PROOF
  <1> SUFFICES ASSUME IInv, AnswersStand, [Next]_vars,
                      NEW q \in Reqs, req'[q].pc = "done"
               PROVE  Stands(req'[q], table'[req'[q].vm])
    BY DEF AnswersStand
  <1>1. \A v \in Ids : Drifts(v)
    BY RowsDrift
  <1>2. CASE req'[q] = req[q]
    BY <1>1, <1>2, StandsOn DEF AnswersStand
  <1>3. ASSUME NEW r \in Reqs, Step(r) PROVE Stands(req'[q], table'[req'[q].vm])
    <2>1. CASE q = r
      BY <1>1, <1>3, <2>1, StepStands
    <2>2. CASE q # r
      BY <1>2, <1>3, <2>2, StepHasShape
    <2> QED
      BY <2>1, <2>2
  <1>4. ASSUME NEW r \in Reqs, StorageError(r) PROVE Stands(req'[q], table'[req'[q].vm])
    <2>1. CASE q = r
      <3>1. req'[q] = Reply(req[q], 500, "none") /\ req[q] \in Request
        BY <1>4, <2>1 DEF StorageError, Fail, ErrorCode, IInv, TypeOK
      <3>2. req'[q].code = 500
        BY <3>1, ReplyShape
      <3> QED
        BY <3>2 DEF Stands
    <2>2. CASE q # r
      BY <1>2, <1>4, <2>2 DEF StorageError, IInv, TypeOK
    <2> QED
      BY <2>1, <2>2
  <1>5. ASSUME NEW r \in Reqs, Client(r) PROVE req'[q] = req[q]
    <2>1. CASE q = r
      <3>1. req'[q].pc # "done"
        BY <1>5, <2>1 DEF Client, ReceiveCreate, Receive, Respond, Incoming, Idle, IInv, TypeOK
      <3> QED
        BY <3>1
    <2>2. CASE q # r
      BY <1>5, <2>2 DEF Client, ReceiveCreate, Receive, Respond, IInv, TypeOK
    <2> QED
      BY <2>1, <2>2
  <1>6. ~Restart
    BY DEF Restart, Idle
  <1>7. CASE Tick \/ ClockSetBack \/ UNCHANGED vars
    BY <1>2, <1>7 DEF Tick, ClockSetBack, vars
  <1> QED
    BY <1>2, <1>3, <1>4, <1>5, <1>6, <1>7 DEF Next, Fault
----------------------------------------------------------------------------
\* What the mock does on a record, its end of BUILD applied first.
LEMMA MockOnRecord ==
  ASSUME NEW op \in Ops \ {"create"}, NEW row, NEW elapsed \in BOOLEAN,
         NEW s \in LocalStatus, s = Resolved(row, elapsed)
  PROVE  Call(op, row, elapsed) = OnRecord(op, s)
BY DEF Resolved, LocalStatus, Absent, Call

\* A record in state s is answered as the mock answers it, or the request goes
\* on with the row in that state.
LEMMA AfterGetExact ==
  ASSUME NEW q \in Request, NEW s \in LocalStatus, q.op \in {"get", "delete", "start", "stop"},
         q.checked => q.op \in {"start", "stop"} /\ s = Source[q.op],
         NEW row, NEW elapsed \in BOOLEAN, s = Resolved(row, elapsed)
  PROVE  LET p == AfterGet(q, s) IN
         /\ p.pc = "done" => Call(p.op, row, elapsed) = Outcome(s, p.code, p.mem)
         /\ p.pc # "done" => Exact(p, row, s)
PROOF
  <1> DEFINE p == AfterGet(q, s)
  <1>1. /\ p.vm = q.vm /\ p.op = q.op
        /\ \/ /\ p.pc = "done" /\ ~p.checked /\ p.mem = s
              /\ \/ q.op = "get" /\ p.code = 200
                 \/ q.op = "delete" /\ s = "BUILD" /\ p.code = 422
                 \/ q.op \in {"start", "stop"} /\ ~q.checked /\ s # Source[q.op] /\ p.code = 422
           \/ q.op = "delete" /\ s # "BUILD" /\ p.pc = "remove" /\ ~p.checked
           \/ q.op \in {"start", "stop"} /\ q.checked /\ p.pc = "write" /\ p.checked
           \/ q.op \in {"start", "stop"} /\ s = Source[q.op] /\ p.pc = "select" /\ p.checked
    BY AfterGetCases
  <1> HIDE DEF p
  <1>2. ASSUME p.pc = "done" PROVE Call(p.op, row, elapsed) = Outcome(s, p.code, p.mem)
    <2>1. Call(p.op, row, elapsed) = OnRecord(q.op, s)
      BY <1>1, MockOnRecord DEF Ops
    <2> QED
      BY <1>1, <1>2, <2>1 DEF OnRecord, DeleteRefused, SuccessCode, ErrorCode
  <1>3. ASSUME p.pc # "done" PROVE Exact(p, row, s)
    BY <1>1, <1>3 DEF Exact, LocalStatus, Absent
  <1> QED
    BY <1>2, <1>3 DEF p

\* A step of a request that has its VM to itself.
LEMMA LoneStep ==
  ASSUME IInv, NEW r \in Reqs, Step(r), Lone(r), found[r] # "shared"
  PROVE  LET q == req'[r]
             next == table'[q.vm]
         IN
         /\ q.pc = "done" =>
              \E elapsed \in BOOLEAN : Call(q.op, found[r], elapsed) = Outcome(next, q.code, q.mem)
         /\ q.pc # "done" => Exact(q, found[r], next)
PROOF
  <1> DEFINE q == req[r]
             p == req'[r]
             v == req[r].vm
             now == table[v]
             next == table'[v]
             row == found[r]
             Answered == \E elapsed \in BOOLEAN :
                           Call(p.op, row, elapsed) = Outcome(next, p.code, p.mem)
  <1>1. StepShape(r) /\ q \in Request /\ Knows(q) /\ q.pc \in Running
    BY StepHasShape DEF IInv, TypeOK
  <1>2. now \in LocalStatus \cup Absent
    BY <1>1 DEF IInv, TypeOK, Knows, Running, Statements
  <1>3. /\ q.pc = "remove" => Settled(v)
        /\ q.checked => q.op \in {"start", "stop"}
        /\ q.pc \in {"select", "resolve", "promote"} => q.op \in {"get", "delete", "start", "stop"}
    BY <1>1 DEF Knows, Ops, Running, Statements
  <1>4. /\ q.pc \in {"resolve", "promote"} => now = "BUILD" /\ ~q.checked
        /\ q.pc = "select" /\ ~q.checked => now = row
        /\ q.pc = "remove" => now \notin Absent
        /\ q.checked => now = Source[q.op]
    BY DEF Lone, Exact
  <1>5. PICK e \in BOOLEAN : now = Resolved(row, e)
    BY DEF Lone, Exact
  <1>6. p.vm = v /\ p.op = q.op
    BY <1>1 DEF StepShape
  <1>7. SUFFICES (p.pc = "done" => Answered) /\ (p.pc # "done" => Exact(p, row, next))
    BY <1>6
  <1>8. ASSUME NEW s \in LocalStatus, NEW elapsed \in BOOLEAN, s = Resolved(row, elapsed),
               p = AfterGet(q, s), next = s,
               q.checked => s = Source[q.op],
               q.pc \in {"select", "resolve", "promote"}
        PROVE  (p.pc = "done" => Answered) /\ (p.pc # "done" => Exact(p, row, next))
    <2> HIDE DEF row
    <2>1. /\ p.pc = "done" => Call(p.op, row, elapsed) = Outcome(s, p.code, p.mem)
          /\ p.pc # "done" => Exact(p, row, s)
      BY <1>1, <1>3, <1>8, AfterGetExact
    <2> QED
      BY <1>8, <2>1
  <1>9. CASE q.pc = "insert"
    <2>1. /\ p.op = "create" /\ next = "BUILD" /\ p.pc = "done" /\ p.code = 201
          /\ p.mem = "BUILD"
      BY <1>1, <1>9 DEF StepShape
    <2>2. Call(p.op, row, TRUE) = Outcome(next, p.code, p.mem)
      BY <2>1 DEF Call, Created, SuccessCode
    <2> QED
      BY <2>1, <2>2
  <1>10. CASE q.pc = "select"
    <2>1. CASE now \in Absent
      <3>1. next = now /\ p.pc = "done" /\ p.code = 404 /\ p.mem = "none"
        BY <1>1, <1>10, <2>1 DEF StepShape, LocalStatus, Absent
      <3>2. now = row /\ p.op # "create"
        BY <1>3, <1>4, <1>6, <1>10, <2>1 DEF Absent, Source
      <3>3. Call(p.op, row, TRUE) = Outcome(next, p.code, p.mem)
        BY <2>1, <3>1, <3>2 DEF Call, ErrorCode
      <3> QED
        BY <3>1, <3>3
    <2>2. CASE now = "BUILD"
      <3>1. next = now /\ p.pc = "resolve" /\ p.checked = q.checked
        BY <1>1, <1>10, <2>2 DEF StepShape, Absent
      <3>2. ~p.checked
        BY <1>3, <1>4, <2>2, <3>1 DEF Source
      <3> QED
        BY <1>5, <2>2, <3>1, <3>2 DEF Exact
    <2>3. CASE now \in LocalStatus \ {"BUILD"}
      <3>1. next = now /\ p = AfterGet(q, now)
        BY <1>1, <1>10, <2>3 DEF StepShape, LocalStatus, Absent
      <3> QED
        BY <1>4, <1>5, <1>8, <1>10, <2>3, <3>1
    <2> QED
      BY <1>2, <2>1, <2>2, <2>3
  <1>11. CASE q.pc = "resolve"
    <2>1. now = "BUILD" /\ ~q.checked /\ next = now
      BY <1>1, <1>4, <1>11 DEF StepShape
    <2>2. CASE p = AfterGet(q, "BUILD")
      BY <1>5, <1>8, <1>11, <2>1, <2>2 DEF LocalStatus
    <2>3. CASE p.pc = "promote" /\ p.checked = q.checked
      BY <1>5, <2>1, <2>3 DEF Exact
    <2> QED
      BY <1>1, <1>11, <2>2, <2>3 DEF StepShape
  <1>12. CASE q.pc = "promote"
    <2>1. now = "BUILD" /\ ~q.checked /\ p = AfterGet(q, "ACTIVE") /\ next = "ACTIVE"
      BY <1>1, <1>4, <1>12 DEF StepShape, Absent
    <2>2. Resolved(row, TRUE) = "ACTIVE"
      BY <1>5, <2>1 DEF Resolved
    <2> QED
      BY <1>8, <1>12, <2>1, <2>2 DEF LocalStatus
  <1>13. CASE q.pc = "write"
    <2>1. /\ q.checked /\ q.op \in {"start", "stop"} /\ now = Source[q.op]
          /\ p.pc = "done" /\ p.code = 200 /\ p.mem = Target[q.op]
          /\ next = IF now \in Absent THEN now ELSE Target[q.op]
      BY <1>1, <1>3, <1>4, <1>13 DEF StepShape
    <2>2. now \in LocalStatus /\ next = Target[q.op]
      <3>1. now \in {"ACTIVE", "STOPPED"}
        BY <2>1 DEF Source
      <3> HIDE DEF now
      <3>2. now \notin Absent /\ now \in LocalStatus
        BY <3>1 DEF Absent, LocalStatus
      <3> QED
        BY <2>1, <3>2
    <2>3. Call(p.op, row, e) = OnRecord(q.op, now)
      <3>1. p.op = q.op /\ q.op \in Ops \ {"create"}
        BY <1>6, <2>1 DEF Ops
      <3> HIDE DEF now, row
      <3> QED
        BY <1>5, <2>2, <3>1, MockOnRecord
    <2>4. OnRecord(q.op, now) = Outcome(next, p.code, p.mem)
      BY <2>1, <2>2 DEF OnRecord, SuccessCode
    <2> QED
      BY <2>1, <2>3, <2>4
  <1>14. CASE q.pc = "remove"
    <2>1. /\ q.op = "delete" /\ now \notin Absent /\ next = "gone" /\ p.pc = "done"
          /\ p.code = 204 /\ p.mem = "none"
      BY <1>1, <1>4, <1>14 DEF StepShape
    <2>2. now \in LocalStatus /\ now # "BUILD"
      BY <1>2, <1>3, <1>14, <2>1 DEF Settled
    <2>3. Call(p.op, row, e) = OnRecord(q.op, now)
      BY <1>5, <1>6, <2>1, <2>2, MockOnRecord DEF Ops
    <2>4. OnRecord(q.op, now) = Outcome(next, p.code, p.mem)
      BY <2>1, <2>2 DEF OnRecord, DeleteRefused, SuccessCode
    <2> QED
      BY <2>1, <2>3, <2>4
  <1> QED
    BY <1>1, <1>9, <1>10, <1>11, <1>12, <1>13, <1>14 DEF Running, Statements
----------------------------------------------------------------------------
\* What Mark remembers of one request.
LEMMA MarkShape ==
  ASSUME Mark, NEW q \in Reqs, found'[q] # "shared"
  PROVE  /\ req'[q].pc \in Running /\ Beside(q)' = {}
         /\ req[q].pc = "idle" => found'[q] = table[req'[q].vm]
         /\ req[q].pc # "idle" => found'[q] = found[q]
BY DEF Mark

\* A lone request stays exact while it waits: whoever writes its row runs on
\* its VM.
LEMMA LoneWaits ==
  ASSUME IInv, Mark, NEW q \in Reqs, Lone(q), found'[q] # "shared", req'[q] = req[q],
         \/ table' = table
         \/ \E r \in Reqs \ {q} : Step(r)
  PROVE  Exact(req'[q], found'[q], table'[req'[q].vm])
PROOF
  <1>1. req[q].pc \in Running /\ req[q].pc # "idle"
    BY MarkShape DEF Running, Statements
  <1>2. found'[q] = found[q] /\ Beside(q) = {} /\ Exact(req[q], found[q], table[req[q].vm])
    BY <1>1, MarkShape DEF Lone
  <1>3. req[q].vm \in Ids
    BY <1>1 DEF IInv, Knows, Running, Statements
  <1>4. ASSUME NEW r \in Reqs \ {q}, Step(r) PROVE table'[req[q].vm] = table[req[q].vm]
    <2>1. req[r].pc \in Running /\ \A w \in Ids \ {req[r].vm} : table'[w] = table[w]
      BY <1>4, StepHasShape
    <2>2. req[r].vm # req[q].vm
      BY <1>2, <2>1 DEF Beside
    <2> QED
      BY <1>3, <2>1, <2>2
  <1> QED
    BY <1>2, <1>4

\* Every step leaves the lone requests there are exact.
LEMMA NextLone == IInv /\ LoneExact /\ [ObservedNext]_ovars => LoneExact'
PROOF
  <1> SUFFICES ASSUME IInv, LoneExact, [ObservedNext]_ovars PROVE LoneExact'
    OBVIOUS
  <1>1. CASE UNCHANGED ovars
    BY <1>1 DEF ovars, vars, history, LoneExact, Beside
  <1>2. CASE ObservedNext
    <2> SUFFICES ASSUME NEW q \in Reqs, found'[q] # "shared"
                 PROVE  Exact(req'[q], found'[q], table'[req'[q].vm])
      BY <1>2, MarkShape DEF ObservedNext, LoneExact
    <2>1. Mark /\ Next /\ Lone(q)
      BY <1>2 DEF ObservedNext, LoneExact, Lone
    <2>2. /\ req'[q].pc \in Running /\ req'[q].pc \notin {"idle", "done"}
          /\ req[q].pc = "idle" => found'[q] = table[req'[q].vm]
          /\ req[q].pc # "idle" => found'[q] = found[q]
      BY <2>1, MarkShape DEF Running, Statements
    <2>3. CASE req'[q] = req[q] /\ (table' = table \/ \E r \in Reqs \ {q} : Step(r))
      BY <2>1, <2>3, LoneWaits
    <2>4. ASSUME NEW r \in Reqs, Step(r)
          PROVE  Exact(req'[q], found'[q], table'[req'[q].vm])
      <3>1. CASE r = q
        <4>1. req[q].pc \in Running /\ req[q].pc # "idle"
          BY <2>4, <3>1, StepHasShape DEF Running, Statements
        <4>2. found[q] # "shared" /\ found'[q] = found[q]
          BY <2>2, <4>1
        <4> QED
          BY <2>1, <2>2, <2>4, <3>1, <4>2, LoneStep
      <3>2. CASE r # q
        BY <2>3, <2>4, <3>2, StepHasShape
      <3> QED
        BY <3>1, <3>2
    <2>5. ASSUME NEW r \in Reqs, Client(r)
          PROVE  Exact(req'[q], found'[q], table'[req'[q].vm])
      <3>1. table' = table /\ \A p \in Reqs \ {r} : req'[p] = req[p]
        BY <2>5 DEF Client, ReceiveCreate, Receive, Respond, IInv, TypeOK
      <3>2. CASE r # q
        BY <2>3, <3>1, <3>2
      <3>3. CASE r = q
        <4>1. ~Respond(r)
          BY <2>2, <3>3 DEF Respond, Idle, IInv, TypeOK
        <4>2. PICK op \in Ops, v \in Ids, pc \in {"insert", "select"}, s \in {"BUILD", "none"} :
                /\ req[q].pc = "idle"
                /\ req'[q] = Incoming(op, v, pc, s)
          BY <2>5, <3>3, <4>1 DEF Client, ReceiveCreate, Receive, IInv, TypeOK, Ops
        <4>3. req'[q].vm = v /\ req'[q].pc = pc /\ ~req'[q].checked
              /\ found'[q] = table'[v]
          BY <2>2, <3>1, <4>2 DEF Incoming
        <4>4. table'[v] = Resolved(table'[v], FALSE)
          BY DEF Resolved
        <4> QED
          BY <4>3, <4>4 DEF Exact
      <3> QED
        BY <3>2, <3>3
    <2>6. ASSUME NEW r \in Reqs, StorageError(r)
          PROVE  Exact(req'[q], found'[q], table'[req'[q].vm])
      <3>1. table' = table /\ (\A p \in Reqs \ {r} : req'[p] = req[p])
            /\ req'[r] = Fail(req[r], "Unhandled") /\ req[r] \in Request
        BY <2>6 DEF StorageError, IInv, TypeOK
      <3>2. req'[r].pc = "done"
        BY <3>1, ReplyShape DEF Fail
      <3> QED
        BY <2>2, <2>3, <3>1, <3>2
    <2>7. ~Restart
      BY <2>2 DEF Restart, Idle
    <2>8. CASE Tick \/ ClockSetBack
      BY <2>3, <2>8 DEF Tick, ClockSetBack
    <2> QED
      BY <2>1, <2>4, <2>5, <2>6, <2>7, <2>8 DEF Next, Fault
  <1> QED
    BY <1>1, <1>2

\* A lone request that is answered is answered by a step of its own.
LEMMA ReplyIsAtomic ==
  ASSUME IInv, LoneExact, [Next]_vars, NEW r \in Reqs, found[r] # "shared",
         req'[r].pc = "done", req'[r].code # ErrorCode.Unhandled
  PROVE  \E elapsed \in BOOLEAN :
           Call(req'[r].op, found[r], elapsed)
             = Outcome(table'[req'[r].vm], req'[r].code, req'[r].mem)
PROOF
  <1>1. Lone(r) /\ req[r].pc \in Running /\ req[r].pc \notin {"idle", "done"}
    BY DEF LoneExact, Lone, Running, Statements
  <1>2. Step(r)
    <2>1. req'[r] # req[r]
      BY <1>1
    <2>2. \A q \in Reqs \ {r} : ~Step(q)
      BY <2>1, StepHasShape
    <2>3. ~StorageError(r)
      <3> SUFFICES ASSUME StorageError(r) PROVE FALSE
        OBVIOUS
      <3>1. req'[r] = Reply(req[r], 500, "none") /\ req[r] \in Request
        BY DEF StorageError, Fail, ErrorCode, IInv, TypeOK
      <3>2. req'[r].code = 500
        BY <3>1, ReplyShape
      <3> QED
        BY <3>2 DEF ErrorCode
    <2>4. \A q \in Reqs \ {r} : ~StorageError(q)
      BY <2>1 DEF StorageError, IInv, TypeOK
    <2>5. \A q \in Reqs : ~Client(q)
      BY <1>1, <2>1 DEF Client, ReceiveCreate, Receive, Respond, IInv, TypeOK
    <2>6. ~Restart /\ ~Tick /\ ~ClockSetBack /\ ~UNCHANGED vars
      BY <2>1 DEF Restart, Idle, Tick, ClockSetBack, vars
    <2> QED
      BY <2>2, <2>3, <2>4, <2>5, <2>6 DEF Next, Fault
  <1> QED
    BY <1>1, <1>2, LoneStep
----------------------------------------------------------------------------
\* What a request goes by between two of its statements was true while it was
\* in flight, what it has been answered stands, and if it has its VM to itself
\* it is right about the row.
THEOREM ObservedInvariantHolds == ObservedSpec => []ObservedIInv
PROOF
  <1>1. ObservedInit => AnswersStand /\ LoneExact
    BY DEF ObservedInit, Init, Idle, AnswersStand, LoneExact
  <1>2. IInv /\ AnswersStand /\ [ObservedNext]_ovars => AnswersStand'
    BY NextStands DEF ObservedNext, ovars
  <1>3. IInv /\ WindowsSound /\ AnswersStand /\ LoneExact => ObservedIInv
    BY DEF ObservedIInv
  <1> QED
    BY <1>1, <1>2, <1>3, NextLone, WindowsAreSound, PTL DEF ObservedSpec

\* Whatever clock, errors, restarts and other requests do after an answer, what
\* it has told of a VM is not taken back.
THEOREM AnswersAlwaysStand == ObservedSpec => []AnswersStand
PROOF
  <1>1. ObservedIInv => AnswersStand
    BY DEF ObservedIInv
  <1> QED
    BY <1>1, ObservedInvariantHolds, PTL

\* A request that no other one on its VM has overlapped is answered, and leaves
\* the row, as the mock backend would in one atomic operation.
THEOREM LoneRequestsAreAtomic == ObservedSpec => LoneRequestsAtomic
PROOF
  <1>1. IInv /\ LoneExact /\ [ObservedNext]_ovars =>
          [\A r \in Reqs :
             LET q == req'[r] IN
             found[r] # "shared" /\ q.pc = "done" /\ q.code # ErrorCode.Unhandled =>
               \E elapsed \in BOOLEAN :
                 Call(q.op, found[r], elapsed) = Outcome(table'[q.vm], q.code, q.mem)]_ovars
    BY ReplyIsAtomic DEF ObservedNext, ovars
  <1>2. ObservedIInv => IInv /\ LoneExact
    BY DEF ObservedIInv
  <1> QED
    BY <1>1, <1>2, ObservedInvariantHolds, PTL DEF ObservedSpec, LoneRequestsAtomic

\* A lone request finds its row in BUILD when it promotes it, so the step that
\* makes a stopped row ACTIVE is the UPDATE of a start, or of a request that
\* has been overlapped.
LEMMA LonePromotesBuild ==
  ASSUME IInv, LoneExact, [Next]_vars, NEW r \in Reqs, req'[r] # req[r], req[r].vm \in Ids,
         table[req[r].vm] = "STOPPED", table'[req[r].vm] = "ACTIVE", found[r] # "shared"
  PROVE  req[r].op = "start"
PROOF
  <1>1. PICK q \in Reqs : Step(q)
    BY DEF Next, Client, ReceiveCreate, Receive, Respond, Fault, StorageError, Restart, Tick,
       ClockSetBack, vars
  <1>2. q = r
    BY <1>1, StepHasShape
  <1>3. StepShape(r) /\ req[r].pc \in Running /\ Knows(req[r])
    BY <1>1, <1>2, StepHasShape DEF IInv
  <1>4. req[r].pc \notin {"resolve", "promote"}
    BY DEF LoneExact, Exact
  <1>5. req[r].pc = "write" /\ req[r].op \in {"start", "stop"} /\ Target[req[r].op] = "ACTIVE"
    BY <1>3, <1>4 DEF StepShape, Knows, Absent
  <1> QED
    BY <1>5 DEF Target

\* The documented promise that a read never undoes a stop is broken by requests
\* that overlap, and by those alone.
THEOREM StopsUndoneByRacesOnly == ObservedSpec => StopUndoneByRaceOnly
PROOF
  <1>1. IInv /\ LoneExact /\ [ObservedNext]_ovars =>
          [\A r \in Reqs :
             LET v == req[r].vm IN
             /\ req'[r] # req[r]
             /\ v \in Ids
             /\ table[v] = "STOPPED"
             /\ table'[v] = "ACTIVE"
             => req[r].op = "start" \/ found[r] = "shared"]_ovars
    BY LonePromotesBuild DEF ObservedNext, ovars
  <1>2. ObservedIInv => IInv /\ LoneExact
    BY DEF ObservedIInv
  <1> QED
    BY <1>1, <1>2, ObservedInvariantHolds, PTL DEF ObservedSpec, StopUndoneByRaceOnly
=============================================================================
