------------------------ MODULE SQLiteObservedProofs ------------------------
(***************************************************************************)
(* Every answer of SQLiteRepository is witnessed, for any number of        *)
(* requests and any ids.  IInv holds of the observed specification as it   *)
(* does of the repository; that a row leaves BUILD for ACTIVE alone, which *)
(* is what the refinement of VMLifecycle says of a step, is what a request *)
(* that promotes a record relies on when the row is gone by then.          *)
(***************************************************************************)
EXTENDS SQLiteObserved, SQLiteRepositoryProofs

USE BuildDelayAssumption, NoneAssumption

\* How a step may change a row under an open window.
Drifts(v) ==
  /\ table[v] # "none" => table'[v] # "none"
  /\ Settled(v) => table'[v] \notin {"none", "BUILD"}
  /\ table[v] = "BUILD" => table'[v] \in {"BUILD", "ACTIVE"}
  /\ table[v] = "gone" => table'[v] = "gone"

\* The part of the invariant that is about one request.
Sees(r) ==
  /\ req[r].pc \in Running => Follows(window[r], req[r].vm)
  /\ Grounded(req[r], window[r])
----------------------------------------------------------------------------
LEMMA RowsDrift ==
  ASSUME IInv, [Next]_vars
  PROVE  \A v \in Ids : Drifts(v)
PROOF
  <1>1. table \in [Ids -> LocalStatus \cup Absent]
    BY DEF IInv, TypeOK
  <1>2. [Lifecycle!Next]_table
    BY StepRefines
  <1>3. CASE UNCHANGED table
    BY <1>3 DEF Drifts, Settled
  <1>4. CASE Lifecycle!Next
    <2>1. PICK v \in Ids : \/ Lifecycle!CreateVM(v)
                           \/ Lifecycle!FinishBuild(v)
                           \/ Lifecycle!StartVM(v)
                           \/ Lifecycle!StopVM(v)
                           \/ Lifecycle!DeleteVM(v)
      BY <1>4 DEF Lifecycle!Next
    <2>2. /\ \A w \in Ids \ {v} : table'[w] = table[w]
          /\ \/ table[v] = "none" /\ table'[v] = "BUILD"
             \/ table[v] = "BUILD" /\ table'[v] = "ACTIVE"
             \/ table[v] = "STOPPED" /\ table'[v] = "ACTIVE"
             \/ table[v] = "ACTIVE" /\ table'[v] = "STOPPED"
             \/ table[v] \in {"ACTIVE", "STOPPED"} /\ table'[v] = "gone"
      BY <1>1, <2>1 DEF Lifecycle!CreateVM, Lifecycle!FinishBuild, Lifecycle!StartVM,
         Lifecycle!StopVM, Lifecycle!DeleteVM, Lifecycle!Move
    <2> QED
      BY <2>2 DEF Drifts, Settled
  <1> QED
    BY <1>2, <1>3, <1>4

\* What Watch does to the window of one request.
LEMMA WatchShape ==
  ASSUME Watch, NEW r \in Reqs
  PROVE  /\ req'[r].pc = "idle" => window'[r] = {}
         /\ req[r].pc = "idle" /\ req'[r].pc # "idle" => window'[r] = {table'[req'[r].vm]}
         /\ req[r].pc \in Running /\ req'[r].pc # "idle" =>
              window'[r] = window[r] \cup {table'[req[r].vm]}
         /\ req[r].pc = "done" /\ req'[r].pc # "idle" => window'[r] = window[r]
BY DEF Watch, Running, Statements

\* An open window that goes on seeing its VM still follows it.
LEMMA StillFollows ==
  ASSUME NEW v \in Ids, Drifts(v), NEW w, Follows(w, v)
  PROVE  /\ table'[v] \in w \cup {table'[v]}
         /\ "BUILD" \in w \cup {table'[v]} => table'[v] # "none"
         /\ "BUILD" \in w \cup {table'[v]} /\ table'[v] \notin {"none", "BUILD"} =>
              "ACTIVE" \in w \cup {table'[v]}
BY DEF Drifts, Follows, Settled

\* A request that another one's step leaves alone.
LEMMA Waits ==
  ASSUME IInv, NEW r \in Reqs, Sees(r), Watch, \A v \in Ids : Drifts(v), req'[r] = req[r]
  PROVE  Sees(r)'
PROOF
  <1>1. req[r] \in Request /\ Knows(req[r])
    BY DEF IInv, TypeOK
  <1>2. CASE req[r].pc = "idle"
    <2>1. ~req[r].checked
      BY <1>1, <1>2 DEF Knows, Running, Statements
    <2> QED
      BY <1>2, <2>1 DEF Sees, Grounded, Running, Statements
  <1>3. CASE req[r].pc = "done"
    <2>1. window'[r] = window[r]
      BY <1>3, WatchShape
    <2> QED
      BY <1>3, <2>1 DEF Sees, Grounded, Witnessed, Running, Statements
  <1>4. CASE req[r].pc \in Running
    <2>1. req[r].vm \in Ids /\ req[r].pc # "done" /\ req[r].pc # "idle"
      BY <1>1, <1>4 DEF Knows, Running, Statements
    <2>2. window'[r] = window[r] \cup {table'[req[r].vm]}
      BY <1>4, <2>1, WatchShape
    <2>3. Follows(window[r], req[r].vm)' 
      <3> DEFINE v == req[r].vm
                 w == window[r]
      <3>1. Follows(w, v) /\ Drifts(v)
        BY <1>4, <2>1 DEF Sees
      <3>2. /\ table'[v] \in w \cup {table'[v]}
            /\ "BUILD" \in w \cup {table'[v]} => table'[v] # "none"
            /\ "BUILD" \in w \cup {table'[v]} /\ table'[v] \notin {"none", "BUILD"} =>
                 "ACTIVE" \in w \cup {table'[v]}
        BY <2>1, <3>1, StillFollows
      <3> QED
        BY <2>2, <3>2 DEF Follows, Settled
    <2>4. Grounded(req[r], window[r])'
      BY <2>1, <2>2 DEF Sees, Grounded
    <2> QED
      BY <2>3, <2>4 DEF Sees
  <1> QED
    BY <1>1, <1>2, <1>3, <1>4 DEF Request

\* A request that takes a step of its own keeps following its VM; what is left
\* to show is that its new state is grounded in the wider window.
LEMMA Proceeds ==
  ASSUME IInv, NEW r \in Reqs, Sees(r), Watch, \A v \in Ids : Drifts(v),
         req[r].pc \in Running, req'[r].pc # "idle", req'[r].vm = req[r].vm,
         Grounded(req'[r], window[r] \cup {table'[req[r].vm]})
  PROVE  Sees(r)'
PROOF
  <1> DEFINE v == req[r].vm
             w == window[r]
  <1>1. v \in Ids
    BY DEF IInv, Knows, Running, Statements
  <1>2. window'[r] = w \cup {table'[v]}
    BY WatchShape
  <1>3. Follows(w, v) /\ Drifts(v)
    BY <1>1 DEF Sees
  <1>4. /\ table'[v] \in w \cup {table'[v]}
        /\ "BUILD" \in w \cup {table'[v]} => table'[v] # "none"
        /\ "BUILD" \in w \cup {table'[v]} /\ table'[v] \notin {"none", "BUILD"} =>
             "ACTIVE" \in w \cup {table'[v]}
    BY <1>1, <1>3, StillFollows
  <1>5. Follows(window[r], req[r].vm)'
    BY <1>2, <1>4 DEF Follows, Settled
  <1>6. Grounded(req[r], window[r])'
    BY <1>2 DEF Grounded, Witnessed
  <1> QED
    BY <1>5, <1>6 DEF Sees

\* What a reply is, field by field.
LEMMA ReplyShape ==
  ASSUME NEW q \in Request, NEW c, NEW s
  PROVE  LET p == Reply(q, c, s) IN
         /\ p.pc = "done" /\ ~p.checked
         /\ p.op = q.op /\ p.vm = q.vm
         /\ p.mem = s /\ p.code = c
BY DEF Reply, Request

\* A record whose status was seen grounds whatever is done with it.
LEMMA AfterGetGrounded ==
  ASSUME NEW q \in Request, NEW s \in LocalStatus, NEW w, s \in w,
         q.op \in {"get", "delete", "start", "stop"},
         q.checked => Source[q.op] \in w /\ q.op \in {"start", "stop"}
  PROVE  /\ Grounded(AfterGet(q, s), w)
         /\ AfterGet(q, s).pc # "idle"
         /\ AfterGet(q, s).vm = q.vm
PROOF
  <1> DEFINE p == AfterGet(q, s)
  <1>1. CASE q.op = "get"
    <2>1. p = Reply(q, 200, s)
      BY <1>1 DEF AfterGet, Succeed, SuccessCode
    <2>2. p.pc = "done" /\ ~p.checked /\ p.mem = s /\ p.code = 200 /\ p.op = "get" /\ p.vm = q.vm
      BY <1>1, <2>1, ReplyShape
    <2> QED
      BY <2>2 DEF Grounded, Witnessed
  <1>2. CASE q.op = "delete" /\ s = "BUILD"
    <2>1. p = Reply(q, 422, s)
      BY <1>2 DEF AfterGet, DeleteRefused, ErrorCode
    <2>2. p.pc = "done" /\ ~p.checked /\ p.mem = s /\ p.code = 422 /\ p.op = "delete" /\ p.vm = q.vm
      BY <1>2, <2>1, ReplyShape
    <2> QED
      BY <1>2, <2>2 DEF Grounded, Witnessed
  <1>3. CASE q.op = "delete" /\ s # "BUILD"
    <2>1. p = [q EXCEPT !.pc = "remove", !.mem = s]
      BY <1>3 DEF AfterGet, DeleteRefused
    <2>2. p.pc = "remove" /\ p.checked = q.checked /\ ~q.checked /\ p.vm = q.vm
      BY <1>3, <2>1 DEF Request
    <2>3. s \in w \cap {"ACTIVE", "STOPPED"}
      BY <1>3 DEF LocalStatus
    <2> QED
      BY <2>2, <2>3 DEF Grounded
  <1>4. CASE q.op \in {"start", "stop"} /\ q.checked
    <2>1. p = [q EXCEPT !.pc = "write", !.mem = s]
      BY <1>4 DEF AfterGet
    <2>2. p.pc = "write" /\ p.op = q.op /\ p.vm = q.vm
      BY <2>1 DEF Request
    <2> QED
      BY <1>4, <2>2 DEF Grounded
  <1>5. CASE q.op \in {"start", "stop"} /\ ~q.checked /\ s # Source[q.op]
    <2>1. p = Reply(q, 422, s)
      BY <1>5 DEF AfterGet, ErrorCode
    <2>2. p.pc = "done" /\ ~p.checked /\ p.mem = s /\ p.code = 422 /\ p.op = q.op /\ p.vm = q.vm
      BY <2>1, ReplyShape
    <2> QED
      BY <1>5, <2>2 DEF Grounded, Witnessed
  <1>6. CASE q.op \in {"start", "stop"} /\ ~q.checked /\ s = Source[q.op]
    <2>1. p = [q EXCEPT !.pc = "select", !.checked = TRUE, !.mem = s]
      BY <1>6 DEF AfterGet
    <2>2. p.pc = "select" /\ p.op = q.op /\ p.vm = q.vm
      BY <2>1 DEF Request
    <2> QED
      BY <1>6, <2>2 DEF Grounded
  <1> QED
    BY <1>1, <1>2, <1>3, <1>4, <1>5, <1>6

\* So does an error: of a 404 the VM was absent, of a 500 nothing is claimed.
LEMMA FailGrounded ==
  ASSUME NEW q \in Request, NEW w, NEW e \in {"NotFound", "Unhandled"},
         e = "NotFound" => w \cap Absent # {}
  PROVE  /\ Grounded(Fail(q, e), w)
         /\ Fail(q, e).pc # "idle"
         /\ Fail(q, e).vm = q.vm
PROOF
  <1> DEFINE p == Fail(q, e)
  <1>1. p = Reply(q, IF e = "NotFound" THEN 404 ELSE 500, "none")
    BY DEF Fail, ErrorCode
  <1>2. p.pc = "done" /\ ~p.checked /\ p.vm = q.vm
        /\ p.code = IF e = "NotFound" THEN 404 ELSE 500
    BY <1>1, ReplyShape
  <1> QED
    BY <1>2 DEF Grounded, Witnessed

----------------------------------------------------------------------------
\* What a request that is about to take a step knows and has seen.
LEMMA Acting ==
  ASSUME IInv, NEW r \in Reqs, Sees(r), req[r].pc \in Running
  PROVE  /\ req[r] \in Request /\ Knows(req[r])
         /\ req[r].vm \in Ids
         /\ table[req[r].vm] \in LocalStatus \cup Absent
         /\ blob[req[r].vm] = table[req[r].vm]
         /\ Follows(window[r], req[r].vm)
         /\ req[r].checked => Source[req[r].op] \in window[r] /\ req[r].op \in {"start", "stop"}
         /\ req[r].pc \in {"resolve", "promote"} => "BUILD" \in window[r]
         /\ req[r].pc = "remove" => window[r] \cap {"ACTIVE", "STOPPED"} # {}
         /\ req[r].pc \in {"select", "resolve", "promote"} =>
              req[r].op \in {"get", "delete", "start", "stop"}
PROOF
  <1>1. req[r] \in Request /\ Knows(req[r])
    BY DEF IInv, TypeOK
  <1>2. req[r].vm \in Ids /\ req[r].op \in Ops
    BY <1>1 DEF Knows, Running, Statements
  <1>3. /\ table[req[r].vm] \in LocalStatus \cup Absent
        /\ blob[req[r].vm] = table[req[r].vm]
    BY <1>2 DEF IInv, TypeOK, ColumnsAgree
  <1>4. /\ req[r].checked => req[r].op \in {"start", "stop"}
        /\ req[r].pc \in {"select", "resolve", "promote"} =>
             req[r].op \in {"get", "delete", "start", "stop"}
    BY <1>1, <1>2 DEF Knows, Ops
  <1> QED
    BY <1>1, <1>2, <1>3, <1>4 DEF Sees, Grounded

\* _sync_get: what the SELECT finds is what the window shows.
LEMMA SelectSees ==
  ASSUME IInv, NEW r \in Reqs, Sees(r), Watch, \A v \in Ids : Drifts(v), Select(r)
  PROVE  Sees(r)'
PROOF
  <1> DEFINE v == req[r].vm
             w == window[r] \cup {table'[v]}
  <1>1. req[r].pc = "select" /\ req[r].pc \in Running /\ table' = table
    BY DEF Select, Running, Statements
  <1>2. /\ req[r] \in Request /\ v \in Ids
        /\ table[v] \in LocalStatus \cup Absent /\ blob[v] = table[v]
        /\ req[r].checked => Source[req[r].op] \in w /\ req[r].op \in {"start", "stop"}
        /\ req[r].op \in {"get", "delete", "start", "stop"}
    BY <1>1, Acting
  <1>3. table[v] \in w
    BY <1>1
  <1>4. req'[r] = IF ~Present(v) THEN Fail(req[r], "NotFound")
                  ELSE IF blob[v] = "BUILD"
                       THEN [req[r] EXCEPT !.pc = "resolve", !.mem = "BUILD"]
                       ELSE AfterGet(req[r], blob[v])
    BY DEF Select, IInv, TypeOK
  <1> HIDE DEF w
  <1>5. CASE ~Present(v)
    <2>1. w \cap Absent # {}
      BY <1>3, <1>5 DEF Present
    <2>2. Grounded(req'[r], w) /\ req'[r].pc # "idle" /\ req'[r].vm = v
      BY <1>2, <1>4, <1>5, <2>1, FailGrounded
    <2> QED
      BY <1>1, <2>2, Proceeds DEF w
  <1>6. CASE Present(v) /\ blob[v] = "BUILD"
    <2>1. req'[r] = [req[r] EXCEPT !.pc = "resolve", !.mem = "BUILD"]
      BY <1>4, <1>6
    <2>2. req'[r].pc = "resolve" /\ req'[r].op = req[r].op /\ req'[r].vm = v
          /\ req'[r].checked = req[r].checked
      BY <1>2, <2>1 DEF Request
    <2>3. Grounded(req'[r], w)
      BY <1>2, <1>3, <1>6, <2>2 DEF Grounded
    <2> QED
      BY <1>1, <2>2, <2>3, Proceeds DEF w
  <1>7. CASE Present(v) /\ blob[v] # "BUILD"
    <2>1. blob[v] \in LocalStatus /\ blob[v] \in w
      BY <1>2, <1>3, <1>7 DEF Present
    <2>2. Grounded(req'[r], w) /\ req'[r].pc # "idle" /\ req'[r].vm = v
      BY <1>2, <1>4, <1>7, <2>1, AfterGetGrounded
    <2> QED
      BY <1>1, <2>2, Proceeds DEF w
  <1> QED
    BY <1>5, <1>6, <1>7

\* _resolve_build leaves a young record as it was read.
LEMMA ResolveEarlySees ==
  ASSUME IInv, NEW r \in Reqs, Sees(r), Watch, \A v \in Ids : Drifts(v), ResolveEarly(r)
  PROVE  Sees(r)'
PROOF
  <1> DEFINE w == window[r] \cup {table'[req[r].vm]}
  <1>1. req[r].pc = "resolve" /\ req[r].pc \in Running
    BY DEF ResolveEarly, Running
  <1>2. /\ req[r] \in Request
        /\ req[r].checked => Source[req[r].op] \in w /\ req[r].op \in {"start", "stop"}
        /\ req[r].op \in {"get", "delete", "start", "stop"}
        /\ "BUILD" \in w
    BY <1>1, Acting
  <1>3. req'[r] = AfterGet(req[r], "BUILD")
    BY DEF ResolveEarly, IInv, TypeOK
  <1> HIDE DEF w
  <1>4. Grounded(req'[r], w) /\ req'[r].pc # "idle" /\ req'[r].vm = req[r].vm
    BY <1>2, <1>3, AfterGetGrounded DEF LocalStatus
  <1> QED
    BY <1>1, <1>4, Proceeds DEF w

\* _resolve_build promotes an old one, in memory.
LEMMA ResolveElapsedSees ==
  ASSUME IInv, NEW r \in Reqs, Sees(r), Watch, \A v \in Ids : Drifts(v), ResolveElapsed(r)
  PROVE  Sees(r)'
PROOF
  <1>1. req[r].pc = "resolve" /\ req[r].pc \in Running
    BY DEF ResolveElapsed, Running
  <1>2. req[r] \in Request /\ "BUILD" \in window[r]
        /\ (req[r].checked => Source[req[r].op] \in window[r])
    BY <1>1, Acting
  <1>3. req'[r] = [req[r] EXCEPT !.pc = "promote", !.mem = "ACTIVE"]
    BY DEF ResolveElapsed, IInv, TypeOK
  <1>4. req'[r].pc = "promote" /\ req'[r].op = req[r].op /\ req'[r].vm = req[r].vm
        /\ req'[r].checked = req[r].checked
    BY <1>2, <1>3 DEF Request
  <1>5. Grounded(req'[r], window[r] \cup {table'[req[r].vm]})
    BY <1>2, <1>4 DEF Grounded
  <1> QED
    BY <1>1, <1>4, <1>5, Proceeds

\* The UPDATE of a promotion makes the row ACTIVE, or finds none; and a row
\* that was in BUILD and is gone was ACTIVE in between.
LEMMA PromoteSees ==
  ASSUME IInv, NEW r \in Reqs, Sees(r), Watch, \A v \in Ids : Drifts(v), Promote(r)
  PROVE  Sees(r)'
PROOF
  <1> DEFINE v == req[r].vm
             w == window[r] \cup {table'[v]}
  <1>1. req[r].pc = "promote" /\ req[r].pc \in Running
    BY DEF Promote, Running, Statements
  <1>2. /\ req[r] \in Request /\ v \in Ids
        /\ req[r].checked => Source[req[r].op] \in w /\ req[r].op \in {"start", "stop"}
        /\ req[r].op \in {"get", "delete", "start", "stop"}
        /\ "BUILD" \in window[r] /\ Follows(window[r], v)
    BY <1>1, Acting
  <1>3. req'[r] = AfterGet(req[r], "ACTIVE")
    BY DEF Promote, IInv, TypeOK
  <1>4. "ACTIVE" \in w
    <2>1. CASE Present(v)
      <3>1. table'[v] = "ACTIVE"
        BY <1>2, <2>1 DEF Promote, UpdateRow, IInv, TypeOK
      <3> QED
        BY <3>1
    <2>2. CASE ~Present(v)
      BY <1>2, <2>2 DEF Present, Absent, Follows, Settled
    <2> QED
      BY <2>1, <2>2
  <1> HIDE DEF w
  <1>5. Grounded(req'[r], w) /\ req'[r].pc # "idle" /\ req'[r].vm = v
    BY <1>2, <1>3, <1>4, AfterGetGrounded DEF LocalStatus
  <1> QED
    BY <1>1, <1>5, Proceeds DEF w

\* _sync_update_status: the test that lets a request write saw the state the
\* operation requires.
LEMMA WriteStatusSees ==
  ASSUME IInv, NEW r \in Reqs, Sees(r), Watch, \A v \in Ids : Drifts(v), WriteStatus(r)
  PROVE  Sees(r)'
PROOF
  <1> DEFINE w == window[r] \cup {table'[req[r].vm]}
  <1>1. req[r].pc = "write" /\ req[r].pc \in Running
    BY DEF WriteStatus, Running, Statements
  <1>2. /\ req[r] \in Request /\ req[r].checked
        /\ Source[req[r].op] \in w /\ req[r].op \in {"start", "stop"}
    BY <1>1, Acting DEF Knows
  <1>3. req'[r] = Reply(req[r], 200, Target[req[r].op])
    BY <1>2 DEF WriteStatus, Succeed, SuccessCode, IInv, TypeOK
  <1> HIDE DEF w
  <1>4. /\ req'[r].pc = "done" /\ ~req'[r].checked
        /\ req'[r].op = req[r].op /\ req'[r].vm = req[r].vm /\ req'[r].code = 200
    BY <1>2, <1>3, ReplyShape
  <1>5. Grounded(req'[r], w)
    BY <1>2, <1>4 DEF Grounded, Witnessed
  <1> QED
    BY <1>1, <1>4, <1>5, Proceeds DEF w

\* _sync_delete: the row count says which of the two the VM is.
LEMMA RemoveSees ==
  ASSUME IInv, NEW r \in Reqs, Sees(r), Watch, \A v \in Ids : Drifts(v), Remove(r)
  PROVE  Sees(r)'
PROOF
  <1> DEFINE v == req[r].vm
             w == window[r] \cup {table'[v]}
  <1>1. req[r].pc = "remove" /\ req[r].pc \in Running
    BY DEF Remove, Running, Statements
  <1>2. /\ req[r] \in Request /\ req[r].op = "delete" /\ v \in Ids
        /\ w \cap {"ACTIVE", "STOPPED"} # {}
    BY <1>1, Acting DEF Knows
  <1>3. CASE Present(v)
    <2>1. req'[r] = Reply(req[r], 204, "none") /\ table'[v] = "gone"
      BY <1>2, <1>3 DEF Remove, Succeed, SuccessCode, IInv, TypeOK
    <2>2. "gone" \in w
      BY <2>1
    <2> HIDE DEF w
    <2>3. /\ req'[r].pc = "done" /\ ~req'[r].checked
          /\ req'[r].op = "delete" /\ req'[r].vm = v /\ req'[r].code = 204
      BY <1>2, <2>1, ReplyShape
    <2>4. Grounded(req'[r], w)
      BY <1>2, <2>2, <2>3 DEF Grounded, Witnessed
    <2> QED
      BY <1>1, <2>3, <2>4, Proceeds DEF w
  <1>4. CASE ~Present(v)
    <2>1. req'[r] = Fail(req[r], "NotFound") /\ table' = table
      BY <1>4 DEF Remove, store, IInv, TypeOK
    <2>2. w \cap Absent # {}
      BY <1>4, <2>1 DEF Present
    <2> HIDE DEF w
    <2>3. Grounded(req'[r], w) /\ req'[r].pc # "idle" /\ req'[r].vm = v
      BY <1>2, <2>1, <2>2, FailGrounded
    <2> QED
      BY <1>1, <2>3, Proceeds DEF w
  <1> QED
    BY <1>3, <1>4

\* _sync_create: the VM is in BUILD when the client is told so.
LEMMA InsertSees ==
  ASSUME IInv, NEW r \in Reqs, Sees(r), Watch, \A v \in Ids : Drifts(v), Insert(r)
  PROVE  Sees(r)'
PROOF
  <1> DEFINE v == req[r].vm
             w == window[r] \cup {table'[v]}
  <1>1. req[r].pc = "insert" /\ req[r].pc \in Running
    BY DEF Insert, Running, Statements
  <1>2. req[r] \in Request /\ req[r].op = "create" /\ v \in Ids
    BY <1>1, Acting DEF Knows
  <1>3. req'[r] = Reply(req[r], 201, "BUILD") /\ table'[v] = "BUILD"
    BY <1>2 DEF Insert, Succeed, SuccessCode, IInv, TypeOK
  <1>4. "BUILD" \in w
    BY <1>3
  <1> HIDE DEF w
  <1>5. /\ req'[r].pc = "done" /\ ~req'[r].checked
        /\ req'[r].op = "create" /\ req'[r].vm = v /\ req'[r].code = 201
    BY <1>2, <1>3, ReplyShape
  <1>6. Grounded(req'[r], w)
    BY <1>4, <1>5 DEF Grounded, Witnessed
  <1> QED
    BY <1>1, <1>5, <1>6, Proceeds DEF w

\* An error of the database claims nothing.
LEMMA StorageErrorSees ==
  ASSUME IInv, NEW r \in Reqs, Sees(r), Watch, \A v \in Ids : Drifts(v), StorageError(r)
  PROVE  Sees(r)'
PROOF
  <1> DEFINE w == window[r] \cup {table'[req[r].vm]}
  <1>1. req[r].pc \in Running /\ req[r] \in Request
    BY DEF StorageError, Running, IInv, TypeOK
  <1>2. req'[r] = Fail(req[r], "Unhandled")
    BY DEF StorageError, IInv, TypeOK
  <1> HIDE DEF w
  <1>3. Grounded(req'[r], w) /\ req'[r].pc # "idle" /\ req'[r].vm = req[r].vm
    BY <1>1, <1>2, FailGrounded
  <1> QED
    BY <1>1, <1>3, Proceeds DEF w

\* A slot that serves no request has no window.
LEMMA Rests ==
  ASSUME NEW r \in Reqs, Watch, req'[r] = Idle
  PROVE  Sees(r)'
PROOF
  <1>1. /\ req'[r].pc = "idle" /\ ~req'[r].checked
    BY DEF Idle
  <1> QED
    BY <1>1 DEF Sees, Grounded, Running, Statements

\* A request opens its window on the VM as it is: one it creates is unborn.
LEMMA Opens ==
  ASSUME NEW r \in Reqs, NEW v \in Ids, NEW op, NEW pc \in {"insert", "select"}, NEW s,
         Watch, table' = table,
         req[r].pc = "idle", req'[r] = Incoming(op, v, pc, s)
  PROVE  Sees(r)'
PROOF
  <1>1. req'[r].pc = pc /\ req'[r].vm = v /\ ~req'[r].checked
    BY DEF Incoming
  <1>2. window'[r] = {table[v]}
    BY <1>1, WatchShape
  <1>3. Follows(window[r], req[r].vm)'
    BY <1>1, <1>2 DEF Follows, Settled
  <1>4. Grounded(req[r], window[r])'
    BY <1>1 DEF Grounded
  <1> QED
    BY <1>3, <1>4 DEF Sees
----------------------------------------------------------------------------
\* A step of one request, the others waiting.
LEMMA OthersWait ==
  ASSUME IInv, WindowsSound, Watch, \A v \in Ids : Drifts(v), NEW r \in Reqs,
         Sees(r)', \A q \in Reqs \ {r} : req'[q] = req[q]
  PROVE  \A q \in Reqs : Sees(q)'
PROOF
  <1> SUFFICES ASSUME NEW q \in Reqs, q # r PROVE Sees(q)'
    OBVIOUS
  <1>1. IInv /\ Sees(q)
    BY DEF WindowsSound, Sees
  <1> QED
    BY <1>1, Waits

\* What a request goes by stays true of its window.
LEMMA StepSees == IInv /\ WindowsSound /\ [ObservedNext]_ovars => WindowsSound'
PROOF
  <1> SUFFICES ASSUME IInv, WindowsSound, [ObservedNext]_ovars PROVE WindowsSound'
    OBVIOUS
  <1>1. IInv /\ \A r \in Reqs : Sees(r)
    BY DEF WindowsSound, Sees
  <1>2. [Next]_vars
    BY DEF ObservedNext, ovars
  <1>4. \A v \in Ids : Drifts(v)
    BY <1>1, <1>2, RowsDrift
  <1>5. SUFFICES \A r \in Reqs : Sees(r)'
    BY DEF WindowsSound, Sees
  <1>6. CASE UNCHANGED ovars
    BY <1>1, <1>6 DEF ovars, history, vars, Sees, Follows, Grounded, Witnessed, Settled
  <1>7. CASE ObservedNext
    <2>1. Watch /\ Next
      BY <1>7 DEF ObservedNext
    <2>2. ASSUME NEW r \in Reqs, Step(r) PROVE \A q \in Reqs : Sees(q)'
      <3>1. Sees(r)'
        BY <1>1, <1>4, <2>1, <2>2, InsertSees, SelectSees, ResolveEarlySees,
           ResolveElapsedSees, PromoteSees, WriteStatusSees, RemoveSees DEF Step
      <3>2. \A q \in Reqs \ {r} : req'[q] = req[q]
        BY <1>1, <2>2 DEF Step, Insert, Select, ResolveEarly, ResolveElapsed, Promote,
           WriteStatus, Remove, IInv, TypeOK
      <3> QED
        BY <1>4, <2>1, <3>1, <3>2, OthersWait
    <2>3. ASSUME NEW r \in Reqs, Client(r) PROVE \A q \in Reqs : Sees(q)'
      <3>1. \A q \in Reqs \ {r} : req'[q] = req[q]
        BY <1>1, <2>3 DEF Client, ReceiveCreate, Receive, Respond, IInv, TypeOK
      <3>2. Sees(r)'
        <4>1. CASE Respond(r)
          <5>1. req'[r] = Idle
            BY <1>1, <4>1 DEF Respond, IInv, TypeOK
          <5> QED
            BY <2>1, <5>1, Rests
        <4>2. ASSUME NEW v \in Ids, ReceiveCreate(r, v) PROVE Sees(r)'
          <5>1. /\ req[r].pc = "idle" /\ table' = table
                /\ req'[r] = Incoming("create", v, "insert", "BUILD")
            BY <1>1, <4>2 DEF ReceiveCreate, IInv, TypeOK
          <5> QED
            BY <2>1, <5>1, Opens
        <4>3. ASSUME NEW v \in Ids, NEW op \in Ops \ {"create"}, Receive(r, op, v)
              PROVE  Sees(r)'
          <5>1. /\ req[r].pc = "idle" /\ table' = table
                /\ req'[r] = Incoming(op, v, "select", "none")
            BY <1>1, <4>3 DEF Receive, IInv, TypeOK
          <5> QED
            BY <2>1, <5>1, Opens
        <4> QED
          BY <2>3, <4>1, <4>2, <4>3 DEF Client
      <3> QED
        BY <1>4, <2>1, <3>1, <3>2, OthersWait
    <2>4. ASSUME NEW r \in Reqs, StorageError(r) PROVE \A q \in Reqs : Sees(q)'
      <3>1. Sees(r)'
        BY <1>1, <1>4, <2>1, <2>4, StorageErrorSees
      <3>2. \A q \in Reqs \ {r} : req'[q] = req[q]
        BY <1>1, <2>4 DEF StorageError, IInv, TypeOK
      <3> QED
        BY <1>4, <2>1, <3>1, <3>2, OthersWait
    <2>5. CASE Restart
      <3>1. \A r \in Reqs : req'[r] = Idle
        BY <2>5 DEF Restart
      <3> QED
        BY <2>1, <3>1, Rests
    <2>6. CASE Tick \/ ClockSetBack
      <3>1. \A r \in Reqs : req'[r] = req[r]
        BY <2>6 DEF Tick, ClockSetBack
      <3> QED
        BY <1>1, <1>4, <2>1, <3>1, Waits
    <2> QED
      BY <2>1, <2>2, <2>3, <2>4, <2>5, <2>6 DEF Next, Fault
  <1> QED
    BY <1>6, <1>7

\* Without its history variables a behaviour of the observed specification is
\* one of the repository, so that the repository's theorems may be cited.
LEMMA OnlyObserves == ObservedSpec => Spec
PROOF
  <1>1. ObservedInit => Init
    BY DEF ObservedInit
  <1>2. [ObservedNext]_ovars => [Next]_vars
    BY DEF ObservedNext, ovars
  <1> QED
    BY <1>1, <1>2, PTL DEF ObservedSpec, Spec

\* What a request goes by between two of its statements was true while it was
\* in flight.
THEOREM WindowsAreSound == ObservedSpec => [](IInv /\ WindowsSound)
PROOF
  <1>1. ObservedInit => WindowsSound
    <2> SUFFICES ASSUME ObservedInit PROVE WindowsSound
      OBVIOUS
    <2>1. \A r \in Reqs : req[r].pc = "idle" /\ ~req[r].checked
      BY DEF ObservedInit, Init, Idle
    <2> QED
      BY <2>1 DEF WindowsSound, Grounded, Running, Statements
  <1>2. ObservedSpec => []IInv
    BY OnlyObserves, InvariantHolds, PTL
  <1> QED
    BY <1>1, <1>2, StepSees, PTL DEF ObservedSpec

\* No answer of the SQLite backend is made up: each reports a state its VM was
\* in between the arrival of the request and its answer.
THEOREM RepliesAreWitnessed == ObservedSpec => []RepliesWitnessed
PROOF
  <1>1. WindowsSound => RepliesWitnessed
    BY DEF WindowsSound, RepliesWitnessed, Grounded
  <1> QED
    BY <1>1, WindowsAreSound, PTL
=============================================================================
