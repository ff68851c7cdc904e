-------------------------- MODULE SQLiteRepository --------------------------
(***************************************************************************)
(* VMService over SQLiteVMRepository.  A request is a coroutine that hands *)
(* each synchronous helper to a worker thread (asyncio.to_thread); every   *)
(* helper opens connections of its own and commits one statement at a time.*)
(* So one SELECT, UPDATE, INSERT or DELETE is atomic, and nothing larger   *)
(* is: an action is one statement with the local work that follows it, or  *)
(* a look at the clock.                                                    *)
(***************************************************************************)
EXTENDS VMApi, Naturals

CONSTANTS
  Ids,          \* the identifiers uuid4() may return
  Reqs,         \* requests that may be in flight at the same time
  BuildDelay,   \* build_delay_seconds, in ticks of the clock
  None          \* the VM of a slot that serves no request

ASSUME BuildDelayAssumption == BuildDelay \in Nat
ASSUME NoneAssumption == None \notin Ids

VARIABLES
  table,    \* table[v]: the status column, "none"/"gone" when v has no row
  blob,     \* blob[v]: the status inside the JSON of the data column
  age,      \* age[v]: seconds since created_at, as the wall clock tells it;
            \* no test tells ages above BuildDelay apart, so it stops there
  minted,   \* the identifiers uuid4() has returned
  req       \* req[r]: the request a slot is serving

store == <<table, blob>>
vars  == <<table, blob, age, minted, req>>

Present(v) == table[v] \notin Absent

\* Where a request stands: about to run a statement, or (resolve) holding a
\* record in BUILD whose age it is about to look at.
Statements == {"insert", "select", "promote", "write", "remove"}
Running    == Statements \cup {"resolve"}

Request ==
  [op      : Ops \cup {"none"},
   vm      : Ids \cup {None},
   pc      : Running \cup {"idle", "done"},
   checked : BOOLEAN,                    \* start/stop: status test passed
   mem     : LocalStatus \cup {"none"},     \* status of the record held
   code    : Codes \cup {0}]

Idle == [op |-> "none", vm |-> None, pc |-> "idle", checked |-> FALSE,
         mem |-> "none", code |-> 0]

Incoming(op, v, pc, s) ==
  [op |-> op, vm |-> v, pc |-> pc, checked |-> FALSE, mem |-> s, code |-> 0]

Reply(q, code, s) ==
  [q EXCEPT !.pc = "done", !.checked = FALSE, !.mem = s, !.code = code]

Succeed(q, s) == Reply(q, SuccessCode(q.op), s)
Fail(q, error) == Reply(q, ErrorCode[error], "none")

\* Slip: start_vm and stop_vm go straight to their update.
AfterGet_Untested(q, s) ==
  CASE q.op = "get"    -> Succeed(q, s)
    [] q.op = "delete" ->
         IF DeleteRefused(s) THEN Reply(q, ErrorCode.Operation, s)
                             ELSE [q EXCEPT !.pc = "remove", !.mem = s]
    [] OTHER -> [q EXCEPT !.pc = "write", !.mem = s]

\* What the coroutine does once _sync_get has returned a record with status s:
\* answer, refuse, or go on to its next statement.
AfterGet(q, s) ==
  CASE q.op = "get"    -> Succeed(q, s)
    [] q.op = "delete" ->
         IF DeleteRefused(s) THEN Reply(q, ErrorCode.Operation, s)
                             ELSE [q EXCEPT !.pc = "remove", !.mem = s]
    [] OTHER ->
         IF q.checked THEN [q EXCEPT !.pc = "write", !.mem = s]
         ELSE IF s # Source[q.op] THEN Reply(q, ErrorCode.Operation, s)
         ELSE [q EXCEPT !.pc = "select", !.checked = TRUE, !.mem = s]

\* Slip: the UPDATE sets the status column and forgets the data column.
UpdateRow_ColumnOnly(v, s) ==
  /\ table' = IF Present(v) THEN [table EXCEPT ![v] = s] ELSE table
  /\ blob' = blob

\* Slip: INSERT OR REPLACE instead of UPDATE.
UpdateRow_Upsert(v, s) ==
  /\ table' = [table EXCEPT ![v] = s]
  /\ blob'  = [blob EXCEPT ![v] = s]

\* UPDATE vms SET status, data WHERE id: no row, no change, and no error.
UpdateRow(v, s) ==
  IF Present(v)
    THEN /\ table' = [table EXCEPT ![v] = s]
         /\ blob'  = [blob EXCEPT ![v] = s]
    ELSE UNCHANGED store
----------------------------------------------------------------------------
Init ==
  /\ table  = [v \in Ids |-> "none"]
  /\ blob   = [v \in Ids |-> "none"]
  /\ age    = [v \in Ids |-> 0]
  /\ minted = {}
  /\ req    = [r \in Reqs |-> Idle]

\* POST /vms: the record, its id and its created_at exist before the INSERT.
ReceiveCreate(r, v) ==
  /\ req[r].pc = "idle"
  /\ v \notin minted
  /\ minted' = minted \cup {v}
  /\ req' = [req EXCEPT ![r] = Incoming("create", v, "insert", "BUILD")]
  /\ UNCHANGED <<table, blob, age>>

\* Any other route: its first statement is the SELECT of _sync_get.
Receive(r, op, v) ==
  /\ req[r].pc = "idle"
  /\ req' = [req EXCEPT ![r] = Incoming(op, v, "select", "none")]
  /\ UNCHANGED <<table, blob, age, minted>>

\* _sync_create.
Insert(r) ==
  LET v == req[r].vm IN
  /\ req[r].pc = "insert"
  /\ table' = [table EXCEPT ![v] = "BUILD"]
  /\ blob'  = [blob EXCEPT ![v] = "BUILD"]
  /\ req' = [req EXCEPT ![r] = Succeed(@, "BUILD")]
  /\ UNCHANGED <<age, minted>>

\* Slip: a record is promoted by its age, whatever its status.
Select_AnyStatus(r) ==
  LET v == req[r].vm IN
  /\ req[r].pc = "select"
  /\ req' = [req EXCEPT ![r] =
       IF ~Present(v) THEN Fail(@, "NotFound")
       ELSE [@ EXCEPT !.pc = "resolve", !.mem = blob[v]]]
  /\ UNCHANGED <<table, blob, age, minted>>

\* The SELECT of _sync_get.  The record is built from the data column; one in
\* BUILD goes through _resolve_build before it is returned.
Select(r) ==
  LET v == req[r].vm IN
  /\ req[r].pc = "select"
  /\ req' = [req EXCEPT ![r] =
       IF ~Present(v) THEN Fail(@, "NotFound")
       ELSE IF blob[v] = "BUILD" THEN [@ EXCEPT !.pc = "resolve", !.mem = "BUILD"]
       ELSE AfterGet(@, blob[v])]
  /\ UNCHANGED <<table, blob, age, minted>>

\* _resolve_build, delay not elapsed: the record is returned as it was read.
ResolveEarly(r) ==
  /\ req[r].pc = "resolve"
  /\ age[req[r].vm] < BuildDelay
  /\ req' = [req EXCEPT ![r] = AfterGet(@, "BUILD")]
  /\ UNCHANGED <<table, blob, age, minted>>

\* Slip: the record is promoted in memory and not written back.
ResolveElapsed_NotStored(r) ==
  /\ req[r].pc = "resolve"
  /\ age[req[r].vm] >= BuildDelay
  /\ req' = [req EXCEPT ![r] = AfterGet(@, "ACTIVE")]
  /\ UNCHANGED <<table, blob, age, minted>>

\* _resolve_build, delay elapsed: the record becomes ACTIVE in memory.
ResolveElapsed(r) ==
  /\ req[r].pc = "resolve"
  /\ age[req[r].vm] >= BuildDelay
  /\ req' = [req EXCEPT ![r] = [@ EXCEPT !.pc = "promote", !.mem = "ACTIVE"]]
  /\ UNCHANGED <<table, blob, age, minted>>

\* The UPDATE of _resolve_build: the promoted record is written over whatever
\* the row has become since it was read.
Promote(r) ==
  /\ req[r].pc = "promote"
  /\ UpdateRow(req[r].vm, "ACTIVE")
  /\ req' = [req EXCEPT ![r] = AfterGet(@, "ACTIVE")]
  /\ UNCHANGED <<age, minted>>

\* The UPDATE of _sync_update_status: the status was tested two reads ago and
\* the row count is not looked at.
WriteStatus(r) ==
  LET s == Target[req[r].op] IN
  /\ req[r].pc = "write"
  /\ UpdateRow(req[r].vm, s)
  /\ req' = [req EXCEPT ![r] = Succeed(@, s)]
  /\ UNCHANGED <<age, minted>>

\* Slip: the row count of the DELETE is not looked at.
Remove_Unconfirmed(r) ==
  /\ req[r].pc = "remove"
  /\ IF Present(req[r].vm)
       THEN /\ table' = [table EXCEPT ![req[r].vm] = "gone"]
            /\ blob'  = [blob EXCEPT ![req[r].vm] = "gone"]
       ELSE UNCHANGED store
  /\ req' = [req EXCEPT ![r] = Succeed(@, "none")]
  /\ UNCHANGED <<age, minted>>

\* _sync_delete: the row count tells a DELETE that removed nothing.
Remove(r) ==
  LET v == req[r].vm IN
  /\ req[r].pc = "remove"
  /\ IF Present(v)
       THEN /\ table' = [table EXCEPT ![v] = "gone"]
            /\ blob'  = [blob EXCEPT ![v] = "gone"]
            /\ req' = [req EXCEPT ![r] = Succeed(@, "none")]
       ELSE /\ req' = [req EXCEPT ![r] = Fail(@, "NotFound")]
            /\ UNCHANGED store
  /\ UNCHANGED <<age, minted>>

\* Any statement may raise sqlite3.OperationalError (the database is still
\* locked after five seconds, the disk is full): the transaction is rolled
\* back, no handler takes the exception and the client is answered 500.
StorageError(r) ==
  /\ req[r].pc \in Statements
  /\ req' = [req EXCEPT ![r] = Fail(@, "Unhandled")]
  /\ UNCHANGED <<table, blob, age, minted>>

\* The client has read the answer; the slot takes another request.
Respond(r) ==
  /\ req[r].pc = "done"
  /\ req' = [req EXCEPT ![r] = Idle]
  /\ UNCHANGED <<table, blob, age, minted>>

\* The process dies, requests in flight with it, and starts again: _init_db
\* creates the table only when it does not exist.
Restart ==
  /\ \E r \in Reqs : req[r].pc # "idle"
  /\ req' = [r \in Reqs |-> Idle]
  /\ UNCHANGED <<table, blob, age, minted>>

Tick ==
  /\ \E v \in minted : age[v] < BuildDelay
  /\ age' = [v \in Ids |-> IF v \in minted /\ age[v] < BuildDelay
                             THEN age[v] + 1 ELSE age[v]]
  /\ UNCHANGED <<table, blob, minted, req>>

\* datetime.now() is a wall clock and may be set back, by any amount.
ClockSetBack ==
  /\ \E a \in [Ids -> 0..BuildDelay] :
       /\ \A v \in Ids : a[v] <= age[v]
       /\ a # age
       /\ age' = a
  /\ UNCHANGED <<table, blob, minted, req>>

Step(r) ==
  \/ Insert(r)
  \/ Select(r)
  \/ ResolveEarly(r)
  \/ ResolveElapsed(r)
  \/ Promote(r)
  \/ WriteStatus(r)
  \/ Remove(r)

Client(r) ==
  \/ \E v \in Ids : ReceiveCreate(r, v)
  \/ \E v \in Ids, op \in Ops \ {"create"} : Receive(r, op, v)
  \/ Respond(r)

Fault ==
  \/ \E r \in Reqs : StorageError(r)
  \/ Restart
  \/ ClockSetBack

Next ==
  \/ \E r \in Reqs : Step(r) \/ Client(r)
  \/ Tick
  \/ Fault

Spec == Init /\ [][Next]_vars

Poll(v) == \E r \in Reqs : Receive(r, "get", v)

\* The clock runs, a worker thread runs the statement it was handed, and an
\* answer reaches its client.  Nothing in the code polls a VM: that clients
\* do is an assumption, and the strong one since they compete for slots.
Fairness ==
  /\ WF_vars(Tick)
  /\ \A r \in Reqs : WF_vars(Step(r)) /\ WF_vars(Respond(r))
  /\ \A v \in Ids : SF_vars(Poll(v))

FairSpec == Spec /\ Fairness
----------------------------------------------------------------------------
TypeOK ==
  /\ table \in [Ids -> LocalStatus \cup Absent]
  /\ blob \in [Ids -> LocalStatus \cup Absent]
  /\ age \in [Ids -> 0..BuildDelay]
  /\ minted \in SUBSET Ids
  /\ req \in [Reqs -> Request]

\* The status column is a copy of the status inside the data column, kept for
\* queries that do not parse JSON; every statement that writes one writes the
\* other, however the writers interleave.
ColumnsAgree == \A v \in Ids : blob[v] = table[v]

\* Of the requests that delete the same VM concurrently, each of which has
\* found it a moment ago, only one is answered 204.
OneDeleteSucceeds ==
  \A r, q \in Reqs :
    /\ req[r].code = 204
    /\ req[q].code = 204
    /\ req[r].vm = req[q].vm
    => r = q

\* Whatever requests, errors, restarts and clock changes do together, a row
\* only moves along the life cycle: it leaves BUILD for ACTIVE alone, so no
\* VM is deleted or stopped while it is provisioning although the test and
\* the statement are two transactions; and a deleted VM never comes back,
\* although stale records are written over it.
Lifecycle == INSTANCE VMLifecycle WITH status <- table
RefinesLifecycle == Lifecycle!Spec

\* BUILD ends on a read only.  Once errors, restarts and clock changes are
\* over, a VM whose clients keep polling it leaves BUILD for good.
BuildSettles ==
  <>[][~Fault]_vars =>
    \A v \in Ids : (table[v] = "BUILD") ~> (table[v] # "BUILD")

----------------------------------------------------------------------------
\* What makes the properties above inductive.

Settled(v) == table[v] \notin {"none", "BUILD"}

\* What a request knows of its VM, whatever happened to the row since it last
\* read it: a row it has seen is never unborn again, and one it has seen out
\* of BUILD never goes back there.
Knows(q) ==
  /\ q.pc # "idle" => q.op \in Ops /\ q.vm \in Ids
  /\ q.pc = "insert" =>
       q.op = "create" /\ q.vm \in minted /\ table[q.vm] = "none"
  /\ q.pc \in {"select", "resolve", "promote"} => q.op # "create"
  /\ q.pc \in {"resolve", "promote"} => table[q.vm] # "none"
  /\ q.pc = "remove" => q.op = "delete" /\ Settled(q.vm)
  /\ q.pc = "write" => q.checked
  /\ q.checked => q.op \in {"start", "stop"} /\ Settled(q.vm) /\ q.pc \in Running
  /\ q.code = 204 => q.pc = "done" /\ table[q.vm] = "gone"

\* An id belongs to the request that minted it until its row is inserted.
OneInserter ==
  \A r, q \in Reqs :
    req[r].pc = "insert" /\ req[q].pc = "insert" /\ req[r].vm = req[q].vm => r = q

\* The inductive invariant: what every request may rely on between two of its
\* statements.
IInv ==
  /\ TypeOK
  /\ ColumnsAgree
  /\ \A v \in Ids \ minted : table[v] = "none"
  /\ OneInserter
  /\ \A r \in Reqs : Knows(req[r])
  /\ OneDeleteSucceeds

----------------------------------------------------------------------------
\* What the documentation says of concurrent requests, and this backend does
\* not do.

\* "Race-condition free": the lazy BUILD -> ACTIVE transition never undoes a
\* stop; a STOPPED VM becomes ACTIVE because somebody starts it.
StopSticks ==
  [][\A v \in Ids :
       table[v] = "STOPPED" /\ table'[v] = "ACTIVE"
       => \E r \in Reqs :
            /\ req[r].vm = v
            /\ req[r].op = "start"
            /\ req'[r].pc # req[r].pc]_vars

\* "VMNotFoundError: vm_id does not exist", "VMOperationError: VM is not in
\* STOPPED state" (for stop: "in ACTIVE state"): a start or stop that succeeds
\* finds a row, in that state, and moves it.
OnlyFromSource ==
  [][\A r \in Reqs :
       req[r].pc = "write" /\ req'[r].code = 200
       => table[req[r].vm] = Source[req[r].op]]_vars
=============================================================================
