------------------------ MODULE OpenStackRepository ------------------------
(***************************************************************************)
(* VMService over OpenStackVMRepository.  The state is Nova's: the service *)
(* keeps none, and shares the servers with every other user of the cloud.  *)
(* A request is a coroutine that makes one SDK call at a time, each in a   *)
(* worker thread; between two calls of one request anything may happen to  *)
(* the server.  A call may also fail, before Nova does what it asks or     *)
(* after (the answer is lost, or comes too late).                          *)
(***************************************************************************)
EXTENDS VMApi

CONSTANTS
  Ids,       \* the identifiers Nova may give a server
  Reqs,      \* requests that may be in flight at the same time
  None       \* the VM of a create, before it has one

ASSUME NoneAssumption == None \notin Ids

VARIABLES
  server,    \* server[v]: the status Nova reports; "none" and "gone": it has none
  task,      \* task[v]: the action Nova has accepted and not finished
  req        \* req[r]: the request a slot is serving

vars == <<server, task, req>>

\* "REBOOT" stands for the dozen statuses the map does not name.
NovaStatus == {"BUILD", "ACTIVE", "SHUTOFF", "PAUSED", "ERROR", "REBOOT", "DELETED"}

\* Slip: the row of SHUTOFF is missing.
View_NoShutoff(s) ==
  CASE s \in {"BUILD", "ACTIVE", "DELETED"} -> s
    [] s \in {"PAUSED", "SUSPENDED"} -> "STOPPED"
    [] OTHER -> "ERROR"

\* _NOVA_STATUS_MAP, with the default of _to_record.
View(s) ==
  CASE s \in {"BUILD", "ACTIVE", "DELETED"} -> s
    [] s \in {"SHUTOFF", "PAUSED", "SUSPENDED"} -> "STOPPED"
    [] OTHER -> "ERROR"

Request ==
  [op   : Ops \cup {"none"},
   vm   : Ids \cup {None},
   pc   : {"idle", "create", "get", "act", "done"},
   mem  : VMStatus \cup {"none"},       \* status of the record held
   sent : BOOLEAN,                      \* Nova has done what this one asked
   misread : BOOLEAN,                   \* its 404 was read in another error's text
   code : Codes \cup {0}]

Idle == [op |-> "none", vm |-> None, pc |-> "idle", mem |-> "none",
         sent |-> FALSE, misread |-> FALSE, code |-> 0]

Reply(q, code, s) == [q EXCEPT !.pc = "done", !.mem = s, !.code = code]

\* Slip: whatever goes wrong with a server is reported as its absence.
Caught_Blunt(q, kind) == {Reply(q, ErrorCode.NotFound, "none")}

\* Slip: an error of a delete that is not the absence of the server is logged
\* and not raised again.
Caught_Logged(q, kind) ==
  CASE kind = "NotFound"                    -> {Reply(q, ErrorCode.NotFound, "none")}
    [] kind # "NotFound" /\ q.op = "delete" -> {Reply(q, SuccessCode("delete"), "none")}
    [] kind # "NotFound" /\ q.op # "delete" -> {Reply(q, ErrorCode.OpenStack, "none")}

\* _handle_exc: the ways it may end the request.  It looks for "404" anywhere in
\* the text of the error, and that text prints what it likes: the URL with its
\* ids, Nova's request id, the body.  Any error may be taken for an absence.
Caught(q, kind) ==
  IF kind = "NotFound"
    THEN {Reply(q, ErrorCode.NotFound, "none")}
    ELSE {Reply(q, ErrorCode.OpenStack, "none"),
          Reply([q EXCEPT !.misread = TRUE], ErrorCode.NotFound, "none")}

\* Slip: VMService forgets its business rule.
AfterGet_DeleteAtOnce(q, s) ==
  IF q.op = "get" THEN Reply(q, SuccessCode("get"), s)
                  ELSE [q EXCEPT !.pc = "act", !.mem = s]

\* What the coroutine does with the record that get_server returned.
AfterGet(q, s) ==
  CASE q.op = "get" -> Reply(q, SuccessCode("get"), s)
    [] q.op = "delete" /\ DeleteRefused(s) -> Reply(q, ErrorCode.Operation, s)
    [] OTHER -> [q EXCEPT !.pc = "act", !.mem = s]

\* What it answers when Nova has accepted the action: the status it leads to.
AfterAct(q) ==
  Reply([q EXCEPT !.sent = TRUE], SuccessCode(q.op),
        IF q.op = "delete" THEN "none" ELSE Target[q.op])
----------------------------------------------------------------------------
\* Nova, as far as this code sees it (external).

Served(v) == server[v] \notin {"none", "DELETED", "gone"}

\* The statuses in which Nova accepts an action; it refuses a start or a stop
\* while another action is in progress.
Allowed == [start  |-> {"SHUTOFF"},
            stop   |-> {"ACTIVE", "ERROR"},
            delete |-> NovaStatus \ {"DELETED"}]

Accepts(op, v) ==
  /\ server[v] \in Allowed[op]
  /\ op = "delete" \/ task[v] = "none"

\* What an accepted action ends in.
Ends == [start  |-> {"ACTIVE", "ERROR"},
         stop   |-> {"SHUTOFF", "ERROR"},
         delete |-> {"DELETED", "gone", "ERROR"}]

FinishTask(v) ==
  /\ task[v] # "none"
  /\ \E s \in Ends[task[v]] : server' = [server EXCEPT ![v] = s]
  /\ task' = [task EXCEPT ![v] = "none"]
  /\ UNCHANGED req

\* What happens to a server that this service did not ask for: it boots or
\* fails to, other users of the cloud act on it, its record is purged.
Elsewhere(s) ==
  CASE s = "BUILD"   -> {"ACTIVE", "ERROR", "gone"}
    [] s = "ACTIVE"  -> {"SHUTOFF", "PAUSED", "REBOOT", "ERROR", "gone"}
    [] s = "DELETED" -> {"gone"}
    [] s \in {"SHUTOFF", "PAUSED", "REBOOT", "ERROR"} -> {"ACTIVE", "gone"}
    [] s \in Absent  -> {}

ChangeElsewhere(v) ==
  /\ task[v] = "none"
  /\ \E s \in Elsewhere(server[v]) : server' = [server EXCEPT ![v] = s]
  /\ UNCHANGED <<task, req>>
----------------------------------------------------------------------------
Init ==
  /\ server = [v \in Ids |-> "none"]
  /\ task = [v \in Ids |-> "none"]
  /\ req = [r \in Reqs |-> Idle]

ReceiveCreate(r) ==
  /\ req[r].pc = "idle"
  /\ req' = [req EXCEPT ![r].op = "create", ![r].pc = "create"]
  /\ UNCHANGED <<server, task>>

\* Every operation on a server starts by fetching it: delete in VMService, the
\* others in the repository.  An id Nova never gave is like one of a server
\* that is gone.
Receive(r, op, v) ==
  /\ req[r].pc = "idle"
  /\ server[v] # "none"
  /\ req' = [req EXCEPT ![r].op = op, ![r].vm = v, ![r].pc = "get"]
  /\ UNCHANGED <<server, task>>

\* create_server: Nova answers at once, with a server that is in BUILD or whose
\* status the response leaves out, or its answer never arrives.
Create(r, v) ==
  /\ req[r].pc = "create"
  /\ server[v] = "none"
  /\ server' = [server EXCEPT ![v] = "BUILD"]
  /\ \/ \E s \in {"BUILD", "none"} :
          req' = [req EXCEPT ![r] = Reply([@ EXCEPT !.vm = v, !.sent = TRUE],
                                          SuccessCode("create"), View(s))]
     \/ \E p \in Caught([req[r] EXCEPT !.sent = TRUE], "Other") :
          req' = [req EXCEPT ![r] = p]
  /\ UNCHANGED task

\* get_server.
Get(r) ==
  LET v == req[r].vm IN
  /\ req[r].pc = "get"
  /\ \E p \in IF server[v] = "gone" THEN Caught(req[r], "NotFound")
                                   ELSE {AfterGet(req[r], View(server[v]))} :
       req' = [req EXCEPT ![r] = p]
  /\ UNCHANGED <<server, task>>

\* delete_server, start_server, stop_server, accepted: the answer arrives or
\* is lost.
Act(r) ==
  LET v == req[r].vm IN
  /\ req[r].pc = "act"
  /\ Accepts(req[r].op, v)
  /\ task' = [task EXCEPT ![v] = req[r].op]
  /\ \/ req' = [req EXCEPT ![r] = AfterAct(@)]
     \/ \E p \in Caught([req[r] EXCEPT !.sent = TRUE], "Other") :
          req' = [req EXCEPT ![r] = p]
  /\ UNCHANGED server

\* The same, refused.  The SDK does not mind a delete of nothing.
ActRefused(r) ==
  LET q == req[r] IN
  /\ q.pc = "act"
  /\ ~Accepts(q.op, q.vm)
  /\ \E p \in CASE Served(q.vm)                     -> Caught(q, "Conflict")
              [] ~Served(q.vm) /\ q.op = "delete" -> {Reply(q, SuccessCode("delete"), "none")}
              [] ~Served(q.vm) /\ q.op # "delete" -> Caught(q, "NotFound") :
       req' = [req EXCEPT ![r] = p]
  /\ UNCHANGED <<server, task>>

\* Any call may fail before it does anything: the quota is exceeded, Keystone
\* or Nova cannot be reached.
CallFails(r) ==
  /\ req[r].pc \in {"create", "get", "act"}
  /\ \E p \in Caught(req[r], "Other") : req' = [req EXCEPT ![r] = p]
  /\ UNCHANGED <<server, task>>

Respond(r) ==
  /\ req[r].pc = "done"
  /\ req' = [req EXCEPT ![r] = Idle]
  /\ UNCHANGED <<server, task>>

\* The process dies and starts again; Nova does not.
Restart ==
  /\ \E r \in Reqs : req[r].pc # "idle"
  /\ req' = [r \in Reqs |-> Idle]
  /\ UNCHANGED <<server, task>>

Nova(v) ==
  \/ FinishTask(v)
  \/ ChangeElsewhere(v)

Serve(r) ==
  \/ ReceiveCreate(r)
  \/ \E op \in Ops \ {"create"}, v \in Ids : Receive(r, op, v)
  \/ \E v \in Ids : Create(r, v)
  \/ Get(r)
  \/ Act(r)
  \/ ActRefused(r)
  \/ CallFails(r)
  \/ Respond(r)

Next ==
  \/ \E v \in Ids : Nova(v)
  \/ \E r \in Reqs : Serve(r)
  \/ Restart

Spec == Init /\ [][Next]_vars

\* Nova finishes what it has accepted.  That is all the liveness below needs.
FairSpec == Spec /\ \A v \in Ids : WF_vars(FinishTask(v))
----------------------------------------------------------------------------
TypeOK ==
  /\ server \in [Ids -> NovaStatus \cup Absent]
  /\ task \in [Ids -> {"none", "start", "stop", "delete"}]
  /\ req \in [Reqs -> Request]

\* "Deleting a VM mid-provisioning could leave orphaned resources": although
\* the fetch that VMService tests and the delete it then issues are two calls,
\* no delete of this service reaches a server that Nova is still building.
NeverDeletesBuild ==
  [][\A v \in Ids :
       task'[v] = "delete" /\ task[v] # "delete" => server[v] # "BUILD"]_vars

\* A client that is told 404 or 422 may take it that its request did nothing,
\* and after a 404 that it named a server, which is gone; of a 502 it knows
\* neither.  The exception is a 404 misread in the text of another error: of
\* that the client knows as little as of a 502.
RefusalsTruthful ==
  \A r \in Reqs :
    LET q == req[r] IN
    ~q.misread =>
      /\ q.code = 404 => q.vm \in Ids /\ ~Served(q.vm)
      /\ q.code \in {404, 422} => ~q.sent

\* A client that is told success may take it that Nova has accepted what it
\* asked; a delete may also have found nothing left to delete.  And what it is
\* shown, a target status that Nova has not reached yet included, stays true
\* of the past: the server exists or existed, and one that was shown out of
\* BUILD is past it, so that no later delete is refused for BUILD.
SuccessesTruthful ==
  \A r \in Reqs :
    LET q == req[r] IN
    /\ q.code = 201 => q.sent
    /\ q.code = 200 /\ q.op \in {"start", "stop"} => q.sent
    /\ q.code = 204 => q.sent \/ ~Served(q.vm)
    /\ q.code \in {200, 201, 204, 422} => server[q.vm] # "none"
    /\ q.code = 200 /\ q.mem # "BUILD" => server[q.vm] # "BUILD"

\* "Return a record with the EXPECTED target status": the status an accepted
\* start or stop is answered with is one a GET will come to show, unless Nova
\* fails the action or the server is deleted meanwhile.
TargetsConfirmed ==
  \A r \in Reqs, v \in Ids, op \in {"start", "stop"} :
    req[r].vm = v /\ req[r].op = op /\ req[r].code = 200 /\ task[v] = op
    ~> View(server[v]) = Target[op] \/ server[v] = "ERROR" \/ ~Served(v)

----------------------------------------------------------------------------
\* What makes the invariants above inductive.

\* Nova works on servers it serves only.
TasksServed == \A v \in Ids : task[v] # "none" => Served(v)

\* What a request knows of its server, whatever Nova and others have done to
\* it since.
Knows(q) ==
  /\ q.sent \/ q.misread \/ q.code # 0 => q.pc = "done"
  /\ q.pc \in {"create", "get"} => q.op # "none"
  /\ q.pc \in {"get", "act"} => q.vm \in Ids /\ q.op # "create"
  /\ q.pc = "act" => q.op \in {"start", "stop", "delete"}
  /\ q.pc = "act" /\ q.op = "delete" => server[q.vm] # "BUILD"
  /\ q.vm \in Ids => server[q.vm] # "none"
  /\ ~q.misread =>
       /\ q.code = 404 => q.vm \in Ids /\ ~Served(q.vm)
       /\ q.code \in {404, 422} => ~q.sent
  /\ q.code \in {200, 201, 204, 422} => q.vm \in Ids
  /\ q.code = 201 => q.sent
  /\ q.code = 200 /\ q.op \in {"start", "stop"} => q.sent
  /\ q.code = 204 => q.sent \/ ~Served(q.vm)
  /\ q.code = 200 /\ q.mem # "BUILD" => server[q.vm] # "BUILD"

IInv ==
  /\ TypeOK
  /\ TasksServed
  /\ \A r \in Reqs : Knows(req[r])

----------------------------------------------------------------------------
\* What a comment says of this repository, and it does not do.

\* "VMNotFoundError: if vm_id does not exist."
NotFoundIsAbsent ==
  \A r \in Reqs :
    req[r].code = 404 /\ req[r].vm \in Ids => ~Served(req[r].vm)
=============================================================================
