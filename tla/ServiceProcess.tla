--------------------------- MODULE ServiceProcess ---------------------------
(***************************************************************************)
(* The process around the repositories: who runs what, and who waits for   *)
(* whom.  Coroutines share one event loop.  FastAPI runs the dependencies  *)
(* of a route, plain functions all of them, in threads of a first pool;    *)
(* repositories run their blocking helpers in a second pool, that of       *)
(* asyncio.to_thread.  Both pools are bounded.  What Nova and Keystone     *)
(* never answer keeps the thread that asked; and the readiness probe asks  *)
(* Keystone from the event loop itself.                                    *)
(***************************************************************************)
EXTENDS VMApi, Naturals, FiniteSets

CONSTANTS
  Reqs,       \* requests that may be in flight at the same time
  Backends,   \* the values of BACKEND to consider
  Tokens,     \* threads for dependencies
  Workers,    \* threads for blocking calls
  None        \* the event loop is not blocked

ASSUME ReqsAssumption == IsFiniteSet(Reqs)
ASSUME BackendsAssumption == Backends \subseteq {"mock", "sqlite", "openstack"}
ASSUME PoolsAssumption == Tokens \in Nat \ {0} /\ Workers \in Nat \ {0}
ASSUME NoneAssumption == None \notin Reqs

VARIABLES
  backend,    \* settings.BACKEND, read once
  sdk,        \* it is OpenStack, and openstacksdk, which is optional, is installed
  cached,     \* @cache holds the repository of the backend
  loop,       \* the request whose coroutine blocks the event loop, or None
  req         \* req[r]: the request a slot is serving

vars == <<backend, sdk, cached, loop, req>>

\* The probe answers when the backend is not ready, besides ErrorCode.
NotReady == 503

\* Where a request may stand.
Points == {"idle", "depends", "resolve", "construct", "resolved", "connect",
           "queued", "calling", "resume", "done"}

Answers == {0, 200, 500, 502, NotReady}

Request ==
  [kind  : {"none", "health", "ready", "vm"},
   pc    : Points,
   slow  : BOOLEAN,               \* the cloud will not answer this one in time
   calls : 0..1,                  \* calls it may still make after the next
   code  : Answers]

Idle == [kind |-> "none", pc |-> "idle", slow |-> FALSE, calls |-> 0, code |-> 0]

To(q, pc) == [q EXCEPT !.pc = pc]
Again(q) == [q EXCEPT !.pc = "queued", !.calls = @ - 1]
Answered(q, code) == [Idle EXCEPT !.kind = q.kind, !.pc = "done", !.code = code]

\* Slip: the probe lets the exception of its backend through to the handlers.
Failure_Uncaught(q) == IF sdk THEN ErrorCode.OpenStack ELSE ErrorCode.Unhandled

\* What an exception of the backend is answered with: OpenStackError has a
\* handler; what SQLite raises has none, nor has the RuntimeError of a missing
\* SDK; and the probe catches everything.
Failure(q) ==
  CASE q.kind = "ready"           -> NotReady
    [] q.kind # "ready" /\ sdk    -> ErrorCode.OpenStack
    [] q.kind # "ready" /\ ~sdk   -> ErrorCode.Unhandled

Failed(q, pc) == [q EXCEPT !.pc = pc, !.code = Failure(q)]

At(pcs) == {r \in Reqs : req[r].pc \in pcs}

\* A dependency keeps its thread until the event loop has taken its value.
Resolving == At({"resolve", "construct", "resolved"})
Calling == At({"calling"})
----------------------------------------------------------------------------
Init ==
  /\ backend \in Backends
  /\ sdk \in BOOLEAN
  /\ sdk => backend = "openstack"
  /\ cached = FALSE
  /\ loop = None
  /\ req = [r \in Reqs |-> Idle]

\* A client connects, and RequestTracingMiddleware and the router lead to the
\* first dependency.  Each route has one, the probes too: get_settings.  Only
\* what asks the cloud can be kept waiting by it.
Arrive(r, kind, slow) ==
  /\ req[r].pc = "idle"
  /\ slow => kind # "health" /\ sdk
  /\ req' = [req EXCEPT ![r] = [Idle EXCEPT !.kind = kind, !.pc = "depends",
               !.slow = slow, !.calls = IF kind = "vm" THEN 1 ELSE 0]]
  /\ UNCHANGED <<backend, sdk, cached, loop>>

\* A thread for it, when one is free.
TakeThread(r) ==
  /\ loop = None
  /\ req[r].pc = "depends"
  /\ Cardinality(Resolving) < Tokens
  /\ req' = [req EXCEPT ![r] = To(@, "resolve")]
  /\ UNCHANGED <<backend, sdk, cached, loop>>

\* Slip: a lock around the cache, held while the repository is constructed.
Lookup_Locked(r) ==
  /\ req[r].pc = "resolve"
  /\ At({"construct"}) = {}
  /\ req' = [req EXCEPT ![r] =
       To(@, IF @.kind = "vm" /\ ~cached THEN "construct" ELSE "resolved")]
  /\ UNCHANGED <<backend, sdk, cached, loop>>

\* get_settings, and for a VM route get_repository, which looks in the cache.
Lookup(r) ==
  /\ req[r].pc = "resolve"
  /\ req' = [req EXCEPT ![r] =
       To(@, IF @.kind = "vm" /\ ~cached THEN "construct" ELSE "resolved")]
  /\ UNCHANGED <<backend, sdk, cached, loop>>

\* The constructor of the repository returns; that of OpenStack imports the SDK.
Construct(r) ==
  /\ req[r].pc = "construct"
  /\ backend = "openstack" => sdk
  /\ cached' = TRUE
  /\ req' = [req EXCEPT ![r] = To(@, "resolved")]
  /\ UNCHANGED <<backend, sdk, loop>>

\* It raises (there is no SDK, Keystone refuses, the SQLite file is not
\* writable), and @cache remembers nothing.
ConstructFails(r) ==
  /\ req[r].pc = "construct"
  /\ backend # "mock"
  /\ req' = [req EXCEPT ![r] = Failed(@, "resolved")]
  /\ UNCHANGED <<backend, sdk, cached, loop>>

\* The coroutine of the route resumes with its dependencies, or their
\* exception.  Where it goes on is the rest of this section.
Resumed(r) ==
  /\ loop = None
  /\ req[r].pc = "resolved"

\* liveness; readiness of a local backend; the mock backend, which never
\* suspends; an exception, turned into an answer.
AnswerAtOnce(r) ==
  /\ Resumed(r)
  /\ \/ req[r].code # 0
     \/ req[r].kind = "health"
     \/ req[r].kind = "ready" /\ backend # "openstack"
     \/ req[r].kind = "vm" /\ backend = "mock"
  /\ req' = [req EXCEPT ![r] = Answered(@, IF @.code = 0 THEN 200 ELSE @.code)]
  /\ UNCHANGED <<backend, sdk, cached, loop>>

\* Slip: the SDK is called without to_thread.
CallBackend_OnLoop(r) ==
  /\ Resumed(r)
  /\ req[r].code = 0
  /\ req[r].kind = "vm"
  /\ backend # "mock"
  /\ loop' = r
  /\ req' = [req EXCEPT ![r] = To(@, "calling")]
  /\ UNCHANGED <<backend, sdk, cached>>

\* A VM route over SQLite or OpenStack: await asyncio.to_thread.
CallBackend(r) ==
  /\ Resumed(r)
  /\ req[r].code = 0
  /\ req[r].kind = "vm"
  /\ backend # "mock"
  /\ req' = [req EXCEPT ![r] = To(@, "queued")]
  /\ UNCHANGED <<backend, sdk, cached, loop>>

\* readiness over OpenStack: _openstack_singleton() is called from the
\* coroutine; with a cold cache it connects to Keystone there and then.
Probe(r) ==
  /\ Resumed(r)
  /\ req[r].kind = "ready"
  /\ backend = "openstack"
  /\ req' = [req EXCEPT ![r] = To(@, IF cached THEN "queued" ELSE "connect")]
  /\ loop' = IF cached THEN None ELSE r
  /\ UNCHANGED <<backend, sdk, cached>>

\* Slip: the probe constructs a repository of its own.
Connect_Apart(r) ==
  /\ req[r].pc = "connect"
  /\ sdk
  /\ loop' = None
  /\ req' = [req EXCEPT ![r] = To(@, "queued")]
  /\ UNCHANGED <<backend, sdk, cached>>

\* The SDK is there and Keystone lets the probe in; the ping is handed to a worker.
Connect(r) ==
  /\ req[r].pc = "connect"
  /\ sdk
  /\ cached' = TRUE
  /\ loop' = None
  /\ req' = [req EXCEPT ![r] = To(@, "queued")]
  /\ UNCHANGED <<backend, sdk>>

\* Neither SDK nor Keystone, one and the same to the probe.
ConnectFails(r) ==
  /\ req[r].pc = "connect"
  /\ loop' = None
  /\ req' = [req EXCEPT ![r] = Answered(@, NotReady)]
  /\ UNCHANGED <<backend, sdk, cached>>

\* A worker picks the call up, the event loop blocked or not.
TakeWorker(r) ==
  /\ req[r].pc = "queued"
  /\ Cardinality(Calling) < Workers
  /\ req' = [req EXCEPT ![r] = To(@, "calling")]
  /\ UNCHANGED <<backend, sdk, cached, loop>>

\* The statement, or the call to Nova, ends well or in an exception; one that
\* becomes a 404, a misread one too, counts here as a refusal.
CallReturns(r) ==
  /\ req[r].pc = "calling"
  /\ req' = [req EXCEPT ![r] = To(@, "resume")]
  /\ UNCHANGED <<backend, sdk, cached, loop>>

CallFails(r) ==
  /\ req[r].pc = "calling"
  /\ req' = [req EXCEPT ![r] = Failed(@, "resume")]
  /\ UNCHANGED <<backend, sdk, cached, loop>>

\* Slip: the call is made again as long as it succeeds.
CallAgain_Always(r) ==
  /\ loop = None
  /\ req[r].pc = "resume"
  /\ req[r].code = 0
  /\ req' = [req EXCEPT ![r] = Again(@)]
  /\ UNCHANGED <<backend, sdk, cached, loop>>

\* The coroutine goes on: delete, start and stop make a second call, unless
\* the first has shown that they must be refused.
CallAgain(r) ==
  /\ loop = None
  /\ req[r].pc = "resume"
  /\ req[r].code = 0
  /\ req[r].calls > 0
  /\ req' = [req EXCEPT ![r] = Again(@)]
  /\ UNCHANGED <<backend, sdk, cached, loop>>

\* Or it answers; 200 stands for whatever the route answers when the backend
\* has done its part, refusals included, and 404 among them.
Answer(r) ==
  /\ loop = None
  /\ req[r].pc = "resume"
  /\ req' = [req EXCEPT ![r] = Answered(@, IF @.code = 0 THEN 200 ELSE @.code)]
  /\ UNCHANGED <<backend, sdk, cached, loop>>

\* The client has its answer.
Leave(r) ==
  /\ req[r].pc = "done"
  /\ req' = [req EXCEPT ![r] = Idle]
  /\ UNCHANGED <<backend, sdk, cached, loop>>

\* The process dies and starts again, with a cold cache.
Restart ==
  /\ \E r \in Reqs : req[r].pc # "idle"
  /\ cached' = FALSE
  /\ loop' = None
  /\ req' = [r \in Reqs |-> Idle]
  /\ UNCHANGED <<backend, sdk>>

\* Steps that need the event loop; a thread that has what it needs; and what
\* waits for a database or for the cloud.
OnLoop(r) ==
  \/ TakeThread(r)
  \/ AnswerAtOnce(r)
  \/ CallBackend(r)
  \/ Probe(r)
  \/ CallAgain(r)
  \/ Answer(r)

Backend(r) ==
  \/ Construct(r)
  \/ ConstructFails(r)
  \/ Connect(r)
  \/ ConnectFails(r)
  \/ CallReturns(r)
  \/ CallFails(r)

Next ==
  \/ \E r \in Reqs :
       \/ \E kind \in {"health", "ready", "vm"}, slow \in BOOLEAN :
            Arrive(r, kind, slow)
       \/ OnLoop(r)
       \/ Lookup(r)
       \/ TakeWorker(r)
       \/ Backend(r)
       \/ Leave(r)
  \/ Restart

Spec == Init /\ [][Next]_vars

\* The event loop's ready queue and the queues of both pools are first come,
\* first served: strong fairness, for those at their head do come and go.
\* Threads run.  A backend answers, unless it is the cloud and will not.
Fairness ==
  \A r \in Reqs :
    /\ SF_vars(OnLoop(r))
    /\ SF_vars(TakeWorker(r))
    /\ WF_vars(Lookup(r))
    /\ WF_vars(~req[r].slow /\ Backend(r))

FairSpec == Spec /\ Fairness
----------------------------------------------------------------------------
TypeOK ==
  /\ backend \in Backends
  /\ sdk \in BOOLEAN /\ (sdk => backend = "openstack")
  /\ cached \in BOOLEAN
  /\ loop \in Reqs \cup {None}
  /\ req \in [Reqs -> Request]

\* "One slow Nova call cannot stall unrelated requests on the event loop":
\* no VM request ever keeps the event loop, whatever its backend does.  Only
\* the readiness probe does, over OpenStack, until Keystone answers it.
OnlyProbesBlock ==
  loop # None =>
    /\ backend = "openstack"
    /\ req[loop].kind = "ready"
    /\ req[loop].pc = "connect"

\* A backend that a readiness probe has found ready has been constructed in
\* this life of the process, by some request.
ReadyMeansConstructed(b) ==
  \A r \in Reqs :
    backend = b /\ req[r].kind = "ready" /\ req[r].code = 200 => cached

\* "Returns 200 only when the service can handle traffic": the VM requests
\* that follow the answer do not meet Keystone.
ReadyMeansConnected == ReadyMeansConstructed("openstack")

\* What goes wrong is told to whom it concerns, and by its name: the liveness
\* probe, which asks no backend, never fails; a readiness probe says "not
\* ready" of the cloud alone, and whatever it meets is no more than that; a VM
\* request is told 502 of the cloud, 500 of the SQLite file or of a cloud whose
\* SDK is missing, and nothing of the kind of the mock.  And without the SDK
\* nothing but the liveness probe ever succeeds over OpenStack.
ErrorsNameTheirCause ==
  \A r \in Reqs :
    LET q == req[r] IN
    /\ q.code = NotReady => q.kind = "ready" /\ backend = "openstack"
    /\ q.code = 502 => q.kind = "vm" /\ sdk
    /\ q.code = 500 => q.kind = "vm" /\ backend # "mock" /\ ~sdk
    /\ q.code = 200 /\ backend = "openstack" => q.kind = "health" \/ sdk

InFlight(r) == req[r].pc \notin {"idle", "done"}

\* Each pool has one thread more than there are requests the cloud leaves
\* waiting, and none of those is a probe that blocks the event loop.
LeavesRoom ==
  LET slow == {s \in Reqs : req[s].slow} IN
  /\ Cardinality(slow) < Tokens
  /\ Cardinality(slow) < Workers
  /\ \A s \in slow : req[s].pc # "connect"

\* A request that waits for nobody else: it has the thread and the event loop
\* it needs next, and if it waits for its backend, that answers.
WaitsForNobody(r) ==
  \/ req[r].pc = "resolve"
  \/ req[r].pc = "depends" /\ loop = None /\ Cardinality(Resolving) < Tokens
  \/ req[r].pc \in {"resolved", "resume"} /\ loop = None
  \/ req[r].pc = "queued" /\ Cardinality(Calling) < Workers
  \/ req[r].pc \in {"construct", "connect", "calling"} /\ ~req[r].slow

\* Requests hold what others wait for, threads of either pool and the event
\* loop, and wait for more while they do; yet they never wait for one another
\* in a circle.  As long as there is room, one of those that the cloud does
\* not keep waiting can go on.
NoGridlock ==
  LeavesRoom /\ (\E r \in Reqs : InFlight(r) /\ ~req[r].slow)
  => \E r \in Reqs : InFlight(r) /\ ~req[r].slow /\ WaitsForNobody(r)

\* "One slow OpenStack call cannot starve unrelated requests": as long as
\* there is room, every other request is answered.
Served(r) ==
  []LeavesRoom => (InFlight(r) /\ ~req[r].slow ~> ~InFlight(r))

OthersServed == \A r \in Reqs : Served(r)

ProbeAnswered(r) == InFlight(r) /\ req[r].kind = "health" ~> ~InFlight(r)

\* Once no repository is being constructed, a liveness probe is answered
\* although every call to Nova may hang and every worker with it.
AnsweredOnceWarm(r) ==
  <>[](At({"construct", "connect"}) = {}) => ProbeAnswered(r)

LivenessOnceWarm == \A r \in Reqs : AnsweredOnceWarm(r)

----------------------------------------------------------------------------
\* What makes the invariants above inductive.

\* Who may find a backend failing, in a call or in construction.
Remote(q) ==
  \/ q.kind = "vm" /\ backend # "mock"
  \/ q.kind = "ready" /\ backend = "openstack"

Blamed(q) == q.code # 200 => Remote(q) /\ q.code = Failure(q)

\* The SDK there, if the backend needs it.
Installed == backend = "openstack" => sdk

\* Only success is answered at the end, a failure by who met one; a probe that
\* got past its connection has left the repository in the cache; and whoever
\* has the repository, or an answer from it, has had its SDK.
Sound(q) ==
  /\ q.code = 200 => q.pc = "done"
  /\ q.code # 0 => q.pc \in {"resolved", "resume", "done"} /\ Blamed(q)
  /\ q.pc = "construct" => q.kind = "vm"
  /\ q.pc = "resolved" /\ q.code # 0 => q.kind = "vm"
  /\ q.pc = "resolved" /\ q.code = 0 /\ q.kind = "vm" => Installed
  /\ q.pc \in {"queued", "calling", "resume"} => Remote(q) /\ Installed
  /\ q.code = 200 => q.kind = "health" \/ Installed
  /\ q.kind = "ready" /\ backend = "openstack"
     /\ (q.pc \in {"queued", "calling", "resume"} \/ q.code = 200) => cached

\* Who connects from the event loop is who blocks it.
OneBlocker == \A r \in Reqs : req[r].pc = "connect" => loop = r

IInv ==
  /\ TypeOK
  /\ cached => Installed
  /\ OnlyProbesBlock
  /\ OneBlocker
  /\ \A r \in Reqs : Sound(req[r])

----------------------------------------------------------------------------
\* What the comments of the probes say, and the process does not do.

\* Liveness "should never depend on external systems": it is answered
\* whatever Keystone and Nova leave unanswered.
LivenessIndependent == \A r \in Reqs : ProbeAnswered(r)

\* "SQLite is always ready if the file path is writable (checked at init)":
\* a probe that finds SQLite ready finds it initialised.
ReadyMeansInitialised == ReadyMeansConstructed("sqlite")
=============================================================================
