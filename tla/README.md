# VM Lifecycle API: TLA+ models, model checking and proofs

This directory holds a formal model of the service under `src/app`: a FastAPI
application that creates, reads, starts, stops and deletes virtual machines over
one of three interchangeable backends (in-memory mock, SQLite file, OpenStack).

## 1. The system

| Part | Code | State it keeps | Operations |
|---|---|---|---|
| Routes, handlers | `app/api/routes/vms.py`, `app/core/exceptions.py`, `app/main.py` | none | five routes; each domain exception becomes an HTTP code |
| `VMService` | `app/services/vm_service.py` | none | passes through; refuses to delete a VM in BUILD |
| Provider | `app/api/deps.py` | one cached repository per process | `get_repository`, `get_vm_service`, run in a worker thread per request |
| `MockVMRepository` | `app/repositories/mock_repository.py` | a dictionary of records | create, get, delete, start, stop; BUILD resolved on reads |
| `SQLiteVMRepository` | `app/repositories/sqlite_repository.py` | one table, status kept twice | the same, as one to five transactions in worker threads |
| `OpenStackVMRepository` | `app/repositories/openstack_repository.py` | an SDK connection; the VMs are Nova's | the same, as one or two remote calls in worker threads |
| Health probes | `app/api/routes/health.py` | none | liveness; readiness connects to the backend if need be and pings Nova |
| Process | FastAPI, anyio, asyncio | one event loop, two bounded thread pools | run coroutines, dependencies, blocking helpers |
| Middleware | `app/api/middleware.py` | none | request id, access log |
| Logging | `app/core/logging_config.py` | handlers, rotated files | `setup_logging`, `JSONFormatter` |
| Validation | `app/models/requests.py` | none | fields of POST /vms |

**How they interact.** A request resolves its dependencies in a worker thread
(the provider), then its route runs on the event loop and awaits the service,
which awaits the repository. What suspends, and so what other requests can come
between, depends on the repository: nothing in the mock, every SQL helper in
SQLite, every SDK call in OpenStack. Requests meet in the provider's cache, in
the backend's store, and where they wait for one another: on the event loop, on
the pool that runs dependencies (all of them plain functions, `get_settings` of
the probes included) and on the default executor behind `asyncio.to_thread`.

**What is hard.** All of the concurrency is of one kind: a request reads a
status, suspends, and acts on what it read. The SQLite backend does this in
three places (the BUILD test of delete, the source test of start and stop, and
the promotion of a record in BUILD that was read earlier); OpenStack does it
between the fetch and the action, with strangers acting on the same servers.
Around it: SQLite errors between two committed statements, crashes between
statements, a wall clock that decides when BUILD ends, lost answers from Nova,
and a cache that two threads can fill at the same time. Of another kind is who
waits for whom when the cloud does not answer: a slow call keeps a worker, a slow
construction keeps a thread that dependencies need, and a readiness probe that
must construct does so on the event loop itself.

**What makes each part correct.**

* Any backend: a VM only moves along the life cycle (BUILD, then ACTIVE and
  STOPPED back and forth, then gone, and never deleted in BUILD), whatever its
  requests do; an answer says something that was true while the request ran.
* SQLite: the two copies of the status agree; a delete is confirmed once; BUILD
  ends for a VM that is polled.
* Mock and provider: every VM a client was told of is where later requests look;
  ending BUILD lazily cannot be told from ending it on time.
* OpenStack: a 404 (that was not misread) or 422 means that nothing was done; a
  server being built is never deleted; the target status answered is the one
  that polling confirms.
* The process: no VM request keeps the event loop; a slow one does not starve
  others that it leaves a thread; probes are answered; "ready" means connected.

## 2. Modules

| Module | Models | Extends |
|---|---|---|
| `VMLifecycle` | the promise: the life cycle of each VM, without requests | |
| `VMApi` | operations, HTTP codes, the delete rule, source and target states | |
| `SQLiteRepository` | `VMService` over `SQLiteVMRepository` | `VMApi`; instantiates `VMLifecycle` |
| `SQLiteObserved` | the same with a history of what each request's VM went through, and of whether another request ran on it meanwhile | `SQLiteRepository`, `MockRepository` |
| `MockRepository` | `VMService` over `MockVMRepository`, as functions | `VMApi` |
| `RepositoryProvider` | a process: cache, worker threads, event loop, mock stores | `MockRepository`; instantiates `VMLifecycle` |
| `OpenStackRepository` | `VMService` over `OpenStackVMRepository`, and Nova | `VMApi` |
| `ServiceProcess` | event loop, thread pools, cache and probes over any backend | `VMApi` |
| `SQLiteRepositoryProofs`, `SQLiteObservedProofs`, `RepositoryProviderProofs`, `OpenStackRepositoryProofs`, `ServiceProcessProofs` | theorems about the module each is named after | that module, `TLAPS` |
| `SQLiteAnswersProofs` | the rest of the theorems about `SQLiteObserved`: what answers leave behind, requests alone on a VM | `SQLiteObservedProofs` |
| `MCSQLite`, `MCSQLiteObserved`, `MCProvider`, `MCOpenStack` | symmetry sets for TLC | |
| `MCService` | one request singled out, whose liveness TLC checks | `ServiceProcess` |

Definitions whose name ends in `_Something` (`UpdateRow_Upsert`,
`View_NoShutoff`) are slips: a plausible mistake in the code that follows, kept
to show that the properties can tell. No specification uses them.

### SQLiteRepository

`table[v]` is the status column and `blob[v]` the status inside the JSON column;
`"none"` and `"gone"` both mean that there is no row. `age[v]` is the time since
`created_at` as the wall clock tells it, `minted` the ids `uuid4()` has
returned, `req[r]` the request in slot `r` with its program counter.

A program counter names the next statement, so an action is one transaction with
the local work that follows it:

| Action | Code |
|---|---|
| `ReceiveCreate`, `Insert` | `create_vm`, `_sync_create` |
| `Receive`, `Select` | any other route; the SELECT of `_sync_get` |
| `ResolveEarly`, `ResolveElapsed` | the elapsed test of `_resolve_build` |
| `Promote` | the UPDATE of `_resolve_build` |
| `WriteStatus` | the UPDATE of `_sync_update_status` |
| `Remove` | `_sync_delete` |
| `AfterGet` (operator) | what `VMService` and the async wrappers do with a record |
| `StorageError` | `OperationalError` in any statement: rolled back, answered 500 |
| `Restart` | crash and restart: requests are lost, the file is not |
| `Tick`, `ClockSetBack` | `datetime.now()` |

A start or stop therefore takes SELECT, test, SELECT, UPDATE, with a promotion
possible after either SELECT: the second read of `_sync_update_status` is not
tested, which the `checked` field tells apart.

Left out: names, images, flavors, networks, `updated_at`. `ClockSetBack` may
change ages independently of each other, more than one clock could: what holds
with it holds without it. `StorageError` may strike at any statement.

### SQLiteObserved

Two history variables over `SQLiteRepository`, updated with every step and read
by no action: `window[r]`, the states the VM of a request went through since it
arrived, and `found[r]`, the row it found then, which becomes `"shared"` as soon
as another request in flight has the same VM. The mock's operations (`Call`)
serve as the reference for what a request that is not disturbed should answer:
both classes fulfil the contract of `VMRepository` (`base.py:3-4`), which the
service relies on without knowing which one it has.

### MockRepository and RepositoryProvider

No coroutine of the mock suspends, so an operation is a function (`Call`) of the
record found and of whether the delay has elapsed; `Handle` applies it to the
store the request was given. `Hit`, `Miss` and `Construct` are the steps of
`functools.cache` in a worker thread: `Construct` sets the cache entry whatever
it holds by then. `Restart` empties the process. The wall clock is not set back
in this module, since `RefinesLifecycle` maps "BUILD, delay elapsed" to ACTIVE.

### OpenStackRepository

The state is Nova's: `server[v]` and the accepted but unfinished action
`task[v]`. Nova is external and modelled from how the repository uses it and
from the statuses it maps: it accepts a start in SHUTOFF and a stop in ACTIVE or
ERROR when nothing else is in progress, finishes or fails what it accepted, and
other users change servers at will (`ChangeElsewhere`). Deleting a missing
server through the SDK is no error. A call may fail without effect (`CallFails`)
or take effect and lose its answer (second disjunct of `Create` and `Act`).
`_handle_exc` looks for "404" anywhere in the text of an error, and what that
text contains (URL, ids, Nova's request id, body) is nothing the model could
know: `Caught` gives both outcomes to every error that is not an absence, and
`misread` tells afterwards which of a client's 404s were no absence. So may a
create be answered 404, for no server at all. All the error codes of an
`OpenStackError` are one 502.

### ServiceProcess

What the other modules leave out: who runs what. `loop` is the request whose
coroutine blocks the event loop, `cached` whether `@cache` holds the repository
of the `backend`, and `req[r].pc` where a request stands:

| Point | Waits for | Left by |
|---|---|---|
| `depends` | a thread for its dependencies | `TakeThread` |
| `resolve` | its thread to look in the cache | `Lookup` |
| `construct` | a constructor (for OpenStack: Keystone), in its thread | `Construct`, `ConstructFails` |
| `resolved` | the event loop, the thread still held | `AnswerAtOnce`, `CallBackend`, `Probe` |
| `connect` | Keystone, with the event loop | `Connect`, `ConnectFails` |
| `queued`, `calling` | a worker; the backend's answer | `TakeWorker`; `CallReturns`, `CallFails` |
| `resume` | the event loop | `CallAgain`, `Answer` |

`slow` marks a request the cloud will never answer; only OpenStack has such.
`Restart` leaves a cold cache. The runtime (FastAPI's and anyio's thread pool,
the default executor, the ready queue) is external and modelled from how the
code uses it: `async def` routes, plain dependencies, `asyncio.to_thread`.

Three simplifications. The dependencies of one route take a thread one after
another; here one hold stands for them all, the one that constructs. A backend
operation is one call or two, which is the most any of them hands to
`to_thread` besides repetitions of the same shape. The constructor is taken to
wait for Keystone, as `deps.py:47-48` says; `openstack_repository.py:29` says
that authentication happens "on first use", in which case it is the first call
that waits, in a worker, and the hazard of a blocked loop shrinks to what
`openstack.connect()` does itself.

openstacksdk is an optional dependency, and `sdk` says whether a process over
OpenStack has it. Without it the constructor raises a `RuntimeError` before it
connects: the probe answers it with 503 like anything else, but no handler takes
it from a VM request, which is told 500 where every other failure of the cloud
is 502. A failed call whose exception becomes a 404 (misread or not) counts as a
refusal, that is, among the answers "200" stands for.

## 3. Runs

| Run | Bounds | Shows |
|---|---|---|
| `sqlite_safety` | 2 VMs, 2 requests, delay 1, symmetric | types, both status copies agree, one delete succeeds, inductive invariant, answers were true while the request ran and stay true of the past, a request alone on its VM is atomic, only races undo a stop, implements `VMLifecycle` |
| `sqlite_live` | 1 VM, 2 requests, delay 2 | a polled VM leaves BUILD once faults stop |
| `sqlite_stop_undone` | 1 VM, 2 requests | **violated**: a read undoes a stop |
| `sqlite_stale_source` | 1 VM, 2 requests | **violated**: a start succeeds on a row that is not STOPPED, or gone |
| `provider_safety` | 2 VMs, 2 requests, 3 stores, symmetric | types, reachability unless raced, lazy resolution implements `VMLifecycle`, answers follow it |
| `provider_cold_start` | 1 VM, 2 requests, 2 stores | **violated**: two stores in one process |
| `openstack_safety` | 2 servers, 2 requests, symmetric | types, refusals that were not misread did nothing, successes did what they say, BUILD never deleted |
| `openstack_live` | 1 server, 2 requests | expected target states are confirmed |
| `openstack_misread` | 1 server, 1 request | **violated**: 404 for an existing server |
| `service` | 3 requests, 2 threads in each pool, every backend, OpenStack with and without its SDK | types, only a connecting probe blocks the loop, ready means connected, errors named for their cause, no circular waiting, no starvation, liveness probe answered once warm |
| `service_probe_stalled` | 2 requests, OpenStack | **violated**: a liveness probe waits for Keystone |
| `service_ready_unchecked` | 2 requests, SQLite | **violated**: ready before anything opened the file |

**Why these bounds are enough.** Operations touch one VM each, so VMs interact
only through slots: two distinguish "the same" from "another", and liveness
needs one. Every hazard is a step of another request between two of one, so two
slots produce it, and slots are reused without limit: a history has any number
of requests, two at a time. Delay 1 separates elapsed from not elapsed, delay 2
makes the clock pass through an intermediate age. The SQLite safety properties
also hold with three slots (1.7 million states). Three stores let a process
fork, die and start again. In `service`, pools of two and three requests let a
slow request, a call that fails or repeats and a third that waits for a thread
meet, and let all workers hang while a probe comes in. `ClientServed` and
`ClientAnsweredOnceWarm` speak of one request: requests are interchangeable, so
what holds of one in every behaviour holds of each (`OthersServed`,
`LivenessOnceWarm`). "As long as" and "once" in them are premises that behaviours
satisfy: a lock around the cache, and a call made on the event loop, break them.

**Fairness.** `SQLiteRepository!Fairness` asks that the clock runs, that a
worker thread runs the statement it was handed and that an answer reaches its
client: weak fairness, what an event loop and a thread pool give. That clients
poll is no property of the code; `BuildSettles` assumes it with strong fairness
(a poll competes for slots with other requests) and says "once errors, restarts
and clock changes are over", since without that nothing is promised. In
`OpenStackRepository` only Nova is asked to be fair, to what it has accepted.
`ServiceProcess!Fairness` is weak for what a thread does by itself and strong for
what queues: the ready queue of asyncio, the waiters of anyio's limiter and the
work queue of the executor are first in, first out, so whoever waits is served if
places keep coming free. A backend answers unless the request is marked slow.

### Disagreements with the documentation

1. `README.md:77` calls the lazy BUILD to ACTIVE transition race-condition free.
   In SQLite, `_resolve_build` writes a promoted record `WHERE id=?`: a GET that
   read BUILD, overtaken by another GET and a stop, makes the stopped VM ACTIVE.
2. `base.py:53-54` promises an error for a start on a missing or not STOPPED VM.
   The SQLite update does not test again, nor count rows.
3. `deps.py:32` promises one store per process. Two first requests can build
   two; a VM created in the one that loses is answered 404 from then on.
4. `base.py:35` reserves not-found for missing VMs. `_handle_exc` answers it for
   any error whose message contains "404", be it in an id, in Nova's request id
   or in the body, and whatever Nova has done by then.
5. `health.py:8` says that the liveness probe never depends on external systems.
   A readiness probe with a cold cache connects to Keystone on the event loop
   (`health.py:68`) and everything waits with it. The loop is not the only way:
   requests that construct keep threads that the probe's own dependency needs.
6. `health.py:82` says that SQLite is checked at init. Readiness does not
   construct the repository; before the first VM request nothing was checked.

Disagreements that need no run, since they can be read off the code:
`openstack_repository.py:38` says that the fetch before a start or stop
validates it, but nothing looks at the status (an illegal start is Nova's 409,
answered 502, where the interface says `VMOperationError`, 422; the model's
`AfterGet` goes on whatever the status). `vms.py:43-45` says that a create
returns BUILD at once; Nova's answer to a create need not carry a status, and
one without is shown as ERROR (`Create` has both). `deps.py:15` says that the
OpenStack repository is intentionally not a singleton, and `deps.py:43` caches
it. `deps.py:48` and `README.md:85` say that authentication happens at startup:
it happens at the first request, and again after each failure, since `@cache`
does not keep exceptions. `main.py:53` lists middleware "outermost first";
Starlette puts the last one added outermost. An exception no handler takes
passes through `RequestTracingMiddleware`, so its 500 has neither `X-Request-ID`
nor a completion log. `logging_config.py:21` promises 50 MB where six files of
10 MB are kept.

## 4. Proofs

Every safety property that the passing runs check is a theorem, for any sets of
VMs, requests and stores, any delay and any size of the pools. The assumptions
are those the modules name: the delay is a natural number, pools have at least
one thread, the requests in flight are finitely many, backends are among the
three, and `None` is not one of what it is distinguished from.

| Theorem | Says |
|---|---|
| **`SQLiteRepositoryProofs`** | |
| `InvariantHolds` | `Spec => []IInv` |
| `TypeCorrect` | `Spec => []TypeOK` |
| `ColumnsAlwaysAgree` | `Spec => []ColumnsAgree` |
| `OneDeleteOnly` | `Spec => []OneDeleteSucceeds` |
| `ImplementsLifecycle` | `Spec => RefinesLifecycle` |
| **`SQLiteObservedProofs`** | |
| `WindowsAreSound` | `ObservedSpec => [](IInv /\ WindowsSound)` |
| `RepliesAreWitnessed` | `ObservedSpec => []RepliesWitnessed` |
| **`SQLiteAnswersProofs`** | |
| `ObservedInvariantHolds` | `ObservedSpec => []ObservedIInv` |
| `AnswersAlwaysStand` | `ObservedSpec => []AnswersStand` |
| `LoneRequestsAreAtomic` | `ObservedSpec => LoneRequestsAtomic` |
| `StopsUndoneByRacesOnly` | `ObservedSpec => StopUndoneByRaceOnly` |
| **`RepositoryProviderProofs`** | |
| `InvariantHolds`, `TypeCorrect` | `Spec => []IInv`, `Spec => []TypeOK` |
| `ReachableWithoutRace` | `Spec => []ReachableUnlessRaced` |
| `ImplementsLifecycle` | `Spec => RefinesLifecycle` |
| `AnswersFollowLifecycle` | `Spec => AnsweredByLifecycle` |
| **`OpenStackRepositoryProofs`** | |
| `InvariantHolds`, `TypeCorrect` | `Spec => []IInv`, `Spec => []TypeOK` |
| `RefusalsAreTruthful` | `Spec => []RefusalsTruthful` |
| `SuccessesAreTruthful` | `Spec => []SuccessesTruthful` |
| `BuildIsNeverDeleted` | `Spec => NeverDeletesBuild` |
| **`ServiceProcessProofs`** | |
| `InvariantHolds`, `TypeCorrect` | `Spec => []IInv`, `Spec => []TypeOK` |
| `OnlyProbesBlockTheLoop` | `Spec => []OnlyProbesBlock` |
| `ReadyIsConnected` | `Spec => []ReadyMeansConnected` |
| `ErrorsAreNamed` | `Spec => []ErrorsNameTheirCause` |
| `NobodyGridlocked` | `Spec => []NoGridlock` |

### SQLiteRepository

None of its four properties is inductive. `TypeOK` needs that a request about to
write a status is a start or a stop. The refinement needs that such a request,
and one about to delete, has a VM that is out of BUILD *now*, although it looked
some statements ago: true because no step leads back into BUILD. So `IInv` adds
`Knows`, what a request may rely on between its statements, each part of which
is about a condition on the row that no statement of another request can undo:
the row once existed, it once left BUILD, it is gone. `OneInserter` keeps the
row of a create unborn until its own INSERT.

The proof follows that shape. `Forward` says how a row may change under another
request's feet; `OneRequestStep` shows that a step of one request that moves
rows `Forward` keeps `IInv`, given what the request itself then knows;
`QuietStep` and `UpdateStep` specialise it to actions that write nothing and to
UPDATEs; one lemma per action discharges it. `StepRefines` then reads the moves
of the life cycle off `IInv`.

### SQLiteObserved

`RepliesWitnessed` speaks of the past, so its invariant does too. `Grounded`
says what the window of a request contains at each point: BUILD once a record in
BUILD is held, the source state once it was tested, ACTIVE or STOPPED before a
DELETE. `Follows` is the part that makes a promotion come out right: if the
window contains BUILD and the row has left BUILD, the window contains ACTIVE. It
holds because a row leaves BUILD for ACTIVE alone, one step at a time, and that
is read off `StepRefines`: the refinement proved for the repository is a lemma
here (`RowsDrift`). `Waits` takes care of requests another one's step leaves
alone, `Proceeds` of the one that moves, and a lemma per action shows its new
state `Grounded`. (That the history variables only restrict `Spec`, so that its
theorems may be cited, is a lemma; that they hold no step up is seen from
`ObservedNext`, which conjoins `Next` with equations for their next values.)

`AnswersStand` turns from what was true to what remains true. `Stands` is made
of facts about a row that no step undoes (it exists or existed, it is out of
BUILD, it is gone); that steps do not undo them is the drift of rows again
(`StandsOn`), and that an answer is given only with the fact established is read
off `IInv` and the statement that led to it (`StepStands`). The promotion is
where it could fail: `ResolveElapsed` answers nothing before its UPDATE, or a
clock set back would let the next reader see BUILD once more.

`LoneRequestsAtomic` and `StopUndoneByRaceOnly` are about the two disagreements
found in this backend (1 and 2 above): they say that a race on one VM is not
only a way into them but the only one. Errors, crashes, clock changes and
requests on other VMs do not suffice, which a finite run can illustrate and not
show. The invariant is `LoneExact`: as long as a request has had its VM to
itself, the row is the one it found, or that row promoted, at each of its
points, so that the tests it made still hold. It is inductive because a row is
written only by a request on that VM (`NextLone`), and whoever else comes turns
`found` to `"shared"` with the step by which it arrives. What broken-off
requests left behind is just a row: the property does not ask where it came
from. `ReplyIsAtomic` then compares each answering statement with `Call`, with
"elapsed" chosen as the promotion went.

### RepositoryProvider

Reachability needs that there is one store and that it is the cached one, as
long as no constructions have overlapped (`Alone`), and that a request about to
run holds a store of this life of the process (`Knows`). The refinement maps a
VM to the status in the only store that ever had it, which needs that there is
only one (`OneHome`); with that, an operation on a store whose delay has elapsed
is the operation on ACTIVE, and the elapse itself is `FinishBuild`.

`AnswersFollowLifecycle` puts the two together: a request about to run holds the
store its VM is in (`HandlerAtHome`, from reachability), and in that store what
`Call` computes from the record and the clock is what it computes from the
abstract status (`CallResolves`), so the answer and the next state are those of
the life cycle.

### OpenStackRepository

`Knows` is what a request may rely on although strangers act on its server: it
existed, so it is not unborn; it was seen out of BUILD, so it is not in BUILD; a
404 that was not misread was the truth, and nothing brings a server back.
`NeverDeletesBuild` follows from the second. `RefusalsTruthful` and
`SuccessesTruthful` are about requests that have been answered, whose servers
others go on changing: `Knows` says of an answer what no step of Nova or of
anyone else undoes (`Onward`), as for the rows of SQLite.

### ServiceProcess

`OneBlocker` says that whoever connects from the loop is who blocks it, which a
second probe could otherwise undo; `Sound` that a probe past its connection left
the repository in the cache, where only a restart, which ends the probe too,
removes it; and that an error code belongs to a request that met the backend it
names (`Remote`), which is what `ErrorsNameTheirCause` needs of the requests
that have the exception and not yet the answer. Its last clause, no success over
OpenStack without the SDK, needs that whoever holds the repository, from the
cache or from its own construction, has had the SDK (`Installed`).

`NobodyGridlocked` is the part of `ClientServed` that is a fact about states,
and so can be proved for pools of any size: among the requests that the cloud
does not keep waiting one waits for nobody else. If the event loop is taken,
`OnlyProbesBlock` says by whom, and `LeavesRoom` that Keystone answers it. If it
is free, a request that waits for a thread waits for a full pool, and a pool
that is full although the slow requests are fewer than its threads has another
request in it (`FullPool`, the pigeonhole principle, from the library's theorems
on finite sets): that one holds what it needs. That someone can always go on is
not yet that everyone does; fairness makes the difference, and `ClientServed` is
left to TLC.

Only model-checked: the liveness properties (`BuildSettles`, `TargetsConfirmed`,
`ClientServed`, `ClientAnsweredOnceWarm`), since fairness is out of the prover's
reach, and what the six violated runs show, which holds of one behaviour.

## 5. Not modelled

* Request validation (`models/requests.py`): a pure test of four fields before
  the service is called; no state and no order that a unit test would not reach.
* Logging: formatting, and handlers set up once. Rotation, and the locks around
  it, are the standard library's. Log records are written from the event loop to
  a local file or stdout, which is not taken to block.
* The request id: read or made, echoed and logged by the middleware, and never
  decided upon. Configuration only supplies constants. OpenAPI metadata and
  response bodies.
* Which worker process of several serves a request, and an executor that is shut
  down while calls hang.

Three things the code leaves open are recorded as hazards without a property,
for there is no promise to check: a VM whose creator never learns its id (crash
or lost answer after it was made), a duplicate made by a client that retries a
create, and healthy Nova states that are shown as ERROR in passing.

## 6. Plan

Done, in this order: `VMLifecycle`, `VMApi` and `SQLiteRepository` with their
proofs; `SQLiteObserved`; `MockRepository` and `RepositoryProvider`;
`OpenStackRepository` with Nova; `ServiceProcess`; the proofs of the last four;
what SQLite requests promise after their answer and when they are alone; the
answers of the mock against the life cycle; successes over OpenStack; errors and
circular waiting in the process.

What could follow:

* for the mock and OpenStack, the windows that `SQLiteObserved` has, so that one
  statement about answers covers all three backends;
* how disagreement 3 comes about, as was done for 1 and 2: that without
  overlapping constructions there is one store (part of `Alone`), as a theorem of
  its own;
* a composition of `ServiceProcess` with one of the repositories, so that
  starvation and the order of statements are seen together (the state space is
  their product, and the properties separate cleanly);
* several worker processes over one SQLite file, which `SQLiteRepository` already
  covers as far as statements interleave, since nothing in it is kept in memory.
