------------------------- MODULE RepositoryProvider -------------------------
(***************************************************************************)
(* A process serving requests from the mock backend.  get_repository is a  *)
(* plain function, so FastAPI runs it in a worker thread, once for each    *)
(* request, at the same time as those of other requests.  functools.cache  *)
(* does not hold a lock while the function it wraps runs: two threads that *)
(* both miss both construct a repository, and the later one to return      *)
(* replaces the earlier in the cache.  The handler itself then runs on the *)
(* event loop, with the repository its own dependency was given.           *)
(***************************************************************************)
EXTENDS MockRepository, Naturals

CONSTANTS
  Ids,          \* the identifiers uuid4() may return
  Reqs,         \* requests that may be in flight at the same time
  Stores,       \* repositories constructed over all the lives of the process
  None          \* no repository, no VM

ASSUME NoneAssumption == None \notin Ids \cup Stores

VARIABLES
  cached,   \* what @cache holds for _mock_singleton
  living,   \* the repositories this life of the process has constructed
  store,    \* store[s][v]: the status of v in repository s, dead ones included
  due,      \* the VMs whose provisioning delay has elapsed, by the wall clock
  req,      \* req[r]: the request a slot is serving
  raced     \* in this life of the process two constructions have overlapped

vars == <<cached, living, store, due, req, raced>>

Request ==
  [op   : Ops \cup {"none"},
   vm   : Ids \cup {None},
   pc   : {"idle", "depends", "construct", "handle", "done"},
   repo : Stores \cup {None},
   code : Codes \cup {0}]

Idle == [op |-> "none", vm |-> None, pc |-> "idle", repo |-> None, code |-> 0]

Constructing == {r \in Reqs : req[r].pc = "construct"}

\* uuid4() never returns an id that some record has had.
Fresh(v) == \A s \in Stores : store[s][v] = "none"
\* A dictionary nobody has; the bound of the model is that Stores may run out.
Unused == {s \in Stores \ living : \A v \in Ids : store[s][v] = "none"}
----------------------------------------------------------------------------
Init ==
  /\ cached = None
  /\ living = {}
  /\ store = [s \in Stores |-> [v \in Ids |-> "none"]]
  /\ due = {}
  /\ req = [r \in Reqs |-> Idle]
  /\ raced = FALSE

Receive(r, op, v) ==
  /\ req[r].pc = "idle"
  /\ v = None <=> op = "create"
  /\ req' = [req EXCEPT ![r] = [Idle EXCEPT !.op = op, !.vm = v, !.pc = "depends"]]
  /\ UNCHANGED <<cached, living, store, due, raced>>

\* get_repository finds the singleton in the cache.
Hit(r) ==
  /\ req[r].pc = "depends"
  /\ cached # None
  /\ req' = [req EXCEPT ![r].pc = "handle", ![r].repo = cached]
  /\ UNCHANGED <<cached, living, store, due, raced>>

\* It does not, and starts to construct one.
Miss(r) ==
  /\ req[r].pc = "depends"
  /\ cached = None
  /\ req' = [req EXCEPT ![r].pc = "construct"]
  /\ raced' = (raced \/ Constructing # {})
  /\ UNCHANGED <<cached, living, store, due>>

\* Slip: without @cache.
Construct_Uncached(r) ==
  /\ req[r].pc = "construct"
  /\ \E s \in Unused :
       /\ living' = living \cup {s}
       /\ req' = [req EXCEPT ![r].pc = "handle", ![r].repo = s]
  /\ UNCHANGED <<cached, store, due, raced>>

\* The constructor returns; the cache entry is set, whatever it holds by now.
Construct(r) ==
  /\ req[r].pc = "construct"
  /\ \E s \in Unused :
       /\ living' = living \cup {s}
       /\ cached' = s
       /\ req' = [req EXCEPT ![r].pc = "handle", ![r].repo = s]
  /\ UNCHANGED <<store, due, raced>>

\* The route handler, VMService and the repository, on the event loop.
Handle(r) ==
  LET q == req[r] IN
  /\ q.pc = "handle"
  /\ \E v \in Ids :
       /\ IF q.op = "create" THEN Fresh(v) ELSE v = q.vm
       /\ LET out == Call(q.op, store[q.repo][v], v \in due) IN
            /\ store' = [store EXCEPT ![q.repo][v] = out.row]
            /\ req' = [req EXCEPT ![r].pc = "done", ![r].vm = v,
                                  ![r].code = out.code]
  /\ UNCHANGED <<cached, living, due, raced>>

Respond(r) ==
  /\ req[r].pc = "done"
  /\ req' = [req EXCEPT ![r] = Idle]
  /\ UNCHANGED <<cached, living, store, due, raced>>

\* The process dies and starts again: its dictionaries are gone.
Restart ==
  /\ cached' = None
  /\ living' = {}
  /\ req' = [r \in Reqs |-> Idle]
  /\ raced' = FALSE
  /\ <<cached, req>> # <<cached', req'>>
  /\ UNCHANGED <<store, due>>

\* The provisioning delay of v has elapsed.  The wall clock is taken not to be
\* set back here; SQLiteRepository has a step for that.
Elapse(v) ==
  /\ v \notin due
  /\ ~Fresh(v)
  /\ due' = due \cup {v}
  /\ UNCHANGED <<cached, living, store, req, raced>>

Next ==
  \/ \E r \in Reqs :
       \/ \E op \in Ops, v \in Ids \cup {None} : Receive(r, op, v)
       \/ Hit(r)
       \/ Miss(r)
       \/ Construct(r)
       \/ Handle(r)
       \/ Respond(r)
  \/ Restart
  \/ \E v \in Ids : Elapse(v)

Spec == Init /\ [][Next]_vars
----------------------------------------------------------------------------
TypeOK ==
  /\ cached \in living \cup {None}
  /\ living \in SUBSET Stores
  /\ store \in [Stores -> [Ids -> LocalStatus \cup Absent]]
  /\ due \in SUBSET Ids
  /\ req \in [Reqs -> Request]
  /\ raced \in BOOLEAN

\* Two threads that construct a repository at the same time are the only way
\* to part requests: otherwise every VM a client was told of, and has not
\* deleted, is in the repository that requests still to come will be given.
ReachableUnlessRaced ==
  ~raced => \A s \in living, v \in Ids : store[s][v] \notin Absent => s = cached

\* The state of v that a read would report: it lives in the store its create
\* was given, and one in BUILD whose time is up counts as ACTIVE.
Status(v) ==
  IF Fresh(v) THEN "none"
  ELSE Resolved(store[CHOOSE s \in Stores : store[s][v] # "none"][v], v \in due)

Statuses == [v \in Ids |-> Status(v)]

\* Whatever repositories the requests have been given, a VM moves along the
\* life cycle only, and computing the end of BUILD on the next read cannot be
\* told from a background task that ends it on time, not even by the stop or
\* delete that is itself the next read.
Lifecycle == INSTANCE VMLifecycle WITH status <- Statuses
RefinesLifecycle == Lifecycle!Spec

\* What a client is told is what the life cycle says, computed anew: unless
\* constructions have raced, a VM of this life of the process is answered for,
\* and moved, by its state in the life cycle, whichever request was given the
\* repository when; and any other is not found.
AnsweredByLifecycle ==
  [][\A r \in Reqs, v \in Ids :
       LET q == req'[r]
           out == Call(q.op, Status(v), FALSE)
       IN
       ~raced /\ req[r].pc = "handle" /\ q.pc = "done" /\ q.vm = v /\ q.op # "create" =>
         IF \E s \in living : store[s][v] # "none"
           THEN q.code = out.code /\ Status(v)' = out.row
           ELSE q.code = ErrorCode.NotFound]_vars

----------------------------------------------------------------------------
\* What makes the properties above inductive.

\* No VM is in two repositories, of this life of the process or another.
OneHome ==
  \A v \in Ids, s, t \in Stores : store[s][v] # "none" /\ store[t][v] # "none" => s = t

\* The delay of a VM elapses after its birth.
DueBorn == \A v \in due : ~Fresh(v)

\* A request that is handled holds a repository of this life of the process.
Knows(q) ==
  /\ q.pc # "idle" => q.op \in Ops
  /\ q.pc \in {"depends", "construct", "handle"} => (q.vm = None <=> q.op = "create")
  /\ q.pc = "handle" => q.repo \in living

\* As long as no two constructions have overlapped, there is one repository,
\* the cached one, and whoever constructs is alone and finds none.
Alone ==
  ~raced =>
    /\ living \subseteq {cached}
    /\ \A r, q \in Constructing : r = q
    /\ Constructing # {} => cached = None

IInv ==
  /\ TypeOK
  /\ OneHome
  /\ DueBorn
  /\ \A r \in Reqs : Knows(req[r])
  /\ Alone

----------------------------------------------------------------------------
\* "One in-memory store per process", whatever requests come first.
OneStorePerProcess == \A s, t \in living : s = t
=============================================================================
