------------------------ MODULE ServiceProcessProofs ------------------------
(***************************************************************************)
(* What ServiceProcess guarantees for any number of requests and threads   *)
(* and any choice of backends.  The argument is IInv: a step changes one   *)
(* request, and what blocks the event loop or fills the cache is known     *)
(* from where that request stands.                                         *)
(***************************************************************************)
EXTENDS ServiceProcess, FiniteSetTheorems, TLAPS

USE BackendsAssumption, NoneAssumption

\* A step of one request keeps the invariant if it leaves that request sound
\* and keeps the cache, and if the event loop is blocked after it as before,
\* or it blocks or releases the loop itself.
LEMMA OneRequestStep ==
  ASSUME IInv, NEW r \in Reqs, NEW STATE p, p \in Request,
         req' = [req EXCEPT ![r] = p],
         UNCHANGED <<backend, sdk>>, cached' \in BOOLEAN,
         cached => cached', cached' => cached \/ Installed,
         Sound(req[r])',
         \/ loop' = loop /\ loop # r /\ p.pc # "connect"
         \/ loop' = None /\ loop \in {None, r} /\ p.pc # "connect"
         \/ /\ loop = None /\ loop' = r /\ p.pc = "connect"
            /\ p.kind = "ready" /\ backend = "openstack"
  PROVE  IInv'
PROOF
  <1>1. req'[r] = p /\ \A q \in Reqs \ {r} : req'[q] = req[q]
    BY DEF IInv, TypeOK
  <1>2. TypeOK' /\ (cached' => Installed')
    BY DEF IInv, TypeOK, Installed
  <1>3. OnlyProbesBlock' /\ OneBlocker'
    BY <1>1 DEF IInv, TypeOK, OnlyProbesBlock, OneBlocker
  <1>4. \A q \in Reqs : Sound(req[q])'
    BY <1>1 DEF IInv, TypeOK, Sound, Blamed, Remote, Failure, Installed
  <1> QED
    BY <1>2, <1>3, <1>4 DEF IInv

\* Where a request stands tells whether it is the one that blocks the loop.
LEMMA NotTheBlocker ==
  ASSUME IInv, NEW r \in Reqs, req[r].pc # "connect"
  PROVE  loop # r
BY DEF IInv, OnlyProbesBlock

\* Updates of a request, field by field, leave a request.
LEMMA UpdateType ==
  ASSUME NEW q \in Request, NEW pc \in Points, NEW c \in Answers
  PROVE  /\ [q EXCEPT !.pc = pc] \in Request
         /\ [q EXCEPT !.pc = pc, !.code = c] \in Request
BY DEF Request

LEMMA IdleType ==
  /\ Idle \in Request
  /\ Idle.pc = "idle" /\ Idle.code = 0 /\ Idle.kind = "none"
BY DEF Idle, Request, Points, Answers

LEMMA MoveType ==
  ASSUME NEW q \in Request, NEW pc \in Points
  PROVE  To(q, pc) \in Request /\ To(q, pc).pc = pc /\ To(q, pc).kind = q.kind
         /\ To(q, pc).code = q.code
BY UpdateType DEF To, Request

LEMMA FailedType ==
  ASSUME NEW q \in Request, NEW pc \in {"resolved", "resume"}
  PROVE  Failed(q, pc) \in Request /\ Failed(q, pc).pc = pc /\ Failed(q, pc).kind = q.kind
         /\ Failed(q, pc).code \in {500, 502, 503} /\ Failed(q, pc).code = Failure(q)
PROOF
  <1>1. Failure(q) \in {500, 502, 503}
    BY DEF Failure, NotReady, ErrorCode
  <1> DEFINE c == Failure(q)
  <1>2. c \in Answers /\ pc \in Points
    BY <1>1 DEF Answers, NotReady, Points
  <1> HIDE DEF c
  <1>3. [q EXCEPT !.pc = pc, !.code = c] \in Request
    BY <1>2, UpdateType
  <1>4. /\ [q EXCEPT !.pc = pc, !.code = c].pc = pc
        /\ [q EXCEPT !.pc = pc, !.code = c].kind = q.kind
        /\ [q EXCEPT !.pc = pc, !.code = c].code = c
    BY DEF Request
  <1> QED
    BY <1>1, <1>3, <1>4 DEF Failed, c

LEMMA AnsweredType ==
  ASSUME NEW q \in Request, NEW c \in {200, 500, 502, NotReady}
  PROVE  Answered(q, c) \in Request /\ Answered(q, c).pc = "done"
         /\ Answered(q, c).kind = q.kind /\ Answered(q, c).code = c
PROOF
  <1>1. c \in Answers /\ "done" \in Points /\ q.kind \in {"none", "health", "ready", "vm"}
    BY DEF Answers, Points, Request
  <1>2. \A i \in Request : [i EXCEPT !.kind = q.kind, !.pc = "done", !.code = c] \in Request
    BY <1>1 DEF Request
  <1>3. Answered(q, c) \in Request
    BY <1>2, IdleType DEF Answered
  <1> QED
    BY <1>3, IdleType DEF Answered, Request
----------------------------------------------------------------------------
LEMMA InitIInv == Init => IInv
PROOF
  <1> SUFFICES ASSUME Init PROVE IInv
    OBVIOUS
  <1>1. Idle \in Request /\ Idle.pc = "idle" /\ Idle.code = 0 /\ Idle.kind = "none"
    BY IdleType
  <1>2. req \in [Reqs -> Request] /\ \A r \in Reqs : req[r] = Idle
    BY <1>1 DEF Init
  <1>3. TypeOK /\ ~cached
    BY <1>2 DEF Init, TypeOK
  <1>4. OnlyProbesBlock /\ OneBlocker
    BY <1>1, <1>2 DEF Init, OnlyProbesBlock, OneBlocker
  <1>5. \A r \in Reqs : Sound(req[r])
    BY <1>1, <1>2 DEF Sound
  <1> QED
    BY <1>3, <1>4, <1>5 DEF IInv

LEMMA ArriveIInv ==
  ASSUME IInv, NEW r \in Reqs, NEW kind \in {"health", "ready", "vm"}, NEW slow \in BOOLEAN,
         Arrive(r, kind, slow)
  PROVE  IInv'
PROOF
  <1> DEFINE p == [Idle EXCEPT !.kind = kind, !.pc = "depends", !.slow = slow,
                               !.calls = IF kind = "vm" THEN 1 ELSE 0]
  <1>1. p \in Request /\ p.pc = "depends" /\ p.code = 0
    <2> DEFINE n == IF kind = "vm" THEN 1 ELSE 0
    <2>1. n \in 0..1 /\ "depends" \in Points /\ kind \in {"none", "health", "ready", "vm"}
      BY DEF Points
    <2> HIDE DEF n
    <2>2. \A i \in Request : [i EXCEPT !.kind = kind, !.pc = "depends", !.slow = slow,
                                    !.calls = n] \in Request
      BY <2>1 DEF Request
    <2>3. p \in Request
      BY <2>2, IdleType DEF n
    <2> QED
      BY <2>3, IdleType DEF Request
  <1>2. req' = [req EXCEPT ![r] = p] /\ req[r].pc # "connect"
        /\ UNCHANGED <<backend, sdk, cached, loop>>
    BY DEF Arrive
  <1>3. Sound(req[r])' /\ cached' \in BOOLEAN
    BY <1>1, <1>2 DEF Sound, Blamed, Remote, Failure, Installed, IInv, TypeOK
  <1> HIDE DEF p
  <1> QED
    BY <1>1, <1>2, <1>3, OneRequestStep, NotTheBlocker

\* The steps that only move a request on.
LEMMA PlainMoveIInv ==
  ASSUME IInv, NEW r \in Reqs,
         NEW STATE pc, pc \in {"resolve", "construct", "resolved", "queued", "calling", "resume"},
         req[r].pc # "connect", req[r].code = 0,
         req' = [req EXCEPT ![r] = To(@, pc)],
         UNCHANGED <<backend, sdk, cached, loop>>,
         pc = "construct" => req[r].kind = "vm",
         pc = "resolved" /\ req[r].kind = "vm" => Installed,
         pc \in {"queued", "calling", "resume"} =>
           Remote(req[r]) /\ Installed /\ (req[r].pc \in {"queued", "calling", "resume"} \/ req[r].kind = "vm")
  PROVE  IInv'
PROOF
  <1> DEFINE p == To(req[r], pc)
  <1>1. p \in Request /\ p.pc = pc /\ p.kind = req[r].kind /\ p.code = req[r].code
    BY MoveType DEF IInv, TypeOK, Points
  <1>2. Sound(req[r])' /\ cached' \in BOOLEAN
    BY <1>1 DEF Sound, Blamed, Remote, Failure, Installed, IInv, TypeOK
  <1>3. req' = [req EXCEPT ![r] = p]
    OBVIOUS
  <1>4. p.pc # "connect"
    BY <1>1
  <1> HIDE DEF p
  <1> QED
    BY <1>1, <1>2, <1>3, <1>4, OneRequestStep, NotTheBlocker

LEMMA AnswerIInv ==
  ASSUME IInv, NEW r \in Reqs, AnswerAtOnce(r) \/ Answer(r)
  PROVE  IInv'
PROOF
  <1> DEFINE c == IF req[r].code = 0 THEN 200 ELSE req[r].code
             p == Answered(req[r], c)
  <1>1. req[r] \in Request /\ Sound(req[r]) /\ req[r].pc \in {"resolved", "resume"}
        /\ cached \in BOOLEAN
    BY DEF IInv, TypeOK, AnswerAtOnce, Resumed, Answer
  <1>2. c \in {200, 500, 502, NotReady} /\ (c = 200 => req[r].code = 0)
    BY <1>1 DEF Request, Answers, NotReady, Sound
  <1>3. p \in Request /\ p.pc = "done" /\ p.kind = req[r].kind /\ p.code = c
    BY <1>1, <1>2, AnsweredType
  <1>4. req' = [req EXCEPT ![r] = p] /\ UNCHANGED <<backend, sdk, cached, loop>>
    BY DEF AnswerAtOnce, Answer
  <1>5. /\ p.kind = "ready" /\ backend = "openstack" /\ p.code = 200 => cached
        /\ p.code = 200 => p.kind = "health" \/ Installed
    BY <1>1, <1>2, <1>3 DEF AnswerAtOnce, Resumed, Answer, Sound, Installed
  <1>6. Sound(req[r])'
    BY <1>3, <1>4, <1>5 DEF Sound, Blamed, Remote, Failure, Installed, IInv, TypeOK
  <1>7. p.pc # "connect" /\ loop # r /\ cached' \in BOOLEAN /\ (cached => cached')
    BY <1>1, <1>3, <1>4, NotTheBlocker
  <1> HIDE DEF p
  <1> QED
    BY <1>3, <1>4, <1>6, <1>7, OneRequestStep

\* What raises in a thread leaves the loop and the cache as they are.
LEMMA FailIInv ==
  ASSUME IInv, NEW r \in Reqs, NEW STATE pc, pc \in {"resolved", "resume"},
         req[r].pc # "connect",
         pc = "resume" => req[r].pc = "calling",
         pc = "resolved" => req[r].kind = "vm",
         Remote(req[r]),
         req' = [req EXCEPT ![r] = Failed(@, pc)],
         UNCHANGED <<backend, sdk, cached, loop>>
  PROVE  IInv'
PROOF
  <1> DEFINE p == Failed(req[r], pc)
  <1>1. p \in Request /\ p.pc = pc /\ p.kind = req[r].kind /\ p.code \in {500, 502, 503}
        /\ p.code = Failure(req[r])
    BY FailedType DEF IInv, TypeOK
  <1>2. req' = [req EXCEPT ![r] = p]
    OBVIOUS
  <1>3. Sound(req[r])' /\ cached' \in BOOLEAN
    BY <1>1 DEF Sound, Blamed, Remote, Failure, Installed, IInv, TypeOK
  <1>4. p \in Request /\ p.pc # "connect" /\ loop # r
    BY <1>1, NotTheBlocker
  <1> HIDE DEF p
  <1> QED
    BY <1>2, <1>3, <1>4, OneRequestStep

LEMMA ConstructIInv ==
  ASSUME IInv, NEW r \in Reqs, Construct(r)
  PROVE  IInv'
PROOF
  <1> DEFINE p == To(req[r], "resolved")
  <1>1. req[r] \in Request /\ Sound(req[r]) /\ req[r].pc = "construct" /\ Installed
    BY DEF IInv, TypeOK, Construct, Installed
  <1>2. p \in Request /\ p.pc = "resolved" /\ p.code = req[r].code
    BY <1>1, MoveType DEF Points
  <1>3. req' = [req EXCEPT ![r] = p] /\ cached' = TRUE /\ UNCHANGED <<backend, sdk, loop>>
    BY DEF Construct
  <1>4. Sound(req[r])' /\ p.pc # "connect" /\ req[r].pc # "connect"
    BY <1>1, <1>2, <1>3 DEF Sound, Blamed, Remote, Failure, Installed, IInv, TypeOK
  <1> HIDE DEF p
  <1> QED
    BY <1>1, <1>2, <1>3, <1>4, OneRequestStep, NotTheBlocker

LEMMA CallAgainIInv ==
  ASSUME IInv, NEW r \in Reqs, CallAgain(r)
  PROVE  IInv'
PROOF
  <1> DEFINE p == Again(req[r])
  <1>1. req[r] \in Request /\ Sound(req[r]) /\ req[r].pc = "resume" /\ req[r].calls = 1
        /\ req[r].code = 0
    BY DEF IInv, TypeOK, CallAgain, Request
  <1>2. p \in Request /\ p.pc = "queued" /\ p.kind = req[r].kind /\ p.code = 0
    <2>1. req[r].calls - 1 \in 0..1 /\ "queued" \in Points
      BY <1>1 DEF Points
    <2> QED
      BY <1>1, <2>1 DEF Again, Request
  <1>3. req' = [req EXCEPT ![r] = p] /\ UNCHANGED <<backend, sdk, cached, loop>>
    BY DEF CallAgain
  <1>4. Sound(req[r])' /\ p.pc # "connect" /\ req[r].pc # "connect" /\ cached' \in BOOLEAN
    BY <1>1, <1>2, <1>3 DEF Sound, Blamed, Remote, Failure, Installed, IInv, TypeOK
  <1> HIDE DEF p
  <1> QED
    BY <1>2, <1>3, <1>4, OneRequestStep, NotTheBlocker

\* The probe takes the loop when the cache is cold, and goes on when it is not.
LEMMA ProbeIInv ==
  ASSUME IInv, NEW r \in Reqs, Probe(r)
  PROVE  IInv'
PROOF
  <1> DEFINE pc == IF cached THEN "queued" ELSE "connect"
             p == To(req[r], pc)
  <1>1. req[r] \in Request /\ Sound(req[r]) /\ req[r].pc = "resolved" /\ req[r].kind = "ready"
        /\ backend = "openstack" /\ loop = None /\ cached \in BOOLEAN /\ req[r].code = 0
    BY DEF IInv, TypeOK, Probe, Resumed, Sound
  <1>2. p \in Request /\ p.pc = pc /\ p.kind = "ready" /\ p.code = req[r].code
    BY <1>1, MoveType DEF Points
  <1>3. req' = [req EXCEPT ![r] = p] /\ UNCHANGED <<backend, sdk, cached>>
        /\ loop' = IF cached THEN None ELSE r
    BY DEF Probe
  <1>4. Sound(req[r])'
    BY <1>1, <1>2, <1>3 DEF Sound, Blamed, Remote, Failure, Installed, IInv, TypeOK
  <1>5. CASE cached
    <2>1. p.pc = "queued" /\ loop' = None
      BY <1>2, <1>3, <1>5
    <2> HIDE DEF p
    <2> QED
      BY <1>1, <1>2, <1>3, <1>4, <2>1, OneRequestStep
  <1>6. CASE ~cached
    <2>1. p.pc = "connect" /\ loop' = r
      BY <1>2, <1>3, <1>6
    <2> HIDE DEF p
    <2> QED
      BY <1>1, <1>2, <1>3, <1>4, <2>1, OneRequestStep
  <1> QED
    BY <1>1, <1>5, <1>6

\* Keystone has answered the probe, one way or the other.
LEMMA ConnectIInv ==
  ASSUME IInv, NEW r \in Reqs, Connect(r) \/ ConnectFails(r)
  PROVE  IInv'
PROOF
  <1>1. req[r] \in Request /\ Sound(req[r]) /\ loop = r /\ loop' = None /\ UNCHANGED <<backend, sdk>>
        /\ req[r].pc = "connect"
    BY DEF IInv, TypeOK, OneBlocker, Connect, ConnectFails
  <1>4. req[r].kind = "ready" /\ backend = "openstack" /\ req[r].code = 0
    BY <1>1 DEF IInv, OnlyProbesBlock, Sound
  <1>2. CASE Connect(r)
    <2> DEFINE p == To(req[r], "queued")
    <2>1. p \in Request /\ p.pc = "queued" /\ p.code = 0 /\ p.kind = "ready"
      BY <1>1, <1>4, MoveType DEF Points
    <2>2. req' = [req EXCEPT ![r] = p] /\ cached' = TRUE /\ Installed
      BY <1>2 DEF Connect, Installed
    <2>3. Sound(req[r])' /\ p.pc # "connect"
      BY <1>1, <1>4, <2>1, <2>2 DEF Sound, Blamed, Remote, Failure, Installed, IInv, TypeOK
    <2> HIDE DEF p
    <2> QED
      BY <1>1, <2>1, <2>2, <2>3, OneRequestStep
  <1>3. CASE ConnectFails(r)
    <2> DEFINE p == Answered(req[r], NotReady)
    <2>1. p \in Request /\ p.pc = "done" /\ p.code = NotReady /\ p.kind = "ready"
      BY <1>1, <1>4, AnsweredType
    <2>2. req' = [req EXCEPT ![r] = p] /\ UNCHANGED cached
      BY <1>3 DEF ConnectFails
    <2>3. Sound(req[r])' /\ p.pc # "connect" /\ cached' \in BOOLEAN
      BY <1>1, <1>4, <2>1, <2>2 DEF Sound, Blamed, Remote, Failure, Installed, NotReady, IInv, TypeOK
    <2> HIDE DEF p
    <2> QED
      BY <1>1, <2>1, <2>2, <2>3, OneRequestStep
  <1> QED
    BY <1>2, <1>3

LEMMA LeaveIInv ==
  ASSUME IInv, NEW r \in Reqs, Leave(r)
  PROVE  IInv'
PROOF
  <1>1. Idle \in Request /\ Idle.pc = "idle" /\ Idle.code = 0
    BY IdleType
  <1>2. req' = [req EXCEPT ![r] = Idle] /\ UNCHANGED <<backend, sdk, cached, loop>>
        /\ req[r].pc # "connect"
    BY DEF Leave
  <1>3. Sound(req[r])' /\ cached' \in BOOLEAN /\ Idle.pc # "connect"
    BY <1>1, <1>2 DEF Sound, Blamed, Remote, Failure, Installed, IInv, TypeOK
  <1> QED
    BY <1>1, <1>2, <1>3, OneRequestStep, NotTheBlocker

LEMMA RestartIInv ==
  ASSUME IInv, Restart
  PROVE  IInv'
PROOF
  <1>1. Idle \in Request /\ Idle.pc = "idle" /\ Idle.code = 0 /\ Idle.kind = "none"
    BY IdleType
  <1>2. req' \in [Reqs -> Request] /\ \A r \in Reqs : req'[r] = Idle
    BY <1>1 DEF Restart
  <1>3. TypeOK' /\ ~cached'
    BY <1>2 DEF Restart, IInv, TypeOK
  <1>4. OnlyProbesBlock' /\ OneBlocker'
    BY <1>1, <1>2 DEF Restart, OnlyProbesBlock, OneBlocker
  <1>5. \A r \in Reqs : Sound(req[r])'
    BY <1>1, <1>2 DEF Sound
  <1> QED
    BY <1>3, <1>4, <1>5 DEF IInv

\* The invariant is inductive.
LEMMA StepIInv == IInv /\ [Next]_vars => IInv'
PROOF
  <1> SUFFICES ASSUME IInv, [Next]_vars PROVE IInv'
    OBVIOUS
  <1>1. CASE UNCHANGED vars
    BY <1>1 DEF vars, IInv, TypeOK, OnlyProbesBlock, OneBlocker, Sound, Blamed, Remote, Failure,
             Installed
  <1>2. ASSUME NEW r \in Reqs, TakeThread(r) \/ Lookup(r) \/ TakeWorker(r) \/ CallReturns(r)
               \/ CallBackend(r)
        PROVE  IInv'
    <2>1. /\ req[r].code = 0
          /\ cached => Installed
          /\ req[r].pc \in {"queued", "calling", "resume"} => Remote(req[r]) /\ Installed
          /\ req[r].pc = "resolved" /\ req[r].kind = "vm" => Installed
      BY <1>2 DEF IInv, Sound, TakeThread, Lookup, TakeWorker, CallReturns, CallBackend
    <2>2. CASE TakeThread(r)
      BY <2>1, <2>2, PlainMoveIInv DEF TakeThread
    <2>3. CASE Lookup(r)
      BY <2>1, <2>3, PlainMoveIInv DEF Lookup
    <2>4. CASE TakeWorker(r)
      BY <2>1, <2>4, PlainMoveIInv DEF TakeWorker
    <2>5. CASE CallReturns(r)
      BY <2>1, <2>5, PlainMoveIInv DEF CallReturns
    <2>6. CASE CallBackend(r)
      BY <2>1, <2>6, PlainMoveIInv DEF CallBackend, Resumed, Remote
    <2> QED
      BY <1>2, <2>2, <2>3, <2>4, <2>5, <2>6
  <1>3. ASSUME NEW r \in Reqs, OnLoop(r) PROVE IInv'
    BY <1>2, <1>3, AnswerIInv, ProbeIInv, CallAgainIInv DEF OnLoop
  <1>4. ASSUME NEW r \in Reqs, Backend(r) PROVE IInv'
    <2>1. CASE ConstructFails(r)
      <3>1. Sound(req[r]) /\ req[r].pc = "construct" /\ backend # "mock"
        BY <2>1 DEF ConstructFails, IInv
      <3>2. req[r].kind = "vm" /\ Remote(req[r])
        BY <3>1 DEF Sound, Remote
      <3> QED
        BY <2>1, <3>1, <3>2, FailIInv DEF ConstructFails
    <2>2. CASE CallFails(r)
      BY <2>2, FailIInv DEF CallFails, IInv, Sound
    <2> QED
      BY <1>2, <1>4, <2>1, <2>2, ConstructIInv, ConnectIInv DEF Backend
  <1> QED
    BY <1>1, <1>2, <1>3, <1>4, ArriveIInv, LeaveIInv, RestartIInv DEF Next

\* Spec => []IInv: at any time, whatever failures, slow answers and restarts
\* came before.
THEOREM InvariantHolds == Spec => []IInv
PROOF
  <1> QED
    BY InitIInv, StepIInv, PTL DEF Spec

\* Spec => []TypeOK: the process stays in its states.
THEOREM TypeCorrect == Spec => []TypeOK
PROOF
  <1>1. IInv => TypeOK
    BY DEF IInv
  <1> QED
    BY <1>1, InvariantHolds, PTL

\* Spec => []OnlyProbesBlock: however many VM requests wait for the cloud, none
\* of them ever has the event loop; a readiness probe over OpenStack may.
THEOREM OnlyProbesBlockTheLoop == Spec => []OnlyProbesBlock
PROOF
  <1>1. IInv => OnlyProbesBlock
    BY DEF IInv
  <1> QED
    BY <1>1, InvariantHolds, PTL

\* Spec => []ReadyMeansConnected: a service whose probe says it is ready over
\* OpenStack has its connection, whichever request made it.
THEOREM ReadyIsConnected == Spec => []ReadyMeansConnected
PROOF
  <1>1. IInv => ReadyMeansConnected
    BY DEF IInv, Sound, ReadyMeansConnected, ReadyMeansConstructed
  <1> QED
    BY <1>1, InvariantHolds, PTL

\* Spec => []ErrorsNameTheirCause: an exception of a backend comes out as what
\* its handler makes of it, wherever it was raised, that of a missing SDK
\* included; a liveness probe has none.
THEOREM ErrorsAreNamed == Spec => []ErrorsNameTheirCause
PROOF
  <1>1. IInv => ErrorsNameTheirCause
    <2> SUFFICES ASSUME IInv, NEW r \in Reqs, req[r].code \in {200, 500, 502, NotReady}
                 PROVE  LET q == req[r] IN
                        /\ q.code = NotReady => q.kind = "ready" /\ backend = "openstack"
                        /\ q.code = 502 => q.kind = "vm" /\ sdk
                        /\ q.code = 500 => q.kind = "vm" /\ backend # "mock" /\ ~sdk
                        /\ q.code = 200 /\ backend = "openstack" => q.kind = "health" \/ sdk
      BY DEF ErrorsNameTheirCause
    <2>1. CASE req[r].code = 200
      BY <2>1 DEF IInv, Sound, Installed, NotReady
    <2>2. CASE req[r].code # 200
      <3>1. Remote(req[r]) /\ req[r].code = Failure(req[r])
        BY <2>2 DEF IInv, Sound, Blamed, NotReady
      <3>2. backend \in {"mock", "sqlite", "openstack"} /\ (sdk => backend = "openstack")
        BY DEF IInv, TypeOK
      <3> QED
        BY <2>2, <3>1, <3>2 DEF Remote, Failure, NotReady, ErrorCode
    <2> QED
      BY <2>1, <2>2
  <1> QED
    BY <1>1, InvariantHolds, PTL
----------------------------------------------------------------------------
\* A pool that is full has, if slow requests do not fill it, a request in it
\* that is not slow.
LEMMA FullPool ==
  ASSUME ReqsAssumption, NEW Pool \in SUBSET Reqs, NEW Slow \in SUBSET Reqs,
         NEW size \in Nat, Cardinality(Slow) < size, ~(Cardinality(Pool) < size)
  PROVE  \E r \in Pool : r \notin Slow
PROOF
  <1>1. IsFiniteSet(Pool) /\ IsFiniteSet(Slow)
    BY FS_Subset DEF ReqsAssumption
  <1>2. Cardinality(Pool) \in Nat /\ Cardinality(Slow) \in Nat
    BY <1>1, FS_CardinalityType
  <1>3. SUFFICES ASSUME Pool \subseteq Slow PROVE FALSE
    OBVIOUS
  <1>4. Cardinality(Pool) <= Cardinality(Slow)
    BY <1>1, <1>3, FS_Subset
  <1> QED
    BY <1>2, <1>4

\* Who keeps the event loop is served by Keystone, or is slow.
LEMMA LoopMovesOn ==
  ASSUME IInv, LeavesRoom, loop # None
  PROVE  \E r \in Reqs : InFlight(r) /\ ~req[r].slow /\ WaitsForNobody(r)
PROOF
  <1>1. loop \in Reqs /\ req[loop].pc = "connect"
    BY DEF IInv, TypeOK, OnlyProbesBlock
  <1>2. ~req[loop].slow
    BY <1>1 DEF LeavesRoom
  <1> QED
    BY <1>1, <1>2 DEF InFlight, WaitsForNobody

\* With the event loop free, what holds a thread is not waiting for one.
LEMMA ThreadsMoveOn ==
  ASSUME IInv, LeavesRoom, loop = None,
         NEW r \in Reqs, InFlight(r), ~req[r].slow
  PROVE  \E q \in Reqs : InFlight(q) /\ ~req[q].slow /\ WaitsForNobody(q)
PROOF
  <1> DEFINE Slow == {s \in Reqs : req[s].slow}
  <1>1. Tokens \in Nat /\ Workers \in Nat /\ Cardinality(Slow) < Tokens /\ Cardinality(Slow) < Workers
    BY PoolsAssumption DEF LeavesRoom
  <1>2. Slow \in SUBSET Reqs /\ Resolving \in SUBSET Reqs /\ Calling \in SUBSET Reqs
    BY DEF Resolving, Calling, At
  <1>3. req[r].pc \in Points \ {"idle", "done"}
    BY DEF IInv, TypeOK, Request, InFlight
  <1>4. CASE req[r].pc = "depends" /\ ~(Cardinality(Resolving) < Tokens)
    <2> HIDE DEF Slow
    <2>1. PICK q \in Resolving : q \notin Slow
      BY <1>1, <1>2, <1>4, FullPool, ReqsAssumption
    <2>2. q \in Reqs /\ ~req[q].slow /\ req[q].pc \in {"resolve", "construct", "resolved"}
      BY <2>1 DEF Slow, Resolving, At
    <2> QED
      BY <2>2 DEF InFlight, WaitsForNobody
  <1>5. CASE req[r].pc = "queued" /\ ~(Cardinality(Calling) < Workers)
    <2> HIDE DEF Slow
    <2>1. PICK q \in Calling : q \notin Slow
      BY <1>1, <1>2, <1>5, FullPool, ReqsAssumption
    <2>2. q \in Reqs /\ ~req[q].slow /\ req[q].pc = "calling"
      BY <2>1 DEF Slow, Calling, At
    <2> QED
      BY <2>2 DEF InFlight, WaitsForNobody
  <1> QED
    BY <1>3, <1>4, <1>5 DEF Points, WaitsForNobody

\* Spec => []NoGridlock: for pools of any size and any number of requests,
\* there is always one that no other request keeps from going on, as long as
\* those that the cloud leaves waiting do not fill a pool.
THEOREM NobodyGridlocked == Spec => []NoGridlock
PROOF
  <1>1. IInv => NoGridlock
    BY LoopMovesOn, ThreadsMoveOn DEF NoGridlock
  <1> QED
    BY <1>1, InvariantHolds, PTL
=============================================================================
