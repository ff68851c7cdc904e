---------------------- MODULE RepositoryProviderProofs ----------------------
(***************************************************************************)
(* What RepositoryProvider guarantees for any number of requests, VMs and  *)
(* repositories.  The argument is IInv: a VM has one home, the repository  *)
(* its create was given, and as long as no two constructions have          *)
(* overlapped that is the cached one.  The refinement of VMLifecycle needs *)
(* the home alone, so it holds after a race as well.                       *)
(***************************************************************************)
EXTENDS RepositoryProvider, TLAPS

USE NoneAssumption

\* A step of one request that leaves the repositories and their VMs alone.
LEMMA RequestStep ==
  ASSUME IInv, NEW r \in Reqs, NEW STATE p, p \in Request,
         req' = [req EXCEPT ![r] = p],
         UNCHANGED <<cached, living, store, due>>,
         raced' \in BOOLEAN,
         Knows(p),
         Alone'
  PROVE  IInv'
PROOF
  <1>1. req'[r] = p /\ \A q \in Reqs \ {r} : req'[q] = req[q]
    BY DEF IInv, TypeOK
  <1>2. TypeOK'
    BY DEF IInv, TypeOK
  <1>3. OneHome' /\ DueBorn'
    BY DEF IInv, OneHome, DueBorn, Fresh
  <1>4. \A q \in Reqs : Knows(req[q])'
    BY <1>1 DEF IInv, Knows
  <1> QED
    BY <1>2, <1>3, <1>4 DEF IInv

\* Alone does not mind a request that does not start to construct.
LEMMA StaysAlone ==
  ASSUME IInv, NEW r \in Reqs, NEW STATE p, p \in Request, p.pc # "construct",
         req' = [req EXCEPT ![r] = p],
         UNCHANGED <<cached, living, raced>>
  PROVE  Alone'
PROOF
  <1>1. Constructing' \subseteq Constructing
    BY DEF Constructing, IInv, TypeOK
  <1> QED
    BY <1>1 DEF IInv, Alone

\* What the life cycle allows one VM, its birth and the end of BUILD apart.
Moves(old, new) ==
  \/ new = old
  \/ old = "STOPPED" /\ new = "ACTIVE"
  \/ old = "ACTIVE" /\ new = "STOPPED"
  \/ old \in {"ACTIVE", "STOPPED"} /\ new = "gone"

\* What a handler may write in the place of v in repository s.
Writes(s, v, row) ==
  \/ Fresh(v) /\ row = "BUILD"
  \/ /\ row = "none" <=> store[s][v] = "none"
     /\ Moves(Resolved(store[s][v], v \in due), Resolved(row, v \in due))

LEMMA IdleType == Idle \in Request /\ Knows(Idle)
BY DEF Idle, Request, Knows
----------------------------------------------------------------------------
\* What an operation of the mock backend does to the record it finds: nothing
\* to one it does not find, and to another what the life cycle allows once
\* _resolve_build has been applied.
LEMMA CallShape ==
  ASSUME NEW op \in Ops, NEW row \in LocalStatus \cup Absent, NEW elapsed \in BOOLEAN
  PROVE  LET out == Call(op, row, elapsed) IN
         /\ out.row \in LocalStatus \cup Absent
         /\ out.code \in Codes
         /\ op = "create" => out.row = "BUILD"
         /\ op # "create" =>
              /\ out.row = "none" <=> row = "none"
              /\ Moves(Resolved(row, elapsed), Resolved(out.row, elapsed))
PROOF
  <1> DEFINE out == Call(op, row, elapsed)
             s == Resolved(row, elapsed)
  <1>1. CASE op = "create"
    <2>1. out = [row |-> "BUILD", code |-> 201, shown |-> "BUILD"]
      BY <1>1 DEF Call, Created, Outcome, SuccessCode
    <2> QED
      BY <1>1, <2>1 DEF LocalStatus, Codes
  <1>2. CASE op # "create" /\ row \in Absent
    <2>1. out = [row |-> row, code |-> 404, shown |-> "none"]
      BY <1>2 DEF Call, Outcome, ErrorCode
    <2> QED
      BY <1>2, <2>1 DEF Codes, Moves
  <1>3. CASE op # "create" /\ row \notin Absent
    <2>1. row \in LocalStatus /\ s \in LocalStatus /\ (s = "BUILD" => ~elapsed)
          /\ row # "none"
      BY <1>3 DEF Resolved, LocalStatus, Absent
    <2>2. out = OnRecord(op, s)
      BY <1>3 DEF Call
    <2>3. Resolved(s, elapsed) = s /\ Resolved("ACTIVE", elapsed) = "ACTIVE"
          /\ Resolved("STOPPED", elapsed) = "STOPPED" /\ Resolved("gone", elapsed) = "gone"
      BY <2>1 DEF Resolved
    <2>4. CASE op = "get"
      <3>1. out.row = s /\ out.code = 200
        BY <2>2, <2>4 DEF OnRecord, Outcome, SuccessCode
      <3> QED
        BY <1>3, <2>1, <2>3, <3>1 DEF LocalStatus, Codes, Moves
    <2>5. CASE op = "delete"
      <3>1. \/ s = "BUILD" /\ out.row = s /\ out.code = 422
            \/ s # "BUILD" /\ out.row = "gone" /\ out.code = 204
        BY <2>2, <2>5 DEF OnRecord, DeleteRefused, Outcome, SuccessCode, ErrorCode
      <3> QED
        BY <1>3, <2>1, <2>3, <3>1 DEF LocalStatus, Absent, Codes, Moves
    <2>6. CASE op \in {"start", "stop"}
      <3>1. \/ s # Source[op] /\ out.row = s /\ out.code = 422
            \/ s = Source[op] /\ out.row = Target[op] /\ out.code = 200
        BY <2>2, <2>6 DEF OnRecord, Outcome, SuccessCode, ErrorCode
      <3>2. \/ Source[op] = "STOPPED" /\ Target[op] = "ACTIVE"
            \/ Source[op] = "ACTIVE" /\ Target[op] = "STOPPED"
        BY <2>6 DEF Source, Target
      <3> QED
        BY <1>3, <2>1, <2>3, <3>1, <3>2 DEF LocalStatus, Codes, Moves
    <2> QED
      BY <1>3, <2>4, <2>5, <2>6 DEF Ops
  <1> QED
    BY <1>1, <1>2, <1>3

\* What a handler does, seen from outside: one row of one repository.
LEMMA HandleShape ==
  ASSUME IInv, NEW r \in Reqs, Handle(r)
  PROVE  \E v \in Ids, s \in living, row \in LocalStatus \cup Absent, code \in Codes :
           /\ store' = [store EXCEPT ![s] = [store[s] EXCEPT ![v] = row]]
           /\ req' = [req EXCEPT ![r] = [req[r] EXCEPT !.pc = "done", !.vm = v, !.code = code]]
           /\ UNCHANGED <<cached, living, due, raced>>
           /\ Writes(s, v, row)
PROOF
  <1> DEFINE q == req[r]
  <1>1. q \in Request /\ Knows(q) /\ q.pc = "handle" /\ q.op \in Ops /\ q.repo \in living
        /\ q.repo \in Stores
    BY DEF IInv, TypeOK, Handle, Knows
  <1>2. PICK v \in Ids :
          LET out == Call(q.op, store[q.repo][v], v \in due) IN
          /\ IF q.op = "create" THEN Fresh(v) ELSE v = q.vm
          /\ store' = [store EXCEPT ![q.repo][v] = out.row]
          /\ req' = [req EXCEPT ![r].pc = "done", ![r].vm = v, ![r].code = out.code]
    BY DEF Handle
  <1>3. UNCHANGED <<cached, living, due, raced>>
    BY DEF Handle
  <1>4. store[q.repo][v] \in LocalStatus \cup Absent
    BY <1>1 DEF IInv, TypeOK
  <1> DEFINE s == q.repo
             e == v \in due
             out == Call(q.op, store[s][v], e)
  <1>5. e \in BOOLEAN
    OBVIOUS
  <1> HIDE DEF e, out
  <1>6. /\ out.row \in LocalStatus \cup Absent /\ out.code \in Codes
        /\ q.op = "create" => out.row = "BUILD"
        /\ q.op # "create" =>
             /\ out.row = "none" <=> store[s][v] = "none"
             /\ Moves(Resolved(store[s][v], e), Resolved(out.row, e))
    <2> DEFINE old == store[s][v]
               op == q.op
    <2>1. op \in Ops /\ old \in LocalStatus \cup Absent
      BY <1>1, <1>4
    <2> HIDE DEF old, op
    <2> QED
      BY <1>5, <2>1, CallShape DEF out, old, op
  <1>7. Writes(s, v, out.row)
    BY <1>2, <1>6 DEF Writes, e
  <1>8. /\ store' = [store EXCEPT ![s] = [store[s] EXCEPT ![v] = out.row]]
        /\ req' = [req EXCEPT ![r] = [req[r] EXCEPT !.pc = "done", !.vm = v, !.code = out.code]]
    BY <1>1, <1>2 DEF IInv, TypeOK, out, e
  <1> QED
    BY <1>1, <1>3, <1>6, <1>7, <1>8
----------------------------------------------------------------------------
LEMMA InitIInv == Init => IInv
PROOF
  <1> SUFFICES ASSUME Init PROVE IInv
    OBVIOUS
  <1>1. TypeOK /\ OneHome /\ DueBorn
    BY IdleType DEF Init, TypeOK, OneHome, DueBorn, Absent
  <1>2. \A r \in Reqs : Knows(req[r])
    BY IdleType DEF Init
  <1>3. Constructing = {}
    BY DEF Init, Constructing, Idle
  <1> QED
    BY <1>1, <1>2, <1>3 DEF Init, IInv, Alone

LEMMA ReceiveIInv ==
  ASSUME IInv, NEW r \in Reqs, NEW op \in Ops, NEW v \in Ids \cup {None}, Receive(r, op, v)
  PROVE  IInv'
PROOF
  <1> DEFINE p == [Idle EXCEPT !.op = op, !.vm = v, !.pc = "depends"]
  <1>1. p \in Request /\ p.op = op /\ p.vm = v /\ p.pc = "depends"
    BY DEF Idle, Request
  <1>2. Knows(p)
    BY <1>1 DEF Knows, Receive
  <1>3. req' = [req EXCEPT ![r] = p] /\ UNCHANGED <<cached, living, store, due, raced>>
    BY DEF Receive
  <1> HIDE DEF p
  <1>4. Alone'
    BY <1>1, <1>3, StaysAlone
  <1> QED
    BY <1>1, <1>2, <1>3, <1>4, RequestStep DEF IInv, TypeOK

LEMMA HitIInv ==
  ASSUME IInv, NEW r \in Reqs, Hit(r)
  PROVE  IInv'
PROOF
  <1> DEFINE p == [req[r] EXCEPT !.pc = "handle", !.repo = cached]
  <1>1. req[r] \in Request /\ Knows(req[r]) /\ req[r].pc = "depends"
        /\ cached \in living /\ cached \in Stores
    BY DEF IInv, TypeOK, Hit
  <1>2. p \in Request /\ p.op = req[r].op /\ p.vm = req[r].vm /\ p.pc = "handle"
        /\ p.repo = cached
    BY <1>1 DEF Request
  <1>3. Knows(p)
    BY <1>1, <1>2 DEF Knows
  <1>4. req' = [req EXCEPT ![r] = p] /\ UNCHANGED <<cached, living, store, due, raced>>
    BY DEF Hit, IInv, TypeOK
  <1> HIDE DEF p
  <1>5. Alone'
    BY <1>2, <1>4, StaysAlone
  <1> QED
    BY <1>2, <1>3, <1>4, <1>5, RequestStep DEF IInv, TypeOK

\* A miss while another constructs is what raced remembers.
LEMMA MissIInv ==
  ASSUME IInv, NEW r \in Reqs, Miss(r)
  PROVE  IInv'
PROOF
  <1> DEFINE p == [req[r] EXCEPT !.pc = "construct"]
  <1>1. req[r] \in Request /\ Knows(req[r]) /\ req[r].pc = "depends" /\ cached = None
        /\ raced \in BOOLEAN
    BY DEF IInv, TypeOK, Miss
  <1>2. p \in Request /\ p.op = req[r].op /\ p.vm = req[r].vm /\ p.pc = "construct"
    BY <1>1 DEF Request
  <1>3. Knows(p)
    BY <1>1, <1>2 DEF Knows
  <1>4. req' = [req EXCEPT ![r] = p] /\ UNCHANGED <<cached, living, store, due>>
    BY DEF Miss, IInv, TypeOK
  <1>5. raced' = (raced \/ Constructing # {})
    BY DEF Miss
  <1> HIDE DEF p
  <1>6. Alone'
    <2> SUFFICES ASSUME ~raced' PROVE Alone'
      BY DEF Alone
    <2>1. ~raced /\ Constructing = {}
      BY <1>5
    <2>2. Constructing' \subseteq {r}
      BY <1>4, <2>1 DEF Constructing, IInv, TypeOK
    <2> QED
      BY <1>1, <1>4, <2>1, <2>2 DEF IInv, Alone
  <1>7. raced' \in BOOLEAN
    BY <1>1, <1>5
  <1> QED
    BY <1>2, <1>3, <1>4, <1>6, <1>7, RequestStep

LEMMA ConstructIInv ==
  ASSUME IInv, NEW r \in Reqs, Construct(r)
  PROVE  IInv'
PROOF
  <1>1. PICK s \in Unused :
          /\ living' = living \cup {s}
          /\ cached' = s
          /\ req' = [req EXCEPT ![r].pc = "handle", ![r].repo = s]
    BY DEF Construct
  <1> DEFINE p == [req[r] EXCEPT !.pc = "handle", !.repo = s]
  <1>2. req[r] \in Request /\ Knows(req[r]) /\ req[r].pc = "construct" /\ s \in Stores
    BY <1>1 DEF IInv, TypeOK, Construct, Unused
  <1>3. p \in Request /\ p.op = req[r].op /\ p.vm = req[r].vm /\ p.pc = "handle" /\ p.repo = s
    BY <1>2 DEF Request
  <1>4. req' = [req EXCEPT ![r] = p] /\ UNCHANGED <<store, due, raced>>
    BY <1>1 DEF Construct, IInv, TypeOK
  <1> HIDE DEF p
  <1>5. req'[r] = p /\ \A q \in Reqs \ {r} : req'[q] = req[q]
    BY <1>4 DEF IInv, TypeOK
  <1>6. TypeOK'
    BY <1>1, <1>2, <1>3, <1>4 DEF IInv, TypeOK
  <1>7. OneHome' /\ DueBorn'
    BY <1>4 DEF IInv, OneHome, DueBorn, Fresh
  <1>8. \A q \in Reqs : Knows(req[q])'
    <2>1. ASSUME NEW q \in Reqs, q # r PROVE Knows(req[q])'
      <3>1. Knows(req[q]) /\ req'[q] = req[q] /\ living \subseteq living'
        BY <1>1, <1>5, <2>1 DEF IInv
      <3> QED
        BY <3>1 DEF Knows
    <2>2. Knows(req[r])'
      BY <1>1, <1>2, <1>3, <1>5 DEF Knows
    <2> QED
      BY <2>1, <2>2
  <1>9. Alone'
    <2> SUFFICES ASSUME ~raced PROVE Alone'
      BY <1>4 DEF Alone
    <2>1. r \in Constructing
      BY <1>2 DEF Constructing
    <2>2. Constructing = {r} /\ cached = None
      BY <2>1 DEF IInv, Alone
    <2>3. living = {}
      BY <2>2 DEF IInv, TypeOK, Alone
    <2>4. Constructing' = {}
      BY <1>3, <1>5, <2>2 DEF Constructing
    <2> QED
      BY <1>1, <2>3, <2>4 DEF Alone
  <1> QED
    BY <1>6, <1>7, <1>8, <1>9 DEF IInv

LEMMA HandleIInv ==
  ASSUME IInv, NEW r \in Reqs, Handle(r)
  PROVE  IInv'
PROOF
  <1>1. PICK v \in Ids, s \in living, row \in LocalStatus \cup Absent, code \in Codes :
          /\ store' = [store EXCEPT ![s] = [store[s] EXCEPT ![v] = row]]
          /\ req' = [req EXCEPT ![r] = [req[r] EXCEPT !.pc = "done", !.vm = v, !.code = code]]
          /\ UNCHANGED <<cached, living, due, raced>>
          /\ Writes(s, v, row)
    BY HandleShape
  <1> DEFINE p == [req[r] EXCEPT !.pc = "done", !.vm = v, !.code = code]
  <1>2. req[r] \in Request /\ Knows(req[r]) /\ req[r].pc = "handle" /\ s \in Stores
    BY DEF IInv, TypeOK, Handle
  <1>3. p \in Request /\ p.op = req[r].op /\ p.pc = "done"
    BY <1>2 DEF Request
  <1>4. req' = [req EXCEPT ![r] = p]
    BY <1>1
  <1> HIDE DEF p
  <1>5. req'[r] = p /\ \A q \in Reqs \ {r} : req'[q] = req[q]
    BY <1>4 DEF IInv, TypeOK
  <1>6. /\ store' \in [Stores -> [Ids -> LocalStatus \cup Absent]]
        /\ store'[s][v] = row
        /\ \A t \in Stores, w \in Ids : t # s \/ w # v => store'[t][w] = store[t][w]
    <2>1. store[s] \in [Ids -> LocalStatus \cup Absent]
      BY <1>2 DEF IInv, TypeOK
    <2> DEFINE rows == [store[s] EXCEPT ![v] = row]
    <2>2. /\ rows \in [Ids -> LocalStatus \cup Absent] /\ rows[v] = row
          /\ \A w \in Ids \ {v} : rows[w] = store[s][w]
      BY <2>1
    <2>3. store' = [store EXCEPT ![s] = rows]
      BY <1>1
    <2> HIDE DEF rows
    <2> QED
      BY <1>2, <2>2, <2>3 DEF IInv, TypeOK
  <1>7. TypeOK'
    BY <1>1, <1>3, <1>4, <1>6 DEF IInv, TypeOK
  <1>8. OneHome'
    BY <1>1, <1>2, <1>6 DEF IInv, OneHome, Fresh, Writes
  <1>9. DueBorn'
    <2> SUFFICES ASSUME NEW w \in due PROVE ~Fresh(w)'
      BY <1>1 DEF DueBorn
    <2>1. w \in Ids /\ ~Fresh(w)
      BY DEF IInv, TypeOK, DueBorn
    <2>2. PICK t \in Stores : store[t][w] # "none"
      BY <2>1 DEF Fresh
    <2>3. store'[t][w] # "none"
      BY <1>1, <1>2, <1>6, <2>1, <2>2 DEF Writes, Fresh
    <2> QED
      BY <2>3 DEF Fresh
  <1>10. \A q \in Reqs : Knows(req[q])'
    <2>1. ASSUME NEW q \in Reqs, q # r PROVE Knows(req[q])'
      BY <1>1, <1>5, <2>1 DEF IInv, Knows
    <2>2. Knows(req[r])'
      BY <1>2, <1>3, <1>5 DEF Knows
    <2> QED
      BY <2>1, <2>2
  <1>11. Alone'
    BY <1>1, <1>3, <1>4, StaysAlone
  <1> QED
    BY <1>7, <1>8, <1>9, <1>10, <1>11 DEF IInv

LEMMA RespondIInv ==
  ASSUME IInv, NEW r \in Reqs, Respond(r)
  PROVE  IInv'
PROOF
  <1>1. req' = [req EXCEPT ![r] = Idle] /\ UNCHANGED <<cached, living, store, due, raced>>
    BY DEF Respond
  <1>2. Idle.pc # "construct"
    BY DEF Idle
  <1>3. Alone'
    BY <1>1, <1>2, IdleType, StaysAlone
  <1> QED
    BY <1>1, <1>3, IdleType, RequestStep DEF IInv, TypeOK

LEMMA RestartIInv ==
  ASSUME IInv, Restart
  PROVE  IInv'
PROOF
  <1>1. cached' = None /\ living' = {} /\ raced' = FALSE /\ req' = [r \in Reqs |-> Idle]
        /\ UNCHANGED <<store, due>>
    BY DEF Restart
  <1>2. TypeOK' /\ OneHome' /\ DueBorn'
    BY <1>1, IdleType DEF IInv, TypeOK, OneHome, DueBorn, Fresh
  <1>3. \A r \in Reqs : Knows(req[r])'
    BY <1>1 DEF Idle, Knows
  <1>4. Constructing' = {}
    BY <1>1 DEF Constructing, Idle
  <1> QED
    BY <1>1, <1>2, <1>3, <1>4 DEF IInv, Alone

LEMMA ElapseIInv ==
  ASSUME IInv, NEW v \in Ids, Elapse(v)
  PROVE  IInv'
PROOF
  <1>1. due' = due \cup {v} /\ ~Fresh(v) /\ UNCHANGED <<cached, living, store, req, raced>>
    BY DEF Elapse
  <1>2. TypeOK' /\ OneHome' /\ DueBorn'
    BY <1>1 DEF IInv, TypeOK, OneHome, DueBorn, Fresh
  <1> QED
    BY <1>1, <1>2 DEF IInv, Knows, Alone, Constructing

\* The invariant is inductive.
LEMMA StepIInv == IInv /\ [Next]_vars => IInv'
PROOF
  <1> SUFFICES ASSUME IInv, [Next]_vars PROVE IInv'
    OBVIOUS
  <1>1. CASE UNCHANGED vars
    BY <1>1 DEF vars, IInv, TypeOK, OneHome, DueBorn, Fresh, Knows, Alone, Constructing
  <1> QED
    BY <1>1, ReceiveIInv, HitIInv, MissIInv, ConstructIInv, HandleIInv, RespondIInv,
       RestartIInv, ElapseIInv DEF Next

\* Spec => []IInv: whatever threads raced and however often the process died.
THEOREM InvariantHolds == Spec => []IInv
PROOF
  <1> QED
    BY InitIInv, StepIInv, PTL DEF Spec

\* Spec => []TypeOK: the provider stays in its states.
THEOREM TypeCorrect == Spec => []TypeOK
PROOF
  <1>1. IInv => TypeOK
    BY DEF IInv
  <1> QED
    BY <1>1, InvariantHolds, PTL

\* Spec => []ReachableUnlessRaced: overlapping constructions are the only way to
\* lose sight of a VM while the process lives.
THEOREM ReachableWithoutRace == Spec => []ReachableUnlessRaced
PROOF
  <1>1. IInv => ReachableUnlessRaced
    BY DEF IInv, Alone, ReachableUnlessRaced
  <1> QED
    BY <1>1, InvariantHolds, PTL
----------------------------------------------------------------------------
\* The status of a VM is that of its record in its home.
LEMMA StatusAtHome ==
  ASSUME OneHome, NEW v \in Ids, NEW s \in Stores, store[s][v] # "none"
  PROVE  Status(v) = Resolved(store[s][v], v \in due)
PROOF
  <1>1. ~Fresh(v)
    BY DEF Fresh
  <1>2. (CHOOSE t \in Stores : store[t][v] # "none") = s
    BY DEF OneHome
  <1> QED
    BY <1>1, <1>2 DEF Status

LEMMA StatusAtHomeNext ==
  ASSUME OneHome', NEW v \in Ids, NEW s \in Stores, store'[s][v] # "none"
  PROVE  Status(v)' = Resolved(store'[s][v], v \in due')
PROOF
  <1>1. ~Fresh(v)'
    BY DEF Fresh
  <1>2. (CHOOSE t \in Stores : store'[t][v] # "none") = s
    BY DEF OneHome
  <1> QED
    BY <1>1, <1>2 DEF Status

LEMMA StatusOfFresh ==
  ASSUME NEW v \in Ids, Fresh(v)
  PROVE  Status(v) = "none"
BY DEF Status

\* A VM whose record and whose delay stay as they are keeps its status.
LEMMA StatusKept ==
  ASSUME IInv, IInv', NEW v \in Ids,
         \A s \in Stores : store'[s][v] = store[s][v],
         v \in due' <=> v \in due
  PROVE  Status(v)' = Status(v)
PROOF
  <1>1. CASE Fresh(v)
    BY <1>1 DEF Status, Fresh
  <1>2. CASE ~Fresh(v)
    <2>1. PICK s \in Stores : store[s][v] # "none"
      BY <1>2 DEF Fresh
    <2>2. Status(v) = Resolved(store[s][v], v \in due)
      BY <2>1, StatusAtHome DEF IInv
    <2>3. Status(v)' = Resolved(store'[s][v], v \in due')
      BY <2>1, StatusAtHomeNext DEF IInv
    <2> QED
      BY <2>2, <2>3 DEF Resolved
  <1> QED
    BY <1>1, <1>2

\* One VM moves along the life cycle, or none does.
LEMMA OneMoves ==
  ASSUME NEW v \in Ids,
         \A w \in Ids \ {v} : Status(w)' = Status(w),
         \/ Status(v)' = Status(v)
         \/ Status(v) = "none" /\ Status(v)' = "BUILD"
         \/ Status(v) = "BUILD" /\ Status(v)' = "ACTIVE"
         \/ Status(v) = "STOPPED" /\ Status(v)' = "ACTIVE"
         \/ Status(v) = "ACTIVE" /\ Status(v)' = "STOPPED"
         \/ Status(v) \in {"ACTIVE", "STOPPED"} /\ Status(v)' = "gone"
  PROVE  [Lifecycle!Next]_Statuses
PROOF
  <1>1. Statuses' = [w \in Ids |-> Status(w)'] /\ Statuses = [w \in Ids |-> Status(w)]
    BY DEF Statuses
  <1>2. CASE Status(v)' = Status(v)
    BY <1>1, <1>2
  <1>3. Statuses' = [Statuses EXCEPT ![v] = Status(v)'] /\ Statuses[v] = Status(v)
    BY <1>1
  <1>4. CASE Status(v) = "none" /\ Status(v)' = "BUILD"
    BY <1>3, <1>4 DEF Lifecycle!Next, Lifecycle!CreateVM, Lifecycle!Move
  <1>5. CASE Status(v) = "BUILD" /\ Status(v)' = "ACTIVE"
    BY <1>3, <1>5 DEF Lifecycle!Next, Lifecycle!FinishBuild, Lifecycle!Move
  <1>6. CASE Status(v) = "STOPPED" /\ Status(v)' = "ACTIVE"
    BY <1>3, <1>6 DEF Lifecycle!Next, Lifecycle!StartVM, Lifecycle!Move
  <1>7. CASE Status(v) = "ACTIVE" /\ Status(v)' = "STOPPED"
    BY <1>3, <1>7 DEF Lifecycle!Next, Lifecycle!StopVM, Lifecycle!Move
  <1>8. CASE Status(v) \in {"ACTIVE", "STOPPED"} /\ Status(v)' = "gone"
    BY <1>3, <1>8 DEF Lifecycle!Next, Lifecycle!DeleteVM, Lifecycle!Move
  <1> QED
    BY <1>2, <1>4, <1>5, <1>6, <1>7, <1>8

LEMMA HandleRefines ==
  ASSUME IInv, IInv', NEW r \in Reqs, Handle(r)
  PROVE  [Lifecycle!Next]_Statuses
PROOF
  <1>1. PICK v \in Ids, s \in living, row \in LocalStatus \cup Absent, code \in Codes :
          /\ store' = [store EXCEPT ![s] = [store[s] EXCEPT ![v] = row]]
          /\ req' = [req EXCEPT ![r] = [req[r] EXCEPT !.pc = "done", !.vm = v, !.code = code]]
          /\ UNCHANGED <<cached, living, due, raced>>
          /\ Writes(s, v, row)
    BY HandleShape
  <1>2. s \in Stores
    BY DEF IInv, TypeOK
  <1>3. /\ store'[s][v] = row
        /\ \A t \in Stores, w \in Ids : t # s \/ w # v => store'[t][w] = store[t][w]
    BY <1>1, <1>2 DEF IInv, TypeOK
  <1>4. \A w \in Ids \ {v} : Status(w)' = Status(w)
    BY <1>1, <1>3, StatusKept
  <1>5. CASE Fresh(v) /\ row = "BUILD"
    <2>1. Status(v) = "none" /\ v \notin due
      BY <1>5, StatusOfFresh DEF IInv, DueBorn
    <2>2. Status(v)' = Resolved("BUILD", v \in due')
      BY <1>2, <1>3, <1>5, StatusAtHomeNext DEF IInv
    <2>3. Status(v)' = "BUILD"
      BY <1>1, <2>1, <2>2 DEF Resolved
    <2> QED
      BY <1>4, <2>1, <2>3, OneMoves
  <1>6. CASE row = "none" /\ store[s][v] = "none"
    <2>1. Status(v)' = Status(v)
      BY <1>1, <1>3, <1>6, StatusKept
    <2> QED
      BY <1>4, <2>1, OneMoves
  <1>7. CASE row # "none" /\ store[s][v] # "none"
    <2>1. Status(v) = Resolved(store[s][v], v \in due)
      BY <1>2, <1>7, StatusAtHome DEF IInv
    <2>2. Status(v)' = Resolved(row, v \in due)
      <3>1. Status(v)' = Resolved(store'[s][v], v \in due')
        BY <1>2, <1>3, <1>7, StatusAtHomeNext DEF IInv
      <3> QED
        BY <1>1, <1>3, <3>1
    <2>3. Moves(Status(v), Status(v)')
      BY <1>1, <1>2, <1>7, <2>1, <2>2 DEF Writes, Fresh
    <2> QED
      BY <1>4, <2>3, OneMoves DEF Moves
  <1> QED
    BY <1>1, <1>5, <1>6, <1>7 DEF Writes

\* Time passing is a move of the life cycle by itself: the read that would tell
\* the end of BUILD need not come.
LEMMA ElapseRefines ==
  ASSUME IInv, IInv', NEW v \in Ids, Elapse(v)
  PROVE  [Lifecycle!Next]_Statuses
PROOF
  <1>1. store' = store /\ due' = due \cup {v} /\ v \notin due /\ ~Fresh(v)
    BY DEF Elapse
  <1>2. \A w \in Ids \ {v} : Status(w)' = Status(w)
    BY <1>1, StatusKept
  <1>3. PICK s \in Stores : store[s][v] # "none"
    BY <1>1 DEF Fresh
  <1>4. Status(v) = store[s][v]
    <2>1. Status(v) = Resolved(store[s][v], v \in due)
      BY <1>3, StatusAtHome DEF IInv
    <2> QED
      BY <1>1, <2>1 DEF Resolved
  <1>5. Status(v)' = IF store[s][v] = "BUILD" THEN "ACTIVE" ELSE store[s][v]
    <2>1. Status(v)' = Resolved(store'[s][v], v \in due')
      BY <1>1, <1>3, StatusAtHomeNext DEF IInv
    <2> QED
      BY <1>1, <2>1 DEF Resolved
  <1> QED
    BY <1>2, <1>4, <1>5, OneMoves

LEMMA StepRefines == IInv /\ IInv' /\ [Next]_vars => [Lifecycle!Next]_Statuses
PROOF
  <1> SUFFICES ASSUME IInv, IInv', [Next]_vars PROVE [Lifecycle!Next]_Statuses
    OBVIOUS
  <1>1. ASSUME UNCHANGED <<store, due>> PROVE UNCHANGED Statuses
    BY <1>1 DEF Statuses, Status, Fresh
  <1>2. ASSUME NEW r \in Reqs, Hit(r) \/ Miss(r) \/ Construct(r) \/ Respond(r)
        PROVE  UNCHANGED <<store, due>>
    BY <1>2 DEF Hit, Miss, Construct, Respond
  <1>3. ASSUME NEW r \in Reqs, NEW op \in Ops, NEW v \in Ids \cup {None}, Receive(r, op, v)
        PROVE  UNCHANGED <<store, due>>
    BY <1>3 DEF Receive
  <1>4. ASSUME Restart \/ UNCHANGED vars PROVE UNCHANGED <<store, due>>
    BY <1>4 DEF Restart, vars
  <1> QED
    BY <1>1, <1>2, <1>3, <1>4, HandleRefines, ElapseRefines DEF Next

\* RepositoryProvider over MockRepository implements VMLifecycle: even requests
\* that were given different repositories never take a VM off its life cycle,
\* and a lazy end of BUILD cannot be told from a prompt one.
THEOREM ImplementsLifecycle == Spec => RefinesLifecycle
PROOF
  <1>1. Init => Lifecycle!Init
    BY DEF Init, Lifecycle!Init, Statuses, Status, Fresh
  <1> QED
    BY <1>1, StepRefines, InvariantHolds, PTL DEF Spec, RefinesLifecycle, Lifecycle!Spec
----------------------------------------------------------------------------
\* The mock answers a record whose delay has elapsed as it answers one that is
\* ACTIVE, and leaves it resolved.
LEMMA CallResolves ==
  ASSUME NEW op \in Ops \ {"create"}, NEW row \in LocalStatus \cup Absent,
         NEW elapsed \in BOOLEAN
  PROVE  LET out == Call(op, row, elapsed)
             now == Call(op, Resolved(row, elapsed), FALSE)
         IN
         /\ out.code = now.code
         /\ out.row = now.row
         /\ row # "none" => out.row # "none"
         /\ row = "none" => out.code = ErrorCode.NotFound
         /\ Resolved(out.row, elapsed) = out.row
PROOF
  <1> DEFINE s == Resolved(row, elapsed)
  <1>1. CASE row \in Absent
    <2>1. s = row
      BY <1>1 DEF Resolved, Absent
    <2>2. \A e \in BOOLEAN : Call(op, row, e) = [row |-> row, code |-> 404, shown |-> "none"]
      BY <1>1 DEF Call, Outcome, ErrorCode
    <2>3. Call(op, s, FALSE) = [row |-> row, code |-> 404, shown |-> "none"]
      BY <2>1, <2>2
    <2>4. Call(op, row, elapsed) = [row |-> row, code |-> 404, shown |-> "none"]
      BY <2>2
    <2> DEFINE out == Call(op, row, elapsed)
               now == Call(op, s, FALSE)
    <2>5. out.row = row /\ out.code = 404 /\ now.row = row /\ now.code = 404
      <3>1. out = [row |-> row, code |-> 404, shown |-> "none"] /\ now = out
        BY <2>3, <2>4
      <3> HIDE DEF out, now
      <3> QED
        BY <3>1
    <2>6. Resolved(out.row, elapsed) = row
      BY <2>1, <2>5
    <2> QED
      BY <2>5, <2>6 DEF ErrorCode
  <1>2. CASE row \notin Absent
    <2>1. s \in LocalStatus /\ (s = "BUILD" => ~elapsed) /\ Resolved(s, FALSE) = s /\ row # "none"
      BY <1>2 DEF Resolved, LocalStatus, Absent
    <2>2. Call(op, row, elapsed) = OnRecord(op, s)
      BY <1>2 DEF Call
    <2>3. s \notin Absent
      BY <2>1 DEF LocalStatus, Absent
    <2> HIDE DEF s
    <2>4. Call(op, s, FALSE) = OnRecord(op, s)
      BY <2>1, <2>3 DEF Call
    <2>5. OnRecord(op, s).row \in {s, "gone", "ACTIVE", "STOPPED"}
      <3>1. op \in {"get", "delete", "start", "stop"}
        BY DEF Ops
      <3>2. op \in {"start", "stop"} => Target[op] \in {"ACTIVE", "STOPPED"}
        BY DEF Target
      <3> QED
        BY <3>1, <3>2 DEF OnRecord, Outcome
    <2> DEFINE new == OnRecord(op, s).row
    <2> HIDE DEF new
    <2>6. new # "none" /\ Resolved(new, elapsed) = new
      BY <2>1, <2>5 DEF Resolved, LocalStatus, new
    <2> QED
      BY <2>1, <2>2, <2>4, <2>6 DEF s, new
  <1> QED
    BY <1>1, <1>2

\* Unless constructions have raced, a handler holds the only repository there
\* is, so a VM that lives anywhere here lives where the handler looks.
LEMMA HandlerAtHome ==
  ASSUME IInv, ~raced, NEW r \in Reqs, req[r].pc = "handle"
  PROVE  living = {req[r].repo}
PROOF
  <1>1. req[r].repo \in living /\ living \subseteq {cached}
    BY DEF IInv, Knows, Alone
  <1> QED
    BY <1>1

\* What a handler answers and does, in terms of the state that the life cycle
\* gives the VM.
LEMMA HandleAnswers ==
  ASSUME IInv, IInv', ~raced, NEW r \in Reqs, Handle(r), NEW v \in Ids,
         req'[r].vm = v, req'[r].op # "create"
  PROVE  LET out == Call(req'[r].op, Status(v), FALSE) IN
         IF \E s \in living : store[s][v] # "none"
           THEN req'[r].code = out.code /\ Status(v)' = out.row
           ELSE req'[r].code = ErrorCode.NotFound
PROOF
  <1> DEFINE q == req[r]
             s == req[r].repo
             e == v \in due
             old == store[s][v]
             op == q.op
             out == Call(op, old, e)
  <1>1. q \in Request /\ q.pc = "handle" /\ q.op \in Ops /\ s \in Stores /\ living = {s}
    BY HandlerAtHome DEF IInv, TypeOK, Handle, Knows
  <1>2. PICK w \in Ids :
          /\ store' = [store EXCEPT ![s][w] = Call(op, store[s][w], w \in due).row]
          /\ req' = [req EXCEPT ![r].pc = "done", ![r].vm = w,
                                ![r].code = Call(op, store[s][w], w \in due).code]
    BY DEF Handle
  <1>3. req'[r] = [q EXCEPT !.pc = "done", !.vm = w,
                            !.code = Call(op, store[s][w], w \in due).code]
    BY <1>2 DEF IInv, TypeOK
  <1>4. w = v /\ req'[r].op = op /\ req'[r].code = out.code
    <2>1. req'[r].vm = w /\ req'[r].op = op
          /\ req'[r].code = Call(op, store[s][w], w \in due).code
      BY <1>1, <1>3 DEF Request
    <2> QED
      BY <2>1
  <1>5. store'[s][v] = out.row /\ due' = due
    BY <1>1, <1>2, <1>4 DEF Handle, IInv, TypeOK
  <1>6. op \in Ops \ {"create"} /\ old \in LocalStatus \cup Absent /\ e \in BOOLEAN
    BY <1>1, <1>4 DEF IInv, TypeOK
  <1> HIDE DEF op, old, e
  <1>7. /\ out.code = Call(op, Resolved(old, e), FALSE).code
        /\ out.row = Call(op, Resolved(old, e), FALSE).row
        /\ old # "none" => out.row # "none"
        /\ old = "none" => out.code = ErrorCode.NotFound
        /\ Resolved(out.row, e) = out.row
    BY <1>6, CallResolves
  <1> HIDE DEF out
  <1>8. CASE old = "none"
    BY <1>1, <1>4, <1>7, <1>8 DEF old
  <1>9. CASE old # "none"
    <2>1. Status(v) = Resolved(old, e)
      BY <1>1, <1>9, StatusAtHome DEF IInv, old, e
    <2>2. Status(v)' = Resolved(out.row, e)
      <3>1. Status(v)' = Resolved(store'[s][v], v \in due')
        BY <1>1, <1>5, <1>7, <1>9, StatusAtHomeNext DEF IInv
      <3> QED
        BY <1>5, <3>1 DEF e
    <2> QED
      BY <1>1, <1>4, <1>7, <1>9, <2>1, <2>2 DEF old
  <1> QED
    BY <1>8, <1>9

\* Unless constructions have raced, every request but a create is answered by
\* the state of its VM in the life cycle, and moves it accordingly.
THEOREM AnswersFollowLifecycle == Spec => AnsweredByLifecycle
PROOF
  <1>1. IInv /\ IInv' /\ [Next]_vars =>
          [\A r \in Reqs, v \in Ids :
             LET q == req'[r]
                 out == Call(q.op, Status(v), FALSE)
             IN
             ~raced /\ req[r].pc = "handle" /\ q.pc = "done" /\ q.vm = v /\ q.op # "create" =>
               IF \E s \in living : store[s][v] # "none"
                 THEN q.code = out.code /\ Status(v)' = out.row
                 ELSE q.code = ErrorCode.NotFound]_vars
    <2> SUFFICES ASSUME IInv, IInv', Next, NEW r \in Reqs, NEW v \in Ids, ~raced,
                        req[r].pc = "handle", req'[r].pc = "done", req'[r].vm = v,
                        req'[r].op # "create"
                 PROVE  LET out == Call(req'[r].op, Status(v), FALSE) IN
                        IF \E s \in living : store[s][v] # "none"
                          THEN req'[r].code = out.code /\ Status(v)' = out.row
                          ELSE req'[r].code = ErrorCode.NotFound
      OBVIOUS
    <2>1. Handle(r)
      <3>1. req'[r] # req[r]
        OBVIOUS
      <3>2. \A q \in Reqs \ {r} : ~Handle(q)
        BY <3>1 DEF Handle, IInv, TypeOK
      <3>3. \A q \in Reqs : ~Hit(q) /\ ~Miss(q) /\ ~Construct(q) /\ ~Respond(q)
        BY <3>1 DEF Hit, Miss, Construct, Respond, Idle, IInv, TypeOK
      <3>4. \A q \in Reqs, op \in Ops, w \in Ids \cup {None} : ~Receive(q, op, w)
        BY <3>1 DEF Receive, Idle, IInv, TypeOK
      <3>5. ~Restart /\ \A w \in Ids : ~Elapse(w)
        BY <3>1 DEF Restart, Elapse, Idle
      <3> QED
        BY <3>2, <3>3, <3>4, <3>5 DEF Next
    <2> QED
      BY <2>1, HandleAnswers
  <1> QED
    BY <1>1, InvariantHolds, PTL DEF Spec, AnsweredByLifecycle
=============================================================================
