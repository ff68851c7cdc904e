--------------------------- MODULE SQLiteObserved ---------------------------
(***************************************************************************)
(* SQLiteRepository seen by its clients: every request carries the window  *)
(* of states its VM went through while the request was in flight, and      *)
(* whether another request ran on that VM meanwhile.  Both are history     *)
(* variables; they constrain nothing.  MockRepository gives the answers of *)
(* the same interface when operations are atomic.                          *)
(***************************************************************************)
EXTENDS SQLiteRepository, MockRepository

VARIABLES
  window,     \* window[r]: subset of LocalStatus and Absent
  found       \* found[r]: the row r found when it arrived, as long as it has
              \* had its VM to itself; "shared" once it has not

history == <<window, found>>
ovars   == <<vars, history>>

\* A window opens with the state a request finds and closes with its answer.
Watch ==
  window' = [r \in Reqs |->
    CASE req'[r].pc = "idle" -> {}
      [] req[r].pc = "idle" /\ req'[r].pc # "idle" -> {table'[req'[r].vm]}
      [] req[r].pc \in Running /\ req'[r].pc # "idle" ->
           window[r] \cup {table'[req[r].vm]}
      [] OTHER -> window[r]]

Beside(r) == {q \in Reqs \ {r} : req[q].pc \in Running /\ req[q].vm = req[r].vm}

\* What a request found counts until another one runs on its VM.
Mark ==
  found' = [r \in Reqs |->
    IF req'[r].pc \in Running /\ Beside(r)' = {}
      THEN IF req[r].pc = "idle" THEN table[req'[r].vm] ELSE found[r]
      ELSE "shared"]

ObservedInit ==
  /\ Init
  /\ window = [r \in Reqs |-> {}]
  /\ found = [r \in Reqs |-> "shared"]

ObservedNext == Next /\ Watch /\ Mark

ObservedSpec == ObservedInit /\ [][ObservedNext]_ovars
----------------------------------------------------------------------------
\* What an answer claims of the VM, given the states it went through.
Witnessed(q, w) ==
  /\ q.code = 201 => "BUILD" \in w
  /\ q.code = 204 => "gone" \in w /\ w \cap {"ACTIVE", "STOPPED"} # {}
  /\ q.code = 404 => w \cap Absent # {}
  /\ q.code = 422 => q.mem \in w
  /\ q.code = 422 /\ q.op = "delete" => q.mem = "BUILD"
  /\ q.code = 422 /\ q.op \in {"start", "stop"} => q.mem # Source[q.op]
  /\ q.code = 200 /\ q.op = "get" => q.mem \in w
  /\ q.code = 200 /\ q.op \in {"start", "stop"} => Source[q.op] \in w

\* No answer is made up: whatever the other requests did between the SELECTs
\* and UPDATEs of this one, the status a GET reports, the state a refusal
\* names, the absence a 404 reports and the state a start or stop requires
\* each held at some moment between the arrival of the request and its answer.
\* The hard case is a GET that promotes a stale record: its UPDATE may hit no
\* row, and the VM must have been ACTIVE before it was deleted.
RepliesWitnessed ==
  \A r \in Reqs : req[r].pc = "done" => Witnessed(req[r], window[r])

\* What an answer leaves to be relied upon, of a row that is `now' so.
Stands(q, now) ==
  /\ q.code \in {200, 201, 422} => now # "none"
  /\ q.code \in {200, 422} /\ q.mem # "BUILD" => now \notin {"none", "BUILD"}
  /\ q.code = 204 => now = "gone"

\* What a client has been told stays true of the past: a VM that one answer
\* has shown out of BUILD is not in BUILD for any request still to come.  The
\* end of BUILD is computed by whoever reads, from a clock that may be set
\* back, and it is the reader's UPDATE that makes it last.
AnswersStand ==
  \A r \in Reqs : req[r].pc = "done" => Stands(req[r], table[req[r].vm])

\* The backends are interchangeable as long as nobody else uses the VM: up to
\* five transactions in worker threads, with a promotion after either read,
\* answer and leave behind what the mock's one atomic operation does on the
\* record the request found, whatever runs on other VMs, whenever the clock is
\* read and however requests before it broke off.
LoneRequestsAtomic ==
  [][\A r \in Reqs :
       LET q == req'[r] IN
       found[r] # "shared" /\ q.pc = "done" /\ q.code # ErrorCode.Unhandled =>
         \E elapsed \in BOOLEAN :
           Call(q.op, found[r], elapsed) = Outcome(table'[q.vm], q.code, q.mem)]_ovars

\* The lazy promotion undoes a stop only in a race: whoever makes a stopped VM
\* ACTIVE without being asked to start it has shared the VM with another
\* request since it arrived.
StopUndoneByRaceOnly ==
  [][\A r \in Reqs :
       LET v == req[r].vm IN
       /\ req'[r] # req[r]
       /\ v \in Ids
       /\ table[v] = "STOPPED"
       /\ table'[v] = "ACTIVE"
       => req[r].op = "start" \/ found[r] = "shared"]_ovars
----------------------------------------------------------------------------
\* What makes them inductive.

\* A window that is open has seen its VM as it is, and a VM it has seen in
\* BUILD it has not lost sight of since: only by way of ACTIVE is it anything
\* else now.
Follows(w, v) ==
  /\ table[v] \in w
  /\ "BUILD" \in w => table[v] # "none"
  /\ "BUILD" \in w /\ Settled(v) => "ACTIVE" \in w

\* What a request goes by was true while its window was open.
Grounded(q, w) ==
  /\ q.pc \in {"resolve", "promote"} => "BUILD" \in w
  /\ q.checked => Source[q.op] \in w
  /\ q.pc = "remove" => w \cap {"ACTIVE", "STOPPED"} # {}
  /\ q.pc = "done" => Witnessed(q, w)

\* A request that has its VM to itself is right about the row at every point:
\* it is the one found, unless a promotion of its own has come between.
Exact(q, row, now) ==
  /\ \E elapsed \in BOOLEAN : now = Resolved(row, elapsed)
  /\ q.pc \in {"resolve", "promote"} => now = "BUILD" /\ ~q.checked
  /\ q.pc = "select" /\ ~q.checked => now = row
  /\ q.pc = "remove" => now \notin Absent
  /\ q.checked => now = Source[q.op]

WindowsSound ==
  \A r \in Reqs :
    /\ req[r].pc \in Running => Follows(window[r], req[r].vm)
    /\ Grounded(req[r], window[r])

LoneExact ==
  \A r \in Reqs :
    found[r] # "shared" =>
      /\ req[r].pc \in Running
      /\ Beside(r) = {}
      /\ Exact(req[r], found[r], table[req[r].vm])

ObservedIInv ==
  /\ IInv
  /\ WindowsSound
  /\ AnswersStand
  /\ LoneExact
============================================================================
