--------------------------- MODULE MockRepository ---------------------------
(***************************************************************************)
(* VMService over MockVMRepository.  No coroutine of either ever suspends, *)
(* so the event loop runs one operation to its end before another: what an *)
(* operation does is a function of the record it finds and of whether the  *)
(* provisioning delay has elapsed for it.                                  *)
(***************************************************************************)
EXTENDS VMApi

\* The record afterwards, the code answered and the status the answer shows.
Outcome(row, code, shown) == [row |-> row, code |-> code, shown |-> shown]

\* _resolve_build.
Resolved(row, elapsed) == IF row = "BUILD" /\ elapsed THEN "ACTIVE" ELSE row

Created == Outcome("BUILD", SuccessCode("create"), "BUILD")

\* Slip: the delete looks the record up again and forgets to test it.
OnRecord_DeleteUntested(op, s) ==
  CASE op = "get"    -> Outcome(s, SuccessCode(op), s)
    [] op = "delete" -> Outcome("gone", SuccessCode(op), "none")
    [] OTHER -> IF s # Source[op]
                  THEN Outcome(s, ErrorCode.Operation, s)
                  ELSE Outcome(Target[op], SuccessCode(op), Target[op])

\* get, delete, start and stop of a record that _get_or_raise returned in
\* state s.
OnRecord(op, s) ==
  CASE op = "get"    -> Outcome(s, SuccessCode(op), s)
    [] op = "delete" ->
         IF DeleteRefused(s) THEN Outcome(s, ErrorCode.Operation, s)
                             ELSE Outcome("gone", SuccessCode(op), "none")
    [] OTHER -> IF s # Source[op]
                  THEN Outcome(s, ErrorCode.Operation, s)
                  ELSE Outcome(Target[op], SuccessCode(op), Target[op])

Call(op, row, elapsed) ==
  CASE op = "create"    -> Created
    [] op # "create" /\ row \in Absent ->
         Outcome(row, ErrorCode.NotFound, "none")
    [] OTHER -> OnRecord(op, Resolved(row, elapsed))
=============================================================================
