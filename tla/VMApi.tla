------------------------------- MODULE VMApi -------------------------------
(***************************************************************************)
(* What every backend shares: the operations the routes expose, the HTTP   *)
(* code an outcome is answered with, and the one rule VMService adds to    *)
(* the repository it calls.                                                *)
(***************************************************************************)
VMStatus == {"BUILD", "ACTIVE", "STOPPED", "DELETED", "ERROR"}

\* The states a VM of the mock and SQLite backends is ever put in.
LocalStatus == {"BUILD", "ACTIVE", "STOPPED"}

\* Their stores have no record of the VM; "gone" remembers that one was deleted.
Absent == {"none", "gone"}

Ops == {"create", "get", "delete", "start", "stop"}

\* The status code of a route whose handler returns normally.
SuccessCode(op) ==
  CASE op = "create" -> 201
    [] op = "delete" -> 204
    [] OTHER         -> 200

\* The exception handlers registered by main.py, and the code of an exception
\* none of them takes.
ErrorCode == [NotFound  |-> 404, Conflict  |-> 409, Operation |-> 422,
              OpenStack |-> 502, Unhandled |-> 500]

Codes == {200, 201, 204, 404, 409, 422, 500, 502}

\* VMService.delete_vm refuses a VM whose record, just fetched, is in BUILD.
DeleteRefused(status) == status = "BUILD"

\* start_vm and stop_vm of a repository that checks: only a STOPPED VM is
\* started, only an ACTIVE one is stopped.
Source == [start |-> "STOPPED", stop |-> "ACTIVE"]

\* Slip: the word Nova uses for a stopped server.
Target_NovaWord == [start |-> "ACTIVE", stop |-> "SHUTOFF"]

Target == [start |-> "ACTIVE",  stop |-> "STOPPED"]
============================================================================
