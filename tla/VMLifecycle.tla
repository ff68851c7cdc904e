---------------------------- MODULE VMLifecycle ----------------------------
(***************************************************************************)
(* The life of a virtual machine as the repository interface promises it:  *)
(*                                                                         *)
(*     create        delay          stop                                   *)
(*   none ---> BUILD -----> ACTIVE <----> STOPPED                          *)
(*                             \   start   /                               *)
(*                              --> gone <-      (delete)                  *)
(*                                                                         *)
(* Nothing is said of requests: this is what an observer of the store may  *)
(* see.  A backend implements it when its store, seen through a refinement *)
(* mapping, takes no other step, whatever its requests do concurrently.    *)
(***************************************************************************)
CONSTANT Ids          \* the identifiers uuid4() may return

VARIABLE status       \* status[v]: "none" before v exists, "gone" once deleted

Init == status = [v \in Ids |-> "none"]

Move(v, from, to) ==
  /\ status[v] \in from
  /\ status' = [status EXCEPT ![v] = to]

\* POST /vms returns a record in BUILD state.
CreateVM(v) == Move(v, {"none"}, "BUILD")

\* The only way out of BUILD: the provisioning delay has elapsed.
FinishBuild(v) == Move(v, {"BUILD"}, "ACTIVE")

StartVM(v) == Move(v, {"STOPPED"}, "ACTIVE")

StopVM(v) == Move(v, {"ACTIVE"}, "STOPPED")

\* A VM that is still provisioning is never deleted.
DeleteVM(v) == Move(v, {"ACTIVE", "STOPPED"}, "gone")

Next ==
  \E v \in Ids :
    \/ CreateVM(v)
    \/ FinishBuild(v)
    \/ StartVM(v)
    \/ StopVM(v)
    \/ DeleteVM(v)

Spec == Init /\ [][Next]_status
============================================================================
