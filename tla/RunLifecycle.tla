---------------------------- MODULE RunLifecycle ----------------------------
(***************************************************************************)
(* What an Assembly Run promises to those who watch its status: it is      *)
(* created planned, passes the stages in order, may fail at any of them,   *)
(* and never leaves completed or failed.                                   *)
(***************************************************************************)
CONSTANT Runs

VARIABLE status

Successors(s) ==
    CASE s = "none"         -> {"planned"}
      [] s = "planned"      -> {"provisioning", "failed"}
      [] s = "provisioning" -> {"generating", "failed"}
      [] s = "generating"   -> {"validating", "failed"}
      [] s = "validating"   -> {"completed", "failed"}
      [] OTHER              -> {}

Init == status = [r \in Runs |-> "none"]

Advance(r) ==
    \E next \in Successors(status[r]) : status' = [status EXCEPT ![r] = next]

Next == \E r \in Runs : Advance(r)

Spec == Init /\ [][Next]_status
=============================================================================
