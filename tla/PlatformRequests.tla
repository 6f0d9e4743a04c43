--------------------------- MODULE PlatformRequests ---------------------------
(***************************************************************************)
(* The platform's server: the requests about its software and those of its *)
(* administrators, all in one database, side by side.                      *)
(***************************************************************************)
EXTENDS SoftwareRequests, AdminRequests

GoesOn(r) ==
    \/ Send(r) \/ Deliver(r)
    \/ SoftwareStep(r)
    \/ AdminStep(r)

Next ==
    \/ \E r \in Asked : GoesOn(r) \/ Fail(r)
    \/ Tick

\* The server goes on with the requests it has, and a caller repeats a request that
\* failed, as docs/adr/0012 has it.  Nothing is assumed of failures, which the
\* workload bounds, nor of the clock.
Spec == Init /\ [][Next]_vars /\ WF_vars(\E r \in Asked : GoesOn(r))
=============================================================================
