------------------------------- MODULE Pebble -------------------------------
(***************************************************************************)
(* What a replan makes of a service.  A plan is a command and whether the  *)
(* service is to be started; a running service is the command it was       *)
(* started with.                                                           *)
(***************************************************************************)
CONSTANT STOPPED

\* A service that runs is restarted if its definition changed, even if it is not to be
\* started any more; one that does not run is started if it is to be.
Replanned(plan, running) ==
    IF running # STOPPED \/ plan.enabled THEN plan.command ELSE STOPPED

=============================================================================
