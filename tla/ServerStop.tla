----------------------------- MODULE ServerStop -----------------------------
(***************************************************************************)
(* SatelliteServer with the history of the requests to stop.  The code     *)
(* keeps one flag, which wsat_server_run clears when it starts, so the     *)
(* flag alone does not tell whether wsat_stop was called in this wsat_run. *)
(***************************************************************************)
EXTENDS SatelliteServer

VARIABLE asked    (* wsat_stop was called since wsat_run began             *)

AInit == Init /\ asked = FALSE

(* A step with what it adds to the history.  What was asked between two    *)
(* runs is not asked of the next one.                                      *)
ANext == Next /\ asked' = (pc # "idle" /\ (asked \/ Stop))

ASpec ==
  /\ AInit /\ [][ANext]_<<vars, asked>>
  /\ ServerFairness
  /\ \A t \in Threads : SenderFairness(t)

(* A stop requested while wsat_run is running ends it (graceful shutdown,  *)
(* lib/satellite_server.c:110).  Start clears a request made while the     *)
(* components were being initialised, so the code does not keep this.      *)
StopIsHonoured == (asked /\ pc # "idle") ~> pc = "idle"

=============================================================================
