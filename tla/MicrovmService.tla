-------------------------- MODULE MicrovmService --------------------------
(***************************************************************************)
(* The lambda-microvms service, as src/provider/main.go uses it through    *)
(* run-, get-, suspend-, resume- and terminate-microvm.  The service is    *)
(* external to the repository: its states are the ones requeueFor and      *)
(* writeStatus name, its transitions the ones their comments and the idle  *)
(* policy of awsRun rely on.                                               *)
(***************************************************************************)

\* States of a MicroVM identifier; "UNUSED" is one the service never issued.
VmStates == {"UNUSED", "PENDING", "RUNNING", "SUSPENDING", "SUSPENDED",
             "RESUMING", "TERMINATED", "FAILED"}

\* A MicroVM in one of these states no longer runs (nor is billed) again.
Dead == {"TERMINATED", "FAILED"}

\* The states of a MicroVM that exists and can still run.
Live == VmStates \ (Dead \cup {"UNUSED"})

\* The states in which requeueFor asks for no further poll.
Settled == {"RUNNING", "SUSPENDED", "TERMINATED", "FAILED"}

\* What the service does by itself to complete an accepted call.
Progress(st) ==
  CASE st = "PENDING"    -> "RUNNING"
    [] st = "SUSPENDING" -> "SUSPENDED"
    [] st = "RESUMING"   -> "RUNNING"
    [] OTHER             -> st

\* What the service may do to a MicroVM that nobody asked for: the launch
\* fails, the idle policy suspends it and ends it when it was suspended for
\* too long, traffic resumes it, the maximum duration ends it.
Drift(st) ==
  CASE st = "PENDING"   -> {"FAILED"}
    [] st = "RUNNING"   -> {"SUSPENDED", "TERMINATED"}
    [] st = "SUSPENDED" -> {"RUNNING", "TERMINATED"}
    [] OTHER            -> {}

\* terminate-microvm: ends a live MicroVM, leaves an ended one as it is.
Terminated(st) == IF st \in Live THEN "TERMINATED" ELSE st
=============================================================================
