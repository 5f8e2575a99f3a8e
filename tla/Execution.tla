----------------------------- MODULE Execution ------------------------------
(***************************************************************************)
(* What base::Executor::Execute promises the handler that calls it, whose  *)
(* ExecutionContext holds the response: in one step it returns and the     *)
(* response is the script's, or it throws and the response is untouched,   *)
(* or the process ends.                                                    *)
(***************************************************************************)
CONSTANTS
  Responses,   \* what a script may answer
  Untouched,   \* the response before the execution
  Exceptions   \* how an execution may fail

VARIABLES outcome, response

vars == <<outcome, response>>

Init == outcome = "running" /\ response = Untouched

Return == outcome' = "ok" /\ response' \in Responses

Throw == outcome' \in Exceptions /\ UNCHANGED response

Terminate == outcome' = "terminated" /\ UNCHANGED response

Next == outcome = "running" /\ (Return \/ Throw \/ Terminate)

Spec == Init /\ [][Next]_vars

=============================================================================
