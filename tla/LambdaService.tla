--------------------------- MODULE LambdaService ----------------------------
(***************************************************************************)
(* What POST /v1/execute/lambda/{id} promises its clients, without caches, *)
(* fetches, compilations or exceptions: each request executes the script   *)
(* asked for at most once, in a version the table has had, and its answer  *)
(* tells whether that happened and how it ended.                           *)
(***************************************************************************)
EXTENDS Naturals, Sequences

CONSTANTS
  Requests,    \* requests that are handled at the same time
  ScriptIds,   \* primary keys of the scripts table
  Rows,        \* contents of a row
  NoRow,       \* there is no row with this id
  Executable,  \* the rows of which a script can be made
  Exceptions,  \* how an execution may fail
  Cached       \* scripts may be older than the request

(***************************************************************************)
(* The table: history[s] lists what the row s has held; every host has     *)
(* applied the first applied[s] of it.  A request: asked[r] is the id and  *)
(* since[r] what had been applied when it came; ran[r] is the row that was *)
(* executed for it (NoRow: none), result[r] how that ended, status[r] the  *)
(* answer (0: none yet).  pending is the set of requests being handled,    *)
(* alive the process.                                                      *)
(***************************************************************************)
VARIABLES history, applied, pending, asked, since, ran, result, status, alive

table == <<history, applied>>
vars  == <<history, applied, pending, asked, since, ran, result, status, alive>>

Init ==
  /\ history \in [ScriptIds -> {<<row>> : row \in Rows \cup {NoRow}}]
  /\ applied = [s \in ScriptIds |-> 1]
  /\ pending = {}
  /\ asked \in [Requests -> ScriptIds]
  /\ since = [r \in Requests |-> 0]
  /\ ran = [r \in Requests |-> NoRow]
  /\ result = [r \in Requests |-> "none"]
  /\ status = [r \in Requests |-> 0]
  /\ alive = TRUE

\* Other services write the table, and its hosts catch up.
Change(s) ==
  /\ \/ /\ \E row \in Rows \cup {NoRow} : history' = [history EXCEPT ![s] = Append(@, row)]
        /\ UNCHANGED applied
     \/ /\ applied[s] < Len(history[s])
        /\ applied' = [applied EXCEPT ![s] = @ + 1]
        /\ UNCHANGED history
  /\ UNCHANGED <<pending, asked, since, ran, result, status, alive>>

-----------------------------------------------------------------------------
\* A request comes for the script s, or for something that is no id.
Accept(r, s) ==
  /\ r \notin pending
  /\ pending' = pending \cup {r}
  /\ asked' = [asked EXCEPT ![r] = s]
  /\ since' = [since EXCEPT ![r] = applied[s]]
  /\ ran' = [ran EXCEPT ![r] = NoRow]
  /\ result' = [result EXCEPT ![r] = "none"]
  /\ status' = [status EXCEPT ![r] = 0]
  /\ UNCHANGED <<table, alive>>

Refuse(r) ==
  /\ r \notin pending
  /\ ran' = [ran EXCEPT ![r] = NoRow]
  /\ result' = [result EXCEPT ![r] = "none"]
  /\ status' = [status EXCEPT ![r] = 400]
  /\ UNCHANGED <<table, pending, asked, since, alive>>

Answer(r, code) ==
  /\ pending' = pending \ {r}
  /\ status' = [status EXCEPT ![r] = code]

WasMissing(r) ==
  \E v \in since[r] .. Len(history[asked[r]]) : history[asked[r]][v] = NoRow

\* Without executing anything: the script is missing, the body is wrong, or
\* the database failed.
Reject(r, code) ==
  /\ r \in pending /\ result[r] = "none"
  /\ code = 404 => WasMissing(r)
  /\ Answer(r, code)
  /\ UNCHANGED <<table, asked, since, ran, result, alive>>

Oldest(r) == IF Cached THEN 1 ELSE since[r]

\* The script runs: it ends, fails, or takes the process with it.
Run(r) ==
  /\ r \in pending /\ result[r] = "none"
  /\ \E v \in Oldest(r) .. Len(history[asked[r]]) :
       /\ history[asked[r]][v] \in Executable
       /\ ran' = [ran EXCEPT ![r] = history[asked[r]][v]]
  /\ \/ result' = [result EXCEPT ![r] = "ok"] /\ UNCHANGED <<pending, status, alive>>
     \/ /\ \E how \in Exceptions : result' = [result EXCEPT ![r] = how]
        /\ Answer(r, 500)
        /\ UNCHANGED alive
     \/ alive' = FALSE /\ UNCHANGED <<pending, result, status>>
  /\ UNCHANGED <<table, asked, since>>

Respond(r) ==
  /\ r \in pending /\ result[r] = "ok"
  /\ Answer(r, 200)
  /\ UNCHANGED <<table, asked, since, ran, result, alive>>

Next ==
  /\ alive
  /\ \/ \E s \in ScriptIds : Change(s)
     \/ \E r \in Requests :
          \/ \E s \in ScriptIds : Accept(r, s)
          \/ Refuse(r) \/ Run(r) \/ Respond(r)
          \/ \E code \in {400, 404, 500} : Reject(r, code)

Spec == Init /\ [][Next]_vars

=============================================================================
