--------------------------- MODULE ExecuteLambda ----------------------------
(***************************************************************************)
(* handlers::ExecuteLambda over the ScriptsStorage: concurrent requests    *)
(* POST /v1/execute/lambda/{id}, each handled by one task of the storage.  *)
(* The execution itself is LuaExecutor's; here it is one of its outcomes,  *)
(* or the end of the process.                                              *)
(***************************************************************************)
EXTENDS ScriptsStorage

CONSTANT BadId   \* a path argument that is no script id

(***************************************************************************)
(* stage[t] is where HandleRequestThrow is, body[t] whether the request's  *)
(* body is a valid request, status[t] the HTTP status of the answer (0     *)
(* while there is none).  ran[t] and result[t], history variables, are the *)
(* script that was executed for the request and how that ended.  alive is  *)
(* the process.                                                            *)
(***************************************************************************)
VARIABLES stage, body, status, ran, result, alive

handler == <<stage, body, status, ran, result, alive>>
allVars == <<vars, handler>>

InitHandler ==
  /\ Init
  /\ stage = [t \in Tasks |-> "idle"]
  /\ body = [t \in Tasks |-> "valid"]
  /\ status = [t \in Tasks |-> 0]
  /\ ran = [t \in Tasks |-> NullScript]
  /\ result = [t \in Tasks |-> "none"]
  /\ alive = TRUE

Reply(t, code) ==
  /\ stage' = [stage EXCEPT ![t] = "idle"]
  /\ status' = [status EXCEPT ![t] = code]

-----------------------------------------------------------------------------
\* GetScriptById up to the call of Get: a request arrives.
HandleRequest(t, id, b) ==
  /\ stage[t] = "idle"
  /\ body' = [body EXCEPT ![t] = b]
  /\ ran' = [ran EXCEPT ![t] = NullScript]
  /\ result' = [result EXCEPT ![t] = "none"]
  /\ \/ /\ id = BadId
        /\ Reply(t, 400)
        /\ UNCHANGED vars
     \/ /\ id # BadId
        /\ Get(t, id)
        /\ stage' = [stage EXCEPT ![t] = "script"]
        /\ status' = [status EXCEPT ![t] = 0]
  /\ UNCHANGED alive

\* Mutant: every exception of the storage is a missing script.
StorageStatusAllMissing(how) == 404

\* The catch clauses of GetScriptById.
StorageStatus(how) == IF how = "NotFoundScriptError" THEN 404 ELSE 500

\* Mutant: the exceptions of the storage are logged and not answered.
GetScriptByIdSilent(t) ==
  /\ stage[t] = "script" /\ pc[t] = "idle"
  /\ outcome[t] = "script"
  /\ stage' = [stage EXCEPT ![t] = "context"]
  /\ UNCHANGED <<vars, status, body, ran, result, alive>>

GetScriptById(t) ==
  /\ stage[t] = "script" /\ pc[t] = "idle"
  /\ \/ /\ outcome[t] = "script"
        /\ stage' = [stage EXCEPT ![t] = "context"]
        /\ UNCHANGED status
     \/ /\ outcome[t] # "script"
        /\ Reply(t, StorageStatus(outcome[t]))
  /\ UNCHANGED <<vars, body, ran, result, alive>>

\* Whether Request::FromJson accepts a body, or it or the parser throws.
FromJson(b) == b = "valid"

BuildExecutionContext(t) ==
  /\ stage[t] = "context"
  /\ \/ ~FromJson(body[t]) /\ Reply(t, 400)
     \/ /\ FromJson(body[t])
        /\ stage' = [stage EXCEPT ![t] = "execute"]
        /\ UNCHANGED status
  /\ UNCHANGED <<vars, body, ran, result, alive>>

\* Mutant: a failed execution is tried again.
ExecuteScriptRetrying(t, how) ==
  /\ stage[t] = "execute"
  /\ ran' = [ran EXCEPT ![t] = held[t]] /\ result' = [result EXCEPT ![t] = how]
  /\ \/ how = "ok" /\ stage' = [stage EXCEPT ![t] = "answer"] /\ UNCHANGED status
     \/ how # "ok" /\ UNCHANGED <<stage, status>>
  /\ UNCHANGED <<vars, body, alive>>

\* Mutant: the clause for NotFoundScriptError catches every std::exception.
ExecuteScriptAsMissing(t, how) ==
  /\ stage[t] = "execute"
  /\ ran' = [ran EXCEPT ![t] = held[t]] /\ result' = [result EXCEPT ![t] = how]
  /\ \/ how = "ok" /\ stage' = [stage EXCEPT ![t] = "answer"] /\ UNCHANGED status
     \/ how # "ok" /\ Reply(t, IF how = "exception" THEN 404 ELSE 500)
  /\ UNCHANGED <<vars, body, alive>>

\* Everything Execute throws becomes an InternalServerError; the clause for
\* NotFoundScriptError is never taken, as no statement of Execute throws it.
ExecuteScript(t, how) ==
  /\ stage[t] = "execute"
  /\ ran' = [ran EXCEPT ![t] = held[t]] /\ result' = [result EXCEPT ![t] = how]
  /\ \/ how = "ok" /\ stage' = [stage EXCEPT ![t] = "answer"] /\ UNCHANGED status
     \/ how # "ok" /\ Reply(t, 500)
  /\ UNCHANGED <<vars, body, alive>>

Thrown == {"ExecutionTimeout", "OutOfMemoryLimit", "ExecutionError", "exception"}

\* The execution ends the process (LuaExecutor), and with it every request.
Terminate(t) ==
  /\ stage[t] = "execute"
  /\ ran' = [ran EXCEPT ![t] = held[t]]
  /\ alive' = FALSE
  /\ UNCHANGED <<vars, stage, status, body, result>>

\* The script's response is sent as JSON with status 200.
Respond(t) ==
  /\ stage[t] = "answer"
  /\ Reply(t, 200)
  /\ UNCHANGED <<vars, body, ran, result, alive>>

StorageStep(t) == (Lookup(t) \/ Fetch(t) \/ FetchFails(t) \/ Put(t)) /\ UNCHANGED handler

TableStep(s) ==
  /\ Replicate(s) \/ \E row \in Row \cup {NoRow} : WriteRow(s, row)
  /\ UNCHANGED handler

RequestStep(t) ==
  \/ GetScriptById(t) \/ BuildExecutionContext(t) \/ Respond(t)
  \/ \E how \in {"ok"} \cup Thrown : ExecuteScript(t, how)

NextHandler ==
  \/ /\ alive
     /\ \/ \E s \in ScriptIds : TableStep(s)
        \/ \E t \in Tasks : StorageStep(t) \/ RequestStep(t) \/ Terminate(t)
        \/ \E t \in Tasks, id \in ScriptIds \cup {BadId}, b \in {"valid", "invalid"} :
             HandleRequest(t, id, b)
  \/ ~alive /\ UNCHANGED allVars

SpecHandler == InitHandler /\ [][NextHandler]_allVars

(* The scheduler runs every task, and a query ends, if only because the    *)
(* driver's timeouts end it.  An execution need not end: a C function or a *)
(* finalizer of the script may run forever (LuaExecutor).                  *)
Fairness ==
  \A t \in Tasks :
    /\ WF_allVars(alive /\ StorageStep(t))
    /\ WF_allVars(alive /\ stage[t] # "execute" /\ RequestStep(t))

FairHandler == SpecHandler /\ Fairness

-----------------------------------------------------------------------------
(* A request that is answered 400 or 404 has had no effect: its script was *)
(* not started, although the script is looked up before the body is read.  *)
RejectedIsNotExecuted ==
  \A t \in Tasks : status[t] \in {400, 404} => ran[t] = NullScript

(* 404 is answered only for an id whose row was missing from some host     *)
(* while the request was being handled, never because the database failed. *)
NotFoundAnswerIsHonest ==
  \A t \in Tasks : status[t] = 404 =>
    \E v \in call[t].since .. Len(history[call[t].id]) : history[call[t].id][v] = NoRow

(* An answer reports on the script that was asked for: what was executed   *)
(* was compiled from a row of the requested id, with that row's project,   *)
(* and 200 is answered only if that execution ended without an error.      *)
ExecutedIsRequested ==
  \A t \in Tasks : /\ ran[t] # NullScript => IsRowOf(ran[t], call[t].id)
                   /\ status[t] = 200 => ran[t] # NullScript /\ result[t] = "ok"

(* Every request is answered, unless the process ends or the execution of  *)
(* its own script never does: what another request is stuck in, and how    *)
(* the storage or a query failed, does not keep it waiting.                *)
RequestsAreAnswered ==
  \A t \in Tasks : []<>(stage[t] = "idle" \/ ~alive) \/ <>[](stage[t] = "execute")

-----------------------------------------------------------------------------
\* A client sees its request, the row that was executed and the answer.
Service == INSTANCE LambdaService WITH
  Requests <- Tasks,
  Rows <- Row,
  Executable <- {row \in Row : Usable(row)},
  Exceptions <- Thrown,
  Cached <- useCache_,
  pending <- {t \in Tasks : stage[t] # "idle"},
  asked <- [t \in Tasks |-> call[t].id],
  since <- [t \in Tasks |-> call[t].since],
  ran <- [t \in Tasks |->
            IF ran[t] = NullScript THEN NoRow
            ELSE [projectId |-> ran[t].projectId, sourceCode |-> ran[t].sourceCode]]

(* The storage, its cache and its fetches, the catch clauses and the order *)
(* in which a request is handled implement the service: a script runs at   *)
(* most once per request, in a version of the row asked for that was no    *)
(* older than the request when nothing is cached, a request that is        *)
(* rejected has run nothing, 404 is only said of a row that was missing,   *)
(* and 200 only after a run without an error.                              *)
ImplementsService == Service!Spec

=============================================================================
