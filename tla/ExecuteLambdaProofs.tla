------------------------- MODULE ExecuteLambdaProofs ------------------------
(***************************************************************************)
(* The handler uses the storage as ScriptsStorage specifies, so what is    *)
(* proved of the storage holds of every answer, for any number of          *)
(* concurrent requests; and with it the service implements LambdaService.  *)
(***************************************************************************)
EXTENDS ExecuteLambda, ScriptsStorageProofs

\* A step of the service is a step of the storage or leaves it alone.
LEMMA StorageSteps == [NextHandler]_allVars => [Next]_vars
<1> SUFFICES ASSUME [NextHandler]_allVars PROVE [Next]_vars
  OBVIOUS
<1>1. CASE UNCHANGED allVars
  BY <1>1 DEF allVars
<1>2. ASSUME NEW s \in ScriptIds, TableStep(s) PROVE Next
  BY <1>2 DEF TableStep, Next
<1>3. ASSUME NEW t \in Tasks, StorageStep(t) PROVE Next
  BY <1>3 DEF StorageStep, Next
<1>4. ASSUME NEW t \in Tasks, RequestStep(t) \/ Terminate(t) PROVE UNCHANGED vars
  BY <1>4 DEF RequestStep, GetScriptById, BuildExecutionContext, Respond,
              ExecuteScript, Terminate
<1>5. ASSUME NEW t \in Tasks, NEW id \in ScriptIds \cup {BadId}, NEW b,
             HandleRequest(t, id, b)
      PROVE  [Next]_vars
  BY <1>5 DEF HandleRequest, Next
<1>6. QED
  BY <1>1, <1>2, <1>3, <1>4, <1>5 DEF NextHandler, allVars

(* Refinement: seen from the storage, the requests are calls of Get that   *)
(* do not overlap within a task.                                           *)
THEOREM HandlerImplementsStorageClients == SpecHandler => Spec
<1>1. InitHandler => Init
  BY DEF InitHandler
<1>2. QED
  BY <1>1, StorageSteps, PTL DEF SpecHandler, Spec

-----------------------------------------------------------------------------
Stages == {"idle", "script", "context", "execute", "answer"}

(* A request that is past GetScriptById holds the script the storage       *)
(* answered, and nothing has run for it until the executor returns.        *)
HandlerInv ==
  /\ stage \in [Tasks -> Stages] /\ body \in [Tasks -> {"valid", "invalid"}]
  /\ status \in [Tasks -> {0, 200, 400, 404, 500}]
  /\ ran \in [Tasks -> Script \cup {NullScript}]
  /\ result \in [Tasks -> {"none", "ok"} \cup Thrown]
  /\ \A t \in Tasks :
       /\ stage[t] \in {"context", "execute", "answer"} =>
            pc[t] = "idle" /\ outcome[t] = "script"
       /\ stage[t] \in {"script", "context", "execute"} =>
            result[t] = "none" /\ status[t] = 0 /\ (alive => ran[t] = NullScript)
       /\ stage[t] = "answer" => result[t] = "ok" /\ ran[t] # NullScript
       /\ stage[t] \notin {"idle"} => status[t] = 0

LEMMA InitialHandler == InitHandler => HandlerInv
  BY DEF InitHandler, HandlerInv, Stages

\* A step of the table or of the storage does not touch a task that is idle.
LEMMA StorageLeavesIdle ==
  ASSUME TypeOK, NEW t \in Tasks, pc[t] = "idle",
         \/ \E s \in ScriptIds : TableStep(s)
         \/ \E u \in Tasks : StorageStep(u)
  PROVE  pc'[t] = "idle" /\ outcome'[t] = outcome[t]
<1>1. pc \in [Tasks -> {"idle", "lookup", "fetch", "put"}] /\ DOMAIN outcome = Tasks
  BY DEF TypeOK, TaskTypeOK
<1>2. CASE \E s \in ScriptIds : TableStep(s)
  BY <1>2 DEF TableStep, Replicate, WriteRow, task
<1>3. ASSUME NEW u \in Tasks, StorageStep(u) PROVE pc'[t] = "idle" /\ outcome'[t] = outcome[t]
  <2>1. CASE Lookup(u)
    BY <1>1, <2>1 DEF Lookup, Return
  <2>2. CASE Fetch(u)
    BY <1>1, <2>2 DEF Fetch, NotFound, Return
  <2>3. CASE FetchFails(u)
    BY <1>1, <2>3 DEF FetchFails, Return
  <2>4. CASE Put(u)
    BY <1>1, <2>4 DEF Put, Return
  <2>5. QED
    BY <1>3, <2>1, <2>2, <2>3, <2>4 DEF StorageStep
<1>4. QED
  BY <1>2, <1>3

LEMMA HandlerSteps == TypeOK /\ HandlerInv /\ [NextHandler]_allVars => HandlerInv'
<1> SUFFICES ASSUME TypeOK, HandlerInv, [NextHandler]_allVars PROVE HandlerInv'
  OBVIOUS
<1> USE DEF HandlerInv, Stages
<1>1. CASE UNCHANGED allVars
  BY <1>1 DEF allVars, vars, handler
<1>2. CASE (\E s \in ScriptIds : TableStep(s)) \/ (\E u \in Tasks : StorageStep(u))
  <2>1. UNCHANGED handler
    BY <1>2 DEF TableStep, StorageStep
  <2>2. \A t \in Tasks : pc[t] = "idle" => pc'[t] = "idle" /\ outcome'[t] = outcome[t]
    BY <1>2, StorageLeavesIdle
  <2>3. QED
    BY <2>1, <2>2 DEF handler
<1>3. ASSUME NEW t \in Tasks, GetScriptById(t) PROVE HandlerInv'
  <2>1. StorageStatus(outcome[t]) \in {0, 200, 400, 404, 500}
    BY DEF StorageStatus
  <2>2. QED
    BY <1>3, <2>1 DEF GetScriptById, Reply, vars
<1>4. ASSUME NEW t \in Tasks, BuildExecutionContext(t) PROVE HandlerInv'
  BY <1>4 DEF BuildExecutionContext, Reply, vars
<1>5. ASSUME NEW t \in Tasks, NEW how \in {"ok"} \cup Thrown, ExecuteScript(t, how)
      PROVE  HandlerInv'
  <2>1. held[t] \in Script /\ held[t] # NullScript
    BY <1>5, StorageAssumption DEF ExecuteScript, TypeOK, TaskTypeOK
  <2>2. QED
    BY <1>5, <2>1 DEF ExecuteScript, Reply, vars
<1>6. ASSUME NEW t \in Tasks, Terminate(t) PROVE HandlerInv'
  <2>1. held[t] \in Script
    BY <1>6 DEF Terminate, TypeOK, TaskTypeOK
  <2>2. QED
    BY <1>6, <2>1 DEF Terminate, vars
<1>7. ASSUME NEW t \in Tasks, Respond(t) PROVE HandlerInv'
  BY <1>7 DEF Respond, Reply, vars
<1>8. ASSUME NEW t \in Tasks, NEW id \in ScriptIds \cup {BadId},
             NEW b \in {"valid", "invalid"}, HandleRequest(t, id, b)
      PROVE  HandlerInv'
  <2>1. CASE id = BadId /\ Reply(t, 400) /\ UNCHANGED vars
    BY <1>8, <2>1 DEF HandleRequest, Reply, vars
  <2>2. CASE id # BadId /\ Get(t, id) /\ stage' = [stage EXCEPT ![t] = "script"]
             /\ status' = [status EXCEPT ![t] = 0]
    <3>1. DOMAIN pc = Tasks /\ DOMAIN outcome = Tasks
      BY DEF TypeOK, TaskTypeOK
    <3>2. \A u \in Tasks \ {t} : pc'[u] = pc[u] /\ outcome'[u] = outcome[u]
      BY <2>2, <3>1 DEF Get, Begin
    <3>3. QED
      BY <1>8, <2>2, <3>2 DEF HandleRequest
  <2>3. QED
    BY <1>8, <2>1, <2>2 DEF HandleRequest
<1>9. QED
  BY <1>1, <1>2, <1>3, <1>4, <1>5, <1>6, <1>7, <1>8 DEF NextHandler, RequestStep

LEMMA HandlerInvariant == SpecHandler => []HandlerInv
<1>1. SpecHandler => []TypeOK
  BY HandlerImplementsStorageClients, TypeCorrect, PTL
<1>2. QED
  BY <1>1, InitialHandler, HandlerSteps, PTL DEF SpecHandler

-----------------------------------------------------------------------------
\* Only a request that arrives changes a call.
LEMMA CallsStay ==
  ASSUME \/ \E s \in ScriptIds : TableStep(s)
         \/ \E t \in Tasks : StorageStep(t) \/ RequestStep(t) \/ Terminate(t)
  PROVE  call' = call
<1>1. CASE \E s \in ScriptIds : TableStep(s)
  BY <1>1 DEF TableStep, Replicate, WriteRow, task
<1>2. ASSUME NEW t \in Tasks, StorageStep(t) PROVE call' = call
  BY <1>2 DEF StorageStep, Lookup, Fetch, FetchFails, Put
<1>3. ASSUME NEW t \in Tasks, RequestStep(t) \/ Terminate(t) PROVE call' = call
  BY <1>3 DEF RequestStep, GetScriptById, BuildExecutionContext, ExecuteScript, Respond,
              Terminate, vars
<1>4. QED
  BY <1>1, <1>2, <1>3

\* Since its n-th version the row s has been missing once.
MissingSince(s, n) == \E v \in n .. Len(history[s]) : history[s][v] = NoRow

\* What is true of a version of a row stays true.
LEMMA MissingStays ==
  ASSUME TypeOK, [Next]_vars, NEW s \in ScriptIds, NEW n \in Nat, n # 0, MissingSince(s, n)
  PROVE  MissingSince(s, n)'
<1>1. PICK v \in n .. Len(history[s]) : history[s][v] = NoRow
  BY DEF MissingSince
<1>2. Len(history[s]) \in Nat /\ Len(history'[s]) \in Nat /\ Len(history[s]) <= Len(history'[s])
  BY HistoryGrows
<1>3. v \in 1 .. Len(history[s]) /\ v \in n .. Len(history'[s])
  BY <1>2
<1>4. history'[s][v] = history[s][v]
  BY <1>3, HistoryGrows DEF Version
<1>5. QED
  BY <1>1, <1>3, <1>4 DEF MissingSince

(* What the answers say, with what it rests on: a call that was made noted *)
(* a version, and status and ran change together with the request.         *)
AnswerInv ==
  /\ \A t \in Tasks : stage[t] # "idle" \/ status[t] = 404 => call[t].since # 0
  /\ RejectedIsNotExecuted /\ NotFoundAnswerIsHonest /\ ExecutedIsRequested

LEMMA AnswerSteps ==
  ASSUME TypeOK, ServedScriptIsARow, NotFoundIsHonest, HandlerInv, AnswerInv,
         [NextHandler]_allVars
  PROVE  AnswerInv'
<1> USE DEF AnswerInv, RejectedIsNotExecuted, ExecutedIsRequested
<1>1. [Next]_vars
  BY StorageSteps
<1>2. \A t \in Tasks : call[t].id \in ScriptIds /\ call[t].since \in Nat
  BY DEF TypeOK, TaskTypeOK, Call
<1>3. ASSUME NEW t \in Tasks, call'[t] = call[t], status[t] = 404
      PROVE  \E v \in call'[t].since .. Len(history'[call'[t].id]) :
               history'[call'[t].id][v] = NoRow
  <2>1. PICK s \in ScriptIds, n \in Nat : s = call[t].id /\ n = call[t].since /\ n # 0
    BY <1>2, <1>3
  <2>2. MissingSince(s, n)
    BY <1>3, <2>1 DEF NotFoundAnswerIsHonest, MissingSince
  <2>3. MissingSince(s, n)'
    BY <1>1, <2>1, <2>2, MissingStays
  <2>4. QED
    BY <1>3, <2>1, <2>3 DEF MissingSince
<1>4. ASSUME NEW t \in Tasks, call'[t] = call[t], ran'[t] = ran[t], ran[t] # NullScript
      PROVE  IsRowOf(ran[t], call[t].id)'
  <2>1. PICK s \in ScriptIds, script \in {ran[t]} : s = call[t].id /\ script = ran[t]
    BY <1>2
  <2>2. IsRowOf(script, s)'
    BY <1>1, <1>4, <2>1, RowsStay
  <2>3. QED
    BY <1>4, <2>1, <2>2 DEF IsRowOf, Version
<1>5. ASSUME call' = call, UNCHANGED <<stage, status, ran, result>> PROVE AnswerInv'
  BY <1>3, <1>4, <1>5 DEF NotFoundAnswerIsHonest
<1>6. CASE UNCHANGED allVars
  BY <1>5, <1>6 DEF allVars, vars, handler
<1>7. CASE (\E s \in ScriptIds : TableStep(s)) \/ (\E u \in Tasks : StorageStep(u))
  BY <1>5, <1>7, CallsStay DEF TableStep, StorageStep, handler
<1>8. ASSUME NEW t \in Tasks, GetScriptById(t), alive PROVE AnswerInv'
  BY <1>8 DEF GetScriptById, Reply, StorageStatus, vars, HandlerInv, NotFoundIsHonest,
              NotFoundAnswerIsHonest, IsRowOf, Version
<1>9. ASSUME NEW t \in Tasks, BuildExecutionContext(t), alive PROVE AnswerInv'
  BY <1>9 DEF BuildExecutionContext, Reply, vars, HandlerInv, NotFoundAnswerIsHonest,
              IsRowOf, Version
<1>10. ASSUME NEW t \in Tasks, NEW how \in {"ok"} \cup Thrown, ExecuteScript(t, how)
       PROVE  AnswerInv'
  <2>1. IsRowOf(held[t], call[t].id)
    BY <1>10 DEF ExecuteScript, HandlerInv, ServedScriptIsARow
  <2>2. /\ UNCHANGED <<call, history>> /\ status[t] = 0
        /\ ran' = [ran EXCEPT ![t] = held[t]] /\ result' = [result EXCEPT ![t] = how]
        /\ \/ stage' = [stage EXCEPT ![t] = "answer"] /\ status' = status
           \/ stage' = [stage EXCEPT ![t] = "idle"] /\ status' = [status EXCEPT ![t] = 500]
    BY <1>10 DEF ExecuteScript, Reply, vars, HandlerInv
  <2>3. \A u \in Tasks : status'[u] \in {200, 400, 404} => u # t /\ status'[u] = status[u]
    BY <2>2 DEF HandlerInv
  <2>4. \A u \in Tasks \ {t} : ran'[u] = ran[u] /\ result'[u] = result[u]
                               /\ stage'[u] = stage[u]
    BY <2>2 DEF HandlerInv
  <2>5. NotFoundAnswerIsHonest'
    BY <2>2, <2>3 DEF NotFoundAnswerIsHonest
  <2>6. \A u \in Tasks : stage'[u] # "idle" \/ status'[u] = 404 => call'[u].since # 0
    BY <1>10, <2>2, <2>3, <2>4 DEF ExecuteScript
  <2>7. \A u \in Tasks : ran'[u] # NullScript => IsRowOf(ran[u], call[u].id)'
    BY <2>1, <2>2, <2>4 DEF HandlerInv, IsRowOf, Version
  <2>8. QED
    BY <2>3, <2>4, <2>5, <2>6, <2>7
<1>11. ASSUME NEW t \in Tasks, Terminate(t) PROVE AnswerInv'
  <2>1. IsRowOf(held[t], call[t].id)
    BY <1>11 DEF Terminate, HandlerInv, ServedScriptIsARow
  <2>2. QED
    BY <1>11, <2>1 DEF Terminate, vars, HandlerInv, NotFoundAnswerIsHonest, IsRowOf, Version
<1>12. ASSUME NEW t \in Tasks, Respond(t) PROVE AnswerInv'
  BY <1>12 DEF Respond, Reply, vars, HandlerInv, NotFoundAnswerIsHonest, IsRowOf, Version
<1>13. ASSUME NEW t \in Tasks, NEW id \in ScriptIds \cup {BadId}, NEW b,
              HandleRequest(t, id, b)
       PROVE  AnswerInv'
  <2>1. ran'[t] = NullScript
    BY <1>13 DEF HandleRequest, HandlerInv
  <2>2. CASE id = BadId /\ Reply(t, 400) /\ UNCHANGED vars
    BY <1>13, <2>1, <2>2 DEF HandleRequest, Reply, vars, HandlerInv, NotFoundAnswerIsHonest,
                             IsRowOf, Version
  <2>3. CASE id # BadId /\ Get(t, id) /\ stage' = [stage EXCEPT ![t] = "script"]
             /\ status' = [status EXCEPT ![t] = 0]
    <3>1. DOMAIN call = Tasks /\ applied[id] # 0 /\ history' = history
      BY <2>3 DEF TypeOK, TaskTypeOK, DbTypeOK, Version, Get, Begin, db
    <3>2. call'[t].since # 0 /\ \A u \in Tasks \ {t} : call'[u] = call[u]
      BY <2>3, <3>1 DEF Get, Begin
    <3>3. QED
      BY <1>13, <2>1, <2>3, <3>1, <3>2 DEF HandleRequest, HandlerInv, NotFoundAnswerIsHonest,
                                          IsRowOf, Version
  <2>4. QED
    BY <1>13, <2>2, <2>3 DEF HandleRequest
<1>14. CASE alive /\ \E t \in Tasks : RequestStep(t)
  BY <1>8, <1>9, <1>10, <1>12, <1>14 DEF RequestStep
<1>15. QED
  BY <1>6, <1>7, <1>11, <1>13, <1>14 DEF NextHandler

LEMMA AnswerInvariant == SpecHandler => []AnswerInv
<1>1. InitHandler => AnswerInv
  BY DEF InitHandler, AnswerInv, RejectedIsNotExecuted, NotFoundAnswerIsHonest,
         ExecutedIsRequested
<1>2. SpecHandler => [](TypeOK /\ ServedScriptIsARow /\ NotFoundIsHonest)
  BY HandlerImplementsStorageClients, TypeCorrect, ServedScriptsAreRows,
     NotFoundErrorsAreHonest, PTL
<1>3. QED
  BY <1>1, <1>2, HandlerInvariant, AnswerSteps, PTL DEF SpecHandler

\* No request that is answered 400 or 404 has started a script.
THEOREM RejectionsRunNothing == SpecHandler => []RejectedIsNotExecuted
<1>1. AnswerInv => RejectedIsNotExecuted
  BY DEF AnswerInv
<1>2. QED
  BY <1>1, AnswerInvariant, PTL

(* 404 is answered only of a row that was missing from some host while the *)
(* request was handled, with and without the cache.                        *)
THEOREM NotFoundAnswersAreHonest == SpecHandler => []NotFoundAnswerIsHonest
<1>1. AnswerInv => NotFoundAnswerIsHonest
  BY DEF AnswerInv
<1>2. QED
  BY <1>1, AnswerInvariant, PTL

\* What is executed for a request is the script it asked for.
THEOREM ExecutionsAreRequested == SpecHandler => []ExecutedIsRequested
<1>1. AnswerInv => ExecutedIsRequested
  BY DEF AnswerInv
<1>2. QED
  BY <1>1, AnswerInvariant, PTL

-----------------------------------------------------------------------------
(* The refinement mapping: what a client sees of a state.                  *)

Pending == {t \in Tasks : stage[t] # "idle"}
Asked == [t \in Tasks |-> call[t].id]
Since == [t \in Tasks |-> call[t].since]
RowRun(script) ==
  IF script = NullScript THEN NoRow
  ELSE [projectId |-> script.projectId, sourceCode |-> script.sourceCode]
Ran == [t \in Tasks |-> RowRun(ran[t])]

\* What starting a script, once the storage has answered it, shows of it.
LEMMA RunIsAllowed ==
  ASSUME TypeOK, ServedScriptIsARow, AnswerFreshness, HandlerInv,
         NEW t \in Tasks, stage[t] = "execute", ran' = [ran EXCEPT ![t] = held[t]]
  PROVE  \E v \in (IF useCache_ THEN 1 ELSE Since[t]) .. Len(history[Asked[t]]) :
           /\ history[Asked[t]][v] \in {row \in Row : Usable(row)}
           /\ Ran' = [Ran EXCEPT ![t] = history[Asked[t]][v]]
<1> DEFINE v == held[t].version
           row == [projectId |-> held[t].projectId, sourceCode |-> held[t].sourceCode]
<1>1. /\ held[t] \in Script /\ held[t] # NullScript /\ outcome[t] = "script"
      /\ call[t].id \in ScriptIds /\ call[t].since \in Nat
  BY StorageAssumption DEF HandlerInv, TypeOK, TaskTypeOK, Call
<1>2. IsRowOf(held[t], call[t].id)
  BY <1>1 DEF ServedScriptIsARow
<1>3. v \in 1 .. Len(history[Asked[t]]) /\ history[Asked[t]][v] = row
  BY <1>2 DEF IsRowOf, Version, Asked
<1>4. row \in Row /\ Usable(row)
  BY <1>1, <1>2, StorageAssumption DEF Script, Row, Usable, IsRowOf
<1>5. ~useCache_ => v >= Since[t]
  BY <1>1 DEF AnswerFreshness, Since
<1>6. Len(history[Asked[t]]) \in Nat
  BY <1>1 DEF TypeOK, DbTypeOK, Asked
<1>7. v \in (IF useCache_ THEN 1 ELSE Since[t]) .. Len(history[Asked[t]])
  BY <1>1, <1>3, <1>5, <1>6 DEF Since
<1>8. Ran' = [Ran EXCEPT ![t] = row]
  BY <1>1 DEF Ran, RowRun, HandlerInv
<1>9. QED
  BY <1>3, <1>4, <1>7, <1>8

\* Steps of the table and of the storage.
LEMMA StorageIsInvisible ==
  ASSUME (\E s \in ScriptIds : TableStep(s)) \/ (\E t \in Tasks : StorageStep(t)), alive
  PROVE  [Service!Next]_(Service!vars)
<1>1. UNCHANGED <<call, stage, body, status, ran, result, alive>>
  BY CallsStay DEF TableStep, StorageStep, handler
<1>2. CASE \E t \in Tasks : StorageStep(t)
  <2>1. UNCHANGED <<history, applied>>
    BY <1>2 DEF StorageStep, Lookup, Fetch, FetchFails, Put, db
  <2>2. QED
    BY <1>1, <2>1 DEF Service!vars
<1>3. ASSUME NEW s \in ScriptIds, TableStep(s) PROVE Service!Change(s)
  BY <1>1, <1>3 DEF TableStep, Replicate, WriteRow, Service!Change
<1>4. QED
  BY <1>2, <1>3 DEF Service!Next

\* A request that arrives.
LEMMA ArrivalIsAcceptOrRefuse ==
  ASSUME TypeOK, HandlerInv, alive, NEW t \in Tasks, NEW id \in ScriptIds \cup {BadId}, NEW b,
         HandleRequest(t, id, b)
  PROVE  Service!Next
<1>1. /\ stage[t] = "idle" /\ ran' = [ran EXCEPT ![t] = NullScript]
      /\ result' = [result EXCEPT ![t] = "none"] /\ alive' = alive
  BY DEF HandleRequest
<1>2. Ran' = [Ran EXCEPT ![t] = NoRow]
  BY <1>1 DEF Ran, RowRun, HandlerInv
<1>3. CASE Reply(t, 400) /\ UNCHANGED vars
  <2>1. Pending' = Pending /\ UNCHANGED <<history, applied, Asked, Since>>
    BY <1>1, <1>3 DEF Reply, vars, Pending, Asked, Since, HandlerInv
  <2>2. Service!Refuse(t)
    BY <1>1, <1>2, <1>3, <2>1 DEF Service!Refuse, Service!table, Reply, Pending, Asked, Since,
                                  Ran, RowRun
  <2>3. QED
    BY <2>2 DEF Service!Next
<1>4. CASE /\ id # BadId /\ Get(t, id) /\ stage' = [stage EXCEPT ![t] = "script"]
           /\ status' = [status EXCEPT ![t] = 0]
  <2>1. /\ Pending' = Pending \cup {t} /\ t \notin Pending /\ UNCHANGED <<history, applied>>
        /\ id \in ScriptIds
    BY <1>1, <1>4 DEF Get, Begin, db, Pending, HandlerInv
  <2>2. Asked' = [Asked EXCEPT ![t] = id] /\ Since' = [Since EXCEPT ![t] = applied[id]]
    BY <1>4 DEF Get, Begin, Asked, Since, TypeOK, TaskTypeOK
  <2>3. Service!Accept(t, id)
    BY <1>1, <1>2, <1>4, <2>1, <2>2 DEF Service!Accept, Service!table, Pending, Asked, Since,
                                        Ran, RowRun
  <2>4. QED
    BY <2>1, <2>3 DEF Service!Next
<1>5. QED
  BY <1>3, <1>4 DEF HandleRequest

\* A request that ends without having executed anything.
LEMMA RejectionIsAllowed ==
  ASSUME HandlerInv, alive, NEW t \in Tasks, NEW code \in {400, 404, 500},
         stage[t] \in {"script", "context"}, Reply(t, code),
         code = 404 => \E v \in call[t].since .. Len(history[call[t].id]) :
                         history[call[t].id][v] = NoRow,
         UNCHANGED <<vars, ran, result, alive>>
  PROVE  Service!Next
<1>1. result[t] = "none" /\ t \in Pending /\ Pending' = Pending \ {t}
  BY DEF HandlerInv, Pending, Reply
<1>2. UNCHANGED <<history, applied, Asked, Since, Ran>>
  BY DEF vars, Asked, Since, Ran
<1>3. Service!Reject(t, code)
  BY <1>1, <1>2 DEF Service!Reject, Service!Answer, Service!WasMissing, Service!table, Pending,
                    Asked, Since, Ran, RowRun, Reply
<1>4. QED
  BY <1>3 DEF Service!Next

\* A script that is executed.
LEMMA ExecutionIsRun ==
  ASSUME TypeOK, ServedScriptIsARow, AnswerFreshness, HandlerInv, alive, NEW t \in Tasks,
         \/ \E how \in {"ok"} \cup Thrown : ExecuteScript(t, how)
         \/ Terminate(t)
  PROVE  Service!Next
<1>1. /\ stage[t] = "execute" /\ ran' = [ran EXCEPT ![t] = held[t]] /\ UNCHANGED vars
      /\ result[t] = "none" /\ t \in Pending
  BY DEF ExecuteScript, Terminate, HandlerInv, Pending
<1>2. UNCHANGED <<history, applied, Asked, Since>>
  BY <1>1 DEF vars, Asked, Since
<1>3. PICK v \in (IF useCache_ THEN 1 ELSE Since[t]) .. Len(history[Asked[t]]) :
        /\ history[Asked[t]][v] \in {row \in Row : Usable(row)}
        /\ Ran' = [Ran EXCEPT ![t] = history[Asked[t]][v]]
  BY <1>1, RunIsAllowed
<1>4. \/ result' = [result EXCEPT ![t] = "ok"] /\ UNCHANGED <<Pending, status, alive>>
      \/ /\ \E how \in Thrown : result' = [result EXCEPT ![t] = how]
         /\ Pending' = Pending \ {t} /\ status' = [status EXCEPT ![t] = 500]
         /\ UNCHANGED alive
      \/ alive' = FALSE /\ UNCHANGED <<Pending, result, status>>
  <2>1. CASE Terminate(t)
    BY <2>1 DEF Terminate, Pending
  <2>2. ASSUME ExecuteScript(t, "ok")
        PROVE  result' = [result EXCEPT ![t] = "ok"] /\ UNCHANGED <<Pending, status, alive>>
    BY <1>1, <2>2 DEF ExecuteScript, Reply, Pending, HandlerInv
  <2>3. ASSUME NEW how \in Thrown, ExecuteScript(t, how)
        PROVE  /\ result' = [result EXCEPT ![t] = how]
               /\ Pending' = Pending \ {t} /\ status' = [status EXCEPT ![t] = 500]
               /\ UNCHANGED alive
    BY <2>3 DEF ExecuteScript, Reply, Pending, HandlerInv, Thrown
  <2>4. QED
    BY <2>1, <2>2, <2>3
<1>5. Service!Run(t)
  BY <1>1, <1>2, <1>3, <1>4 DEF Service!Run, Service!Oldest, Service!Answer, Service!table,
                               Pending, Asked, Since, Ran, RowRun
<1>6. QED
  BY <1>5 DEF Service!Next

(* Refinement: for any number of requests and scripts, with and without    *)
(* the cache, the handler over the storage is the service LambdaService    *)
(* describes.                                                              *)
THEOREM HandlerImplementsService == SpecHandler => ImplementsService
<1>1. InitHandler => Service!Init
  BY DEF InitHandler, Init, Service!Init
<1> DEFINE Facts == /\ TypeOK /\ ServedScriptIsARow /\ AnswerFreshness /\ NotFoundIsHonest
                    /\ HandlerInv
<1>2. Facts /\ [NextHandler]_allVars => [Service!Next]_(Service!vars)
  <2> SUFFICES ASSUME Facts, [NextHandler]_allVars PROVE [Service!Next]_(Service!vars)
    OBVIOUS
  <2>1. CASE UNCHANGED allVars
    BY <2>1 DEF allVars, vars, handler, Service!vars
  <2>2. CASE alive /\ ((\E s \in ScriptIds : TableStep(s)) \/ (\E t \in Tasks : StorageStep(t)))
    BY <2>2, StorageIsInvisible
  <2>3. ASSUME NEW t \in Tasks, GetScriptById(t), alive PROVE [Service!Next]_(Service!vars)
    <3>1. CASE outcome[t] # "script"
      <4>1. /\ stage[t] = "script" /\ Reply(t, StorageStatus(outcome[t]))
            /\ UNCHANGED <<vars, ran, result, alive>>
        BY <2>3, <3>1 DEF GetScriptById
      <4>2. \/ StorageStatus(outcome[t]) = 500
            \/ StorageStatus(outcome[t]) = 404 /\ outcome[t] = "NotFoundScriptError"
        BY DEF StorageStatus
      <4>3. QED
        BY <2>3, <4>1, <4>2, RejectionIsAllowed DEF NotFoundIsHonest
    <3>2. CASE outcome[t] = "script"
      <4>1. UNCHANGED <<vars, status, ran, result, alive, Pending>>
        BY <2>3, <3>2 DEF GetScriptById, Pending, HandlerInv
      <4>2. QED
        BY <4>1 DEF Service!vars, vars, Pending
    <3>3. QED
      BY <3>1, <3>2
  <2>4. ASSUME NEW t \in Tasks, BuildExecutionContext(t), alive
        PROVE  [Service!Next]_(Service!vars)
    <3>1. CASE Reply(t, 400)
      <4>1. stage[t] = "context" /\ UNCHANGED <<vars, ran, result, alive>>
        BY <2>4 DEF BuildExecutionContext
      <4>2. QED
        BY <2>4, <3>1, <4>1, RejectionIsAllowed
    <3>2. CASE stage' = [stage EXCEPT ![t] = "execute"] /\ UNCHANGED status
      <4>1. UNCHANGED <<vars, status, ran, result, alive, Pending>>
        BY <2>4, <3>2 DEF BuildExecutionContext, Pending, HandlerInv
      <4>2. QED
        BY <4>1 DEF Service!vars, vars, Pending
    <3>3. QED
      BY <2>4, <3>1, <3>2 DEF BuildExecutionContext
  <2>5. ASSUME NEW t \in Tasks, alive,
               (\E how \in {"ok"} \cup Thrown : ExecuteScript(t, how)) \/ Terminate(t)
        PROVE  Service!Next
    BY <2>5, ExecutionIsRun
  <2>6. ASSUME NEW t \in Tasks, Respond(t), alive PROVE Service!Next
    <3>1. /\ t \in Pending /\ result[t] = "ok" /\ Pending' = Pending \ {t}
          /\ status' = [status EXCEPT ![t] = 200] /\ UNCHANGED <<vars, ran, result, alive>>
      BY <2>6 DEF Respond, Reply, Pending, HandlerInv
    <3>2. Service!Respond(t)
      BY <3>1 DEF Service!Respond, Service!Answer, Service!table, vars, Pending
    <3>3. QED
      BY <2>6, <3>2 DEF Service!Next
  <2>7. ASSUME NEW t \in Tasks, NEW id \in ScriptIds \cup {BadId}, NEW b, alive,
               HandleRequest(t, id, b)
        PROVE  Service!Next
    BY <2>7, ArrivalIsAcceptOrRefuse
  <2>8. CASE alive /\ \E t \in Tasks : RequestStep(t)
    BY <2>3, <2>4, <2>5, <2>6, <2>8 DEF RequestStep
  <2>9. QED
    BY <2>1, <2>2, <2>5, <2>7, <2>8 DEF NextHandler
<1>3. SpecHandler => []Facts
  BY HandlerImplementsStorageClients, TypeCorrect, ServedScriptsAreRows, AnswersAreFresh,
     NotFoundErrorsAreHonest, HandlerInvariant, PTL
<1>4. QED
  BY <1>1, <1>2, <1>3, PTL DEF SpecHandler, ImplementsService, Service!Spec

=============================================================================
