---------------------------- MODULE LuaExecutor -----------------------------
(***************************************************************************)
(* engine::lua::Executor::Execute: one execution of one script, with its   *)
(* time limit and with the way of the HTTP request into the Lua state and  *)
(* of the response into it and back.                                       *)
(*                                                                         *)
(* The script is any sequence of virtual machine instructions.  The count  *)
(* hook that checks the time limit runs once per HookPeriod instructions   *)
(* of a thread: the main one or a coroutine, which inherits the hook and   *)
(* has a counter of its own.  It runs neither inside a C function, which   *)
(* takes any time and may never return, nor inside a finalizer (__gc),     *)
(* whose instructions are counted with the hook off.  Finalizers also run  *)
(* after lua_pcall, the last ones when the Lua state is closed.            *)
(***************************************************************************)
EXTENDS HttpMessage

CONSTANTS
  Timeout,      \* ExecuteOptions::timeout
  HookPeriod,   \* kInstructionsBeforeHoock
  MaxThreads,   \* how deep coroutines may resume one another
  MaxStep,      \* bound: the longest time one instruction takes, calls aside
  MaxSetup,     \* bound: the longest time one step of the preparation takes
  MaxNow,       \* bound: where the clock stops
  JsonRequests, \* the requests clients send
  Statuses,     \* numbers a script may put into the status field, in tenths
  LuaHeaders,   \* tables a script may leave as the headers
  IllTyped,     \* a value of a type the response field does not admit
  Bodies,       \* values of the body and of a header: texts, tables, numbers
  ToText        \* what LuaType::ToString makes of them

ASSUME ExecutorAssumption ==
  /\ Timeout \in Nat /\ HookPeriod \in Nat \ {0}
  /\ MaxThreads \in Nat \ {0} /\ MaxNow \in Nat \ {0}
  /\ MaxStep \in Nat \ {0} /\ MaxSetup \in Nat
  /\ JsonRequests \subseteq JsonRequest
  /\ Statuses \subseteq Int /\ 10 * 200 \in Statuses
  /\ Texts \subseteq Bodies
  /\ LuaHeaders \subseteq UNION {[S -> Bodies] : S \in SUBSET Names}
  /\ EmptyMap \in LuaHeaders
  /\ ToText \in [Bodies -> Texts] /\ \A x \in Texts : ToText[x] = x
  /\ IllTyped \notin Statuses /\ IllTyped \notin LuaHeaders

(***************************************************************************)
(* now is the steady clock; deadline_ the field of the TimeoutChecker,     *)
(* whose initial value is the epoch 0; hooked says that the count hook is  *)
(* set.  mode is what the Lua state is doing: "lua" for instructions, or   *)
(* "call" for a C function, "gc" for a finalizer.  The threads that resume *)
(* one another are 1 (the main one) to running, and count[k] is how many   *)
(* instructions of thread k ran since the hook was set or last called.     *)
(* json is what the client sent; request and response are those of the     *)
(* ExecutionContext, env the LuaTTable of the response in luaEnv, incoming *)
(* and global the tables of the request and the response the script sees.  *)
(* What it does to the former, nobody reads.  outcome is how Execute       *)
(* ended.  Two are history variables: started is when lua_pcall was        *)
(* entered, late[k] how many instructions thread k has begun after the     *)
(* deadline, since it was last resumed or interrupted by a finalizer.      *)
(***************************************************************************)
VARIABLES pc, mode, now, deadline_, hooked, running, count, late, json, request, response,
          env, incoming, global, outcome, started

threads == <<running, count, late>>
clock   == <<now, deadline_, hooked, started>>
asked   == <<json, request, incoming>>
tables  == <<asked, env, global>>
vars    == <<pc, mode, now, deadline_, hooked, running, count, late, json, request, response,
             env, incoming, global, outcome, started>>

\* What a script can leave in the global table.
LuaResponse == [status : Statuses \cup {IllTyped}, headers : LuaHeaders \cup {IllTyped},
                body : Bodies]

Integral(tenths) == IF tenths >= 0 THEN tenths \div 10 ELSE -((-tenths) \div 10)

Fits(tenths) == Integral(tenths) \in 0 .. (StatusModulus - 1)

(* The cast of a double to the enumeration drops the fraction.  Where the  *)
(* result does not fit the cast is undefined: the instructions compilers   *)
(* use keep the low bits, or give 0 when not even 32 bits are enough.      *)
StatusCast(tenths) ==
  IF Fits(tenths) THEN {Integral(tenths)}
  ELSE {Integral(tenths) % StatusModulus, 0}

\* Any value of a header and any body becomes a text.
PopulateNativeResponseFrom(table) ==
  {[status |-> s, headers |-> [n \in DOMAIN h |-> ToText[h[n]]],
    body |-> ToText[table.body]] :
     s \in StatusCast(table.status), h \in Emplaced(table.headers)}

Init ==
  /\ pc = "create" /\ outcome = "none"
  /\ now = 1 /\ deadline_ = 0 /\ started = 0
  /\ mode = "lua" /\ hooked = FALSE
  /\ running = 1
  /\ count = [k \in 1 .. MaxThreads |-> 0] /\ late = [k \in 1 .. MaxThreads |-> 0]
  /\ json \in JsonRequests /\ request \in FromJson(json)
  /\ response = Default
  /\ env = PopulateLuaResponseFrom(Default) /\ global = env
  /\ incoming = Missing

\* Mutant: the clock stands still.
ElapseFrozen(d) == UNCHANGED now

Capped(t) == IF t > MaxNow THEN MaxNow ELSE t

\* std::chrono::steady_clock.
Elapse(d) == now' = Capped(now + d)

\* What takes any time.
ElapseFreely == now' \in now .. MaxNow

-----------------------------------------------------------------------------
(* The preparation, in the order of Execute.                               *)

\* Make the Lua state, upload the code, make the modules and the checkers.
\* Each of them may throw: nothing has touched the response yet.
Create ==
  /\ pc = "create"
  /\ \E d \in 0 .. MaxSetup : Elapse(d)
  /\ \/ pc' = "attach" /\ UNCHANGED outcome
     \/ pc' = "done" /\ outcome' = "exception"
  /\ UNCHANGED <<mode, deadline_, hooked, started, threads, response, tables>>

\* Mutant: the checker is put into the registry but no hook is set.
AttachWithoutHook ==
  /\ pc = "attach" /\ pc' = "enter"
  /\ \E d \in 0 .. MaxSetup : Elapse(d)
  /\ UNCHANGED <<mode, hooked, deadline_, started, threads, response, tables, outcome>>

AttachTimeoutChecker ==
  /\ pc = "attach" /\ pc' = "enter"
  /\ hooked' = TRUE
  /\ \E d \in 0 .. MaxSetup : Elapse(d)
  /\ UNCHANGED <<mode, deadline_, started, threads, response, tables, outcome>>

\* The constructor of Context: request and response become tables of luaEnv.
Context ==
  /\ incoming' = PopulateLuaRequestFrom(request)
  /\ env' = PopulateLuaResponseFrom(response)

\* The ExecutionGuard makes the Context and pushes luaEnv as globals.
EnterGuard ==
  /\ pc = "enter" /\ pc' = "start"
  /\ Context /\ global' = env'
  /\ \E d \in 0 .. MaxSetup : Elapse(d)
  /\ UNCHANGED <<mode, deadline_, hooked, started, threads, json, request, response, outcome>>

\* Mutant: the deadline is never set.
StartWithoutDeadline ==
  /\ pc = "start" /\ pc' = "pcall"
  /\ started' = now
  /\ UNCHANGED <<mode, now, deadline_, hooked, threads, response, tables, outcome>>

\* TimeoutChecker::Start, then lua_pcall.
Start ==
  /\ pc = "start" /\ pc' = "pcall"
  /\ deadline_' = now + Timeout /\ started' = now
  /\ UNCHANGED <<mode, now, hooked, threads, response, tables, outcome>>

(* The Lua calls before and after lua_pcall are under the memory limit too, *)
(* but not protected: where the allocator refuses them, Lua panics and the *)
(* process aborts.  One of them is lua_tostring of an error that is a      *)
(* number, which makes a string of it.                                     *)
Panic ==
  /\ pc \in {"create", "attach", "enter", "message", "leave"} /\ mode = "lua"
  /\ pc' = "terminated"
  /\ UNCHANGED <<mode, clock, threads, response, tables, outcome>>

-----------------------------------------------------------------------------
(* The script.                                                             *)

IsExpired == deadline_ < now

\* Mutant: one instruction more per period.
HookIsLate == hooked /\ count[running] > HookPeriod

HookIsDue == hooked /\ count[running] = HookPeriod

\* The hook, called before another instruction runs: it counts anew, or its
\* exception unwinds lua_pcall, every coroutine and every pcall of the script.
Check ==
  /\ pc = "pcall" /\ mode = "lua" /\ HookIsDue
  /\ \/ IsExpired /\ pc' = "unwind" /\ outcome' = "ExecutionTimeout" /\ UNCHANGED count
     \/ ~IsExpired /\ count' = [count EXCEPT ![running] = 0] /\ UNCHANGED <<pc, outcome>>
  /\ UNCHANGED <<mode, clock, running, late, response, tables>>

\* The counters of the running thread, one instruction later.
Counted == IF hooked THEN count[running] + 1 ELSE count[running]
CountedLate == IF IsExpired THEN late[running] + 1 ELSE late[running]

Count ==
  /\ count' = [count EXCEPT ![running] = Counted]
  /\ late' = [late EXCEPT ![running] = CountedLate]

\* Lua code may assign one field of the response.
Assign ==
  \/ UNCHANGED global
  \/ \E s \in Statuses \cup {IllTyped} : global' = [global EXCEPT !.status = s]
  \/ \E h \in LuaHeaders \cup {IllTyped} : global' = [global EXCEPT !.headers = h]
  \/ \E b \in Bodies : global' = [global EXCEPT !.body = b]

\* Into a coroutine: a new one, or one that has run before.
Resume ==
  /\ running < MaxThreads /\ running' = running + 1
  /\ \E c \in 0 .. HookPeriod :
       count' = [count EXCEPT ![running] = Counted, ![running + 1] = c]
  /\ late' = [late EXCEPT ![running] = CountedLate, ![running + 1] = 0]

\* Out of it: it yields, returns or raises an error.
Yield ==
  /\ running > 1 /\ running' = running - 1
  /\ count' = [count EXCEPT ![running] = 0] /\ late' = [late EXCEPT ![running] = 0]

\* One instruction of the running thread, which takes time d.
Instruction(d) ==
  /\ pc = "pcall" /\ mode = "lua" /\ ~HookIsDue
  /\ Elapse(d)
  /\ \/ Count /\ Assign /\ UNCHANGED <<mode, running>>
     \/ Count /\ mode' = "call" /\ UNCHANGED <<running, global>>
     \/ (Resume \/ Yield) /\ UNCHANGED <<mode, global>>
  /\ UNCHANGED <<pc, deadline_, hooked, started, asked, response, env, outcome>>

\* The C function, of a module or of Lua itself, returns.
Return ==
  /\ mode = "call" /\ mode' = "lua"
  /\ ElapseFreely
  /\ UNCHANGED <<pc, deadline_, hooked, started, threads, response, tables, outcome>>

\* Where memory is allocated, a finalizer may run.
Collect ==
  /\ pc \in {"pcall", "message", "leave", "close"} /\ mode = "lua"
  /\ mode' = "gc"
  /\ UNCHANGED <<pc, clock, threads, response, tables, outcome>>

\* However many instructions it has run, the hook has passed over them; what
\* it does to the response when the state is closed, nobody reads.
FinalizerReturns ==
  /\ mode = "gc" /\ mode' = "lua" /\ pc # "terminated"
  /\ ElapseFreely
  /\ \E c \in 0 .. HookPeriod : count' = [count EXCEPT ![running] = c]
  /\ late' = [late EXCEPT ![running] = 0]
  /\ IF pc = "close" THEN UNCHANGED global ELSE Assign
  /\ UNCHANGED <<pc, deadline_, hooked, started, running, asked, response, env, outcome>>

\* A C++ exception of a module passes through lua_pcall, but not through the
\* destructors that pop the globals or close the state.
Throw ==
  /\ mode \in {"call", "gc"}
  /\ \/ pc = "pcall" /\ pc' = "unwind" /\ mode' = "lua" /\ outcome' = "exception"
     \/ /\ pc \in {"message", "leave", "close"}
        /\ pc' = "terminated" /\ UNCHANGED <<mode, outcome>>
  /\ UNCHANGED <<clock, threads, response, tables>>

\* lua_pcall returns an error of the main thread.
Fail ==
  /\ pc = "pcall" /\ mode = "lua" /\ running = 1
  /\ pc' = "message"
  /\ UNCHANGED <<mode, clock, threads, response, tables, outcome>>

Failures == {"OutOfMemoryLimit", "ExecutionError", "exception"}

\* The error becomes an exception.  One that is neither a string nor a number
\* has no message, and the exception made of it is a std::logic_error.
ErrorMessage ==
  /\ pc = "message" /\ mode = "lua"
  /\ pc' = "unwind" /\ outcome' \in Failures
  /\ UNCHANGED <<mode, clock, threads, response, tables>>

\* The script ends.
Finish ==
  /\ pc = "pcall" /\ mode = "lua" /\ running = 1
  /\ pc' = "leave"
  /\ UNCHANGED <<mode, clock, threads, response, tables, outcome>>

-----------------------------------------------------------------------------
(* ~ExecutionGuard and, inside it, ~Context; then ~LuaState.               *)

WellTyped(r) == r.status # IllTyped /\ r.headers # IllTyped

\* GetValueStrict throws on an ill-typed table, here out of a destructor,
\* which ends the process.
WriteBack(table, how) ==
  \/ /\ WellTyped(table)
     /\ response' \in PopulateNativeResponseFrom(table) /\ outcome' = how /\ pc' = "close"
  \/ /\ ~WellTyped(table)
     /\ pc' = "terminated" /\ UNCHANGED <<response, outcome>>

\* No exception: every global is popped into luaEnv first.
Leave ==
  /\ pc = "leave" /\ mode = "lua"
  /\ env' = global
  /\ WriteBack(global, "ok")
  /\ UNCHANGED <<mode, clock, threads, asked, global>>

\* Mutant: the globals are popped although an exception is in flight.
UnwindPopping ==
  /\ pc = "unwind"
  /\ env' = global
  /\ WriteBack(global, outcome)
  /\ UNCHANGED <<mode, clock, threads, asked, global>>

\* An exception is in flight: luaEnv still holds what was pushed.
Unwind ==
  /\ pc = "unwind"
  /\ WriteBack(env, outcome)
  /\ UNCHANGED <<mode, clock, threads, tables>>

\* The Lua state is closed, and the finalizers that are left have run.
Close ==
  /\ pc = "close" /\ mode = "lua"
  /\ pc' = "done"
  /\ UNCHANGED <<mode, clock, threads, response, tables, outcome>>

\* The handler has the outcome, or the process has ended.
Ended == pc \in {"done", "terminated"} /\ UNCHANGED vars

Next ==
  \/ Create \/ AttachTimeoutChecker \/ EnterGuard \/ Start \/ Panic
  \/ Check \/ Return \/ Collect \/ FinalizerReturns \/ Throw
  \/ Fail \/ ErrorMessage \/ Finish \/ Leave \/ Unwind \/ Close \/ Ended
  \/ \E d \in 1 .. MaxStep : Instruction(d)

Spec == Init /\ [][Next]_vars

(* The task runs, as nothing in Execute waits for another task.  Nothing   *)
(* is certain of C functions and finalizers: either may run forever.       *)
FairSpec == Spec /\ WF_vars(mode = "lua" /\ Next)

-----------------------------------------------------------------------------
Outcomes == {"none", "ok", "ExecutionTimeout"} \cup Failures

\* Every variable has its type; the hook is called on time.
TypeOK ==
  /\ pc \in {"create", "attach", "enter", "start", "pcall", "message", "leave", "unwind",
             "close", "done", "terminated"}
  /\ mode \in {"lua", "call", "gc"}
  /\ now \in 1 .. MaxNow /\ deadline_ \in Nat /\ started \in Nat
  /\ hooked \in BOOLEAN /\ running \in 1 .. MaxThreads
  /\ count \in [1 .. MaxThreads -> 0 .. HookPeriod] /\ late \in [1 .. MaxThreads -> Nat]
  /\ json \in JsonRequest /\ request \in Request
  /\ response \in Response /\ env \in LuaResponse /\ global \in LuaResponse
  /\ outcome \in Outcomes

(* What a script can still do once its time is up: every thread, the main  *)
(* one and each coroutine, begins at most HookPeriod instructions after    *)
(* the deadline, unless a finalizer, whose instructions the hook passes    *)
(* over, has run in between.  How long they take is another matter: one of *)
(* them may call a C function.                                             *)
OverrunBounded == \A k \in 1 .. MaxThreads : late[k] <= HookPeriod

(* ExecutionTimeout is thrown only after the script has run for more than  *)
(* Timeout: neither the preparation nor a deadline that is not yet set is  *)
(* held against it.                                                        *)
TimeoutIsDue == outcome = "ExecutionTimeout" => now > started + Timeout

\* sent holds what given does, each name once whatever its case.
SameHeaders(sent, given) ==
  /\ \A n \in DOMAIN sent : n \in DOMAIN given /\ sent[n] = ToText[given[n]]
  /\ \A n \in DOMAIN given : \E m \in DOMAIN sent : Lower[m] = Lower[n]
  /\ \A m, n \in DOMAIN sent : Lower[m] = Lower[n] => m = n

\* The answer is the table: its status, if it is one, without its fraction.
Agrees(answer, table) ==
  /\ table.status \in 0 .. (10 * StatusModulus - 1) =>
       10 * answer.status <= table.status /\ table.status < 10 * answer.status + 10
  /\ SameHeaders(OrElse(answer.headers, EmptyMap), table.headers)
  /\ answer.body = ToText[table.body]

(* All or nothing: the JSON of a script that ends says what it last left   *)
(* in the table, status, every header once, and body; and the response of  *)
(* one that fails, wherever it fails, has nothing of what it wrote before. *)
AnswerIsAllOrNothing ==
  pc = "done" => IF outcome = "ok" THEN Agrees(ToJson(response), global)
                 ELSE ToJson(response) = [status |-> 200, headers |-> Missing, body |-> ""]

(* The script finds the request the client sent: method, URL, parameters   *)
(* and body up to a NUL, and every header once, also when some are left    *)
(* out, or one is given twice in different cases.                          *)
RequestArrives ==
  incoming # Missing =>
    /\ incoming.method = json.method /\ incoming.url = json.url
    /\ incoming.query = OrElse(json.query, EmptyMap)
    /\ incoming.body = UpToNul[OrElse(json.body, "")]
    /\ SameHeaders(incoming.headers, OrElse(json.headers, EmptyMap))

(* Once an execution has failed with an exception, unwinding does not end  *)
(* the process, whatever the script left in the table: only an exception   *)
(* in one of its finalizers, when the Lua state is closed, still can.      *)
FailureIsReported == pc = "terminated" /\ mode # "gc" => outcome = "none"

(* A script that leaves a response of the wrong types fails like any other *)
(* script: the process does not end over the table that is converted.      *)
IllTypedIsReported == pc = "terminated" => WellTyped(env)

(* An execution ends, also of a script that would run forever and whatever *)
(* coroutines it makes, each with a fresh counter: unless one C function   *)
(* never returns, or finalizers run again and again or forever.            *)
ExecutionEnds ==
  <>(pc \in {"done", "terminated"}) \/ <>[](mode = "call") \/ []<>(mode = "gc")

-----------------------------------------------------------------------------
\* The caller of Execute sees how it ends, and the response then.
Promise == INSTANCE Execution WITH
  Responses <- Response,
  Untouched <- Default,
  response <- IF pc = "done" THEN response ELSE Default,
  Exceptions <- Failures \cup {"ExecutionTimeout"},
  outcome <- CASE pc = "done" -> outcome
               [] pc = "terminated" -> "terminated"
               [] OTHER -> "running"

(* However many steps it takes, and wherever it fails, Execute is one step *)
(* for its caller: it replaces the response and returns, or it leaves the  *)
(* response as it was and throws.  ExecuteLambda executes a script in one  *)
(* step for this reason.                                                   *)
ImplementsExecution == Promise!Spec

=============================================================================
