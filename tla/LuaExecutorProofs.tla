------------------------- MODULE LuaExecutorProofs --------------------------
(***************************************************************************)
(* LuaExecutor for every timeout, hook period, bound on the time of an     *)
(* instruction, request and script: the time limit, the way of the request *)
(* and the response, and the refinement of Execution.                      *)
(***************************************************************************)
EXTENDS LuaExecutor, TLAPS

InScript == {"pcall", "message", "leave"}

Threads == 1 .. MaxThreads

ClockType ==
  /\ now \in 1 .. MaxNow /\ deadline_ \in Nat /\ started \in Nat
  /\ running \in Threads
  /\ count \in [Threads -> 0 .. HookPeriod] /\ late \in [Threads -> Nat]

\* The hook has counted every instruction that was begun after the deadline.
LateInv == \A k \in Threads : late[k] <= count[k] /\ (late[k] > 0 => IsExpired)

\* The hook is set before the clock starts, and nothing is late until then.
ClockInv ==
  /\ ClockType /\ LateInv
  /\ pc \in {"create", "attach", "enter", "start"} => \A k \in Threads : late[k] = 0
  /\ pc \in {"enter", "start"} \cup InScript => hooked
  /\ pc \in InScript => deadline_ = started + Timeout
  /\ outcome = "ExecutionTimeout" =>
       pc \in {"unwind", "close", "done", "terminated"} /\ now > started + Timeout

\* The clock never goes back, nor past its end.
LEMMA ClockGoesOn ==
  ASSUME now \in 1 .. MaxNow, ElapseFreely \/ \E d \in Nat : Elapse(d)
  PROVE  now' \in 1 .. MaxNow /\ now' >= now
<1> MaxNow \in Nat
  BY ExecutorAssumption
<1>1. CASE ElapseFreely
  BY <1>1 DEF ElapseFreely
<1>2. ASSUME NEW d \in Nat, Elapse(d) PROVE now' \in 1 .. MaxNow /\ now' >= now
  BY <1>2 DEF Elapse, Capped
<1>3. QED
  BY <1>1, <1>2

\* What one instruction does to the counters.
LEMMA InstructionIsCounted ==
  ASSUME ClockInv, NEW d \in 1 .. MaxStep, Instruction(d)
  PROVE  /\ running' \in Threads
         /\ count' \in [Threads -> 0 .. HookPeriod] /\ late' \in [Threads -> Nat]
         /\ LateInv'
<1> HookPeriod \in Nat /\ MaxThreads \in Nat /\ MaxStep \in Nat
  BY ExecutorAssumption
<1> d \in Nat
  OBVIOUS
<1>1. /\ pc = "pcall" /\ hooked /\ count[running] # HookPeriod
      /\ deadline_' = deadline_ /\ Elapse(d)
  BY DEF ClockInv, InScript, Instruction, HookIsDue
<1>2. now' \in 1 .. MaxNow /\ now' >= now /\ now \in Int /\ deadline_ \in Int
  BY <1>1, ClockGoesOn DEF ClockInv, ClockType
<1>3. IsExpired => IsExpired'
  BY <1>1, <1>2 DEF IsExpired
<1>4. /\ running \in Threads /\ Counted = count[running] + 1 /\ Counted \in 0 .. HookPeriod
      /\ CountedLate \in Nat /\ CountedLate <= Counted /\ (CountedLate > 0 => IsExpired)
  <2>1. /\ running \in Threads /\ count[running] \in 0 .. HookPeriod /\ late[running] \in Nat
        /\ late[running] <= count[running] /\ (late[running] > 0 => IsExpired)
    BY DEF ClockInv, ClockType, LateInv
  <2>2. QED
    BY <1>1, <2>1 DEF Counted, CountedLate
<1> USE DEF ClockInv, ClockType
<1>5. CASE Count /\ UNCHANGED running
  BY <1>3, <1>4, <1>5 DEF Count, LateInv
<1>6. CASE Resume
  <2>1. running + 1 \in Threads /\ running' = running + 1 /\ running + 1 # running
    BY <1>4, <1>6 DEF Resume, Threads
  <2>2. PICK c \in 0 .. HookPeriod :
          count' = [count EXCEPT ![running] = Counted, ![running + 1] = c]
    BY <1>6 DEF Resume
  <2>3. late' = [late EXCEPT ![running] = CountedLate, ![running + 1] = 0]
    BY <1>6 DEF Resume
  <2>4. QED
    BY <1>3, <1>4, <2>1, <2>2, <2>3 DEF LateInv
<1>7. CASE Yield
  <2>1. running' \in Threads
    BY <1>4, <1>7 DEF Yield, Threads
  <2>2. QED
    BY <1>3, <1>4, <1>7, <2>1 DEF Yield, LateInv
<1>8. QED
  BY <1>5, <1>6, <1>7 DEF Instruction

LEMMA ClockInvariant == Spec => []ClockInv
<1> /\ Timeout \in Nat /\ HookPeriod \in Nat /\ MaxStep \in Nat /\ MaxSetup \in Nat
    /\ MaxThreads \in Nat \ {0} /\ MaxNow \in Nat \ {0}
  BY ExecutorAssumption
<1>1. Init => ClockInv
  BY DEF Init, ClockInv, ClockType, LateInv, InScript, Threads
<1>2. ClockInv /\ [Next]_vars => ClockInv'
  <2> SUFFICES ASSUME ClockInv, [Next]_vars PROVE ClockInv'
    OBVIOUS
  <2> USE DEF ClockInv, ClockType, LateInv, InScript, IsExpired
  <2>1. CASE UNCHANGED vars
    BY <2>1 DEF vars
  <2>2. CASE Create \/ AttachTimeoutChecker \/ EnterGuard
    <3>1. \E d \in Nat : Elapse(d)
      BY <2>2 DEF Create, AttachTimeoutChecker, EnterGuard
    <3>2. now' \in 1 .. MaxNow /\ now' >= now
      BY <3>1, ClockGoesOn
    <3>3. QED
      BY <2>2, <3>2 DEF Create, AttachTimeoutChecker, EnterGuard, threads
  <2>3. CASE Start
    BY <2>3 DEF Start, threads
  <2>4. CASE Check
    <3>1. CASE IsExpired
      BY <2>4, <3>1 DEF Check, HookIsDue, clock
    <3>2. CASE ~IsExpired
      <4>1. count' = [count EXCEPT ![running] = 0] /\ UNCHANGED <<pc, outcome, clock, running, late>>
        BY <2>4, <3>2 DEF Check
      <4>2. \A k \in Threads : late[k] = 0
        BY <3>2
      <4>3. QED
        BY <4>1, <4>2 DEF clock
    <3>3. QED
      BY <3>1, <3>2
  <2>5. ASSUME NEW d \in 1 .. MaxStep, Instruction(d) PROVE ClockInv'
    <3>1. now' \in 1 .. MaxNow /\ now' >= now
      BY <2>5, ClockGoesOn DEF Instruction
    <3>2. pc = "pcall" /\ UNCHANGED <<pc, deadline_, hooked, started, outcome>>
      BY <2>5 DEF Instruction
    <3>3. /\ running' \in Threads
          /\ count' \in [Threads -> 0 .. HookPeriod] /\ late' \in [Threads -> Nat]
          /\ LateInv'
      BY <2>5, InstructionIsCounted
    <3>4. QED
      BY <3>1, <3>2, <3>3
  <2>6. CASE Return
    <3>1. now' \in 1 .. MaxNow /\ now' >= now
      BY <2>6, ClockGoesOn DEF Return
    <3>2. QED
      BY <2>6, <3>1 DEF Return, threads
  <2>7. CASE FinalizerReturns
    <3>1. now' \in 1 .. MaxNow /\ now' >= now
      BY <2>7, ClockGoesOn DEF FinalizerReturns
    <3>2. PICK c \in 0 .. HookPeriod : count' = [count EXCEPT ![running] = c]
      BY <2>7 DEF FinalizerReturns
    <3>3. /\ late' = [late EXCEPT ![running] = 0]
          /\ UNCHANGED <<pc, deadline_, hooked, started, running, outcome>>
      BY <2>7 DEF FinalizerReturns
    <3>4. LateInv'
      BY <3>1, <3>2, <3>3
    <3>5. QED
      BY <3>1, <3>2, <3>3, <3>4
  <2>8. CASE Collect \/ Throw \/ Fail \/ ErrorMessage \/ Finish
    BY <2>8 DEF Collect, Throw, Fail, ErrorMessage, Failures, Finish, clock, threads
  <2>9. CASE Leave \/ Unwind
    BY <2>9 DEF Leave, Unwind, WriteBack, clock, threads
  <2>10. CASE Close \/ Panic \/ Ended
    BY <2>10 DEF Close, Panic, Ended, clock, threads, vars
  <2>11. QED
    BY <2>1, <2>2, <2>3, <2>4, <2>5, <2>6, <2>7, <2>8, <2>9, <2>10 DEF Next
<1>3. QED
  BY <1>1, <1>2, PTL DEF Spec

(* For any number of coroutines: no thread begins more than a period of    *)
(* instructions after the deadline, finalizers aside.                      *)
THEOREM OverrunIsBounded == Spec => []OverrunBounded
<1>1. ClockInv => OverrunBounded
  <2> SUFFICES ASSUME ClockInv, NEW k \in Threads PROVE late[k] <= HookPeriod
    BY DEF OverrunBounded, Threads
  <2>1. late[k] <= count[k] /\ count[k] \in 0 .. HookPeriod /\ late[k] \in Nat
    BY DEF ClockInv, ClockType, LateInv
  <2>2. QED
    BY <2>1, ExecutorAssumption
<1>2. QED
  BY <1>1, ClockInvariant, PTL

\* No script is stopped before its limit.
THEOREM TimeoutsAreDue == Spec => []TimeoutIsDue
<1>1. ClockInv => TimeoutIsDue
  BY DEF ClockInv, TimeoutIsDue
<1>2. QED
  BY <1>1, ClockInvariant, PTL

-----------------------------------------------------------------------------
(* The conversions of HttpMessage.                                         *)

\* No headers, and what the assumptions say of them.
LEMMA NoHeaders ==
  /\ EmptyMap \in Maps /\ DOMAIN EmptyMap = {} /\ Emplaced(EmptyMap) = {EmptyMap}
<1>1. DOMAIN EmptyMap = {} /\ EmptyMap \in [{} -> Texts]
  BY DEF EmptyMap
<1>2. EmptyMap \in Maps
  BY <1>1 DEF Maps
<1>3. Spellings({}) = {{}}
  BY DEF Spellings
<1>4. [n \in {} |-> EmptyMap[n]] = EmptyMap
  BY <1>1
<1>5. Emplaced(EmptyMap) = {EmptyMap}
  <2>1. Emplaced(EmptyMap) = {[n \in kept |-> EmptyMap[n]] : kept \in {{}}}
    BY <1>1, <1>3 DEF Emplaced
  <2>2. QED
    BY <2>1, <1>4
<1>6. QED
  BY <1>1, <1>2, <1>5

\* What emplacing the entries of a table keeps of it.
LEMMA EmplacedKeeps ==
  ASSUME NEW map, NEW h \in Emplaced(map)
  PROVE  /\ DOMAIN h \subseteq DOMAIN map
         /\ \A n \in DOMAIN h : h[n] = map[n]
         /\ \A n \in DOMAIN map : \E m \in DOMAIN h : Lower[m] = Lower[n]
         /\ \A m, n \in DOMAIN h : Lower[m] = Lower[n] => m = n
<1>1. PICK kept \in Spellings(DOMAIN map) : h = [n \in kept |-> map[n]]
  BY DEF Emplaced
<1>2. DOMAIN h = kept
  BY <1>1
<1>3. QED
  BY <1>1, <1>2 DEF Spellings

\* A status is cast to a status, whatever the number.
LEMMA CastIsStatus ==
  ASSUME NEW tenths \in Int
  PROVE  /\ StatusCast(tenths) \subseteq 0 .. (StatusModulus - 1)
         /\ tenths \in 0 .. (10 * StatusModulus - 1) =>
              \A s \in StatusCast(tenths) : 10 * s <= tenths /\ tenths < 10 * s + 10
<1>1. StatusModulus \in Nat /\ StatusModulus > 0
  BY DEF StatusModulus
<1>2. Integral(tenths) \in Int
  BY DEF Integral
<1>3. StatusCast(tenths) \subseteq 0 .. (StatusModulus - 1)
  <2>1. 0 \in 0 .. (StatusModulus - 1)
    BY <1>1
  <2>2. Integral(tenths) % StatusModulus \in 0 .. (StatusModulus - 1)
    BY <1>1, <1>2
  <2>3. QED
    BY <2>1, <2>2 DEF StatusCast, Fits
<1>4. ASSUME tenths \in 0 .. (10 * StatusModulus - 1), NEW s \in StatusCast(tenths)
      PROVE  10 * s <= tenths /\ tenths < 10 * s + 10
  <2>1. Integral(tenths) = tenths \div 10
    BY <1>1, <1>4 DEF Integral
  <2>2. PICK k \in Int : k = tenths \div 10 /\ 10 * k <= tenths /\ tenths < 10 * k + 10
    BY SMT
  <2>3. k \in 0 .. (StatusModulus - 1)
    BY <1>1, <1>4, <2>2
  <2>4. s = k
    BY <1>4, <2>1, <2>2, <2>3 DEF StatusCast, Fits
  <2>5. QED
    BY <2>2, <2>4
<1>5. QED
  BY <1>3, <1>4

\* The default response comes back from the Lua state as it went in.
LEMMA RoundTrip ==
  ASSUME NEW table, table = PopulateLuaResponseFrom(Default)
  PROVE  WellTyped(table) /\ PopulateNativeResponseFrom(table) = {Default}
<1>1. table.status = 10 * 200 /\ table.headers = EmptyMap /\ table.body = ""
  BY MessageAssumption DEF PopulateLuaResponseFrom, PopulateLuaMassageFrom, Default
<1>2. ToText[""] = "" /\ IllTyped # 10 * 200 /\ IllTyped # EmptyMap
  BY ExecutorAssumption, MessageAssumption
<1>3. StatusCast(10 * 200) = {200}
  BY DEF StatusCast, Fits, Integral, StatusModulus
<1>4. [n \in DOMAIN EmptyMap |-> ToText[EmptyMap[n]]] = EmptyMap
  BY NoHeaders DEF EmptyMap
<1>5. PopulateNativeResponseFrom(table) = {Default}
  <2> DEFINE R(s, h) == [status |-> s, headers |-> [n \in DOMAIN h |-> ToText[h[n]]],
                         body |-> ToText[table.body]]
  <2>1. R(200, EmptyMap) = Default
    BY <1>1, <1>2, <1>4 DEF Default
  <2>2. \A r : r \in PopulateNativeResponseFrom(table) <=>
                 \E s \in StatusCast(table.status), h \in Emplaced(table.headers) : r = R(s, h)
    BY DEF PopulateNativeResponseFrom
  <2> HIDE DEF R
  <2>3. StatusCast(table.status) = {200} /\ Emplaced(table.headers) = {EmptyMap}
    BY <1>1, <1>3, NoHeaders
  <2>4. ASSUME NEW r \in PopulateNativeResponseFrom(table) PROVE r = Default
    <3>1. PICK s \in StatusCast(table.status), h \in Emplaced(table.headers) : r = R(s, h)
      BY <2>2, <2>4
    <3>2. s = 200 /\ h = EmptyMap
      BY <2>3
    <3>3. QED
      BY <2>1, <3>1, <3>2
  <2>5. Default \in PopulateNativeResponseFrom(table)
    <3>1. 200 \in StatusCast(table.status) /\ EmptyMap \in Emplaced(table.headers)
      BY <2>3
    <3>2. QED
      BY <2>1, <2>2, <3>1
  <2>6. QED
    BY <2>4, <2>5, Zenon
<1>6. QED
  BY <1>1, <1>2, <1>5 DEF WellTyped

\* What is written back of a well-typed table is a response, and the table's.
LEMMA WrittenBack ==
  ASSUME NEW table \in LuaResponse, WellTyped(table),
         NEW r \in PopulateNativeResponseFrom(table)
  PROVE  r \in Response /\ Agrees(ToJson(r), table)
<1>1. /\ table.status \in Int /\ table.headers \in LuaHeaders /\ table.body \in Bodies
  BY ExecutorAssumption DEF LuaResponse, WellTyped
<1>2. PICK s \in StatusCast(table.status), h \in Emplaced(table.headers) :
        r = [status |-> s, headers |-> [n \in DOMAIN h |-> ToText[h[n]]],
             body |-> ToText[table.body]]
  BY DEF PopulateNativeResponseFrom
<1> DEFINE sent == [n \in DOMAIN h |-> ToText[h[n]]]
<1>3. PICK S \in SUBSET Names : table.headers \in [S -> Bodies]
  BY <1>1, ExecutorAssumption
<1>4. /\ DOMAIN h \subseteq S /\ \A n \in DOMAIN h : h[n] \in Bodies /\ h[n] = table.headers[n]
      /\ \A n \in S : \E m \in DOMAIN h : Lower[m] = Lower[n]
      /\ \A m, n \in DOMAIN h : Lower[m] = Lower[n] => m = n
  BY <1>3, EmplacedKeeps
<1>5. sent \in Maps
  <2>1. sent \in [DOMAIN h -> Texts]
    BY <1>4, ExecutorAssumption
  <2>2. QED
    BY <2>1, <1>4 DEF Maps
<1>6. ToText[table.body] \in Texts
  BY <1>1, ExecutorAssumption
<1>7. r \in Response
  BY <1>1, <1>2, <1>5, <1>6, CastIsStatus DEF Response
<1>8. SameHeaders(sent, table.headers)
  BY <1>3, <1>4 DEF SameHeaders
<1>9. OrElse(ToJson(r).headers, EmptyMap) = sent
  BY <1>2, <1>5, MessageAssumption DEF ToJson, OrElse
<1>10. QED
  BY <1>1, <1>2, <1>7, <1>8, <1>9, CastIsStatus DEF Agrees, ToJson

\* What FromJson makes of an object it accepts.
LEMMA Parsed ==
  ASSUME NEW j \in JsonRequest, NEW r \in FromJson(j)
  PROVE  /\ r \in Request /\ r.method = j.method /\ r.url = j.url
         /\ r.query = OrElse(j.query, EmptyMap) /\ r.body = OrElse(j.body, "")
         /\ SameHeaders(r.headers, OrElse(j.headers, EmptyMap))
<1> DEFINE given == OrElse(j.headers, EmptyMap)
<1>1. PICK m \in PopulateMessageFromJson(j) :
        r = [method |-> j.method, url |-> j.url, query |-> OrElse(j.query, EmptyMap),
             body |-> m.body, headers |-> m.headers]
  BY DEF FromJson
<1>2. PICK h \in Emplaced(given) : m = [body |-> OrElse(j.body, ""), headers |-> h]
  BY DEF PopulateMessageFromJson
<1>3. given \in Maps /\ OrElse(j.query, EmptyMap) \in Maps /\ OrElse(j.body, "") \in Texts
  BY NoHeaders, MessageAssumption DEF JsonRequest, OrElse
<1>4. PICK S \in SUBSET Names : given \in [S -> Texts]
  BY <1>3 DEF Maps
<1>5. PICK kept \in Spellings(S) : h = [n \in kept |-> given[n]]
  BY <1>2, <1>4 DEF Emplaced
<1>6. kept \in SUBSET S /\ h \in [kept -> Texts]
  BY <1>4, <1>5 DEF Spellings
<1>7. h \in Maps
  BY <1>6 DEF Maps
<1>8. \A n \in kept : h[n] = ToText[given[n]]
  BY <1>4, <1>5, <1>6, ExecutorAssumption
<1>9. SameHeaders(h, given)
  BY <1>4, <1>5, <1>6, <1>8 DEF SameHeaders, Spellings
<1>10. QED
  BY <1>1, <1>2, <1>3, <1>7, <1>9 DEF Request, JsonRequest

-----------------------------------------------------------------------------
\* What the script finds was made of what the client sent.
RequestInv ==
  /\ request \in FromJson(json)
  /\ incoming = Missing \/ incoming = PopulateLuaRequestFrom(request)

\* Until it ends, an execution has written nothing back, and what it would
\* write back while unwinding is what it began with.
ResponseInv ==
  /\ pc \notin {"close", "done", "terminated"} => response = Default
  /\ pc \in {"start", "pcall", "message", "leave", "unwind"} =>
       env = PopulateLuaResponseFrom(Default)
  /\ pc \in {"create", "attach", "enter", "start", "pcall", "message", "leave"} =>
       outcome = "none"
  /\ pc = "unwind" => outcome \in Failures \cup {"ExecutionTimeout"}
  /\ pc \in {"close", "done"} => outcome # "none"
  /\ pc \in {"close", "done"} =>
       IF outcome = "ok" THEN Agrees(ToJson(response), global) ELSE response = Default
  /\ mode = "call" => pc = "pcall"
  /\ mode = "gc" => pc \in {"pcall", "message", "leave", "close", "terminated"}
  /\ FailureIsReported

ExecutionInv == TypeOK /\ RequestInv /\ ResponseInv

\* The default response and its table are what the variables may hold.
LEMMA Defaults ==
  /\ Default \in Response /\ PopulateLuaResponseFrom(Default) \in LuaResponse
  /\ ToJson(Default) = [status |-> 200, headers |-> Missing, body |-> ""]
<1>1. 200 \in 0 .. (StatusModulus - 1)
  BY DEF StatusModulus
<1>2. Default \in Response
  BY <1>1, NoHeaders, MessageAssumption DEF Default, Response
<1>3. PopulateLuaResponseFrom(Default) =
        [status |-> 10 * 200, headers |-> EmptyMap, body |-> ""]
  BY MessageAssumption DEF PopulateLuaResponseFrom, PopulateLuaMassageFrom, Default
<1>4. PopulateLuaResponseFrom(Default) \in LuaResponse
  <2>1. PICK ok \in Statuses : ok = 10 * 200
    BY ExecutorAssumption
  <2>2. EmptyMap \in LuaHeaders /\ "" \in Bodies
    BY ExecutorAssumption, MessageAssumption
  <2>3. [status |-> ok, headers |-> EmptyMap, body |-> ""] \in LuaResponse
    BY <2>2 DEF LuaResponse
  <2>4. QED
    BY <1>3, <2>1, <2>3
<1>5. Default.status = 200 /\ Default.headers = EmptyMap /\ Default.body = ""
  BY DEF Default
<1>6. ToJson(Default) = [status |-> 200, headers |-> Missing, body |-> ""]
  BY <1>5 DEF ToJson
<1>7. QED
  BY <1>2, <1>4, <1>6

LEMMA InitialExecution == Init => ExecutionInv
<1> SUFFICES ASSUME Init PROVE ExecutionInv
  OBVIOUS
<1>1. json \in JsonRequest /\ request \in FromJson(json)
  BY ExecutorAssumption DEF Init
<1>2. request \in Request
  BY <1>1, Parsed
<1>3. TypeOK
  <2>1. /\ count \in [1 .. MaxThreads -> 0 .. HookPeriod] /\ late \in [1 .. MaxThreads -> Nat]
        /\ now \in 1 .. MaxNow /\ running \in 1 .. MaxThreads
        /\ deadline_ \in Nat /\ started \in Nat
    BY ExecutorAssumption DEF Init
  <2>2. response \in Response /\ env \in LuaResponse /\ global \in LuaResponse
    BY Defaults DEF Init
  <2>3. QED
    BY <1>1, <1>2, <2>1, <2>2 DEF Init, TypeOK, Outcomes
<1>4. QED
  BY <1>1, <1>3 DEF Init, ExecutionInv, RequestInv, ResponseInv, FailureIsReported

\* The steps that write back: of a script that ended, and of one that failed.
LEMMA LeavingKeeps ==
  ASSUME ExecutionInv, Leave \/ Unwind
  PROVE  ExecutionInv'
<1>1. CASE Leave
  <2>1. /\ global \in LuaResponse /\ response \in Response /\ response = Default
        /\ outcome = "none" /\ pc = "leave" /\ mode = "lua"
    BY <1>1 DEF Leave, ExecutionInv, TypeOK, ResponseInv
  <2>2. CASE WellTyped(global)
    <3>1. /\ response' \in PopulateNativeResponseFrom(global)
          /\ pc' = "close" /\ outcome' = "ok" /\ global' = global /\ env' = global
          /\ UNCHANGED <<mode, clock, threads, asked>>
      BY <1>1, <2>2 DEF Leave, WriteBack
    <3>2. response' \in Response /\ Agrees(ToJson(response'), global)
      BY <2>1, <2>2, <3>1, WrittenBack
    <3>3. TypeOK'
      BY <2>1, <3>1, <3>2 DEF ExecutionInv, TypeOK, clock, threads, asked, Outcomes
    <3>4. ResponseInv'
      BY <2>1, <3>1, <3>2 DEF ResponseInv, FailureIsReported
    <3>5. QED
      BY <2>1, <3>1, <3>3, <3>4 DEF ExecutionInv, RequestInv, asked
  <2>3. CASE ~WellTyped(global)
    <3>1. /\ pc' = "terminated" /\ env' = global
          /\ UNCHANGED <<mode, clock, threads, asked, global, response, outcome>>
      BY <1>1, <2>3 DEF Leave, WriteBack
    <3>2. QED
      BY <2>1, <3>1 DEF ExecutionInv, TypeOK, RequestInv, ResponseInv, FailureIsReported,
                        clock, threads, asked
  <2>4. QED
    BY <2>2, <2>3
<1>2. CASE Unwind
  <2>1. /\ env = PopulateLuaResponseFrom(Default) /\ response = Default /\ pc = "unwind"
        /\ outcome \in Failures \cup {"ExecutionTimeout"} /\ mode = "lua"
    BY <1>2 DEF Unwind, ExecutionInv, ResponseInv, TypeOK
  <2>2. WellTyped(env) /\ PopulateNativeResponseFrom(env) = {Default}
    BY <2>1, RoundTrip
  <2>3. /\ pc' = "close" /\ response' = Default /\ outcome' = outcome
        /\ UNCHANGED <<mode, clock, threads, tables>>
    BY <1>2, <2>2 DEF Unwind, WriteBack
  <2>4. outcome # "ok" /\ outcome # "none"
    BY <2>1 DEF Failures
  <2>5. QED
    BY <2>1, <2>3, <2>4, Defaults DEF ExecutionInv, TypeOK, RequestInv, ResponseInv,
      FailureIsReported, clock, threads, tables, asked
<1>3. QED
  BY <1>1, <1>2

\* What a script assigns, in its code or in a finalizer, is a value of its table.
LEMMA AssignedIsLua ==
  ASSUME global \in LuaResponse, Assign
  PROVE  global' \in LuaResponse
BY DEF Assign, LuaResponse

LEMMA ExecutionSteps == ClockInv' /\ ExecutionInv /\ [Next]_vars => ExecutionInv'
<1> SUFFICES ASSUME ClockInv', ExecutionInv, [Next]_vars PROVE ExecutionInv'
  OBVIOUS
<1>0. /\ now' \in 1 .. MaxNow /\ deadline_' \in Nat /\ started' \in Nat
      /\ running' \in 1 .. MaxThreads
      /\ count' \in [1 .. MaxThreads -> 0 .. HookPeriod] /\ late' \in [1 .. MaxThreads -> Nat]
  BY DEF ClockInv, ClockType, Threads
<1> USE <1>0 DEF ExecutionInv, TypeOK, RequestInv, ResponseInv, FailureIsReported
<1>1. CASE UNCHANGED vars
  BY <1>1 DEF vars
<1>2. CASE Create
  <2>1. pc = "create" /\ mode' = mode /\ mode = "lua" /\ UNCHANGED <<hooked, response, tables>>
    BY <1>2 DEF Create
  <2>2. \/ pc' = "attach" /\ outcome' = "none"
        \/ pc' = "done" /\ outcome' = "exception"
    BY <1>2 DEF Create
  <2>3. QED
    BY <2>1, <2>2 DEF tables, asked, Outcomes, Failures
<1>3. CASE AttachTimeoutChecker \/ Start
  BY <1>3 DEF AttachTimeoutChecker, Start, tables, asked
<1>4. CASE EnterGuard
  <2>1. /\ env' = PopulateLuaResponseFrom(Default) /\ global' = env'
        /\ incoming' = PopulateLuaRequestFrom(request)
    BY <1>4 DEF EnterGuard, Context
  <2>2. env' \in LuaResponse
    BY <2>1, Defaults
  <2>3. QED
    BY <1>4, <2>1, <2>2 DEF EnterGuard
<1>5. CASE Check
  BY <1>5 DEF Check, clock, tables, asked, Outcomes
<1>6. ASSUME NEW d \in 1 .. MaxStep, Instruction(d) PROVE ExecutionInv'
  <2>1. global' \in LuaResponse /\ mode' \in {"lua", "call"}
    BY <1>6, AssignedIsLua DEF Instruction
  <2>2. /\ pc = "pcall"
        /\ UNCHANGED <<pc, deadline_, hooked, started, asked, response, env, outcome>>
    BY <1>6 DEF Instruction
  <2>3. QED
    BY <2>1, <2>2 DEF asked
<1>7. CASE Return
  BY <1>7 DEF Return, tables, asked
<1>8. CASE FinalizerReturns
  <2>1. global' \in LuaResponse /\ (pc = "close" => global' = global)
    BY <1>8, AssignedIsLua DEF FinalizerReturns
  <2>2. /\ mode' = "lua" /\ pc \in {"pcall", "message", "leave", "close"}
        /\ UNCHANGED <<pc, hooked, asked, response, env, outcome>>
    BY <1>8 DEF FinalizerReturns
  <2>3. QED
    BY <2>1, <2>2 DEF asked
<1>9. CASE Throw
  BY <1>9 DEF Throw, clock, tables, asked, Outcomes, Failures
<1>10. CASE Fail \/ ErrorMessage
  BY <1>10 DEF Fail, ErrorMessage, clock, tables, asked, Outcomes
<1>11. CASE Collect \/ Finish \/ Panic \/ Close
  BY <1>11 DEF Collect, Finish, Panic, Close, clock, tables, asked
<1>12. CASE Leave \/ Unwind
  BY <1>12, LeavingKeeps
<1>13. CASE Ended
  BY <1>13 DEF Ended, vars
<1>14. QED
  BY <1>1, <1>2, <1>3, <1>4, <1>5, <1>6, <1>7, <1>8, <1>9, <1>10, <1>11, <1>12, <1>13 DEF Next

LEMMA ExecutionInvariant == Spec => []ExecutionInv
  BY InitialExecution, ExecutionSteps, ClockInvariant, PTL DEF Spec

(* Every variable keeps its type, whatever number a script leaves as the   *)
(* status, and the hook's count never passes its period.                   *)
THEOREM TypeCorrect == Spec => []TypeOK
<1>1. ExecutionInv => TypeOK
  BY DEF ExecutionInv
<1>2. QED
  BY <1>1, ExecutionInvariant, PTL

(* The client of Execute sees what a completed script left in the response *)
(* table or the untouched default, whatever a script wrote before failing. *)
THEOREM AnswersAreAllOrNothing == Spec => []AnswerIsAllOrNothing
<1>1. ExecutionInv => AnswerIsAllOrNothing
  BY Defaults DEF ExecutionInv, ResponseInv, AnswerIsAllOrNothing
<1>2. QED
  BY <1>1, ExecutionInvariant, PTL

(* Unwinding never ends the process: after a failure, only a finalizer of  *)
(* the script can.                                                         *)
THEOREM FailuresAreReported == Spec => []FailureIsReported
<1>1. ExecutionInv => FailureIsReported
  BY DEF ExecutionInv, ResponseInv
<1>2. QED
  BY <1>1, ExecutionInvariant, PTL

(* Every script finds the request its client sent, for any spelling and    *)
(* number of headers.                                                      *)
THEOREM RequestsArrive == Spec => []RequestArrives
<1>1. ExecutionInv => RequestArrives
  <2> SUFFICES ASSUME ExecutionInv, incoming # Missing
               PROVE  /\ incoming.method = json.method /\ incoming.url = json.url
                      /\ incoming.query = OrElse(json.query, EmptyMap)
                      /\ incoming.body = UpToNul[OrElse(json.body, "")]
                      /\ SameHeaders(incoming.headers, OrElse(json.headers, EmptyMap))
    BY DEF RequestArrives
  <2>1. json \in JsonRequest /\ request \in FromJson(json)
    BY DEF ExecutionInv, TypeOK, RequestInv
  <2>2. incoming = PopulateLuaRequestFrom(request)
    BY DEF ExecutionInv, RequestInv
  <2>3. QED
    BY <2>1, <2>2, Parsed DEF PopulateLuaRequestFrom, PopulateLuaMassageFrom
<1>2. QED
  BY <1>1, ExecutionInvariant, PTL

-----------------------------------------------------------------------------
(* Refinement: seen from the handler, an execution is one step that        *)
(* answers, throws without having touched the response, or ends the        *)
(* process, for every script and every limit.                              *)
THEOREM ExecutorKeepsItsPromise == Spec => ImplementsExecution
<1>1. Init => Promise!Init
  BY DEF Init, Promise!Init
<1>2. ExecutionInv /\ ExecutionInv' /\ [Next]_vars => [Promise!Next]_(Promise!vars)
  <2> SUFFICES ASSUME ExecutionInv, ExecutionInv', [Next]_vars
               PROVE  [Promise!Next]_(Promise!vars)
    OBVIOUS
  <2> USE DEF Promise!Next, Promise!vars, Promise!Return, Promise!Throw, Promise!Terminate
  <2>1. CASE UNCHANGED vars
    BY <2>1 DEF vars
  <2>2. CASE Create
    <3>1. response = Default /\ response' = response
      BY <2>2 DEF Create, ExecutionInv, ResponseInv
    <3>2. QED
      BY <2>2, <3>1 DEF Create, Failures
  <2>3. CASE AttachTimeoutChecker \/ EnterGuard \/ Start \/ Check \/ Finish \/ Ended
    BY <2>3 DEF AttachTimeoutChecker, EnterGuard, Start, Check, Finish, Ended, vars
  <2>4. CASE \E d \in 1 .. MaxStep : Instruction(d)
    BY <2>4 DEF Instruction, ExecutionInv
  <2>5. CASE Fail \/ ErrorMessage \/ Collect
    BY <2>5 DEF Fail, ErrorMessage, Collect
  <2>6. CASE Panic \/ Throw
    BY <2>6 DEF Panic, Throw
  <2>7. CASE Return \/ FinalizerReturns
    <3>1. pc \notin {"done", "terminated"} /\ pc' = pc
      BY <2>7 DEF Return, FinalizerReturns, ExecutionInv, ResponseInv
    <3>2. QED
      BY <3>1
  <2>8. CASE Leave \/ Unwind
    BY <2>8 DEF Leave, Unwind, WriteBack
  <2>9. CASE Close
    <3>1. /\ outcome \in Outcomes /\ outcome # "none" /\ response \in Response
          /\ outcome # "ok" => response = Default
      BY <2>9 DEF Close, ExecutionInv, TypeOK, ResponseInv
    <3>2. pc = "close" /\ pc' = "done" /\ UNCHANGED <<response, outcome>>
      BY <2>9 DEF Close
    <3>3. CASE outcome = "ok"
      BY <3>1, <3>2, <3>3
    <3>4. CASE outcome # "ok"
      BY <3>1, <3>2, <3>4 DEF Outcomes
    <3>5. QED
      BY <3>3, <3>4
  <2>10. QED
    BY <2>1, <2>2, <2>3, <2>4, <2>5, <2>6, <2>7, <2>8, <2>9 DEF Next
<1>3. QED
  BY <1>1, <1>2, ExecutionInvariant, PTL DEF Spec, ImplementsExecution, Promise!Spec

=============================================================================
