----------------------------- MODULE HttpClient -----------------------------
(***************************************************************************)
(* The function client:send of the Lua module miet.http.client             *)
(* (modules/http/client.cpp) over http::Client::Send: the calls one script *)
(* makes, one after the other.                                             *)
(*                                                                         *)
(* The arguments live on the Lua stack.  The fields of the third one are   *)
(* read one by one; query and headers are tables, which the code walks     *)
(* with lua_next.  lua_next finds its place by the key on the stack, and   *)
(* lua_tostring turns a number on the stack into a string where it is.     *)
(***************************************************************************)
EXTENDS Naturals, Sequences, FiniteSets, Functions

CONSTANTS
  Texts,    \* the strings used as keys, also the decimal forms of numbers
  Fold,     \* Fold[x]: x as a header name, whose case does not matter
  Values,   \* the strings used as values
  CKey,     \* what is before the first NUL of a key (external)
  CValue,   \* what is before the first NUL of a value (external)
  Other,    \* a key or value that is neither a string nor a number
  Tables,   \* Lua tables: their entries, in the order in which lua_next goes
  Nil,      \* nil
  NotTable  \* a value that is not a table

LuaText == [type : {"string", "number"}, text : Texts]

Entry == [key : LuaText \cup {Other}, value : Values \cup {Other}]

\* No table has two entries of one key.
ASSUME ClientAssumption ==
  /\ Fold \in [Texts -> Texts]
  /\ CKey \in [Texts -> Texts] /\ \A v \in Values : CValue[v] \in Values
  /\ Other \notin LuaText \cup Values
  /\ Tables \subseteq Seq(Entry)
  /\ \A t \in Tables : \A i, j \in 1 .. Len(t) : t[i].key = t[j].key => i = j
  /\ Nil \notin Tables \cup LuaText \cup Values \cup {NotTable, Other}
  /\ NotTable \notin Tables

(***************************************************************************)
(* pc is where Execute is, field the field of the third argument it is at; *)
(* asked what the fields held, as far as they have been read; cursor the   *)
(* key on the stack; request the one being built.  arrived is what the     *)
(* receiver got, None before.  result is how the last call ended.          *)
(***************************************************************************)
VARIABLES pc, field, asked, cursor, request, arrived, result

vars == <<pc, field, asked, cursor, request, arrived, result>>

Fields == {"query", "headers"}   \* the ones that are tables

NothingAsked == [query |-> Nil, headers |-> Nil, body |-> Nil]

Empty == [x \in {} |-> ""]

Default == [query |-> Empty, headers |-> Empty, body |-> ""]

None == [query |-> {}, headers |-> Empty, body |-> "", isNone |-> TRUE]

Init ==
  /\ pc = "idle" /\ field = "query" /\ result = "none"
  /\ asked = NothingAsked
  /\ cursor = Nil
  /\ request = Default
  /\ arrived = None

Return(how) == pc' = "idle" /\ result' = how

-----------------------------------------------------------------------------
(* ClientMethod::Execute.                                                  *)

\* Mutant: the request of the last call is used again.
FreshReused == UNCHANGED request

\* Request::Default.
Fresh == request' = Default

Begin ==
  /\ pc = "idle"
  /\ field' = "query" /\ cursor' = Nil
  /\ asked' = NothingAsked
  /\ arrived' = None

\* Accepted arguments, with or without a table of additional parameters.
Send(hasParams) ==
  /\ Begin
  /\ Fresh
  /\ pc' = IF hasParams THEN "field" ELSE "send"
  /\ result' = "none"

\* A wrong number or type of arguments is a Lua error; a method the server
\* does not know makes HttpMethodFromString throw.
SendRefused(how) ==
  /\ Begin
  /\ UNCHANGED request
  /\ Return(how)

-----------------------------------------------------------------------------
(* PopulateAdditionalParams: query, headers, body.                         *)

NextField ==
  /\ pc' = IF field = "query" THEN "field" ELSE "body"
  /\ field' = "headers"
  /\ UNCHANGED result

\* lua_gettable, and the check of what it found.
GetField(value) ==
  /\ pc = "field"
  /\ asked' = [asked EXCEPT ![field] = value]
  /\ \/ value = Nil /\ NextField
     \/ value = NotTable /\ Return("luaError") /\ UNCHANGED field
     \/ value \in Tables /\ pc' = "walk" /\ UNCHANGED <<field, result>>
  /\ UNCHANGED <<cursor, request, arrived>>

\* Where lua_next goes on: after the entry that has the key on the stack.
Places(table) ==
  {i \in 0 .. Len(table) : IF i = 0 THEN cursor = Nil ELSE table[i].key = cursor}

\* Mutant: the type of the value is not looked at.
AreStringsUnchecked(entry) == entry.key # Other

\* lua_isstring holds of numbers too.
AreStrings(entry) == entry.key # Other /\ entry.value # Other

\* Keys and values are taken as C strings.
Name(text) == IF field = "headers" THEN Fold[CKey[text]] ELSE CKey[text]

\* emplace: the first entry of a name stays.
Emplace(map, entry) ==
  [x \in DOMAIN map \cup {Name(entry.key.text)} |->
     IF x \in DOMAIN map THEN map[x] ELSE CValue[entry.value]]

\* Mutant: the key is popped together with its value.
lua_tostringPopped(key) == Nil

\* lua_tostring, on the stack.
lua_tostring(key) == [type |-> "string", text |-> key.text]

(* The loop of PopulateQueryParams and of PopulateHeaders: lua_next pushes *)
(* an entry, or raises an error for a key the table does not have.         *)
lua_next ==
  LET table == asked[field] IN
  /\ pc = "walk"
  /\ \/ /\ Places(table) = {}
        /\ Return("luaError")
        /\ UNCHANGED <<field, cursor>>
     \/ /\ Len(table) \in Places(table)
        /\ NextField
        /\ cursor' = Nil
     \/ \E i \in Places(table) \ {Len(table)} :
          /\ pc' = "entry" /\ cursor' = table[i + 1].key
          /\ UNCHANGED <<field, result>>
  /\ UNCHANGED <<asked, request, arrived>>

\* The body of the loop: the entry is checked, converted and taken.
TakeEntry ==
  /\ pc = "entry"
  /\ \E i \in Places(asked[field]) :
       LET entry == asked[field][i] IN
       \/ /\ ~AreStrings(entry)
          /\ Return("luaError")
          /\ UNCHANGED <<cursor, request>>
       \/ /\ AreStrings(entry)
          /\ request' = [request EXCEPT ![field] = Emplace(@, entry)]
          /\ cursor' = lua_tostring(entry.key)
          /\ pc' = "walk" /\ UNCHANGED result
  /\ UNCHANGED <<field, asked, arrived>>

\* The body stays empty if there is none; one of which the serializer makes
\* no text, or whose type it is not asked to convert, is a Lua error.
PopulateBody(text) ==
  /\ pc = "body"
  /\ asked' = [asked EXCEPT !.body = text]
  /\ \/ text = Other /\ Return("luaError") /\ UNCHANGED request
     \/ /\ text # Other
        /\ request' = [request EXCEPT !.body = IF text = Nil THEN "" ELSE text]
        /\ pc' = "send" /\ UNCHANGED result
  /\ UNCHANGED <<field, cursor, arrived>>

-----------------------------------------------------------------------------
(* http::Client::Send.                                                     *)

(* The query string, as what stands between its ampersands: the code puts  *)
(* one before the first parameter and none between two of them.            *)
BuildUrlWithQueryParams(order) ==
  IF order = <<>> THEN <<>> ELSE << <<>>, order >>

\* Parameters with no ampersand between them are one, of another value.
Glued(segment) == IF Len(segment) = 1 THEN segment[1] ELSE <<segment[1][1], Other>>

\* What a receiver reads: a name up to the first =, a value up to the next &.
Received(query) == {Glued(query[i]) : i \in {j \in DOMAIN query : query[j] # <<>>}}

\* The orders an unordered_map may have.
Orders(map) ==
  {[i \in DOMAIN s |-> <<s[i], map[s[i]]>>] :
     s \in Bijection(1 .. Cardinality(DOMAIN map), DOMAIN map)}

(* The request arrives or not; the answer arrives, or five seconds pass,   *)
(* or the connection fails, and the script gets nil and a message.         *)
Perform(arrives, how) ==
  /\ pc = "send"
  /\ how = "response" => arrives
  /\ \/ /\ arrives
        /\ \E order \in Orders(request.query) :
             arrived' = [query |-> Received(BuildUrlWithQueryParams(order)),
                         headers |-> request.headers, body |-> request.body,
                         isNone |-> FALSE]
     \/ ~arrives /\ UNCHANGED arrived
  /\ Return(how)
  /\ UNCHANGED <<field, asked, cursor, request>>

\* The steps of a call that has begun.
Step ==
  \/ lua_next \/ TakeEntry
  \/ \E value \in Tables \cup {Nil, NotTable} : GetField(value)
  \/ \E text \in Values \cup {Nil, Other} : PopulateBody(text)
  \/ \E arrives \in BOOLEAN, how \in {"response", "error"} : Perform(arrives, how)

Next ==
  \/ \E hasParams \in BOOLEAN : Send(hasParams)
  \/ \E how \in {"luaError", "exception"} : SendRefused(how)
  \/ Step

Spec == Init /\ [][Next]_vars

\* The call runs on; its only wait is bounded by the client's timeout.
FairSpec == Spec /\ WF_vars(Step)

-----------------------------------------------------------------------------
MapsOf(S) == UNION {[D -> Values] : D \in SUBSET S}

\* Every variable has its type; only strings get into the request.
TypeOK ==
  /\ pc \in {"idle", "field", "walk", "entry", "body", "send"} /\ field \in Fields
  /\ asked \in [query : Tables \cup {Nil, NotTable}, headers : Tables \cup {Nil, NotTable},
                body : Values \cup {Nil, Other}]
  /\ cursor \in LuaText \cup {Nil, Other}
  /\ request \in [query : MapsOf(Texts), headers : MapsOf(Texts),
                  body : Values \cup {""}]
  /\ result \in {"none", "luaError", "exception", "response", "error"}

NameIn(f, text) == IF f = "headers" THEN Fold[CKey[text]] ELSE CKey[text]

StringKeyed(f) ==
  asked[f] \in Tables =>
    \A i \in 1 .. Len(asked[f]) : asked[f][i].key = Other \/ asked[f][i].key.type = "string"

\* map is what the table gives: the first value of every name, up to a NUL.
Represents(map, f) ==
  LET table == IF asked[f] \in Tables THEN asked[f] ELSE <<>>
      name(i) == NameIn(f, table[i].key.text)
  IN  /\ DOMAIN map = {name(i) : i \in 1 .. Len(table)}
      /\ \A i \in 1 .. Len(table) :
           (\A j \in 1 .. (i - 1) : name(j) # name(i)) => map[name(i)] = CValue[table[i].value]

(* What is sent is what this very call asked for: every query parameter    *)
(* and every header of tables whose keys are strings, none left out or     *)
(* seen twice by the walk, and the body, and nothing of an earlier call.   *)
RequestIsComplete ==
  pc = "send" =>
    /\ \A f \in Fields : StringKeyed(f) => Represents(request[f], f)
    /\ request.body = IF asked.body = Nil THEN "" ELSE asked.body

\* A call returns to the script, if the keys of its tables are strings.
CallEnds == pc # "idle" ~> (pc = "idle" \/ \E f \in Fields : ~StringKeyed(f))

(* Each query parameter of the request reaches the receiver with its value *)
(* (the test of the client looks for one there).                           *)
QueryArrives ==
  ~arrived.isNone => arrived.query = {<<x, request.query[x]>> : x \in DOMAIN request.query}

(* The walk of a table ends, with the whole table read or with the error   *)
(* that its keys and values are not strings.                               *)
WalkEnds == pc = "walk" ~> pc \notin {"walk", "entry"}

=============================================================================
