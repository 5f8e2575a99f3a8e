---------------------------- MODULE HttpMessage -----------------------------
(***************************************************************************)
(* http::Message, Request and Response: how the JSON body of a call        *)
(* becomes a Request and then the Lua table the script reads, and how the  *)
(* Lua table the script leaves becomes a Response and then JSON.           *)
(*                                                                         *)
(* Headers and query parameters are functions from names to texts.  A      *)
(* HeaderMap compares names without regard to case and its emplace keeps   *)
(* the first of equal names; which one is first, the order of the JSON     *)
(* object or of the Lua table decides, so those conversions have a set of  *)
(* possible results.                                                       *)
(***************************************************************************)
EXTENDS Integers

CONSTANTS
  Texts,    \* strings: bodies, URLs and values of headers and parameters
  Methods,  \* the methods HttpMethodFromString knows
  Names,    \* spellings of header and parameter names
  Lower,    \* the name without its case
  UpToNul,  \* a text up to its first NUL
  Missing   \* a field a JSON object does not have

\* A status is a uint16_t.
StatusModulus == 65536

Maps == UNION {[S -> Texts] : S \in SUBSET Names}

EmptyMap == [n \in {} |-> ""]

JsonRequest == [method : Methods, url : Texts, body : Texts \cup {Missing},
                headers : Maps \cup {Missing}, query : Maps \cup {Missing}]

Request == [method : Methods, url : Texts, body : Texts, headers : Maps, query : Maps]

Response == [status : 0 .. (StatusModulus - 1), headers : Maps, body : Texts]

ASSUME MessageAssumption ==
  /\ "" \in Texts
  /\ Lower \in [Names -> Names]
  /\ UpToNul \in [Texts -> Texts] /\ UpToNul[""] = ""
  /\ Missing \notin Texts /\ Missing \notin Maps

-----------------------------------------------------------------------------
\* One spelling of every name in S.
Spellings(S) ==
  {kept \in SUBSET S :
     /\ \A n \in S : \E m \in kept : Lower[m] = Lower[n]
     /\ \A m, n \in kept : Lower[m] = Lower[n] => m = n}

\* HeaderMap::emplace of every entry of map, in any order.
Emplaced(map) == {[n \in kept |-> map[n]] : kept \in Spellings(DOMAIN map)}

OrElse(field, default) == IF field = Missing THEN default ELSE field

\* PopulateMessageDefault and kOk.
Default == [status |-> 200, headers |-> EmptyMap, body |-> ""]

\* Mutant: the headers are read only of a message that has a body.
PopulateMessageOfBody(json) ==
  {[body |-> OrElse(json.body, ""), headers |-> h] :
     h \in IF json.body = Missing THEN {EmptyMap}
           ELSE Emplaced(OrElse(json.headers, EmptyMap))}

PopulateMessageFromJson(json) ==
  {[body |-> OrElse(json.body, ""), headers |-> h] :
     h \in Emplaced(OrElse(json.headers, EmptyMap))}

\* Request::FromJson of an object it accepts.
FromJson(json) ==
  {[method |-> json.method, url |-> json.url, query |-> OrElse(json.query, EmptyMap),
    body |-> m.body, headers |-> m.headers] : m \in PopulateMessageFromJson(json)}

\* Response::ToJson: a headers object that was never built is left out.
ToJson(r) ==
  [status |-> r.status, body |-> r.body,
   headers |-> IF r.headers = EmptyMap THEN Missing ELSE r.headers]

-----------------------------------------------------------------------------
\* A table of the headers; the body as a C string.
PopulateLuaMassageFrom(m) == [headers |-> m.headers, body |-> UpToNul[m.body]]

PopulateLuaRequestFrom(r) ==
  LET luaRequest == PopulateLuaMassageFrom(r)
  IN  [headers |-> luaRequest.headers, body |-> luaRequest.body,
       method |-> r.method, url |-> r.url, query |-> r.query]

\* The status becomes a Lua number, here in tenths.
PopulateLuaResponseFrom(r) ==
  LET luaResponse == PopulateLuaMassageFrom(r)
  IN  [status |-> 10 * r.status, headers |-> luaResponse.headers, body |-> luaResponse.body]

=============================================================================
