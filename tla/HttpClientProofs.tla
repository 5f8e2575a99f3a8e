-------------------------- MODULE HttpClientProofs --------------------------
(***************************************************************************)
(* Proofs about client:send, for tables of any length: only strings get    *)
(* into the request, and what is sent is what the call asked for.          *)
(***************************************************************************)
EXTENDS HttpClient, TLAPS

\* A walk has a table, and in its body a key.
WalkInv ==
  /\ pc \in {"walk", "entry"} => asked[field] \in Tables
  /\ pc = "entry" => cursor # Nil

LEMMA Entries ==
  ASSUME NEW table \in Tables
  PROVE  /\ Len(table) \in Nat /\ table \in [1 .. Len(table) -> Entry]
         /\ \A i \in 1 .. Len(table) :
              /\ table[i].key \in LuaText \cup {Other} /\ table[i].value \in Values \cup {Other}
              /\ table[i].key # Nil
<1>1. table \in Seq(Entry)
  BY ClientAssumption
<1>2. Len(table) \in Nat /\ table \in [1 .. Len(table) -> Entry]
  BY <1>1
<1>3. QED
  BY <1>2, ClientAssumption DEF Entry

\* The maps of a request: the empty one, and with an entry more.
LEMMA Maps ==
  /\ Empty \in MapsOf(Texts)
  /\ \A map \in MapsOf(Texts), x \in Texts, v \in Values :
       [y \in DOMAIN map \cup {x} |-> IF y \in DOMAIN map THEN map[y] ELSE v] \in MapsOf(Texts)
<1>1. Empty \in [{} -> Values]
  BY DEF Empty
<1>2. ASSUME NEW map \in MapsOf(Texts), NEW x \in Texts, NEW v \in Values
      PROVE  [y \in DOMAIN map \cup {x} |-> IF y \in DOMAIN map THEN map[y] ELSE v]
               \in MapsOf(Texts)
  <2>1. PICK D \in SUBSET Texts : map \in [D -> Values]
    BY DEF MapsOf
  <2>2. D \cup {x} \in SUBSET Texts
    OBVIOUS
  <2>3. [y \in DOMAIN map \cup {x} |-> IF y \in DOMAIN map THEN map[y] ELSE v]
          \in [D \cup {x} -> Values]
    BY <2>1
  <2>4. QED
    BY <2>2, <2>3 DEF MapsOf
<1>3. QED
  BY <1>1, <1>2 DEF MapsOf

LEMMA TakenIsMap ==
  ASSUME TypeOK, NEW entry, entry.key \in LuaText, entry.value \in Values, NEW map \in MapsOf(Texts)
  PROVE  Emplace(map, entry) \in MapsOf(Texts)
<1>1. Name(entry.key.text) \in Texts
  BY ClientAssumption DEF Name, LuaText
<1>2. CValue[entry.value] \in Values
  BY ClientAssumption
<1>3. QED
  BY <1>1, <1>2, Maps DEF Emplace

\* Where lua_next is in a table.
LEMMA Positions ==
  ASSUME NEW table \in Tables, NEW i \in Places(table)
  PROVE  /\ i \in 0 .. Len(table) /\ Len(table) \in Nat
         /\ i # Len(table) => i + 1 \in 1 .. Len(table)
         /\ cursor # Nil => i \in 1 .. Len(table) /\ table[i].key = cursor
<1>1. Len(table) \in Nat /\ i \in 0 .. Len(table)
  BY Entries DEF Places
<1>2. IF i = 0 THEN cursor = Nil ELSE table[i].key = cursor
  BY DEF Places
<1>3. QED
  BY <1>1, <1>2

LEMMA TypeSteps == TypeOK /\ WalkInv /\ [Next]_vars => TypeOK' /\ WalkInv'
<1> SUFFICES ASSUME TypeOK, WalkInv, [Next]_vars PROVE TypeOK' /\ WalkInv'
  OBVIOUS
<1>1. CASE UNCHANGED vars
  <2>1. TypeOK'
    BY <1>1 DEF vars, TypeOK
  <2>2. WalkInv'
    BY <1>1 DEF vars, WalkInv
  <2>3. QED
    BY <2>1, <2>2
<1> USE DEF TypeOK, WalkInv, Fields
<1>2. ASSUME NEW hasParams \in BOOLEAN, Send(hasParams) PROVE TypeOK' /\ WalkInv'
  BY <1>2, Maps DEF Send, Begin, Fresh, Default, NothingAsked
<1>3. ASSUME NEW how \in {"luaError", "exception"}, SendRefused(how) PROVE TypeOK' /\ WalkInv'
  BY <1>3 DEF SendRefused, Begin, Return, NothingAsked
<1>4. ASSUME NEW value \in Tables \cup {Nil, NotTable}, GetField(value)
      PROVE  TypeOK' /\ WalkInv'
  BY <1>4 DEF GetField, NextField, Return
<1>5. CASE lua_next
  <2>1. PICK table \in Tables : table = asked[field]
    BY <1>5 DEF lua_next
  <2>2. ASSUME NEW i \in Places(table) \ {Len(table)}, cursor' = table[i + 1].key
        PROVE  cursor' \in LuaText \cup {Other} /\ cursor' # Nil
    <3>1. i + 1 \in 1 .. Len(table)
      BY <2>2, Positions
    <3>2. QED
      BY <2>2, <3>1, Entries
  <2>3. QED
    BY <1>5, <2>1, <2>2 DEF lua_next, NextField, Return
<1>6. CASE TakeEntry
  <2>1. PICK table \in Tables : table = asked[field]
    BY <1>6 DEF TakeEntry
  <2>2. PICK i \in Places(table) :
           LET entry == table[i] IN
           \/ /\ ~AreStrings(entry)
              /\ Return("luaError")
              /\ UNCHANGED <<cursor, request>>
           \/ /\ AreStrings(entry)
              /\ request' = [request EXCEPT ![field] = Emplace(@, entry)]
              /\ cursor' = lua_tostring(entry.key)
              /\ pc' = "walk" /\ UNCHANGED result
    BY <1>6, <2>1 DEF TakeEntry
  <2>3. i \in 1 .. Len(table)
    <3>1. cursor # Nil
      BY <1>6 DEF TakeEntry
    <3>2. QED
      BY <2>2, <3>1, Positions
  <2>4. CASE ~AreStrings(table[i])
    BY <1>6, <2>2, <2>4 DEF TakeEntry, Return
  <2>5. CASE AreStrings(table[i])
    <3>1. table[i].key \in LuaText /\ table[i].value \in Values
      BY <2>3, <2>5, Entries DEF AreStrings
    <3>2. Emplace(request[field], table[i]) \in MapsOf(Texts)
      BY <3>1, TakenIsMap
    <3>3. lua_tostring(table[i].key) \in LuaText
      BY <3>1 DEF lua_tostring, LuaText
    <3>4. QED
      BY <1>6, <2>1, <2>2, <2>5, <3>2, <3>3 DEF TakeEntry
  <2>6. QED
    BY <2>4, <2>5
<1>7. ASSUME NEW text \in Values \cup {Nil, Other}, PopulateBody(text)
      PROVE  TypeOK' /\ WalkInv'
  BY <1>7 DEF PopulateBody, Return
<1>8. ASSUME NEW arrives \in BOOLEAN, NEW how \in {"response", "error"}, Perform(arrives, how)
      PROVE  TypeOK' /\ WalkInv'
  BY <1>8 DEF Perform, Return
<1>9. QED
  BY <1>1, <1>2, <1>3, <1>4, <1>5, <1>6, <1>7, <1>8 DEF Next, Step

LEMMA TypeInvariant == Spec => [](TypeOK /\ WalkInv)
<1>1. Init => TypeOK /\ WalkInv
  <2> SUFFICES ASSUME Init PROVE TypeOK /\ WalkInv
    OBVIOUS
  <2>1. TypeOK
    BY Maps DEF Init, TypeOK, Fields, Default, NothingAsked
  <2>2. QED
    BY <2>1 DEF Init, WalkInv
<1>2. QED
  BY <1>1, TypeSteps, PTL DEF Spec

(* Whatever tables and values a script passes, in whatever calls, only     *)
(* strings get into the request, and the walks know where they are         *)
(* (PopulateQueryParams, PopulateHeaders, PopulateBody).                   *)
THEOREM TypeCorrect == Spec => []TypeOK
  BY TypeInvariant, PTL

-----------------------------------------------------------------------------
(* What is sent is what was asked for.                                     *)

\* The table of a field, which is none or an empty one if there is no table.
TableOf(value) == IF value \in Tables THEN value ELSE <<>>

\* map is what the first n entries of a table give: the first value of each name.
RepresentsTo(map, f, table, n) ==
  /\ DOMAIN map = {NameIn(f, table[i].key.text) : i \in 1 .. n}
  /\ \A i \in 1 .. n :
       (\A j \in 1 .. (i - 1) :
          NameIn(f, table[j].key.text) # NameIn(f, table[i].key.text))
         => map[NameIn(f, table[i].key.text)] = CValue[table[i].value]

\* The keys of a table are strings, or make the call fail.
KeysAreStrings(table) ==
  \A i \in 1 .. Len(table) : table[i].key = Other \/ table[i].key.type = "string"

Complete(map, f, value) ==
  KeysAreStrings(TableOf(value)) => RepresentsTo(map, f, TableOf(value), Len(TableOf(value)))

(* A walk has taken the entries up to where lua_next is, and in its body   *)
(* all but that one; the fields before are complete, those after untouched. *)
RequestInv ==
  /\ pc = "field" => cursor = Nil /\ request[field] = Empty
  /\ pc = "walk" /\ KeysAreStrings(asked[field]) =>
       \E n \in Places(asked[field]) : RepresentsTo(request[field], field, asked[field], n)
  /\ pc = "entry" /\ KeysAreStrings(asked[field]) =>
       \E n \in Places(asked[field]) : RepresentsTo(request[field], field, asked[field], n - 1)
  /\ pc \in {"field", "walk", "entry"} =>
       IF field = "query" THEN request.headers = Empty
       ELSE Complete(request.query, "query", asked.query)
  /\ pc \in {"body", "send"} =>
       \A f \in Fields : Complete(request[f], f, asked[f])
  /\ pc = "send" => request.body = IF asked.body = Nil THEN "" ELSE asked.body

\* With no entries read a map is empty, and an empty table needs no more.
LEMMA NothingRead ==
  ASSUME NEW f, NEW table
  PROVE  RepresentsTo(Empty, f, table, 0)
<1>1. 1 .. 0 = {}
  OBVIOUS
<1>2. QED
  BY <1>1 DEF RepresentsTo, Empty

\* emplace takes one entry more.
LEMMA OneMoreRead ==
  ASSUME NEW f, NEW table, NEW map, NEW n \in Nat \ {0},
         RepresentsTo(map, f, table, n - 1), NEW new,
         new = [x \in DOMAIN map \cup {NameIn(f, table[n].key.text)} |->
                  IF x \in DOMAIN map THEN map[x] ELSE CValue[table[n].value]]
  PROVE  RepresentsTo(new, f, table, n)
<1> DEFINE name(i) == NameIn(f, table[i].key.text)
<1>1. 1 .. n = 1 .. (n - 1) \cup {n} /\ n \notin 1 .. (n - 1)
  OBVIOUS
<1>2. DOMAIN map = {name(i) : i \in 1 .. (n - 1)}
  BY DEF RepresentsTo
<1>3. ASSUME NEW i \in 1 .. (n - 1), \A j \in 1 .. (i - 1) : name(j) # name(i)
      PROVE  map[name(i)] = CValue[table[i].value]
  BY <1>3 DEF RepresentsTo
<1> HIDE DEF name
<1>4. DOMAIN new = {name(i) : i \in 1 .. n}
  BY <1>1, <1>2 DEF name
<1>5. ASSUME NEW i \in 1 .. n, \A j \in 1 .. (i - 1) : name(j) # name(i)
      PROVE  new[name(i)] = CValue[table[i].value]
  <2>1. CASE i \in 1 .. (n - 1)
    BY <1>2, <1>3, <1>5, <2>1 DEF name
  <2>2. CASE i = n
    <3>1. name(n) \notin DOMAIN map
      BY <1>2, <1>5, <2>2
    <3>2. QED
      BY <2>2, <3>1 DEF name
  <2>3. QED
    BY <1>1, <2>1, <2>2
<1>6. QED
  BY <1>4, <1>5 DEF RepresentsTo, name

\* The key on the stack is that of one entry.
LEMMA PlaceIsUnique ==
  ASSUME NEW table \in Tables, NEW i \in Places(table), NEW j \in Places(table)
  PROVE  i = j
<1>1. /\ i \in 0 .. Len(table) /\ j \in 0 .. Len(table) /\ Len(table) \in Nat
      /\ IF i = 0 THEN cursor = Nil ELSE table[i].key = cursor
      /\ IF j = 0 THEN cursor = Nil ELSE table[j].key = cursor
  BY Entries DEF Places
<1>2. CASE cursor = Nil
  <2>1. \A k \in 1 .. Len(table) : table[k].key # Nil
    BY Entries
  <2>2. QED
    BY <1>1, <1>2, <2>1
<1>3. CASE cursor # Nil
  <2>1. i \in 1 .. Len(table) /\ j \in 1 .. Len(table) /\ table[i].key = table[j].key
    BY <1>1, <1>3
  <2>2. QED
    BY <2>1, ClientAssumption
<1>4. QED
  BY <1>2, <1>3

\* A string stays the key that it is; only a number does not.
LEMMA StringStays ==
  ASSUME NEW key \in LuaText, key.type = "string"
  PROVE  lua_tostring(key) = key
  BY DEF lua_tostring, LuaText

\* A field that is no table, or that was walked to its end, is complete.
LEMMA FieldIsComplete ==
  ASSUME NEW map, NEW f, NEW value,
         \/ value \notin Tables /\ map = Empty
         \/ value \in Tables /\ (KeysAreStrings(value) => RepresentsTo(map, f, value, Len(value)))
  PROVE  Complete(map, f, value)
<1>1. CASE value \notin Tables /\ map = Empty
  <2>1. TableOf(value) = <<>> /\ Len(<<>>) = 0
    BY <1>1 DEF TableOf
  <2>2. QED
    BY <1>1, <2>1, NothingRead DEF Complete
<1>2. CASE value \in Tables /\ (KeysAreStrings(value) => RepresentsTo(map, f, value, Len(value)))
  BY <1>2 DEF Complete, TableOf
<1>3. QED
  BY <1>1, <1>2

\* lua_next goes on to the next entry, or past the last one.
LEMMA WalkGoesOn == TypeOK /\ WalkInv /\ RequestInv /\ lua_next => RequestInv'
<1> SUFFICES ASSUME TypeOK, WalkInv, RequestInv, lua_next PROVE RequestInv'
  OBVIOUS
<1>1. PICK table \in Tables : table = asked[field]
  BY DEF lua_next, WalkInv
<1>2. /\ pc = "walk" /\ UNCHANGED <<asked, request, arrived>> /\ field \in Fields
      /\ KeysAreStrings(table) =>
           \E n \in Places(table) : RepresentsTo(request[field], field, table, n)
      /\ IF field = "query" THEN request.headers = Empty
         ELSE Complete(request.query, "query", asked.query)
  BY <1>1 DEF lua_next, RequestInv, TypeOK
<1>3. CASE Return("luaError")
  BY <1>3 DEF Return, RequestInv
<1>4. CASE Len(table) \in Places(table) /\ NextField /\ cursor' = Nil
  <2>1. KeysAreStrings(table) => RepresentsTo(request[field], field, table, Len(table))
    BY <1>2, <1>4, PlaceIsUnique
  <2>2. Complete(request[field], field, asked[field])
    BY <1>1, <2>1, FieldIsComplete
  <2>3. CASE field = "query"
    BY <1>2, <1>4, <2>2, <2>3 DEF NextField, RequestInv
  <2>4. CASE field = "headers"
    BY <1>2, <1>4, <2>2, <2>4 DEF NextField, RequestInv, Fields
  <2>5. QED
    BY <1>2, <2>3, <2>4 DEF Fields
<1>5. ASSUME NEW i \in Places(table) \ {Len(table)},
             pc' = "entry", cursor' = table[i + 1].key, UNCHANGED <<field, result>>
      PROVE  RequestInv'
  <2>1. i + 1 \in 1 .. Len(table) /\ i \in Nat /\ Len(table) \in Nat
    BY <1>5, Positions
  <2>2. i + 1 \in Places(table)'
    BY <1>5, <2>1 DEF Places
  <2>3. KeysAreStrings(table) => RepresentsTo(request[field], field, table, (i + 1) - 1)
    <3>1. (i + 1) - 1 = i
      BY <2>1
    <3>2. QED
      BY <1>2, <1>5, <3>1, PlaceIsUnique
  <2>4. asked'[field'] = table /\ request' = request /\ field' = field
    BY <1>1, <1>2, <1>5
  <2>5. KeysAreStrings(asked'[field']) =>
          \E n \in Places(asked[field])' : RepresentsTo(request'[field'], field', asked'[field'], n - 1)
    BY <2>2, <2>3, <2>4
  <2>6. QED
    BY <1>2, <1>5, <2>5 DEF RequestInv
<1>6. QED
  BY <1>1, <1>3, <1>4, <1>5 DEF lua_next

\* The body of the loop takes the entry that lua_next is at, once.
LEMMA EntryIsTaken == TypeOK /\ WalkInv /\ RequestInv /\ TakeEntry => RequestInv'
<1> SUFFICES ASSUME TypeOK, WalkInv, RequestInv, TakeEntry PROVE RequestInv'
  OBVIOUS
<1>1. PICK table \in Tables : table = asked[field]
  BY DEF TakeEntry, WalkInv
<1>2. /\ pc = "entry" /\ UNCHANGED <<field, asked, arrived>> /\ field \in Fields /\ cursor # Nil
      /\ KeysAreStrings(table) =>
           \E n \in Places(table) : RepresentsTo(request[field], field, table, n - 1)
      /\ IF field = "query" THEN request.headers = Empty
         ELSE Complete(request.query, "query", asked.query)
  BY <1>1 DEF TakeEntry, RequestInv, TypeOK, WalkInv
<1>3. CASE Return("luaError")
  BY <1>3 DEF Return, RequestInv
<1>4. ASSUME NEW i \in Places(table), AreStrings(table[i]), pc' = "walk",
             request' = [request EXCEPT ![field] = Emplace(request[field], table[i])],
             cursor' = lua_tostring(table[i].key)
      PROVE  RequestInv'
  <2>1. i \in 1 .. Len(table) /\ Len(table) \in Nat
    BY <1>2, Positions
  <2>2. request'[field] = Emplace(request[field], table[i])
    BY <1>2, <1>4 DEF TypeOK, Fields
  <2>3. ASSUME KeysAreStrings(table)
        PROVE  \E n \in Places(table)' : RepresentsTo(request'[field], field, table, n)
    <3>1. RepresentsTo(request[field], field, table, i - 1)
      BY <1>2, <2>3, PlaceIsUnique
    <3>2. request'[field] = [x \in DOMAIN request[field] \cup {NameIn(field, table[i].key.text)} |->
                               IF x \in DOMAIN request[field] THEN request[field][x]
                               ELSE CValue[table[i].value]]
      BY <2>2 DEF Emplace, Name, NameIn
    <3>3. i \in Nat \ {0}
      BY <2>1
    <3>4. RepresentsTo(request'[field], field, table, i)
      BY <3>1, <3>2, <3>3, OneMoreRead
    <3>5. table[i].key \in LuaText /\ table[i].key.type = "string"
      BY <1>4, <2>1, <2>3, Entries DEF AreStrings, KeysAreStrings
    <3>6. cursor' = table[i].key
      BY <1>4, <3>5, StringStays
    <3>7. i \in Places(table)'
      BY <2>1, <3>6 DEF Places
    <3>8. QED
      BY <3>4, <3>7
  <2>4. asked'[field'] = table /\ field' = field
    BY <1>1, <1>2
  <2>5. KeysAreStrings(asked'[field']) =>
          \E n \in Places(asked[field])' : RepresentsTo(request'[field'], field', asked'[field'], n)
    BY <2>3, <2>4
  <2>6. IF field = "query" THEN request'.headers = Empty
        ELSE Complete(request'.query, "query", asked'.query)
    BY <1>2, <1>4 DEF TypeOK, Fields
  <2>7. QED
    BY <1>2, <1>4, <2>5, <2>6 DEF RequestInv
<1>5. QED
  BY <1>1, <1>3, <1>4 DEF TakeEntry

LEMMA RequestSteps == TypeOK /\ WalkInv /\ RequestInv /\ [Next]_vars => RequestInv'
<1> SUFFICES ASSUME TypeOK, WalkInv, RequestInv, [Next]_vars PROVE RequestInv'
  OBVIOUS
<1>1. CASE UNCHANGED vars
  BY <1>1 DEF vars, RequestInv, Places
<1>2. ASSUME NEW hasParams \in BOOLEAN, Send(hasParams) PROVE RequestInv'
  <2>1. request' = Default /\ asked' = NothingAsked /\ cursor' = Nil /\ field' = "query"
        /\ pc' = IF hasParams THEN "field" ELSE "send"
    BY <1>2 DEF Send, Begin, Fresh
  <2>2. /\ Default.query = Empty /\ Default.headers = Empty /\ Default.body = ""
        /\ NothingAsked.query = Nil /\ NothingAsked.headers = Nil /\ NothingAsked.body = Nil
    BY DEF Default, NothingAsked
  <2>3. \A f \in Fields : Complete(Empty, f, Nil)
    BY FieldIsComplete, ClientAssumption
  <2>4. \A f \in Fields : request'[f] = Empty /\ asked'[f] = Nil
    BY <2>1, <2>2 DEF Fields
  <2>5. \A f \in Fields : Complete(request'[f], f, asked'[f])
    BY <2>3, <2>4
  <2>6. CASE hasParams
    BY <2>1, <2>2, <2>5, <2>6 DEF RequestInv
  <2>7. CASE ~hasParams
    BY <2>1, <2>2, <2>5, <2>7 DEF RequestInv
  <2>8. QED
    BY <2>6, <2>7
<1>3. ASSUME NEW how \in {"luaError", "exception"}, SendRefused(how) PROVE RequestInv'
  BY <1>3 DEF SendRefused, Return, RequestInv
<1>4. ASSUME NEW value \in Tables \cup {Nil, NotTable}, GetField(value) PROVE RequestInv'
  <2>1. /\ pc = "field" /\ cursor' = Nil /\ request' = request /\ request[field] = Empty
        /\ asked' = [asked EXCEPT ![field] = value] /\ field \in Fields
        /\ IF field = "query" THEN request.headers = Empty
           ELSE Complete(request.query, "query", asked.query)
    BY <1>4 DEF GetField, RequestInv, TypeOK
  <2>2. /\ asked'[field] = value
        /\ field = "headers" => asked'.query = asked.query
    BY <2>1 DEF TypeOK, Fields
  <2>3. CASE value = Nil /\ NextField
    <3>1. Complete(request[field], field, value)
      BY <2>1, <2>3, FieldIsComplete, ClientAssumption
    <3>2. CASE field = "query"
      BY <2>1, <2>2, <2>3, <3>1, <3>2 DEF NextField, RequestInv
    <3>3. CASE field = "headers"
      BY <2>1, <2>2, <2>3, <3>1, <3>3 DEF NextField, RequestInv, Fields
    <3>4. QED
      BY <2>1, <3>2, <3>3 DEF Fields
  <2>4. CASE Return("luaError")
    BY <2>4 DEF Return, RequestInv
  <2>5. CASE value \in Tables /\ pc' = "walk" /\ UNCHANGED <<field, result>>
    <3>1. 0 \in Places(value)'
      BY <2>1, <2>5, Entries DEF Places
    <3>2. RepresentsTo(request'[field'], field', asked'[field'], 0)
      BY <2>1, <2>5, NothingRead
    <3>3. asked'[field'] = value
      BY <2>2, <2>5
    <3>4. \E n \in Places(asked[field])' : RepresentsTo(request'[field'], field', asked'[field'], n)
      BY <3>1, <3>2, <3>3
    <3>5. QED
      BY <2>1, <2>2, <2>5, <3>4 DEF RequestInv, Fields
  <2>6. QED
    BY <1>4, <2>3, <2>4, <2>5 DEF GetField
<1>5. CASE lua_next
  BY <1>5, WalkGoesOn
<1>6. CASE TakeEntry
  BY <1>6, EntryIsTaken
<1>7. ASSUME NEW text \in Values \cup {Nil, Other}, PopulateBody(text) PROVE RequestInv'
  <2>1. CASE Return("luaError")
    BY <2>1 DEF Return, RequestInv
  <2>2. CASE /\ request' = [request EXCEPT !.body = IF text = Nil THEN "" ELSE text]
             /\ pc' = "send"
    <3>1. asked' = [asked EXCEPT !.body = text] /\ pc = "body"
      BY <1>7 DEF PopulateBody
    <3>2. \A f \in Fields : asked'[f] = asked[f] /\ request'[f] = request[f]
      BY <2>2, <3>1 DEF TypeOK, Fields
    <3>3. asked'.body = text /\ request'.body = IF text = Nil THEN "" ELSE text
      BY <2>2, <3>1 DEF TypeOK
    <3>4. QED
      BY <2>2, <3>1, <3>2, <3>3 DEF RequestInv
  <2>3. QED
    BY <1>7, <2>1, <2>2 DEF PopulateBody
<1>8. ASSUME NEW arrives \in BOOLEAN, NEW how \in {"response", "error"}, Perform(arrives, how)
      PROVE  RequestInv'
  BY <1>8 DEF Perform, Return, RequestInv
<1>9. QED
  BY <1>1, <1>2, <1>3, <1>4, <1>5, <1>6, <1>7, <1>8 DEF Next, Step

\* RequestInv at the end of the call is what RequestIsComplete says.
LEMMA CompleteIsRepresented ==
  ASSUME NEW f \in Fields, Complete(request[f], f, asked[f]), StringKeyed(f)
  PROVE  Represents(request[f], f)
<1>1. KeysAreStrings(TableOf(asked[f]))
  <2>1. CASE asked[f] \in Tables
    BY <2>1 DEF StringKeyed, KeysAreStrings, TableOf
  <2>2. CASE asked[f] \notin Tables
    BY <2>2 DEF KeysAreStrings, TableOf
  <2>3. QED
    BY <2>1, <2>2
<1>2. RepresentsTo(request[f], f, TableOf(asked[f]), Len(TableOf(asked[f])))
  BY <1>1 DEF Complete
<1>3. QED
  BY <1>2 DEF RepresentsTo, Represents, TableOf

(* Whatever tables a script passes, of any length and in any order of      *)
(* lua_next, the request that is sent holds every parameter and header of  *)
(* this call once, the first value of a name, and its body, and nothing of *)
(* an earlier call (Execute, PopulateAdditionalParams).                    *)
THEOREM RequestsAreComplete == Spec => []RequestIsComplete
<1>1. Init => RequestInv
  BY DEF Init, RequestInv
<1>2. RequestInv => RequestIsComplete
  BY CompleteIsRepresented DEF RequestInv, RequestIsComplete
<1>3. QED
  BY <1>1, <1>2, TypeInvariant, RequestSteps, PTL DEF Spec

=============================================================================
