------------------------------- MODULE LuaJson ------------------------------
(***************************************************************************)
(* utils::Serializer and utils::Deserializer (engine/lua/utils.cpp): Lua   *)
(* values become texts, JSON where they are tables, and come back, over    *)
(* the Lua stack.                                                          *)
(*                                                                         *)
(* A Lua value is <<type, content>>; the content of a table is its entries *)
(* <<key, value>> in the order of lua_next.  A text is a numeral, a JSON   *)
(* array or object, or any other word, also <<kind, content>>: the string  *)
(* "1.0" and the number 1 have the same text.  A JSON value is a text with *)
(* its kind, strings being told apart.                                     *)
(*                                                                         *)
(* Strings go through C strings, which end at the first NUL, and numbers   *)
(* through double and its decimal spelling.  An integer and the float that *)
(* equals it are one number, as they are for Lua's ==.  Keys that are      *)
(* alike up to a NUL make an object with one name twice; what becomes of   *)
(* that is not followed.                                                   *)
(*                                                                         *)
(* A conversion yields ok (or it has thrown) with a value, and where the   *)
(* top of the stack is afterwards (top) and at most (peak), counted from   *)
(* where it was when the conversion began.                                 *)
(***************************************************************************)
EXTENDS Integers, Sequences, FiniteSetsExt

CONSTANTS
  Words,    \* texts that are neither numerals nor tables
  CString,  \* what is before the first NUL of a word (external)
  Numerals, \* spellings of numbers in JSON
  Numbers,  \* Lua numbers, NaN and the infinities among them
  Doubles,  \* the finite ones that a double can be
  Double,   \* lua_tonumber: the double nearest to a number (external)
  Written,  \* how JSON spells a double (external)
  Lexical,  \* lexical_cast<double> of the texts it accepts (external)
  MaxDepth  \* bound: how deep tables are nested

Word(s) == <<"word", s>>
Numeral(n) == <<"numeral", n>>
Null == Word("null")

Basic == ({"word"} \X Words) \cup ({"numeral"} \X Numerals)

\* JSON spells a double so that it can be read back.
ASSUME JsonAssumption ==
  /\ {"true", "false", "null"} \subseteq Words
  /\ CString \in [Words -> Basic]
  /\ Doubles \subseteq Numbers
  /\ Double \in [Numbers -> Numbers]
  /\ \A d \in Doubles : Double[d] = d
  /\ Written \in [Doubles -> Numerals]
  /\ \A d \in Doubles : /\ Numeral(Written[d]) \in DOMAIN Lexical
                         /\ Lexical[Numeral(Written[d])] = d
  /\ MaxDepth \in Nat

Str(text) == <<"string", text>>
Num(n) == <<"number", n>>
Bool(s) == <<"boolean", s>>
Table(entries) == <<"table", entries>>

\* A text as a C string; JSON escapes a NUL, so only words have one.
Cut(text) == IF text[1] = "word" THEN CString[text[2]] ELSE text

-----------------------------------------------------------------------------
(* What there is to convert, by how deep it is nested.                     *)

Json(text) == text \cup ({"string"} \X text)

Booleans == {"boolean"} \X {"true", "false"}

Scalar(text) ==
  ({"string"} \X text) \cup ({"number"} \X Numbers) \cup Booleans \cup ({"function"} \X Words)

\* The strings without a NUL.
Uncut(text) == {"string"} \X {t \in text : Cut(t) = t}

\* The values that JSON can tell, as far as they are no tables.
PlainScalar(text) == Uncut(text) \cup ({"number"} \X Doubles) \cup Booleans

\* Numbers name the elements of a list, in order, and strings the rest.
PlainEntries(below) ==
  {s \in Seq(({"number"} \X Numbers) \X below.plain) : \A i \in DOMAIN s : s[i][1] = Num(i)}
    \cup Seq(Uncut(below.text) \X below.plain)

Flat == [text |-> Basic, value |-> Scalar(Basic), plain |-> PlainScalar(Basic)]

NestedText(below) ==
  Basic \cup ({"array"} \X Seq(Json(below.text)))
        \cup ({"object"} \X Seq(below.text \X Json(below.text)))

Nested(below) ==
  LET text == NestedText(below)
  IN  [text  |-> text,
       value |-> Scalar(text) \cup ({"table"} \X Seq(Scalar(below.text) \X below.value)),
       plain |-> PlainScalar(text) \cup ({"table"} \X (PlainEntries(below) \ {<<>>}))]

Level[n \in 0 .. MaxDepth] == IF n = 0 THEN Flat ELSE Nested(Level[n - 1])

-----------------------------------------------------------------------------
Done(value, top, peak) == [ok |-> TRUE, value |-> value, top |-> top, peak |-> peak]
Thrown(top, peak) == [ok |-> FALSE, value |-> Null, top |-> top, peak |-> peak]

\* The index at which a walk of n entries stops, some of which fail.
Last(failing, n) == Min(failing \cup {n})

\* The sequence itself, which TLC then evaluates once.
All(s) == SubSeq(s, 1, Len(s))

\* value.As<std::string>() of a string, ToString of all others.
TextOf(json) == IF json[1] = "string" THEN json[2] ELSE json

\* A text that is JSON is a number, a table, or one of three words.
IsJson(text) == text[1] = "word" => text[2] \in {"true", "false", "null"}

-----------------------------------------------------------------------------
(* Serializer.                                                             *)

\* Strings name the members of an object; numbers only order those of an array.
KindFor(key) == IF key[1] = "string" THEN "object" ELSE "array"

\* Mutant: on an error the table and what is below it are popped as well.
PoppedOnErrorTwice == 5

\* lua_pop(L, 3): value, key and the table itself.
PoppedOnError == 3

(* Every key and value is pushed over the table, which is on top; value    *)
(* are the results of ToValue.  An error is thrown by a key that is        *)
(* neither string nor number, by a value, and by the builder, which is     *)
(* null until it takes a first member and an object or an array then; that *)
(* last one leaves the stack as it is.                                     *)
LuaTableToValue(entries, value) ==
  LET key(i)    == entries[i][1]
      kind      == KindFor(key(1))
      BadKey(i) == key(i)[1] \notin {"string", "number"}
      Fails(i)  == BadKey(i) \/ ~value[i].ok \/ KindFor(key(i)) # kind
      last      == Last({i \in 1 .. Len(entries) : Fails(i)}, Len(entries))
      pushed    == 2
      peak      == Max({pushed} \cup
                       {value[i].peak + pushed : i \in {j \in 1 .. last : ~BadKey(j)}})
  IN  CASE entries = <<>>                 -> Done(Null, 0, 1)
        [] entries # <<>> /\ ~Fails(last) ->
             Done(<<kind, [i \in 1 .. Len(entries) |->
                             IF kind = "object" THEN <<Cut(key(i)[2]), value[i].value>>
                             ELSE value[i].value]>>, 0, peak)
        [] entries # <<>> /\ BadKey(last) -> Thrown(pushed - PoppedOnError, peak)
        [] entries # <<>> /\ ~BadKey(last) /\ ~value[last].ok ->
             Thrown(value[last].top + pushed - PoppedOnError, peak)
        [] OTHER                          -> Thrown(pushed, peak)

\* The results of ToValue for the values of a table.
ValuesOf(entries, toValue) == All([i \in 1 .. Len(entries) |-> toValue[entries[i][2]]])

\* The builder takes no NaN and no infinity (external).
LuaNumberToValue(n) ==
  IF Double[n] \in Doubles THEN Done(Numeral(Written[Double[n]]), 0, 0) ELSE Thrown(0, 0)

\* The value is on top of the stack; toValue tells of those nested in it.
ToValueFrom(v, toValue) ==
  CASE v[1] = "string"  -> Done(Str(Cut(v[2])), 0, 0)
    [] v[1] = "number"  -> LuaNumberToValue(v[2])
    [] v[1] = "boolean" -> Done(Word(v[2]), 0, 0)
    [] v[1] = "table"   -> LuaTableToValue(v[2], ValuesOf(v[2], toValue))
    [] OTHER            -> Thrown(0, 0)

ToValue[v \in Level[MaxDepth].value] == ToValueFrom(v, ToValue)

\* A string, as far as it was kept, is its own text.
SerializerToString(v) ==
  LET r == ToValue[v] IN IF r.ok THEN Done(TextOf(r.value), r.top, r.peak) ELSE r

-----------------------------------------------------------------------------
(* Deserializer.                                                           *)

LuaTypes == {"string", "number", "boolean", "table", "none"}

\* Type::String, Number, Boolean, Table of a JSON value; null has none.
GetType(json) ==
  CASE json[1] = "string"              -> "string"
    [] json[1] = "numeral"             -> "number"
    [] json[1] = "word" /\ json # Null -> "boolean"
    [] json[1] \in {"object", "array"} -> "table"
    [] OTHER                           -> "none"

\* Called with the table and the key on the stack, which go if FromString,
\* of which r is the result, throws; GetType throws before.
PushValue(json, r) ==
  IF GetType(json) = "none" THEN Thrown(0, 0)
  ELSE IF r.ok THEN r ELSE Thrown(r.top - 2, r.peak)

\* Mutant: the elements of an array are counted from 0.
IndexFromZero(i) == i - 1

\* Lua counts the elements of an array from 1.
Index(i) == i

\* The JSON values in an object or an array.
Members(text) ==
  CASE text[1] = "object" -> [i \in 1 .. Len(text[2]) |-> text[2][i][2]]
    [] text[1] = "array"  -> text[2]
    [] OTHER              -> <<>>

(* A table is pushed, then each member's key and value over it, which      *)
(* lua_settable pops; value are the results of PushValue.  A text that is  *)
(* not JSON throws before that, one that is no table after it.             *)
PushTable(text, value) ==
  LET key(i)   == IF text[1] = "object" THEN Str(Cut(text[2][i][1])) ELSE Num(Index(i))
      last     == Last({i \in 1 .. Len(value) : ~value[i].ok}, Len(value))
      peak     == Max({1} \cup {value[i].peak + 2 : i \in 1 .. last})
  IN  CASE text[1] \notin {"object", "array"} ->
             Thrown(0, IF IsJson(text) THEN 1 ELSE 0)
        [] text[1] \in {"object", "array"} /\ last > 0 /\ ~value[last].ok ->
             Thrown(value[last].top + 2, peak)
        [] OTHER ->
             Done(Table([i \in 1 .. Len(value) |-> <<key(i), value[i].value>>]), 1, peak)

\* The results of PushValue for the members of a table.
PushedBy(json, fromString) ==
  All([i \in 1 .. Len(json) |->
         PushValue(json[i], fromString[<<GetType(json[i]), TextOf(json[i])>>])])

\* lexical_cast throws for what it does not accept.
PushNumber(text) ==
  IF text \in DOMAIN Lexical THEN Done(Num(Lexical[text]), 1, 1) ELSE Thrown(0, 0)

\* Any word but true is false; fromString tells of what is nested in the text.
FromStringFrom(type, text, fromString) ==
  CASE type = "string"  -> Done(Str(Cut(text)), 1, 1)
    [] type = "number"  -> PushNumber(text)
    [] type = "boolean" -> Done(Bool(IF text = Word("true") THEN "true" ELSE "false"), 1, 1)
    [] type = "table"   -> PushTable(text, PushedBy(Members(text), fromString))
    [] OTHER            -> Thrown(0, 0)

FromString[c \in LuaTypes \X Level[MaxDepth].text] == FromStringFrom(c[1], c[2], FromString)

=============================================================================
