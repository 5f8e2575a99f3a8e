---------------------------- MODULE MCKvStorage -----------------------------
(***************************************************************************)
(* Small instances of KvStorage for TLC: a string that reads as a number,  *)
(* strings with a NUL, numbers that no double is, tables with what cannot  *)
(* be converted, and tables as deep as the frame of a call allows and      *)
(* deeper, with the conversions of LuaJson.                                *)
(***************************************************************************)
EXTENDS KvStorageJson, TLC

CONSTANTS nan   \* NaN

Symmetry == Permutations(Executions) \cup Permutations(Projects)

\* Doubles of three bits: 9 becomes 8.
MCNumbers == {1, 2, 8, 9, nan}
MCDoubles == {1, 2, 8}
MCDouble == [n \in MCNumbers |-> IF n = 9 THEN 8 ELSE n]
MCWritten == (1 :> "1.0") @@ (2 :> "2.0") @@ (8 :> "8.0")
MCLexical ==
  (Numeral("1.0") :> 1) @@ (Numeral("2.0") :> 2) @@ (Numeral("8.0") :> 8) @@ (Word("nan") :> nan)

\* The word nul is an a before a NUL.
MCCString == [w \in Words |-> IF w = "nul" THEN Word("a") ELSE Word(w)]

In(v) == Table(<< <<Str(Word("a")), v>> >>)

List == Table(<< <<Num(1), Str(Numeral("1.0"))>>, <<Num(2), Bool("true")>> >>)

\* A list in nine tables.
Deep ==
  Table(<< <<Str(Word("a")), List>>, <<Str(Word("b")), Num(1)>>,
           <<Str(Word("c")), In(In(In(In(In(In(In(In(List))))))))>> >>)

\* With strings and a number that do not come back, and a null.
Deeper ==
  Table(<< <<Str(Word("nul")), Str(Word("nul"))>>, <<Str(Word("b")), Num(9)>>,
           <<Str(Word("c")), Deep>>, <<Str(Word("f")), Table(<<>>)>> >>)

Code == <<"function", "f">>

\* The values go by their names.
LuaValue ==
  [digit  |-> Str(Numeral("1.0")),
   deep   |-> Deep,
   deeper |-> Deeper,
   noNum  |-> Num(nan),
   low    |-> In(In(In(In(In(Code))))),
   badKey |-> In(In(In(Table(<< <<Bool("true"), Num(1)>> >>)))),
   mixed  |-> Table(<< <<Num(1), Num(1)>>, <<Str(Word("a")), Num(1)>> >>)]

MCContent == [v \in Values |-> LuaValue[v]]

\* The texts of different values differ, and go by the same names.
MCTextContent == [v \in Texts |-> SerializerToString(LuaValue[v]).value] @@ <<>>

SerializedTable ==
  [v \in Values |->
     LET r == SerializerToString(LuaValue[v]) IN
     [ok |-> r.ok, value |-> v, top |-> r.top + StoreArguments,
      peak |-> r.peak + StoreArguments, depth |-> DepthOfValue(LuaValue[v])]] @@ <<>>

DeserializedTable ==
  [c \in Types \X Texts |->
     LET r == FromString[<<c[1], TextContent[c[2]]>>] IN
     [ok |-> r.ok, top |-> r.top, peak |-> r.peak, depth |-> DepthOfText(TextContent[c[2]]),
      value |-> IF \E v \in Values : LuaValue[v] = r.value
                THEN CHOOSE v \in Values : LuaValue[v] = r.value ELSE NoValue]] @@ <<>>

\* Of their own, so that TLC evaluates the tables once.
MCSerialized == SerializedTable
MCDeserialized == DeserializedTable

MCPlain == {<<"string", "digit">>, <<"table", "deep">>}

=============================================================================
