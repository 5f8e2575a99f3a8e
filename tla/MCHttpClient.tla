---------------------------- MODULE MCHttpClient ----------------------------
(* Small instances of HttpClient for TLC: tables of at most MaxEntries       *)
(* entries, in every order; as a header name, b is a in another case, and c  *)
(* and w are a and u with a NUL and more behind it.                          *)
EXTENDS HttpClient

CONSTANT MaxEntries

MCFold == [x \in Texts |-> IF x = "b" THEN "a" ELSE x]
MCCKey == [x \in Texts |-> IF x = "c" THEN "a" ELSE x]
MCCValue == [x \in Values \cup {Other} |-> IF x = "w" THEN "u" ELSE x]

MCEntries ==
  [key : [type : {"string"}, text : Texts], value : Values]
    \cup {[key |-> [type |-> "number", text |-> "a"], value |-> "u"],
          [key |-> [type |-> "string", text |-> "a"], value |-> Other],
          [key |-> Other, value |-> "u"]}

AllTables ==
  UNION {{t \in [1 .. n -> MCEntries] :
            \A i, j \in 1 .. n : t[i].key = t[j].key => i = j} : n \in 0 .. MaxEntries}

\* Listed, so that TLC makes them once.
MCTables == {t : t \in AllTables}

=============================================================================
