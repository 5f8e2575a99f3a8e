---------------------------- MODULE MCLuaExecutor ---------------------------
(* Small instances of LuaExecutor for TLC: names with two spellings, texts    *)
(* with and without a NUL, a table that is sent as a JSON text.               *)
EXTENDS LuaExecutor

MCToText == [b \in Bodies |-> IF b = "table" THEN "text" ELSE b]
MCLower == [n \in Names |-> IF n = "Name" THEN "name" ELSE n]
MCUpToNul == [t \in Texts |-> IF t = "text.nul" THEN "text" ELSE t]

\* A name in two cases, and nothing else that is optional; or everything else.
MCJsonRequests ==
  LET bare == [method |-> "GET", url |-> "", body |-> Missing, headers |-> Missing,
               query |-> Missing]
      twice == [n \in {"name", "Name"} |-> IF n = "name" THEN "text" ELSE ""]
  IN  {[bare EXCEPT !.headers = twice], [bare EXCEPT !.query = twice, !.body = "text.nul"]}

\* None, and a name in two cases, once with a value that is no text.
MCLuaHeaders ==
  {EmptyMap, [n \in {"name", "Name"} |-> IF n = "name" THEN "table" ELSE ""]}

\* 404.5, and beside the range: -1 and 65536.
MCStatuses == {2000, 4045, -10, 655360}

=============================================================================
