------------------------------ MODULE KvStorage -----------------------------
(***************************************************************************)
(* The Lua module miet.kv.storage (modules/kv/storage.cpp) over            *)
(* project::Storage: scripts that run at the same time store and read      *)
(* values under their projects, in one table of the database.              *)
(*                                                                         *)
(* A statement that gets no answer in time is an error for the script; the *)
(* server may not have seen it, or executes it later.                      *)
(***************************************************************************)
EXTENDS Integers, FiniteSets

CONSTANTS
  Executions,  \* executions of scripts, each with Lua objects of its own
  Projects,    \* values of projects_kv_storage.project_id
  NoProject,   \* nothing is being executed
  Keys,        \* values of projects_kv_storage.key
  Values,      \* Lua values
  Texts,       \* values of projects_kv_storage.value
  NoValue,     \* no row, no value
  Types,       \* the types a value can be cast to
  Serialized,  \* what ToString makes of a value that store is called with
  Deserialized, \* what FromString makes of a type and a text
                \* (both with how deep the value or text is nested)
  Plain,       \* <<type, value>>: the values that JSON can tell
  MaxLate      \* bound: statements given up on that are still to be executed

\* Serialized and Deserialized are results of LuaJson.
ASSUME KvAssumption ==
  /\ NoProject \notin Projects
  /\ NoValue \notin Values \cup Texts
  /\ \A v \in Values : /\ Serialized[v].ok \in BOOLEAN
                       /\ Serialized[v].ok => Serialized[v].value \in Texts
  /\ \A t \in Types, x \in Texts : Deserialized[<<t, x>>].ok \in BOOLEAN
  /\ {"none", "store", "get"} \cap Types = {}
  /\ Plain \subseteq Types \X Values
  /\ MaxLate \in Nat

(***************************************************************************)
(* projects_kv_storage holds, per project and key, the text that is the    *)
(* value, and as history values the project whose script stored it (by)    *)
(* and what it stored; existing are the keys of the projects table, which  *)
(* project_id refers to.  late are the statements given up on that will be *)
(* executed.  project[e] is the projectId_ of e's methods, while e runs a  *)
(* script; result_[e] is the StorageResult of its last get.  returned is   *)
(* what the call of the last step returned to the script of execution by,  *)
(* how low and how high the Lua stack was during it, high counting from    *)
(* the end of the arguments, and how deep what it converted is nested.     *)
(*                                                                         *)
(* acked[e][k] is a history variable: the text e has stored under k and    *)
(* nobody has stored over since, as far as e's project goes.               *)
(***************************************************************************)
VARIABLES projects_kv_storage, existing, late, project, result_, returned, acked

vars == <<projects_kv_storage, existing, late, project, result_, returned, acked>>

db == <<projects_kv_storage, existing>>

NoRow == [value |-> NoValue, by |-> NoValue, stored |-> NoValue]

\* how is "ok", "missing" or "failed"; expected, a history value, is acked
\* when the get was made.
NoResult == [how |-> "none", row |-> NoRow, expected |-> NoValue]

\* call is "none", "store", "get" or the type of a cast; ok: with no message.
Returns(e, call, ok, value, low, high, depth) ==
  returned' = [by |-> e, call |-> call, ok |-> ok, value |-> value,
               low |-> low, high |-> high, depth |-> depth]

NoCall == [call |-> "none", ok |-> TRUE, low |-> 0, high |-> 0, depth |-> 0]

Init ==
  /\ projects_kv_storage = [r \in Projects \X Keys |-> NoRow]
  /\ existing = Projects
  /\ late = {}
  /\ project = [e \in Executions |-> NoProject]
  /\ result_ = [e \in Executions |-> NoResult]
  /\ returned = NoCall
  /\ acked = [e \in Executions |-> [k \in Keys |-> NoValue]]

Running(e) == project[e] # NoProject

\* Execute makes a kv::Storage for the project of the script.
Start(e, p) ==
  /\ ~Running(e)
  /\ project' = [project EXCEPT ![e] = p]
  /\ returned' = NoCall
  /\ UNCHANGED <<db, late, result_, acked>>

\* The objects of the script go.
Ends(e) ==
  /\ Running(e)
  /\ project' = [project EXCEPT ![e] = NoProject]
  /\ result_' = [result_ EXCEPT ![e] = NoResult]
  /\ acked' = [acked EXCEPT ![e] = [k \in Keys |-> NoValue]]
  /\ UNCHANGED <<db, late>>

End(e) == Ends(e) /\ returned' = NoCall

\* Another service deletes the project, and the database its rows with it.
\* Its scripts go on, and may even be started from the cache of scripts.
DeleteProject(p) ==
  /\ p \in existing
  /\ existing' = existing \ {p}
  /\ projects_kv_storage' =
       [r \in Projects \X Keys |-> IF r[1] = p THEN NoRow ELSE projects_kv_storage[r]]
  /\ acked' = [e \in Executions |-> IF project[e] = p THEN [k \in Keys |-> NoValue]
                                                     ELSE acked[e]]
  /\ returned' = NoCall
  /\ UNCHANGED <<late, project, result_>>

-----------------------------------------------------------------------------
(* project::Storage::Store and StoreMethod.                                *)

\* Object, storage, key and value.
StoreArguments == 4

\* Mutant: the project of the method is left at its initial value.
RowOfDefault(p, k) == <<CHOOSE q \in Projects : TRUE, k>>

\* The primary key.
RowOf(p, k) == <<p, k>>

RowWith(p, v) == [value |-> Serialized[v].value, by |-> p, stored |-> v]

\* Mutant: a value that is already there stays.
UpsertDoingNothing(k, row) ==
  projects_kv_storage' =
    [projects_kv_storage EXCEPT ![RowOf(row.by, k)] = IF @ = NoRow THEN row ELSE @]

\* INSERT ... ON CONFLICT DO UPDATE, on the master.
Upsert(k, row) == projects_kv_storage' = [projects_kv_storage EXCEPT ![RowOf(row.by, k)] = row]

\* acked, once the executions in E have written the row.
Acked(k, row, E) ==
  [e \in Executions |->
     IF project[e] = row.by THEN [acked[e] EXCEPT ![k] = IF e \in E THEN row.value ELSE NoValue]
                            ELSE acked[e]]

StoreReturns(e, ok, v) ==
  Returns(e, "store", ok, NoValue, Serialized[v].top, Serialized[v].peak - StoreArguments,
          Serialized[v].depth)

Store(e, k, v) ==
  /\ Running(e) /\ project[e] \in existing
  /\ Serialized[v].ok
  /\ Upsert(k, RowWith(project[e], v))
  /\ acked' = Acked(k, RowWith(project[e], v), {e})
  /\ StoreReturns(e, TRUE, v)
  /\ UNCHANGED <<existing, late, project, result_>>

\* The script gets a message; the statement failed (so it does when the
\* project is gone), is lost, or is executed later.
StoreFails(e, k, v) ==
  /\ Running(e)
  /\ Serialized[v].ok
  /\ \/ UNCHANGED late
     \/ /\ Cardinality(late) < MaxLate
        /\ late' = late \cup {[key |-> k, row |-> RowWith(project[e], v)]}
  /\ StoreReturns(e, FALSE, v)
  /\ UNCHANGED <<db, project, result_, acked>>

\* The serializer is called outside of the try: its exception ends the script.
StoreThrows(e, v) == ~Serialized[v].ok /\ Ends(e) /\ StoreReturns(e, FALSE, v)

LateStore(s) ==
  /\ late' = late \ {s}
  /\ \/ /\ s.row.by \in existing
        /\ Upsert(s.key, s.row)
        /\ acked' = Acked(s.key, s.row, {})
     \/ s.row.by \notin existing /\ UNCHANGED <<projects_kv_storage, acked>>
  /\ returned' = NoCall
  /\ UNCHANGED <<existing, project, result_>>

-----------------------------------------------------------------------------
(* project::Storage::Get, GetMethod and ResultCastMethod.                  *)

\* The script gets a handle whatever became of the SELECT.
Result(e, how, row, k) ==
  /\ result_' = [result_ EXCEPT ![e] = [how |-> how, row |-> row, expected |-> acked[e][k]]]
  /\ Returns(e, "get", TRUE, NoValue, 0, 1, 0)

\* The SELECT, on the master: NoRow where it finds none.
Select(p, k) == projects_kv_storage[RowOf(p, k)]

\* Mutant: the number of rows is not looked at.
GetUnchecked(e, k) ==
  /\ Running(e)
  /\ Result(e, "ok", Select(project[e], k), k)
  /\ UNCHANGED <<db, late, project, acked>>

Get(e, k) ==
  LET row == Select(project[e], k) IN
  /\ Running(e)
  /\ \/ row = NoRow /\ Result(e, "missing", NoRow, k)
     \/ row # NoRow /\ Result(e, "ok", row, k)
  /\ UNCHANGED <<db, late, project, acked>>

GetFails(e, k) ==
  /\ Running(e)
  /\ Result(e, "failed", NoRow, k)
  /\ UNCHANGED <<db, late, project, acked>>

\* Object and handle; they are removed before anything is pushed.
CastArguments == 2

\* With as many slots pushed on what a conversion has left.
Highest(r, pushed) == IF r.peak > r.top + pushed THEN r.peak ELSE r.top + pushed

\* The value and nil; or nil and a message, on what the deserializer has left.
Cast(e, type) ==
  LET r == Deserialized[<<type, result_[e].row.value>>] IN
  /\ Running(e) /\ result_[e].how # "none"
  /\ \/ result_[e].how # "ok" /\ Returns(e, type, FALSE, NoValue, 0, 0, 0)
     \/ /\ result_[e].how = "ok" /\ r.ok
        /\ Returns(e, type, TRUE, r.value, r.top, Highest(r, 1) - CastArguments, r.depth)
     \/ /\ result_[e].how = "ok" /\ ~r.ok
        /\ Returns(e, type, FALSE, NoValue, r.top, Highest(r, 2) - CastArguments, r.depth)
  /\ UNCHANGED <<db, late, project, result_, acked>>

-----------------------------------------------------------------------------
\* The stack slots Lua guarantees to a C function, beyond its arguments.
LUA_MINSTACK == 20

\* Slots of others were overwritten or popped, which is undefined behaviour:
\* nothing comes of it, or the process ends, and all it runs.
LeaveFrame ==
  /\ returned.low < 0 \/ returned.high > LUA_MINSTACK
  /\ project' = [e \in Executions |-> NoProject]
  /\ result_' = [e \in Executions |-> NoResult]
  /\ acked' = [e \in Executions |-> [k \in Keys |-> NoValue]]
  /\ returned' = NoCall
  /\ UNCHANGED <<db, late>>

Next ==
  \/ LeaveFrame
  \/ \E p \in Projects : DeleteProject(p)
  \/ \E s \in late : LateStore(s)
  \/ \E e \in Executions :
       \/ End(e) \/ \E p \in Projects : Start(e, p)
       \/ \E type \in Types : Cast(e, type)
       \/ \E v \in Values : StoreThrows(e, v)
       \/ \E k \in Keys : \/ Get(e, k) \/ GetFails(e, k)
                          \/ \E v \in Values : Store(e, k, v) \/ StoreFails(e, k, v)

Spec == Init /\ [][Next]_vars

-----------------------------------------------------------------------------
Rows == [value : Texts, by : Projects, stored : Values]

StorageResult ==
  [how : {"none", "ok", "missing", "failed"}, row : Rows \cup {NoRow},
   expected : Texts \cup {NoValue}]

\* Every variable has its type; a value that was found is a value.
TypeOK ==
  /\ projects_kv_storage \in [Projects \X Keys -> Rows \cup {NoRow}]
  /\ existing \subseteq Projects
  /\ late \subseteq [key : Keys, row : Rows]
  /\ project \in [Executions -> Projects \cup {NoProject}]
  /\ result_ \in [Executions -> StorageResult]
  /\ acked \in [Executions -> [Keys -> Texts \cup {NoValue}]]
  /\ \A e \in Executions :
       IF result_[e].how = "ok" THEN result_[e].row \in Rows ELSE result_[e].row = NoRow

(* Projects are kept apart: a value a script gets was stored by a script   *)
(* of its own project, in whatever execution, at once or late.             *)
ProjectsAreIsolated ==
  \A e \in Executions : result_[e].how = "ok" => result_[e].row.by = project[e]

(* A script reads what it wrote: once store has answered nil, a get of the *)
(* key answers that value until another script of the project, or a        *)
(* statement reported as failed and executed late, stores over it, or the  *)
(* project is deleted.                                                     *)
ReadYourWrites ==
  \A e \in Executions :
    result_[e].expected # NoValue =>
      /\ result_[e].how # "missing"
      /\ result_[e].how = "ok" => result_[e].row.value = result_[e].expected

(* What a script of the project has stored comes back as it was, through   *)
(* JSON and the database, when it is cast to its own type: every boolean,  *)
(* string without a NUL and number that a double can be, and every table   *)
(* of these that JSON can tell (Serializer, Deserializer,                  *)
(* ResultCastMethod).                                                      *)
PlainValueComesBack ==
  returned.call \in Types =>
    LET stored == result_[returned.by].row.stored IN
    <<returned.call, stored>> \in Plain => returned.ok /\ returned.value = stored

\* How deep a value may be nested for its conversions to have slots enough,
\* and for a conversion that fails not to pop more than the arguments.
SafeDepth == 10
SafeDepthOfError == 4

(* The conversions walk nested tables on the Lua stack and neither check   *)
(* its size nor leave it as it was when they fail.  What they convert may  *)
(* be nested ten deep before they write past the frame of the call, and    *)
(* what cannot be serialized four deep before they pop below it; a         *)
(* conversion that succeeds never does that (LuaTableToValue, PushTable).  *)
StackStaysInFrame ==
  /\ returned.depth <= SafeDepth => returned.high <= LUA_MINSTACK
  /\ returned.ok \/ returned.depth <= SafeDepthOfError => returned.low >= 0

=============================================================================
