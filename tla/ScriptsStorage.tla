--------------------------- MODULE ScriptsStorage ---------------------------
(***************************************************************************)
(* miet::lambda::ScriptsStorage: the cache of compiled scripts that every  *)
(* request goes through, over the DBScriptsFetcher.                        *)
(*                                                                         *)
(* Get and Refresh run in any number of coroutine tasks at once.  The      *)
(* mutex of scripts_ is held only around one lookup or one Put, never      *)
(* across the fetch, so a call is three atomic steps (lookup, fetch and    *)
(* compile, put) between which every other task, the services that write   *)
(* the scripts table and the replication of that table may run.            *)
(***************************************************************************)
EXTENDS Naturals, FiniteSets, Sequences

CONSTANTS
  Tasks,         \* coroutine tasks that call the storage
  ScriptIds,     \* primary keys of the scripts table
  Projects,      \* primary keys of the projects table
  NullProject,   \* SQL NULL in scripts.parent_project_id
  Sources,       \* values of scripts.source_code
  Compilable,    \* the sources the Lua compiler accepts
  NoRow,         \* there is no row with this id
  NullScript,    \* a null ScriptPtr
  MaxCacheSize,  \* static config max-cache-size
  MaxVersions    \* bound: number of contents one row has over time

Row == [projectId : Projects \cup {NullProject}, sourceCode : Sources]

\* The version field is a history value: the object does not know it.
Script == [scriptId : ScriptIds, projectId : Projects, sourceCode : Sources,
           version : Nat]

ASSUME StorageAssumption ==
  /\ Compilable \subseteq Sources
  /\ NullProject \notin Projects
  /\ NoRow \notin Row
  /\ NullScript \notin Script
  /\ MaxCacheSize \in Nat
  /\ MaxVersions \in Nat \ {0}

(***************************************************************************)
(* The database.  history[s] lists the contents the row s has had, oldest  *)
(* first; its last element is what the master holds.  Every host has       *)
(* applied at least the first applied[s] of them.                          *)
(*                                                                         *)
(* The storage.  scripts_ maps the cached ids to script objects; recent    *)
(* holds <<a, b>> when a was used after b.                                 *)
(*                                                                         *)
(* A task.  call[t] is the call t makes or made last: its operation and    *)
(* its argument, and two history values used by the properties only        *)
(* (applied[id] and settled[id] when the call began).  held[t] is the      *)
(* ScriptPtr in hand, outcome[t] how the last call ended.                  *)
(*                                                                         *)
(* settled[s] is a history variable: the highest version that was applied  *)
(* everywhere when some Refresh(s) began that nobody was about to          *)
(* overwrite with an older script (see Settle).                            *)
(***************************************************************************)
VARIABLES history, applied, scripts_, recent, pc, call, held, outcome, settled

db    == <<history, applied>>
cache == <<scripts_, recent>>
task  == <<pc, call, held, outcome>>
vars  == <<history, applied, scripts_, recent, pc, call, held, outcome, settled>>

useCache_ == MaxCacheSize # 0

Init ==
  /\ history \in [ScriptIds -> {<<r>> : r \in Row \cup {NoRow}}]
  /\ applied = [s \in ScriptIds |-> 1]
  /\ scripts_ = [s \in {} |-> NullScript]
  /\ recent = {}
  /\ pc = [t \in Tasks |-> "idle"]
  /\ call \in [Tasks -> [op : {"Get"}, id : ScriptIds, since : {0}, settled : {0}]]
  /\ held = [t \in Tasks |-> NullScript]
  /\ outcome = [t \in Tasks |-> "none"]
  /\ settled = [s \in ScriptIds |-> 0]

-----------------------------------------------------------------------------
(* The scripts table: written by other services, replicated by PostgreSQL. *)

\* Another service inserts, changes or deletes the row s on the master.
WriteRow(s, row) ==
  /\ Len(history[s]) < MaxVersions
  /\ row # history[s][Len(history[s])]
  /\ history' = [history EXCEPT ![s] = Append(@, row)]
  /\ UNCHANGED <<applied, cache, task, settled>>

\* The last of the hosts that lack it applies the next version of row s.
Replicate(s) ==
  /\ applied[s] < Len(history[s])
  /\ applied' = [applied EXCEPT ![s] = @ + 1]
  /\ UNCHANGED <<history, cache, task, settled>>

-----------------------------------------------------------------------------
(* userver's LruMap, which is given max(1, max-cache-size) nodes.          *)

Capacity == IF MaxCacheSize = 0 THEN 1 ELSE MaxCacheSize

\* The usage order of keys once id has been used last.
Used(id, keys) ==
  (recent \cap ((keys \ {id}) \X (keys \ {id}))) \cup ({id} \X (keys \ {id}))

\* The least recently used key gives its node to a new key when none is free.
Evicted(id) ==
  {old \in DOMAIN scripts_ :
     /\ id \notin DOMAIN scripts_
     /\ Cardinality(DOMAIN scripts_) >= Capacity
     /\ \A k \in DOMAIN scripts_ \ {old} : <<k, old>> \in recent}

LruPut(id, script) ==
  LET keys == (DOMAIN scripts_ \ Evicted(id)) \cup {id}
  IN  /\ scripts_' = [k \in keys |-> IF k = id THEN script ELSE scripts_[k]]
      /\ recent' = Used(id, keys)

-----------------------------------------------------------------------------
(* ScriptsStorage.                                                         *)

Return(t, how) ==
  /\ pc' = [pc EXCEPT ![t] = "idle"]
  /\ outcome' = [outcome EXCEPT ![t] = how]

Answer(op) == IF op = "Get" THEN "script" ELSE "refreshed"

Begin(t, op, s, step) ==
  /\ pc[t] = "idle"
  /\ pc' = [pc EXCEPT ![t] = step]
  /\ call' = [call EXCEPT ![t] = [op |-> op, id |-> s, since |-> applied[s],
                                  settled |-> settled[s]]]
  /\ held' = [held EXCEPT ![t] = NullScript]
  /\ outcome' = [outcome EXCEPT ![t] = "none"]
  /\ UNCHANGED <<db, cache, settled>>

Get(t, s) == Begin(t, "Get", s, IF useCache_ THEN "lookup" ELSE "fetch")

Refresh(t, s) == Begin(t, "Refresh", s, "fetch")

\* The first critical section of Get.
Lookup(t) ==
  LET id == call[t].id IN
  /\ pc[t] = "lookup"
  /\ \/ /\ id \in DOMAIN scripts_
        /\ held' = [held EXCEPT ![t] = scripts_[id]]
        /\ recent' = Used(id, DOMAIN scripts_)
        /\ Return(t, "script")
     \/ /\ id \notin DOMAIN scripts_
        /\ pc' = [pc EXCEPT ![t] = "fetch"]
        /\ UNCHANGED <<held, recent, outcome>>
  /\ UNCHANGED <<db, scripts_, call, settled>>

\* Mutant: a null project is read as some project.
UsableWithoutProject(row) == row.sourceCode \in Compilable

\* A null project id does not convert to Bigint, and Compile throws on a
\* source it does not accept.
Usable(row) == row.projectId # NullProject /\ row.sourceCode \in Compilable

\* Mutant: SetScriptId is forgotten.
CompiledWithoutId(id, row, v) ==
  [scriptId |-> CHOOSE s \in ScriptIds : TRUE, projectId |-> row.projectId,
   sourceCode |-> row.sourceCode, version |-> v]

\* Compile, SetScriptId and SetProjectId on a row that was read.
Compiled(id, row, v) ==
  [scriptId |-> id, projectId |-> row.projectId, sourceCode |-> row.sourceCode,
   version |-> v]

NotFound(t) == Return(t, "NotFoundScriptError")

(* DBScriptsFetcher::Fetch on a slave or the master, whose state is one of *)
(* the versions not yet applied everywhere, and the compilation.           *)
Fetch(t) ==
  LET id == call[t].id IN
  /\ pc[t] = "fetch"
  /\ \E v \in applied[id] .. Len(history[id]) :
       LET row == history[id][v] IN
       \/ row = NoRow /\ NotFound(t) /\ UNCHANGED held
       \/ /\ row # NoRow /\ ~Usable(row)
          /\ Return(t, "exception")
          /\ UNCHANGED held
       \/ /\ row # NoRow /\ Usable(row)
          /\ held' = [held EXCEPT ![t] = Compiled(id, row, v)]
          /\ \/ /\ useCache_ \/ call[t].op = "Refresh"
                /\ pc' = [pc EXCEPT ![t] = "put"]
                /\ UNCHANGED outcome
             \/ /\ ~useCache_ /\ call[t].op = "Get"
                /\ Return(t, "script")
  /\ UNCHANGED <<db, cache, call, settled>>

\* Mutant: a failed query is reported as a missing script.
FetchFailsAsNotFound(t) ==
  /\ pc[t] = "fetch"
  /\ NotFound(t)
  /\ UNCHANGED <<db, cache, call, held, settled>>

\* The query fails or times out: the exception leaves Get or Refresh.
FetchFails(t) ==
  /\ pc[t] = "fetch"
  /\ Return(t, "exception")
  /\ UNCHANGED <<db, cache, call, held, settled>>

(* History: a Refresh settles the version every host had when it began,    *)
(* unless a task that read an older row is about to put that one.          *)
Settle(t) ==
  LET id == call[t].id
      contended == \E u \in Tasks \ {t} : /\ pc[u] = "put" /\ call[u].id = id
                                         /\ held[u].version < call[t].since
  IN  settled' = IF /\ call[t].op = "Refresh" /\ ~contended
                    /\ settled[id] < call[t].since
                 THEN [settled EXCEPT ![id] = call[t].since]
                 ELSE settled

\* Mutant: an entry that is already there is not replaced.
PutIfAbsent(t) ==
  /\ pc[t] = "put"
  /\ \/ call[t].id \in DOMAIN scripts_ /\ UNCHANGED cache
     \/ call[t].id \notin DOMAIN scripts_ /\ LruPut(call[t].id, held[t])
  /\ Return(t, Answer(call[t].op))
  /\ Settle(t)
  /\ UNCHANGED <<db, call, held>>

\* The critical section that ends Get after a miss, and Refresh.
Put(t) ==
  /\ pc[t] = "put"
  /\ LruPut(call[t].id, held[t])
  /\ Return(t, Answer(call[t].op))
  /\ Settle(t)
  /\ UNCHANGED <<db, call, held>>

Next ==
  \/ \E s \in ScriptIds : Replicate(s) \/ \E row \in Row \cup {NoRow} : WriteRow(s, row)
  \/ \E t \in Tasks :
       \/ \E s \in ScriptIds : Get(t, s) \/ Refresh(t, s)
       \/ Lookup(t) \/ Fetch(t) \/ FetchFails(t) \/ Put(t)

Spec == Init /\ [][Next]_vars

-----------------------------------------------------------------------------
Version(s) == 1 .. Len(history[s])

Call == [op : {"Get", "Refresh"}, id : ScriptIds, since : Nat, settled : Nat]

DbTypeOK ==
  /\ history \in [ScriptIds -> Seq(Row \cup {NoRow})]
  /\ applied \in [ScriptIds -> Nat]
  /\ \A s \in ScriptIds : applied[s] \in Version(s)
  /\ settled \in [ScriptIds -> Nat]

CacheTypeOK ==
  /\ DOMAIN scripts_ \subseteq ScriptIds
  /\ scripts_ \in [DOMAIN scripts_ -> Script]
  /\ recent \subseteq (DOMAIN scripts_) \X (DOMAIN scripts_)

TaskTypeOK ==
  /\ pc \in [Tasks -> {"idle", "lookup", "fetch", "put"}]
  /\ call \in [Tasks -> Call]
  /\ held \in [Tasks -> Script \cup {NullScript}]
  /\ outcome \in [Tasks -> {"none", "script", "refreshed", "NotFoundScriptError",
                             "exception"}]
  /\ \A t \in Tasks : pc[t] = "put" \/ outcome[t] \in {"script", "refreshed"}
                        => held[t] \in Script

\* Every variable has its type; a task about to put holds a script object.
TypeOK == DbTypeOK /\ CacheTypeOK /\ TaskTypeOK

\* The object was compiled from a row the table once held under this id.
IsRowOf(script, id) ==
  /\ script.scriptId = id
  /\ script.version \in Version(id)
  /\ script.sourceCode \in Compilable
  /\ history[id][script.version] = [projectId |-> script.projectId,
                                    sourceCode |-> script.sourceCode]

(* Whatever tasks interleave, the script cached under an id and the script *)
(* a Get of that id answers pair the id with a source and a project that   *)
(* one and the same version of that very row had, so a script never runs   *)
(* with another script's project (SetScriptId, SetProjectId and Put use    *)
(* the id of the call, and the object is complete before it is shared).    *)
ServedScriptIsARow ==
  /\ \A s \in DOMAIN scripts_ : IsRowOf(scripts_[s], s)
  /\ \A t \in Tasks : outcome[t] \in {"script", "refreshed"}
                        => IsRowOf(held[t], call[t].id)

(* A call that ends in NotFoundScriptError was made when, or overlapped a  *)
(* time when, the row was missing on some host: a script present on every  *)
(* host throughout is never reported as missing.                           *)
NotFoundIsHonest ==
  \A t \in Tasks :
    outcome[t] = "NotFoundScriptError" =>
      \E v \in call[t].since .. Len(history[call[t].id]) :
        history[call[t].id][v] = NoRow

(* How stale an answer of Get can be.  Without a cache it is a version no  *)
(* older than what every host had when the call began.  With the cache it  *)
(* is no older than what the last uncontended Refresh completed before the *)
(* call made visible, whatever fills, evictions and refreshes overlap it.  *)
AnswerFreshness ==
  \A t \in Tasks :
    outcome[t] = "script" =>
      held[t].version >= IF useCache_ THEN call[t].settled ELSE call[t].since

(* A Get of an id whose row is gone from every host for the whole call     *)
(* does not answer a script (the HTTP interface promises a 404 for it).    *)
DeletedScriptIsNotServed ==
  \A t \in Tasks :
    outcome[t] = "script" =>
      \E v \in call[t].since .. Len(history[call[t].id]) :
        history[call[t].id][v] # NoRow

=============================================================================
