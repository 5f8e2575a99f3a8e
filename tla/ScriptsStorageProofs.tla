------------------------ MODULE ScriptsStorageProofs ------------------------
(***************************************************************************)
(* Safety of ScriptsStorage for every number of tasks, ids, versions and   *)
(* every cache size.                                                       *)
(***************************************************************************)
EXTENDS ScriptsStorage, TLAPS

Answered == {"script", "refreshed"}

\* Holds of the cache and of every script on its way into it.
RowInv ==
  /\ \A s \in DOMAIN scripts_ : IsRowOf(scripts_[s], s)
  /\ \A t \in Tasks : pc[t] = "put" \/ outcome[t] \in Answered
                        => IsRowOf(held[t], call[t].id)

\* A call began in the past: what it noted then has not been undone.
CallInv ==
  \A t \in Tasks : /\ call[t].since <= applied[call[t].id]
                   /\ call[t].settled <= settled[call[t].id]
                   /\ call[t].settled <= call[t].since

\* No settled version is newer than the replicas, and nothing older than it
\* is cached or about to be.
SettledInv ==
  /\ \A s \in ScriptIds : settled[s] <= applied[s]
  /\ \A s \in DOMAIN scripts_ : scripts_[s].version >= settled[s]
  /\ \A t \in Tasks : pc[t] = "put" => /\ held[t].version >= call[t].since
                                       /\ held[t].version >= settled[call[t].id]

\* The queries answer what some host held during the call.
QueryInv ==
  /\ NotFoundIsHonest
  /\ \A t \in Tasks : call[t].since <= applied[call[t].id]
  /\ \A t \in Tasks : call[t].since = 0 => pc[t] = "idle" /\ outcome[t] = "none"

\* Only a storage that uses its cache looks into it.
ModeInv == \A t \in Tasks : pc[t] = "lookup" => useCache_

FreshInv == CallInv /\ SettledInv /\ AnswerFreshness

-----------------------------------------------------------------------------
(* Every variable keeps its type: a call that is about to put a script has *)
(* one, since Fetch answers one or throws.                                 *)
THEOREM TypeCorrect == Spec => []TypeOK
<1> USE StorageAssumption
<1>1. Init => TypeOK
  <2> SUFFICES ASSUME Init PROVE TypeOK
    OBVIOUS
  <2>1. DbTypeOK
    <3>1. ASSUME NEW s \in ScriptIds
          PROVE  history[s] \in Seq(Row \cup {NoRow}) /\ Len(history[s]) = 1
      <4>1. PICK r \in Row \cup {NoRow} : history[s] = <<r>>
        BY DEF Init
      <4>2. QED
        BY <4>1
    <3>2. history \in [ScriptIds -> Seq(Row \cup {NoRow})]
      <4>1. history = [s \in ScriptIds |-> history[s]]
        BY DEF Init
      <4>2. QED
        BY <3>1, <4>1
    <3>3. \A s \in ScriptIds : applied[s] \in Version(s)
      <4>1. applied = [s \in ScriptIds |-> 1]
        BY DEF Init
      <4>2. QED
        BY <3>1, <4>1 DEF Version
    <3>4. QED
      BY <3>2, <3>3 DEF Init, DbTypeOK
  <2>2. CacheTypeOK
    BY DEF Init, CacheTypeOK
  <2>3. TaskTypeOK
    BY DEF Init, TaskTypeOK, Call
  <2>4. QED
    BY <2>1, <2>2, <2>3 DEF TypeOK
<1>2. TypeOK /\ [Next]_vars => TypeOK'
  <2> SUFFICES ASSUME DbTypeOK, CacheTypeOK, TaskTypeOK, [Next]_vars PROVE TypeOK'
    BY DEF TypeOK
  <2>1. UNCHANGED <<db, settled>> => DbTypeOK'
    BY DEF DbTypeOK, db, Version
  <2>2. UNCHANGED cache => CacheTypeOK'
    BY DEF CacheTypeOK, cache
  <2>3. UNCHANGED task => TaskTypeOK'
    BY DEF TaskTypeOK, task
  <2>4. CASE UNCHANGED vars
    BY <2>1, <2>2, <2>3, <2>4 DEF vars, db, cache, task, TypeOK
  <2>5. ASSUME NEW s \in ScriptIds, Replicate(s) PROVE TypeOK'
    <3>1. DbTypeOK'
      BY <2>5 DEF Replicate, DbTypeOK, Version
    <3>2. QED
      BY <2>5, <3>1, <2>2, <2>3 DEF Replicate, TypeOK
  <2>6. ASSUME NEW s \in ScriptIds, NEW row \in Row \cup {NoRow}, WriteRow(s, row)
        PROVE TypeOK'
    <3>1. DbTypeOK'
      <4>1. history[s] \in Seq(Row \cup {NoRow})
        BY DEF DbTypeOK
      <4>2. /\ Append(history[s], row) \in Seq(Row \cup {NoRow})
            /\ Len(Append(history[s], row)) = Len(history[s]) + 1
        BY <4>1
      <4>3. history' \in [ScriptIds -> Seq(Row \cup {NoRow})]
        BY <2>6, <4>2 DEF WriteRow, DbTypeOK
      <4>4. \A i \in ScriptIds : Version(i) \subseteq Version(i)'
        BY <2>6, <4>1, <4>2 DEF WriteRow, DbTypeOK, Version
      <4>5. QED
        BY <2>6, <4>3, <4>4 DEF WriteRow, DbTypeOK
    <3>2. QED
      BY <2>6, <3>1, <2>2, <2>3 DEF WriteRow, TypeOK
  <2>7. ASSUME NEW t \in Tasks, NEW s \in ScriptIds, Get(t, s) \/ Refresh(t, s)
        PROVE TypeOK'
    <3>1. TaskTypeOK'
      <4>1. PICK op \in {"Get", "Refresh"}, step \in {"lookup", "fetch"} :
              Begin(t, op, s, step)
        BY <2>7 DEF Get, Refresh
      <4>2. [op |-> op, id |-> s, since |-> applied[s], settled |-> settled[s]] \in Call
        BY DEF Call, DbTypeOK
      <4>3. QED
        BY <4>1, <4>2 DEF Begin, TaskTypeOK
    <3>2. QED
      BY <2>7, <3>1, <2>1, <2>2 DEF Get, Refresh, Begin, TypeOK
  <2>8. ASSUME NEW t \in Tasks, Lookup(t) PROVE TypeOK'
    <3>1. CacheTypeOK'
      BY <2>8 DEF Lookup, Used, CacheTypeOK
    <3>2. TaskTypeOK'
      BY <2>8 DEF Lookup, Return, TaskTypeOK, CacheTypeOK
    <3>3. QED
      BY <2>8, <3>1, <3>2, <2>1 DEF Lookup, TypeOK
  <2>9. ASSUME NEW t \in Tasks, Fetch(t) PROVE TypeOK'
    <3>1. ASSUME NEW v \in applied[call[t].id] .. Len(history[call[t].id]),
                 history[call[t].id][v] # NoRow, Usable(history[call[t].id][v])
          PROVE  Compiled(call[t].id, history[call[t].id][v], v) \in Script
      BY <3>1 DEF Usable, Compiled, Script, DbTypeOK, TaskTypeOK, Call, Row, Version
    <3>2. TaskTypeOK'
      BY <2>9, <3>1 DEF Fetch, NotFound, Return, TaskTypeOK
    <3>3. QED
      BY <2>9, <3>2, <2>1, <2>2 DEF Fetch, TypeOK
  <2>10. ASSUME NEW t \in Tasks, FetchFails(t) PROVE TypeOK'
    <3>1. TaskTypeOK'
      BY <2>10 DEF FetchFails, Return, TaskTypeOK
    <3>2. QED
      BY <2>10, <3>1, <2>1, <2>2 DEF FetchFails, TypeOK
  <2>11. ASSUME NEW t \in Tasks, Put(t) PROVE TypeOK'
    <3>1. CacheTypeOK'
      BY <2>11 DEF Put, LruPut, Used, Evicted, CacheTypeOK, TaskTypeOK, Call
    <3>2. TaskTypeOK'
      BY <2>11 DEF Put, Return, Answer, TaskTypeOK
    <3>3. DbTypeOK'
      BY <2>11 DEF Put, Settle, DbTypeOK, TaskTypeOK, Call, db, Version
    <3>4. QED
      BY <3>1, <3>2, <3>3 DEF TypeOK
  <2>12. QED
    BY <2>4, <2>5, <2>6, <2>7, <2>8, <2>9, <2>10, <2>11 DEF Next
<1>3. QED
  BY <1>1, <1>2, PTL DEF Spec

-----------------------------------------------------------------------------
\* The table's past is never rewritten and its hosts never fall back.
LEMMA HistoryGrows ==
  ASSUME TypeOK, [Next]_vars, NEW s \in ScriptIds
  PROVE  /\ Len(history[s]) \in Nat /\ Len(history[s])' \in Nat
         /\ Len(history[s]) <= Len(history[s])'
         /\ \A v \in Version(s) : history[s][v]' = history[s][v]
         /\ applied[s] <= applied[s]'
<1>1. history[s] \in Seq(Row \cup {NoRow}) /\ applied[s] \in Nat
  BY DEF TypeOK, DbTypeOK
<1>2. CASE UNCHANGED db
  BY <1>1, <1>2 DEF db
<1>3. ASSUME NEW i \in ScriptIds, Replicate(i)
      PROVE  UNCHANGED history /\ applied[s] <= applied[s]'
  BY <1>1, <1>3 DEF Replicate, TypeOK, DbTypeOK
<1>4. ASSUME NEW i \in ScriptIds, NEW row \in Row \cup {NoRow}, WriteRow(i, row)
      PROVE  /\ UNCHANGED applied
             /\ history'[s] = history[s] \/ history'[s] = Append(history[s], row)
  BY <1>4 DEF WriteRow, TypeOK, DbTypeOK
<1>5. ASSUME NEW row \in Row \cup {NoRow}
      PROVE  /\ Len(Append(history[s], row)) = Len(history[s]) + 1
             /\ \A v \in Version(s) : Append(history[s], row)[v] = history[s][v]
  BY <1>1 DEF Version
<1>6. \/ UNCHANGED db
      \/ \E i \in ScriptIds : Replicate(i)
      \/ \E i \in ScriptIds, row \in Row \cup {NoRow} : WriteRow(i, row)
  BY DEF Next, vars, db, Get, Refresh, Begin, Lookup, Fetch, FetchFails, Put
<1>7. QED
  <2>1. CASE \E i \in ScriptIds : Replicate(i)
    BY <2>1, <1>1, <1>3
  <2>2. CASE \E i \in ScriptIds, row \in Row \cup {NoRow} : WriteRow(i, row)
    <3>1. PICK row \in Row \cup {NoRow} :
            /\ UNCHANGED applied
            /\ history'[s] = history[s] \/ history'[s] = Append(history[s], row)
      BY <2>2, <1>4
    <3>2. CASE history'[s] = history[s]
      BY <1>1, <3>1, <3>2
    <3>3. CASE history'[s] = Append(history[s], row)
      <4>1. Len(history[s]) \in Nat /\ Len(history'[s]) = Len(history[s]) + 1
        BY <1>1, <1>5, <3>3
      <4>2. \A v \in Version(s) : history'[s][v] = history[s][v]
        BY <1>5, <3>3
      <4>3. applied'[s] = applied[s]
        BY <3>1
      <4>4. QED
        BY <1>1, <4>1, <4>2, <4>3
    <3>4. QED
      BY <3>1, <3>2, <3>3
  <2>3. QED
    BY <2>1, <2>2, <1>2, <1>6

\* What was compiled from a row stays a row of the table's history.
LEMMA RowsStay ==
  ASSUME TypeOK, [Next]_vars, NEW s \in ScriptIds, NEW script, IsRowOf(script, s)
  PROVE  IsRowOf(script, s)'
BY HistoryGrows DEF IsRowOf, Version

(* ServedScriptIsARow for all interleavings of any number of tasks: the    *)
(* invariant RowInv adds the scripts that are on their way into the cache. *)
THEOREM ServedScriptsAreRows == Spec => []ServedScriptIsARow
<1>1. Init => RowInv
  BY DEF Init, RowInv, Answered
<1>2. TypeOK /\ TypeOK' /\ RowInv /\ [Next]_vars => RowInv'
  <2> SUFFICES ASSUME TypeOK, TypeOK', RowInv, [Next]_vars PROVE RowInv'
    OBVIOUS
  <2> USE DEF Answered
  <2>1. UNCHANGED cache => \A s \in DOMAIN scripts_' : IsRowOf(scripts_[s], s)'
    BY RowsStay DEF RowInv, cache, TypeOK, CacheTypeOK
  <2>2. ASSUME NEW t \in Tasks, UNCHANGED <<held[t], call[t]>>,
               pc[t] = "put" \/ outcome[t] \in Answered
        PROVE  IsRowOf(held[t], call[t].id)'
    BY <2>2, RowsStay DEF RowInv, TypeOK, TaskTypeOK, Call
  <2>3. CASE UNCHANGED task /\ UNCHANGED cache
    BY <2>1, <2>2, <2>3 DEF RowInv, task
  <2>4. ASSUME NEW t \in Tasks, NEW s \in ScriptIds, Get(t, s) \/ Refresh(t, s)
        PROVE RowInv'
    BY <2>4, <2>1, <2>2 DEF Get, Refresh, Begin, RowInv, TypeOK, TaskTypeOK
  <2>5. ASSUME NEW t \in Tasks, Lookup(t) PROVE RowInv'
    BY <2>5, <2>1, <2>2, RowsStay
       DEF Lookup, Return, RowInv, TypeOK, CacheTypeOK, TaskTypeOK
  <2>6. ASSUME NEW t \in Tasks, Fetch(t) PROVE RowInv'
    <3> DEFINE id == call[t].id
    <3>1. id \in ScriptIds
      BY DEF TypeOK, TaskTypeOK, Call
    <3>2. ASSUME NEW v \in applied[id] .. Len(history[id]),
                 history[id][v] # NoRow, Usable(history[id][v])
          PROVE  IsRowOf(Compiled(id, history[id][v], v), id)
      <4>1. v \in Version(id)
        BY <3>1 DEF TypeOK, DbTypeOK, Version
      <4>2. history[id][v] \in Row
        BY <4>1, <3>1, <3>2 DEF TypeOK, DbTypeOK, Version
      <4>3. QED
        BY <4>1, <4>2, <3>2 DEF IsRowOf, Usable, Compiled, Row
    <3>3. (pc[t] = "put" \/ outcome[t] \in Answered)'
            => UNCHANGED call[t] /\ IsRowOf(held'[t], id)
      BY <2>6, <3>2 DEF Fetch, NotFound, Return, TypeOK, TaskTypeOK
    <3>4. (pc[t] = "put" \/ outcome[t] \in Answered)'
            => IsRowOf(held[t], call[t].id)'
      BY <3>1, <3>3, RowsStay
    <3>5. \A u \in Tasks \ {t} : UNCHANGED <<pc[u], outcome[u], held[u], call[u]>>
      BY <2>6 DEF Fetch, NotFound, Return, TypeOK, TaskTypeOK
    <3>6. \A s \in DOMAIN scripts_' : IsRowOf(scripts_[s], s)'
      BY <2>6, <2>1 DEF Fetch
    <3>7. QED
      BY <3>4, <3>5, <3>6, <2>2 DEF RowInv
  <2>7. ASSUME NEW t \in Tasks, FetchFails(t) PROVE RowInv'
    BY <2>7, <2>1, <2>2 DEF FetchFails, Return, RowInv, TypeOK, TaskTypeOK
  <2>8. ASSUME NEW t \in Tasks, Put(t) PROVE RowInv'
    <3>1. \A u \in Tasks : UNCHANGED <<held[u], call[u]>>
      BY <2>8 DEF Put
    <3>2. \A u \in Tasks \ {t} : UNCHANGED <<pc[u], outcome[u]>>
      BY <2>8 DEF Put, Return, TypeOK, TaskTypeOK
    <3>3. IsRowOf(held[t], call[t].id)'
      BY <2>8, <2>2, <3>1 DEF Put
    <3>4. \A s \in DOMAIN scripts_' :
            \/ s = call[t].id /\ scripts_'[s] = held[t]
            \/ s \in DOMAIN scripts_ /\ scripts_'[s] = scripts_[s]
      BY <2>8 DEF Put, LruPut
    <3>5. \A s \in DOMAIN scripts_ : IsRowOf(scripts_[s], s) /\ s \in ScriptIds
      BY DEF RowInv, TypeOK, CacheTypeOK
    <3>6. ASSUME NEW s \in DOMAIN scripts_' PROVE IsRowOf(scripts_[s], s)'
      BY <3>1, <3>3, <3>4, <3>5, RowsStay
    <3>7. QED
      BY <3>1, <3>2, <3>3, <3>6, <2>2 DEF RowInv
  <2>9. QED
    BY <2>3, <2>4, <2>5, <2>6, <2>7, <2>8
       DEF Next, vars, task, cache, Replicate, WriteRow
<1>3. RowInv => ServedScriptIsARow
  BY DEF RowInv, ServedScriptIsARow, Answered
<1>4. QED
  BY <1>1, <1>2, <1>3, TypeCorrect, PTL DEF Spec

-----------------------------------------------------------------------------
(* Freshness.  AnswerFreshness is not inductive: a Get that misses answers *)
(* what it fetched, a Get that hits answers what some other task put.      *)
(* SettledInv bounds both from below by the settled version.               *)
LEMMA FreshStep ==
  TypeOK /\ TypeOK' /\ ModeInv /\ FreshInv /\ [Next]_vars => FreshInv'
<1> SUFFICES ASSUME TypeOK, TypeOK', ModeInv, FreshInv, [Next]_vars PROVE FreshInv'
  OBVIOUS
<1>1. /\ \A s \in ScriptIds : /\ applied[s] \in Nat /\ settled[s] \in Nat
                              /\ applied'[s] \in Nat /\ settled'[s] \in Nat
                              /\ Len(history[s]) \in Nat
      /\ \A t \in Tasks : /\ call[t].id \in ScriptIds
                          /\ call[t].since \in Nat /\ call[t].settled \in Nat
      /\ \A s \in DOMAIN scripts_ : s \in ScriptIds /\ scripts_[s].version \in Nat
      /\ \A t \in Tasks : held[t] \in Script => held[t].version \in Nat
  BY HistoryGrows DEF TypeOK, DbTypeOK, CacheTypeOK, TaskTypeOK, Call, Script
<1> USE DEF FreshInv
<1>2. CASE UNCHANGED <<cache, task, settled>>
  BY <1>1, <1>2, HistoryGrows DEF CallInv, SettledInv, AnswerFreshness, cache, task
<1>3. ASSUME NEW t \in Tasks, NEW s \in ScriptIds, Get(t, s) \/ Refresh(t, s)
      PROVE FreshInv'
  <2>1. UNCHANGED <<applied, settled, scripts_>>
    BY <1>3 DEF Get, Refresh, Begin, db, cache
  <2>2. \A u \in Tasks \ {t} : UNCHANGED <<pc[u], outcome[u], held[u], call[u]>>
    BY <1>3 DEF Get, Refresh, Begin, TypeOK, TaskTypeOK
  <2>3. /\ pc'[t] # "put" /\ outcome'[t] = "none"
        /\ call'[t].id = s /\ call'[t].since = applied[s]
        /\ call'[t].settled = settled[s]
    BY <1>3 DEF Get, Refresh, Begin, TypeOK, TaskTypeOK
  <2>4. CallInv'
    BY <1>1, <2>1, <2>2, <2>3 DEF CallInv, SettledInv
  <2>5. SettledInv' /\ AnswerFreshness'
    BY <2>1, <2>2, <2>3 DEF SettledInv, AnswerFreshness
  <2>6. QED
    BY <2>4, <2>5
<1>4. ASSUME NEW t \in Tasks, Lookup(t) PROVE FreshInv'
  <2>1. UNCHANGED <<applied, settled, scripts_, call>>
    BY <1>4 DEF Lookup, db
  <2>2. /\ \A u \in Tasks \ {t} : UNCHANGED <<pc[u], outcome[u], held[u]>>
        /\ pc'[t] # "put"
        /\ \/ UNCHANGED <<outcome[t], held[t]>>
           \/ call[t].id \in DOMAIN scripts_ /\ held'[t] = scripts_[call[t].id]
        /\ pc[t] = "lookup"
    BY <1>4 DEF Lookup, Return, TypeOK, TaskTypeOK
  <2>3. CallInv' /\ SettledInv'
    BY <2>1, <2>2 DEF CallInv, SettledInv
  <2>4. call[t].id \in DOMAIN scripts_
          => scripts_[call[t].id].version >= call[t].settled
    BY <1>1 DEF CallInv, SettledInv
  <2>5. useCache_
    BY <1>4 DEF Lookup, ModeInv
  <2>6. AnswerFreshness'
    BY <2>1, <2>2, <2>4, <2>5 DEF AnswerFreshness
  <2>7. QED
    BY <2>3, <2>6
<1>5. ASSUME NEW t \in Tasks, Fetch(t) PROVE FreshInv'
  <2> DEFINE id == call[t].id
  <2>1. UNCHANGED <<history, applied, settled, scripts_, call>>
    BY <1>5 DEF Fetch, db, cache
  <2>2. \A u \in Tasks \ {t} : UNCHANGED <<pc[u], outcome[u], held[u]>>
    BY <1>5 DEF Fetch, NotFound, Return, TypeOK, TaskTypeOK
  <2>3. \/ outcome'[t] # "script" /\ pc'[t] # "put"
        \/ /\ held'[t].version >= applied[id] /\ held'[t].version \in Nat
           /\ pc'[t] = "put" => outcome'[t] = outcome[t]
    BY <1>1, <1>5 DEF Fetch, NotFound, Return, Compiled, TypeOK, TaskTypeOK
  <2>4. CallInv'
    BY <2>1 DEF CallInv
  <2>5. SettledInv'
    BY <1>1, <2>1, <2>2, <2>3 DEF SettledInv, CallInv
  <2>6. AnswerFreshness'
    BY <1>1, <2>1, <2>2, <2>3 DEF AnswerFreshness, CallInv
  <2>7. QED
    BY <2>4, <2>5, <2>6
<1>6. ASSUME NEW t \in Tasks, FetchFails(t) PROVE FreshInv'
  <2>1. UNCHANGED <<applied, settled, scripts_, call, held>>
    BY <1>6 DEF FetchFails, db, cache
  <2>2. /\ \A u \in Tasks \ {t} : UNCHANGED <<pc[u], outcome[u]>>
        /\ pc'[t] = "idle" /\ outcome'[t] = "exception"
    BY <1>6 DEF FetchFails, Return, TypeOK, TaskTypeOK
  <2>3. QED
    BY <2>1, <2>2 DEF CallInv, SettledInv, AnswerFreshness
<1>7. ASSUME NEW t \in Tasks, Put(t) PROVE FreshInv'
  <2> DEFINE id == call[t].id
  <2>1. UNCHANGED <<applied, call, held>>
    BY <1>7 DEF Put, db
  <2>2. /\ \A u \in Tasks \ {t} : UNCHANGED <<pc[u], outcome[u]>>
        /\ pc[t] = "put" /\ pc'[t] = "idle" /\ held[t] \in Script
    BY <1>7 DEF Put, Return, TypeOK, TaskTypeOK
  <2>3. \A s \in DOMAIN scripts_' :
          \/ s = id /\ scripts_'[s] = held[t]
          \/ s \in DOMAIN scripts_ /\ scripts_'[s] = scripts_[s] /\ s # id
    BY <1>7 DEF Put, LruPut
  <2>4. \/ UNCHANGED settled
        \/ /\ settled' = [settled EXCEPT ![id] = call[t].since]
           /\ settled[id] < call[t].since
           /\ \A u \in Tasks \ {t} : pc[u] = "put" /\ call[u].id = id
                                      => ~(held[u].version < call[t].since)
    BY <1>7 DEF Put, Settle
  <2>5. \A s \in ScriptIds : settled[s] <= settled'[s] /\ settled'[s] <= applied[s]
    <3>1. CASE UNCHANGED settled
      BY <1>1, <3>1 DEF SettledInv
    <3>2. CASE settled' = [settled EXCEPT ![id] = call[t].since] /\ ~UNCHANGED settled
      <4>1. \A s \in ScriptIds : settled'[s] = IF s = id THEN call[t].since ELSE settled[s]
        BY <3>2 DEF TypeOK, DbTypeOK
      <4>2. settled[id] < call[t].since /\ call[t].since <= applied[id]
        BY <2>4, <3>2 DEF CallInv
      <4>3. QED
        BY <1>1, <4>1, <4>2 DEF SettledInv
    <3>3. QED
      BY <2>4, <3>1, <3>2
  <2>6. CallInv'
    BY <1>1, <2>1, <2>5 DEF CallInv
  <2>7. \A u \in Tasks : pc[u] = "put" => held[u] \in Script
    BY DEF TypeOK, TaskTypeOK
  <2>8. \A u \in Tasks : pc[u] = "put" => held[u].version >= settled'[call[u].id]
    <3> SUFFICES ASSUME NEW u \in Tasks, pc[u] = "put"
                 PROVE  held[u].version >= settled'[call[u].id]
      OBVIOUS
    <3>1. /\ held[u].version \in Nat /\ held[u].version >= call[u].since
          /\ held[u].version >= settled[call[u].id]
      BY <1>1, <2>7 DEF SettledInv
    <3>2. CASE UNCHANGED settled
      BY <3>1, <3>2
    <3>3. CASE settled' = [settled EXCEPT ![id] = call[t].since] /\ ~UNCHANGED settled
      <4>1. settled'[call[u].id] = IF call[u].id = id THEN call[t].since
                                   ELSE settled[call[u].id]
        BY <1>1, <3>3 DEF TypeOK, DbTypeOK
      <4>2. u # t /\ call[u].id = id => ~(held[u].version < call[t].since)
        BY <2>4, <3>3
      <4>3. QED
        BY <1>1, <3>1, <4>1, <4>2
    <3>4. QED
      BY <2>4, <3>2, <3>3
  <2>9. SettledInv'
    BY <1>1, <2>1, <2>2, <2>3, <2>4, <2>5, <2>8 DEF SettledInv, TypeOK, DbTypeOK
  <2>10. AnswerFreshness'
    BY <1>1, <2>1, <2>2 DEF AnswerFreshness, CallInv, SettledInv
  <2>11. QED
    BY <2>6, <2>9, <2>10
<1>8. QED
  BY <1>2, <1>3, <1>4, <1>5, <1>6, <1>7
     DEF Next, vars, task, cache, Replicate, WriteRow

(* AnswerFreshness for all interleavings: without the cache Get is as      *)
(* fresh as the replicas, with it a completed Refresh that no older fill   *)
(* was racing is never undone.                                             *)
THEOREM AnswersAreFresh == Spec => []AnswerFreshness
<1>1. Init => FreshInv /\ ModeInv
  BY DEF Init, FreshInv, ModeInv, CallInv, SettledInv, AnswerFreshness
<1>2. FreshInv => AnswerFreshness
  BY DEF FreshInv
<1>3. TypeOK /\ ModeInv /\ [Next]_vars => ModeInv'
  BY DEF TypeOK, TaskTypeOK, ModeInv, Next, vars, task, Replicate, WriteRow, Get,
         Refresh, Begin, Lookup, Fetch, FetchFails, Put, NotFound, Return
<1>4. QED
  BY <1>1, <1>2, <1>3, FreshStep, TypeCorrect, PTL DEF Spec

-----------------------------------------------------------------------------
(* NotFoundIsHonest for all interleavings: the replica that answered the   *)
(* fetch of a call had not fallen behind what every host had applied when  *)
(* the call began.                                                         *)
THEOREM NotFoundErrorsAreHonest == Spec => []NotFoundIsHonest
<1>1. Init => QueryInv
  BY DEF Init, QueryInv, NotFoundIsHonest
<1>2. TypeOK /\ TypeOK' /\ QueryInv /\ [Next]_vars => QueryInv'
  <2> SUFFICES ASSUME TypeOK, TypeOK', QueryInv, [Next]_vars PROVE QueryInv'
    OBVIOUS
  <2>1. /\ \A s \in ScriptIds : /\ applied[s] \in Version(s) /\ applied[s] \in Nat
                                /\ applied'[s] \in Nat
        /\ \A t \in Tasks : call[t].id \in ScriptIds /\ call[t].since \in Nat
    BY DEF TypeOK, DbTypeOK, TaskTypeOK, Call
  <2>2. ASSUME NEW t \in Tasks, UNCHANGED <<outcome[t], call[t]>>,
               outcome[t] = "NotFoundScriptError"
        PROVE  \E v \in call'[t].since .. Len(history'[call'[t].id]) :
                 history'[call'[t].id][v] = NoRow
    <3> DEFINE id == call[t].id
    <3>1. PICK v \in call[t].since .. Len(history[id]) : history[id][v] = NoRow
      BY <2>2 DEF QueryInv, NotFoundIsHonest
    <3>2. call[t].since # 0
      BY <2>2 DEF QueryInv
    <3>3. /\ Len(history[id]) \in Nat /\ Len(history'[id]) \in Nat
          /\ Len(history[id]) <= Len(history'[id])
          /\ \A w \in Version(id) : history'[id][w] = history[id][w]
      BY <2>1, HistoryGrows
    <3>4. v \in Version(id) /\ v \in call[t].since .. Len(history'[id])
      BY <2>1, <3>1, <3>2, <3>3 DEF Version
    <3>5. QED
      BY <2>2, <3>1, <3>3, <3>4
  <2>3. ASSUME NEW t \in Tasks, UNCHANGED call[t]
        PROVE  call'[t].since <= applied'[call'[t].id]
    BY <2>1, <2>3, HistoryGrows DEF QueryInv
  <2>4. CASE UNCHANGED task
    BY <2>2, <2>3, <2>4 DEF QueryInv, NotFoundIsHonest, task
  <2>5. ASSUME NEW t \in Tasks, NEW s \in ScriptIds, Get(t, s) \/ Refresh(t, s)
        PROVE QueryInv'
    <3>1. \A u \in Tasks \ {t} : UNCHANGED <<pc[u], outcome[u], call[u]>>
      BY <2>5 DEF Get, Refresh, Begin, TypeOK, TaskTypeOK
    <3>2. /\ outcome'[t] = "none" /\ call'[t].since = applied[s]
          /\ call'[t].id = s /\ applied' = applied
      BY <2>5 DEF Get, Refresh, Begin, db, TypeOK, TaskTypeOK
    <3>3. applied[s] # 0
      BY <2>1, HistoryGrows DEF Version
    <3>4. QED
      BY <2>1, <2>2, <2>3, <3>1, <3>2, <3>3 DEF QueryInv, NotFoundIsHonest
  <2>6. ASSUME NEW t \in Tasks, Lookup(t) \/ FetchFails(t) \/ Put(t) PROVE QueryInv'
    <3>1. UNCHANGED call /\ pc[t] # "idle"
      BY <2>6 DEF Lookup, FetchFails, Put
    <3>2. \A u \in Tasks \ {t} : UNCHANGED <<pc[u], outcome[u]>>
      BY <2>6 DEF Lookup, FetchFails, Put, Return, TypeOK, TaskTypeOK
    <3>3. outcome'[t] # "NotFoundScriptError" \/ UNCHANGED outcome[t]
      BY <2>6 DEF Lookup, FetchFails, Put, Return, Answer, TypeOK, TaskTypeOK
    <3>4. QED
      BY <2>2, <2>3, <3>1, <3>2, <3>3 DEF QueryInv, NotFoundIsHonest
  <2>7. ASSUME NEW t \in Tasks, Fetch(t) PROVE QueryInv'
    <3> DEFINE id == call[t].id
    <3>1. UNCHANGED <<call, history>> /\ pc[t] # "idle"
      BY <2>7 DEF Fetch, db
    <3>2. \A u \in Tasks \ {t} : UNCHANGED <<pc[u], outcome[u]>>
      BY <2>7 DEF Fetch, NotFound, Return, TypeOK, TaskTypeOK
    <3>3. \/ outcome'[t] # "NotFoundScriptError" \/ UNCHANGED outcome[t]
          \/ \E v \in applied[id] .. Len(history[id]) : history[id][v] = NoRow
      BY <2>7 DEF Fetch, NotFound, Return, TypeOK, TaskTypeOK
    <3>4. \A v \in applied[id] .. Len(history[id]) : v \in call[t].since .. Len(history[id])
      BY <2>1, HistoryGrows DEF QueryInv
    <3>5. QED
      BY <2>2, <2>3, <3>1, <3>2, <3>3, <3>4 DEF QueryInv, NotFoundIsHonest
  <2>8. QED
    BY <2>4, <2>5, <2>6, <2>7 DEF Next, vars, task, Replicate, WriteRow
<1>3. QueryInv => NotFoundIsHonest
  BY DEF QueryInv
<1>4. QED
  BY <1>1, <1>2, <1>3, TypeCorrect, PTL DEF Spec

=============================================================================
