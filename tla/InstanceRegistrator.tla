------------------------ MODULE InstanceRegistrator -------------------------
(***************************************************************************)
(* components::InstanceRegistrator: executor processes register in the     *)
(* table active_runner_instances when they have started and leave it when  *)
(* they stop.                                                              *)
(*                                                                         *)
(* A process may crash at any time.  A statement whose answer does not     *)
(* arrive in time ends in an exception; the server may never have seen it, *)
(* or executes it later, when the process that sent it is long gone.       *)
(* Whether the framework stops the components of a process whose start     *)
(* failed, and so runs the DELETE for a row the process did not insert, is *)
(* not in this repository: it may or may not.                              *)
(***************************************************************************)
EXTENDS Integers

CONSTANTS
  Instances,     \* the configured executor processes
  Hosts,         \* values of the hostname option
  HostOf,        \* the hostname option of each instance
  PortOf,        \* the port option of each instance
  MaxLate        \* bound: statements of one kind and key executed late

ASSUME RegistratorAssumption ==
  /\ HostOf \in [Instances -> Hosts]
  /\ PortOf \in [Instances -> 0 .. 65535]
  /\ MaxLate \in Nat

\* std::uint16_t converted to the signed 16 bits of a SMALLINT.
Smallint(port) == IF port >= 32768 THEN port - 65536 ELSE port

\* The primary key an instance registers under.
Key(i) == <<HostOf[i], Smallint(PortOf[i])>>

Keys == {Key(i) : i \in Instances}

(***************************************************************************)
(* active_runner_instances is the set of the table's keys.  state[i] is    *)
(* where the process i is in its life; "cleaning" is the stop hook of a    *)
(* process that never came up.  lateInserts[k] and lateDeletes[k] count    *)
(* the statements given up on that the server will still execute.  strays  *)
(* is history: the keys for which a process that never came up has run the *)
(* stop hook.                                                              *)
(***************************************************************************)
VARIABLES active_runner_instances, state, lateInserts, lateDeletes, strays

late == <<lateInserts, lateDeletes>>
vars == <<active_runner_instances, state, lateInserts, lateDeletes, strays>>

Init ==
  /\ active_runner_instances = {}
  /\ state = [i \in Instances |-> "down"]
  /\ lateInserts = [k \in Keys |-> 0]
  /\ lateDeletes = [k \in Keys |-> 0]
  /\ strays = {}

Become(i, s) == state' = [state EXCEPT ![i] = s]

\* A statement that got no answer: lost, or to be executed later.
GiveUp(counter, k) ==
  \/ counter' = counter
  \/ counter[k] < MaxLate /\ counter' = [counter EXCEPT ![k] = @ + 1]

-----------------------------------------------------------------------------
\* The process starts; its components are constructed.
Launch(i) ==
  /\ state[i] = "down"
  /\ Become(i, "loading")
  /\ UNCHANGED <<active_runner_instances, late, strays>>

\* The start hook threw: the process ends, after its stop hook or without.
FailedStart(i) ==
  \/ Become(i, "down") /\ UNCHANGED strays
  \/ Become(i, "cleaning") /\ strays' = strays \cup {Key(i)}

\* Mutant: a conflicting row is taken over.
RegisterOnConflict(i) ==
  /\ state[i] = "loading"
  /\ active_runner_instances' = active_runner_instances \cup {Key(i)}
  /\ Become(i, "up")
  /\ UNCHANGED <<late, strays>>

\* OnAllComponentsLoaded: INSERT ... ON CONFLICT DO NOTHING affects one row,
\* or none, and then the start fails.
Register(i) ==
  /\ state[i] = "loading"
  /\ \/ /\ Key(i) \notin active_runner_instances
        /\ active_runner_instances' = active_runner_instances \cup {Key(i)}
        /\ Become(i, "up")
        /\ UNCHANGED strays
     \/ /\ Key(i) \in active_runner_instances
        /\ FailedStart(i)
        /\ UNCHANGED active_runner_instances
  /\ UNCHANGED late

\* The CREATE or the INSERT throws.
RegisterFails(i) ==
  /\ state[i] = "loading"
  /\ FailedStart(i)
  /\ GiveUp(lateInserts, Key(i))
  /\ UNCHANGED <<active_runner_instances, lateDeletes>>

\* A shutdown is requested: the server stops serving.
Stop(i) ==
  /\ state[i] = "up"
  /\ Become(i, "stopping")
  /\ UNCHANGED <<active_runner_instances, late, strays>>

\* In the stop hook.
Stopping == {"stopping", "cleaning"}

\* Mutant: the row is looked up by its host only.
UnregisterHost(i) ==
  /\ state[i] \in Stopping
  /\ active_runner_instances' = {k \in active_runner_instances : k[1] # HostOf[i]}
  /\ Become(i, "down")
  /\ UNCHANGED <<late, strays>>

\* OnAllComponentsAreStopping.
Unregister(i) ==
  /\ state[i] \in Stopping
  /\ active_runner_instances' = active_runner_instances \ {Key(i)}
  /\ Become(i, "down")
  /\ UNCHANGED <<late, strays>>

\* The DELETE throws; the process ends all the same.
UnregisterFails(i) ==
  /\ state[i] \in Stopping
  /\ Become(i, "down")
  /\ GiveUp(lateDeletes, Key(i))
  /\ UNCHANGED <<active_runner_instances, lateInserts, strays>>

\* The process is killed, perhaps while a statement is on its way.
Crash(i) ==
  /\ state[i] # "down"
  /\ Become(i, "down")
  /\ IF state[i] = "loading" THEN GiveUp(lateInserts, Key(i)) ELSE UNCHANGED lateInserts
  /\ IF state[i] \in Stopping THEN GiveUp(lateDeletes, Key(i)) ELSE UNCHANGED lateDeletes
  /\ UNCHANGED <<active_runner_instances, strays>>

-----------------------------------------------------------------------------
(* The server executes a statement nobody waits for any more.              *)

LateInsert(k) ==
  /\ lateInserts[k] > 0
  /\ lateInserts' = [lateInserts EXCEPT ![k] = @ - 1]
  /\ active_runner_instances' = active_runner_instances \cup {k}
  /\ UNCHANGED <<state, lateDeletes, strays>>

LateDelete(k) ==
  /\ lateDeletes[k] > 0
  /\ lateDeletes' = [lateDeletes EXCEPT ![k] = @ - 1]
  /\ active_runner_instances' = active_runner_instances \ {k}
  /\ UNCHANGED <<state, lateInserts, strays>>

Next ==
  \/ \E i \in Instances :
       \/ Launch(i) \/ Register(i) \/ RegisterFails(i) \/ Crash(i)
       \/ Stop(i) \/ Unregister(i) \/ UnregisterFails(i)
  \/ \E k \in Keys : LateInsert(k) \/ LateDelete(k)

Spec == Init /\ [][Next]_vars

-----------------------------------------------------------------------------
\* Every variable has its type.
TypeOK ==
  /\ active_runner_instances \subseteq Keys
  /\ state \in [Instances -> {"down", "loading", "up", "stopping", "cleaning"}]
  /\ lateInserts \in [Keys -> Nat] /\ lateDeletes \in [Keys -> Nat]
  /\ strays \subseteq Keys

Registered == {"up", "stopping"}

(* A process that serves is in the table: no crash, no stop of another     *)
(* process and no statement executed late takes its row away.  Only the    *)
(* stop hook of a process that failed to start under the same address can  *)
(* (OnAllComponentsAreStopping deletes by address, whoever inserted).      *)
ServingIsRegistered ==
  \A i \in Instances :
    state[i] = "up" => Key(i) \in active_runner_instances \/ Key(i) \in strays

(* The primary key and RowsAffected exclude two processes that serve under *)
(* one address, over all restarts, until a process that failed to start    *)
(* under it has run the stop hook.                                         *)
OneInstancePerAddress ==
  \A i, j \in Instances :
    state[i] = "up" /\ state[j] = "up" /\ Key(i) = Key(j) /\ i # j => Key(i) \in strays

\* The row outlived the process that inserted it, and nothing is on its way
\* to delete it.
Orphaned(k) ==
  /\ k \in active_runner_instances
  /\ lateDeletes[k] = 0
  /\ \A i \in Instances : Key(i) = k => state[i] \notin Registered \cup Stopping

(* What a crash costs: an orphaned row stays, and every start under its    *)
(* address fails, until one of those failed starts runs the stop hook; if  *)
(* the framework never does that, nothing in this code removes the row.    *)
OrphanStays ==
  [][\A k \in Keys : Orphaned(k) =>
       Orphaned(k)' \/ \E i \in Instances : Key(i) = k /\ state'[i] = "cleaning"]_vars

=============================================================================
