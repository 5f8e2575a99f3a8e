---------------------- MODULE InstanceRegistratorProofs ---------------------
(***************************************************************************)
(* The registration protocol for any number of processes and addresses,    *)
(* whether or not the framework runs the stop hook of a process that       *)
(* failed to start.                                                        *)
(***************************************************************************)
EXTENDS InstanceRegistrator, TLAPS

\* The row of an address without strays belongs to at most one process that
\* serves or is about to delete it, or else to at most one DELETE that is
\* still to be executed.
OwnerInv ==
  /\ \A i \in Instances : state[i] \in Registered /\ Key(i) \notin strays =>
       Key(i) \in active_runner_instances /\ lateDeletes[Key(i)] = 0
  /\ \A i, j \in Instances :
       /\ state[i] \in Registered /\ state[j] \in Registered /\ Key(i) = Key(j)
       /\ Key(i) \notin strays
       => i = j
  /\ \A k \in Keys \ strays : /\ lateDeletes[k] <= 1
                              /\ lateDeletes[k] # 0 => k \in active_runner_instances
  /\ \A i \in Instances : state[i] = "cleaning" => Key(i) \in strays

\* What the state of one process may become.
LEMMA Becomes ==
  ASSUME TypeOK, NEW i \in Instances, NEW s, Become(i, s)
  PROVE  state'[i] = s /\ \A j \in Instances \ {i} : state'[j] = state[j]
BY DEF Become, TypeOK

\* What giving up on a statement does to its counter.
LEMMA GivenUp ==
  ASSUME NEW f \in [Keys -> Nat], NEW g, NEW k \in Keys,
         \/ g = f
         \/ f[k] < MaxLate /\ g = [f EXCEPT ![k] = @ + 1]
  PROVE  /\ g \in [Keys -> Nat]
         /\ \A l \in Keys \ {k} : g[l] = f[l]
         /\ g[k] = f[k] \/ g[k] = f[k] + 1
OBVIOUS

(* The table holds keys of instances only and the counters stay naturals.  *)
THEOREM TypeCorrect == Spec => []TypeOK
<1>1. Init => TypeOK
  BY DEF Init, TypeOK
<1>2. TypeOK /\ [Next]_vars => TypeOK'
  <2> SUFFICES ASSUME TypeOK, [Next]_vars PROVE TypeOK'
    OBVIOUS
  <2>1. \A i \in Instances : Key(i) \in Keys
    BY DEF Keys
  <2>2. CASE UNCHANGED vars
    BY <2>2 DEF vars, TypeOK
  <2>3. ASSUME NEW i \in Instances, Launch(i) \/ Stop(i) PROVE TypeOK'
    BY <2>3 DEF Launch, Stop, Become, late, TypeOK
  <2>4. ASSUME NEW i \in Instances, Register(i) \/ Unregister(i) PROVE TypeOK'
    BY <2>1, <2>4 DEF Register, Unregister, FailedStart, Become, late, TypeOK
  <2>5. ASSUME NEW i \in Instances, RegisterFails(i) PROVE TypeOK'
    <3>1. lateInserts' \in [Keys -> Nat]
      BY <2>1, <2>5, GivenUp DEF RegisterFails, GiveUp, TypeOK
    <3>2. QED
      BY <2>1, <3>1, <2>5 DEF RegisterFails, FailedStart, Become, TypeOK
  <2>6. ASSUME NEW i \in Instances, UnregisterFails(i) PROVE TypeOK'
    <3>1. lateDeletes' \in [Keys -> Nat]
      BY <2>1, <2>6, GivenUp DEF UnregisterFails, GiveUp, TypeOK
    <3>2. QED
      BY <3>1, <2>6 DEF UnregisterFails, Become, TypeOK
  <2>7. ASSUME NEW i \in Instances, Crash(i) PROVE TypeOK'
    <3>1. lateInserts' \in [Keys -> Nat] /\ lateDeletes' \in [Keys -> Nat]
      BY <2>1, <2>7, GivenUp DEF Crash, GiveUp, TypeOK
    <3>2. QED
      BY <3>1, <2>7 DEF Crash, Become, TypeOK
  <2>8. ASSUME NEW k \in Keys, LateInsert(k) \/ LateDelete(k) PROVE TypeOK'
    BY <2>8 DEF LateInsert, LateDelete, TypeOK
  <2>9. QED
    BY <2>2, <2>3, <2>4, <2>5, <2>6, <2>7, <2>8 DEF Next
<1>3. QED
  BY <1>1, <1>2, PTL DEF Spec

-----------------------------------------------------------------------------
\* How a failed start ends.
LEMMA FailedStarts ==
  ASSUME TypeOK, NEW i \in Instances, FailedStart(i)
  PROVE  /\ \A j \in Instances \ {i} : state'[j] = state[j]
         /\ \/ state'[i] = "down" /\ strays' = strays
            \/ state'[i] = "cleaning" /\ strays' = strays \cup {Key(i)}
BY Becomes DEF FailedStart

LEMMA OwnerStep ==
  TypeOK /\ TypeOK' /\ OwnerInv /\ [Next]_vars => OwnerInv'
<1> SUFFICES ASSUME TypeOK, TypeOK', OwnerInv, [Next]_vars PROVE OwnerInv'
  OBVIOUS
<1> USE DEF OwnerInv, Registered
<1>1. /\ \A i \in Instances : Key(i) \in Keys
      /\ \A k \in Keys : lateDeletes[k] \in Nat /\ lateDeletes'[k] \in Nat
  BY DEF Keys, TypeOK
<1>2. ASSUME NEW i \in Instances, state'[i] \notin Registered,
             \A j \in Instances \ {i} : state'[j] = state[j],
             strays \subseteq strays', state'[i] = "cleaning" => Key(i) \in strays',
             UNCHANGED <<active_runner_instances, lateDeletes>>
      PROVE  OwnerInv'
  BY <1>2
<1>3. CASE UNCHANGED vars
  BY <1>3 DEF vars
<1>4. ASSUME NEW i \in Instances, Launch(i) PROVE OwnerInv'
  BY <1>2, <1>4, Becomes DEF Launch, late
<1>5. ASSUME NEW i \in Instances, FailedStart(i),
             UNCHANGED <<active_runner_instances, lateDeletes>>
      PROVE  OwnerInv'
  <2>1. /\ \A j \in Instances \ {i} : state'[j] = state[j]
        /\ \/ state'[i] = "down" /\ strays' = strays
           \/ state'[i] = "cleaning" /\ strays' = strays \cup {Key(i)}
    BY <1>5, FailedStarts
  <2>2. QED
    BY <1>2, <1>5, <2>1
<1>6. ASSUME NEW i \in Instances, RegisterFails(i) PROVE OwnerInv'
  BY <1>5, <1>6 DEF RegisterFails
<1>7. ASSUME NEW i \in Instances, Register(i) PROVE OwnerInv'
  <2>1. UNCHANGED lateDeletes
    BY <1>7 DEF Register, late
  <2>2. CASE Key(i) \in active_runner_instances
    BY <1>5, <1>7, <2>1, <2>2 DEF Register
  <2>3. CASE Key(i) \notin active_runner_instances
    <3>1. /\ active_runner_instances' = active_runner_instances \cup {Key(i)}
          /\ state'[i] = "up" /\ \A j \in Instances \ {i} : state'[j] = state[j]
          /\ UNCHANGED strays
      BY <1>7, <2>3, Becomes DEF Register
    <3>2. Key(i) \notin strays =>
            \A j \in Instances : Key(j) = Key(i) => state[j] \notin Registered
      BY <2>3
    <3>3. Key(i) \notin strays => lateDeletes[Key(i)] = 0
      BY <1>1, <2>3
    <3>4. QED
      BY <1>1, <2>1, <3>1, <3>2, <3>3
  <2>4. QED
    BY <2>2, <2>3
<1>8. ASSUME NEW i \in Instances, Stop(i) PROVE OwnerInv'
  <2>1. /\ state[i] = "up" /\ state'[i] = "stopping"
        /\ \A j \in Instances \ {i} : state'[j] = state[j]
    BY <1>8, Becomes DEF Stop
  <2>2. UNCHANGED <<active_runner_instances, lateDeletes, strays>>
    BY <1>8 DEF Stop, late
  <2>3. QED
    BY <2>1, <2>2
<1>9. ASSUME NEW i \in Instances, Unregister(i) PROVE OwnerInv'
  <2>1. /\ state[i] = "stopping" \/ Key(i) \in strays
        /\ state'[i] = "down"
        /\ \A j \in Instances \ {i} : state'[j] = state[j]
    BY <1>9, Becomes DEF Unregister, Stopping
  <2>2. /\ active_runner_instances' = active_runner_instances \ {Key(i)}
        /\ UNCHANGED <<lateDeletes, strays>>
    BY <1>9 DEF Unregister, late
  <2>3. lateDeletes[Key(i)] = 0 \/ Key(i) \in strays
    BY <2>1
  <2>4. QED
    BY <1>1, <2>1, <2>2, <2>3
<1>10. ASSUME NEW i \in Instances, UnregisterFails(i) \/ Crash(i) PROVE OwnerInv'
  <2>1. /\ state'[i] = "down" /\ \A j \in Instances \ {i} : state'[j] = state[j]
        /\ UNCHANGED <<active_runner_instances, strays>>
    BY <1>10, Becomes DEF UnregisterFails, Crash
  <2>2. CASE UNCHANGED lateDeletes
    BY <1>2, <2>1, <2>2
  <2>3. CASE ~UNCHANGED lateDeletes
    <3>1. state[i] \in Stopping /\ GiveUp(lateDeletes, Key(i))
      BY <1>10, <2>3 DEF UnregisterFails, Crash
    <3>2. /\ \A l \in Keys \ {Key(i)} : lateDeletes'[l] = lateDeletes[l]
          /\ lateDeletes'[Key(i)] = lateDeletes[Key(i)]
             \/ lateDeletes'[Key(i)] = lateDeletes[Key(i)] + 1
      BY <1>1, <3>1, GivenUp DEF GiveUp, TypeOK
    <3>3. Key(i) \notin strays =>
          /\ Key(i) \in active_runner_instances /\ lateDeletes[Key(i)] = 0
          /\ \A j \in Instances \ {i} : Key(j) = Key(i) => state[j] \notin Registered
      BY <3>1 DEF Stopping
    <3>4. QED
      BY <1>1, <2>1, <3>2, <3>3
  <2>4. QED
    BY <2>2, <2>3
<1>11. ASSUME NEW k \in Keys, LateInsert(k) PROVE OwnerInv'
  BY <1>11 DEF LateInsert
<1>12. ASSUME NEW k \in Keys, LateDelete(k) PROVE OwnerInv'
  <2>1. /\ lateDeletes[k] > 0 /\ lateDeletes'[k] = lateDeletes[k] - 1
        /\ \A l \in Keys \ {k} : lateDeletes'[l] = lateDeletes[l]
        /\ active_runner_instances' = active_runner_instances \ {k}
        /\ UNCHANGED <<state, strays>>
    BY <1>12 DEF LateDelete, TypeOK
  <2>2. k \notin strays => \A i \in Instances : Key(i) = k => state[i] \notin Registered
    BY <1>1, <2>1
  <2>3. k \notin strays => lateDeletes'[k] = 0
    BY <1>1, <2>1
  <2>4. QED
    BY <1>1, <2>1, <2>2, <2>3
<1>13. QED
  BY <1>3, <1>4, <1>6, <1>7, <1>8, <1>9, <1>10, <1>11, <1>12 DEF Next

\* The invariant behind the next two theorems.
LEMMA OwnerInvariant == Spec => []OwnerInv
<1>1. Init => OwnerInv
  BY DEF Init, OwnerInv, Registered
<1>2. TypeOK /\ TypeOK' /\ OwnerInv /\ [Next]_vars => OwnerInv'
  BY OwnerStep
<1>3. QED
  BY <1>1, <1>2, TypeCorrect, PTL DEF Spec

(* A process that serves is in the table, whatever crashes, restarts and   *)
(* late statements there are, until the stop hook of a process that failed *)
(* to start deletes by the same address (OnAllComponentsLoaded,            *)
(* OnAllComponentsAreStopping).                                            *)
THEOREM ServingProcessesAreRegistered == Spec => []ServingIsRegistered
<1>1. OwnerInv => ServingIsRegistered
  BY DEF OwnerInv, Registered, ServingIsRegistered
<1>2. QED
  BY <1>1, OwnerInvariant, PTL

(* Two processes never serve under one address (the primary key and        *)
(* RowsAffected in OnAllComponentsLoaded), with the same exception.        *)
THEOREM RegistrationIsExclusive == Spec => []OneInstancePerAddress
<1>1. OwnerInv => OneInstancePerAddress
  BY DEF OwnerInv, Registered, OneInstancePerAddress
<1>2. QED
  BY <1>1, OwnerInvariant, PTL

(* Nothing but the stop hook of a failed start removes an orphaned row, so *)
(* a crash closes its address until then.                                  *)
THEOREM OrphansStay == Spec => OrphanStays
<1> DEFINE Cleaned(k) == \E i \in Instances : Key(i) = k /\ state'[i] = "cleaning"
<1>1. TypeOK /\ TypeOK' /\ [Next]_vars
        => \A k \in Keys : Orphaned(k) => Orphaned(k)' \/ Cleaned(k)
  <2> SUFFICES ASSUME TypeOK, TypeOK', [Next]_vars, NEW k \in Keys, Orphaned(k), ~Cleaned(k)
               PROVE  Orphaned(k)'
    OBVIOUS
  <2> USE DEF Orphaned, Registered, Stopping
  <2>1. \A i \in Instances : Key(i) \in Keys
    BY DEF Keys
  <2>2. CASE UNCHANGED vars
    BY <2>2 DEF vars
  <2>3. ASSUME NEW i \in Instances, Launch(i) \/ Stop(i) PROVE Orphaned(k)'
    BY <2>3, Becomes DEF Launch, Stop, late
  <2>4. ASSUME NEW i \in Instances, Register(i) \/ RegisterFails(i) PROVE Orphaned(k)'
    <3>1. UNCHANGED lateDeletes /\ active_runner_instances \subseteq active_runner_instances'
      BY <2>4 DEF Register, RegisterFails, late
    <3>2. CASE FailedStart(i)
      BY <3>1, <3>2, FailedStarts
    <3>3. CASE ~FailedStart(i)
      BY <2>4, <3>1, <3>3, Becomes DEF Register, RegisterFails
    <3>4. QED
      BY <3>2, <3>3
  <2>5. ASSUME NEW i \in Instances, Unregister(i) PROVE Orphaned(k)'
    BY <2>5, Becomes DEF Unregister, late
  <2>6. ASSUME NEW i \in Instances, UnregisterFails(i) \/ Crash(i) PROVE Orphaned(k)'
    <3>1. /\ state'[i] = "down" /\ \A j \in Instances \ {i} : state'[j] = state[j]
          /\ UNCHANGED active_runner_instances
      BY <2>6, Becomes DEF UnregisterFails, Crash
    <3>2. lateDeletes'[k] = 0
      <4>1. CASE UNCHANGED lateDeletes
        BY <4>1
      <4>2. CASE ~UNCHANGED lateDeletes
        <5>1. state[i] \in Stopping /\ GiveUp(lateDeletes, Key(i))
          BY <2>6, <4>2 DEF UnregisterFails, Crash
        <5>2. k # Key(i)
          BY <5>1
        <5>3. QED
          BY <2>1, <5>1, <5>2, GivenUp DEF GiveUp, TypeOK
      <4>3. QED
        BY <4>1, <4>2
    <3>3. QED
      BY <3>1, <3>2
  <2>7. ASSUME NEW l \in Keys, LateInsert(l) \/ LateDelete(l) PROVE Orphaned(k)'
    BY <2>7 DEF LateInsert, LateDelete, TypeOK
  <2>8. QED
    BY <2>2, <2>3, <2>4, <2>5, <2>6, <2>7 DEF Next
<1>2. QED
  BY <1>1, TypeCorrect, PTL DEF Spec, OrphanStays

=============================================================================
