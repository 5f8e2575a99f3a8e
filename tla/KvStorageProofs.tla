--------------------------- MODULE KvStorageProofs --------------------------
(***************************************************************************)
(* Isolation of projects and reading one's own writes, for any number of   *)
(* executions, projects, keys and statements executed late.                *)
(***************************************************************************)
EXTENDS KvStorage, TLAPS

\* The row Get reads.
LEMMA FoundRow ==
  ASSUME TypeOK, NEW e \in Executions, NEW k \in Keys, Running(e)
  PROVE  LET row == projects_kv_storage[RowOf(project[e], k)] IN
         row = NoRow \/ row \in Rows
<1>1. <<project[e], k>> \in Projects \X Keys
  BY DEF TypeOK, Running
<1>2. QED
  BY <1>1 DEF TypeOK, RowOf

\* Every variable keeps its type, so a get never answers without a value.
THEOREM TypeCorrect == Spec => []TypeOK
<1>1. Init => TypeOK
  BY KvAssumption DEF Init, TypeOK, NoRow, NoResult, StorageResult
<1>2. TypeOK /\ [Next]_vars => TypeOK'
  <2> SUFFICES ASSUME TypeOK, [Next]_vars PROVE TypeOK'
    OBVIOUS
  <2> USE DEF TypeOK, StorageResult
  <2>0. ASSUME NEW p \in Projects, NEW v \in Values, Serialized[v].ok
        PROVE  RowWith(p, v) \in Rows
    BY <2>0, KvAssumption DEF RowWith, Rows
  <2>1. CASE UNCHANGED vars
    BY <2>1 DEF vars
  <2> USE DEF db
  <2>2. ASSUME NEW s \in late, LateStore(s) PROVE TypeOK'
    <3>1. s.key \in Keys /\ s.row \in Rows /\ s.row.by \in Projects /\ s.row.value \in Texts
      BY DEF Rows
    <3>2. late' \subseteq late /\ UNCHANGED <<existing, project, result_>>
      BY <2>2 DEF LateStore
    <3>3. CASE s.row.by \in existing
      <4>1. projects_kv_storage' = [projects_kv_storage EXCEPT ![<<s.row.by, s.key>>] = s.row]
        BY <2>2, <3>3 DEF LateStore, Upsert, RowOf
      <4>2. acked' \in [Executions -> [Keys -> Texts \cup {NoValue}]]
        BY <2>2, <3>1, <3>3 DEF LateStore, Acked
      <4>3. QED
        BY <3>1, <3>2, <4>1, <4>2
    <3>4. CASE s.row.by \notin existing
      BY <2>2, <3>2, <3>4 DEF LateStore
    <3>5. QED
      BY <3>3, <3>4
  <2>3. ASSUME NEW e \in Executions, NEW p \in Projects, Start(e, p) PROVE TypeOK'
    BY <2>3 DEF Start
  <2>4. ASSUME NEW e \in Executions, End(e) PROVE TypeOK'
    BY <2>4 DEF End, Ends, NoResult
  <2>5. ASSUME NEW e \in Executions, NEW type \in Types, Cast(e, type) PROVE TypeOK'
    BY <2>5 DEF Cast
  <2>6. ASSUME NEW e \in Executions, NEW k \in Keys, Get(e, k) PROVE TypeOK'
    <3> DEFINE row == projects_kv_storage[RowOf(project[e], k)]
    <3>1. row = NoRow \/ row \in Rows
      BY <2>6, FoundRow DEF Get
    <3>2. PICK r : /\ result_' = [result_ EXCEPT ![e] = r]
                   /\ \/ r = [how |-> "missing", row |-> NoRow, expected |-> acked[e][k]]
                      \/ row # NoRow /\ r = [how |-> "ok", row |-> row, expected |-> acked[e][k]]
      BY <2>6 DEF Get, Select, Result
    <3> HIDE DEF row
    <3>3. acked[e][k] \in Texts \cup {NoValue}
      OBVIOUS
    <3>4. r \in StorageResult /\ IF r.how = "ok" THEN r.row \in Rows ELSE r.row = NoRow
      BY <3>1, <3>2, <3>3
    <3>5. UNCHANGED <<projects_kv_storage, existing, late, project, acked>>
      BY <2>6 DEF Get
    <3>6. QED
      BY <3>2, <3>4, <3>5
  <2>7. ASSUME NEW e \in Executions, NEW k \in Keys, GetFails(e, k) PROVE TypeOK'
    BY <2>7 DEF GetFails, Result
  <2>8. ASSUME NEW e \in Executions, NEW k \in Keys, NEW v \in Values, Store(e, k, v)
        PROVE  TypeOK'
    <3> DEFINE row == RowWith(project[e], v)
    <3>1. row \in Rows /\ row.by = project[e] /\ row.value \in Texts
      BY <2>0, <2>8 DEF Store, RowWith, Rows, Running
    <3>2. /\ projects_kv_storage' = [projects_kv_storage EXCEPT ![<<row.by, k>>] = row]
          /\ acked' = Acked(k, row, {e})
          /\ UNCHANGED <<existing, late, project, result_>>
      BY <2>8 DEF Store, Upsert, RowOf
    <3> HIDE DEF row
    <3>3. acked' \in [Executions -> [Keys -> Texts \cup {NoValue}]]
      BY <3>1, <3>2 DEF Acked
    <3>4. QED
      BY <3>1, <3>2, <3>3
  <2>9. ASSUME NEW e \in Executions, NEW k \in Keys, NEW v \in Values, StoreFails(e, k, v)
        PROVE  TypeOK'
    <3>1. RowWith(project[e], v) \in Rows
      BY <2>0, <2>9 DEF StoreFails, Running
    <3>2. QED
      BY <2>9, <3>1 DEF StoreFails
  <2>10. ASSUME NEW p \in Projects, DeleteProject(p) PROVE TypeOK'
    BY <2>10 DEF DeleteProject
  <2>11. ASSUME NEW e \in Executions, NEW v \in Values, StoreThrows(e, v) PROVE TypeOK'
    BY <2>11 DEF StoreThrows, Ends, NoResult
  <2>12. CASE LeaveFrame
    BY <2>12, KvAssumption DEF LeaveFrame, NoResult
  <2>13. QED
    BY <2>1, <2>2, <2>3, <2>4, <2>5, <2>6, <2>7, <2>8, <2>9, <2>10, <2>11, <2>12 DEF Next
<1>3. QED
  BY <1>1, <1>2, PTL DEF Spec

-----------------------------------------------------------------------------
(***************************************************************************)
(* The strengthening: a row was stored by its own project and holds the    *)
(* text of what was stored, and so will those of late statements; a value  *)
(* an execution may count on is the one in the row of its project; an      *)
(* execution that has not begun has no result yet.                         *)
(***************************************************************************)
HasItsText(row) == row.value = Serialized[row.stored].value

RowsAreOwned ==
  \A p \in Projects, k \in Keys :
    projects_kv_storage[<<p, k>>] # NoRow =>
      /\ projects_kv_storage[<<p, k>>].by = p
      /\ HasItsText(projects_kv_storage[<<p, k>>])

LateHaveTexts == \A s \in late : HasItsText(s.row)

AckedIsStored ==
  \A e \in Executions, k \in Keys :
    acked[e][k] # NoValue => /\ Running(e)
                             /\ projects_kv_storage[<<project[e], k>>].value = acked[e][k]

IdleHasNoResult == \A e \in Executions : ~Running(e) => result_[e] = NoResult

ResultsHaveTexts == \A e \in Executions : result_[e].how = "ok" => HasItsText(result_[e].row)

KvInv ==
  /\ RowsAreOwned /\ LateHaveTexts /\ AckedIsStored /\ IdleHasNoResult /\ ResultsHaveTexts
  /\ ProjectsAreIsolated /\ ReadYourWrites

LEMMA KvInvariant == Spec => []KvInv
<1> USE DEF KvInv, RowsAreOwned, LateHaveTexts, AckedIsStored, IdleHasNoResult,
            ResultsHaveTexts, ProjectsAreIsolated, ReadYourWrites
<1>1. Init => KvInv
  BY DEF Init, NoRow, NoResult
<1>2. TypeOK /\ TypeOK' /\ KvInv /\ [Next]_vars => KvInv'
  <2> SUFFICES ASSUME TypeOK, TypeOK', KvInv, [Next]_vars PROVE KvInv'
    OBVIOUS
  <2> USE DEF TypeOK, Running, db
  <2>1. CASE UNCHANGED vars
    BY <2>1 DEF vars
  <2>2. ASSUME NEW s \in late, LateStore(s) PROVE KvInv'
    <3>1. s.key \in Keys /\ s.row \in Rows /\ s.row.by \in Projects
      BY DEF Rows
    <3>2. UNCHANGED <<project, result_>> /\ late' \subseteq late
      BY <2>2 DEF LateStore
    <3>3. CASE s.row.by \notin existing
      BY <2>2, <3>2, <3>3 DEF LateStore
    <3>4. CASE s.row.by \in existing
      <4>1. projects_kv_storage' = [projects_kv_storage EXCEPT ![<<s.row.by, s.key>>] = s.row]
        BY <2>2, <3>4 DEF LateStore, Upsert, RowOf
      <4>2. RowsAreOwned'
        <5> SUFFICES ASSUME NEW p \in Projects, NEW k \in Keys,
                            projects_kv_storage'[<<p, k>>] # NoRow
                     PROVE  /\ projects_kv_storage'[<<p, k>>].by = p
                            /\ HasItsText(projects_kv_storage'[<<p, k>>])
          BY DEF NoRow, HasItsText
        <5>1. CASE p = s.row.by /\ k = s.key
          BY <3>1, <4>1, <5>1
        <5>2. CASE ~(p = s.row.by /\ k = s.key)
          BY <4>1, <5>2
        <5>3. QED
          BY <5>1, <5>2
      <4>3. ASSUME NEW d \in Executions, NEW j \in Keys, acked'[d][j] # NoValue
            PROVE  /\ acked'[d][j] = acked[d][j]
                   /\ project[d] # s.row.by \/ j # s.key
        BY <2>2, <3>1, <3>4, <4>3 DEF LateStore, Acked
      <4>4. AckedIsStored'
        BY <3>1, <3>2, <4>1, <4>3
      <4>5. QED
        BY <3>2, <4>2, <4>4 DEF HasItsText
    <3>5. QED
      BY <3>3, <3>4
  <2>3. ASSUME NEW e \in Executions, NEW p \in Projects, Start(e, p) PROVE KvInv'
    <3>1. result_[e] = NoResult /\ \A k \in Keys : acked[e][k] = NoValue
      BY <2>3 DEF Start
    <3>2. /\ UNCHANGED <<projects_kv_storage, late, result_, acked>>
          /\ \A d \in Executions \ {e} : project'[d] = project[d]
          /\ project'[e] = p
      BY <2>3 DEF Start
    <3>3. RowsAreOwned' /\ LateHaveTexts' /\ ResultsHaveTexts' /\ ReadYourWrites'
      BY <3>2 DEF HasItsText
    <3>4. AckedIsStored'
      BY <3>1, <3>2
    <3>5. IdleHasNoResult'
      BY <3>1, <3>2
    <3>6. ProjectsAreIsolated'
      BY <3>1, <3>2 DEF NoResult
    <3>7. QED
      BY <3>3, <3>4, <3>5, <3>6
  <2>4. ASSUME NEW e \in Executions, Ends(e) PROVE KvInv'
    <3>1. /\ UNCHANGED <<projects_kv_storage, late>>
          /\ project'[e] = NoProject /\ result_'[e] = NoResult
          /\ \A k \in Keys : acked'[e][k] = NoValue
          /\ \A d \in Executions \ {e} : /\ project'[d] = project[d]
                                         /\ result_'[d] = result_[d]
                                         /\ acked'[d] = acked[d]
      BY <2>4 DEF Ends
    <3>2. RowsAreOwned' /\ LateHaveTexts'
      BY <3>1 DEF HasItsText
    <3>3. AckedIsStored'
      <4> SUFFICES ASSUME NEW d \in Executions, NEW k \in Keys, acked'[d][k] # NoValue
                   PROVE  /\ project'[d] # NoProject
                          /\ projects_kv_storage'[<<project'[d], k>>].value = acked'[d][k]
        OBVIOUS
      <4>1. d \in Executions \ {e}
        BY <3>1
      <4>2. QED
        BY <3>1, <4>1
    <3>4. IdleHasNoResult'
      BY <3>1
    <3>5. ResultsHaveTexts'
      BY <3>1 DEF NoResult, HasItsText
    <3>6. ProjectsAreIsolated'
      BY <3>1 DEF NoResult
    <3>7. ReadYourWrites'
      BY <3>1 DEF NoResult
    <3>8. QED
      BY <3>2, <3>3, <3>4, <3>5, <3>6, <3>7
  <2>5. ASSUME NEW e \in Executions, NEW type \in Types, Cast(e, type) PROVE KvInv'
    BY <2>5 DEF Cast, HasItsText
  <2>6. ASSUME NEW e \in Executions, NEW k \in Keys, Get(e, k) PROVE KvInv'
    <3> DEFINE row == projects_kv_storage[<<project[e], k>>]
    <3>1. project[e] \in Projects
      BY <2>6 DEF Get
    <3>2. UNCHANGED <<projects_kv_storage, late, project, acked>>
      BY <2>6 DEF Get
    <3>3. acked[e][k] # NoValue => row.value = acked[e][k] /\ row # NoRow
      BY <3>1 DEF NoRow
    <3>4. row # NoRow => row.by = project[e] /\ HasItsText(row)
      BY <3>1
    <3>5. /\ result_'[e].expected = acked[e][k]
          /\ \/ row = NoRow /\ result_'[e].how = "missing"
             \/ row # NoRow /\ result_'[e].how = "ok" /\ result_'[e].row = row
          /\ \A d \in Executions \ {e} : result_'[d] = result_[d]
      <4>1. PICK r : /\ result_' = [result_ EXCEPT ![e] = r]
                     /\ \/ /\ row = NoRow
                           /\ r = [how |-> "missing", row |-> NoRow, expected |-> acked[e][k]]
                        \/ /\ row # NoRow
                           /\ r = [how |-> "ok", row |-> row, expected |-> acked[e][k]]
        BY <2>6 DEF Get, Select, Result, RowOf
      <4> HIDE DEF row
      <4>2. QED
        BY <4>1
    <3>6. ProjectsAreIsolated' /\ ReadYourWrites' /\ ResultsHaveTexts'
      <4> HIDE DEF row, HasItsText
      <4>1. ASSUME NEW d \in Executions
            PROVE  /\ result_'[d].how = "ok" => /\ result_'[d].row.by = project'[d]
                                                /\ HasItsText(result_'[d].row)
                   /\ result_'[d].expected # NoValue =>
                        /\ result_'[d].how # "missing"
                        /\ result_'[d].how = "ok" => result_'[d].row.value = result_'[d].expected
        <5>1. CASE d = e
          BY <3>2, <3>3, <3>4, <3>5, <5>1
        <5>2. CASE d # e
          BY <3>2, <3>5, <5>2
        <5>3. QED
          BY <5>1, <5>2
      <4>2. QED
        BY <4>1 DEF HasItsText
    <3>7. RowsAreOwned' /\ LateHaveTexts' /\ AckedIsStored'
      BY <3>2 DEF HasItsText
    <3>8. IdleHasNoResult'
      BY <2>6, <3>2, <3>5 DEF Get
    <3>9. QED
      BY <3>6, <3>7, <3>8
  <2>7. ASSUME NEW e \in Executions, NEW k \in Keys, GetFails(e, k) PROVE KvInv'
    BY <2>7 DEF GetFails, Result, NoRow, HasItsText
  <2>8. ASSUME NEW e \in Executions, NEW k \in Keys, NEW v \in Values, Store(e, k, v)
        PROVE  KvInv'
    <3> DEFINE row == RowWith(project[e], v)
    <3>1. /\ row.by = project[e] /\ project[e] \in Projects /\ HasItsText(row)
          /\ row.value \in Texts /\ row.value # NoValue
      BY <2>8, KvAssumption DEF Store, RowWith, HasItsText
    <3>2. /\ projects_kv_storage' = [projects_kv_storage EXCEPT ![<<project[e], k>>] = row]
          /\ acked' = Acked(k, row, {e})
          /\ UNCHANGED <<late, project, result_>>
      BY <2>8, <3>1 DEF Store, Upsert, RowOf
    <3> HIDE DEF row
    <3>3. RowsAreOwned'
      <4> SUFFICES ASSUME NEW p \in Projects, NEW j \in Keys,
                          projects_kv_storage'[<<p, j>>] # NoRow
                   PROVE  /\ projects_kv_storage'[<<p, j>>].by = p
                          /\ HasItsText(projects_kv_storage'[<<p, j>>])
        BY DEF NoRow, HasItsText
      <4>1. CASE p = project[e] /\ j = k
        BY <3>1, <3>2, <4>1
      <4>2. CASE ~(p = project[e] /\ j = k)
        BY <3>2, <4>2
      <4>3. QED
        BY <4>1, <4>2
    <3>4. AckedIsStored'
      <4> SUFFICES ASSUME NEW d \in Executions, NEW j \in Keys, acked'[d][j] # NoValue
                   PROVE  /\ project'[d] # NoProject
                          /\ projects_kv_storage'[<<project'[d], j>>].value = acked'[d][j]
        OBVIOUS
      <4>1. CASE project[d] = project[e] /\ j = k
        <5>1. acked'[d] = [acked[d] EXCEPT ![k] = IF d = e THEN row.value ELSE NoValue]
          BY <3>1, <3>2, <4>1 DEF Acked
        <5>2. d = e /\ acked'[d][j] = row.value
          BY <4>1, <5>1
        <5>3. projects_kv_storage'[<<project[d], j>>] = row
          BY <3>1, <3>2, <4>1
        <5>4. QED
          BY <3>1, <3>2, <5>2, <5>3, KvAssumption
      <4>2. CASE ~(project[d] = project[e] /\ j = k)
        BY <3>1, <3>2, <4>2 DEF Acked
      <4>3. QED
        BY <4>1, <4>2
    <3>5. QED
      BY <3>2, <3>3, <3>4 DEF HasItsText
  <2>9. ASSUME NEW e \in Executions, NEW k \in Keys, NEW v \in Values, StoreFails(e, k, v)
        PROVE  KvInv'
    <3>1. UNCHANGED <<projects_kv_storage, project, result_, acked>>
      BY <2>9 DEF StoreFails
    <3>2. LateHaveTexts'
      BY <2>9 DEF StoreFails, RowWith, HasItsText
    <3>3. QED
      BY <3>1, <3>2 DEF HasItsText
  <2>10. ASSUME NEW p \in Projects, DeleteProject(p) PROVE KvInv'
    <3>1. UNCHANGED <<late, project, result_>>
      BY <2>10 DEF DeleteProject
    <3>2. \A q \in Projects, k \in Keys :
            projects_kv_storage'[<<q, k>>] = IF q = p THEN NoRow ELSE projects_kv_storage[<<q, k>>]
      BY <2>10 DEF DeleteProject
    <3> HIDE DEF NoRow
    <3>3. \A d \in Executions, k \in Keys :
            acked'[d][k] # NoValue => project[d] # p /\ acked'[d][k] = acked[d][k]
      BY <2>10 DEF DeleteProject
    <3>4. RowsAreOwned'
      <4> SUFFICES ASSUME NEW q \in Projects, NEW k \in Keys,
                          projects_kv_storage'[<<q, k>>] # NoRow
                   PROVE  /\ projects_kv_storage'[<<q, k>>].by = q
                          /\ HasItsText(projects_kv_storage'[<<q, k>>])
        BY DEF NoRow, HasItsText
      <4> QED
        BY <3>2
    <3>5. AckedIsStored'
      BY <3>1, <3>2, <3>3
    <3>6. QED
      BY <3>1, <3>4, <3>5 DEF HasItsText
  <2>11. ASSUME NEW e \in Executions, NEW v \in Values, StoreThrows(e, v) PROVE KvInv'
    BY <2>4, <2>11 DEF StoreThrows
  <2>12. ASSUME NEW e \in Executions, End(e) PROVE KvInv'
    BY <2>4, <2>12 DEF End
  <2>13. CASE LeaveFrame
    BY <2>13 DEF LeaveFrame, NoResult
  <2>14. QED
    BY <2>1, <2>2, <2>3, <2>5, <2>6, <2>7, <2>8, <2>9, <2>10, <2>11, <2>12, <2>13 DEF Next
<1>3. QED
  BY <1>1, <1>2, TypeCorrect, PTL DEF Spec

(* Whatever scripts run at the same time and whatever statements are       *)
(* executed late, a script reads values of its own project only            *)
(* (StoreMethod, GetMethod, project::Storage).                             *)
THEOREM ProjectsStayIsolated == Spec => []ProjectsAreIsolated
<1>1. KvInv => ProjectsAreIsolated
  BY DEF KvInv
<1>2. QED
  BY <1>1, KvInvariant, PTL

(* A script reads what it wrote until somebody stores over it, whatever    *)
(* scripts run at the same time and whatever statements are executed late  *)
(* (StoreMethod, GetMethod, project::Storage).                             *)
THEOREM WritesAreRead == Spec => []ReadYourWrites
<1>1. KvInv => ReadYourWrites
  BY DEF KvInv
<1>2. QED
  BY <1>1, KvInvariant, PTL

-----------------------------------------------------------------------------
\* What LuaJsonProofs proves of the conversions.
RoundTrips ==
  \A t \in Types, v \in Values :
    <<t, v>> \in Plain =>
      LET r == Deserialized[<<t, Serialized[v].value>>] IN r.ok /\ r.value = v

\* The last call was answered from the result the execution still has.
CastIsOfResult ==
  returned.call \in Types =>
    /\ returned.by \in Executions
    /\ LET result == result_[returned.by]
           r      == Deserialized[<<returned.call, result.row.value>>]
       IN  result.how = "ok" => r.ok = returned.ok /\ (r.ok => r.value = returned.value)

(* If the conversions of single values round-trip, every value that is     *)
(* read back is the one stored, whatever is stored, overwritten, deleted   *)
(* or executed late in between (ResultCastMethod, Serializer,              *)
(* Deserializer).                                                          *)
LEMMA RoundTripsSuffice == RoundTrips => (Spec => []PlainValueComesBack)
<1> SUFFICES ASSUME RoundTrips PROVE Spec => []PlainValueComesBack
  OBVIOUS
<1>1. Init => CastIsOfResult
  BY KvAssumption DEF Init, CastIsOfResult, NoCall
<1>2. TypeOK /\ CastIsOfResult /\ [Next]_vars => CastIsOfResult'
  <2> SUFFICES ASSUME TypeOK, CastIsOfResult, [Next]_vars PROVE CastIsOfResult'
    OBVIOUS
  <2> USE DEF CastIsOfResult
  <2>1. CASE UNCHANGED vars
    BY <2>1 DEF vars
  <2>2. CASE returned'.call \in {"none", "store", "get"}
    BY <2>2, KvAssumption
  <2>3. ASSUME NEW e \in Executions, NEW type \in Types, Cast(e, type) PROVE CastIsOfResult'
    <3> DEFINE r == Deserialized[<<type, result_[e].row.value>>]
    <3>1. /\ returned'.call = type /\ returned'.by = e
          /\ result_' = result_
          /\ result_[e].how = "ok" => /\ r.ok = returned'.ok
                                      /\ r.ok => r.value = returned'.value
      <4>1. result_[e].how = "ok" => result_[e].row.value \in Texts
        BY DEF TypeOK, Rows
      <4>2. result_[e].how = "ok" => r.ok \in BOOLEAN
        BY <4>1, KvAssumption
      <4>3. result_' = result_ /\ returned'.call = type /\ returned'.by = e
        BY <2>3 DEF Cast, Returns
      <4>4. ASSUME result_[e].how = "ok", r.ok PROVE returned'.ok /\ returned'.value = r.value
        BY <2>3, <4>4 DEF Cast, Returns
      <4>5. ASSUME result_[e].how = "ok", ~r.ok PROVE returned'.ok = FALSE
        BY <2>3, <4>5 DEF Cast, Returns
      <4>6. QED
        BY <4>2, <4>3, <4>4, <4>5
    <3>2. QED
      BY <3>1
  <2>4. ASSUME NEW s \in late, LateStore(s) PROVE returned'.call = "none"
    BY <2>4 DEF LateStore, NoCall
  <2>5. ASSUME NEW p \in Projects, DeleteProject(p) PROVE returned'.call = "none"
    BY <2>5 DEF DeleteProject, NoCall
  <2>6. ASSUME NEW e \in Executions, End(e) \/ \E p \in Projects : Start(e, p)
        PROVE  returned'.call = "none"
    BY <2>6 DEF End, Start, NoCall
  <2>7. ASSUME NEW e \in Executions, NEW v \in Values,
               StoreThrows(e, v) \/ \E k \in Keys : Store(e, k, v) \/ StoreFails(e, k, v)
        PROVE  returned'.call = "store"
    BY <2>7 DEF StoreThrows, Store, StoreFails, StoreReturns, Returns
  <2>8. ASSUME NEW e \in Executions, NEW k \in Keys, Get(e, k) \/ GetFails(e, k)
        PROVE  returned'.call = "get"
    BY <2>8 DEF Get, GetFails, Result, Returns
  <2>9. CASE LeaveFrame
    BY <2>9, <2>2 DEF LeaveFrame, NoCall
  <2>10. QED
    BY <2>1, <2>2, <2>3, <2>4, <2>5, <2>6, <2>7, <2>8, <2>9 DEF Next
<1>3. TypeOK /\ KvInv /\ CastIsOfResult => PlainValueComesBack
  <2> SUFFICES ASSUME TypeOK, KvInv, CastIsOfResult, returned.call \in Types,
                      <<returned.call, result_[returned.by].row.stored>> \in Plain
               PROVE  returned.ok /\ returned.value = result_[returned.by].row.stored
    BY DEF PlainValueComesBack
  <2> DEFINE row == result_[returned.by].row
  <2>1. returned.by \in Executions
    BY DEF CastIsOfResult
  <2>2. CASE result_[returned.by].how = "ok"
    <3>1. row \in Rows /\ row.stored \in Values /\ HasItsText(row)
      BY <2>1, <2>2 DEF TypeOK, Rows, KvInv, ResultsHaveTexts
    <3>2. QED
      BY <2>1, <2>2, <3>1 DEF RoundTrips, HasItsText, CastIsOfResult
  <2>3. CASE result_[returned.by].how # "ok"
    BY <2>1, <2>3, KvAssumption DEF TypeOK, NoRow
  <2>4. QED
    BY <2>2, <2>3
<1>4. QED
  BY <1>1, <1>2, <1>3, TypeCorrect, KvInvariant, PTL DEF Spec

=============================================================================
