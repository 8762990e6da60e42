----------------------------- MODULE Outbox_proofs -----------------------------
(***************************************************************************)
(* Proofs about Outbox, for any number of requests, any cap of the daily   *)
(* sequence and any time: firmware ids are unique on both backends, and    *)
(* the file keeps the lifecycle of Lifecycle; where there are mtimes, new  *)
(* ids have no results.                                                    *)
(***************************************************************************)
EXTENDS Outbox, TLAPS

Filled == \A s \in Slots : s > appended => rows[s] = NoRow

\* A request without a result directory is not at an end.
EndHasDir ==
    \A s \in Live : rows[s].status \in {"done", "error"}
                      => dirs[rows[s].id] # NoDir

\* Rows that share an id and a result directory go through life together.
SharedStatus ==
    \A s, t \in Live : rows[s].id = rows[t].id /\ dirs[rows[s].id] # NoDir
                         => rows[s].status = rows[t].status

\* What the bridge is working on.
AtWork ==
    /\ bridge.at = "mark"
         => /\ dirs[bridge.id] = NoDir
            /\ garbage = "none" => RowsOf(bridge.id) # {}
    /\ bridge.at = "run"
         => /\ RowsOf(bridge.id) # {}
            /\ \A s \in RowsOf(bridge.id) : rows[s].status = "in_flight"

Inv == /\ TypeOK
       /\ Filled
       /\ FwIdsUnique
       /\ EndHasDir
       /\ SharedStatus
       /\ AtWork

LEMMA InitInv == Init => Inv
<1> SUFFICES ASSUME Init PROVE Inv
  OBVIOUS
<1>1. TypeOK
  BY OutboxAssumption DEF Init, TypeOK, Days
<1>2. Live = {} /\ bridge.at = "idle"
  BY DEF Init, Live, BridgeIdle
<1>3. Filled /\ FwIdsUnique /\ EndHasDir /\ SharedStatus /\ AtWork
  BY <1>2 DEF Init, Filled, FwIdsUnique, EndHasDir, SharedStatus, AtWork
<1>4. QED
  BY <1>1, <1>3 DEF Inv

-----------------------------------------------------------------------------
(* Updates by id.                                                          *)

\* The rows with this id have this status now; nothing else about ids, slots
\* and statuses changed.
Restatus(id, status) ==
    /\ rows' \in [Slots -> Row \cup {NoRow}]
    /\ \A s \in Slots : rows'[s] = NoRow <=> rows[s] = NoRow
    /\ \A s \in Live :
         /\ rows'[s].id = rows[s].id
         /\ rows'[s].status = IF rows[s].id = id THEN status
                                                 ELSE rows[s].status

LEMMA SetStatus ==
  ASSUME NEW row \in Row, NEW status \in Statuses, NEW n \in Nat
  PROVE  /\ With(row, status, n) \in Row
         /\ With(row, status, n).id = row.id
         /\ With(row, status, n).status = status
BY DEF Row, With

LEMMA UpdateRestatus ==
  ASSUME TypeOK, NEW id, NEW status \in Statuses, NEW k \in Nat,
         Update(id, status, k)
  PROVE  Restatus(id, status)
<1>1. \A s \in Live : rows[s] \in Row
  BY DEF Live, TypeOK
<1>2. ASSUME NEW s \in Slots
      PROVE  /\ rows'[s] \in Row \cup {NoRow}
             /\ rows'[s] = NoRow <=> rows[s] = NoRow
             /\ s \in Live =>
                  /\ rows'[s].id = rows[s].id
                  /\ rows'[s].status = IF rows[s].id = id THEN status
                                                          ELSE rows[s].status
  <2>1. CASE s \in RowsOf(id)
    <3>1. rows'[s] = With(rows[s], status, rows[s].attempts + k)
      BY <2>1 DEF Update
    <3>2. rows[s] \in Row /\ rows[s].id = id
      BY <1>1, <2>1 DEF RowsOf
    <3>3. rows'[s] \in Row /\ rows'[s].id = id /\ rows'[s].status = status
      <4>1. rows[s].attempts + k \in Nat
        BY <3>2 DEF Row
      <4>2. QED
        BY <3>1, <3>2, <4>1, SetStatus
    <3>4. QED
      BY <3>2, <3>3, RowAssumption
  <2>2. CASE s \notin RowsOf(id)
    BY <2>2 DEF Update, RowsOf, TypeOK
  <2>3. QED
    BY <2>1, <2>2
<1>3. rows' = [s \in Slots |-> rows'[s]]
  BY DEF Update
<1>4. QED
  BY <1>2, <1>3 DEF Restatus, Live

LEMMA RetryRestatus ==
  ASSUME TypeOK, NEW id, Retry(id)
  PROVE  Restatus(id, "pending")
<1>1. ASSUME NEW s \in Slots
      PROVE  /\ rows'[s] \in Row \cup {NoRow}
             /\ rows'[s] = NoRow <=> rows[s] = NoRow
             /\ s \in Live =>
                  /\ rows'[s].id = rows[s].id
                  /\ rows'[s].status = IF rows[s].id = id THEN "pending"
                                                          ELSE rows[s].status
  <2>1. CASE s \in RowsOf(id)
    <3>1. rows'[s] = With(rows[s], "pending", 0)
      BY <2>1 DEF Retry
    <3>2. rows[s] \in Row /\ rows[s].id = id
      BY <2>1 DEF RowsOf, Live, TypeOK
    <3>3. rows'[s] \in Row /\ rows'[s].id = id /\ rows'[s].status = "pending"
      <4>1. "pending" \in Statuses /\ 0 \in Nat
        BY DEF Statuses
      <4>2. QED
        BY <3>1, <3>2, <4>1, SetStatus
    <3>4. QED
      BY <3>2, <3>3, RowAssumption
  <2>2. CASE s \notin RowsOf(id)
    BY <2>2 DEF Retry, RowsOf, TypeOK
  <2>3. QED
    BY <2>1, <2>2
<1>2. rows' = [s \in Slots |-> rows'[s]]
  BY DEF Retry
<1>3. QED
  BY <1>1, <1>2 DEF Restatus, Live

LEMMA RestatusKeeps ==
  ASSUME Inv, NEW id, NEW status, Restatus(id, status),
         UNCHANGED <<appended, dirs>>,
         status \in {"done", "error"} => RowsOf(id) = {} \/ dirs[id] # NoDir
  PROVE  Live' = Live /\ (Filled /\ FwIdsUnique /\ EndHasDir /\ SharedStatus)'
<1>1. Live' = Live
  BY DEF Restatus, Live
<1>2. \A s \in Live' : /\ s \in Live
                       /\ rows'[s].id = rows[s].id
                       /\ rows'[s].status = IF rows[s].id = id THEN status
                                            ELSE rows[s].status
  BY <1>1 DEF Restatus
<1>3. Filled'
  BY DEF Restatus, Inv, Filled
<1>4. FwIdsUnique'
  BY <1>2 DEF Inv, FwIdsUnique
<1>5. EndHasDir'
  BY <1>2 DEF Inv, EndHasDir, RowsOf
<1>6. SharedStatus'
  BY <1>2 DEF Inv, SharedStatus
<1>7. QED
  BY <1>1, <1>3, <1>4, <1>5, <1>6

-----------------------------------------------------------------------------
(* Appending and dropping.                                                 *)

LEMMA AppendKeeps ==
  ASSUME Inv, appended < MaxSlots, NEW id \in Ids,
         rows' = [rows EXCEPT ![appended + 1] =
                    [id |-> id, status |-> "pending", attempts |-> 0]],
         appended' = appended + 1,
         UNCHANGED dirs,
         id.by = "fw" => RowsOf(id) = {},
         dirs[id] = NoDir \/ RowsOf(id) = {}
  PROVE  /\ (Filled /\ FwIdsUnique /\ EndHasDir /\ SharedStatus)'
         /\ rows' \in [Slots -> Row \cup {NoRow}]
         /\ appended' \in 0..MaxSlots
         /\ rows[appended + 1] = NoRow
         /\ RowsOf(id)' # {}
<1> DEFINE n == appended + 1
           new == [id |-> id, status |-> "pending", attempts |-> 0]
<1>1. n \in Slots /\ n > appended /\ appended \in Nat
  BY OutboxAssumption DEF Inv, TypeOK, Slots
<1>2. new \in Row
  BY DEF Row, Statuses
<1>3. rows' \in [Slots -> Row \cup {NoRow}]
  BY <1>1, <1>2 DEF Inv, TypeOK
<1>4. /\ rows'[n] = new /\ rows[n] = NoRow
      /\ \A s \in Slots \ {n} : rows'[s] = rows[s]
  BY <1>1 DEF Inv, TypeOK, Filled
<1>5. Live' = Live \cup {n} /\ n \notin Live
  BY <1>1, <1>2, <1>4, RowAssumption DEF Live
<1>6. Filled'
  BY <1>1, <1>4 DEF Inv, Filled, Slots
<1>7. FwIdsUnique'
  BY <1>4, <1>5 DEF Inv, FwIdsUnique, RowsOf, Live
<1>8. EndHasDir'
  BY <1>4, <1>5 DEF Inv, EndHasDir, Live
<1>9. SharedStatus'
  BY <1>4, <1>5 DEF Inv, SharedStatus, RowsOf, Live
<1>10. QED
  <2>1. n \in RowsOf(id)'
    BY <1>4, <1>5 DEF RowsOf
  <2>2. QED
    BY <1>1, <1>3, <1>4, <1>6, <1>7, <1>8, <1>9, <2>1, OutboxAssumption
       DEF Slots

LEMMA DropKeeps ==
  ASSUME Inv, UNCHANGED <<appended, dirs>>,
         rows' \in [Slots -> Row \cup {NoRow}],
         \A s \in Slots : rows'[s] \in {rows[s], NoRow}
  PROVE  (Filled /\ FwIdsUnique /\ EndHasDir /\ SharedStatus)'
<1>1. \A s \in Live' : s \in Live /\ rows'[s] = rows[s]
  BY DEF Live
<1>2. Filled'
  BY DEF Inv, Filled
<1>3. (FwIdsUnique /\ EndHasDir /\ SharedStatus)'
  BY <1>1 DEF Inv, FwIdsUnique, EndHasDir, SharedStatus
<1>4. QED
  BY <1>2, <1>3

-----------------------------------------------------------------------------
(* The step.                                                               *)

\* An update of rows that are waiting or at work, by either program.
LEMMA WorkStatus ==
  ASSUME Inv, NEW id, dirs[id] = NoDir \/ Awaiting(id)
  PROVE  \A s \in RowsOf(id) : rows[s].status \in {"pending", "in_flight"}
<1>1. \A s \in RowsOf(id) : s \in Live /\ rows[s].id = id
                             /\ rows[s].status \in Statuses
  BY DEF RowsOf, Live, Inv, TypeOK, Row
<1>2. CASE dirs[id] = NoDir
  BY <1>1, <1>2 DEF Inv, EndHasDir, Statuses
<1>3. CASE Awaiting(id) /\ dirs[id] # NoDir
  BY <1>1, <1>3 DEF Awaiting, Inv, SharedStatus
<1>4. QED
  BY <1>2, <1>3

LEMMA NextInv == Inv /\ [Next]_vars => Inv'
<1> SUFFICES ASSUME Inv, [Next]_vars PROVE Inv'
  OBVIOUS
<1> DEFINE Kept == (Filled /\ FwIdsUnique /\ EndHasDir /\ SharedStatus)'
<1>a. BridgeIdle.at = "idle"
  BY DEF BridgeIdle
<1>b. UNCHANGED sd
  BY DEF Next, vars
<1> USE <1>b
<1>1. CASE bridge = BridgeIdle /\ Enqueue
  <2>1. PICK n \in 1..MaxSeq :
          /\ IsNextSeq(UsedToday, n)
          /\ rows' = [rows EXCEPT ![appended + 1] =
                        [id |-> [day |-> today, by |-> "fw", seq |-> n],
                         status |-> "pending", attempts |-> 0]]
    BY <1>1 DEF Enqueue
  <2> DEFINE id == [day |-> today, by |-> "fw", seq |-> n]
  <2>2. id \in Ids /\ id.by = "fw" /\ id.day = today /\ id.seq = n
    BY DEF Ids, Inv, TypeOK
  <2>3. RowsOf(id) = {}
    <3>1. n \notin UsedToday
      BY <2>1 DEF IsNextSeq
    <3>2. QED
      BY <2>2, <3>1 DEF UsedToday, RowsOf
  <2>4. /\ Kept
        /\ rows' \in [Slots -> Row \cup {NoRow}]
        /\ appended' \in 0..MaxSlots
    <3> HIDE DEF id
    <3>1. /\ appended < MaxSlots /\ appended' = appended + 1
          /\ UNCHANGED dirs
      BY <1>1 DEF Enqueue
    <3>2. rows' = [rows EXCEPT ![appended + 1] =
                     [id |-> id, status |-> "pending", attempts |-> 0]]
      BY <2>1 DEF id
    <3>3. QED
      BY <2>2, <2>3, <3>1, <3>2, AppendKeeps
  <2>5. TypeOK' /\ AtWork'
    BY <1>a, <1>1, <2>4 DEF Enqueue, Inv, TypeOK, AtWork
  <2>6. QED
    BY <2>4, <2>5 DEF Inv
<1>2. ASSUME NEW id \in Ids, bridge = BridgeIdle, Awaiting(id),
             MarkInFlight(id)
      PROVE  Inv'
  <2>1. Restatus(id, "in_flight")
    BY <1>2, UpdateRestatus DEF MarkInFlight, Inv, Statuses
  <2>2. Kept
    BY <1>2, <2>1, RestatusKeeps DEF MarkInFlight
  <2>3. TypeOK' /\ AtWork'
    BY <1>a, <1>2, <2>1 DEF MarkInFlight, Restatus, Inv, TypeOK, AtWork
  <2>4. QED
    BY <2>2, <2>3 DEF Inv
<1>3. ASSUME NEW id \in Ids, NEW final \in {"done", "error"},
             bridge = BridgeIdle, Imported(id), MarkTerminal(id, final)
      PROVE  Inv'
  <2>1. Restatus(id, final)
    BY <1>3, UpdateRestatus DEF MarkTerminal, Inv, Statuses
  <2>2. Kept
    BY <1>3, <2>1, RestatusKeeps DEF MarkTerminal, Imported
  <2>3. TypeOK' /\ AtWork'
    BY <1>a, <1>3, <2>1 DEF MarkTerminal, Restatus, Inv, TypeOK, AtWork
  <2>4. QED
    BY <2>2, <2>3 DEF Inv
<1>4. ASSUME NEW id \in Ids, bridge = BridgeIdle, Retry(id) PROVE Inv'
  <2>1. Restatus(id, "pending")
    BY <1>4, RetryRestatus DEF Inv
  <2>2. Kept
    BY <1>4, <2>1, RestatusKeeps DEF Retry
  <2>3. TypeOK' /\ AtWork'
    BY <1>a, <1>4, <2>1 DEF Retry, Restatus, Inv, TypeOK, AtWork
  <2>4. QED
    BY <2>2, <2>3 DEF Inv
<1>5. CASE bridge = BridgeIdle /\ (CompactDone \/ LoseFile)
  <2>1. /\ rows' \in [Slots -> Row \cup {NoRow}]
        /\ \A s \in Slots : rows'[s] \in {rows[s], NoRow}
    BY <1>5 DEF CompactDone, LoseFile, Inv, TypeOK
  <2>2. Kept
    BY <1>5, <2>1, DropKeeps DEF CompactDone, LoseFile
  <2>3. TypeOK' /\ AtWork'
    BY <1>a, <1>5, <2>1 DEF CompactDone, LoseFile, Inv, TypeOK, AtWork
  <2>4. QED
    BY <2>2, <2>3 DEF Inv
<1>6. ASSUME NEW id \in Ids, bridge = BridgeIdle, Touch(id) PROVE Inv'
  <2>1. /\ dirs' \in [Ids -> Days \cup {NoDir}]
        /\ \A k \in Ids : dirs'[k] # NoDir <=> dirs[k] # NoDir
    BY <1>6, OutboxAssumption DEF Touch, Inv, TypeOK, Days, NoDir
  <2>2. \A s \in Live : rows[s].id \in Ids
    BY DEF Live, Inv, TypeOK, Row
  <2>3. Live' = Live /\ UNCHANGED <<rows, appended>>
    BY <1>6 DEF Touch, Live
  <2>4. Kept
    BY <2>1, <2>2, <2>3
       DEF Inv, Filled, FwIdsUnique, EndHasDir, SharedStatus
  <2>5. TypeOK' /\ AtWork'
    BY <1>a, <1>6, <2>1 DEF Touch, Inv, TypeOK, AtWork
  <2>6. QED
    BY <2>4, <2>5 DEF Inv
<1>7. CASE bridge = BridgeIdle /\ PlanAppend
  <2>1. PICK n \in 1..MaxSeq :
          LET id == [day |-> today, by |-> "br", seq |-> n]
          IN  /\ IsNextSeq(DirsToday, n)
              /\ bridge' = [at |-> "mark", id |-> id]
              /\ IF garbage = "torn"
                   THEN garbage' = "bad" /\ UNCHANGED <<rows, appended>>
                   ELSE /\ rows' = [rows EXCEPT ![appended + 1] =
                                      [id |-> id, status |-> "pending",
                                       attempts |-> 0]]
                        /\ appended' = appended + 1
                        /\ UNCHANGED garbage
    BY <1>7 DEF PlanAppend
  <2>2. PICK id \in Ids : /\ id = [day |-> today, by |-> "br", seq |-> n]
                          /\ id.by = "br" /\ id.day = today /\ id.seq = n
    <3>1. [day |-> today, by |-> "br", seq |-> n] \in Ids
      BY DEF Ids, Inv, TypeOK
    <3>2. QED
      BY <3>1
  <2>3. dirs[id] = NoDir
    <3>1. n \notin DirsToday
      BY <2>1 DEF IsNextSeq
    <3>2. QED
      BY <2>2, <3>1 DEF DirsToday
  <2>4. appended < MaxSlots /\ UNCHANGED <<today, dirs>>
    BY <1>7 DEF PlanAppend
  <2>5. bridge' = [at |-> "mark", id |-> id]
    BY <2>1, <2>2
  <2>6. /\ Kept
        /\ rows' \in [Slots -> Row \cup {NoRow}]
        /\ appended' \in 0..MaxSlots
        /\ garbage' \in {"none", "torn", "bad"}
        /\ garbage' = "none" => RowsOf(id)' # {}
    <3>1. CASE garbage = "torn"
      <4>1. garbage' = "bad" /\ UNCHANGED <<rows, appended, dirs>>
        BY <2>1, <2>4, <3>1
      <4>2. Kept
        BY <4>1 DEF Inv, Filled, FwIdsUnique, EndHasDir, SharedStatus, Live
      <4>3. QED
        BY <4>1, <4>2 DEF Inv, TypeOK
    <3>2. CASE garbage # "torn"
      <4>1. /\ rows' = [rows EXCEPT ![appended + 1] =
                          [id |-> id, status |-> "pending", attempts |-> 0]]
            /\ appended' = appended + 1
            /\ UNCHANGED garbage
        BY <2>1, <2>2, <3>2
      <4>2. QED
        BY <2>2, <2>3, <2>4, <4>1, AppendKeeps DEF Inv, TypeOK
    <3>3. QED
      BY <3>1, <3>2
  <2>7. TypeOK'
    BY <2>2, <2>4, <2>5, <2>6 DEF Inv, TypeOK
  <2>8. AtWork'
    BY <2>3, <2>4, <2>5, <2>6 DEF AtWork
  <2>9. QED
    BY <2>6, <2>7, <2>8 DEF Inv
<1>8. CASE bridge = BridgeIdle /\ PlanTorn
  BY <1>8 DEF PlanTorn, Inv, TypeOK, Filled, FwIdsUnique, EndHasDir,
              SharedStatus, AtWork, Live, RowsOf
<1>9. ASSUME NEW s \in Slots, bridge = BridgeIdle, TakeFirst(s) PROVE Inv'
  <2> DEFINE id == rows[s].id
  <2>1. s \in Live /\ id \in Ids /\ s \in RowsOf(id)
    BY <1>9 DEF TakeFirst, Live, RowsOf, Inv, TypeOK, Row
  <2>2. Restatus(id, "in_flight")
    BY <1>9, UpdateRestatus DEF TakeFirst, Inv, Statuses
  <2>3. Kept /\ Live' = Live
    BY <1>9, <2>2, RestatusKeeps DEF TakeFirst
  <2>4. bridge' = [at |-> "run", id |-> id]
    BY <1>9 DEF TakeFirst
  <2>5. TypeOK'
    BY <1>9, <2>1, <2>2, <2>4 DEF TakeFirst, Restatus, Inv, TypeOK
  <2>6. AtWork'
    BY <2>1, <2>2, <2>3, <2>4 DEF AtWork, Restatus, RowsOf
  <2>7. QED
    BY <2>3, <2>5, <2>6 DEF Inv
<1>10. CASE PlanMark
  <2>1. PICK id \in Ids : bridge = [at |-> "mark", id |-> id]
    BY <1>a, <1>10 DEF PlanMark, Inv, TypeOK
  <2>2. CASE garbage = "none"
    <3>1. /\ Update(id, "in_flight", 0)
          /\ bridge' = [at |-> "run", id |-> id]
          /\ UNCHANGED <<garbage, appended, today, dirs>>
      BY <1>10, <2>1, <2>2 DEF PlanMark
    <3>2. Restatus(id, "in_flight")
      BY <3>1, UpdateRestatus DEF Inv, Statuses
    <3>3. Kept /\ Live' = Live
      BY <3>1, <3>2, RestatusKeeps
    <3>4. TypeOK'
      BY <3>1, <3>2 DEF Inv, TypeOK, Restatus
    <3>5. AtWork'
      <4>1. RowsOf(id)' = RowsOf(id)
        BY <3>2, <3>3 DEF Restatus, RowsOf
      <4>2. RowsOf(id) # {}
        BY <2>1, <2>2 DEF Inv, AtWork
      <4>3. \A s \in RowsOf(id) : rows'[s].status = "in_flight"
        BY <3>2 DEF Restatus, RowsOf
      <4>4. QED
        BY <3>1, <4>1, <4>2, <4>3 DEF AtWork
    <3>6. QED
      BY <3>3, <3>4, <3>5 DEF Inv
  <2>3. CASE garbage # "none"
    BY <1>a, <1>10, <2>3
       DEF PlanMark, Inv, TypeOK, Filled, FwIdsUnique, EndHasDir,
           SharedStatus, AtWork, Live, RowsOf
  <2>4. QED
    BY <2>2, <2>3
<1>11. CASE WipeDir
  <2>1. /\ bridge.at = "run" /\ bridge.id \in Ids
        /\ dirs' = [dirs EXCEPT ![bridge.id] = NoDir]
        /\ UNCHANGED <<rows, garbage, appended, today, bridge>>
    BY <1>a, <1>11 DEF WipeDir, Inv, TypeOK
  <2>2. TypeOK'
    BY <2>1 DEF Inv, TypeOK
  <2>3. Live' = Live /\ \A s \in Live : rows[s].id \in Ids
    BY <2>1 DEF Live, Inv, TypeOK, Row
  <2>4. Filled' /\ FwIdsUnique' /\ AtWork'
    BY <2>1, <2>3 DEF Inv, Filled, FwIdsUnique, AtWork, RowsOf
  <2>5. EndHasDir'
    BY <2>1, <2>3 DEF Inv, TypeOK, EndHasDir, AtWork, RowsOf
  <2>6. SharedStatus'
    BY <2>1, <2>3 DEF Inv, TypeOK, SharedStatus
  <2>7. QED
    BY <2>2, <2>4, <2>5, <2>6 DEF Inv
<1>12. CASE WriteDir
  <2>1. /\ bridge.at = "run" /\ bridge.id \in Ids
        /\ dirs' = [dirs EXCEPT ![bridge.id] = today]
        /\ bridge' = BridgeIdle
        /\ UNCHANGED <<rows, garbage, appended, today>>
    BY <1>a, <1>12 DEF WriteDir, Inv, TypeOK
  <2>2. TypeOK'
    BY <2>1 DEF Inv, TypeOK
  <2>3. Live' = Live /\ \A s \in Live : rows[s].id \in Ids
    BY <2>1 DEF Live, Inv, TypeOK, Row
  <2>4. Filled' /\ FwIdsUnique' /\ AtWork'
    BY <1>a, <2>1, <2>3 DEF Inv, Filled, FwIdsUnique, AtWork
  <2>5. today # NoDir
    BY OutboxAssumption DEF Inv, TypeOK, Days, NoDir
  <2>6. EndHasDir'
    BY <2>1, <2>3, <2>5 DEF Inv, TypeOK, EndHasDir
  <2>7. SharedStatus'
    BY <2>1, <2>3 DEF Inv, TypeOK, SharedStatus, AtWork, RowsOf
  <2>8. QED
    BY <2>2, <2>4, <2>6, <2>7 DEF Inv
<1>13. CASE BridgeStops
  BY <1>a, <1>13
     DEF BridgeStops, Inv, TypeOK, Filled, FwIdsUnique, EndHasDir,
         SharedStatus, AtWork, Live, RowsOf
<1>14. CASE NextDay
  BY <1>14, OutboxAssumption
     DEF NextDay, Inv, TypeOK, Filled, FwIdsUnique, EndHasDir,
         SharedStatus, AtWork, Live, RowsOf, Days
<1>15. CASE UNCHANGED vars
  BY <1>15 DEF vars, Inv, TypeOK, Filled, FwIdsUnique, EndHasDir,
               SharedStatus, AtWork, Live, RowsOf
<1>16. QED
  BY <1>1, <1>2, <1>3, <1>4, <1>5, <1>6, <1>7, <1>8, <1>9, <1>10, <1>11,
     <1>12, <1>13, <1>14, <1>15 DEF Next, Firmware

LEMMA SpecInv == Spec => []Inv
BY InitInv, NextInv, PTL DEF Spec

(***************************************************************************)
(* pending.jsonl and the queue's view of it keep their types.              *)
(***************************************************************************)
THEOREM TypeCorrect == Spec => []TypeOK
<1>1. Inv => TypeOK
  BY DEF Inv
<1>2. QED
  BY <1>1, SpecInv, PTL

(***************************************************************************)
(* No two rows carry the same firmware id (generate_request_id), also      *)
(* where a power cut loses the whole file and where mtimes are unknown.    *)
(***************************************************************************)
THEOREM FwIdsUniqueTheorem == Spec => []FwIdsUnique
<1>1. Inv => FwIdsUnique
  BY DEF Inv
<1>2. QED
  BY <1>1, SpecInv, PTL

-----------------------------------------------------------------------------
(* The lifecycle.                                                          *)

LEMMA InitImplements == Init => Promised!Init
BY RowAssumption, OutboxAssumption
   DEF Init, Promised!Init, StageOf, Live, Slots, Promised!Slots

\* Updates by id move every row that has the id along the same edge.
LEMMA RestatusMoves ==
  ASSUME Inv, TypeOK', NEW id, NEW status, Restatus(id, status),
         UNCHANGED appended,
         \A s \in RowsOf(id) :
           \/ rows[s].status = status
           \/ <<rows[s].status, status>> \in Promised!Edges
  PROVE  Promised!Move
<1>1. Live' = Live
  BY DEF Restatus, Live
<1>2. ASSUME NEW s \in Slots
      PROVE  \/ StageOf'[s] = StageOf[s]
             \/ <<StageOf[s], StageOf'[s]>> \in Promised!Edges
  <2>1. CASE s \in Live
    <3>1. StageOf[s] = rows[s].status /\ StageOf'[s] = rows'[s].status
      BY <1>1, <2>1 DEF StageOf
    <3>2. rows'[s].status = IF rows[s].id = id THEN status ELSE rows[s].status
      BY <2>1 DEF Restatus
    <3>3. QED
      BY <2>1, <3>1, <3>2 DEF RowsOf
  <2>2. CASE s \notin Live
    BY <1>1, <2>2 DEF StageOf
  <2>3. QED
    BY <2>1, <2>2
<1>3. StageOf' \in [Slots -> Promised!Stages]
  BY DEF TypeOK, StageOf, Live, Row, Statuses, Promised!Stages
<1>4. QED
  BY <1>2, <1>3 DEF Promised!Move, Promised!Slots, Slots

LEMMA AppendSubmits ==
  ASSUME Inv, TypeOK', appended < MaxSlots, NEW id \in Ids,
         rows' = [rows EXCEPT ![appended + 1] =
                    [id |-> id, status |-> "pending", attempts |-> 0]],
         appended' = appended + 1
  PROVE  Promised!Submit
<1> DEFINE n == appended + 1
           new == [id |-> id, status |-> "pending", attempts |-> 0]
<1>1. n \in Slots /\ n > appended /\ appended \in Nat
  BY OutboxAssumption DEF Inv, TypeOK, Slots
<1>2. new # NoRow /\ new.status = "pending"
  BY RowAssumption DEF Row, Statuses
<1>3. /\ rows'[n] = new /\ rows[n] = NoRow
      /\ \A s \in Slots \ {n} : rows'[s] = rows[s]
  BY <1>1 DEF Inv, TypeOK, Filled
<1>4. Live' = Live \cup {n}
  BY <1>1, <1>2, <1>3 DEF Live
<1>5. ASSUME NEW s \in Slots
      PROVE  StageOf'[s] = IF s = n THEN "pending" ELSE StageOf[s]
  <2>1. CASE s = n
    BY <1>2, <1>3, <1>4, <2>1 DEF StageOf
  <2>2. CASE s # n
    <3>1. s <= appended' <=> s <= appended
      BY <1>1, <2>2 DEF Slots
    <3>2. QED
      BY <1>3, <1>4, <2>2, <3>1 DEF StageOf
  <2>3. QED
    BY <2>1, <2>2
<1>6. StageOf' = [StageOf EXCEPT ![n] = "pending"]
  BY <1>5 DEF StageOf
<1>7. QED
  BY <1>6 DEF Promised!Submit

LEMMA CompactMoves ==
  ASSUME Inv, TypeOK', CompactDone
  PROVE  Promised!Move
<1>1. /\ UNCHANGED appended
      /\ \A s \in Slots :
           rows'[s] = IF /\ s \in Live
                         /\ rows[s].status = "done"
                         /\ Old(rows[s].id)
                        THEN NoRow ELSE rows[s]
  BY DEF CompactDone
<1>2. ASSUME NEW s \in Slots
      PROVE  \/ StageOf'[s] = StageOf[s]
             \/ <<StageOf[s], StageOf'[s]>> \in Promised!Edges
  <2>1. CASE rows'[s] = rows[s]
    BY <1>1, <2>1 DEF StageOf, Live
  <2>2. CASE rows'[s] # rows[s]
    <3>1. s \in Live /\ rows[s].status = "done" /\ rows'[s] = NoRow
      BY <1>1, <2>2
    <3>2. s <= appended
      BY <3>1, OutboxAssumption DEF Inv, Filled, Live, Slots, TypeOK
    <3>3. StageOf[s] = "done" /\ StageOf'[s] = "dropped"
      BY <1>1, <3>1, <3>2 DEF StageOf, Live
    <3>4. QED
      BY <3>3 DEF Promised!Edges
  <2>3. QED
    BY <2>1, <2>2
<1>3. StageOf' \in [Slots -> Promised!Stages]
  BY DEF TypeOK, StageOf, Live, Row, Statuses, Promised!Stages
<1>4. QED
  BY <1>1, <1>2, <1>3 DEF Promised!Move, Promised!Slots, Slots

LEMMA NextImplements ==
  ASSUME Inv, TypeOK', [Next]_vars
  PROVE  [Promised!Next]_(Promised!vars)
<1>0. SUFFICES \/ Promised!Submit \/ Promised!Move \/ Promised!Lose
               \/ UNCHANGED <<rows, appended>>
  BY DEF Promised!Next, Promised!vars, StageOf, Live, Next, vars
<1> USE DEF Promised!Edges
<1>a. BridgeIdle.at = "idle"
  BY DEF BridgeIdle
<1>b. UNCHANGED sd
  BY DEF Next, vars
<1> USE <1>b
<1>1. CASE Enqueue
  <2>1. PICK n \in 1..MaxSeq :
          rows' = [rows EXCEPT ![appended + 1] =
                    [id |-> [day |-> today, by |-> "fw", seq |-> n],
                     status |-> "pending", attempts |-> 0]]
    BY <1>1 DEF Enqueue
  <2>2. PICK id \in Ids : id = [day |-> today, by |-> "fw", seq |-> n]
    <3>1. [day |-> today, by |-> "fw", seq |-> n] \in Ids
      BY DEF Ids, Inv, TypeOK
    <3>2. QED
      BY <3>1
  <2>3. QED
    BY <1>1, <2>1, <2>2, AppendSubmits DEF Enqueue
<1>2. ASSUME NEW id \in Ids, Awaiting(id), MarkInFlight(id)
      PROVE  Promised!Move
  <2>1. Restatus(id, "in_flight")
    BY <1>2, UpdateRestatus DEF MarkInFlight, Inv, Statuses
  <2>2. QED
    BY <1>2, <2>1, WorkStatus, RestatusMoves DEF MarkInFlight
<1>3. ASSUME NEW id \in Ids, NEW final \in {"done", "error"},
             Imported(id), MarkTerminal(id, final)
      PROVE  Promised!Move
  <2>1. Restatus(id, final)
    BY <1>3, UpdateRestatus DEF MarkTerminal, Inv, Statuses
  <2>2. \A s \in RowsOf(id) : rows[s].status = "in_flight"
    BY <1>3 DEF Imported, InFlight, RowsOf, Inv, SharedStatus
  <2>3. QED
    BY <1>3, <2>1, <2>2, RestatusMoves DEF MarkTerminal
<1>4. ASSUME NEW id \in Ids, Retry(id) PROVE Promised!Move
  <2>1. Restatus(id, "pending")
    BY <1>4, RetryRestatus DEF Inv
  <2>2. QED
    BY <1>4, <2>1, RestatusMoves DEF Retry
<1>5. CASE CompactDone
  BY <1>5, CompactMoves
<1>6. ASSUME NEW id \in Ids, Touch(id) PROVE UNCHANGED <<rows, appended>>
  BY <1>6 DEF Touch
<1>7. CASE PlanAppend
  <2>1. PICK n \in 1..MaxSeq :
          IF garbage = "torn"
            THEN UNCHANGED <<rows, appended>>
            ELSE /\ rows' = [rows EXCEPT ![appended + 1] =
                               [id |-> [day |-> today, by |-> "br", seq |-> n],
                                status |-> "pending", attempts |-> 0]]
                 /\ appended' = appended + 1
    BY <1>7 DEF PlanAppend
  <2>2. PICK id \in Ids : id = [day |-> today, by |-> "br", seq |-> n]
    <3>1. [day |-> today, by |-> "br", seq |-> n] \in Ids
      BY DEF Ids, Inv, TypeOK
    <3>2. QED
      BY <3>1
  <2>3. appended < MaxSlots
    BY <1>7 DEF PlanAppend
  <2>4. QED
    BY <2>1, <2>2, <2>3, AppendSubmits
<1>8. ASSUME NEW s \in Slots, TakeFirst(s) PROVE Promised!Move
  <2> DEFINE id == rows[s].id
  <2>1. Restatus(id, "in_flight") /\ Awaiting(id)
    BY <1>8, UpdateRestatus DEF TakeFirst, Inv, Statuses, Awaiting, RowsOf
  <2>2. QED
    BY <1>8, <2>1, WorkStatus, RestatusMoves DEF TakeFirst
<1>9. CASE PlanMark
  <2>1. CASE garbage = "none"
    <3>1. Restatus(bridge.id, "in_flight")
      BY <1>9, <2>1, UpdateRestatus DEF PlanMark, Inv, Statuses
    <3>2. dirs[bridge.id] = NoDir
      BY <1>9 DEF PlanMark, Inv, AtWork
    <3>3. QED
      BY <1>9, <3>1, <3>2, WorkStatus, RestatusMoves DEF PlanMark
  <2>2. CASE garbage # "none"
    BY <1>9, <2>2 DEF PlanMark
  <2>3. QED
    BY <2>1, <2>2
<1>5a. CASE LoseFile
  BY <1>5a DEF LoseFile, Promised!Lose, Promised!Slots, StageOf, Live, Slots
<1>10. CASE PlanTorn \/ WipeDir \/ WriteDir \/ BridgeStops \/ NextDay
  BY <1>10 DEF PlanTorn, WipeDir, WriteDir, BridgeStops, NextDay
<1>11. CASE UNCHANGED vars
  BY <1>11 DEF vars
<1>12. QED
  BY <1>1, <1>2, <1>3, <1>4, <1>5, <1>5a, <1>6, <1>7, <1>8, <1>9, <1>10,
     <1>11 DEF Next, Firmware

(***************************************************************************)
(* The two programs keep the lifecycle of the requests, whatever is cut    *)
(* short, and a lossy backend adds nothing to it but that all rows can go. *)
(***************************************************************************)
THEOREM KeepsLifecycle == Spec => ImplementsLifecycle
<1>1. Inv /\ Inv' /\ [Next]_vars => [Promised!Next]_(Promised!vars)
  BY NextImplements DEF Inv
<1>2. QED
  BY <1>1, InitImplements, SpecInv, PTL
     DEF Spec, ImplementsLifecycle, Promised!Spec
-----------------------------------------------------------------------------
(* Fresh ids and compaction.                                               *)

\* Nothing is dated in the future.
RowDays == \A s \in Live : rows[s].id.day <= today

DirDays ==
    \A id \in Ids : dirs[id] # NoDir => id.day <= dirs[id] /\ dirs[id] <= today

\* Where mtimes exist, a result of a firmware id of today still has its row:
\* the row was there when the result was written, and compaction leaves rows
\* with results of today alone.
TodaysRowKept ==
    ~sd => \A id \in Ids :
             id.by = "fw" /\ id.day = today /\ dirs[id] # NoDir
               => RowsOf(id) # {}

DateInv == RowDays /\ DirDays /\ TodaysRowKept

LEMMA DatesAreNat ==
  ASSUME TypeOK, NEW id \in Ids
  PROVE  id.day \in Nat /\ (dirs[id] # NoDir => dirs[id] \in Nat)
<1>1. id.day \in Days
  BY DEF Ids
<1>2. dirs[id] \in Days \cup {NoDir}
  BY DEF TypeOK
<1> QED
  BY <1>1, <1>2 DEF Days

\* Steps that leave ids, dates and results alone.
LEMMA SameIdsKeepDates ==
  ASSUME DateInv, Live' = Live,
         \A s \in Live : rows'[s].id = rows[s].id,
         UNCHANGED <<today, dirs, sd>>
  PROVE  DateInv'
<1>1. RowDays' /\ DirDays'
  BY DEF DateInv, RowDays, DirDays
<1>2. \A id : RowsOf(id)' = RowsOf(id)
  BY DEF RowsOf
<1>3. TodaysRowKept'
  BY <1>2 DEF DateInv, TodaysRowKept
<1> QED
  BY <1>1, <1>3 DEF DateInv

LEMMA RestatusKeepsDates ==
  ASSUME DateInv, NEW id, NEW status, Restatus(id, status),
         UNCHANGED <<today, dirs, sd>>
  PROVE  DateInv'
<1>1. Live' = Live
  BY DEF Restatus, Live
<1> QED
  BY <1>1, SameIdsKeepDates DEF Restatus

\* Rows are appended with ids of today.
LEMMA AppendKeepsDates ==
  ASSUME TypeOK, Filled, DateInv, appended < MaxSlots,
         NEW id \in Ids, id.day = today,
         rows' = [rows EXCEPT ![appended + 1] =
                    [id |-> id, status |-> "pending", attempts |-> 0]],
         UNCHANGED <<today, dirs, sd>>
  PROVE  DateInv' /\ Live' \ Live \subseteq {appended + 1}
         /\ rows'[appended + 1].id = id
<1> DEFINE n == appended + 1
           new == [id |-> id, status |-> "pending", attempts |-> 0]
<1>1. n \in Slots /\ n > appended /\ today \in Nat
  BY OutboxAssumption DEF TypeOK, Slots, Days
<1>2. /\ rows'[n] = new /\ rows[n] = NoRow
      /\ \A s \in Slots \ {n} : rows'[s] = rows[s]
  BY <1>1 DEF TypeOK, Filled
<1>3. new.id = id
  OBVIOUS
<1> HIDE DEF new, n
<1>4. Live' \subseteq Live \cup {n} /\ Live \subseteq Live'
  BY <1>1, <1>2, RowAssumption DEF Live
<1>5. \A s \in Live : rows'[s] = rows[s]
  BY <1>2 DEF Live
<1>6. RowDays'
  BY <1>1, <1>2, <1>3, <1>4, <1>5 DEF DateInv, RowDays
<1>7. DirDays'
  BY DEF DateInv, DirDays
<1>8. \A k : RowsOf(k) \subseteq RowsOf(k)'
  BY <1>4, <1>5 DEF RowsOf
<1>9. TodaysRowKept'
  BY <1>8 DEF DateInv, TodaysRowKept
<1> QED
  BY <1>2, <1>3, <1>4, <1>6, <1>7, <1>9 DEF DateInv, n

\* Compaction drops no row of a result of today, on the host.
LEMMA CompactKeepsDates ==
  ASSUME Inv, DateInv, CompactDone, UNCHANGED sd
  PROVE  DateInv'
<1>1. UNCHANGED <<today, dirs>>
  BY DEF CompactDone
<1>2. \A s \in Live' : s \in Live /\ rows'[s] = rows[s]
  BY DEF CompactDone, Live
<1>3. RowDays' /\ DirDays'
  BY <1>1, <1>2 DEF DateInv, RowDays, DirDays
<1>4. TodaysRowKept'
  <2> SUFFICES ASSUME ~sd, NEW id \in Ids, id.by = "fw", id.day = today,
                      dirs[id] # NoDir
               PROVE  RowsOf(id)' # {}
    BY <1>1 DEF TodaysRowKept
  <2>1. PICK s \in RowsOf(id) : TRUE
    BY DEF DateInv, TodaysRowKept
  <2>2. s \in Live /\ s \in Slots /\ rows[s].id = id
    BY <2>1 DEF RowsOf, Live
  <2>3. today <= dirs[id] /\ today \in Int /\ dirs[id] \in Int
    BY DEF DateInv, DirDays, Inv, TypeOK, Days, NoDir
  <2>4. ~Old(id)
    BY <2>3 DEF Old
  <2>5. rows'[s] = rows[s]
    BY <2>2, <2>4 DEF CompactDone
  <2> QED
    BY <2>2, <2>5 DEF RowsOf, Live
<1> QED
  BY <1>3, <1>4 DEF DateInv

\* A result is written or touched today, under an id that is not from the
\* future.
LEMMA TouchKeepsDates ==
  ASSUME TypeOK, DateInv, NEW id \in Ids, id.day <= today,
         id.by = "fw" /\ id.day = today /\ ~sd => RowsOf(id) # {},
         dirs' = [dirs EXCEPT ![id] = today],
         UNCHANGED <<rows, today, sd>>
  PROVE  DateInv'
<1>1. Live' = Live /\ \A k : RowsOf(k)' = RowsOf(k)
  BY DEF Live, RowsOf
<1>2. \A k \in Ids : dirs'[k] = IF k = id THEN today ELSE dirs[k]
  BY DEF TypeOK
<1>3. today \in Nat
  BY DEF TypeOK, Days
<1>4. RowDays' /\ DirDays'
  BY <1>1, <1>2, <1>3 DEF DateInv, RowDays, DirDays
<1>5. TodaysRowKept'
  BY <1>1, <1>2 DEF DateInv, TodaysRowKept
<1> QED
  BY <1>4, <1>5 DEF DateInv

LEMMA NextDates == Inv /\ DateInv /\ [Next]_vars => DateInv'
<1> SUFFICES ASSUME Inv, DateInv, [Next]_vars PROVE DateInv'
  OBVIOUS
<1>a. UNCHANGED sd
  BY DEF Next, vars
<1>b. TypeOK /\ Filled
  BY DEF Inv
<1>c. \A s \in Live : rows[s] \in Row /\ rows[s].id \in Ids
  BY <1>b DEF TypeOK, Live, Row
<1>1. CASE Enqueue
  <2>1. PICK n \in 1..MaxSeq :
          rows' = [rows EXCEPT ![appended + 1] =
                     [id |-> [day |-> today, by |-> "fw", seq |-> n],
                      status |-> "pending", attempts |-> 0]]
    BY <1>1 DEF Enqueue
  <2> DEFINE id == [day |-> today, by |-> "fw", seq |-> n]
  <2>2. id \in Ids /\ id.day = today
    BY <1>b DEF Ids, TypeOK
  <2>3. appended < MaxSlots /\ UNCHANGED <<today, dirs>>
    BY <1>1 DEF Enqueue
  <2> HIDE DEF id
  <2>4. rows' = [rows EXCEPT ![appended + 1] =
                   [id |-> id, status |-> "pending", attempts |-> 0]]
    BY <2>1 DEF id
  <2> QED
    BY <1>a, <1>b, <2>2, <2>3, <2>4, AppendKeepsDates
<1>2. CASE PlanAppend
  <2>1. PICK n \in 1..MaxSeq :
          LET id == [day |-> today, by |-> "br", seq |-> n]
          IN  IF garbage = "torn"
                THEN UNCHANGED rows
                ELSE rows' = [rows EXCEPT ![appended + 1] =
                                [id |-> id, status |-> "pending",
                                 attempts |-> 0]]
    BY <1>2 DEF PlanAppend
  <2> DEFINE id == [day |-> today, by |-> "br", seq |-> n]
  <2>2. id \in Ids /\ id.day = today
    BY <1>b DEF Ids, TypeOK
  <2>3. appended < MaxSlots /\ UNCHANGED <<today, dirs>>
    BY <1>2 DEF PlanAppend
  <2>4. CASE UNCHANGED rows
    BY <1>a, <2>3, <2>4, SameIdsKeepDates DEF Live
  <2>5. CASE garbage # "torn"
    <3> HIDE DEF id
    <3>1. rows' = [rows EXCEPT ![appended + 1] =
                     [id |-> id, status |-> "pending", attempts |-> 0]]
      BY <2>1, <2>5 DEF id
    <3> QED
      BY <1>a, <1>b, <2>2, <2>3, <3>1, AppendKeepsDates
  <2> QED
    BY <2>1, <2>4, <2>5
<1>3. ASSUME NEW id \in Ids,
             \/ MarkInFlight(id) \/ Retry(id)
             \/ MarkTerminal(id, "done") \/ MarkTerminal(id, "error")
      PROVE  DateInv'
  <2>1. \E status : Restatus(id, status)
    BY <1>b, <1>3, UpdateRestatus, RetryRestatus
       DEF MarkInFlight, MarkTerminal, Statuses
  <2>2. UNCHANGED <<today, dirs>>
    BY <1>3 DEF MarkInFlight, MarkTerminal, Retry
  <2> QED
    BY <1>a, <2>1, <2>2, RestatusKeepsDates
<1>4. CASE CompactDone
  BY <1>a, <1>4, CompactKeepsDates
<1>5. CASE LoseFile
  <2>1. sd /\ Live' = {} /\ UNCHANGED <<today, dirs>>
    BY <1>5 DEF LoseFile, Live
  <2> QED
    BY <1>a, <2>1 DEF DateInv, RowDays, DirDays, TodaysRowKept
<1>6. ASSUME NEW id \in Ids, Touch(id) PROVE DateInv'
  <2>1. dirs[id] # NoDir /\ dirs[id] \in Nat /\ id.day \in Nat /\ today \in Nat
    BY <1>b, <1>6, DatesAreNat DEF Touch, TypeOK, Days
  <2>2. id.day <= today
    BY <2>1 DEF DateInv, DirDays
  <2>3. id.by = "fw" /\ id.day = today /\ ~sd => RowsOf(id) # {}
    BY <2>1 DEF DateInv, TodaysRowKept
  <2> QED
    BY <1>a, <1>b, <1>6, <2>2, <2>3, TouchKeepsDates DEF Touch
<1>7. ASSUME NEW s \in Slots, TakeFirst(s) PROVE DateInv'
  <2>1. Restatus(rows[s].id, "in_flight") /\ UNCHANGED <<today, dirs>>
    BY <1>b, <1>7, UpdateRestatus DEF TakeFirst, Statuses
  <2> QED
    BY <1>a, <2>1, RestatusKeepsDates
<1>8. CASE PlanMark
  <2>1. UNCHANGED <<today, dirs>>
    BY <1>8 DEF PlanMark
  <2>2. CASE UNCHANGED rows
    BY <1>a, <2>1, <2>2, SameIdsKeepDates DEF Live
  <2>3. CASE Update(bridge.id, "in_flight", 0)
    <3>1. Restatus(bridge.id, "in_flight")
      BY <1>b, <2>3, UpdateRestatus DEF Statuses
    <3> QED
      BY <1>a, <2>1, <3>1, RestatusKeepsDates
  <2> QED
    BY <1>8, <2>2, <2>3 DEF PlanMark
<1>9. CASE WipeDir
  <2>1. UNCHANGED <<rows, today>> /\ \A k \in Ids : dirs'[k] \in {dirs[k], NoDir}
    BY <1>b, <1>9 DEF WipeDir, TypeOK
  <2>2. Live' = Live /\ \A k : RowsOf(k)' = RowsOf(k)
    BY <2>1 DEF Live, RowsOf
  <2> QED
    BY <1>a, <2>1, <2>2 DEF DateInv, RowDays, DirDays, TodaysRowKept
<1>10. CASE WriteDir
  <2>1. bridge.at = "run" /\ RowsOf(bridge.id) # {}
    BY <1>10 DEF WriteDir, Inv, AtWork
  <2>2. PICK s \in Live : rows[s].id = bridge.id
    BY <2>1 DEF RowsOf
  <2>3. bridge.id \in Ids /\ bridge.id.day <= today
    BY <1>c, <2>2 DEF DateInv, RowDays
  <2>4. dirs' = [dirs EXCEPT ![bridge.id] = today] /\ UNCHANGED <<rows, today>>
    BY <1>10 DEF WriteDir
  <2> QED
    BY <1>a, <1>b, <2>1, <2>3, <2>4, TouchKeepsDates
<1>11. CASE NextDay
  <2>1. today' = today + 1 /\ today \in Nat /\ UNCHANGED <<rows, dirs>>
    BY <1>b, <1>11 DEF NextDay, TypeOK, Days
  <2>2. Live' = Live
    BY <2>1 DEF Live
  <2>3. \A s \in Live : rows[s].id.day \in Nat
    BY <1>c DEF Ids, Days
  <2>4. \A id \in Ids : dirs[id] # NoDir => dirs[id] \in Nat /\ id.day \in Nat
    BY <1>b, DatesAreNat
  <2>5. RowDays' /\ DirDays'
    BY <2>1, <2>2, <2>3, <2>4 DEF DateInv, RowDays, DirDays
  <2>6. \A id \in Ids : dirs[id] # NoDir => id.day # today'
    BY <2>1, <2>4 DEF DateInv, DirDays
  <2>7. TodaysRowKept'
    BY <2>1, <2>6 DEF TodaysRowKept
  <2> QED
    BY <2>5, <2>7 DEF DateInv
<1>12. CASE PlanTorn \/ BridgeStops \/ UNCHANGED vars
  BY <1>a, <1>12, SameIdsKeepDates DEF PlanTorn, BridgeStops, vars, Live
<1> QED
  BY <1>1, <1>2, <1>3, <1>4, <1>5, <1>6, <1>7, <1>8, <1>9, <1>10, <1>11,
     <1>12 DEF Next, Firmware

LEMMA DatesHold == Spec => []DateInv
<1>1. Init => DateInv
  <2> SUFFICES ASSUME Init PROVE DateInv
    OBVIOUS
  <2>1. Live = {} /\ \A id \in Ids : dirs[id] = NoDir
    BY DEF Init, Live
  <2> QED
    BY <2>1 DEF DateInv, RowDays, DirDays, TodaysRowKept
<1> QED
  BY <1>1, NextDates, SpecInv, PTL DEF Spec

\* A row that a step adds under a firmware id meets no result.
FreshIsFree ==
    ~sd => \A s \in Live' \ Live :
             rows'[s].id.by = "fw" => dirs[rows'[s].id] = NoDir

LEMMA EnqueueIsFree ==
  ASSUME Inv, DateInv, Enqueue, ~sd, UNCHANGED sd, NEW s \in Live' \ Live
  PROVE  dirs[rows'[s].id] = NoDir
<1>1. PICK n \in 1..MaxSeq :
        /\ IsNextSeq(UsedToday, n)
        /\ rows' = [rows EXCEPT ![appended + 1] =
                      [id |-> [day |-> today, by |-> "fw", seq |-> n],
                       status |-> "pending", attempts |-> 0]]
  BY DEF Enqueue
<1> DEFINE id == [day |-> today, by |-> "fw", seq |-> n]
<1>2. id \in Ids /\ id.day = today /\ id.by = "fw" /\ id.seq = n
  BY DEF Ids, Inv, TypeOK
<1>3. appended < MaxSlots /\ UNCHANGED <<today, dirs>>
  BY DEF Enqueue
<1> HIDE DEF id
<1>4. rows' = [rows EXCEPT ![appended + 1] =
                 [id |-> id, status |-> "pending", attempts |-> 0]]
  BY <1>1 DEF id
<1>5. rows'[s].id = id
  BY <1>2, <1>3, <1>4, AppendKeepsDates DEF Inv
<1>6. n \notin UsedToday
  BY <1>1 DEF IsNextSeq
<1>7. RowsOf(id) = {}
  BY <1>2, <1>6 DEF RowsOf, UsedToday
<1> QED
  BY <1>2, <1>5, <1>7 DEF DateInv, TodaysRowKept

LEMMA OthersAddNone ==
  ASSUME Inv, [Next]_vars, ~Enqueue, NEW s \in Live' \ Live
  PROVE  rows'[s].id.by # "fw"
<1>1. CASE PlanAppend
  <2>1. PICK n \in 1..MaxSeq :
          LET id == [day |-> today, by |-> "br", seq |-> n]
          IN  IF garbage = "torn"
                THEN UNCHANGED rows
                ELSE rows' = [rows EXCEPT ![appended + 1] =
                                [id |-> id, status |-> "pending",
                                 attempts |-> 0]]
    BY <1>1 DEF PlanAppend
  <2> DEFINE id == [day |-> today, by |-> "br", seq |-> n]
  <2>2. id \in Ids /\ id.by = "br"
    BY DEF Ids, Inv, TypeOK
  <2>3. rows' # rows
    BY DEF Live
  <2> HIDE DEF id
  <2>4. rows' = [rows EXCEPT ![appended + 1] =
                   [id |-> id, status |-> "pending", attempts |-> 0]]
    BY <2>1, <2>3 DEF id
  <2>5. s \in Slots /\ rows'[s] # rows[s] /\ appended + 1 \in Slots
    BY <1>1, OutboxAssumption DEF Live, PlanAppend, Inv, TypeOK, Slots
  <2>6. rows'[s].id = id
    BY <2>4, <2>5 DEF Inv, TypeOK
  <2> QED
    BY <2>2, <2>6
<1>2. CASE ~PlanAppend
  <2>1. \E k, status : Restatus(k, status)
        \/ \A t \in Slots : rows'[t] \in {rows[t], NoRow}
    <3>1. CASE CompactDone \/ LoseFile
      BY <3>1 DEF CompactDone, LoseFile
    <3>2. ASSUME NEW id, MarkInFlight(id) \/ Retry(id)
                 \/ MarkTerminal(id, "done") \/ MarkTerminal(id, "error")
          PROVE  \E status : Restatus(id, status)
      BY <3>2, UpdateRestatus, RetryRestatus
         DEF Inv, MarkInFlight, MarkTerminal, Statuses
    <3>3. ASSUME NEW t \in Slots, TakeFirst(t)
          PROVE  Restatus(rows[t].id, "in_flight")
      BY <3>3, UpdateRestatus DEF Inv, TakeFirst, Statuses
    <3>4. CASE PlanMark
      BY <3>4, UpdateRestatus DEF Inv, PlanMark, Statuses
    <3>5. CASE rows' = rows
      BY <3>5
    <3>6. ASSUME NEW id, Touch(id) PROVE rows' = rows
      BY <3>6 DEF Touch
    <3>7. CASE PlanTorn \/ WipeDir \/ WriteDir \/ BridgeStops \/ NextDay
               \/ UNCHANGED vars
      BY <3>5, <3>7 DEF PlanTorn, WipeDir, WriteDir, BridgeStops, NextDay, vars
    <3> QED
      BY <1>2, <3>1, <3>2, <3>3, <3>4, <3>5, <3>6, <3>7 DEF Next, Firmware
  <2> QED
    BY <2>1 DEF Restatus, Live
<1> QED
  BY <1>1, <1>2

\* On a storage that knows mtimes a new firmware id never meets a result
\* directory of an earlier request (generate_request_id, compact_done).
THEOREM FreshIdHasNoResultsTheorem == Spec => FreshIdHasNoResults
<1>1. ASSUME Inv, DateInv, [Next]_vars PROVE [FreshIsFree]_vars
  <2>1. UNCHANGED sd
    BY <1>1 DEF Next, vars
  <2> QED
    BY <1>1, <2>1, EnqueueIsFree, OthersAddNone DEF FreshIsFree
<1> QED
  BY <1>1, SpecInv, DatesHold, PTL DEF Spec, FreshIdHasNoResults, FreshIsFree
=============================================================================
