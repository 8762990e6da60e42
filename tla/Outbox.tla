-------------------------------- MODULE Outbox --------------------------------
(***************************************************************************)
(* outbox/pending.jsonl, written by two programs: the firmware's           *)
(* OutboxQueue, and the bridge's queue.py with the two commands that use   *)
(* it, run-once and plan.  They never run at once (single-writer rule),    *)
(* but the bridge can be cut short between any two of its steps.           *)
(*                                                                         *)
(* A row is its place in the order of queueing (a slot), so a rewrite that *)
(* drops rows leaves holes.  A time unit is more than the seven days of    *)
(* the compaction threshold; a request id is its day, its maker and its    *)
(* sequence number: the firmware pads the number to six digits and the     *)
(* bridge to three, so equal numbers still give different ids.             *)
(***************************************************************************)
EXTENDS Integers

CONSTANTS MaxSlots,  \* bound on the requests ever queued
          MaxSeq,    \* the firmware's 999999
          MaxDay,    \* bound on the time explored
          NoRow      \* no row in this slot

ASSUME OutboxAssumption ==
    /\ MaxSlots \in Nat
    /\ MaxSeq \in Nat \ {0}
    /\ MaxDay \in Nat

VARIABLES rows,      \* the lines of pending.jsonl that parse
          garbage,   \* the lines that do not: "torn" when the last one lacks
                     \* its end, "bad" when all are complete lines
          appended,  \* rows ever appended
          today,     \* the date both clocks show
          dirs,      \* outbox/results/: when each <id>/ was last modified
          bridge,    \* the bridge command in progress
          sd         \* TRUE: the firmware runs on the SD backend, which
                     \* knows no mtimes and whose write_file is not atomic

vars == <<rows, garbage, appended, today, dirs, bridge, sd>>

Slots == 1..MaxSlots
Days == 0..MaxDay
Ids == [day : Days, by : {"fw", "br"}, seq : 1..MaxSeq]
Statuses == {"pending", "in_flight", "done", "error"}
Row == [id : Ids, status : Statuses, attempts : Nat]
NoDir == -1

\* at: "mark", plan has appended its row; "run", run_for_request is at work.
BridgeIdle == [at |-> "idle"]

ASSUME RowAssumption == NoRow \notin Row

TypeOK ==
    /\ rows \in [Slots -> Row \cup {NoRow}]
    /\ garbage \in {"none", "torn", "bad"}
    /\ appended \in 0..MaxSlots
    /\ today \in Days
    /\ dirs \in [Ids -> Days \cup {NoDir}]
    /\ bridge \in [at : {"mark", "run"}, id : Ids] \cup {BridgeIdle}
    /\ sd \in BOOLEAN

Init ==
    /\ rows = [s \in Slots |-> NoRow]
    /\ garbage = "none"
    /\ appended = 0
    /\ today = 0
    /\ dirs = [id \in Ids |-> NoDir]
    /\ bridge = BridgeIdle
    /\ sd \in BOOLEAN

-----------------------------------------------------------------------------
(* The file.                                                               *)

Live == {s \in Slots : rows[s] # NoRow}
RowsOf(id) == {s \in Live : rows[s].id = id}

With(row, status, attempts) ==
    [row EXCEPT !.status = status, !.attempts = attempts]

\* The rows with this id get a new status, and their attempts go up.
Update(id, status, more) ==
    rows' = [s \in Slots |->
               IF s \in RowsOf(id)
                 THEN With(rows[s], status, rows[s].attempts + more)
                 ELSE rows[s]]

IsNextSeq(used, n) ==
    /\ \A k \in used : k < n
    /\ n = 1 \/ n - 1 \in used

-----------------------------------------------------------------------------
(* OutboxQueue, between two bridge commands.  Whatever it writes, the      *)
(* lines that do not parse are gone.                                       *)

\* A bug UsedToday could have: done rows are not looked at.
UsedByUnfinished ==
    {rows[s].id.seq : s \in {t \in Live : /\ rows[t].id.day = today
                                          /\ rows[t].status # "done"}}

UsedToday == {rows[s].id.seq : s \in {t \in Live : rows[t].id.day = today}}

\* A bug Enqueue could have: the cap is off by one.
EnqueuePastCap ==
    /\ appended < MaxSlots
    /\ \E n \in 1..(MaxSeq + 1) :
         /\ IsNextSeq(UsedToday, n)
         /\ rows' = [rows EXCEPT ![appended + 1] =
                       [id |-> [day |-> today, by |-> "fw", seq |-> n],
                        status |-> "pending", attempts |-> 0]]
    /\ appended' = appended + 1
    /\ garbage' = "none"
    /\ UNCHANGED <<today, dirs, bridge>>

\* At the cap enqueue is an error and writes nothing.
Enqueue ==
    /\ appended < MaxSlots
    /\ \E n \in 1..MaxSeq :
         /\ IsNextSeq(UsedToday, n)
         /\ rows' = [rows EXCEPT ![appended + 1] =
                       [id |-> [day |-> today, by |-> "fw", seq |-> n],
                        status |-> "pending", attempts |-> 0]]
    /\ appended' = appended + 1
    /\ garbage' = "none"
    /\ UNCHANGED <<today, dirs, bridge>>

MarkInFlight(id) ==
    /\ RowsOf(id) # {}
    /\ Update(id, "in_flight", 0)
    /\ garbage' = "none"
    /\ UNCHANGED <<appended, today, dirs, bridge>>

MarkTerminal(id, final) ==
    /\ RowsOf(id) # {}
    /\ Update(id, final, IF final = "error" THEN 1 ELSE 0)
    /\ garbage' = "none"
    /\ UNCHANGED <<appended, today, dirs, bridge>>

\* A bug Retry could have: a row in flight is queued again.
RetryAnyStatus(id) ==
    /\ RowsOf(id) # {}
    /\ Update(id, "pending", 0)
    /\ garbage' = "none"
    /\ UNCHANGED <<appended, today, dirs, bridge>>

Retry(id) ==
    /\ RowsOf(id) # {}
    /\ \A s \in RowsOf(id) : rows[s].status \in {"done", "error"}
    /\ rows' = [s \in Slots |->
                  IF s \in RowsOf(id)
                    THEN With(rows[s], "pending", 0)
                    ELSE rows[s]]
    /\ garbage' = "none"
    /\ UNCHANGED <<appended, today, dirs, bridge>>

\* A bug Old could have: every result counts as old.
OldIgnoresMtime(id) == TRUE

\* An mtime that does not parse counts as old; the SD backend's never does.
Old(id) == dirs[id] = NoDir \/ sd \/ dirs[id] < today

CompactDone ==
    /\ rows' = [s \in Slots |->
                  IF s \in Live /\ rows[s].status = "done" /\ Old(rows[s].id)
                    THEN NoRow
                    ELSE rows[s]]
    /\ garbage' = "none"
    /\ UNCHANGED <<appended, today, dirs, bridge>>

\* Importing, staging and accepting move files out of results/<id>/.
Touch(id) ==
    /\ dirs[id] # NoDir
    /\ dirs' = [dirs EXCEPT ![id] = today]
    /\ UNCHANGED <<rows, garbage, appended, today, bridge>>

\* SdStorage::write_file, cut between the removal and the rename.
LoseFile ==
    /\ sd
    /\ Live # {}
    /\ rows' = [s \in Slots |-> NoRow]
    /\ garbage' = "none"
    /\ UNCHANGED <<appended, today, dirs, bridge>>

-----------------------------------------------------------------------------
(* The bridge.  Every command but the append parses the whole file first   *)
(* and raises if a line is malformed.                                      *)

TakeFirst(s) ==
    /\ garbage = "none"
    /\ s \in Live
    /\ rows[s].status = "pending"
    /\ \A t \in Live : rows[t].status = "pending" => s <= t
    /\ Update(rows[s].id, "in_flight", 1)
    /\ bridge' = [at |-> "run", id |-> rows[s].id]
    /\ UNCHANGED <<garbage, appended, today, dirs>>

\* make_request_id: ids in the file are followed by a quote, so only the
\* names of the result directories count.
DirsToday == {id.seq : id \in {k \in Ids : dirs[k] # NoDir /\ k.day = today}}

\* The line is appended in place.  Behind a line that lacks its end it only
\* makes that line longer.
PlanAppend ==
    /\ appended < MaxSlots
    /\ \E n \in 1..MaxSeq :
         /\ IsNextSeq(DirsToday, n)
         /\ LET id == [day |-> today, by |-> "br", seq |-> n]
            IN  /\ bridge' = [at |-> "mark", id |-> id]
                /\ IF garbage = "torn"
                     THEN /\ garbage' = "bad"
                          /\ UNCHANGED <<rows, appended>>
                     ELSE /\ rows' = [rows EXCEPT ![appended + 1] =
                                        [id |-> id, status |-> "pending",
                                         attempts |-> 0]]
                          /\ appended' = appended + 1
                          /\ UNCHANGED garbage
    /\ UNCHANGED <<today, dirs>>

\* The append is cut short.
PlanTorn ==
    /\ garbage' = "torn"
    /\ UNCHANGED <<rows, appended, today, dirs, bridge>>

PlanMark ==
    /\ bridge.at = "mark"
    /\ IF garbage = "none"
         THEN /\ Update(bridge.id, "in_flight", 0)
              /\ bridge' = [bridge EXCEPT !.at = "run"]
         ELSE /\ bridge' = BridgeIdle
              /\ UNCHANGED rows
    /\ UNCHANGED <<garbage, appended, today, dirs>>

\* run_for_request wipes what an earlier run left, then writes.
WipeDir ==
    /\ bridge.at = "run"
    /\ dirs[bridge.id] # NoDir
    /\ dirs' = [dirs EXCEPT ![bridge.id] = NoDir]
    /\ UNCHANGED <<rows, garbage, appended, today, bridge>>

\* The artifacts and the manifest, or the error manifest alone.
WriteDir ==
    /\ bridge.at = "run"
    /\ dirs' = [dirs EXCEPT ![bridge.id] = today]
    /\ bridge' = BridgeIdle
    /\ UNCHANGED <<rows, garbage, appended, today>>

\* It raises, is killed or loses power: the row stays as it is.
BridgeStops ==
    /\ bridge # BridgeIdle
    /\ bridge' = BridgeIdle
    /\ UNCHANGED <<rows, garbage, appended, today, dirs>>

NextDay ==
    /\ today < MaxDay
    /\ today' = today + 1
    /\ UNCHANGED <<rows, garbage, appended, dirs, bridge>>

-----------------------------------------------------------------------------
Awaiting(id) == \E s \in RowsOf(id) : rows[s].status = "pending"
InFlight(id) == \E s \in RowsOf(id) : rows[s].status = "in_flight"

\* The importer ends a request that is in flight and has a result.
Imported(id) == InFlight(id) /\ dirs[id] # NoDir

Firmware ==
    \/ Enqueue \/ CompactDone \/ LoseFile
    \/ \E id \in Ids :
         \/ Retry(id) \/ Touch(id)
         \/ Awaiting(id) /\ MarkInFlight(id)
         \/ Imported(id) /\ \E final \in {"done", "error"} :
                              MarkTerminal(id, final)

Next ==
    /\ \/ bridge = BridgeIdle /\ ( \/ Firmware
                                   \/ PlanAppend \/ PlanTorn
                                   \/ \E s \in Slots : TakeFirst(s) )
       \/ PlanMark \/ WipeDir \/ WriteDir \/ BridgeStops
       \/ NextDay
    /\ UNCHANGED sd

Spec == Init /\ [][Next]_vars

-----------------------------------------------------------------------------
(***************************************************************************)
(* No two rows carry the same firmware id, whatever was retried, compacted *)
(* or cut short, and however the bridge's own ids advance in between.      *)
(***************************************************************************)
FwIdsUnique ==
    \A s, t \in Live : rows[s].id = rows[t].id /\ rows[s].id.by = "fw"
                         => s = t

(***************************************************************************)
(* With file mtimes and a clock that only moves forward, a new request of  *)
(* the firmware never gets the id of an existing result directory, whose   *)
(* result the importer would take for its own: generate_request_id looks   *)
(* at the rows only, and compact_done drops rows.  It does not hold on the *)
(* SD backend, which knows no mtimes: compact_done drops a row there as    *)
(* soon as it is done.                                                     *)
(***************************************************************************)
FreshIdHasNoResults ==
    [][~sd => \A s \in Live' \ Live :
                rows'[s].id.by = "fw" => dirs[rows'[s].id] = NoDir]_vars

-----------------------------------------------------------------------------
(* A slot that was filled and is empty was dropped.                        *)
StageOf == [s \in Slots |-> IF s \in Live THEN rows[s].status
                            ELSE IF s <= appended THEN "dropped"
                            ELSE "absent"]

Promised == INSTANCE Lifecycle WITH
              stage <- StageOf, queued <- appended, lossy <- sd

(***************************************************************************)
(* The two programs together keep the lifecycle of PHASE-2-INTERFACES 4.1, *)
(* although every update goes by id and ids of the bridge can be shared by *)
(* several rows: no row leaves the file before it is done, none is worked  *)
(* on twice without being queued again, none is put back while in flight.  *)
(* All that the SD backend adds is that all rows can go at once.           *)
(***************************************************************************)
ImplementsLifecycle == Promised!Spec
=============================================================================
