------------------------------ MODULE Pipeline ------------------------------
(***************************************************************************)
(* A request from end to end: the status of its row in pending.jsonl, the  *)
(* bridge's commands, the import that stages a result and marks the row,   *)
(* and the user's review.  It composes Staging with the queue and replaces *)
(* Staging's arbitrary bridge runs by run-once and plan.                   *)
(*                                                                         *)
(* The firmware routine that calls stage_only and then mark_terminal is    *)
(* not in the repository (stage_only names it as its caller, route_sync,   *)
(* and the lifecycle in PHASE-2-INTERFACES 4.1 gives its steps).  Firmware *)
(* and bridge take turns on the card, and row writes are atomic            *)
(* (WriteFile), so a bridge run is one step here.                          *)
(***************************************************************************)
EXTENDS Staging, FiniteSets

CONSTANT BridgeFaults  \* which of "error" (a BridgeError), "other" (another
                       \* exception) and "killed" a bridge run may meet

ASSUME PipelineAssumption ==
    /\ Ids \subseteq Int
    /\ BridgeFaults \subseteq {"error", "other", "killed"}

VARIABLES row,         \* the status of each id's row in pending.jsonl
          importing,   \* the request stage_only was called for
          seen         \* history: the runs whose artifacts the user was shown

pipelineVars == <<row, importing, seen>>
allVars == <<vars, pipelineVars>>

Status == {"none", "pending", "in_flight", "done", "error"}

PipelineTypeOK ==
    /\ TypeOK
    /\ row \in [Ids -> Status]
    /\ importing \in Ids \cup {NoId}
    /\ seen \subseteq Content

PipelineInit ==
    /\ Init
    /\ row = [id \in Ids |-> "none"]
    /\ importing = NoId
    /\ seen = {}

SetRow(id, status) == row' = [row EXCEPT ![id] = status]

\* Neither the import nor a review is at work.
FirmwareIdle == op.kind = "idle" /\ importing = NoId

-----------------------------------------------------------------------------
(* The queue.  Ids are given out in order; Room bounds the bridge runs.    *)

Waiting == {id \in Ids : row[id] = "pending"}
Room == runs + Cardinality(Waiting) < MaxRuns
NextNew(id) == row[id] = "none" /\ \A j \in Ids : j < id => row[j] # "none"
FirstPending(id) == row[id] = "pending" /\ \A j \in Waiting : id <= j

Submit(id) ==
    /\ FirmwareIdle /\ Room /\ NextNew(id)
    /\ SetRow(id, "pending")
    /\ UNCHANGED <<vars, importing, seen>>

\* A bug Retry could have: a done row can be queued again.
RetryDone(id) ==
    /\ FirmwareIdle /\ Room
    /\ row[id] \in {"done", "error"}
    /\ SetRow(id, "pending")
    /\ UNCHANGED <<vars, importing, seen>>

Retry(id) ==
    /\ FirmwareIdle /\ Room
    /\ row[id] = "error"
    /\ SetRow(id, "pending")
    /\ UNCHANGED <<vars, importing, seen>>

-----------------------------------------------------------------------------
(* The bridge.                                                             *)

Leaves(id, outcomes) ==
    /\ runs < MaxRuns
    /\ runs' = runs + 1
    /\ \E d \in outcomes : results' = [results EXCEPT ![id] = d]
    /\ SetRow(id, "in_flight")
    /\ UNCHANGED <<staging, rejected, project, op, reached, importing, seen>>

RunOnce(id) ==
    /\ FirmwareIdle /\ FirstPending(id)
    /\ \/ Leaves(id, {Whole(runs + 1)})
       \/ "error" \in BridgeFaults
            /\ Leaves(id, {[results[id] EXCEPT !.manifest = "error"]})
       \/ "other" \in BridgeFaults
            /\ Leaves(id, {results[id]} \cup Wiped(results[id])
                            \cup Cut(runs + 1))
       \/ "killed" \in BridgeFaults
            /\ Leaves(id, Outcomes(results[id], runs + 1))

\* plan enqueues and runs at once; it writes no error manifest.
Plan(id) ==
    /\ FirmwareIdle /\ Room /\ NextNew(id)
    /\ \/ Leaves(id, {Whole(runs + 1)})
       \/ "error" \in BridgeFaults /\ Leaves(id, {results[id]})
       \/ BridgeFaults \cap {"other", "killed"} # {}
            /\ Leaves(id, {results[id]} \cup Cut(runs + 1))

-----------------------------------------------------------------------------
(* The import: stage_only, then mark_terminal with what it returned.  The  *)
(* row is there and its slug is valid: the import goes by the row.         *)

\* A bug Import could have: the status of the row is not looked at.
ImportAnyRow(id) ==
    /\ FirmwareIdle
    /\ row[id] # "none"
    /\ Staged(id)
    /\ importing' = id
    /\ UNCHANGED <<row, seen>>

\* A bug Import could have: error manifests are passed over.
ImportOnlySuccess(id) ==
    /\ FirmwareIdle
    /\ row[id] = "in_flight"
    /\ results[id].manifest = "ok"
    /\ Staged(id)
    /\ importing' = id
    /\ UNCHANGED <<row, seen>>

Import(id) ==
    /\ FirmwareIdle
    /\ row[id] = "in_flight"
    /\ Staged(id)
    /\ importing' = id
    /\ UNCHANGED <<row, seen>>

\* A bug MarkTerminal could have: what stage_only returned is not looked at.
MarkAlwaysDone ==
    /\ importing # NoId
    /\ op.kind = "idle"
    /\ SetRow(importing, "done")
    /\ importing' = NoId
    /\ UNCHANGED <<vars, seen>>

MarkTerminal ==
    /\ importing # NoId
    /\ op.kind = "idle"
    /\ SetRow(importing, IF op.out = "ok" THEN "done" ELSE "error")
    /\ importing' = NoId
    /\ UNCHANGED <<vars, seen>>

\* mark_terminal fails, or power goes, after stage_only has returned.
MarkLost ==
    /\ Faults # {}
    /\ importing # NoId
    /\ op.kind = "idle"
    /\ importing' = NoId
    /\ UNCHANGED <<vars, row, seen>>

-----------------------------------------------------------------------------
(* The user, on the review screen.                                         *)

\* A bug Review could have: decided entries are offered, too.
ReviewAny(id) ==
    /\ FirmwareIdle
    /\ staging[id].meta # "none"
    /\ Accept(id) \/ Reject(id)
    /\ seen' = seen \cup ({staging[id].art[a] : a \in Artifacts} \ {Missing})
    /\ UNCHANGED <<row, importing>>

Review(id) ==
    /\ FirmwareIdle
    /\ Pending(id)
    /\ Accept(id) \/ Reject(id)
    /\ seen' = seen \cup ({staging[id].art[a] : a \in Artifacts} \ {Missing})
    /\ UNCHANGED <<row, importing>>

\* The steps of a call.  A power cut also ends the import around it.
CallStep ==
    /\ Step
    /\ importing' = IF op'.out = "crash" THEN NoId ELSE importing
    /\ UNCHANGED <<row, seen>>

PipelineNext ==
    /\ \/ \E id \in Ids : \/ Submit(id) \/ Retry(id)
                          \/ RunOnce(id) \/ Plan(id)
                          \/ Import(id) \/ Review(id)
       \/ MarkTerminal \/ MarkLost \/ CallStep
    /\ UNCHANGED moves

PipelineSpec == PipelineInit /\ [][PipelineNext]_allVars

\* run-once is invoked again and again, the firmware polls for results and
\* marks their rows, and a call that was begun goes on.
Fairness ==
    /\ \A id \in Ids : /\ WF_allVars(RunOnce(id) /\ UNCHANGED moves)
                       /\ WF_allVars(Import(id) /\ UNCHANGED moves)
    /\ WF_allVars(MarkTerminal)
    /\ WF_allVars(CallStep /\ UNCHANGED moves)

FairSpec == PipelineSpec /\ Fairness

-----------------------------------------------------------------------------
(***************************************************************************)
(* The composition only does what Staging allows, so that what holds there *)
(* holds end to end: each command of the bridge leaves one of its outcomes *)
(* in results/<id>/, and never while a review or an import is in progress. *)
(***************************************************************************)
ImplementsStaging == Spec

(***************************************************************************)
(* A row is only ever marked done over an entry that can be reviewed or    *)
(* has been: whatever fails between the copy of a result, its meta.json    *)
(* and mark_terminal, done is not reported for a result that would never   *)
(* be offered.                                                             *)
(***************************************************************************)
DoneIsReviewable ==
    \A id \in Ids : row[id] = "done" => staging[id].meta # "none"

(***************************************************************************)
(* The review gate (PHASE-2-INTERFACES 6, "Generated AI output must be     *)
(* reviewable before acceptance"): what the project folder holds was shown *)
(* to the user before.                                                     *)
(***************************************************************************)
OnlyReviewedReachesProject ==
    \A p \in Projects, a \in Artifacts : project[p][a] \in seen \cup {Missing}

(***************************************************************************)
(* accept and reject write what staging_queue.cpp calls a terminal         *)
(* meta.json: an entry the user decided on is not offered again, since a   *)
(* row with a complete run is neither run nor imported a second time.  A   *)
(* call that fails or is cut short can break that.                         *)
(***************************************************************************)
ReviewIsFinal ==
    [][\A id \in Ids : staging[id].meta \in {"accepted", "rejected"}
                         => staging'[id].meta # "pending"]_allVars

(***************************************************************************)
(* Every request run-once can see is brought to an end, and so can be      *)
(* reviewed or retried (PHASE-2-INTERFACES 4.1, steps 2 to 6).             *)
(***************************************************************************)
EveryRequestSettles ==
    \A id \in Ids : row[id] = "pending" ~> row[id] \in {"done", "error"}
=============================================================================
