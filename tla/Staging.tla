------------------------------- MODULE Staging -------------------------------
(***************************************************************************)
(* The review gate of the firmware: BridgeImport::stage_only takes what    *)
(* the bridge left in outbox/results/<id>/, StagingQueue::stage moves it   *)
(* to outbox/staging/<id>/, and the user accepts it into the project       *)
(* folder or rejects it into outbox/rejected/<id>/.                        *)
(*                                                                         *)
(* Each write and each removal of a file is a step of its own, so that a   *)
(* failed write or a power cut can fall between any two.                   *)
(***************************************************************************)
EXTENDS ResultDir

CONSTANTS Ids,           \* request ids
          Projects,      \* project slugs
          ProjectOf,     \* the slug of each id's row in pending.jsonl
          Builds,        \* which values of moves are explored
          Faults,        \* which of "write" and "crash" may happen
          NoId           \* no request

ASSUME StagingAssumption ==
    /\ ProjectOf \in [Ids -> Projects]
    /\ Builds \subseteq BOOLEAN
    /\ Faults \subseteq {"write", "crash"}
    /\ NoId \notin Ids

VARIABLES results,   \* outbox/results/<id>/
          staging,   \* outbox/staging/<id>/
          rejected,  \* outbox/rejected/<id>/
          project,   \* projects/<slug>/
          op,        \* the StagingQueue call in progress
          runs,      \* bridge runs so far
          reached,   \* history: the newest content of each artifact of a
                     \* request that accept has put into its project folder
          moves      \* TRUE on the host build; FALSE on firmware, where a
                     \* move is a copy (IStorage has no remove) and
                     \* write_file is not atomic (WriteFile)

vars == <<results, staging, rejected, project, op, runs, reached, moves>>

Entry == [meta : {"none", "pending", "accepted", "rejected"}, art : Artset]

\* pass: the directory being emptied; at: copy the body, drop the source, or
\* mark the staging entry rejected; shown: what the user saw when deciding.
Call == [kind : {"idle", "stage", "accept", "reject"}, id : Ids \cup {NoId},
         pass : {"results", "staging"}, i : 1..(NumArtifacts + 1),
         at : {"copy", "drop", "mark"}, shown : Artset,
         out : {"none", "ok", "err", "crash"}]

TypeOK ==
    /\ results \in [Ids -> Dir]
    /\ staging \in [Ids -> Entry]
    /\ rejected \in [Ids -> Entry]
    /\ project \in [Projects -> Artset]
    /\ op \in Call
    /\ op.kind # "idle" => op.id \in Ids
    /\ runs \in Content
    /\ reached \in [Ids -> Artset]
    /\ moves \in Builds

Idle(outcome) ==
    [kind |-> "idle", id |-> NoId, pass |-> "staging", i |-> 1, at |-> "copy",
     shown |-> NoArtifacts, out |-> outcome]

Init ==
    /\ results = [id \in Ids |-> NoDir]
    /\ staging = [id \in Ids |-> [meta |-> "none", art |-> NoArtifacts]]
    /\ rejected = [id \in Ids |-> [meta |-> "none", art |-> NoArtifacts]]
    /\ project = [p \in Projects |-> NoArtifacts]
    /\ op = Idle("none")
    /\ runs = 0
    /\ reached = [id \in Ids |-> NoArtifacts]
    /\ moves \in Builds

-----------------------------------------------------------------------------
(* The calls.                                                              *)

Begin(kind, id, pass) ==
    op' = [kind |-> kind, id |-> id, pass |-> pass, i |-> 1, at |-> "copy",
           shown |-> staging[id].art, out |-> "none"]

\* stage_only: an error manifest, or one that does not parse, is an error.
Staged(id) ==
    /\ op.kind = "idle"
    /\ results[id].manifest # "none"
    /\ IF results[id].manifest = "ok"
         THEN Begin("stage", id, "results")
         ELSE op' = Idle("err")
    /\ UNCHANGED <<results, staging, rejected, project, runs, reached>>

\* So is a result whose id has no row in pending.jsonl, or whose row has a
\* slug that is not valid; here either may be so at any call.
NoRowOrBadSlug(id) ==
    /\ op.kind = "idle"
    /\ results[id].manifest # "none"
    /\ op' = Idle("err")
    /\ UNCHANGED <<results, staging, rejected, project, runs, reached>>

StageOnly(id) == Staged(id) \/ NoRowOrBadSlug(id)

\* An entry of list_pending(), the only ones the review screen offers.
Pending(id) == staging[id].meta = "pending"

Accept(id) ==
    /\ op.kind = "idle"
    /\ staging[id].meta # "none"
    /\ Begin("accept", id, "staging")
    /\ UNCHANGED <<results, staging, rejected, project, runs, reached>>

Reject(id) ==
    /\ op.kind = "idle"
    /\ Begin("reject", id, "staging")
    /\ UNCHANGED <<results, staging, rejected, project, runs, reached>>

-----------------------------------------------------------------------------
(* move_file_via_storage, in the loops of stage, accept and reject.        *)

Moving == op.kind # "idle" /\ op.i \in Artifacts

Source == IF op.pass = "results" THEN results[op.id].art
                                 ELSE staging[op.id].art

NextArtifact == [op EXCEPT !.i = op.i + 1, !.at = "copy"]

MoveSkip ==
    /\ Moving
    /\ op.at = "copy"
    /\ Source[op.i] = Missing
    /\ op' = NextArtifact
    /\ UNCHANGED <<results, staging, rejected, project, runs, reached>>

Newer(a, b) == IF a > b THEN a ELSE b

CopyTo(body) ==
    \/ /\ op.kind = "stage"
       /\ staging' = [staging EXCEPT ![op.id].art[op.i] = body]
       /\ UNCHANGED <<rejected, project, reached>>
    \/ /\ op.kind = "accept"
       /\ project' = [project EXCEPT ![ProjectOf[op.id]][op.i] = body]
       /\ reached' = [reached EXCEPT ![op.id][op.i] = Newer(@, body)]
       /\ UNCHANGED <<staging, rejected>>
    \/ /\ op.kind = "reject"
       /\ rejected' = [rejected EXCEPT ![op.id].art[op.i] = body]
       /\ UNCHANGED <<staging, project, reached>>

\* A bug MoveCopy could have: the source is removed after a failed write.
MoveErrorIgnored ==
    /\ Moving
    /\ op.at = "copy"
    /\ Source[op.i] # Missing
    /\ CopyTo(Source[op.i]) \/ UNCHANGED <<staging, rejected, project, reached>>
    /\ op' = IF moves THEN [op EXCEPT !.at = "drop"] ELSE NextArtifact
    /\ UNCHANGED <<results, runs>>

MoveCopy ==
    /\ Moving
    /\ op.at = "copy"
    /\ Source[op.i] # Missing
    /\ CopyTo(Source[op.i])
    /\ op' = IF moves THEN [op EXCEPT !.at = "drop"] ELSE NextArtifact
    /\ UNCHANGED <<results, runs>>

DropSource ==
    \/ /\ op.pass = "results"
       /\ results' = [results EXCEPT ![op.id].art[op.i] = Missing]
       /\ UNCHANGED staging
    \/ /\ op.pass = "staging"
       /\ staging' = [staging EXCEPT ![op.id].art[op.i] = Missing]
       /\ UNCHANGED results

\* fs::remove may fail: its error code is not looked at.
MoveDrop ==
    /\ Moving
    /\ op.at = "drop"
    /\ DropSource \/ UNCHANGED <<results, staging>>
    /\ op' = NextArtifact
    /\ UNCHANGED <<rejected, project, runs, reached>>

-----------------------------------------------------------------------------
(* The end of each call: meta.json is written last.                        *)

LoopDone(kind) == op.kind = kind /\ op.i = NumArtifacts + 1 /\ op.at = "copy"

StageMeta ==
    /\ LoopDone("stage")
    /\ staging' = [staging EXCEPT ![op.id].meta = "pending"]
    /\ op' = Idle("ok")
    /\ UNCHANGED <<results, rejected, project, runs, reached>>

\* accept empties results/<id>/ after staging/<id>/.
AcceptResults ==
    /\ LoopDone("accept")
    /\ op.pass = "staging"
    /\ op' = [op EXCEPT !.pass = "results", !.i = 1]
    /\ UNCHANGED <<results, staging, rejected, project, runs, reached>>

AcceptMeta ==
    /\ LoopDone("accept")
    /\ op.pass = "results"
    /\ staging' = [staging EXCEPT ![op.id].meta = "accepted"]
    /\ op' = Idle("ok")
    /\ UNCHANGED <<results, rejected, project, runs, reached>>

RejectMeta ==
    /\ LoopDone("reject")
    /\ rejected' = [rejected EXCEPT ![op.id].meta = "rejected"]
    /\ op' = [op EXCEPT !.at = "mark"]
    /\ UNCHANGED <<results, staging, project, runs, reached>>

RejectMark ==
    /\ op.kind = "reject"
    /\ op.at = "mark"
    /\ staging' = [staging EXCEPT ![op.id].meta = "rejected"]
    /\ op' = Idle("ok")
    /\ UNCHANGED <<results, rejected, project, runs, reached>>

\* The next thing the call does is a write_file.
WriteDue ==
    \/ Moving /\ op.at = "copy" /\ Source[op.i] # Missing
    \/ LoopDone("stage") \/ LoopDone("reject")
    \/ LoopDone("accept") /\ op.pass = "results"
    \/ op.kind = "reject" /\ op.at = "mark"

\* A bug WriteFails could have: the loops go on to the next name.
WriteErrorSkipped ==
    /\ "write" \in Faults
    /\ Moving /\ op.at = "copy" /\ Source[op.i] # Missing
    /\ op' = NextArtifact
    /\ UNCHANGED <<results, staging, rejected, project, runs, reached>>

\* Every write error is returned at once; what was moved stays moved.
WriteFails ==
    /\ "write" \in Faults
    /\ WriteDue
    /\ op' = Idle("err")
    /\ UNCHANGED <<results, staging, rejected, project, runs, reached>>

\* SdStorage::write_file removes the old file before it renames the new one:
\* when the rename fails, or power goes, there is neither.
SdWriteLoses ==
    /\ ~moves
    /\ WriteDue
    /\ \/ Moving /\ CopyTo(Missing)
       \/ LoopDone("reject")
            /\ rejected' = [rejected EXCEPT ![op.id].meta = "none"]
            /\ UNCHANGED <<staging, project, reached>>
       \/ ~Moving /\ ~LoopDone("reject")
            /\ staging' = [staging EXCEPT ![op.id].meta = "none"]
            /\ UNCHANGED <<rejected, project, reached>>
    /\ \/ "write" \in Faults /\ op' = Idle("err")
       \/ "crash" \in Faults /\ op' = Idle("crash")
    /\ UNCHANGED <<results, runs>>

PowerCut ==
    /\ "crash" \in Faults
    /\ op.kind # "idle"
    /\ op' = Idle("crash")
    /\ UNCHANGED <<results, staging, rejected, project, runs, reached>>

Step == \/ MoveSkip \/ MoveCopy \/ MoveDrop
        \/ StageMeta \/ AcceptResults \/ AcceptMeta \/ RejectMeta \/ RejectMark
        \/ WriteFails \/ SdWriteLoses \/ PowerCut

-----------------------------------------------------------------------------
(* The bridge, seen from here: a run leaves one of the outcomes that       *)
(* BridgeRun shows to be all there are.                                    *)

BridgeRuns(id) ==
    /\ op.kind = "idle"
    /\ runs < MaxRuns
    /\ runs' = runs + 1
    /\ \E d \in Outcomes(results[id], runs + 1) :
         results' = [results EXCEPT ![id] = d]
    /\ UNCHANGED <<staging, rejected, project, op, reached>>

Next ==
    /\ \/ \E id \in Ids : \/ BridgeRuns(id)
                          \/ StageOnly(id)
                          \/ Pending(id) /\ (Accept(id) \/ Reject(id))
       \/ Step
    /\ UNCHANGED moves

Spec == Init /\ [][Next]_vars

-----------------------------------------------------------------------------
(***************************************************************************)
(* No artifact of a complete run of a request is ever lost: until the next *)
(* run, each one is in results/, staging/ or rejected/, or accept has put  *)
(* it into the project folder, which still has that file (the artifact or  *)
(* what a later accept put over it).  Write errors, power cuts and a       *)
(* source that cannot be removed included (the order of write_file and     *)
(* fs::remove in move_file_via_storage).                                   *)
(***************************************************************************)
Kept(id, a) ==
    \/ results[id].run \in {results[id].art[a], staging[id].art[a],
                            rejected[id].art[a]}
    \/ /\ reached[id][a] >= results[id].run
       /\ project[ProjectOf[id]][a] # Missing

NothingLost ==
    \A id \in Ids : results[id].manifest = "ok" /\ results[id].run # Missing
                      => \A a \in Artifacts : Kept(id, a)

(***************************************************************************)
(* An accept that reports success has put every artifact the user was      *)
(* shown, or a newer one of the same request, into the project folder,     *)
(* however many earlier attempts to stage or accept it were cut short.     *)
(***************************************************************************)
Delivered(id) ==
    \A a \in Artifacts : op.shown[a] # Missing
                           => project[ProjectOf[id]][a] >= op.shown[a]

AcceptDelivers ==
    [][op.kind = "accept" /\ op'.out = "ok" => Delivered(op.id)]_vars

=============================================================================
