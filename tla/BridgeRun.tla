------------------------------ MODULE BridgeRun ------------------------------
(***************************************************************************)
(* The bridge's run_for_request on one request, entry by entry: it wipes   *)
(* what an earlier run left, writes the artifacts and writes result.json   *)
(* last.  It may raise before it touches anything, and it may be killed    *)
(* anywhere.  Between runs the firmware imports what is there, and moves   *)
(* artifacts away.                                                         *)
(***************************************************************************)
EXTENDS ResultDir

VARIABLES dir,     \* outbox/results/<id>/
          pc,      \* where the run stands
          i,       \* the artifact to be written
          runs,    \* the runs so far; the last one may be in progress
          before   \* history: dir when that run began

vars == <<dir, pc, i, runs, before>>

TypeOK ==
    /\ dir \in Dir
    /\ pc \in {"idle", "begun", "wipe", "write", "manifest", "failing"}
    /\ i \in 1..(NumArtifacts + 1)
    /\ runs \in Content
    /\ before \in Dir

Init ==
    /\ dir = NoDir
    /\ pc = "idle"
    /\ i = 1
    /\ runs = 0
    /\ before = NoDir

Begin ==
    /\ pc = "idle"
    /\ runs < MaxRuns
    /\ runs' = runs + 1
    /\ before' = dir
    /\ pc' = "begun"
    /\ UNCHANGED <<dir, i>>

\* No idea.md, or the provider's JSON does not fit its schema: run-once
\* writes an error manifest.  Any other exception leaves everything.
RaiseBridgeError ==
    /\ pc = "begun"
    /\ pc' = "failing"
    /\ UNCHANGED <<dir, i, runs, before>>

RaiseOther ==
    /\ pc \in {"begun", "write", "manifest"}
    /\ pc' = "idle"
    /\ UNCHANGED <<dir, i, runs, before>>

\* write_text truncates result.json before it writes it.
TearManifest ==
    /\ \/ pc = "failing"
       \/ pc = "manifest"
    /\ dir.manifest # "torn"
    /\ dir' = [dir EXCEPT !.manifest = "torn"]
    /\ UNCHANGED <<pc, i, runs, before>>

WriteErrorManifest ==
    /\ pc = "failing"
    /\ dir.manifest = "torn"
    /\ dir' = [dir EXCEPT !.manifest = "error"]
    /\ pc' = "idle"
    /\ UNCHANGED <<i, runs, before>>

\* A bug Validated could have: the directory of an earlier run is not wiped.
ValidatedNoWipe ==
    /\ pc = "begun"
    /\ pc' = "write"
    /\ dir' = [dir EXCEPT !.run = Missing]
    /\ i' = 1
    /\ UNCHANGED <<runs, before>>

Validated ==
    /\ pc = "begun"
    /\ pc' = IF dir = NoDir THEN "write" ELSE "wipe"
    /\ dir' = [dir EXCEPT !.run = Missing]
    /\ i' = 1
    /\ UNCHANGED <<runs, before>>

\* shutil.rmtree: one entry, in the order the file system lists them.
WipeArtifact(a) ==
    /\ pc = "wipe"
    /\ dir.art[a] # Missing
    /\ dir' = [dir EXCEPT !.art[a] = Missing]
    /\ UNCHANGED <<pc, i, runs, before>>

WipeManifest ==
    /\ pc = "wipe"
    /\ dir.manifest # "none"
    /\ dir' = [dir EXCEPT !.manifest = "none"]
    /\ UNCHANGED <<pc, i, runs, before>>

\* A bug WipeDone could have: rmtree(ignore_errors=True).
WipeErrorsIgnored ==
    /\ pc = "wipe"
    /\ pc' = "write"
    /\ UNCHANGED <<dir, i, runs, before>>

WipeDone ==
    /\ pc = "wipe"
    /\ dir = NoDir
    /\ pc' = "write"
    /\ UNCHANGED <<dir, i, runs, before>>

WriteArtifact ==
    /\ pc = "write"
    /\ i \in Artifacts
    /\ dir' = [dir EXCEPT !.art[i] = runs]
    /\ i' = i + 1
    /\ UNCHANGED <<pc, runs, before>>

ArtifactsDone ==
    /\ pc = "write"
    /\ i = NumArtifacts + 1
    /\ pc' = "manifest"
    /\ UNCHANGED <<dir, i, runs, before>>

WriteManifest ==
    /\ pc = "manifest"
    /\ dir.manifest = "torn"
    /\ dir' = [dir EXCEPT !.manifest = "ok", !.run = runs]
    /\ pc' = "idle"
    /\ UNCHANGED <<i, runs, before>>

Killed ==
    /\ pc # "idle"
    /\ pc' = "idle"
    /\ UNCHANGED <<dir, i, runs, before>>

\* The firmware, between runs (StagingQueue moves artifacts away).
Drain(a) ==
    /\ pc = "idle"
    /\ dir.art[a] # Missing
    /\ dir' = [dir EXCEPT !.art[a] = Missing]
    /\ before' = dir'
    /\ UNCHANGED <<pc, i, runs>>

Next ==
    \/ Begin \/ RaiseBridgeError \/ RaiseOther
    \/ TearManifest \/ WriteErrorManifest
    \/ Validated \/ WipeManifest \/ WipeDone
    \/ WriteArtifact \/ ArtifactsDone \/ WriteManifest \/ Killed
    \/ \E a \in Artifacts : WipeArtifact(a) \/ Drain(a)

Spec == Init /\ [][Next]_vars

-----------------------------------------------------------------------------
(***************************************************************************)
(* To the firmware a run is one step.  However it ends and wherever it is  *)
(* killed, the directory then is one of the outcomes that Staging's side   *)
(* is checked against.  The step is taken when the run ends: until then    *)
(* the directory counts as what it was when the run began.                 *)
(***************************************************************************)
Atomic == INSTANCE AtomicRuns WITH
            dir <- IF pc = "idle" THEN dir ELSE before,
            runs <- IF pc = "idle" THEN runs ELSE runs - 1

RunIsAtomic == Atomic!Spec

(***************************************************************************)
(* Under a manifest that reports success there is never an artifact of     *)
(* another run, complete or not, next to one of the last complete run: the *)
(* directory is wiped before, and result.json is written after the rest.   *)
(***************************************************************************)
NoMixedRuns ==
    dir.manifest = "ok" =>
      \A a, b \in Artifacts :
        dir.art[a] # Missing /\ dir.art[b] # Missing => dir.art[a] = dir.art[b]
=============================================================================
