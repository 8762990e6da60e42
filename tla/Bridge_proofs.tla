---------------------------- MODULE Bridge_proofs ----------------------------
(***************************************************************************)
(* Proofs about the bridge's commands and about the exports.               *)
(*                                                                         *)
(* BridgeRun and Transcribe, for any number of artifacts and runs: a run   *)
(* is one atomic step for the firmware, a success manifest stands over one *)
(* run, and idea.md comes back.  Export, for any source artifacts, texts,  *)
(* garbled texts and number of exports: a finished export is complete, a   *)
(* mixture does not verify, and export-info.json is never ahead.           *)
(***************************************************************************)
EXTENDS Transcribe, Export, TLAPS

-----------------------------------------------------------------------------
(* What the directory holds wherever a run stands.                         *)

\* Nothing but the artifacts up to the k-th of run n.
Begun(n, k) == [manifest |-> "none", run |-> Missing, art |-> FirstOf(n, k)]

RunShape ==
    /\ pc = "begun" => dir = before
    /\ pc = "failing" => dir \in {before, [before EXCEPT !.manifest = "torn"]}
    /\ pc = "wipe" => dir \in Wiped(before) /\ i = 1
    /\ pc = "write" => dir = Begun(runs, i - 1)
    /\ pc = "manifest" =>
         dir \in {Begun(runs, NumArtifacts),
                  [Begun(runs, NumArtifacts) EXCEPT !.manifest = "torn"]}
    /\ pc # "idle" => runs >= 1

AtRest == pc = "idle" => dir \in Outcomes(before, runs)

BridgeInv == TypeOK /\ RunShape /\ AtRest /\ NoMixedRuns

-----------------------------------------------------------------------------
(* Result directories.                                                     *)

USE ResultDirAssumption

LEMMA FirstOfType ==
  ASSUME NEW n \in Content, NEW k \in Int
  PROVE  FirstOf(n, k) \in Artset
BY DEF FirstOf, Artset, Content, Missing

LEMMA BegunType ==
  ASSUME NEW n \in Content, NEW k \in Int
  PROVE  Begun(n, k) \in Dir
BY FirstOfType DEF Begun, Dir, Content, Missing

LEMMA NothingBegun ==
  ASSUME NEW n
  PROVE  NoDir = Begun(n, 0)
<1>1. NoArtifacts = FirstOf(n, 0)
  BY DEF NoArtifacts, FirstOf, Artifacts
<1> QED
  BY <1>1 DEF NoDir, Begun

\* One artifact more is what WriteArtifact leaves.
LEMMA OneMore ==
  ASSUME NEW n \in Content, NEW k \in Artifacts
  PROVE  [Begun(n, k - 1) EXCEPT !.art[k] = n] = Begun(n, k)
<1>1. [FirstOf(n, k - 1) EXCEPT ![k] = n]
        = [a \in Artifacts |-> IF a = k THEN n ELSE FirstOf(n, k - 1)[a]]
  BY DEF FirstOf
<1>2. \A a \in Artifacts :
        (IF a = k THEN n ELSE FirstOf(n, k - 1)[a]) = IF a <= k THEN n ELSE Missing
  BY DEF FirstOf, Artifacts
<1>3. [FirstOf(n, k - 1) EXCEPT ![k] = n] = FirstOf(n, k)
  BY <1>1, <1>2 DEF FirstOf
<1> QED
  BY <1>3 DEF Begun

LEMMA AllBegunIsWhole ==
  ASSUME NEW n \in Content
  PROVE  [Begun(n, NumArtifacts) EXCEPT !.manifest = "ok", !.run = n] = Whole(n)
<1>1. FirstOf(n, NumArtifacts) = [a \in Artifacts |-> n]
  BY DEF FirstOf, Artifacts
<1> DEFINE all == [a \in Artifacts |-> n]
<1>2. Begun(n, NumArtifacts) = [manifest |-> "none", run |-> Missing, art |-> all]
  BY <1>1 DEF Begun
<1>3. Whole(n) = [manifest |-> "ok", run |-> n, art |-> all]
  BY DEF Whole
<1> HIDE DEF all
<1> DEFINE empty == [manifest |-> "none", run |-> Missing, art |-> all]
<1>4. [empty EXCEPT !.manifest = "ok"] = [manifest |-> "ok", run |-> Missing, art |-> all]
  OBVIOUS
<1>5. [[manifest |-> "ok", run |-> Missing, art |-> all] EXCEPT !.run = n]
        = [manifest |-> "ok", run |-> n, art |-> all]
  OBVIOUS
<1> HIDE DEF empty
<1>6. [empty EXCEPT !.manifest = "ok", !.run = n]
        = [[empty EXCEPT !.manifest = "ok"] EXCEPT !.run = n]
  OBVIOUS
<1>7. Begun(n, NumArtifacts) = empty
  BY <1>2 DEF empty
<1> QED
  BY <1>3, <1>4, <1>5, <1>6, <1>7

\* Whatever is begun is one of the outcomes.
LEMMA BegunIsCut ==
  ASSUME NEW n, NEW k \in 0..NumArtifacts
  PROVE  Begun(n, k) \in Cut(n)
BY DEF Begun, Cut

LEMMA TornIsCut ==
  ASSUME NEW n
  PROVE  [Begun(n, NumArtifacts) EXCEPT !.manifest = "torn"] \in Cut(n)
BY DEF Begun, Cut

LEMMA WipedHas ==
  ASSUME NEW e, NEW m \in {e.manifest, "none"}, NEW kept \in SUBSET Artifacts
  PROVE  [manifest |-> m, run |-> Missing,
          art |-> [a \in Artifacts |-> IF a \in kept THEN e.art[a] ELSE Missing]]
            \in Wiped(e)
<1> DEFINE Part(n, k) ==
             [manifest |-> n, run |-> Missing,
              art |-> [a \in Artifacts |-> IF a \in k THEN e.art[a] ELSE Missing]]
<1>1. Wiped(e) = {Part(n, k) : n \in {e.manifest, "none"}, k \in SUBSET Artifacts}
  BY DEF Wiped
<1> HIDE DEF Part
<1>2. Part(m, kept) \in Wiped(e)
  BY <1>1
<1> QED
  BY <1>2 DEF Part

\* A wipe has removed nothing yet, then one artifact, then the manifest.
LEMMA WipeBegins ==
  ASSUME NEW d \in Dir
  PROVE  [d EXCEPT !.run = Missing] \in Wiped(d)
<1>1. d.art = [a \in Artifacts |-> IF a \in Artifacts THEN d.art[a] ELSE Missing]
  BY DEF Dir, Artset
<1>2. [d EXCEPT !.run = Missing]
        = [manifest |-> d.manifest, run |-> Missing,
           art |-> [a \in Artifacts |-> IF a \in Artifacts THEN d.art[a] ELSE Missing]]
  BY <1>1 DEF Dir
<1> QED
  BY <1>2 DEF Wiped

LEMMA WipeTakesArtifact ==
  ASSUME NEW e \in Dir, NEW d \in Wiped(e), NEW x \in Artifacts
  PROVE  [d EXCEPT !.art[x] = Missing] \in Wiped(e)
<1> DEFINE Kept(kept) == [a \in Artifacts |-> IF a \in kept THEN e.art[a] ELSE Missing]
<1>1. PICK m \in {e.manifest, "none"} : \E kept \in SUBSET Artifacts :
        d = [manifest |-> m, run |-> Missing, art |-> Kept(kept)]
  BY DEF Wiped
<1>2. PICK kept \in SUBSET Artifacts :
        d = [manifest |-> m, run |-> Missing, art |-> Kept(kept)]
  BY <1>1
<1>3. [Kept(kept) EXCEPT ![x] = Missing] = Kept(kept \ {x})
  OBVIOUS
<1>4. kept \ {x} \in SUBSET Artifacts
  OBVIOUS
<1>5. [manifest |-> m, run |-> Missing, art |-> Kept(kept \ {x})] \in Wiped(e)
  BY <1>1, <1>4, WipedHas
<1> HIDE DEF Kept
<1>6. [d EXCEPT !.art[x] = Missing]
        = [manifest |-> m, run |-> Missing, art |-> [Kept(kept) EXCEPT ![x] = Missing]]
  BY <1>2
<1> QED
  BY <1>3, <1>5, <1>6

LEMMA WipeTakesManifest ==
  ASSUME NEW e \in Dir, NEW d \in Wiped(e)
  PROVE  [d EXCEPT !.manifest = "none"] \in Wiped(e)
<1> DEFINE Kept(kept) == [a \in Artifacts |-> IF a \in kept THEN e.art[a] ELSE Missing]
<1>1. PICK m \in {e.manifest, "none"} : \E kept \in SUBSET Artifacts :
        d = [manifest |-> m, run |-> Missing, art |-> Kept(kept)]
  BY DEF Wiped
<1>2. PICK kept \in SUBSET Artifacts :
        d = [manifest |-> m, run |-> Missing, art |-> Kept(kept)]
  BY <1>1
<1>3. [manifest |-> "none", run |-> Missing, art |-> Kept(kept)] \in Wiped(e)
  BY WipedHas
<1> HIDE DEF Kept
<1>4. [d EXCEPT !.manifest = "none"]
        = [manifest |-> "none", run |-> Missing, art |-> Kept(kept)]
  BY <1>2
<1> QED
  BY <1>3, <1>4

LEMMA WipedType ==
  ASSUME NEW e \in Dir, NEW d \in Wiped(e)
  PROVE  d \in Dir
BY DEF Wiped, Dir, Artset, Content, Missing

-----------------------------------------------------------------------------
(* A run, step by step.                                                    *)

LEMMA BridgeInit ==
  ASSUME Init
  PROVE  BridgeInv
<1>1. NoDir \in Dir
  BY NothingBegun, BegunType DEF Content
<1>2. TypeOK
  BY <1>1 DEF Init, TypeOK, Content
<1> QED
  BY <1>2 DEF Init, BridgeInv, RunShape, AtRest, NoMixedRuns, NoDir, Outcomes

LEMMA BridgeStutter ==
  ASSUME BridgeInv, UNCHANGED vars
  PROVE  BridgeInv'
BY DEF vars, BridgeInv, TypeOK, RunShape, AtRest, NoMixedRuns

\* Wherever a run stands, what it has done so far is one of the outcomes.
LEMMA RunLeavesOutcome ==
  ASSUME BridgeInv
  PROVE  dir \in Outcomes(before, runs)
<1>1. CASE pc = "idle"
  BY <1>1 DEF BridgeInv, AtRest
<1>2. CASE pc = "begun"
  BY <1>2 DEF BridgeInv, RunShape, Outcomes
<1>3. CASE pc = "failing"
  BY <1>3 DEF BridgeInv, RunShape, Outcomes, Errored
<1>4. CASE pc = "wipe"
  BY <1>4 DEF BridgeInv, RunShape, Outcomes
<1>5. CASE pc = "write"
  <2>1. i - 1 \in 0..NumArtifacts
    BY DEF BridgeInv, TypeOK
  <2>2. Begun(runs, i - 1) \in Cut(runs)
    BY <2>1, BegunIsCut
  <2> QED
    BY <1>5, <2>2 DEF BridgeInv, RunShape, Outcomes
<1>6. CASE pc = "manifest"
  <2>1. Begun(runs, NumArtifacts) \in Cut(runs)
    BY BegunIsCut
  <2> QED
    BY <1>6, <2>1, TornIsCut DEF BridgeInv, RunShape, Outcomes
<1> QED
  BY <1>1, <1>2, <1>3, <1>4, <1>5, <1>6 DEF BridgeInv, TypeOK

\* A run ends, by itself or not, with what it has done so far.
LEMMA RunStops ==
  ASSUME BridgeInv, pc' = "idle", UNCHANGED <<dir, i, runs, before>>
  PROVE  BridgeInv'
<1>1. AtRest'
  BY RunLeavesOutcome DEF AtRest
<1> QED
  BY <1>1 DEF BridgeInv, TypeOK, RunShape, NoMixedRuns

LEMMA BeginKeeps ==
  ASSUME BridgeInv, Begin
  PROVE  BridgeInv'
BY DEF Begin, BridgeInv, TypeOK, RunShape, AtRest, NoMixedRuns, Content

LEMMA RaiseBridgeErrorKeeps ==
  ASSUME BridgeInv, RaiseBridgeError
  PROVE  BridgeInv'
BY DEF RaiseBridgeError, BridgeInv, TypeOK, RunShape, AtRest, NoMixedRuns

LEMMA TearManifestKeeps ==
  ASSUME BridgeInv, TearManifest
  PROVE  BridgeInv'
<1> USE DEF TearManifest
<1>1. TypeOK'
  BY DEF BridgeInv, TypeOK, Dir
<1>2. NoMixedRuns'
  BY DEF BridgeInv, TypeOK, Dir, NoMixedRuns
<1>3. CASE pc = "failing"
  <2>1. dir' = [before EXCEPT !.manifest = "torn"]
    BY <1>3 DEF BridgeInv, TypeOK, Dir, RunShape
  <2> QED
    BY <1>1, <1>2, <1>3, <2>1 DEF BridgeInv, RunShape, AtRest
<1>4. CASE pc = "manifest"
  <2>1. dir' = [Begun(runs, NumArtifacts) EXCEPT !.manifest = "torn"]
    BY <1>4 DEF BridgeInv, RunShape, Begun
  <2> QED
    BY <1>1, <1>2, <1>4, <2>1 DEF BridgeInv, RunShape, AtRest
<1> QED
  BY <1>3, <1>4

LEMMA WriteErrorManifestKeeps ==
  ASSUME BridgeInv, WriteErrorManifest
  PROVE  BridgeInv'
<1> USE DEF WriteErrorManifest
<1>1. TypeOK'
  BY DEF BridgeInv, TypeOK, Dir
<1>2. NoMixedRuns'
  BY DEF BridgeInv, TypeOK, Dir, NoMixedRuns
<1>3. dir' = [before EXCEPT !.manifest = "error"]
  BY DEF BridgeInv, TypeOK, Dir, RunShape
<1>4. dir' \in Errored(before)
  BY <1>3 DEF Errored
<1> QED
  BY <1>1, <1>2, <1>4 DEF BridgeInv, RunShape, AtRest, Outcomes

LEMMA ValidatedKeeps ==
  ASSUME BridgeInv, Validated
  PROVE  BridgeInv'
<1> USE DEF Validated
<1>1. TypeOK'
  BY DEF BridgeInv, TypeOK, Dir, Content, Missing
<1>2. NoMixedRuns'
  BY DEF BridgeInv, TypeOK, Dir, NoMixedRuns
<1>3. dir = before
  BY DEF BridgeInv, RunShape
<1>4. CASE dir = NoDir
  <2>1. dir' = Begun(runs', i' - 1)
    <3>1. dir' = NoDir
      BY <1>4 DEF NoDir
    <3>2. i' - 1 = 0
      OBVIOUS
    <3> QED
      BY <3>1, <3>2, NothingBegun
  <2> QED
    BY <1>1, <1>2, <1>4, <2>1 DEF BridgeInv, RunShape, AtRest
<1>5. CASE dir # NoDir
  <2>1. dir' \in Wiped(before')
    BY <1>3, WipeBegins DEF BridgeInv, TypeOK
  <2> QED
    BY <1>1, <1>2, <1>5, <2>1 DEF BridgeInv, RunShape, AtRest
<1> QED
  BY <1>4, <1>5

\* While a directory is wiped it stays one that is being wiped.
LEMMA WipeKeeps ==
  ASSUME BridgeInv, pc = "wipe", UNCHANGED <<pc, i, runs, before>>,
         dir' \in Wiped(before), NoMixedRuns'
  PROVE  BridgeInv'
<1>1. dir' \in Dir
  BY WipedType DEF BridgeInv, TypeOK
<1> QED
  BY <1>1 DEF BridgeInv, TypeOK, RunShape, AtRest

LEMMA WipeArtifactKeeps ==
  ASSUME BridgeInv, NEW a \in Artifacts, WipeArtifact(a)
  PROVE  BridgeInv'
<1> USE DEF WipeArtifact
<1>1. dir' \in Wiped(before)
  BY WipeTakesArtifact DEF BridgeInv, TypeOK, RunShape
<1>2. \A b \in Artifacts : dir'.art[b] = IF b = a THEN Missing ELSE dir.art[b]
  BY DEF BridgeInv, TypeOK, Dir, Artset
<1>3. dir'.manifest = dir.manifest
  BY DEF BridgeInv, TypeOK, Dir
<1>4. NoMixedRuns'
  BY <1>2, <1>3 DEF BridgeInv, NoMixedRuns
<1> QED
  BY <1>1, <1>4, WipeKeeps

LEMMA WipeManifestKeeps ==
  ASSUME BridgeInv, WipeManifest
  PROVE  BridgeInv'
<1> USE DEF WipeManifest
<1>1. dir' \in Wiped(before)
  BY WipeTakesManifest DEF BridgeInv, TypeOK, RunShape
<1>2. NoMixedRuns'
  BY DEF BridgeInv, TypeOK, Dir, NoMixedRuns
<1> QED
  BY <1>1, <1>2, WipeKeeps

LEMMA WipeDoneKeeps ==
  ASSUME BridgeInv, WipeDone
  PROVE  BridgeInv'
<1>1. i - 1 = 0
  BY DEF WipeDone, BridgeInv, RunShape
<1>2. dir = Begun(runs, i - 1)
  BY <1>1, NothingBegun DEF WipeDone
<1> QED
  BY <1>2 DEF WipeDone, BridgeInv, TypeOK, RunShape, AtRest, NoMixedRuns

LEMMA WriteArtifactKeeps ==
  ASSUME BridgeInv, WriteArtifact
  PROVE  BridgeInv'
<1> USE DEF WriteArtifact
<1>1. dir' = Begun(runs, i)
  BY OneMore DEF BridgeInv, TypeOK, RunShape
<1>2. i' \in 1..(NumArtifacts + 1) /\ i' - 1 = i
  BY DEF Artifacts
<1>3. TypeOK'
  BY <1>1, <1>2, BegunType DEF BridgeInv, TypeOK
<1>4. NoMixedRuns'
  BY <1>1 DEF NoMixedRuns, Begun
<1> QED
  BY <1>1, <1>2, <1>3, <1>4 DEF BridgeInv, RunShape, AtRest

LEMMA ArtifactsDoneKeeps ==
  ASSUME BridgeInv, ArtifactsDone
  PROVE  BridgeInv'
<1>1. dir = Begun(runs, NumArtifacts)
  BY DEF ArtifactsDone, BridgeInv, RunShape
<1> QED
  BY <1>1 DEF ArtifactsDone, BridgeInv, TypeOK, RunShape, AtRest, NoMixedRuns

LEMMA WriteManifestKeeps ==
  ASSUME BridgeInv, WriteManifest
  PROVE  BridgeInv'
<1> USE DEF WriteManifest
<1>1. dir = [Begun(runs, NumArtifacts) EXCEPT !.manifest = "torn"]
  BY DEF BridgeInv, RunShape, Begun
<1>2. dir' = [Begun(runs, NumArtifacts) EXCEPT !.manifest = "ok", !.run = runs]
  BY <1>1 DEF Begun
<1>3. dir' = Whole(runs)
  BY <1>2, AllBegunIsWhole DEF BridgeInv, TypeOK
<1>4. TypeOK'
  BY <1>3 DEF BridgeInv, TypeOK, Whole, Dir, Artset
<1>5. \A a \in Artifacts : dir'.art[a] = runs
  <2>1. \A a \in Artifacts : Whole(runs).art[a] = runs
    BY DEF Whole
  <2> QED
    BY <1>3, <2>1
<1>6. NoMixedRuns'
  BY <1>5 DEF NoMixedRuns
<1>7. dir' \in Outcomes(before', runs')
  BY <1>3 DEF Outcomes
<1> QED
  BY <1>4, <1>6, <1>7 DEF BridgeInv, RunShape, AtRest

LEMMA DrainKeeps ==
  ASSUME BridgeInv, NEW a \in Artifacts, Drain(a)
  PROVE  BridgeInv'
<1> USE DEF Drain
<1>1. TypeOK'
  BY DEF BridgeInv, TypeOK, Dir, Artset, Content, Missing
<1>2. \A b \in Artifacts : dir'.art[b] = IF b = a THEN Missing ELSE dir.art[b]
  BY DEF BridgeInv, TypeOK, Dir, Artset
<1>3. dir'.manifest = dir.manifest
  BY DEF BridgeInv, TypeOK, Dir
<1>4. NoMixedRuns'
  BY <1>2, <1>3 DEF BridgeInv, NoMixedRuns
<1> QED
  BY <1>1, <1>4 DEF BridgeInv, RunShape, AtRest, Outcomes

LEMMA BridgeStep ==
  ASSUME BridgeInv, Next
  PROVE  BridgeInv'
<1>1. CASE RaiseOther \/ Killed
  BY <1>1, RunStops DEF RaiseOther, Killed
<1> QED
  BY <1>1, BeginKeeps, RaiseBridgeErrorKeeps, TearManifestKeeps,
     WriteErrorManifestKeeps, ValidatedKeeps, WipeArtifactKeeps,
     WipeManifestKeeps, WipeDoneKeeps, WriteArtifactKeeps,
     ArtifactsDoneKeeps, WriteManifestKeeps, DrainKeeps DEF Next

LEMMA BridgeSpecInv == Spec => []BridgeInv
<1>1. Init => BridgeInv
  BY BridgeInit
<1>2. BridgeInv /\ [Next]_vars => BridgeInv'
  BY BridgeStep, BridgeStutter
<1> QED
  BY <1>1, <1>2, PTL DEF Spec

-----------------------------------------------------------------------------
(* To the firmware a run is one step.                                      *)

LEMMA SameOutcomes ==
  ASSUME NEW d, NEW n
  PROVE  Atomic!Outcomes(d, n) = Outcomes(d, n)
BY DEF Atomic!Outcomes, Atomic!Whole, Atomic!Wiped, Atomic!Cut, Atomic!Errored,
       Atomic!FirstOf, Atomic!Artifacts, Atomic!Missing,
       Outcomes, Whole, Wiped, Cut, Errored, FirstOf, Artifacts, Missing

LEMMA AtomicInit ==
  ASSUME Init
  PROVE  Atomic!Init
BY DEF Init, Atomic!Init, NoDir, NoArtifacts, Artifacts, Missing,
       Atomic!NoDir, Atomic!NoArtifacts, Atomic!Artifacts, Atomic!Missing

\* The steps between the first and the last of a run do nothing.
LEMMA InsideRun ==
  ASSUME BridgeInv, Next, pc' # "idle"
  PROVE  UNCHANGED Atomic!vars
<1>1. CASE Begin
  BY <1>1 DEF Begin, Atomic!vars, BridgeInv, TypeOK, Content
<1>2. CASE ~Begin
  <2>1. pc # "idle" /\ UNCHANGED <<runs, before>>
    BY <1>2 DEF Next, RaiseBridgeError, RaiseOther, TearManifest,
       WriteErrorManifest, Validated, WipeManifest, WipeDone, WriteArtifact,
       ArtifactsDone, WriteManifest, Killed, WipeArtifact, Drain
  <2> QED
    BY <2>1 DEF Atomic!vars
<1> QED
  BY <1>1, <1>2

LEMMA RunEnd ==
  ASSUME BridgeInv, Next, pc # "idle", pc' = "idle"
  PROVE  Atomic!BridgeRuns
<1>1. UNCHANGED <<runs, before>>
  BY DEF Next, Begin, RaiseBridgeError, RaiseOther, TearManifest,
     WriteErrorManifest, Validated, WipeManifest, WipeDone, WriteArtifact,
     ArtifactsDone, WriteManifest, Killed, WipeArtifact, Drain
<1>2. dir' \in Outcomes(before, runs)
  BY <1>1, BridgeStep DEF BridgeInv, AtRest
<1>3. runs \in 1..MaxRuns
  BY DEF BridgeInv, TypeOK, RunShape, Content
<1>4. (runs - 1) + 1 = runs
  BY <1>3
<1> QED
  BY <1>1, <1>2, <1>3, <1>4, SameOutcomes DEF Atomic!BridgeRuns

LEMMA BetweenRuns ==
  ASSUME Next, pc = "idle", pc' = "idle"
  PROVE  Atomic!Next
<1>1. PICK a \in Artifacts : Drain(a)
  BY DEF Next, Begin, RaiseBridgeError, RaiseOther, TearManifest,
     WriteErrorManifest, Validated, WipeManifest, WipeDone, WriteArtifact,
     ArtifactsDone, WriteManifest, Killed, WipeArtifact
<1>2. Atomic!Drain(a)
  BY <1>1 DEF Drain, Atomic!Drain, Missing, Atomic!Missing
<1> QED
  BY <1>2 DEF Atomic!Next, Artifacts, Atomic!Artifacts

(***************************************************************************)
(* A run of the bridge, with all the steps at which it can be killed, is   *)
(* one step of AtomicRuns: what Staging takes a run to be.                 *)
(***************************************************************************)
THEOREM RunIsAtomicTheorem == Spec => RunIsAtomic
<1>1. BridgeInv /\ [Next]_vars => [Atomic!Next]_(Atomic!vars)
  <2> SUFFICES ASSUME BridgeInv, [Next]_vars
               PROVE  Atomic!Next \/ UNCHANGED Atomic!vars
    OBVIOUS
  <2>1. CASE UNCHANGED vars
    BY <2>1 DEF vars, Atomic!vars
  <2>2. CASE Next
    BY <2>2, InsideRun, RunEnd, BetweenRuns DEF Atomic!Next
  <2> QED
    BY <2>1, <2>2
<1> QED
  BY <1>1, AtomicInit, BridgeSpecInv, PTL DEF Spec, RunIsAtomic, Atomic!Spec

-----------------------------------------------------------------------------
(* What transcribe-and-plan holds of the user's text.                      *)

BackupIsOwners ==
    cmd # "idle" => cut = FALSE /\ backup = ReadText(owner)

IdeaInv == TranscribeTypeOK /\ BackupIsOwners /\ IdeaComesBack

\* All that transcribe-and-plan does to the result directory is a step of a
\* run.
LEMMA CommandRunsBridge ==
  ASSUME TranscribeNext
  PROVE  [Next]_vars
<1>1. CASE KilledCommand
  BY <1>1 DEF KilledCommand, Next, Killed, vars
<1>2. CASE RunStep
  BY <1>2 DEF RunStep, Next
<1>3. CASE Plan
  BY <1>3 DEF Plan, Next
<1>4. CASE Other
  BY <1>4 DEF Other
<1> QED
  BY <1>1, <1>2, <1>3, <1>4 DEF TranscribeNext, Edit, Transcribe, TearIdea,
     ReplaceIdea, GiveUp, RunEnds, Restore, RestoreFails, vars

(***************************************************************************)
(* run-once beside transcribe-and-plan is the runner of BridgeRun: what is *)
(* proved of BridgeRun holds of both commands.                             *)
(***************************************************************************)
THEOREM TranscribeRunsBridge == TranscribeSpec => Spec
<1>1. TranscribeInit => Init
  BY DEF TranscribeInit
<1>2. [TranscribeNext]_transcribeVars => [Next]_vars
  BY CommandRunsBridge DEF transcribeVars
<1> QED
  BY <1>1, <1>2, PTL DEF TranscribeSpec, Spec

(***************************************************************************)
(* So a plan from a recording, too, is one step for the firmware, although *)
(* it raises and is killed in ways of its own.                             *)
(***************************************************************************)
THEOREM TranscribeIsAtomic == TranscribeSpec => RunIsAtomic
BY TranscribeRunsBridge, RunIsAtomicTheorem, PTL

LEMMA IdeaInit ==
  ASSUME TranscribeInit
  PROVE  IdeaInv
<1>1. TypeOK
  BY BridgeInit DEF TranscribeInit, BridgeInv
<1> QED
  BY <1>1 DEF TranscribeInit, IdeaInv, TranscribeTypeOK, BackupIsOwners,
     IdeaComesBack, Ideas, UserIdeas

LEMMA IdeaStutter ==
  ASSUME IdeaInv, TypeOK', UNCHANGED ideaVars
  PROVE  IdeaInv'
BY DEF ideaVars, IdeaInv, TranscribeTypeOK, BackupIsOwners, IdeaComesBack, ReadText

\* The command has read the text, and from then on the copy stands for it.
LEMMA IdeaTaken ==
  ASSUME IdeaInv, TypeOK', Edit \/ Transcribe
  PROVE  IdeaInv'
BY DEF Edit, Transcribe, IdeaInv, TranscribeTypeOK, BackupIsOwners,
   IdeaComesBack, ReadText, Ideas, UserIdeas

\* While it is at work, idea.md may hold anything.
LEMMA IdeaLent ==
  ASSUME IdeaInv, TypeOK',
         \/ TearIdea \/ ReplaceIdea \/ GiveUp \/ Plan \/ RunEnds
  PROVE  IdeaInv'
<1>1. cmd # "idle" /\ UNCHANGED <<backup, owner, cut>>
  BY DEF TearIdea, ReplaceIdea, GiveUp, Plan, RunEnds
<1>2. cmd' \in {"replacing", "planning", "running", "restoring"}
  BY DEF TearIdea, ReplaceIdea, GiveUp, Plan, RunEnds
<1>3. idea' \in Ideas
  BY DEF TearIdea, ReplaceIdea, GiveUp, Plan, RunEnds, IdeaInv,
     TranscribeTypeOK, Ideas
<1> QED
  BY <1>1, <1>2, <1>3 DEF IdeaInv, TranscribeTypeOK, BackupIsOwners,
     IdeaComesBack, ReadText

LEMMA IdeaRestored ==
  ASSUME IdeaInv, TypeOK', Restore
  PROVE  IdeaInv'
BY DEF Restore, IdeaInv, TranscribeTypeOK, BackupIsOwners, IdeaComesBack, ReadText

LEMMA IdeaLost ==
  ASSUME IdeaInv, TypeOK', RestoreFails \/ KilledCommand
  PROVE  IdeaInv'
BY DEF RestoreFails, KilledCommand, IdeaInv, TranscribeTypeOK, BackupIsOwners,
   IdeaComesBack

LEMMA IdeaStep ==
  ASSUME IdeaInv, TypeOK', TranscribeNext
  PROVE  IdeaInv'
BY IdeaStutter, IdeaTaken, IdeaLent, IdeaRestored, IdeaLost
   DEF TranscribeNext, Other, RunStep

LEMMA TranscribeInv == TranscribeSpec => []BridgeInv /\ []IdeaInv
<1>1. TranscribeInit => IdeaInv
  BY IdeaInit
<1>2. IdeaInv /\ BridgeInv' /\ [TranscribeNext]_transcribeVars => IdeaInv'
  <2>1. BridgeInv' => TypeOK'
    BY DEF BridgeInv
  <2> QED
    BY <2>1, IdeaStep, IdeaStutter DEF transcribeVars
<1>3. TranscribeSpec => []BridgeInv
  BY TranscribeRunsBridge, BridgeSpecInv, PTL
<1> QED
  BY <1>1, <1>2, <1>3, PTL DEF TranscribeSpec

\* Every variable of the runner and of transcribe-and-plan stays in its set
\* (BridgeRun and cli.py's transcribe_and_plan).
THEOREM TranscribeTypes == TranscribeSpec => []TranscribeTypeOK
<1>1. IdeaInv => TranscribeTypeOK
  BY DEF IdeaInv
<1> QED
  BY <1>1, TranscribeInv, PTL

(***************************************************************************)
(* Under a manifest that reports success the artifacts of two runs never   *)
(* lie together, wherever a run is killed: rmtree comes first, and         *)
(* result.json last.                                                       *)
(***************************************************************************)
THEOREM NoMixedRunsTheorem == TranscribeSpec => []NoMixedRuns
<1>1. BridgeInv => NoMixedRuns
  BY DEF BridgeInv
<1> QED
  BY <1>1, TranscribeInv, PTL

(***************************************************************************)
(* However transcribe-and-plan ends, idea.md holds the user's text again,  *)
(* up to line ends, unless the process was killed or could not write.      *)
(***************************************************************************)
THEOREM IdeaComesBackTheorem == TranscribeSpec => []IdeaComesBack
<1>1. IdeaInv => IdeaComesBack
  BY DEF IdeaInv
<1> QED
  BY <1>1, TranscribeInv, PTL

-----------------------------------------------------------------------------
(* Export: the order of the writes.                                        *)

PackFiles == {"agent-pack.md", "agent-tasks.json", "README.md"}

\* All that is written before sources.json.
Lead(by) ==
    IF by = "device"
    THEN <<Pack[1]>> \o Copied \o <<Pack[2]>> \o Copied \o <<Pack[3]>> \o Copied
    ELSE Pack

Has(s, x) == \E k \in 1..Len(s) : s[k] = x

LEMMA ConcatAt ==
  ASSUME NEW S, NEW s \in Seq(S), NEW t \in Seq(S)
  PROVE  /\ s \o t \in Seq(S) /\ Len(s \o t) = Len(s) + Len(t)
         /\ \A k \in 1..Len(s) : (s \o t)[k] = s[k] /\ k \in 1..Len(s \o t)
         /\ \A k \in 1..Len(t) :
              (s \o t)[Len(s) + k] = t[k] /\ Len(s) + k \in 1..Len(s \o t)
<1>1. s \o t \in Seq(S) /\ Len(s \o t) = Len(s) + Len(t)
  OBVIOUS
<1>2. \A k \in 1..Len(s) : (s \o t)[k] = s[k] /\ k \in 1..Len(s \o t)
  BY <1>1
<1>3. \A k \in 1..Len(t) : (s \o t)[Len(s) + k] = t[k] /\ Len(s) + k \in 1..Len(s \o t)
  BY <1>1
<1> QED
  BY <1>1, <1>2, <1>3

LEMMA ConcatHas ==
  ASSUME NEW S, NEW s \in Seq(S), NEW t \in Seq(S)
  PROVE  /\ s \o t \in Seq(S)
         /\ \A x : Has(s \o t, x) <=> Has(s, x) \/ Has(t, x)
<1>1. s \o t \in Seq(S) /\ Len(s \o t) = Len(s) + Len(t)
  BY ConcatAt
<1>2. \A k \in 1..Len(s) : (s \o t)[k] = s[k] /\ k \in 1..Len(s \o t)
  BY ConcatAt
<1>3. \A k \in 1..Len(t) : (s \o t)[Len(s) + k] = t[k] /\ Len(s) + k \in 1..Len(s \o t)
  BY ConcatAt
<1>4. ASSUME NEW x, Has(s \o t, x)
      PROVE  Has(s, x) \/ Has(t, x)
  <2>1. PICK k \in 1..Len(s \o t) : (s \o t)[k] = x
    BY <1>4 DEF Has
  <2>2. CASE k <= Len(s)
    BY <1>2, <2>1, <2>2 DEF Has
  <2>3. CASE k > Len(s)
    <3>1. k - Len(s) \in 1..Len(t) /\ Len(s) + (k - Len(s)) = k
      BY <1>1, <2>3
    <3> QED
      BY <1>3, <2>1, <3>1 DEF Has
  <2> QED
    BY <1>1, <2>2, <2>3
<1>5. ASSUME NEW x, Has(s, x) \/ Has(t, x)
      PROVE  Has(s \o t, x)
  BY <1>2, <1>3, <1>5 DEF Has
<1> QED
  BY <1>1, <1>4, <1>5

LEMMA CopiedHas ==
  /\ Copied \in Seq(Sources \cup Made)
  /\ \A x : Has(Copied, x) <=> x \in Sources
<1>1. Names \in Seq(Sources) /\ Calendar \in Sources
  BY ExportAssumption DEF Sources
<1>2. Len(Copied) = Len(Names) + 1 /\ Copied \in Seq(Sources)
  BY <1>1 DEF Copied
<1>3. \A k \in 1..Len(Names) : Copied[k] = Names[k] /\ k \in 1..Len(Copied)
  BY <1>1, <1>2 DEF Copied
<1>4. Copied[Len(Copied)] = Calendar /\ Len(Copied) \in 1..Len(Copied)
  BY <1>1, <1>2 DEF Copied
<1>5. \A x : Has(Copied, x) => x \in Sources
  BY <1>2 DEF Has
<1>6. ASSUME NEW x \in Sources
      PROVE  Has(Copied, x)
  BY <1>3, <1>4 DEF Has, Sources
<1>7. Copied \in Seq(Sources \cup Made)
  BY <1>2
<1> QED
  BY <1>5, <1>6, <1>7

LEMMA SingleHas ==
  ASSUME NEW y \in Made
  PROVE  /\ <<y>> \in Seq(Sources \cup Made)
         /\ \A x : Has(<<y>>, x) <=> x = y
BY DEF Has

LEMMA PackHas ==
  /\ Pack \in Seq(Sources \cup Made)
  /\ Len(Pack) = 3
  /\ \A k \in 1..3 : Pack[k] \in PackFiles
  /\ \A x : Has(Pack, x) <=> x \in PackFiles
BY DEF Pack, PackFiles, Made, Has

\* The files of the pack come before sources.json, and so do the copies in an
\* export of the device.
LEMMA LeadHas ==
  ASSUME NEW by
  PROVE  /\ Lead(by) \in Seq(Sources \cup Made)
         /\ \A x : Has(Lead(by), x)
                     <=> x \in PackFiles \/ (by = "device" /\ x \in Sources)
<1>1. CASE by # "device"
  BY <1>1, PackHas DEF Lead
<1>2. CASE by = "device"
  <2> DEFINE S == Sources \cup Made
             p1 == <<Pack[1]>>
             p2 == <<Pack[2]>>
             p3 == <<Pack[3]>>
             s1 == p1 \o Copied
             s2 == s1 \o p2
             s3 == s2 \o Copied
             s4 == s3 \o p3
             s5 == s4 \o Copied
  <2>1. /\ p1 \in Seq(S) /\ p2 \in Seq(S) /\ p3 \in Seq(S)
        /\ \A x : /\ Has(p1, x) <=> x = "agent-pack.md"
                  /\ Has(p2, x) <=> x = "agent-tasks.json"
                  /\ Has(p3, x) <=> x = "README.md"
    <3>1. /\ Pack[1] = "agent-pack.md" /\ Pack[2] = "agent-tasks.json"
          /\ Pack[3] = "README.md"
      BY DEF Pack
    <3> QED
      BY <3>1, SingleHas DEF Made
  <2>2. Lead(by) = s5
    BY <1>2 DEF Lead
  <2> HIDE DEF p1, p2, p3
  <2>3. s1 \in Seq(S) /\ \A x : Has(s1, x) <=> x = "agent-pack.md" \/ x \in Sources
    BY <2>1, CopiedHas, ConcatHas
  <2> HIDE DEF s1
  <2>4. s2 \in Seq(S) /\ \A x : Has(s2, x)
          <=> x \in {"agent-pack.md", "agent-tasks.json"} \/ x \in Sources
    BY <2>1, <2>3, ConcatHas
  <2> HIDE DEF s2
  <2>5. s3 \in Seq(S) /\ \A x : Has(s3, x)
          <=> x \in {"agent-pack.md", "agent-tasks.json"} \/ x \in Sources
    BY <2>4, CopiedHas, ConcatHas
  <2> HIDE DEF s3
  <2>6. s4 \in Seq(S) /\ \A x : Has(s4, x) <=> x \in PackFiles \/ x \in Sources
    BY <2>1, <2>5, ConcatHas DEF PackFiles
  <2> HIDE DEF s4
  <2>7. s5 \in Seq(S) /\ \A x : Has(s5, x) <=> x \in PackFiles \/ x \in Sources
    BY <2>6, CopiedHas, ConcatHas
  <2> QED
    BY <1>2, <2>2, <2>7
<1> QED
  BY <1>1, <1>2

\* sources.json, export-info.json and warnings.json are the last three.
LEMMA WritesEnd ==
  ASSUME NEW by, NEW n, n = Len(Lead(by))
  PROVE  /\ n \in Nat
         /\ Writes(by) \in Seq(Sources \cup Made)
         /\ Len(Writes(by)) = n + 3
         /\ \A k \in 1..n : Writes(by)[k] = Lead(by)[k]
         /\ Writes(by)[n + 1] = "sources.json"
         /\ Writes(by)[n + 2] = "export-info.json"
         /\ Writes(by)[n + 3] = "warnings.json"
<1>1. Writes(by) = Lead(by) \o Metadata
  BY DEF Writes, Lead
<1>2. /\ Metadata \in Seq(Sources \cup Made)
      /\ Len(Metadata) = 3
      /\ Metadata[1] = "sources.json"
      /\ Metadata[2] = "export-info.json"
      /\ Metadata[3] = "warnings.json"
  BY DEF Metadata, Made
<1>3. Lead(by) \in Seq(Sources \cup Made) /\ n \in Nat
  BY LeadHas
<1>4. /\ Lead(by) \o Metadata \in Seq(Sources \cup Made)
      /\ Len(Lead(by) \o Metadata) = n + 3
      /\ \A k \in 1..n : (Lead(by) \o Metadata)[k] = Lead(by)[k]
      /\ \A k \in 1..3 : (Lead(by) \o Metadata)[n + k] = Metadata[k]
  <2> DEFINE lead == Lead(by)
             metadata == Metadata
             S == Sources \cup Made
  <2>0. lead \in Seq(S) /\ metadata \in Seq(S)
    BY <1>2, <1>3
  <2>1. lead \in Seq(S) /\ metadata \in Seq(S) /\ Len(lead) = n /\ Len(metadata) = 3
    BY <1>2, <1>3
  <2> HIDE DEF lead, metadata, S
  <2>2. /\ lead \o metadata \in Seq(S) /\ Len(lead \o metadata) = Len(lead) + Len(metadata)
        /\ \A k \in 1..Len(lead) : (lead \o metadata)[k] = lead[k]
        /\ \A k \in 1..Len(metadata) : (lead \o metadata)[Len(lead) + k] = metadata[k]
    BY <2>0, ConcatAt
  <2> QED
    BY <2>1, <2>2 DEF lead, metadata, S
<1> QED
  BY <1>1, <1>2, <1>3, <1>4

LEMMA BridgeWritesDistinct ==
  /\ Len(Writes("bridge")) = 6
  /\ \A j, k \in 1..6 : Writes("bridge")[j] = Writes("bridge")[k] => j = k
  /\ \A k \in 1..6 : Writes("bridge")[k] \in Made
BY DEF Writes, Pack, Metadata, Made

LEMMA WrittenAll ==
  ASSUME NEW by
  PROVE  \A x : Has(Writes(by), x)
                  <=> x \in Made \/ (by = "device" /\ x \in Sources)
<1> DEFINE lead == Lead(by)
<1> DEFINE n == Len(lead)
<1>1. /\ n \in Nat
      /\ Len(Writes(by)) = n + 3
      /\ \A k \in 1..n : Writes(by)[k] = lead[k]
      /\ Writes(by)[n + 1] = "sources.json"
      /\ Writes(by)[n + 2] = "export-info.json"
      /\ Writes(by)[n + 3] = "warnings.json"
  BY WritesEnd
<1>2. \A x : Has(lead, x) <=> x \in PackFiles \/ (by = "device" /\ x \in Sources)
  BY LeadHas
<1> HIDE DEF lead
<1>3. \A x : Has(Writes(by), x)
        <=> x \in {"sources.json", "export-info.json", "warnings.json"} \/ Has(lead, x)
  <2>1. \A k \in 1..(n + 3) : k \in 1..n \/ k = n + 1 \/ k = n + 2 \/ k = n + 3
    BY <1>1
  <2>2. /\ n + 1 \in 1..(n + 3) /\ n + 2 \in 1..(n + 3) /\ n + 3 \in 1..(n + 3)
        /\ \A k \in 1..n : k \in 1..(n + 3)
    BY <1>1
  <2> HIDE DEF n
  <2> QED
    BY <1>1, <2>1, <2>2 DEF Has, n
<1> QED
  BY <1>2, <1>3 DEF PackFiles, Made

\* When export-info.json is due, all that it vouches for has been written.
LEMMA InfoComesLast ==
  ASSUME NEW by, NEW k \in 1..Len(Writes(by)), Writes(by)[k] = "export-info.json",
         NEW f \in Made \ {"export-info.json", "warnings.json"}
  PROVE  \E j \in 1..(k - 1) : Writes(by)[j] = f
<1> DEFINE lead == Lead(by)
<1> DEFINE n == Len(lead)
<1>1. /\ n \in Nat
      /\ Len(Writes(by)) = n + 3
      /\ \A j \in 1..n : Writes(by)[j] = lead[j]
      /\ Writes(by)[n + 1] = "sources.json"
      /\ Writes(by)[n + 2] = "export-info.json"
      /\ Writes(by)[n + 3] = "warnings.json"
  BY WritesEnd
<1>2. \A x : Has(lead, x) <=> x \in PackFiles \/ (by = "device" /\ x \in Sources)
  BY LeadHas
<1>3. ~Has(lead, "export-info.json")
  BY <1>2, ExportAssumption DEF PackFiles, Made
<1> HIDE DEF lead
<1>4. k \notin 1..n
  BY <1>1, <1>3 DEF Has
<1>5. k = n + 2
  BY <1>1, <1>4
<1>6. CASE f = "sources.json"
  BY <1>1, <1>5, <1>6
<1>7. CASE f \in PackFiles
  <2>1. PICK j \in 1..n : lead[j] = f
    BY <1>2, <1>7 DEF Has
  <2>2. j \in 1..(k - 1)
    BY <1>1, <1>5, <2>1
  <2> QED
    BY <1>1, <2>1, <2>2
<1> QED
  BY <1>6, <1>7 DEF Made, PackFiles

-----------------------------------------------------------------------------
(* Export: the invariant.                                                  *)

\* The file is the one that export e writes.
Fresh(e, f) == IF f \in Made THEN made[f] = e ELSE copy[f] = e.read[f]

\* The running export has written all it has passed, but perhaps for
\* warnings.json.
Passed(e, at) ==
    \A k \in 1..(at - 1) :
      LET f == Writes(e.by)[k] IN
      LeftOut(e, f) \/ f = "warnings.json" \/ Fresh(e, f)

Progress ==
    job # Idle =>
      /\ job.export.number = exports
      /\ last = "running"
      /\ job.at <= Len(Writes(job.export.by)) + 1
      /\ Passed(job.export, job.at)

NotAhead ==
    \A f \in Made : made[f] \in Export => made[f].number <= exports

\* A number names one export, and the running one has its own.
OneEach ==
    \A f, g \in Made :
      made[f] \in Export /\ made[g] \in Export /\ made[f].number = made[g].number
        => made[f] = made[g]

OwnNumber ==
    job # Idle =>
      \A f \in Made : made[f] \in Export /\ made[f].number = exports
                       => made[f] = job.export

Finished ==
    last = "ok" =>
      \E e \in Export :
        /\ e.number = exports
        /\ \A f \in Made \ {"warnings.json"} : made[f] = e
        /\ \A s \in Listed(e) : copy[s] = e.read[s]

ExportInv ==
    /\ ExportTypeOK
    /\ Progress
    /\ NotAhead /\ OneEach /\ OwnNumber
    /\ Finished
    /\ InfoIsNeverAhead

LEMMA ExportNumber ==
  ASSUME NEW e \in Export
  PROVE  e.number \in Nat /\ e.number >= 1 /\ e.by \in {"device", "bridge"}
         /\ e.read \in Read
BY ExportAssumption DEF Export

LEMMA Markers == Absent \notin Export /\ Torn \notin Export
BY ExportAssumption

LEMMA JobType ==
  ASSUME ExportTypeOK, job # Idle
  PROVE  /\ job.export \in Export /\ job.at \in Nat \ {0}
         /\ job = [export |-> job.export, at |-> job.at]
BY DEF ExportTypeOK

\* What is due next is a file of the folder.
LEMMA NextType ==
  ASSUME ExportTypeOK, job # Idle, HasNext
  PROVE  /\ job.at \in 1..Len(Writes(job.export.by))
         /\ NextFile \in Sources \cup Made
         /\ job.export.by = "bridge" => NextFile \in Made
<1>1. job.at \in Nat \ {0} /\ Len(Writes(job.export.by)) \in Nat
  BY JobType, WritesEnd
<1>2. job.at \in 1..Len(Writes(job.export.by))
  BY <1>1 DEF HasNext
<1>3. Has(Writes(job.export.by), NextFile)
  BY <1>2 DEF Has, NextFile
<1> QED
  BY <1>2, <1>3, WrittenAll

\* Files that disappear or are torn put no file ahead.
LEMMA ShrinkKeeps ==
  ASSUME NotAhead, OneEach, InfoIsNeverAhead, exports \in Nat, exports' \in Nat,
         exports <= exports',
         \A f \in Made : made'[f] \in {made[f], Absent, Torn}
  PROVE  NotAhead' /\ OneEach' /\ InfoIsNeverAhead'
<1>1. \A f \in Made : made'[f] \in Export => made[f] = made'[f]
  BY Markers
<1>2. NotAhead'
  BY <1>1, ExportNumber DEF NotAhead
<1>3. "export-info.json" \in Made
  BY DEF Made
<1>4. InfoIsNeverAhead'
  BY <1>1, <1>3 DEF InfoIsNeverAhead
<1>5. OneEach'
  BY <1>1 DEF OneEach
<1> QED
  BY <1>2, <1>4, <1>5

\* Nor do they take the number of the running export.
LEMMA ShrinkKeepsOwn ==
  ASSUME OwnNumber, job # Idle, job'.export = job.export, UNCHANGED exports,
         \A f \in Made : made'[f] \in {made[f], Absent, Torn}
  PROVE  OwnNumber'
<1>1. \A f \in Made : made'[f] \in Export => made[f] = made'[f]
  BY Markers
<1> QED
  BY <1>1 DEF OwnNumber

LEMMA PutEffect ==
  ASSUME ExportTypeOK, NEW e, NEW f \in Sources \cup Made, Put(f, e),
         e \in Export \/ (e = Torn /\ f \in Made)
  PROVE  /\ made' \in [Made -> Export \cup {Absent, Torn}]
         /\ copy' \in Read
         /\ \A g \in Made : made'[g] = IF g = f THEN e ELSE made[g]
         /\ \A s \in Sources : copy'[s] = IF s = f THEN e.read[s] ELSE copy[s]
<1>1. CASE f \in Made
  <2>1. made' = [made EXCEPT ![f] = e] /\ copy' = copy
    BY <1>1 DEF Put
  <2>2. f \notin Sources
    BY <1>1, ExportAssumption
  <2> QED
    BY <1>1, <2>1, <2>2 DEF ExportTypeOK
<1>2. CASE f \notin Made
  <2>1. copy' = [copy EXCEPT ![f] = e.read[f]] /\ made' = made
    BY <1>2 DEF Put
  <2>2. f \in Sources /\ e \in Export
    BY <1>2
  <2>3. e.read \in Read
    BY <2>2, ExportNumber
  <2> QED
    BY <1>2, <2>1, <2>2, <2>3 DEF ExportTypeOK, Read
<1> QED
  BY <1>1, <1>2

LEMMA SpoilEffect ==
  ASSUME ExportTypeOK, NEW f \in Sources \cup Made, Spoil(f)
  PROVE  /\ made' \in [Made -> Export \cup {Absent, Torn}]
         /\ copy' \in Read
         /\ \A g \in Made : made'[g] \in {made[g], Absent}
         /\ \A g \in Made : g # f => made'[g] = made[g]
         /\ f \in Made => copy' = copy
<1>1. CASE UNCHANGED <<made, copy>>
  BY <1>1 DEF ExportTypeOK
<1>2. CASE f \in Made /\ made' = [made EXCEPT ![f] = Absent] /\ UNCHANGED copy
  BY <1>2 DEF ExportTypeOK
<1>3. CASE f \notin Made /\ copy' = [copy EXCEPT ![f] = Absent] /\ UNCHANGED made
  BY <1>3 DEF ExportTypeOK, Read
<1> QED
  BY <1>1, <1>2, <1>3 DEF Spoil

\* A write of the running export, of a file that is there or was passed over.
LEMMA ProgressMoves ==
  ASSUME ExportTypeOK, Progress, job # Idle, HasNext, Advance, UNCHANGED exports,
         NEW e, e = job.export, NEW f, f = NextFile,
         LeftOut(e, f) \/ f = "warnings.json" \/ Fresh(e, f)',
         \A g \in Sources \cup Made :
           g # "warnings.json" /\ Fresh(e, g) => Fresh(e, g)'
  PROVE  /\ Progress'
         /\ job' \in [export : Export, at : Nat \ {0}]
         /\ job'.export = e
<1>1. job.at \in 1..Len(Writes(e.by)) /\ e \in Export
  BY NextType, JobType
<1>2. job' = [export |-> e, at |-> job.at + 1]
  <2>1. job = [export |-> e, at |-> job.at]
    BY JobType
  <2> QED
    BY <2>1 DEF Advance
<1>3. \A k \in 1..Len(Writes(e.by)) : Writes(e.by)[k] \in Sources \cup Made
  <2> DEFINE w == Writes(e.by)
  <2>1. w \in Seq(Sources \cup Made)
    BY WritesEnd
  <2> HIDE DEF w
  <2>2. \A k \in 1..Len(w) : w[k] \in Sources \cup Made
    BY <2>1
  <2> QED
    BY <2>2 DEF w
<1>4. job'.export = e /\ job'.at = job.at + 1
  BY <1>2
<1>5. ASSUME NEW k \in 1..job.at
      PROVE  \/ LeftOut(e, Writes(e.by)[k])
             \/ Writes(e.by)[k] = "warnings.json"
             \/ Fresh(e, Writes(e.by)[k])'
  <2>1. CASE k = job.at
    BY <2>1 DEF NextFile
  <2>2. CASE k # job.at
    <3>1. k \in 1..(job.at - 1)
      BY <1>1, <2>2
    <3>2. \/ LeftOut(e, Writes(e.by)[k])
          \/ Writes(e.by)[k] = "warnings.json"
          \/ Fresh(e, Writes(e.by)[k])
      BY <3>1 DEF Progress, Passed
    <3>3. Writes(e.by)[k] \in Sources \cup Made
      BY <1>1, <1>3
    <3> QED
      BY <3>2, <3>3
  <2> QED
    BY <2>1, <2>2
<1>6. \A k \in 1..(job'.at - 1) : k \in 1..job.at
  BY <1>1, <1>4
<1>7. \A k \in 1..(job'.at - 1) :
        \/ LeftOut(e, Writes(e.by)[k])
        \/ Writes(e.by)[k] = "warnings.json"
        \/ IF Writes(e.by)[k] \in Made
            THEN made'[Writes(e.by)[k]] = e
            ELSE copy'[Writes(e.by)[k]] = e.read[Writes(e.by)[k]]
  BY <1>5, <1>6 DEF Fresh
<1>8. Passed(job.export, job.at)'
  BY <1>4, <1>7 DEF Passed, Fresh
<1>9. /\ job'.export.number = exports'
      /\ last' = "running"
      /\ job'.at <= Len(Writes(job'.export.by)) + 1
  BY <1>1, <1>4 DEF Progress, Advance
<1>10. Progress'
  BY <1>8, <1>9 DEF Progress
<1> QED
  BY <1>1, <1>2, <1>4, <1>10

-----------------------------------------------------------------------------
(* Export, step by step.                                                   *)

LEMMA ReadTypes ==
  ASSUME ExportTypeOK
  PROVE  DeviceRead \in Read /\ BridgeRead \in Read
BY DEF ExportTypeOK, DeviceRead, BridgeRead, Read

LEMMA NothingType == Nothing \in Read
BY DEF Nothing, Read

LEMMA ExportInitInv ==
  ASSUME ExportInit
  PROVE  ExportInv
<1>1. ExportTypeOK
  BY NothingType, ExportAssumption DEF ExportInit, ExportTypeOK
<1>2. \A f \in Made : made[f] \notin Export
  BY Markers DEF ExportInit
<1>3. "export-info.json" \in Made
  BY DEF Made
<1> QED
  BY <1>1, <1>2, <1>3 DEF ExportInit, ExportInv, Progress, NotAhead, OneEach, OwnNumber,
     Finished, InfoIsNeverAhead

LEMMA ExportStutter ==
  ASSUME ExportInv, UNCHANGED exportVars
  PROVE  ExportInv'
<1> USE DEF exportVars, ExportInv
<1>1. ExportTypeOK'
  BY DEF ExportTypeOK
<1>2. Progress'
  BY DEF Progress, Passed, Fresh
<1> QED
  BY <1>1, <1>2 DEF NotAhead, OneEach, OwnNumber, Finished, InfoIsNeverAhead

\* Between exports only what they read changes.
LEMMA SourcesChange ==
  ASSUME ExportInv, DocChanges \/ ResultChanges
  PROVE  ExportInv'
<1> USE DEF ExportInv
<1>1. /\ UNCHANGED <<device, made, copy, exports, job, last>>
      /\ job = Idle
  BY DEF DocChanges, ResultChanges
<1>2. \A s \in Sources : Texts[s] \subseteq Text
  BY DEF Text
<1>3. docs' \in Read /\ results' \in Read
  BY <1>2, ExportAssumption DEF DocChanges, ResultChanges, ExportTypeOK, Read
<1>4. ExportTypeOK'
  BY <1>1, <1>3 DEF ExportTypeOK
<1> QED
  BY <1>1, <1>4 DEF Progress, NotAhead, OneEach, OwnNumber, Finished,
     InfoIsNeverAhead, Idle

LEMMA StartKeeps ==
  ASSUME ExportInv, NEW by \in {"device", "bridge"}, NEW read \in Read,
         Start(by, read),
         \/ UNCHANGED <<made, copy>>
         \/ made' = [f \in Made |-> Absent] /\ copy' = Nothing
  PROVE  ExportInv'
<1> USE DEF ExportInv
<1>1. exports \in Nat /\ exports' = exports + 1 /\ exports' \in 1..MaxExports
  BY ExportAssumption DEF Start, ExportTypeOK
<1>2. job' = [export |-> [number |-> exports', by |-> by, read |-> read], at |-> 1]
  BY DEF Start
<1>3. [number |-> exports', by |-> by, read |-> read] \in Export
  BY <1>1 DEF Export
<1>4. job' \in [export : Export, at : Nat \ {0}]
  BY <1>2, <1>3
<1>5. made' \in [Made -> Export \cup {Absent, Torn}] /\ copy' \in Read
  BY NothingType DEF ExportTypeOK
<1>6. ExportTypeOK'
  BY <1>1, <1>4, <1>5 DEF Start, ExportTypeOK
<1>7. Progress'
  <2>1. Len(Writes(by)) \in Nat
    BY WritesEnd
  <2>2. job'.export.number = exports' /\ job'.export.by = by /\ job'.at = 1
    BY <1>2
  <2>3. 1..(job'.at - 1) = {}
    BY <2>2
  <2> QED
    BY <2>1, <2>2, <2>3 DEF Start, Progress, Passed
<1>8. \A f \in Made : made'[f] \in {made[f], Absent, Torn}
  OBVIOUS
<1>9. NotAhead' /\ OneEach' /\ InfoIsNeverAhead'
  BY <1>1, <1>8, ShrinkKeeps
<1>10. OwnNumber'
  <2>1. ASSUME NEW f \in Made, made'[f] \in Export
        PROVE  made'[f].number # exports'
    <3>1. made[f] = made'[f]
      BY <1>8, <2>1, Markers
    <3>2. made[f].number <= exports /\ made[f].number \in Nat
      BY <2>1, <3>1, ExportNumber DEF NotAhead
    <3> QED
      BY <1>1, <3>1, <3>2
  <2> QED
    BY <2>1 DEF OwnNumber
<1> QED
  BY <1>6, <1>7, <1>9, <1>10 DEF Start, Finished

\* An export ends other than well, and the file it was at may be gone.
LEMMA StopKeeps ==
  ASSUME ExportInv, NEW how \in {"failed", "cut"}, Stop(how),
         made' \in [Made -> Export \cup {Absent, Torn}], copy' \in Read,
         \A f \in Made : made'[f] \in {made[f], Absent, Torn},
         UNCHANGED <<device, docs, results>>,
         exports' \in 0..MaxExports, exports <= exports'
  PROVE  ExportInv'
<1> USE DEF ExportInv
<1>1. exports \in Nat /\ exports' \in Nat
  BY ExportAssumption DEF ExportTypeOK
<1>2. NotAhead' /\ OneEach' /\ InfoIsNeverAhead'
  BY <1>1, ShrinkKeeps
<1>3. job' = Idle'
  BY DEF Stop, Idle
<1>4. ExportTypeOK'
  BY <1>3 DEF Stop, ExportTypeOK
<1> QED
  BY <1>2, <1>3, <1>4 DEF Stop, Progress, OwnNumber, Finished

LEMMA WipeEndsKeeps ==
  ASSUME ExportInv, WipeEnds
  PROVE  ExportInv'
<1> USE DEF WipeEnds
<1>1. made' \in [Made -> Export \cup {Absent, Torn}]
      /\ \A f \in Made : made'[f] \in {made[f], Absent}
  BY DEF ExportInv, ExportTypeOK
<1>2. copy' \in Read
  BY DEF ExportInv, ExportTypeOK, Read
<1>3. exports' \in 0..MaxExports /\ exports <= exports'
  BY ExportAssumption DEF ExportInv, ExportTypeOK
<1>4. Stop("cut")
  BY DEF Stop
<1> QED
  BY <1>1, <1>2, <1>3, <1>4, StopKeeps

\* A file is written whole.
LEMMA WriteKeeps ==
  ASSUME ExportInv, job # Idle, HasNext, Put(NextFile, job.export), Advance,
         UNCHANGED <<device, docs, results, exports>>
  PROVE  ExportInv'
<1> USE DEF ExportInv
<1>1. PICK e \in Export : e = job.export
  BY JobType
<1>2. PICK f \in Sources \cup Made : f = NextFile
  BY NextType
<1>3. /\ made' \in [Made -> Export \cup {Absent, Torn}]
      /\ copy' \in Read
      /\ \A g \in Made : made'[g] = IF g = f THEN e ELSE made[g]
      /\ \A s \in Sources : copy'[s] = IF s = f THEN e.read[s] ELSE copy[s]
  BY <1>1, <1>2, PutEffect
<1>4. \A g \in Sources \cup Made : (g = f \/ Fresh(e, g)) => Fresh(e, g)'
  BY <1>3 DEF Fresh
<1>5. Progress' /\ job' \in [export : Export, at : Nat \ {0}] /\ job'.export = e
  BY <1>1, <1>2, <1>4, ProgressMoves
<1>6. ExportTypeOK'
  BY <1>3, <1>5 DEF ExportTypeOK, Advance
<1>7. e.number = exports /\ last = "running"
  BY <1>1 DEF Progress
<1>8. NotAhead'
  BY <1>3, <1>7, ExportNumber DEF NotAhead, ExportTypeOK
<1>9. InfoIsNeverAhead'
  <2>0. "export-info.json" \in Made
    BY DEF Made
  <2>1. CASE f = "export-info.json"
    <3>1. ASSUME NEW g \in Made \ {"export-info.json", "warnings.json"}
          PROVE  made[g] = e
      <4>1. job.at \in 1..Len(Writes(e.by)) /\ Writes(e.by)[job.at] = "export-info.json"
        BY <1>1, <1>2, <2>1, NextType DEF NextFile
      <4>2. PICK j \in 1..(job.at - 1) : Writes(e.by)[j] = g
        BY <4>1, InfoComesLast
      <4>3. LeftOut(e, g) \/ g = "warnings.json" \/ Fresh(e, g)
        BY <1>1, <4>2 DEF Progress, Passed
      <4>4. g \notin Sources
        BY ExportAssumption
      <4> QED
        BY <4>3, <4>4 DEF LeftOut, Fresh
    <3>2. \A g \in Made \ {"warnings.json"} : made'[g] = e
      BY <1>3, <2>1, <3>1
    <3> QED
      BY <2>0, <3>2, ExportNumber DEF InfoIsNeverAhead
  <2>2. CASE f # "export-info.json"
    <3>1. made'["export-info.json"] = made["export-info.json"]
      BY <1>3, <2>0, <2>2
    <3>2. made["export-info.json"] \in Export
            => made["export-info.json"].number <= e.number
      BY <1>7, <2>0 DEF NotAhead
    <3> QED
      BY <1>3, <3>1, <3>2 DEF InfoIsNeverAhead
  <2> QED
    BY <2>1, <2>2
<1>10. OneEach' /\ OwnNumber'
  <2>1. \A g \in Made : made[g] \in Export /\ made[g].number = e.number => made[g] = e
    BY <1>1, <1>7 DEF OwnNumber
  <2>2. OneEach'
    BY <1>3, <2>1 DEF OneEach
  <2>3. OwnNumber'
    BY <1>3, <1>5, <1>7, <2>1 DEF OwnNumber
  <2> QED
    BY <2>2, <2>3
<1> QED
  BY <1>5, <1>6, <1>7, <1>8, <1>9, <1>10 DEF Finished, Advance

\* The bridge has only truncated it so far.
LEMMA TearKeeps ==
  ASSUME ExportInv, job # Idle, job.export.by = "bridge", HasNext,
         Put(NextFile, Torn), UNCHANGED <<job, last>>,
         UNCHANGED <<device, docs, results, exports>>
  PROVE  ExportInv'
<1> USE DEF ExportInv
<1>1. PICK e \in Export : e = job.export
  BY JobType
<1>2. PICK f \in Made : f = NextFile
  BY NextType
<1>3. /\ made' \in [Made -> Export \cup {Absent, Torn}]
      /\ copy' \in Read
      /\ \A g \in Made : made'[g] = IF g = f THEN Torn ELSE made[g]
  BY <1>2, PutEffect
<1>4. ExportTypeOK'
  BY <1>3 DEF ExportTypeOK
<1>5. exports \in Nat
  BY ExportAssumption DEF ExportTypeOK
<1>6. NotAhead' /\ OneEach' /\ InfoIsNeverAhead' /\ OwnNumber'
  BY <1>3, <1>5, ShrinkKeeps, ShrinkKeepsOwn
<1>7. ASSUME NEW k \in 1..(job.at - 1)
      PROVE  LET g == Writes(e.by)[k] IN
             /\ g \in Made /\ g # f
             /\ LeftOut(e, g) \/ g = "warnings.json" \/ Fresh(e, g)
  <2>1. job.at \in 1..6 /\ Writes("bridge")[job.at] = f /\ e.by = "bridge"
    BY <1>1, <1>2, NextType, BridgeWritesDistinct DEF NextFile
  <2>2. k \in 1..6 /\ k # job.at
    BY <2>1
  <2> QED
    BY <1>1, <2>1, <2>2, BridgeWritesDistinct DEF Progress, Passed
<1>8. Passed(job.export, job.at)'
  BY <1>1, <1>3, <1>7 DEF Passed, Fresh
<1> QED
  BY <1>4, <1>6, <1>8 DEF Progress, Finished

LEMMA PassOverKeeps ==
  ASSUME ExportInv, PassOver
  PROVE  ExportInv'
<1> USE DEF PassOver, ExportInv
<1>1. PICK e \in Export : e = job.export
  BY JobType
<1>2. PICK f \in Sources \cup Made : f = NextFile
  BY NextType
<1>3. \A g \in Sources \cup Made : Fresh(e, g) => Fresh(e, g)'
  BY DEF Fresh
<1>4. Progress' /\ job' \in [export : Export, at : Nat \ {0}] /\ job'.export = e
  BY <1>1, <1>2, <1>3, ProgressMoves
<1>5. ExportTypeOK'
  BY <1>4 DEF ExportTypeOK, Advance
<1>6. OwnNumber'
  BY <1>1, <1>4 DEF OwnNumber
<1> QED
  BY <1>4, <1>5, <1>6 DEF NotAhead, OneEach, InfoIsNeverAhead, Finished, Advance

LEMMA DeviceFailsKeeps ==
  ASSUME ExportInv, DeviceFails
  PROVE  ExportInv'
<1> USE DEF ExportInv
<1>0. job # Idle /\ HasNext
  BY DEF DeviceFails, Writing, Running
<1>1. PICK e \in Export : e = job.export
  BY <1>0, JobType
<1>2. PICK f \in Sources \cup Made : f = NextFile
  BY <1>0, NextType
<1>3. /\ made' \in [Made -> Export \cup {Absent, Torn}]
      /\ copy' \in Read
      /\ \A g \in Made : made'[g] \in {made[g], Absent}
      /\ \A g \in Made : g # f => made'[g] = made[g]
      /\ f \in Made => copy' = copy
  BY <1>2, SpoilEffect DEF DeviceFails
<1>4. CASE f = "warnings.json"
  <2>1. Advance
    BY <1>2, <1>4 DEF DeviceFails
  <2>2. f \in Made
    BY <1>4 DEF Made
  <2>3. \A g \in Sources \cup Made :
          g # "warnings.json" /\ Fresh(e, g) => Fresh(e, g)'
    BY <1>3, <1>4, <2>2 DEF Fresh
  <2>4. Progress' /\ job' \in [export : Export, at : Nat \ {0}] /\ job'.export = e
    BY <1>0, <1>1, <1>2, <1>4, <2>1, <2>3, ProgressMoves DEF DeviceFails
  <2>5. ExportTypeOK'
    BY <1>3, <2>1, <2>4 DEF ExportTypeOK, DeviceFails, Advance
  <2>6. NotAhead' /\ OneEach' /\ InfoIsNeverAhead' /\ OwnNumber'
    <3>1. exports \in Nat /\ exports' = exports
      BY ExportAssumption DEF ExportTypeOK, DeviceFails
    <3> QED
      BY <1>0, <1>1, <1>3, <2>4, <3>1, ShrinkKeeps, ShrinkKeepsOwn
  <2> QED
    BY <1>0, <2>1, <2>4, <2>5, <2>6 DEF Finished, Progress, Advance
<1>5. CASE f # "warnings.json"
  <2>1. Stop("failed") /\ UNCHANGED <<device, docs, results, exports>>
    BY <1>2, <1>5 DEF DeviceFails
  <2>2. exports' \in 0..MaxExports /\ exports <= exports'
    BY <2>1, ExportAssumption DEF ExportTypeOK
  <2> QED
    BY <1>3, <2>1, <2>2, StopKeeps
<1> QED
  BY <1>4, <1>5

LEMMA BridgeFailsKeeps ==
  ASSUME ExportInv, BridgeFails
  PROVE  ExportInv'
<1>1. exports' \in 0..MaxExports /\ exports <= exports'
  BY ExportAssumption DEF ExportInv, ExportTypeOK, BridgeFails
<1> QED
  BY <1>1, StopKeeps DEF ExportInv, ExportTypeOK, BridgeFails

LEMMA PowerCutKeeps ==
  ASSUME ExportInv, PowerCut
  PROVE  ExportInv'
<1>1. exports' \in 0..MaxExports /\ exports <= exports'
  BY ExportAssumption DEF ExportInv, ExportTypeOK, PowerCut
<1>2. /\ made' \in [Made -> Export \cup {Absent, Torn}]
      /\ copy' \in Read
      /\ \A g \in Made : made'[g] \in {made[g], Absent, Torn}
  <2>1. CASE UNCHANGED <<made, copy>>
    BY <2>1 DEF ExportInv, ExportTypeOK
  <2>2. CASE Writing("device") /\ Spoil(NextFile)
    <3>1. NextFile \in Sources \cup Made
      BY <2>2, NextType DEF Writing, Running, ExportInv
    <3> QED
      BY <2>2, <3>1, SpoilEffect DEF ExportInv
  <2> QED
    BY <2>1, <2>2 DEF PowerCut
<1> QED
  BY <1>1, <1>2, StopKeeps DEF PowerCut

LEMMA FinishKeeps ==
  ASSUME ExportInv, Finish
  PROVE  ExportInv'
<1> USE DEF ExportInv, Finish
<1>1. PICK e \in Export : e = job.export
  BY JobType
<1>2. e.number = exports
  BY <1>1 DEF Progress
<1>3. ASSUME NEW x, Has(Writes(e.by), x), ~LeftOut(e, x), x # "warnings.json"
      PROVE  Fresh(e, x)
  <2>1. job.at = Len(Writes(e.by)) + 1
    <3>1. job.at \in Nat /\ Len(Writes(e.by)) \in Nat
      BY JobType, WritesEnd
    <3> QED
      BY <1>1, <3>1 DEF Progress, HasNext
  <2>2. PICK k \in 1..Len(Writes(e.by)) : Writes(e.by)[k] = x
    BY <1>3 DEF Has
  <2>3. k \in 1..(job.at - 1)
    BY <2>1
  <2> QED
    BY <1>1, <1>3, <2>2, <2>3 DEF Progress, Passed
<1>4. \A f \in Made \ {"warnings.json"} : made[f] = e
  <2> SUFFICES ASSUME NEW f \in Made \ {"warnings.json"}
               PROVE  made[f] = e
    OBVIOUS
  <2>1. Has(Writes(e.by), f)
    BY WrittenAll
  <2>2. ~LeftOut(e, f)
    BY ExportAssumption DEF LeftOut
  <2> QED
    BY <1>3, <2>1, <2>2 DEF Fresh
<1>5. \A s \in Listed(e) : copy[s] = e.read[s]
  <2> SUFFICES ASSUME NEW s \in Listed(e)
               PROVE  copy[s] = e.read[s]
    OBVIOUS
  <2>1. e.by = "device" /\ s \in Present(e)
    BY DEF Listed
  <2>2. s \in Sources /\ s \notin Made
    BY <2>1, ExportAssumption DEF Present
  <2>3. Has(Writes(e.by), s)
    BY <2>1, <2>2, WrittenAll
  <2>4. s # "warnings.json"
    BY <2>2 DEF Made
  <2>5. ~LeftOut(e, s)
    BY <2>1, <2>4 DEF LeftOut
  <2> QED
    BY <1>3, <2>2, <2>3, <2>4, <2>5 DEF Fresh
<1>6. Finished'
  BY <1>2, <1>4, <1>5 DEF Finished
<1>7. job' = Idle'
  BY DEF Stop, Idle
<1>8. ExportTypeOK'
  BY <1>7 DEF ExportTypeOK, Stop
<1> QED
  BY <1>6, <1>7, <1>8 DEF Progress, NotAhead, OneEach, OwnNumber, InfoIsNeverAhead

LEMMA ExportStep ==
  ASSUME ExportInv, ExportNext
  PROVE  ExportInv'
<1>1. CASE DeviceExport
  BY <1>1, StartKeeps, ReadTypes DEF DeviceExport, ExportInv
<1>2. CASE BridgeExport
  BY <1>2, StartKeeps, ReadTypes DEF BridgeExport, ExportInv
<1>3. CASE DeviceWrites
  BY <1>3, WriteKeeps DEF DeviceWrites, Writing, Running
<1>4. CASE BridgeWrites
  BY <1>4, WriteKeeps, TearKeeps DEF BridgeWrites, Writing, Running
<1> QED
  BY <1>1, <1>2, <1>3, <1>4, DeviceFailsKeeps, WipeEndsKeeps, BridgeFailsKeeps,
     PassOverKeeps, FinishKeeps, PowerCutKeeps, SourcesChange DEF ExportNext

LEMMA ExportSpecInv == ExportSpec => []ExportInv
<1>1. ExportInit => ExportInv
  BY ExportInitInv
<1>2. ExportInv /\ [ExportNext]_exportVars => ExportInv'
  BY ExportStep, ExportStutter
<1> QED
  BY <1>1, <1>2, PTL DEF ExportSpec

\* Both programs leave every file of export/ an export of theirs, cut short or
\* absent (agent_pack_exporter.cpp, export.py).
THEOREM ExportTypes == ExportSpec => []ExportTypeOK
<1>1. ExportInv => ExportTypeOK
  BY DEF ExportInv
<1> QED
  BY <1>1, ExportSpecInv, PTL

\* What sources.json compares of the three files of the pack.
LEMMA PackCompared ==
  ASSUME NEW e, \A k \in 1..Len(Pack) : SameFile(Pack[k], made[Pack[k]], e)
  PROVE  \A f \in PackFiles : SameFile(f, made[f], e)
<1>1. /\ Len(Pack) = 3 /\ Pack[1] = "agent-pack.md"
      /\ Pack[2] = "agent-tasks.json" /\ Pack[3] = "README.md"
  BY DEF Pack
<1>2. /\ SameFile(Pack[1], made[Pack[1]], e)
      /\ SameFile(Pack[2], made[Pack[2]], e)
      /\ SameFile(Pack[3], made[Pack[3]], e)
  BY <1>1
<1> QED
  BY <1>1, <1>2 DEF PackFiles

LEMMA SameAsItself ==
  ASSUME NEW e \in Export, NEW f \in PackFiles
  PROVE  SameFile(f, e, e)
BY Markers DEF SameFile, PackFiles

(***************************************************************************)
(* After "Export done" the folder is complete: the hashes of sources.json  *)
(* fit, and all five files come from this export, whatever the exports of  *)
(* either program that failed or were cut short had left.                  *)
(***************************************************************************)
THEOREM DoneIsCompleteTheorem == ExportSpec => []DoneIsComplete
<1>1. ExportInv => DoneIsComplete
  <2> SUFFICES ASSUME ExportInv, last = "ok"
               PROVE  /\ Verifies
                      /\ \A f \in Made \ {"warnings.json"} :
                           made[f] \in Export /\ made[f].number = exports
    BY DEF DoneIsComplete
  <2>1. PICK e \in Export :
          /\ e.number = exports
          /\ \A f \in Made \ {"warnings.json"} : made[f] = e
          /\ \A s \in Listed(e) : copy[s] = e.read[s]
    BY DEF ExportInv, Finished
  <2>2. made["sources.json"] = e
    BY <2>1 DEF Made
  <2>3. ASSUME NEW k \in 1..Len(Pack)
        PROVE  SameFile(Pack[k], made[Pack[k]], e)
    <3>1. Pack[k] \in PackFiles
      BY PackHas
    <3>2. made[Pack[k]] = e
      BY <2>1, <3>1 DEF PackFiles, Made
    <3> QED
      BY <3>1, <3>2, SameAsItself
  <2>4. Verifies
    BY <2>1, <2>2, <2>3, Markers DEF Verifies
  <2> QED
    BY <2>1, <2>4
<1> QED
  BY <1>1, ExportSpecInv, PTL

(***************************************************************************)
(* A folder that mixes exports does not verify: the hashes of sources.json *)
(* tie agent-pack.md to the copies beside it, to the tasks of the same     *)
(* tasks.json and, through the number in README.md, to one export that     *)
(* read all of it.                                                         *)
(***************************************************************************)
THEOREM MixtureIsNoticedTheorem == ExportSpec => []MixtureIsNoticed
<1>1. ExportInv => MixtureIsNoticed
  <2> DEFINE e == made["sources.json"]
             pack == made["agent-pack.md"]
             tasks == made["agent-tasks.json"]
             readme == made["README.md"]
  <2> SUFFICES ASSUME ExportInv, Verifies
               PROVE  /\ pack.by = "device" =>
                           \A s \in Sources :
                             pack.read[s] # Absent => copy[s] = pack.read[s]
                      /\ tasks.read[TasksJson] = pack.read[TasksJson]
                      /\ readme.read = pack.read
    BY DEF MixtureIsNoticed
  <2>1. /\ SameFile("agent-pack.md", pack, e)
        /\ SameFile("agent-tasks.json", tasks, e)
        /\ SameFile("README.md", readme, e)
    BY PackCompared DEF Verifies, PackFiles
  <2>2. \A s \in Listed(e) : copy[s] = e.read[s]
    BY DEF Verifies
  <2>3. readme.number = e.number => readme = e
    <3>1. readme \in Export /\ e \in Export
      BY <2>1 DEF ExportInv, ExportTypeOK, Verifies, SameFile, Made
    <3> QED
      BY <3>1 DEF ExportInv, OneEach, Made
  <2> HIDE DEF e, pack, tasks, readme
  <2>4. pack.by = e.by /\ pack.read = e.read
        /\ tasks.read[TasksJson] = e.read[TasksJson]
        /\ readme.number = e.number
    BY <2>1 DEF SameFile
  <2> QED
    BY <2>2, <2>3, <2>4 DEF Listed, Present
<1> QED
  BY <1>1, ExportSpecInv, PTL

(***************************************************************************)
(* export-info.json is never ahead of the files it vouches for, whatever   *)
(* is cut short: it is written after all of them.                          *)
(***************************************************************************)
THEOREM InfoIsNeverAheadTheorem == ExportSpec => []InfoIsNeverAhead
<1>1. ExportInv => InfoIsNeverAhead
  BY DEF ExportInv
<1> QED
  BY <1>1, ExportSpecInv, PTL
=============================================================================
