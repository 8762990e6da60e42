------------------------------ MODULE ResultDir ------------------------------
(***************************************************************************)
(* outbox/results/<id>/ as the bridge leaves it to the firmware: the       *)
(* artifacts, and result.json as the firmware's validate_manifest takes    *)
(* it.  An artifact is its position in artifact_filenames(), which is the  *)
(* order the bridge writes them in; its content is the number of the       *)
(* bridge run that wrote it.                                               *)
(***************************************************************************)
EXTENDS Integers

CONSTANTS NumArtifacts,  \* how many names artifact_filenames() lists
          MaxRuns        \* bound on the bridge runs explored

ASSUME ResultDirAssumption ==
    /\ NumArtifacts \in Nat \ {0}
    /\ MaxRuns \in Nat

Artifacts == 1..NumArtifacts
Missing == 0
Content == 0..MaxRuns
Artset == [Artifacts -> Content]
NoArtifacts == [a \in Artifacts |-> Missing]

\* run: the run all of this came from, or Missing if no one run did.
Dir == [manifest : {"none", "torn", "ok", "error"},
        run : Content, art : Artset]

NoDir == [manifest |-> "none", run |-> Missing, art |-> NoArtifacts]

\* A complete run.
Whole(n) == [manifest |-> "ok", run |-> n, art |-> [a \in Artifacts |-> n]]

\* A run cut short while it wiped what an earlier one left: rmtree takes the
\* entries in any order, the manifest too.
Wiped(d) ==
    {[manifest |-> m, run |-> Missing,
      art |-> [a \in Artifacts |-> IF a \in kept THEN d.art[a] ELSE Missing]] :
        m \in {d.manifest, "none"}, kept \in SUBSET Artifacts}

\* A run cut short while it wrote: the artifacts in order, result.json last.
FirstOf(n, k) == [a \in Artifacts |-> IF a <= k THEN n ELSE Missing]

Cut(n) ==
    {[manifest |-> "none", run |-> Missing, art |-> FirstOf(n, k)] :
        k \in 0..NumArtifacts}
      \cup {[manifest |-> "torn", run |-> Missing,
             art |-> FirstOf(n, NumArtifacts)]}

\* write_error_manifest replaces the manifest and leaves the artifacts.
Errored(d) == {[d EXCEPT !.manifest = m] : m \in {"error", "torn"}}

\* All that run n can leave of the directory d.
Outcomes(d, n) == {d, Whole(n)} \cup Wiped(d) \cup Cut(n) \cup Errored(d)
=============================================================================
