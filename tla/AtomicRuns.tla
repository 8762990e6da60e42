----------------------------- MODULE AtomicRuns -----------------------------
(***************************************************************************)
(* What a bridge run does to outbox/results/<id>/, as the firmware's side  *)
(* (module Staging) takes it: a run is one step, after which the directory *)
(* is one of ResultDir's Outcomes.  Between runs artifacts are moved away. *)
(***************************************************************************)
EXTENDS ResultDir

VARIABLES dir,   \* outbox/results/<id>/
          runs   \* the runs so far

vars == <<dir, runs>>

Init ==
    /\ dir = NoDir
    /\ runs = 0

BridgeRuns ==
    /\ runs < MaxRuns
    /\ runs' = runs + 1
    /\ dir' \in Outcomes(dir, runs + 1)

Drain(a) ==
    /\ dir.art[a] # Missing
    /\ dir' = [dir EXCEPT !.art[a] = Missing]
    /\ UNCHANGED runs

Next == BridgeRuns \/ \E a \in Artifacts : Drain(a)

Spec == Init /\ [][Next]_vars
=============================================================================
