------------------------------ MODULE Lifecycle ------------------------------
(***************************************************************************)
(* What the outbox promises for one request after another: requests are    *)
(* queued in order; each is worked on only from "pending", ends only from  *)
(* "in_flight", can be queued again only from an end, and is forgotten     *)
(* only once it is done.  A lossy store may lose all of them at once.      *)
(***************************************************************************)
EXTENDS Integers

CONSTANT MaxSlots  \* how many requests are ever queued

VARIABLES stage,   \* where each request is, in the order they were queued
          queued,  \* how many have been queued
          lossy    \* the store's write_file is not atomic

vars == <<stage, queued, lossy>>

Slots == 1..MaxSlots
Stages == {"absent", "pending", "in_flight", "done", "error", "dropped"}

Edges == { <<"pending", "in_flight">>,
           <<"in_flight", "done">>, <<"in_flight", "error">>,
           <<"error", "pending">>, <<"done", "pending">>,
           <<"done", "dropped">> }

Init ==
    /\ stage = [s \in Slots |-> "absent"]
    /\ queued = 0
    /\ lossy \in BOOLEAN

Submit ==
    /\ queued < MaxSlots
    /\ queued' = queued + 1
    /\ stage' = [stage EXCEPT ![queued + 1] = "pending"]

\* One call may move several requests: a compaction, or rows sharing an id.
Move ==
    /\ stage' \in [Slots -> Stages]
    /\ \A s \in Slots : \/ stage'[s] = stage[s]
                        \/ <<stage[s], stage'[s]>> \in Edges
    /\ UNCHANGED queued

Lose ==
    /\ lossy
    /\ stage' = [s \in Slots |-> IF s <= queued THEN "dropped" ELSE "absent"]
    /\ UNCHANGED queued

Next == (Submit \/ Move \/ Lose) /\ UNCHANGED lossy

Spec == Init /\ [][Next]_vars
=============================================================================
