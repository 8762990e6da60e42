--------------------------- MODULE Pipeline_proofs ---------------------------
(***************************************************************************)
(* Proofs about Staging and Pipeline, for any number of requests,          *)
(* projects, artifacts and runs.  Staging, on both builds, with write      *)
(* errors and power cuts: no artifact is lost and a successful accept      *)
(* delivers.  Pipeline: it implements Staging; on the host done rows have  *)
(* entries, only what was reviewed reaches a project while no write fails, *)
(* and a decision is final while no call is cut short.                     *)
(***************************************************************************)
EXTENDS Pipeline, TLAPS

-----------------------------------------------------------------------------
(* Staging.                                                                *)

\* Where copies of an artifact of one request coexist, results/ has the
\* newest and rejected/ the oldest.
Order ==
    \A id \in Ids, a \in Artifacts :
      /\ results[id].art[a] # Missing
           => /\ staging[id].art[a] <= results[id].art[a]
              /\ rejected[id].art[a] <= results[id].art[a]
      /\ staging[id].art[a] # Missing
           => rejected[id].art[a] <= staging[id].art[a]

\* No run is newer than the last one, and where results/ has a complete run
\* nothing of the request is newer and nothing in results/ is older.
Dated ==
    \A id \in Ids, a \in Artifacts :
      /\ results[id].art[a] <= runs
      /\ staging[id].art[a] <= runs
      /\ rejected[id].art[a] <= runs
      /\ results[id].manifest = "ok" /\ results[id].run # Missing
           => /\ results[id].art[a] \in {Missing, results[id].run}
              /\ staging[id].art[a] <= results[id].run
              /\ rejected[id].art[a] <= results[id].run

CallShape ==
    op.kind # "idle" =>
      /\ op.out = "none"
      /\ op.kind = "stage" => op.pass = "results"
      /\ op.kind = "reject" => op.pass = "staging"
      /\ op.at = "drop" => op.i \in Artifacts
      /\ op.at = "mark" => op.kind = "reject"

\* A source is dropped only when its body has arrived.
Arrived ==
    op.kind # "idle" /\ op.at = "drop" =>
      /\ Source[op.i] # Missing
      /\ op.kind = "stage" => staging[op.id].art[op.i] = Source[op.i]
      /\ op.kind = "accept" =>
           /\ reached[op.id][op.i] >= Source[op.i]
           /\ project[ProjectOf[op.id]][op.i] # Missing
      /\ op.kind = "reject" => rejected[op.id].art[op.i] = Source[op.i]

\* The artifacts a running accept is done with, as far as what the user was
\* shown is concerned.
Done(a) == \/ op.pass = "results"
           \/ a < op.i
           \/ a = op.i /\ op.at = "drop"

Shown ==
    op.kind = "accept" =>
      \A a \in Artifacts :
        /\ results[op.id].art[a] # Missing
             => op.shown[a] <= results[op.id].art[a]
        /\ op.shown[a] # Missing =>
             IF Done(a) THEN op.shown[a] <= project[ProjectOf[op.id]][a]
                        ELSE staging[op.id].art[a] = op.shown[a]

\* On firmware nothing is ever removed from results/.
CopiesOnly ==
    ~moves =>
      /\ op.kind # "idle" => op.at # "drop"
      /\ \A id \in Ids, a \in Artifacts :
           results[id].manifest = "ok" /\ results[id].run # Missing
             => results[id].art[a] = results[id].run

Inv == /\ TypeOK
       /\ Order
       /\ Dated
       /\ CallShape
       /\ Arrived
       /\ Shown
       /\ NothingLost

-----------------------------------------------------------------------------
(* Types.                                                                  *)

Returns == {"none", "ok", "err", "crash"}

\* What any outcome of run n has in common.
LEMMA OutcomeShape ==
  ASSUME NEW old \in Dir, NEW n \in Content
  PROVE  \A d \in Outcomes(old, n) :
           /\ d \in Dir
           /\ \A a \in Artifacts : d.art[a] \in {Missing, old.art[a], n}
           /\ d.manifest = "ok" /\ d.run # Missing =>
                \/ d = old
                \/ d.run = n /\ (\A a \in Artifacts : d.art[a] = n)
<1> SUFFICES ASSUME NEW d \in Outcomes(old, n)
             PROVE  /\ d \in Dir
                    /\ \A a \in Artifacts :
                         d.art[a] \in {Missing, old.art[a], n}
                    /\ d.manifest = "ok" /\ d.run # Missing =>
                         \/ d = old
                         \/ d.run = n /\ (\A a \in Artifacts : d.art[a] = n)
  OBVIOUS
<1>1. Missing \in Content
  BY ResultDirAssumption DEF Missing, Content
<1>2. CASE d = old
  BY <1>2
<1>3. CASE d = Whole(n)
  BY <1>3 DEF Whole, Dir, Artset
<1>4. CASE d \in Wiped(old)
  <2>1. PICK m \in {old.manifest, "none"}, kept \in SUBSET Artifacts :
          d = [manifest |-> m, run |-> Missing,
               art |-> [a \in Artifacts |-> IF a \in kept THEN old.art[a]
                                                          ELSE Missing]]
    BY <1>4 DEF Wiped
  <2>2. d.run = Missing
    BY <2>1
  <2>3. \A a \in Artifacts : d.art[a] \in {Missing, old.art[a]}
    BY <2>1
  <2>4. d \in Dir
    <3>1. d.art \in Artset
      BY <1>1, <2>1 DEF Dir, Artset
    <3>2. QED
      BY <1>1, <2>1, <3>1 DEF Dir
  <2>5. QED
    BY <2>2, <2>3, <2>4
<1>5. CASE d \in Cut(n)
  BY <1>1, <1>5 DEF Cut, FirstOf, Dir, Artset
<1>6. CASE d \in Errored(old)
  BY <1>6 DEF Errored, Dir
<1>7. QED
  BY <1>2, <1>3, <1>4, <1>5, <1>6 DEF Outcomes

LEMMA IdleType ==
  ASSUME NEW o \in Returns
  PROVE  Idle(o) \in Call /\ Idle(o).kind = "idle" /\ Idle(o).out = o
<1>1. NoArtifacts \in Artset
  BY ResultDirAssumption DEF NoArtifacts, Artset, Content, Missing
<1>2. QED
  BY <1>1, ResultDirAssumption DEF Idle, Call, Returns

LEMMA SetArt ==
  ASSUME NEW f \in [Ids -> Entry], NEW id \in Ids, NEW a \in Artifacts,
         NEW c \in Content
  PROVE  [f EXCEPT ![id].art[a] = c] \in [Ids -> Entry]
BY DEF Entry, Artset

LEMMA SetResult ==
  ASSUME NEW f \in [Ids -> Dir], NEW id \in Ids, NEW a \in Artifacts,
         NEW c \in Content
  PROVE  [f EXCEPT ![id].art[a] = c] \in [Ids -> Dir]
BY DEF Dir, Artset

LEMMA SetReached ==
  ASSUME NEW f \in [Ids -> Artset], NEW id \in Ids, NEW a \in Artifacts,
         NEW c \in Content
  PROVE  [f EXCEPT ![id][a] = Newer(@, c)] \in [Ids -> Artset]
<1>1. Newer(f[id][a], c) \in Content
  BY DEF Newer, Artset
<1> QED
  BY <1>1 DEF Artset

LEMMA SetMeta ==
  ASSUME NEW f \in [Ids -> Entry], NEW id \in Ids,
         NEW m \in {"none", "pending", "accepted", "rejected"}
  PROVE  [f EXCEPT ![id].meta = m] \in [Ids -> Entry]
BY DEF Entry

LEMMA NextArtifactType ==
  ASSUME op \in Call, op.i \in Artifacts
  PROVE  /\ NextArtifact \in Call
         /\ NextArtifact.kind = op.kind
         /\ NextArtifact.id = op.id
<1>1. op.i + 1 \in 1..(NumArtifacts + 1)
  BY ResultDirAssumption DEF Artifacts
<1>2. QED
  BY <1>1 DEF NextArtifact, Call

LEMMA BeginType ==
  ASSUME TypeOK, NEW id \in Ids,
         NEW kind \in {"stage", "accept", "reject"},
         NEW pass \in {"results", "staging"},
         Begin(kind, id, pass)
  PROVE  op' \in Call /\ op'.id = id /\ op'.kind = kind
<1>1. staging[id].art \in Artset
  BY DEF TypeOK, Entry
<1>2. 1 \in 1..(NumArtifacts + 1)
  BY ResultDirAssumption
<1>3. QED
  BY <1>1, <1>2 DEF Begin, Call

LEMMA SourceType ==
  ASSUME TypeOK, Moving
  PROVE  Source[op.i] \in Content /\ op.id \in Ids /\ op.i \in Artifacts
BY DEF TypeOK, Moving, Source, Dir, Entry, Artset

LEMMA WriteDueIds ==
  ASSUME TypeOK, WriteDue
  PROVE  op.kind # "idle" /\ op.id \in Ids
BY DEF TypeOK, WriteDue, Moving, LoopDone

LEMMA InitType == Init => TypeOK
<1> SUFFICES ASSUME Init PROVE TypeOK
  OBVIOUS
<1>1. NoArtifacts \in Artset /\ 0 \in Content
  BY ResultDirAssumption DEF NoArtifacts, Artset, Content, Missing
<1>2. op \in Call /\ op.kind = "idle"
  BY IdleType DEF Init, Returns
<1>3. QED
  BY <1>1, <1>2 DEF Init, TypeOK, Dir, NoDir, Entry, Missing

LEMMA NextType == TypeOK /\ [Next]_vars => TypeOK'
<1> SUFFICES ASSUME TypeOK, [Next]_vars PROVE TypeOK'
  OBVIOUS
<1>m. UNCHANGED moves
  BY DEF Next, vars
<1> USE <1>m
<1>1. ASSUME NEW id \in Ids, BridgeRuns(id) PROVE TypeOK'
  <2>1. runs + 1 \in Content
    BY <1>1, ResultDirAssumption DEF BridgeRuns, TypeOK, Content
  <2>2. results[id] \in Dir
    BY DEF TypeOK
  <2>3. \A d \in Outcomes(results[id], runs + 1) : d \in Dir
    BY <2>1, <2>2, OutcomeShape
  <2>4. results' \in [Ids -> Dir]
    BY <1>1, <2>3 DEF BridgeRuns, TypeOK
  <2>5. QED
    BY <1>1, <2>1, <2>4 DEF BridgeRuns, TypeOK
<1>3. ASSUME NEW id \in Ids, StageOnly(id) PROVE TypeOK'
  <2>1. op' \in Call /\ (op'.kind # "idle" => op'.id \in Ids)
    BY <1>3, BeginType, IdleType DEF StageOnly, Staged, NoRowOrBadSlug, Returns
  <2>2. QED
    BY <1>3, <2>1 DEF StageOnly, Staged, NoRowOrBadSlug, TypeOK
<1>4. ASSUME NEW id \in Ids, Accept(id) PROVE TypeOK'
  BY <1>4, BeginType DEF Accept, TypeOK
<1>5. ASSUME NEW id \in Ids, Reject(id) PROVE TypeOK'
  BY <1>5, BeginType DEF Reject, TypeOK
<1>6. CASE MoveSkip
  BY <1>6, NextArtifactType DEF MoveSkip, Moving, TypeOK
<1>7. CASE MoveCopy
  <2>1. /\ op' \in Call
        /\ op'.kind = op.kind /\ op'.id = op.id
    <3>1. [op EXCEPT !.at = "drop"] \in Call
      BY DEF TypeOK, Call
    <3>2. QED
      BY <1>7, <3>1, NextArtifactType DEF MoveCopy, Moving, TypeOK
  <2>2. Source[op.i] \in Content /\ op.id \in Ids /\ op.i \in Artifacts
    BY <1>7, SourceType DEF MoveCopy
  <2>3. /\ staging' \in [Ids -> Entry]
        /\ rejected' \in [Ids -> Entry]
        /\ project' \in [Projects -> Artset]
        /\ reached' \in [Ids -> Artset]
    <3>1. CopyTo(Source[op.i])
      BY <1>7 DEF MoveCopy
    <3>2. ProjectOf[op.id] \in Projects
      BY <2>2, StagingAssumption
    <3>3. [project EXCEPT ![ProjectOf[op.id]][op.i] = Source[op.i]]
            \in [Projects -> Artset]
      BY <2>2, <3>2 DEF TypeOK, Artset
    <3>4. /\ staging \in [Ids -> Entry]
          /\ rejected \in [Ids -> Entry]
          /\ project \in [Projects -> Artset]
          /\ reached \in [Ids -> Artset]
      BY DEF TypeOK
    <3>5. CASE op.kind = "stage"
      BY <2>2, <3>1, <3>4, <3>5, SetArt DEF CopyTo
    <3>6. CASE op.kind = "accept"
      BY <2>2, <3>1, <3>3, <3>4, <3>6, SetReached DEF CopyTo
    <3>7. CASE op.kind = "reject"
      BY <2>2, <3>1, <3>4, <3>7, SetArt DEF CopyTo
    <3>8. QED
      BY <3>1, <3>5, <3>6, <3>7 DEF CopyTo
  <2>4. QED
    BY <1>7, <2>1, <2>2, <2>3 DEF MoveCopy, TypeOK
<1>8. CASE MoveDrop
  <2>1. op.id \in Ids /\ op.i \in Artifacts /\ Missing \in Content
    BY <1>8, ResultDirAssumption DEF MoveDrop, Moving, TypeOK, Missing, Content
  <2>2. results' \in [Ids -> Dir] /\ staging' \in [Ids -> Entry]
    <3>1. results \in [Ids -> Dir] /\ staging \in [Ids -> Entry]
      BY DEF TypeOK
    <3>2. CASE UNCHANGED <<results, staging>>
      BY <3>1, <3>2
    <3>3. CASE DropSource
      BY <2>1, <3>1, <3>3, SetArt, SetResult DEF DropSource
    <3>4. QED
      BY <1>8, <3>2, <3>3 DEF MoveDrop
  <2>3. op' \in Call /\ op'.id = op.id
    BY <1>8, NextArtifactType DEF MoveDrop, Moving, TypeOK
  <2>4. QED
    BY <1>8, <2>1, <2>2, <2>3 DEF MoveDrop, TypeOK
<1>9. CASE StageMeta
  <2>1. op.id \in Ids
    BY <1>9 DEF StageMeta, LoopDone, TypeOK
  <2>2. QED
    BY <1>9, <2>1, SetMeta, IdleType DEF StageMeta, TypeOK, Returns
<1>10. CASE AcceptResults
  <2>1. 1 \in 1..(NumArtifacts + 1)
    BY ResultDirAssumption
  <2>2. op' \in Call /\ op'.kind = op.kind /\ op'.id = op.id
    BY <1>10, <2>1 DEF AcceptResults, TypeOK, Call
  <2>3. QED
    BY <1>10, <2>2 DEF AcceptResults, TypeOK
<1>11. CASE AcceptMeta
  <2>1. op.id \in Ids
    BY <1>11 DEF AcceptMeta, LoopDone, TypeOK
  <2>2. QED
    BY <1>11, <2>1, SetMeta, IdleType DEF AcceptMeta, TypeOK, Returns
<1>12. CASE RejectMeta
  <2>1. op.id \in Ids
    BY <1>12 DEF RejectMeta, LoopDone, TypeOK
  <2>2. op' \in Call /\ op'.kind = op.kind /\ op'.id = op.id
    BY <1>12 DEF RejectMeta, TypeOK, Call
  <2>3. QED
    BY <1>12, <2>1, <2>2, SetMeta DEF RejectMeta, TypeOK
<1>13. CASE RejectMark
  <2>1. op.id \in Ids
    BY <1>13 DEF RejectMark, TypeOK
  <2>2. QED
    BY <1>13, <2>1, SetMeta, IdleType DEF RejectMark, TypeOK, Returns
<1>14. CASE WriteFails
  BY <1>14, IdleType DEF WriteFails, TypeOK, Returns
<1>15. CASE PowerCut
  BY <1>15, IdleType DEF PowerCut, TypeOK, Returns
<1>16. CASE SdWriteLoses
  <2>1. op' \in Call /\ op'.kind = "idle" /\ UNCHANGED <<results, runs>>
    BY <1>16, IdleType DEF SdWriteLoses, Returns
  <2>2. /\ staging \in [Ids -> Entry] /\ rejected \in [Ids -> Entry]
        /\ project \in [Projects -> Artset] /\ reached \in [Ids -> Artset]
    BY DEF TypeOK
  <2>3. ASSUME Moving, CopyTo(Missing)
        PROVE  /\ staging' \in [Ids -> Entry] /\ rejected' \in [Ids -> Entry]
               /\ project' \in [Projects -> Artset]
               /\ reached' \in [Ids -> Artset]
    <3>1. op.id \in Ids /\ op.i \in Artifacts /\ Missing \in Content
      BY <2>3, ResultDirAssumption DEF Moving, TypeOK, Missing, Content
    <3>2. ProjectOf[op.id] \in Projects
      BY <3>1, StagingAssumption
    <3>3. [project EXCEPT ![ProjectOf[op.id]][op.i] = Missing]
            \in [Projects -> Artset]
      BY <2>2, <3>1, <3>2 DEF Artset
    <3>4. /\ [staging EXCEPT ![op.id].art[op.i] = Missing] \in [Ids -> Entry]
          /\ [rejected EXCEPT ![op.id].art[op.i] = Missing] \in [Ids -> Entry]
      BY <2>2, <3>1, SetArt
    <3>5. CASE op.kind = "stage"
      BY <2>2, <2>3, <3>4, <3>5 DEF CopyTo
    <3>6. CASE op.kind = "accept"
      BY <2>2, <2>3, <3>1, <3>3, <3>6, SetReached DEF CopyTo
    <3>7. CASE op.kind = "reject"
      BY <2>2, <2>3, <3>4, <3>7 DEF CopyTo
    <3> QED
      BY <2>3, <3>5, <3>6, <3>7 DEF CopyTo
  <2>4. ASSUME rejected' = [rejected EXCEPT ![op.id].meta = "none"],
               UNCHANGED <<staging, project, reached>>
        PROVE  /\ staging' \in [Ids -> Entry] /\ rejected' \in [Ids -> Entry]
               /\ project' \in [Projects -> Artset]
               /\ reached' \in [Ids -> Artset]
    BY <1>16, <2>2, <2>4, WriteDueIds, SetMeta DEF SdWriteLoses
  <2>5. ASSUME staging' = [staging EXCEPT ![op.id].meta = "none"],
               UNCHANGED <<rejected, project, reached>>
        PROVE  /\ staging' \in [Ids -> Entry] /\ rejected' \in [Ids -> Entry]
               /\ project' \in [Projects -> Artset]
               /\ reached' \in [Ids -> Artset]
    BY <1>16, <2>2, <2>5, WriteDueIds, SetMeta DEF SdWriteLoses
  <2>6. /\ staging' \in [Ids -> Entry] /\ rejected' \in [Ids -> Entry]
        /\ project' \in [Projects -> Artset] /\ reached' \in [Ids -> Artset]
    BY <1>16, <2>3, <2>4, <2>5 DEF SdWriteLoses
  <2> QED
    BY <2>1, <2>6 DEF TypeOK
<1>17. CASE UNCHANGED vars
  BY <1>17 DEF vars, TypeOK
<1>18. QED
  BY <1>1, <1>3, <1>4, <1>5, <1>6, <1>7, <1>8, <1>9, <1>10, <1>11,
     <1>12, <1>13, <1>14, <1>15, <1>16, <1>17 DEF Next, Step

-----------------------------------------------------------------------------
(* The invariant, one lemma per group of steps with the same effect.       *)

SameFiles ==
    /\ results' = results
    /\ \A id \in Ids : /\ staging'[id].art = staging[id].art
                       /\ rejected'[id].art = rejected[id].art
    /\ project' = project
    /\ reached' = reached
    /\ runs' = runs

\* What the files alone say is kept by a step that moves no artifact.
LEMMA SameFilesKeep ==
  ASSUME Inv, SameFiles
  PROVE  Order' /\ Dated' /\ NothingLost'
BY DEF Inv, SameFiles, Order, Dated, NothingLost, Kept

\* A call that ends leaves no obligation about op.
LEMMA EndKeeps ==
  ASSUME Inv, TypeOK', SameFiles, op'.kind = "idle"
  PROVE  Inv'
<1>1. CallShape' /\ Arrived' /\ Shown'
  BY DEF CallShape, Arrived, Shown
<1>2. QED
  BY <1>1, SameFilesKeep DEF Inv

LEMMA MetaKeepsArt ==
  ASSUME NEW f \in [Ids -> Entry], NEW id \in Ids,
         NEW m \in {"none", "pending", "accepted", "rejected"}
  PROVE  \A k \in Ids : [f EXCEPT ![id].meta = m][k].art = f[k].art
BY DEF Entry

LEMMA BeginKeeps ==
  ASSUME Inv, TypeOK', SameFiles, op.kind = "idle",
         NEW id \in Ids, NEW kind \in {"stage", "accept", "reject"},
         NEW pass \in {"results", "staging"},
         kind = "stage" <=> pass = "results",
         Begin(kind, id, pass)
  PROVE  Inv'
<1>1. CallShape' /\ Arrived'
  BY DEF Begin, CallShape, Arrived
<1>2. Shown'
  <2> SUFFICES ASSUME kind = "accept", NEW a \in Artifacts
               PROVE  /\ results'[id].art[a] # Missing
                           => staging[id].art[a] <= results'[id].art[a]
                      /\ staging'[id].art[a] = staging[id].art[a]
                      /\ ~Done(a)'
    BY DEF Begin, Shown
  <2>1. ~Done(a)'
    BY DEF Begin, Done, Artifacts
  <2>2. QED
    BY <2>1 DEF SameFiles, Inv, Order
<1>3. QED
  BY <1>1, <1>2, SameFilesKeep DEF Inv

LEMMA ArtsAreNat ==
  ASSUME TypeOK
  PROVE  /\ \A k \in Ids, b \in Artifacts :
              /\ results[k].art[b] \in Nat /\ staging[k].art[b] \in Nat
              /\ rejected[k].art[b] \in Nat
              /\ project[ProjectOf[k]][b] \in Nat
              /\ reached[k][b] \in Nat
         /\ \A b \in Artifacts : op.shown[b] \in Nat
         /\ op.i \in Nat /\ runs \in Nat
<1>1. Content \subseteq Nat
  BY ResultDirAssumption DEF Content
<1>2. \A k \in Ids, b \in Artifacts :
        /\ results[k].art[b] \in Content /\ staging[k].art[b] \in Content
        /\ rejected[k].art[b] \in Content
  BY DEF TypeOK, Dir, Entry, Artset
<1>3. \A k \in Ids, b \in Artifacts : /\ project[ProjectOf[k]][b] \in Content
                                      /\ reached[k][b] \in Content
  BY StagingAssumption DEF TypeOK, Artset
<1>4. \A b \in Artifacts : op.shown[b] \in Content
  BY DEF TypeOK, Call, Artset
<1>5. op.i \in Nat /\ runs \in Content
  BY ResultDirAssumption DEF TypeOK, Call
<1>6. QED
  BY <1>1, <1>2, <1>3, <1>4, <1>5

\* What moving on to the next artifact, or to the removal, does to the call.
LEMMA MoveShape ==
  ASSUME TypeOK, Moving
  PROVE  /\ NextArtifact.kind = op.kind /\ NextArtifact.id = op.id
         /\ NextArtifact.pass = op.pass /\ NextArtifact.out = op.out
         /\ NextArtifact.shown = op.shown
         /\ NextArtifact.i = op.i + 1 /\ NextArtifact.at = "copy"
         /\ LET d == [op EXCEPT !.at = "drop"]
            IN  /\ d.kind = op.kind /\ d.id = op.id /\ d.pass = op.pass
                /\ d.out = op.out /\ d.shown = op.shown
                /\ d.i = op.i /\ d.at = "drop"
BY DEF TypeOK, Call, NextArtifact

\* A copy that replaces an artifact in staging/ with the one in results/.
LEMMA CopyStage ==
  ASSUME Inv, TypeOK', MoveCopy, op.kind = "stage"
  PROVE  Inv'
<1> DEFINE id == op.id
           a == op.i
           r == results[id].art[a]
<1>1. id \in Ids /\ a \in Artifacts /\ r \in Content /\ r # Missing
  BY SourceType DEF Inv, MoveCopy, CallShape, Source, Moving
<1>2. /\ results' = results /\ rejected' = rejected /\ project' = project
      /\ runs' = runs /\ reached' = reached
      /\ staging' = [staging EXCEPT ![id].art[a] = r]
  BY DEF MoveCopy, CopyTo, Moving, Inv, CallShape, Source
<1>3. /\ staging'[id].art[a] = r
      /\ \A k \in Ids, b \in Artifacts :
           k # id \/ b # a => staging'[k].art[b] = staging[k].art[b]
  BY <1>1, <1>2 DEF Inv, TypeOK, Entry, Artset
<1>4. \A k \in Ids, b \in Artifacts :
        /\ results[k].art[b] \in Nat /\ staging[k].art[b] \in Nat
        /\ rejected[k].art[b] \in Nat
  BY ArtsAreNat DEF Inv
<1>5. Order'
  BY <1>1, <1>2, <1>3, <1>4 DEF Inv, Order
<1>6. Dated'
  BY <1>1, <1>2, <1>3, <1>4 DEF Inv, Dated
<1>7. NothingLost'
  BY <1>1, <1>2, <1>3, <1>4 DEF Inv, NothingLost, Kept, Dated
<1>8. op' \in {[op EXCEPT !.at = "drop"], NextArtifact} /\ op'.kind = "stage"
      /\ op'.out = op.out /\ op'.pass = op.pass /\ op'.id = op.id
  BY DEF MoveCopy, NextArtifact, Inv, TypeOK, Call
<1>9. CallShape' /\ Shown'
  BY <1>1, <1>8 DEF Inv, CallShape, Shown, MoveCopy, NextArtifact, TypeOK,
                    Call, Moving
<1>10. Arrived'
  BY <1>1, <1>2, <1>3, <1>8
     DEF Inv, Arrived, CallShape, Source, NextArtifact, TypeOK, Call, Moving
<1>11. QED
  BY <1>5, <1>6, <1>7, <1>9, <1>10 DEF Inv

\* A copy into the project folder.
LEMMA CopyAccept ==
  ASSUME Inv, TypeOK', MoveCopy, op.kind = "accept"
  PROVE  Inv'
<1> DEFINE p == ProjectOf[op.id]
           a == op.i
<1>1. /\ op.id \in Ids /\ a \in Artifacts /\ p \in Projects
      /\ Source[a] \in Content /\ Source[a] # Missing
  BY SourceType, StagingAssumption DEF Inv, MoveCopy
<1>2. /\ UNCHANGED <<results, staging, rejected, runs>>
      /\ project' = [project EXCEPT ![p][a] = Source[a]]
      /\ reached' = [reached EXCEPT ![op.id][a] = Newer(@, Source[a])]
  BY DEF MoveCopy, CopyTo
<1>3. /\ project'[p][a] = Source[a]
      /\ \A q \in Projects, b \in Artifacts :
           q # p \/ b # a => project'[q][b] = project[q][b]
  BY <1>1, <1>2 DEF Inv, TypeOK, Artset
<1>n. \A k \in Ids, b \in Artifacts :
        reached[k][b] \in Nat /\ results[k].run \in Nat /\ Source[a] \in Nat
  BY <1>1, ArtsAreNat, ResultDirAssumption DEF Inv, TypeOK, Dir, Content
<1>r. /\ reached'[op.id][a] >= Source[a]
      /\ \A k \in Ids, b \in Artifacts :
           reached'[k][b] \in Nat /\ reached'[k][b] >= reached[k][b]
  <2>1. reached'[op.id][a] = Newer(reached[op.id][a], Source[a])
    BY <1>1, <1>2 DEF Inv, TypeOK, Artset
  <2>2. \A k \in Ids, b \in Artifacts :
          k # op.id \/ b # a => reached'[k][b] = reached[k][b]
    BY <1>1, <1>2 DEF Inv, TypeOK, Artset
  <2> QED
    BY <1>1, <1>n, <2>1, <2>2 DEF Newer
<1>4. Order' /\ Dated'
  BY <1>2 DEF Inv, Order, Dated
<1>5. NothingLost'
  <2> SUFFICES ASSUME NEW k \in Ids, results[k].manifest = "ok",
                      results[k].run # Missing, NEW b \in Artifacts
               PROVE  Kept(k, b)'
    BY <1>2 DEF NothingLost
  <2>1. Kept(k, b)
    BY DEF Inv, NothingLost
  <2>2. project[ProjectOf[k]][b] # Missing
          => project'[ProjectOf[k]][b] # Missing
    BY <1>1, <1>3, StagingAssumption
  <2>3. reached[k][b] >= results[k].run => reached'[k][b] >= results[k].run
    BY <1>n, <1>r
  <2> QED
    BY <1>2, <2>1, <2>2, <2>3 DEF Kept
<1>6. /\ op'.kind = op.kind /\ op'.id = op.id /\ op'.pass = op.pass
      /\ op'.out = op.out /\ op'.shown = op.shown
      /\ \/ op'.i = a /\ op'.at = "drop"
         \/ op'.i = a + 1 /\ op'.at = "copy"
  BY MoveShape DEF Inv, MoveCopy
<1>7. CallShape'
  BY <1>1, <1>6 DEF Inv, CallShape, MoveCopy
<1>8. Arrived'
  BY <1>1, <1>2, <1>3, <1>r, <1>6 DEF Arrived, Source
<1>9. Shown'
  <2> SUFFICES ASSUME NEW b \in Artifacts
               PROVE  /\ results[op.id].art[b] # Missing
                           => op.shown[b] <= results[op.id].art[b]
                      /\ op.shown[b] # Missing =>
                           IF Done(b)' THEN op.shown[b] <= project'[p][b]
                                       ELSE staging[op.id].art[b] = op.shown[b]
    BY <1>2, <1>6 DEF Shown
  <2>1. /\ results[op.id].art[b] # Missing
             => op.shown[b] <= results[op.id].art[b]
        /\ op.shown[b] # Missing =>
             IF Done(b) THEN op.shown[b] <= project[p][b]
                        ELSE staging[op.id].art[b] = op.shown[b]
    BY DEF Inv, Shown
  <2>2. CASE b # a
    <3>1. Done(b)' <=> Done(b)
      BY <1>6, <2>2, ArtsAreNat DEF Done, Inv, MoveCopy, Artifacts
    <3>2. QED
      BY <1>1, <1>3, <2>1, <2>2, <3>1
  <2>3. CASE b = a
    <3>1. op.shown[b] # Missing => op.shown[b] <= Source[a]
      BY <1>1, <2>1, <2>3, ArtsAreNat
         DEF Source, Done, Inv, MoveCopy, CallShape, TypeOK, Call
    <3>2. Done(b)'
      BY <1>6, <2>3, ArtsAreNat DEF Done, Inv
    <3>3. QED
      BY <1>3, <2>1, <2>3, <3>1, <3>2
  <2>4. QED
    BY <2>2, <2>3
<1>10. QED
  BY <1>4, <1>5, <1>7, <1>8, <1>9 DEF Inv

\* A copy into rejected/: what it replaces there is older.
LEMMA CopyReject ==
  ASSUME Inv, TypeOK', MoveCopy, op.kind = "reject"
  PROVE  Inv'
<1> DEFINE id == op.id
           a == op.i
           s == staging[id].art[a]
<1>1. id \in Ids /\ a \in Artifacts /\ s \in Content /\ s # Missing
  BY SourceType DEF Inv, MoveCopy, CallShape, Source, Moving
<1>2. /\ results' = results /\ staging' = staging /\ project' = project
      /\ runs' = runs /\ reached' = reached
      /\ rejected' = [rejected EXCEPT ![id].art[a] = s]
  BY DEF MoveCopy, CopyTo, Moving, Inv, CallShape, Source
<1>3. /\ rejected'[id].art[a] = s
      /\ \A k \in Ids, b \in Artifacts :
           k # id \/ b # a => rejected'[k].art[b] = rejected[k].art[b]
  BY <1>1, <1>2 DEF Inv, TypeOK, Entry, Artset
<1>4. \A k \in Ids, b \in Artifacts :
        /\ results[k].art[b] \in Nat /\ staging[k].art[b] \in Nat
        /\ rejected[k].art[b] \in Nat
  BY ArtsAreNat DEF Inv
<1>5. Order'
  BY <1>1, <1>2, <1>3, <1>4 DEF Inv, Order
<1>6. Dated'
  BY <1>1, <1>2, <1>3, <1>4 DEF Inv, Dated
<1>7. NothingLost'
  <2> SUFFICES ASSUME NEW k \in Ids, results[k].manifest = "ok",
                      results[k].run # Missing, NEW b \in Artifacts
               PROVE  Kept(k, b)'
    BY <1>2 DEF NothingLost
  <2>1. Kept(k, b)
    BY DEF Inv, NothingLost
  <2>2. CASE k # id \/ b # a
    BY <1>2, <1>3, <2>1, <2>2 DEF Kept
  <2>3. CASE k = id /\ b = a
    <3>1. rejected[id].art[a] <= s /\ s <= results[id].run
      BY <1>1, <2>3 DEF Inv, Order, Dated
    <3>2. results[id].run \in Nat
      BY <1>1, ResultDirAssumption DEF Inv, TypeOK, Dir, Content
    <3>3. rejected[id].art[a] = results[id].run => s = results[id].run
      BY <1>1, <1>4, <3>1, <3>2
    <3>4. QED
      BY <1>2, <1>3, <2>1, <2>3, <3>3 DEF Kept
  <2>4. QED
    BY <2>2, <2>3
<1>8. /\ op'.kind = op.kind /\ op'.id = id /\ op'.pass = op.pass
      /\ op'.out = op.out
      /\ \/ op'.i = a /\ op'.at = "drop"
         \/ op'.i = a + 1 /\ op'.at = "copy"
  BY MoveShape DEF Inv, MoveCopy
<1>9. CallShape' /\ Shown'
  BY <1>1, <1>8 DEF Inv, CallShape, Shown, MoveCopy
<1>10. Arrived'
  BY <1>1, <1>2, <1>3, <1>8 DEF Inv, Arrived, CallShape, Source, MoveCopy
<1>11. QED
  BY <1>5, <1>6, <1>7, <1>9, <1>10 DEF Inv

\* The body has arrived: the source goes, or could not be removed.
LEMMA DropKeeps ==
  ASSUME Inv, TypeOK', MoveDrop
  PROVE  Inv'
<1> DEFINE id == op.id
           a == op.i
           c == Source[a]
<1>1. id \in Ids /\ a \in Artifacts /\ c \in Content /\ c # Missing
  BY SourceType DEF Inv, MoveDrop, Moving, Arrived
<1>2. /\ rejected' = rejected /\ project' = project /\ runs' = runs
      /\ reached' = reached
  BY DEF MoveDrop
<1>3. /\ op'.kind = op.kind /\ op'.id = id /\ op'.pass = op.pass
      /\ op'.out = op.out /\ op'.shown = op.shown
      /\ op'.i = a + 1 /\ op'.at = "copy"
  BY MoveShape DEF Inv, MoveDrop
<1>4. \A k \in Ids, b \in Artifacts :
        /\ results'[k].manifest = results[k].manifest
        /\ results'[k].run = results[k].run
        /\ results'[k].art[b] \in {results[k].art[b], Missing}
        /\ staging'[k].art[b] \in {staging[k].art[b], Missing}
        /\ k # id \/ b # a
             => /\ results'[k].art[b] = results[k].art[b]
                /\ staging'[k].art[b] = staging[k].art[b]
        /\ op.pass = "results" => staging' = staging
        /\ op.pass = "staging" => results' = results
  <2>1. CASE UNCHANGED <<results, staging>>
    BY <2>1
  <2>2. CASE DropSource /\ op.pass = "results"
    <3>1. /\ results \in [Ids -> Dir] /\ staging' = staging
          /\ results' = [results EXCEPT ![id].art[a] = Missing]
      BY <2>2 DEF DropSource, Inv, TypeOK
    <3> HIDE DEF id, a
    <3> QED
      BY <1>1, <2>2, <3>1 DEF Dir, Artset
  <2>3. CASE DropSource /\ op.pass = "staging"
    <3>1. /\ staging \in [Ids -> Entry] /\ results' = results
          /\ staging' = [staging EXCEPT ![id].art[a] = Missing]
      BY <2>3 DEF DropSource, Inv, TypeOK
    <3> HIDE DEF id, a
    <3> QED
      BY <1>1, <2>3, <3>1 DEF Entry, Artset
  <2>4. QED
    BY <2>1, <2>2, <2>3 DEF MoveDrop, DropSource
<1>5. \A k \in Ids, b \in Artifacts :
        /\ results[k].art[b] \in Nat /\ staging[k].art[b] \in Nat
        /\ rejected[k].art[b] \in Nat
  BY ArtsAreNat DEF Inv
<1>6. Order'
  BY <1>2, <1>4, <1>5 DEF Inv, Order, Missing
<1>7. Dated'
  <2> SUFFICES ASSUME NEW k \in Ids, NEW b \in Artifacts
               PROVE  /\ results'[k].art[b] <= runs
                      /\ staging'[k].art[b] <= runs
                      /\ rejected[k].art[b] <= runs
                      /\ results[k].manifest = "ok" /\ results[k].run # Missing
                           => /\ results'[k].art[b]
                                   \in {Missing, results[k].run}
                              /\ staging'[k].art[b] <= results[k].run
                              /\ rejected[k].art[b] <= results[k].run
    BY <1>2, <1>4 DEF Dated
  <2>1. 0 <= runs /\ 0 <= results[k].run
    BY ResultDirAssumption DEF Inv, TypeOK, Dir, Content
  <2>2. QED
    BY <1>4, <2>1 DEF Inv, Dated, Missing
<1>8. NothingLost'
  <2> SUFFICES ASSUME NEW k \in Ids, results[k].manifest = "ok",
                      results[k].run # Missing, NEW b \in Artifacts
               PROVE  Kept(k, b)'
    BY <1>4 DEF NothingLost
  <2>1. Kept(k, b)
    BY DEF Inv, NothingLost
  <2>2. CASE k # id \/ b # a
    BY <1>2, <1>4, <2>1, <2>2 DEF Kept
  <2>3. CASE k = id /\ b = a
    <3>1. /\ op.kind = "stage" => staging[id].art[a] = c
          /\ op.kind = "accept" => /\ reached[id][a] >= c
                                   /\ project[ProjectOf[id]][a] # Missing
          /\ op.kind = "reject" => rejected[id].art[a] = c
      BY DEF Inv, Arrived, MoveDrop, Moving
    <3>2. CASE op.kind = "stage"
      BY <1>2, <1>4, <2>1, <2>3, <3>1, <3>2
         DEF Inv, Kept, CallShape, Source
    <3>3. CASE op.kind = "accept"
      <4>1. CASE c = results[id].run
        BY <1>2, <1>4, <2>3, <3>1, <3>3, <4>1 DEF Kept
      <4>2. CASE c # results[id].run
        BY <1>2, <1>4, <2>1, <2>3, <4>2 DEF Kept, Source, Inv, TypeOK, Call
      <4> QED
        BY <4>1, <4>2
    <3>4. CASE op.kind = "reject"
      BY <1>2, <1>4, <2>1, <2>3, <3>1, <3>4
         DEF Inv, Kept, CallShape, Source
    <3>5. QED
      BY <3>2, <3>3, <3>4 DEF MoveDrop, Moving, Inv, TypeOK, Call
  <2>4. QED
    BY <2>2, <2>3
<1>9. CallShape' /\ Arrived'
  BY <1>3 DEF Inv, CallShape, Arrived, MoveDrop, Moving
<1>10. Shown'
  <2> SUFFICES ASSUME op.kind = "accept", NEW b \in Artifacts
               PROVE  /\ results'[id].art[b] # Missing
                           => op.shown[b] <= results'[id].art[b]
                      /\ op.shown[b] # Missing =>
                           IF Done(b)'
                             THEN op.shown[b] <= project[ProjectOf[id]][b]
                             ELSE staging'[id].art[b] = op.shown[b]
    BY <1>2, <1>3 DEF Shown
  <2>1. /\ results[id].art[b] # Missing
             => op.shown[b] <= results[id].art[b]
        /\ op.shown[b] # Missing =>
             IF Done(b) THEN op.shown[b] <= project[ProjectOf[id]][b]
                        ELSE staging[id].art[b] = op.shown[b]
    BY DEF Inv, Shown
  <2>2. op.at = "drop" /\ op.i \in Nat /\ b \in Nat
    BY ArtsAreNat DEF MoveDrop, Inv, Artifacts
  <2>3. Done(b)' <=> Done(b)
    BY <1>3, <2>2 DEF Done
  <2>4. ~Done(b) => b # a
    BY <2>2 DEF Done
  <2>5. QED
    BY <1>1, <1>4, <2>1, <2>3, <2>4
<1>11. QED
  BY <1>6, <1>7, <1>8, <1>9, <1>10 DEF Inv

LEMMA SkipKeeps ==
  ASSUME Inv, TypeOK', MoveSkip
  PROVE  Inv'
<1>1. SameFiles
  BY DEF MoveSkip, SameFiles
<1>2. /\ op'.kind = op.kind /\ op'.id = op.id /\ op'.pass = op.pass
      /\ op'.out = op.out /\ op'.shown = op.shown
      /\ op'.i = op.i + 1 /\ op'.at = "copy"
  BY MoveShape DEF Inv, MoveSkip
<1>3. CallShape' /\ Arrived'
  BY <1>2 DEF Inv, CallShape, Arrived, MoveSkip, Moving
<1>4. Shown'
  <2> SUFFICES ASSUME op.kind = "accept", NEW b \in Artifacts,
                      op.shown[b] # Missing
               PROVE  IF Done(b)'
                        THEN op.shown[b] <= project[ProjectOf[op.id]][b]
                        ELSE staging[op.id].art[b] = op.shown[b]
    BY <1>1, <1>2 DEF Inv, Shown, SameFiles, MoveSkip
  <2>1. IF Done(b) THEN op.shown[b] <= project[ProjectOf[op.id]][b]
                   ELSE staging[op.id].art[b] = op.shown[b]
    BY DEF Inv, Shown
  <2>2. op.i \in Nat /\ b \in Nat
    BY ArtsAreNat DEF Inv, Artifacts
  <2>3. Done(b)' <=> Done(b) \/ b = op.i
    BY <1>2, <2>2 DEF Done, MoveSkip
  <2>4. ~Done(b) => b # op.i
    BY <2>1 DEF Source, Done, MoveSkip, Inv, TypeOK, Call
  <2>5. QED
    BY <2>1, <2>3, <2>4
<1>5. QED
  BY <1>1, <1>3, <1>4, SameFilesKeep DEF Inv

\* accept is done with staging/ and turns to results/.
LEMMA AcceptResultsKeeps ==
  ASSUME Inv, TypeOK', AcceptResults
  PROVE  Inv'
<1>1. SameFiles
  BY DEF AcceptResults, SameFiles
<1>2. /\ op'.kind = "accept" /\ op'.id = op.id /\ op'.pass = "results"
      /\ op'.out = op.out /\ op'.shown = op.shown /\ op'.at = "copy"
  BY DEF AcceptResults, LoopDone, Inv, TypeOK, Call
<1>3. CallShape' /\ Arrived'
  BY <1>2 DEF Inv, CallShape, Arrived, AcceptResults, LoopDone
<1>4. Shown'
  <2>1. \A b \in Artifacts : Done(b) /\ Done(b)'
    BY <1>2, ResultDirAssumption DEF Done, AcceptResults, LoopDone, Artifacts
  <2>2. QED
    BY <1>2, <2>1 DEF Inv, Shown, AcceptResults, LoopDone
<1>5. QED
  BY <1>1, <1>3, <1>4, SameFilesKeep DEF Inv

LEMMA RejectMetaKeeps ==
  ASSUME Inv, TypeOK', RejectMeta
  PROVE  Inv'
<1>1. SameFiles
  BY MetaKeepsArt
     DEF RejectMeta, LoopDone, SameFiles, Inv, TypeOK
<1>2. /\ op'.kind = "reject" /\ op'.pass = op.pass /\ op'.out = op.out
      /\ op'.at = "mark"
  BY DEF RejectMeta, LoopDone, Inv, TypeOK, Call
<1>3. CallShape' /\ Arrived' /\ Shown'
  BY <1>2 DEF Inv, CallShape, Arrived, Shown, RejectMeta, LoopDone
<1>4. QED
  BY <1>1, <1>3, SameFilesKeep DEF Inv

\* A new run is newer than whatever the request had anywhere.
LEMMA RunKeeps ==
  ASSUME Inv, TypeOK', NEW id \in Ids, BridgeRuns(id)
  PROVE  Inv'
<1> DEFINE old == results[id]
<1>1. PICK d \in Outcomes(old, runs + 1) :
        results' = [results EXCEPT ![id] = d]
  BY DEF BridgeRuns
<1>2. /\ results'[id] = d
      /\ \A k \in Ids : k # id => results'[k] = results[k]
      /\ UNCHANGED <<staging, rejected, project, op, reached>>
      /\ runs' = runs + 1
  BY <1>1 DEF BridgeRuns, Inv, TypeOK
<1>3. /\ runs \in Nat
      /\ \A k \in Ids, a \in Artifacts :
           /\ results[k].art[a] \in Nat /\ staging[k].art[a] \in Nat
           /\ rejected[k].art[a] \in Nat
  BY ArtsAreNat DEF Inv
<1>4. /\ \A a \in Artifacts : d.art[a] \in {Missing, old.art[a], runs + 1}
      /\ d.manifest = "ok" /\ d.run # Missing =>
           \/ d = old
           \/ d.run = runs + 1 /\ (\A a \in Artifacts : d.art[a] = runs + 1)
  <2>1. runs + 1 \in Content /\ old \in Dir
    BY ResultDirAssumption DEF BridgeRuns, Inv, TypeOK, Content
  <2>2. QED
    BY <2>1, OutcomeShape
<1>5. Order'
  BY <1>2, <1>3, <1>4 DEF Inv, Order, Dated
<1>6. Dated'
  <2> SUFFICES ASSUME NEW k \in Ids, NEW a \in Artifacts
               PROVE  /\ results'[k].art[a] <= runs + 1
                      /\ staging[k].art[a] <= runs + 1
                      /\ rejected[k].art[a] <= runs + 1
                      /\ results'[k].manifest = "ok"
                           /\ results'[k].run # Missing
                           => /\ results'[k].art[a]
                                   \in {Missing, results'[k].run}
                              /\ staging[k].art[a] <= results'[k].run
                              /\ rejected[k].art[a] <= results'[k].run
    BY <1>2 DEF Dated
  <2>1. CASE k # id \/ d = old
    BY <1>2, <1>3, <2>1 DEF Inv, Dated
  <2>2. CASE k = id /\ d # old
    BY <1>2, <1>3, <1>4, <2>2 DEF Inv, Dated, Missing
  <2>3. QED
    BY <2>1, <2>2
<1>7. NothingLost'
  BY <1>2, <1>4 DEF Inv, NothingLost, Kept
<1>8. CallShape' /\ Arrived' /\ Shown'
  BY <1>2 DEF BridgeRuns, Inv, CallShape, Arrived, Shown
<1>9. QED
  BY <1>5, <1>6, <1>7, <1>8 DEF Inv

-----------------------------------------------------------------------------

LEMMA LoseArt ==
  ASSUME NEW f \in [Ids -> Entry], NEW id \in Ids, NEW a \in Artifacts,
         NEW k \in Ids, NEW b \in Artifacts
  PROVE  [f EXCEPT ![id].art[a] = Missing][k].art[b] \in {f[k].art[b], Missing}
<1>1. CASE k # id
  BY <1>1
<1>2. CASE k = id
  BY <1>2 DEF Entry, Artset
<1> QED
  BY <1>1, <1>2

\* A write of the SD backend that loses its destination.
LEMMA SdLossKeeps ==
  ASSUME Inv, CopiesOnly, TypeOK', SdWriteLoses
  PROVE  Inv'
<1>1. /\ op'.kind = "idle" /\ UNCHANGED <<results, runs>>
      /\ op.id \in Ids
  BY WriteDueIds DEF SdWriteLoses, Idle, Inv
<1>2. /\ staging \in [Ids -> Entry] /\ rejected \in [Ids -> Entry]
      /\ \A k \in Ids, b \in Artifacts :
           /\ results[k].art[b] \in Nat /\ staging[k].art[b] \in Nat
           /\ rejected[k].art[b] \in Nat
      /\ runs \in Nat
  BY ArtsAreNat DEF Inv, TypeOK
<1>3. \A k \in Ids, b \in Artifacts :
        /\ staging'[k].art[b] \in {staging[k].art[b], Missing}
        /\ rejected'[k].art[b] = rejected[k].art[b]
           \/ rejected'[k].art[b] = Missing
  <2>1. CASE Moving /\ CopyTo(Missing)
    <3>1. op.i \in Artifacts
      BY <2>1 DEF Moving
    <3>2. \A k \in Ids, b \in Artifacts :
            /\ [staging EXCEPT ![op.id].art[op.i] = Missing][k].art[b]
                 \in {staging[k].art[b], Missing}
            /\ [rejected EXCEPT ![op.id].art[op.i] = Missing][k].art[b]
                 \in {rejected[k].art[b], Missing}
      BY <1>1, <1>2, <3>1, LoseArt
    <3>3. CASE op.kind = "stage"
      BY <2>1, <3>2, <3>3 DEF CopyTo
    <3>4. CASE op.kind = "accept"
      BY <2>1, <3>4 DEF CopyTo
    <3>5. CASE op.kind = "reject"
      <4>1. /\ staging' = staging
            /\ rejected' = [rejected EXCEPT ![op.id].art[op.i] = Missing]
        BY <2>1, <3>5 DEF CopyTo
      <4> QED
        BY <3>2, <4>1
    <3> QED
      BY <2>1, <3>3, <3>4, <3>5 DEF CopyTo
  <2>2. CASE /\ rejected' = [rejected EXCEPT ![op.id].meta = "none"]
             /\ UNCHANGED <<staging, project, reached>>
    BY <1>1, <1>2, <2>2, MetaKeepsArt
  <2>3. CASE /\ staging' = [staging EXCEPT ![op.id].meta = "none"]
             /\ UNCHANGED <<rejected, project, reached>>
    BY <1>1, <1>2, <2>3, MetaKeepsArt
  <2> QED
    BY <2>1, <2>2, <2>3 DEF SdWriteLoses
<1>4. \A k \in Ids, b \in Artifacts :
        staging'[k].art[b] # Missing => rejected'[k].art[b] <= staging'[k].art[b]
  BY <1>2, <1>3 DEF Inv, Order, Missing
<1>5. Order'
  BY <1>1, <1>2, <1>3, <1>4 DEF Inv, Order, Missing
<1>6. Dated'
  <2>1. \A k \in Ids, b \in Artifacts, n \in Nat :
          /\ staging[k].art[b] <= n => staging'[k].art[b] <= n
          /\ rejected[k].art[b] <= n => rejected'[k].art[b] <= n
    BY <1>2, <1>3 DEF Missing
  <2>2. \A k \in Ids : results[k].run \in Nat
    BY ResultDirAssumption DEF Inv, TypeOK, Dir, Content
  <2> QED
    BY <1>1, <1>2, <2>1, <2>2 DEF Inv, Dated
<1>7. NothingLost'
  BY <1>1 DEF NothingLost, Kept, CopiesOnly, SdWriteLoses
<1>8. CallShape' /\ Arrived' /\ Shown'
  BY <1>1 DEF CallShape, Arrived, Shown
<1> QED
  BY <1>5, <1>6, <1>7, <1>8 DEF Inv

LEMMA CopiesOnlyNext ==
  ASSUME Inv, CopiesOnly, [Next]_vars
  PROVE  CopiesOnly'
<1>m. UNCHANGED moves
  BY DEF Next, vars
<1> USE <1>m
<1> SUFFICES ASSUME ~moves PROVE CopiesOnly'
  BY DEF CopiesOnly
<1>1. ASSUME results' = results, op'.kind # "idle" => op'.at # "drop"
      PROVE  CopiesOnly'
  BY <1>1 DEF CopiesOnly
<1>2. ASSUME NEW id \in Ids, BridgeRuns(id) PROVE CopiesOnly'
  <2>1. PICK d \in Outcomes(results[id], runs + 1) :
          results' = [results EXCEPT ![id] = d]
    BY <1>2 DEF BridgeRuns
  <2>2. runs + 1 \in Content /\ results[id] \in Dir
    BY <1>2, ResultDirAssumption DEF BridgeRuns, Inv, TypeOK, Content
  <2>3. d.manifest = "ok" /\ d.run # Missing =>
          \/ d = results[id]
          \/ d.run = runs + 1 /\ (\A a \in Artifacts : d.art[a] = runs + 1)
    BY <2>2, OutcomeShape
  <2>4. /\ results'[id] = d
        /\ \A k \in Ids : k # id => results'[k] = results[k]
        /\ op' = op
    BY <1>2, <2>1 DEF BridgeRuns, Inv, TypeOK
  <2> QED
    BY <2>3, <2>4 DEF CopiesOnly
<1>3. ASSUME NEW id \in Ids, StageOnly(id) \/ Accept(id) \/ Reject(id)
      PROVE  CopiesOnly'
  BY <1>1, <1>3 DEF StageOnly, Staged, NoRowOrBadSlug, Accept, Reject, Begin,
                    Idle
<1>4. CASE MoveSkip \/ MoveCopy
  <2>1. op' = NextArtifact /\ Moving /\ results' = results
    BY <1>4 DEF MoveSkip, MoveCopy
  <2> QED
    BY <1>1, <2>1, MoveShape DEF Inv
<1>5. CASE MoveDrop
  BY <1>5 DEF MoveDrop, Moving, CopiesOnly
<1>6. CASE StageMeta \/ AcceptMeta \/ RejectMark \/ WriteFails
             \/ PowerCut \/ SdWriteLoses
  BY <1>1, <1>6 DEF StageMeta, AcceptMeta, RejectMark, WriteFails, PowerCut,
     SdWriteLoses, Idle
<1>7. CASE AcceptResults \/ RejectMeta
  <2>1. op'.at \in {"copy", "mark"} /\ results' = results
    BY <1>7 DEF AcceptResults, RejectMeta, LoopDone, Inv, TypeOK, Call
  <2> QED
    BY <1>1, <2>1
<1>8. CASE UNCHANGED vars
  BY <1>1, <1>8 DEF vars, CopiesOnly
<1> QED
  BY <1>2, <1>3, <1>4, <1>5, <1>6, <1>7, <1>8 DEF Next, Step

LEMMA NextInv == Inv /\ CopiesOnly /\ [Next]_vars => Inv'
<1> SUFFICES ASSUME Inv, CopiesOnly, [Next]_vars PROVE Inv'
  OBVIOUS
<1>0. TypeOK'
  BY NextType DEF Inv
<1>1. ASSUME NEW id \in Ids, BridgeRuns(id) PROVE Inv'
  BY <1>0, <1>1, RunKeeps
<1>3. ASSUME NEW id \in Ids, StageOnly(id) PROVE Inv'
  <2>1. SameFiles /\ op.kind = "idle"
    BY <1>3 DEF StageOnly, Staged, NoRowOrBadSlug, SameFiles
  <2>2. CASE Begin("stage", id, "results")
    BY <1>0, <2>1, <2>2, BeginKeeps
  <2>3. CASE op' = Idle("err")
    BY <1>0, <2>1, <2>3, EndKeeps DEF Idle
  <2>4. QED
    BY <1>3, <2>2, <2>3 DEF StageOnly, Staged, NoRowOrBadSlug
<1>4. ASSUME NEW id \in Ids, Accept(id) PROVE Inv'
  <2>1. /\ SameFiles /\ op.kind = "idle"
        /\ Begin("accept", id, "staging")
    BY <1>4 DEF Accept, SameFiles
  <2>2. QED
    BY <1>0, <2>1, BeginKeeps
<1>5. ASSUME NEW id \in Ids, Reject(id) PROVE Inv'
  <2>1. /\ SameFiles /\ op.kind = "idle"
        /\ Begin("reject", id, "staging")
    BY <1>5 DEF Reject, SameFiles
  <2>2. QED
    BY <1>0, <2>1, BeginKeeps
<1>6. CASE MoveSkip
  BY <1>0, <1>6, SkipKeeps
<1>7. CASE MoveCopy
  <2>1. op.kind \in {"stage", "accept", "reject"}
    BY <1>7 DEF MoveCopy, CopyTo
  <2>2. QED
    BY <1>0, <1>7, <2>1, CopyStage, CopyAccept, CopyReject
<1>8. CASE MoveDrop
  BY <1>0, <1>8, DropKeeps
<1>9. CASE StageMeta \/ AcceptMeta \/ RejectMark
  <2>1. SameFiles
    <3>1. op.id \in Ids /\ staging \in [Ids -> Entry]
      BY <1>9 DEF StageMeta, AcceptMeta, RejectMark, LoopDone, Inv, TypeOK
    <3>2. \E m \in {"pending", "accepted", "rejected"} :
            staging' = [staging EXCEPT ![op.id].meta = m]
      BY <1>9 DEF StageMeta, AcceptMeta, RejectMark
    <3>3. UNCHANGED <<results, rejected, project, runs, reached>>
      BY <1>9 DEF StageMeta, AcceptMeta, RejectMark
    <3>4. QED
      BY <3>1, <3>2, <3>3, MetaKeepsArt DEF SameFiles
  <2>2. op'.kind = "idle"
    BY <1>9 DEF StageMeta, AcceptMeta, RejectMark, Idle
  <2>3. QED
    BY <1>0, <2>1, <2>2, EndKeeps
<1>10. CASE AcceptResults
  BY <1>0, <1>10, AcceptResultsKeeps
<1>11. CASE RejectMeta
  BY <1>0, <1>11, RejectMetaKeeps
<1>12. CASE WriteFails \/ PowerCut
  BY <1>0, <1>12, EndKeeps DEF WriteFails, PowerCut, SameFiles, Idle
<1>13. CASE UNCHANGED vars
  BY <1>13 DEF vars, Inv, TypeOK, Order, Dated, CallShape, Arrived, Source,
               Shown, Done, NothingLost, Kept
<1>14. CASE SdWriteLoses
  BY <1>0, <1>14, SdLossKeeps
<1>15. QED
  BY <1>1, <1>3, <1>4, <1>5, <1>6, <1>7, <1>8, <1>9, <1>10, <1>11,
     <1>12, <1>13, <1>14 DEF Next, Step

LEMMA InitInv == Init => Inv
<1>1. Init => Order /\ Dated
  BY DEF Init, Order, Dated, NoDir, NoArtifacts, Missing
<1>2. Init => CallShape /\ Arrived /\ Shown /\ NothingLost
  BY DEF Init, CallShape, Arrived, Shown, NothingLost, Idle, NoDir
<1>3. QED
  BY InitType, <1>1, <1>2 DEF Inv

LEMMA SpecInv == Spec => []Inv
<1>1. Init => CopiesOnly
  BY DEF Init, CopiesOnly, Idle, NoDir
<1> QED
  BY <1>1, InitInv, NextInv, CopiesOnlyNext, PTL DEF Spec

(***************************************************************************)
(* The state of the review gate keeps its types.                           *)
(***************************************************************************)
THEOREM TypeCorrect == Spec => []TypeOK
<1>1. Inv => TypeOK
  BY DEF Inv
<1>2. QED
  BY <1>1, SpecInv, PTL

(***************************************************************************)
(* No artifact of the last complete run of a request is lost, whatever     *)
(* calls, write errors and power cuts there were (move_file_via_storage    *)
(* writes the copy before it removes the source).                          *)
(***************************************************************************)
THEOREM NothingLostTheorem == Spec => []NothingLost
<1>1. Inv => NothingLost
  BY DEF Inv
<1>2. QED
  BY <1>1, SpecInv, PTL

(***************************************************************************)
(* An accept that reports success has delivered all that the user saw.     *)
(***************************************************************************)
THEOREM AcceptDeliversTheorem == Spec => AcceptDelivers
<1>1. Inv /\ [Next]_vars
        => (op.kind = "accept" /\ op'.out = "ok" => Delivered(op.id))
  <2> SUFFICES ASSUME Inv, [Next]_vars, op.kind = "accept", op'.out = "ok"
               PROVE  Delivered(op.id)
    OBVIOUS
  <2>1. op.out = "none"
    BY DEF Inv, CallShape
  <2>2. AcceptMeta
    <3>1. ~(MoveSkip \/ MoveCopy \/ MoveDrop)
      BY <2>1, MoveShape DEF MoveSkip, MoveCopy, MoveDrop, Inv
    <3>2. ~(AcceptResults \/ RejectMeta)
      BY <2>1 DEF AcceptResults, RejectMeta, Inv, TypeOK, Call
    <3>3. ~(StageMeta \/ RejectMark)
      BY DEF StageMeta, RejectMark, LoopDone
    <3>4. ~(WriteFails \/ SdWriteLoses \/ PowerCut)
      BY DEF WriteFails, SdWriteLoses, PowerCut, Idle
    <3>5. \A id \in Ids : ~(BridgeRuns(id) \/ StageOnly(id)
                             \/ Accept(id) \/ Reject(id))
      BY DEF BridgeRuns, StageOnly, Staged, NoRowOrBadSlug, Accept, Reject
    <3>6. ~ UNCHANGED vars
      BY <2>1 DEF vars
    <3>7. QED
      BY <3>1, <3>2, <3>3, <3>4, <3>5, <3>6 DEF Next, Step
  <2>3. \A a \in Artifacts : Done(a)
    BY <2>2, ResultDirAssumption DEF AcceptMeta, LoopDone, Artifacts, Done
  <2>4. QED
    BY <2>3, ArtsAreNat DEF Delivered, Inv, Shown
<1>2. QED
  BY <1>1, SpecInv, PTL DEF Spec, AcceptDelivers

-----------------------------------------------------------------------------
(* Pipeline.                                                               *)

\* An import in progress is a call of stage for its request; when stage has
\* returned ok, the request has an entry in staging/ (on firmware a later
\* write can lose it).
ImportAtWork ==
    importing # NoId =>
      /\ importing \in Ids
      /\ moves /\ op.kind = "idle" /\ op.out = "ok"
           => staging[importing].meta # "none"
      /\ op.kind # "idle" => op.kind = "stage" /\ op.id = importing

PipelineInv ==
    /\ PipelineTypeOK
    /\ ImportAtWork
    /\ moves => DoneIsReviewable

LEMMA SetRowType ==
  ASSUME row \in [Ids -> Status], NEW id, NEW s \in Status, SetRow(id, s)
  PROVE  /\ row' \in [Ids -> Status]
         /\ \A j \in Ids : row'[j] = "done"
                             => row[j] = "done" \/ (j = id /\ s = "done")
BY DEF SetRow

-----------------------------------------------------------------------------
(* Each step of Pipeline is a step of Staging, or leaves its variables.    *)

\* A bridge command that leaves one of Staging's outcomes is its bridge run.
LEMMA BridgeRunsOnly ==
  ASSUME NEW id \in Ids, op.kind = "idle",
         NEW outcomes, Leaves(id, outcomes),
         outcomes \subseteq Outcomes(results[id], runs + 1)
  PROVE  BridgeRuns(id)
BY DEF Leaves, BridgeRuns

LEMMA OutcomesHolds ==
  ASSUME NEW d, NEW n
  PROVE  /\ {Whole(n)} \subseteq Outcomes(d, n)
         /\ {d} \subseteq Outcomes(d, n)
         /\ {[d EXCEPT !.manifest = "error"]} \subseteq Outcomes(d, n)
         /\ {d} \cup Wiped(d) \cup Cut(n) \subseteq Outcomes(d, n)
         /\ {d} \cup Cut(n) \subseteq Outcomes(d, n)
<1>1. {Whole(n)} \subseteq Outcomes(d, n) /\ {d} \subseteq Outcomes(d, n)
  BY DEF Outcomes
<1>2. Errored(d) \subseteq Outcomes(d, n)
  BY DEF Outcomes
<1>3. [d EXCEPT !.manifest = "error"] \in Errored(d)
  BY DEF Errored
<1>4. /\ {d} \cup Wiped(d) \cup Cut(n) \subseteq Outcomes(d, n)
      /\ {d} \cup Cut(n) \subseteq Outcomes(d, n)
  BY DEF Outcomes
<1> QED
  BY <1>1, <1>2, <1>3, <1>4

LEMMA RunOnceStep ==
  ASSUME NEW id \in Ids, RunOnce(id)
  PROVE  BridgeRuns(id)
<1>1. op.kind = "idle"
  BY DEF RunOnce, FirmwareIdle
<1>2. PICK outcomes : /\ Leaves(id, outcomes)
                      /\ outcomes \subseteq Outcomes(results[id], runs + 1)
  BY OutcomesHolds DEF RunOnce
<1> QED
  BY <1>1, <1>2, BridgeRunsOnly

LEMMA PlanStep ==
  ASSUME NEW id \in Ids, Plan(id)
  PROVE  BridgeRuns(id)
<1>1. op.kind = "idle"
  BY DEF Plan, FirmwareIdle
<1>2. PICK outcomes : /\ Leaves(id, outcomes)
                      /\ outcomes \subseteq Outcomes(results[id], runs + 1)
  BY OutcomesHolds DEF Plan
<1> QED
  BY <1>1, <1>2, BridgeRunsOnly

LEMMA StepSimulation ==
  ASSUME [PipelineNext]_allVars
  PROVE  [Next]_vars
<1>m. UNCHANGED moves
  BY DEF PipelineNext, allVars, vars
<1> USE <1>m
<1>1. ASSUME NEW id \in Ids, Submit(id) \/ Retry(id) PROVE UNCHANGED vars
  BY <1>1 DEF Submit, Retry
<1>2. ASSUME NEW id \in Ids, RunOnce(id) \/ Plan(id) PROVE Next
  BY <1>2, RunOnceStep, PlanStep DEF Next
<1>3. ASSUME NEW id \in Ids, Import(id) PROVE Next
  BY <1>3 DEF Import, StageOnly, Next
<1>4. ASSUME NEW id \in Ids, Review(id) PROVE Next
  BY <1>4 DEF Review, Next
<1>5. ASSUME MarkTerminal \/ MarkLost PROVE UNCHANGED vars
  BY <1>5 DEF MarkTerminal, MarkLost
<1>6. ASSUME CallStep PROVE Next
  BY <1>6 DEF CallStep, Next
<1>7. ASSUME UNCHANGED allVars PROVE UNCHANGED vars
  BY <1>7 DEF allVars
<1> QED
  BY <1>1, <1>2, <1>3, <1>4, <1>5, <1>6, <1>7 DEF PipelineNext

(***************************************************************************)
(* End to end, bridge, import and review do nothing the review gate of     *)
(* Staging does not allow.                                                 *)
(***************************************************************************)
THEOREM PipelineImplementsStaging == PipelineSpec => ImplementsStaging
<1>1. PipelineInit => Init
  BY DEF PipelineInit
<1>2. [PipelineNext]_allVars => [Next]_vars
  BY StepSimulation
<1> QED
  BY <1>1, <1>2, PTL DEF PipelineSpec, ImplementsStaging, Spec

(***************************************************************************)
(* So no artifact of a complete run is lost anywhere on the way from the   *)
(* bridge to the project folder, whatever fails.                           *)
(***************************************************************************)
THEOREM PipelineLosesNothing == PipelineSpec => []NothingLost
BY PipelineImplementsStaging, NothingLostTheorem, PTL DEF ImplementsStaging

(***************************************************************************)
(* And an accept that the review screen reports as a success has delivered *)
(* what the user saw, with the bridge, the rows and repeated imports       *)
(* around it.                                                              *)
(***************************************************************************)
THEOREM PipelineAcceptDelivers == PipelineSpec => AcceptDelivers
BY PipelineImplementsStaging, AcceptDeliversTheorem, PTL DEF ImplementsStaging

-----------------------------------------------------------------------------
(* A row that is done has an entry in staging/.                            *)

\* On the host, entries of staging/ are never forgotten.
LEMMA EntriesStay ==
  ASSUME moves, TypeOK, [Next]_vars, NEW id \in Ids, staging[id].meta # "none"
  PROVE  staging'[id].meta # "none"
<1>1. staging \in [Ids -> Entry]
  BY DEF TypeOK
<1>2. ASSUME NEW k, NEW a, NEW c, staging' = [staging EXCEPT ![k].art[a] = c]
      PROVE  staging'[id].meta = staging[id].meta
  BY <1>1, <1>2 DEF Entry
<1>3. ASSUME NEW k, NEW m, m # "none",
             staging' = [staging EXCEPT ![k].meta = m]
      PROVE  staging'[id].meta # "none"
  BY <1>1, <1>3 DEF Entry
<1>4. ASSUME NEW k \in Ids,
             BridgeRuns(k) \/ StageOnly(k) \/ Accept(k) \/ Reject(k)
      PROVE  staging' = staging
  BY <1>4 DEF BridgeRuns, StageOnly, Staged, NoRowOrBadSlug, Accept, Reject
<1>5. CASE MoveSkip \/ AcceptResults \/ RejectMeta \/ WriteFails \/ PowerCut
             \/ UNCHANGED vars
  BY <1>5 DEF MoveSkip, AcceptResults, RejectMeta, WriteFails, PowerCut, vars
<1>6. CASE MoveCopy
  <2>1. \/ staging' = staging
        \/ staging' = [staging EXCEPT ![op.id].art[op.i] = Source[op.i]]
    BY <1>6 DEF MoveCopy, CopyTo
  <2>2. staging'[id].meta = staging[id].meta
    BY <1>2, <2>1
  <2> QED
    BY <2>2
<1>7. CASE MoveDrop
  <2>1. \/ staging' = staging
        \/ staging' = [staging EXCEPT ![op.id].art[op.i] = Missing]
    BY <1>7 DEF MoveDrop, DropSource
  <2>2. staging'[id].meta = staging[id].meta
    BY <1>2, <2>1
  <2> QED
    BY <2>2
<1>8. CASE StageMeta
  BY <1>3, <1>8 DEF StageMeta
<1>9. CASE AcceptMeta
  BY <1>3, <1>9 DEF AcceptMeta
<1>10. CASE RejectMark
  BY <1>3, <1>10 DEF RejectMark
<1>11. ~SdWriteLoses
  BY DEF SdWriteLoses
<1> QED
  BY <1>4, <1>5, <1>6, <1>7, <1>8, <1>9, <1>10, <1>11 DEF Next, Step

\* A step of stage goes on, fails, or leaves an entry.
LEMMA StageStep ==
  ASSUME TypeOK, Step, op.kind = "stage"
  PROVE  \/ op'.kind = "stage" /\ op'.id = op.id
         \/ op'.kind = "idle" /\ op'.out # "ok"
         \/ op'.kind = "idle" /\ staging'[op.id].meta = "pending"
<1>1. op.id \in Ids /\ op \in Call /\ staging \in [Ids -> Entry]
  BY DEF TypeOK
<1>2. CASE MoveSkip \/ MoveDrop
  <2>1. op.i \in Artifacts /\ op' = NextArtifact
    BY <1>2 DEF MoveSkip, MoveDrop, Moving
  <2> QED
    BY <1>1, <2>1, NextArtifactType
<1>3. CASE MoveCopy
  <2>1. op.i \in Artifacts
    BY <1>3 DEF MoveCopy, Moving
  <2>2. CASE op' = NextArtifact
    BY <1>1, <2>1, <2>2, NextArtifactType
  <2>3. CASE op' = [op EXCEPT !.at = "drop"]
    BY <1>1, <2>3 DEF Call
  <2> QED
    BY <1>3, <2>2, <2>3 DEF MoveCopy
<1>4. CASE StageMeta
  <2>1. op'.kind = "idle"
    BY <1>4 DEF StageMeta, Idle
  <2>2. staging'[op.id].meta = "pending"
    BY <1>1, <1>4 DEF StageMeta, Entry
  <2> QED
    BY <2>1, <2>2
<1>5. CASE WriteFails \/ SdWriteLoses \/ PowerCut
  BY <1>5 DEF WriteFails, SdWriteLoses, PowerCut, Idle
<1>6. ~(AcceptResults \/ AcceptMeta \/ RejectMeta \/ RejectMark)
  BY DEF AcceptResults, AcceptMeta, RejectMeta, RejectMark, LoopDone
<1> QED
  BY <1>2, <1>3, <1>4, <1>5, <1>6 DEF Step

LEMMA PipelineNextType ==
  ASSUME PipelineInv, [PipelineNext]_allVars
  PROVE  PipelineTypeOK'
<1>1. TypeOK' /\ runs' \in Content
  BY StepSimulation, NextType DEF PipelineInv, PipelineTypeOK, TypeOK
<1>2. /\ row \in [Ids -> Status] /\ importing \in Ids \cup {NoId}
      /\ seen \subseteq Content
  BY DEF PipelineInv, PipelineTypeOK
<1>3. /\ "pending" \in Status /\ "in_flight" \in Status
      /\ "done" \in Status /\ "error" \in Status
  BY DEF Status
<1>4. ASSUME NEW id \in Ids,
             Submit(id) \/ Retry(id) \/ RunOnce(id) \/ Plan(id)
      PROVE  PipelineTypeOK'
  BY <1>1, <1>2, <1>3, <1>4, SetRowType
     DEF Submit, Retry, RunOnce, Plan, Leaves, PipelineTypeOK
<1>5. ASSUME NEW id \in Ids, Import(id) PROVE PipelineTypeOK'
  BY <1>1, <1>2, <1>5 DEF Import, PipelineTypeOK
<1>6. ASSUME NEW id \in Ids, Review(id) PROVE PipelineTypeOK'
  <2>1. \A a \in Artifacts : staging[id].art[a] \in Content
    BY DEF PipelineInv, PipelineTypeOK, TypeOK, Entry, Artset
  <2> QED
    BY <1>1, <1>2, <1>6, <2>1 DEF Review, PipelineTypeOK
<1>7. CASE MarkTerminal
  <2>1. row' \in [Ids -> Status]
    BY <1>2, <1>3, <1>7, SetRowType DEF MarkTerminal
  <2> QED
    BY <1>1, <1>2, <1>7, <2>1 DEF MarkTerminal, PipelineTypeOK
<1>8. CASE MarkLost \/ CallStep
  BY <1>1, <1>2, <1>8 DEF MarkLost, CallStep, PipelineTypeOK
<1>9. CASE UNCHANGED allVars
  BY <1>1, <1>2, <1>9 DEF allVars, pipelineVars, PipelineTypeOK
<1> QED
  BY <1>4, <1>5, <1>6, <1>7, <1>8, <1>9 DEF PipelineNext

LEMMA PipelineNextInv ==
  ASSUME PipelineInv, [PipelineNext]_allVars
  PROVE  PipelineInv'
<1>m. UNCHANGED moves
  BY DEF PipelineNext, allVars, vars
<1> USE <1>m
<1>1. PipelineTypeOK'
  BY PipelineNextType
<1>2. ASSUME moves, NEW id \in Ids, staging[id].meta # "none"
      PROVE  staging'[id].meta # "none"
  BY <1>2, StepSimulation, EntriesStay DEF PipelineInv, PipelineTypeOK
<1>3. row \in [Ids -> Status] /\ NoId \notin Ids
  BY StagingAssumption DEF PipelineInv, PipelineTypeOK
<1>4. /\ "pending" \in Status /\ "in_flight" \in Status
      /\ "done" \in Status /\ "error" \in Status
  BY DEF Status
<1>5. ASSUME row' = row PROVE moves => DoneIsReviewable'
  BY <1>2, <1>5 DEF PipelineInv, DoneIsReviewable
<1>6. ASSUME NEW id \in Ids, NEW s \in Status, s # "done", SetRow(id, s)
      PROVE  moves => DoneIsReviewable'
  BY <1>2, <1>3, <1>6, SetRowType DEF PipelineInv, DoneIsReviewable
<1>7. ASSUME NEW id \in Ids,
             Submit(id) \/ Retry(id) \/ RunOnce(id) \/ Plan(id)
      PROVE  (moves => DoneIsReviewable') /\ ImportAtWork'
  <2>1. PICK s \in {"pending", "in_flight"} : SetRow(id, s)
    BY <1>7 DEF Submit, Retry, RunOnce, Plan, Leaves
  <2>2. importing' = NoId
    BY <1>7 DEF Submit, Retry, RunOnce, Plan, Leaves, FirmwareIdle
  <2> QED
    BY <1>4, <1>6, <2>1, <2>2 DEF ImportAtWork
<1>8. ASSUME NEW id \in Ids, Import(id)
      PROVE  (moves => DoneIsReviewable') /\ ImportAtWork'
  <2>1. op' = Idle("err") \/ Begin("stage", id, "results")
    BY <1>8 DEF Import, Staged
  <2>2. ImportAtWork'
    BY <1>8, <2>1 DEF Import, ImportAtWork, Idle, Begin
  <2> QED
    BY <1>5, <1>8, <2>2 DEF Import
<1>9. ASSUME NEW id \in Ids, Review(id)
      PROVE  (moves => DoneIsReviewable') /\ ImportAtWork'
  BY <1>5, <1>9 DEF Review, FirmwareIdle, ImportAtWork
<1>10. CASE MarkTerminal
  <2>1. PICK s \in {"done", "error"} :
          SetRow(importing, s) /\ (s = "done" => op.out = "ok")
    BY <1>10 DEF MarkTerminal
  <2>2. moves /\ s = "done" => staging[importing].meta # "none"
    BY <1>10, <2>1 DEF MarkTerminal, PipelineInv, ImportAtWork
  <2>3. s \in Status
    BY <1>4
  <2>4. moves => DoneIsReviewable'
    BY <1>2, <1>3, <2>1, <2>2, <2>3, SetRowType
       DEF PipelineInv, DoneIsReviewable
  <2> QED
    BY <1>1, <1>10, <2>4 DEF MarkTerminal, ImportAtWork, PipelineInv
<1>11. CASE MarkLost
  BY <1>1, <1>5, <1>11 DEF MarkLost, ImportAtWork, PipelineInv
<1>12. CASE CallStep
  <2>1. moves => DoneIsReviewable'
    BY <1>5, <1>12 DEF CallStep
  <2>2. ASSUME importing' # NoId PROVE ImportAtWork'
    <3>1. importing' = importing /\ importing # NoId /\ Step
      BY <1>12, <2>2 DEF CallStep
    <3>2. op.kind # "idle"
      BY <3>1 DEF Step, MoveSkip, MoveCopy, MoveDrop, Moving, StageMeta,
         AcceptResults, AcceptMeta, RejectMeta, RejectMark, LoopDone,
         WriteFails, SdWriteLoses, WriteDue, PowerCut
    <3>3. op.kind = "stage" /\ op.id = importing /\ importing \in Ids
      BY <3>1, <3>2 DEF PipelineInv, ImportAtWork
    <3>4. TypeOK
      BY DEF PipelineInv, PipelineTypeOK
    <3> QED
      BY <3>1, <3>3, <3>4, StageStep DEF ImportAtWork
  <2> QED
    BY <1>1, <2>1, <2>2 DEF ImportAtWork, PipelineInv
<1>13. CASE UNCHANGED allVars
  BY <1>1, <1>13 DEF allVars, pipelineVars, vars, PipelineInv, DoneIsReviewable,
     ImportAtWork
<1> QED
  BY <1>1, <1>7, <1>8, <1>9, <1>10, <1>11, <1>12, <1>13
     DEF PipelineNext, PipelineInv

LEMMA PipelineSpecInv == PipelineSpec => []PipelineInv
<1>1. PipelineInit => PipelineInv
  <2> SUFFICES ASSUME PipelineInit PROVE PipelineInv
    OBVIOUS
  <2>1. TypeOK
    BY InitType DEF PipelineInit
  <2>2. PipelineTypeOK
    BY <2>1 DEF PipelineInit, PipelineTypeOK, Status
  <2> QED
    BY <2>2 DEF PipelineInit, PipelineInv, ImportAtWork, DoneIsReviewable
<1>2. PipelineInv /\ [PipelineNext]_allVars => PipelineInv'
  BY PipelineNextInv
<1> QED
  BY <1>1, <1>2, PTL DEF PipelineSpec

(***************************************************************************)
(* The type invariant of the composition.                                  *)
(***************************************************************************)
THEOREM PipelineTypeCorrect == PipelineSpec => []PipelineTypeOK
<1>1. PipelineInv => PipelineTypeOK
  BY DEF PipelineInv
<1> QED
  BY <1>1, PipelineSpecInv, PTL

(***************************************************************************)
(* mark_terminal reports done only over a result that is, or was, open to  *)
(* review, wherever a write fails or the power goes, where writes replace  *)
(* files atomically (the host build).                                      *)
(***************************************************************************)
THEOREM DoneIsReviewableTheorem ==
  ASSUME Builds = {TRUE}
  PROVE  PipelineSpec => []DoneIsReviewable
<1>1. PipelineInv => DoneIsReviewable
  BY DEF PipelineInv, PipelineTypeOK, TypeOK
<1> QED
  BY <1>1, PipelineSpecInv, PTL

-----------------------------------------------------------------------------
(* What reaches a project was shown before: on the host, while no write    *)
(* fails, and with power cuts anywhere.                                    *)

\* A request has one complete run at most: its row leaves "in flight" for
\* "done", and only rows without one are run. What staging/ holds of a
\* request is from that run.
OneRun ==
    \A id \in Ids :
      /\ row[id] \in {"none", "pending", "error"}
           => results[id].manifest # "ok"
      /\ results[id].manifest # "ok"
           => /\ staging[id].meta = "none"
              /\ \A a \in Artifacts : staging[id].art[a] = Missing
      /\ results[id].manifest = "ok"
           => /\ results[id].run # Missing
              /\ \A a \in Artifacts :
                   {results[id].art[a], staging[id].art[a]}
                     \subseteq {Missing, results[id].run}

\* What stage_only returns tells whether there is such a run.
ImportTells ==
    /\ op.kind = "stage" =>
         importing = op.id /\ results[op.id].manifest = "ok"
    /\ importing # NoId /\ op.kind = "idle" =>
         (op.out = "ok" <=> results[importing].manifest = "ok")

Opened(id) == results[id].run \in seen

\* What results/ still holds of an entry is in staging/, too, until the user
\* has seen it.
Covered(id, a) ==
    results[id].art[a] # Missing => staging[id].art[a] # Missing

Emptied(id, a) ==
    results[id].art[a] = Missing /\ staging[id].art[a] = Missing

Offered ==
    /\ \A id \in Ids : staging[id].meta # "none" =>
         Opened(id) \/ \A a \in Artifacts : Covered(id, a)
    /\ op.kind = "stage" =>
         \A a \in Artifacts :
           a < op.i \/ (a = op.i /\ op.at = "drop") => Covered(op.id, a)
    /\ op.kind \in {"accept", "reject"} =>
         /\ staging[op.id].meta # "none"
         /\ Opened(op.id) \/ \A a \in Artifacts : Emptied(op.id, a)

ReviewInv == OneRun /\ ImportTells /\ Offered /\ OnlyReviewedReachesProject

ReviewHyp ==
    /\ PipelineInv /\ Inv /\ ReviewInv
    /\ moves /\ "write" \notin Faults

\* An entry is one of a complete run.
LEMMA EntryHasRun ==
  ASSUME OneRun, NEW id \in Ids, staging[id].meta # "none"
  PROVE  /\ results[id].manifest = "ok"
         /\ \A a \in Artifacts :
              {results[id].art[a], staging[id].art[a]}
                \subseteq {Missing, results[id].run}
BY DEF OneRun

\* A request without a complete run gets one, or none.
LEMMA RunsOnce ==
  ASSUME ReviewHyp, NEW id \in Ids, BridgeRuns(id),
         results[id].manifest # "ok", FirmwareIdle,
         SetRow(id, "in_flight"), UNCHANGED <<importing, seen>>
  PROVE  ReviewInv'
<1>1. PICK d \in Outcomes(results[id], runs + 1) :
        results' = [results EXCEPT ![id] = d]
  BY DEF BridgeRuns
<1>2. results \in [Ids -> Dir] /\ row \in [Ids -> Status] /\ runs \in Nat
      /\ NoId \notin Ids
  BY StagingAssumption, ResultDirAssumption
     DEF ReviewHyp, PipelineInv, PipelineTypeOK, TypeOK, Content
<1>3. d.manifest = "ok" =>
        /\ d.run # Missing
        /\ \A a \in Artifacts : d.art[a] \in {Missing, d.run}
  <2>1. ASSUME d.manifest = "ok" PROVE d = Whole(runs + 1)
    <3>1. \A e \in Wiped(results[id]) : e.manifest # "ok"
      BY DEF Wiped
    <3>2. \A e \in Cut(runs + 1) : e.manifest # "ok"
      BY DEF Cut
    <3>3. \A e \in Errored(results[id]) : e.manifest # "ok"
      BY <1>2 DEF Errored, Dir
    <3> QED
      BY <2>1, <3>1, <3>2, <3>3 DEF Outcomes
  <2> QED
    BY <1>2, <2>1 DEF Whole, Missing
<1>4. /\ results'[id] = d
      /\ row'[id] = "in_flight"
      /\ \A j \in Ids : j # id => results'[j] = results[j] /\ row'[j] = row[j]
      /\ UNCHANGED <<staging, project, op, importing, seen>>
  BY <1>1, <1>2 DEF BridgeRuns, SetRow
<1>5. /\ staging[id].meta = "none"
      /\ \A a \in Artifacts : staging[id].art[a] = Missing
  BY DEF ReviewHyp, ReviewInv, OneRun
<1>6. OneRun'
  BY <1>3, <1>4, <1>5 DEF ReviewHyp, ReviewInv, OneRun
<1>7. ImportTells' /\ op'.kind = "idle"
  BY <1>4 DEF FirmwareIdle, ImportTells
<1>8. Offered'
  BY <1>4, <1>5, <1>7
     DEF ReviewHyp, ReviewInv, Offered, Opened, Covered
<1> QED
  BY <1>4, <1>6, <1>7, <1>8
     DEF ReviewHyp, ReviewInv, OnlyReviewedReachesProject

\* Rows change, the files stay.
LEMMA RowsOnly ==
  ASSUME ReviewHyp, UNCHANGED <<results, staging, project, op, seen>>,
         \A id \in Ids :
           row'[id] \in {"none", "pending", "error"} =>
             \/ row[id] \in {"none", "pending", "error"}
             \/ results[id].manifest # "ok",
         importing' \in {importing, NoId},
         op.kind # "idle" => importing' = importing
  PROVE  ReviewInv'
<1>1. OneRun'
  BY DEF ReviewHyp, ReviewInv, OneRun
<1>2. ImportTells'
  BY DEF ReviewHyp, ReviewInv, ImportTells
<1>3. Offered'
  BY DEF ReviewHyp, ReviewInv, Offered, Opened, Covered, Emptied
<1> QED
  BY <1>1, <1>2, <1>3 DEF ReviewHyp, ReviewInv, OnlyReviewedReachesProject

LEMMA ImportReviewed ==
  ASSUME ReviewHyp, NEW id \in Ids, Import(id)
  PROVE  ReviewInv'
<1>1. UNCHANGED <<results, staging, project, row, seen>> /\ importing' = id
  BY DEF Import, Staged
<1>2. \/ results[id].manifest = "ok" /\ Begin("stage", id, "results")
      \/ results[id].manifest # "ok" /\ op' = Idle("err")
  BY DEF Import, Staged
<1>3. \/ /\ results[id].manifest = "ok"
         /\ op'.kind = "stage" /\ op'.id = id /\ op'.i = 1 /\ op'.at = "copy"
      \/ results[id].manifest # "ok" /\ op'.kind = "idle" /\ op'.out = "err"
  BY <1>2 DEF Begin, Idle
<1>4. OneRun' /\ OnlyReviewedReachesProject'
  BY <1>1 DEF ReviewHyp, ReviewInv, OneRun, OnlyReviewedReachesProject
<1>5. ImportTells'
  BY <1>1, <1>3 DEF ImportTells
<1>6. Offered'
  <2>1. \A a \in Artifacts : ~(a < 1)
    BY DEF Artifacts
  <2> QED
    BY <1>1, <1>3, <2>1
       DEF ReviewHyp, ReviewInv, Offered, Opened, Covered
<1> QED
  BY <1>4, <1>5, <1>6 DEF ReviewInv

LEMMA ReviewReviewed ==
  ASSUME ReviewHyp, NEW id \in Ids, Review(id)
  PROVE  ReviewInv'
<1>1. /\ UNCHANGED <<results, staging, project, row, importing>>
      /\ seen' = seen \cup ({staging[id].art[a] : a \in Artifacts} \ {Missing})
      /\ staging[id].meta = "pending"
      /\ importing = NoId
  BY DEF Review, Accept, Reject, Pending, FirmwareIdle
<1>2. op'.kind \in {"accept", "reject"} /\ op'.id = id
  BY DEF Review, Accept, Reject, Begin
<1>3. OneRun' /\ OnlyReviewedReachesProject' /\ ImportTells'
  BY <1>1, <1>2
     DEF ReviewHyp, ReviewInv, OneRun, OnlyReviewedReachesProject, ImportTells
<1>4. Opened(id)' \/ \A a \in Artifacts : Emptied(id, a)
  <2>1. CASE \E a \in Artifacts : staging[id].art[a] # Missing
    <3>1. PICK a \in Artifacts : staging[id].art[a] # Missing
      BY <2>1
    <3>2. staging[id].art[a] = results[id].run
      BY <1>1, <3>1, EntryHasRun DEF ReviewHyp, ReviewInv
    <3> QED
      BY <1>1, <3>1, <3>2 DEF Opened
  <2>2. CASE \A a \in Artifacts : staging[id].art[a] = Missing
    BY <1>1, <2>2
       DEF ReviewHyp, ReviewInv, Offered, Opened, Covered, Emptied
  <2> QED
    BY <2>1, <2>2
<1>5. \A j \in Ids : Opened(j) => Opened(j)'
  BY <1>1 DEF Opened
<1>6. Offered'
  BY <1>1, <1>2, <1>4, <1>5
     DEF ReviewHyp, ReviewInv, Offered, Covered, Emptied
<1> QED
  BY <1>3, <1>6 DEF ReviewInv

\* What the steps of a call have in common.
LEMMA CallFacts ==
  ASSUME ReviewHyp, op.kind # "idle"
  PROVE  /\ op.id \in Ids /\ op \in Call /\ op.out = "none"
         /\ results \in [Ids -> Dir] /\ staging \in [Ids -> Entry]
         /\ project \in [Projects -> Artset]
         /\ results[op.id].manifest = "ok"
         /\ op.kind = "stage" => importing = op.id /\ op.pass = "results"
         /\ op.kind # "stage" => importing = NoId
         /\ op.kind \in {"stage", "accept", "reject"}
<1>1. TypeOK /\ CallShape
  BY DEF ReviewHyp, Inv
<1>2. op.kind \in {"stage", "accept", "reject"} /\ op.id \in Ids
  BY <1>1 DEF TypeOK, Call
<1>3. op.kind # "stage" => importing = NoId
  BY DEF ReviewHyp, PipelineInv, ImportAtWork
<1>4. results[op.id].manifest = "ok"
  BY <1>2, EntryHasRun DEF ReviewHyp, ReviewInv, ImportTells, Offered
<1> QED
  BY <1>1, <1>2, <1>3, <1>4
     DEF TypeOK, CallShape, ReviewHyp, ReviewInv, ImportTells

\* Calls go on within one import.
LEMMA SameImport ==
  ASSUME ReviewHyp, op.kind # "idle", results'[op.id].manifest = "ok",
         op'.kind = op.kind, op'.id = op.id, op'.out = op.out,
         importing' = IF op'.out = "crash" THEN NoId ELSE importing
  PROVE  ImportTells' /\ importing' = importing
BY CallFacts DEF ImportTells

LEMMA SkipReviewed ==
  ASSUME ReviewHyp, MoveSkip, CallStep
  PROVE  ReviewInv'
<1>1. /\ Moving /\ Source[op.i] = Missing /\ op' = NextArtifact
      /\ UNCHANGED <<results, staging, project, row, seen>>
      /\ importing' = IF op'.out = "crash" THEN NoId ELSE importing
  BY DEF MoveSkip, CallStep
<1>2. op.kind # "idle" /\ op.i \in Artifacts
  BY <1>1 DEF Moving
<1>3. /\ op'.kind = op.kind /\ op'.id = op.id /\ op'.out = op.out
      /\ op'.i = op.i + 1 /\ op'.at = "copy"
  BY <1>1, MoveShape DEF ReviewHyp, Inv
<1>4. results'[op.id].manifest = "ok"
  BY <1>1, <1>2, CallFacts
<1>5. ImportTells'
  BY <1>1, <1>2, <1>3, <1>4, SameImport
<1>6. OneRun' /\ OnlyReviewedReachesProject'
  BY <1>1 DEF ReviewHyp, ReviewInv, OneRun, OnlyReviewedReachesProject
<1>7. ASSUME op.kind = "stage", NEW a \in Artifacts, a < op.i + 1
      PROVE  Covered(op.id, a)
  <2>1. CASE a = op.i
    BY <1>1, <1>2, <1>7, <2>1, CallFacts DEF Covered, Source
  <2>2. CASE a < op.i
    BY <1>7, <2>2 DEF ReviewHyp, ReviewInv, Offered
  <2> QED
    BY <1>2, <1>7, <2>1, <2>2 DEF Artifacts
<1>8. Offered'
  BY <1>1, <1>3, <1>7
     DEF ReviewHyp, ReviewInv, Offered, Opened, Covered, Emptied
<1> QED
  BY <1>5, <1>6, <1>8 DEF ReviewInv

\* A body that is copied is the request's run; one that goes into a project
\* was seen.
LEMMA CopyIsRun ==
  ASSUME ReviewHyp, MoveCopy
  PROVE  /\ op.kind # "idle" /\ op.i \in Artifacts
         /\ Source[op.i] = results[op.id].run
         /\ op.kind \in {"accept", "reject"} => Opened(op.id)
<1>1. Moving /\ Source[op.i] # Missing
  BY DEF MoveCopy
<1>2. op.kind # "idle" /\ op.i \in Artifacts
  BY <1>1 DEF Moving
<1>3. {results[op.id].art[op.i], staging[op.id].art[op.i]}
        \subseteq {Missing, results[op.id].run}
  BY <1>2, CallFacts DEF ReviewHyp, ReviewInv, OneRun
<1>4. ~Emptied(op.id, op.i)
  BY <1>1 DEF Emptied, Source
<1> QED
  BY <1>1, <1>2, <1>3, <1>4 DEF Source, ReviewHyp, ReviewInv, Offered

LEMMA CopyReviewed ==
  ASSUME ReviewHyp, MoveCopy, CallStep
  PROVE  ReviewInv'
<1> DEFINE id == op.id
           run == results[id].run
<1>1. /\ op.kind # "idle" /\ op.i \in Artifacts /\ Source[op.i] = run
      /\ op.kind \in {"accept", "reject"} => run \in seen
  BY CopyIsRun DEF Opened
<1>2. /\ CopyTo(run) /\ op' = [op EXCEPT !.at = "drop"]
      /\ UNCHANGED <<results, row, seen>>
      /\ importing' = IF op'.out = "crash" THEN NoId ELSE importing
  BY <1>1 DEF MoveCopy, CallStep, ReviewHyp
<1>3. /\ op'.kind = op.kind /\ op'.id = op.id /\ op'.out = op.out
      /\ op'.i = op.i /\ op'.at = "drop"
  BY <1>1, <1>2, CallFacts DEF Call
<1>4. results'[op.id].manifest = "ok"
  BY <1>1, <1>2, CallFacts
<1>5. ImportTells'
  BY <1>1, <1>2, <1>3, <1>4, SameImport
<1>6. \A j \in Ids :
        /\ staging'[j].meta = staging[j].meta
        /\ \A a \in Artifacts :
             IF op.kind = "stage" /\ j = id /\ a = op.i
             THEN staging'[j].art[a] = run
             ELSE staging'[j].art[a] = staging[j].art[a]
  <2>1. staging \in [Ids -> Entry] /\ id \in Ids
    BY <1>1, CallFacts
  <2>2. CASE op.kind = "stage"
    <3>1. staging' = [staging EXCEPT ![id].art[op.i] = run]
      BY <1>2, <2>2 DEF CopyTo
    <3> QED
      BY <1>1, <2>1, <2>2, <3>1 DEF Entry, Artset
  <2>3. CASE op.kind # "stage"
    BY <1>2, <2>3 DEF CopyTo
  <2> QED
    BY <2>2, <2>3
<1>7. run # Missing /\ id \in Ids /\ results[id].manifest = "ok"
  BY <1>1, CallFacts DEF ReviewHyp, ReviewInv, OneRun
<1>8. OnlyReviewedReachesProject'
  <2>1. CASE op.kind = "accept"
    <3>1. project' = [project EXCEPT ![ProjectOf[id]][op.i] = run]
      BY <1>2, <2>1 DEF CopyTo
    <3>2. \A p \in Projects, a \in Artifacts :
            project'[p][a] \in {project[p][a], run}
      BY <1>1, <3>1, CallFacts DEF Artset
    <3> QED
      BY <1>1, <1>2, <2>1, <3>2
         DEF ReviewHyp, ReviewInv, OnlyReviewedReachesProject
  <2>2. CASE op.kind # "accept"
    BY <1>2, <2>2
       DEF CopyTo, ReviewHyp, ReviewInv, OnlyReviewedReachesProject
  <2> QED
    BY <2>1, <2>2
<1> HIDE DEF id, run
<1>9. OneRun'
  <2>1. id = op.id /\ run = results[op.id].run
    BY DEF id, run
  <2> QED
    BY <1>2, <1>6, <1>7, <2>1 DEF ReviewHyp, ReviewInv, OneRun
<1>10. Offered'
  <2>1. id = op.id
    BY DEF id
  <2>2. \A j \in Ids, a \in Artifacts : Covered(j, a) => Covered(j, a)'
    BY <1>2, <1>6, <1>7 DEF Covered
  <2>3. \A j \in Ids, a \in Artifacts :
          op.kind = "stage" /\ j = id /\ a = op.i => Covered(j, a)'
    BY <1>6, <1>7 DEF Covered
  <2>4. \A j \in Ids : Opened(j) => Opened(j)'
    BY <1>2 DEF Opened
  <2>5. op.kind \in {"accept", "reject"} => Opened(op.id)
    BY CopyIsRun
  <2>6. \A j \in Ids : staging'[j].meta # "none" =>
          Opened(j)' \/ \A a \in Artifacts : Covered(j, a)'
    BY <1>6, <2>2, <2>4 DEF ReviewHyp, ReviewInv, Offered
  <2>7. op'.kind = "stage" =>
          \A a \in Artifacts : a < op'.i \/ a = op'.i => Covered(op.id, a)'
    BY <1>3, <1>7, <2>1, <2>2, <2>3 DEF ReviewHyp, ReviewInv, Offered
  <2>8. op'.kind \in {"accept", "reject"} =>
          staging'[op.id].meta # "none" /\ Opened(op.id)'
    BY <1>3, <1>6, <1>7, <2>1, <2>4, <2>5 DEF ReviewHyp, ReviewInv, Offered
  <2> QED
    BY <1>3, <2>6, <2>7, <2>8 DEF Offered
<1> QED
  BY <1>5, <1>8, <1>9, <1>10 DEF ReviewInv

LEMMA DropReviewed ==
  ASSUME ReviewHyp, MoveDrop, CallStep
  PROVE  ReviewInv'
<1>1. /\ Moving /\ op.at = "drop" /\ op' = NextArtifact
      /\ DropSource \/ UNCHANGED <<results, staging>>
      /\ UNCHANGED <<project, row, seen>>
      /\ importing' = IF op'.out = "crash" THEN NoId ELSE importing
  BY DEF MoveDrop, CallStep
<1>2. op.kind # "idle" /\ op.i \in Artifacts /\ op.id \in Ids
  BY <1>1, CallFacts DEF Moving
<1>3. /\ op'.kind = op.kind /\ op'.id = op.id /\ op'.out = op.out
      /\ op'.i = op.i + 1 /\ op'.at = "copy"
  BY <1>1, MoveShape DEF ReviewHyp, Inv
<1>4. \A j \in Ids :
        /\ results'[j].manifest = results[j].manifest
        /\ results'[j].run = results[j].run
        /\ staging'[j].meta = staging[j].meta
        /\ \A a \in Artifacts :
             /\ results'[j].art[a] \in {Missing, results[j].art[a]}
             /\ staging'[j].art[a] \in {Missing, staging[j].art[a]}
             /\ op.pass = "results" \/ j # op.id =>
                  staging'[j].art[a] = staging[j].art[a]
  <2>1. CASE DropSource /\ op.pass = "results"
    <3>1. /\ results' = [results EXCEPT ![op.id].art[op.i] = Missing]
          /\ UNCHANGED staging
      BY <2>1 DEF DropSource
    <3>2. \A j \in Ids : results[j].art \in Artset /\ results[j] \in Dir
      BY <1>2, CallFacts DEF Dir
    <3>3. \A j \in Ids :
            results'[j] = IF j = op.id
                          THEN [results[j] EXCEPT !.art[op.i] = Missing]
                          ELSE results[j]
      BY <1>2, <3>1, CallFacts
    <3>4. \A j \in Ids :
            /\ results'[j].manifest = results[j].manifest
            /\ results'[j].run = results[j].run
      BY <3>2, <3>3 DEF Dir
    <3>6. \A j \in Ids :
            results'[j].art = IF j = op.id
                              THEN [results[j].art EXCEPT ![op.i] = Missing]
                              ELSE results[j].art
      BY <3>2, <3>3 DEF Dir
    <3>5. \A j \in Ids, a \in Artifacts :
            results'[j].art[a] \in {Missing, results[j].art[a]}
      BY <3>2, <3>6 DEF Artset
    <3> QED
      BY <2>1, <3>1, <3>4, <3>5
  <2>2. CASE DropSource /\ op.pass = "staging"
    <3>1. /\ staging' = [staging EXCEPT ![op.id].art[op.i] = Missing]
          /\ UNCHANGED results
      BY <2>2 DEF DropSource
    <3>2. \A j \in Ids : staging[j].art \in Artset /\ staging[j] \in Entry
      BY <1>2, CallFacts DEF Entry
    <3>3. \A j \in Ids :
            staging'[j] = IF j = op.id
                          THEN [staging[j] EXCEPT !.art[op.i] = Missing]
                          ELSE staging[j]
      BY <1>2, <3>1, CallFacts
    <3>4. \A j \in Ids : staging'[j].meta = staging[j].meta
      BY <3>2, <3>3 DEF Entry
    <3>6. \A j \in Ids :
            staging'[j].art = IF j = op.id
                              THEN [staging[j].art EXCEPT ![op.i] = Missing]
                              ELSE staging[j].art
      BY <3>2, <3>3 DEF Entry
    <3>5. \A j \in Ids, a \in Artifacts :
            /\ staging'[j].art[a] \in {Missing, staging[j].art[a]}
            /\ j # op.id => staging'[j].art[a] = staging[j].art[a]
      BY <3>2, <3>6 DEF Artset
    <3> QED
      BY <2>2, <3>1, <3>4, <3>5
  <2>3. CASE UNCHANGED <<results, staging>>
    BY <2>3
  <2> QED
    BY <1>1, <2>1, <2>2, <2>3 DEF DropSource
<1>5. ImportTells'
  BY <1>1, <1>2, <1>3, <1>4, CallFacts, SameImport
<1>6. OneRun'
  BY <1>1, <1>4 DEF ReviewHyp, ReviewInv, OneRun
<1>7. op.kind \in {"accept", "reject"} => Opened(op.id)
  <2>1. Source[op.i] # Missing
    BY <1>1, <1>2 DEF ReviewHyp, Inv, Arrived
  <2>2. ~Emptied(op.id, op.i)
    BY <2>1 DEF Emptied, Source
  <2> QED
    BY <1>2, <2>2 DEF ReviewHyp, ReviewInv, Offered
<1>8. \A j \in Ids : Opened(j) => Opened(j)'
  BY <1>1, <1>4 DEF Opened
<1>9. \A j \in Ids : op.kind = "stage" \/ j # op.id =>
        \A a \in Artifacts : Covered(j, a) => Covered(j, a)'
  BY <1>2, <1>4, CallFacts DEF Covered
<1>10. op.kind = "stage" =>
         \A a \in Artifacts : a < op.i + 1 => Covered(op.id, a)
  <2>1. ASSUME op.kind = "stage", NEW a \in Artifacts, a < op.i + 1
        PROVE  a < op.i \/ a = op.i
    BY <1>2, <2>1 DEF Artifacts
  <2> QED
    BY <1>1, <2>1 DEF ReviewHyp, ReviewInv, Offered
<1>11. Offered'
  <2>1. op.kind \in {"stage", "accept", "reject"}
    BY <1>2, CallFacts
  <2>2. \A j \in Ids : staging'[j].meta # "none" =>
          Opened(j)' \/ \A a \in Artifacts : Covered(j, a)'
    BY <1>4, <1>7, <1>8, <1>9, <2>1 DEF ReviewHyp, ReviewInv, Offered
  <2>3. op'.kind = "stage" =>
          \A a \in Artifacts : a < op'.i => Covered(op.id, a)'
    BY <1>2, <1>3, <1>9, <1>10
  <2>4. op'.kind \in {"accept", "reject"} =>
          staging'[op.id].meta # "none" /\ Opened(op.id)'
    BY <1>2, <1>3, <1>4, <1>7, <1>8 DEF ReviewHyp, ReviewInv, Offered
  <2> QED
    BY <1>3, <2>2, <2>3, <2>4 DEF Offered
<1> QED
  BY <1>1, <1>5, <1>6, <1>11
     DEF ReviewInv, ReviewHyp, OnlyReviewedReachesProject

\* The meta.json that ends a call.
LEMMA MetaReviewed ==
  ASSUME ReviewHyp, StageMeta \/ AcceptMeta \/ RejectMark, CallStep
  PROVE  ReviewInv'
<1>1. PICK m \in {"pending", "accepted", "rejected"} :
        staging' = [staging EXCEPT ![op.id].meta = m]
  BY DEF StageMeta, AcceptMeta, RejectMark
<1>2. /\ UNCHANGED <<results, project, row, seen>>
      /\ op'.kind = "idle" /\ op'.out = "ok" /\ importing' = importing
      /\ op.kind # "idle"
      /\ op.kind = "stage" => op.i = NumArtifacts + 1
  BY DEF StageMeta, AcceptMeta, RejectMark, CallStep, Idle, LoopDone
<1>3. \A j \in Ids :
        /\ staging'[j].art = staging[j].art
        /\ staging'[j].meta = IF j = op.id THEN m ELSE staging[j].meta
  BY <1>1, <1>2, CallFacts DEF Entry
<1>4. ImportTells'
  BY <1>2, CallFacts DEF ImportTells
<1>5. OneRun'
  BY <1>2, <1>3, CallFacts DEF ReviewHyp, ReviewInv, OneRun
<1>6. Opened(op.id) \/ \A a \in Artifacts : Covered(op.id, a)
  <2>1. CASE op.kind = "stage"
    <3>1. \A a \in Artifacts : a < op.i
      BY <1>2, <2>1, ResultDirAssumption DEF Artifacts
    <3> QED
      BY <2>1, <3>1 DEF ReviewHyp, ReviewInv, Offered
  <2>2. CASE op.kind # "stage"
    BY <1>2, <2>2, CallFacts
       DEF ReviewHyp, ReviewInv, Offered, Covered, Emptied
  <2> QED
    BY <2>1, <2>2
<1>7. Offered'
  BY <1>2, <1>3, <1>6
     DEF ReviewHyp, ReviewInv, Offered, Opened, Covered
<1> QED
  BY <1>2, <1>4, <1>5, <1>7
     DEF ReviewInv, ReviewHyp, OnlyReviewedReachesProject

\* The steps of accept and reject between their loops.
LEMMA TurnReviewed ==
  ASSUME ReviewHyp, AcceptResults \/ RejectMeta, CallStep
  PROVE  ReviewInv'
<1>1. /\ UNCHANGED <<results, staging, project, row, seen>>
      /\ importing' = IF op'.out = "crash" THEN NoId ELSE importing
      /\ op.kind \in {"accept", "reject"}
  BY DEF AcceptResults, RejectMeta, CallStep, LoopDone
<1>2. op'.kind = op.kind /\ op'.id = op.id /\ op'.out = op.out
  BY <1>1, CallFacts DEF AcceptResults, RejectMeta, Call
<1>3. ImportTells'
  BY <1>1, <1>2, CallFacts, SameImport
<1> QED
  BY <1>1, <1>2, <1>3
     DEF ReviewInv, ReviewHyp, OneRun, OnlyReviewedReachesProject, Offered,
         Opened, Covered, Emptied

LEMMA CutReviewed ==
  ASSUME ReviewHyp, PowerCut, CallStep
  PROVE  ReviewInv'
<1>1. /\ UNCHANGED <<results, staging, project, row, seen>>
      /\ op'.kind = "idle" /\ importing' = NoId
  BY DEF PowerCut, CallStep, Idle
<1> QED
  BY <1>1
     DEF ReviewInv, ReviewHyp, OneRun, OnlyReviewedReachesProject, Offered,
         Opened, Covered, ImportTells

LEMMA ReviewNext ==
  ASSUME ReviewHyp, [PipelineNext]_allVars
  PROVE  ReviewInv'
<1>1. ASSUME NEW id \in Ids, Submit(id) \/ Retry(id) PROVE ReviewInv'
  <2>1. row[id] \in {"none", "error"} /\ row' = [row EXCEPT ![id] = "pending"]
        /\ UNCHANGED <<results, staging, project, op, seen, importing>>
    BY <1>1 DEF Submit, Retry, NextNew, SetRow, vars
  <2>2. \A j \in Ids : row'[j] = row[j] \/ j = id
    BY <2>1 DEF ReviewHyp, PipelineInv, PipelineTypeOK
  <2> QED
    BY <2>1, <2>2, RowsOnly
<1>2. ASSUME NEW id \in Ids, RunOnce(id) \/ Plan(id) PROVE ReviewInv'
  <2>1. BridgeRuns(id)
    BY <1>2, RunOnceStep, PlanStep
  <2>2. row[id] \in {"none", "pending"} /\ FirmwareIdle
    BY <1>2 DEF RunOnce, Plan, FirstPending, NextNew
  <2>3. SetRow(id, "in_flight") /\ UNCHANGED <<importing, seen>>
    BY <1>2 DEF RunOnce, Plan, Leaves
  <2>4. results[id].manifest # "ok"
    BY <2>2 DEF ReviewHyp, ReviewInv, OneRun
  <2> QED
    BY <2>1, <2>2, <2>3, <2>4, RunsOnce
<1>3. ASSUME NEW id \in Ids, Import(id) PROVE ReviewInv'
  BY <1>3, ImportReviewed
<1>4. ASSUME NEW id \in Ids, Review(id) PROVE ReviewInv'
  BY <1>4, ReviewReviewed
<1>5. CASE MarkTerminal
  <2>1. /\ importing \in Ids /\ op.kind = "idle" /\ importing' = NoId
        /\ row' = [row EXCEPT ![importing] =
                     IF op.out = "ok" THEN "done" ELSE "error"]
        /\ UNCHANGED <<results, staging, project, op, seen>>
    BY <1>5
       DEF MarkTerminal, SetRow, vars, ReviewHyp, PipelineInv, ImportAtWork
  <2>2. op.out # "ok" => results[importing].manifest # "ok"
    BY <1>5, <2>1 DEF MarkTerminal, ReviewHyp, ReviewInv, ImportTells
  <2>3. \A j \in Ids :
          IF j = importing
          THEN row'[j] = IF op.out = "ok" THEN "done" ELSE "error"
          ELSE row'[j] = row[j]
    BY <2>1 DEF ReviewHyp, PipelineInv, PipelineTypeOK
  <2>4. \A j \in Ids :
          row'[j] \in {"none", "pending", "error"} =>
            \/ row[j] \in {"none", "pending", "error"}
            \/ results[j].manifest # "ok"
    BY <2>2, <2>3
  <2> QED
    BY <2>1, <2>4, RowsOnly
<1>6. CASE MarkLost
  BY <1>6, RowsOnly DEF MarkLost, vars
<1>7. CASE CallStep
  <2>1. ~WriteFails /\ ~SdWriteLoses
    BY DEF ReviewHyp, WriteFails, SdWriteLoses
  <2> QED
    BY <1>7, <2>1, SkipReviewed, CopyReviewed, DropReviewed, MetaReviewed,
       TurnReviewed, CutReviewed
       DEF CallStep, Step
<1>8. CASE UNCHANGED allVars
  BY <1>8, RowsOnly DEF allVars, vars, pipelineVars
<1> QED
  BY <1>1, <1>2, <1>3, <1>4, <1>5, <1>6, <1>7, <1>8 DEF PipelineNext

LEMMA ReviewInit == PipelineInit => ReviewInv
BY DEF PipelineInit, Init, ReviewInv, OneRun, ImportTells, Offered,
       OnlyReviewedReachesProject, Idle, NoDir, NoArtifacts

LEMMA ReviewSpecInv ==
  ASSUME Builds = {TRUE}, "write" \notin Faults
  PROVE  PipelineSpec => []ReviewInv
<1>1. PipelineInv /\ Inv /\ ReviewInv /\ [PipelineNext]_allVars => ReviewInv'
  <2>1. PipelineInv => moves
    BY DEF PipelineInv, PipelineTypeOK, TypeOK
  <2> QED
    BY <2>1, ReviewNext DEF ReviewHyp
<1> QED
  BY <1>1, ReviewInit, PipelineSpecInv, PipelineImplementsStaging, SpecInv, PTL
     DEF PipelineSpec, ImplementsStaging

(***************************************************************************)
(* Nothing gets past the review screen: whatever a project folder holds    *)
(* was in an entry the user decided on, for any number of requests and     *)
(* runs, whatever the bridge leaves and wherever the power goes, as long   *)
(* as no write fails (the second loop of accept over results/<id>/ is      *)
(* harmless because a request has one complete run at most).               *)
(***************************************************************************)
THEOREM OnlyReviewedTheorem ==
  ASSUME Builds = {TRUE}, "write" \notin Faults
  PROVE  PipelineSpec => []OnlyReviewedReachesProject
<1>1. ReviewInv => OnlyReviewedReachesProject
  BY DEF ReviewInv
<1> QED
  BY <1>1, ReviewSpecInv, PTL

-----------------------------------------------------------------------------
(* A decision is final where no call is cut short.                         *)

\* Then a request is staged once.
StagedOnce ==
    /\ op.kind \in {"accept", "reject"} => staging[op.id].meta # "none"
    /\ importing # NoId => row[importing] = "in_flight"
    /\ op.kind = "stage" =>
         importing = op.id /\ staging[op.id].meta = "none"
    /\ \A id \in Ids : staging[id].meta # "none" /\ row[id] # "done" =>
         /\ row[id] = "in_flight" /\ importing = id
         /\ op.kind = "idle" /\ op.out = "ok"

FinalHyp == PipelineInv /\ Inv /\ StagedOnce /\ moves /\ Faults = {}

LEMMA CallStagesOnce ==
  ASSUME FinalHyp, CallStep
  PROVE  /\ StagedOnce'
         /\ \A id \in Ids :
              staging[id].meta # "none" => staging'[id].meta # "pending"
                                             \/ staging[id].meta = "pending"
<1>1. /\ TypeOK /\ CallShape /\ NoId \notin Ids
      /\ op.kind # "idle" /\ importing # NoId => op.kind = "stage"
  BY StagingAssumption DEF FinalHyp, Inv, PipelineInv, ImportAtWork
<1>2. UNCHANGED row /\ importing' = IF op'.out = "crash" THEN NoId ELSE importing
  BY DEF CallStep
<1>3. op.kind # "idle" /\ ~WriteFails /\ ~SdWriteLoses /\ ~PowerCut
  BY DEF CallStep, Step, MoveSkip, MoveCopy, MoveDrop, Moving, StageMeta,
     AcceptResults, AcceptMeta, RejectMeta, RejectMark, LoopDone,
     WriteFails, SdWriteLoses, PowerCut, FinalHyp
<1>4. op.id \in Ids /\ op \in Call /\ staging \in [Ids -> Entry]
      /\ op.out = "none" /\ op.kind \in {"stage", "accept", "reject"}
  BY <1>1, <1>3 DEF TypeOK, CallShape, Call
<1>5. \A id \in Ids : staging[id].meta # "none" => row[id] = "done"
  BY <1>3 DEF FinalHyp, StagedOnce
<1>6. CASE MoveSkip \/ MoveCopy \/ MoveDrop \/ AcceptResults \/ RejectMeta
  <2>1. op'.kind = op.kind /\ op'.id = op.id /\ op'.out = op.out
    <3>1. CASE MoveSkip \/ MoveDrop
      BY <1>1, <3>1, MoveShape DEF MoveSkip, MoveDrop
    <3>2. CASE MoveCopy
      BY <1>1, <1>4, <3>2, MoveShape DEF MoveCopy, Call
    <3>3. CASE AcceptResults \/ RejectMeta
      BY <1>4, <3>3 DEF AcceptResults, RejectMeta, Call
    <3> QED
      BY <1>6, <3>1, <3>2, <3>3
  <2>2. \A id \in Ids : staging'[id].meta = staging[id].meta
    <3>1. \/ UNCHANGED staging
          \/ \E c : staging' = [staging EXCEPT ![op.id].art[op.i] = c]
      BY <1>6 DEF MoveSkip, MoveCopy, CopyTo, MoveDrop, DropSource,
         AcceptResults, RejectMeta
    <3>2. ASSUME NEW c, staging' = [staging EXCEPT ![op.id].art[op.i] = c],
                 NEW id \in Ids
          PROVE  staging'[id].meta = staging[id].meta
      BY <1>4, <3>2 DEF Entry
    <3> QED
      BY <3>1, <3>2
  <2>3. importing' = importing
    BY <1>2, <1>4, <2>1
  <2>4. StagedOnce'
    BY <1>1, <1>2, <1>3, <1>4, <1>5, <2>1, <2>2, <2>3
       DEF FinalHyp, StagedOnce
  <2> QED
    BY <2>2, <2>4
<1>7. CASE StageMeta \/ AcceptMeta \/ RejectMark
  <2>1. PICK m \in {"pending", "accepted", "rejected"} :
          /\ staging' = [staging EXCEPT ![op.id].meta = m]
          /\ m = "pending" => op.kind = "stage"
    BY <1>7 DEF StageMeta, AcceptMeta, RejectMark, LoopDone
  <2>2. op'.kind = "idle" /\ op'.out = "ok" /\ importing' = importing
    BY <1>2, <1>7 DEF StageMeta, AcceptMeta, RejectMark, Idle
  <2>3. \A id \in Ids :
          staging'[id].meta = IF id = op.id THEN m ELSE staging[id].meta
    BY <1>4, <2>1 DEF Entry
  <2>4. StagedOnce'
    BY <1>1, <1>2, <1>3, <1>4, <1>5, <2>2, <2>3 DEF FinalHyp, StagedOnce
  <2>5. op.kind = "stage" => staging[op.id].meta = "none"
    BY DEF FinalHyp, StagedOnce
  <2> QED
    BY <2>1, <2>3, <2>4, <2>5
<1> QED
  BY <1>3, <1>6, <1>7 DEF CallStep, Step

LEMMA FinalNext ==
  ASSUME FinalHyp, [PipelineNext]_allVars
  PROVE  /\ StagedOnce'
         /\ \A id \in Ids :
              staging[id].meta # "none" => staging'[id].meta # "pending"
                                             \/ staging[id].meta = "pending"
<1>1. /\ row \in [Ids -> Status] /\ NoId \notin Ids
      /\ importing \in Ids \cup {NoId}
  BY StagingAssumption DEF FinalHyp, PipelineInv, PipelineTypeOK
<1>2. ASSUME NEW id \in Ids, NEW s, SetRow(id, s), s # "done",
             row[id] \in {"none", "pending", "error"}, FirmwareIdle,
             UNCHANGED <<staging, op, importing>>
      PROVE  StagedOnce'
  <2>1. \A j \in Ids : row'[j] = IF j = id THEN s ELSE row[j]
    BY <1>1, <1>2 DEF SetRow
  <2>2. \A j \in Ids : staging[j].meta # "none" => row[j] = "done"
    BY <1>1, <1>2 DEF FinalHyp, StagedOnce, FirmwareIdle
  <2> QED
    BY <1>1, <1>2, <2>1, <2>2 DEF StagedOnce, FirmwareIdle
<1>3. ASSUME NEW id \in Ids,
             Submit(id) \/ Retry(id) \/ RunOnce(id) \/ Plan(id)
      PROVE  StagedOnce' /\ UNCHANGED staging
  <2>1. PICK s \in {"pending", "in_flight"} : SetRow(id, s)
    BY <1>3 DEF Submit, Retry, RunOnce, Plan, Leaves
  <2>2. /\ row[id] \in {"none", "pending", "error"} /\ FirmwareIdle
        /\ UNCHANGED <<staging, op, importing>>
    BY <1>3 DEF Submit, Retry, RunOnce, Plan, Leaves, NextNew, FirstPending,
       vars
  <2> QED
    BY <1>2, <2>1, <2>2
<1>4. ASSUME NEW id \in Ids, Import(id)
      PROVE  StagedOnce' /\ UNCHANGED staging
  <2>1. /\ UNCHANGED <<row, staging>> /\ importing' = id
        /\ row[id] = "in_flight" /\ importing = NoId
    BY <1>4 DEF Import, Staged, FirmwareIdle
  <2>2. \/ op'.kind = "stage" /\ op'.id = id
        \/ op'.kind = "idle"
    BY <1>4 DEF Import, Staged, Begin, Idle
  <2>3. \A j \in Ids : staging[j].meta # "none" => row[j] = "done"
    BY <1>1, <2>1 DEF FinalHyp, StagedOnce
  <2> QED
    BY <1>1, <2>1, <2>2, <2>3 DEF StagedOnce
<1>5. ASSUME NEW id \in Ids, Review(id)
      PROVE  StagedOnce' /\ UNCHANGED staging
  <2>1. /\ UNCHANGED <<row, staging, importing>> /\ importing = NoId
        /\ staging[id].meta = "pending"
        /\ op'.kind \in {"accept", "reject"} /\ op'.id = id
    BY <1>5 DEF Review, Accept, Reject, Pending, FirmwareIdle, Begin
  <2> QED
    BY <1>1, <2>1 DEF FinalHyp, StagedOnce
<1>6. CASE MarkTerminal
  <2>1. /\ importing \in Ids /\ op.kind = "idle" /\ importing' = NoId
        /\ UNCHANGED <<staging, op>>
    BY <1>1, <1>6 DEF MarkTerminal, vars
  <2>2. \A j \in Ids :
          row'[j] = IF j = importing
                    THEN IF op.out = "ok" THEN "done" ELSE "error"
                    ELSE row[j]
    BY <1>1, <1>6, <2>1 DEF MarkTerminal, SetRow
  <2>3. StagedOnce'
    BY <1>1, <2>1, <2>2 DEF FinalHyp, StagedOnce
  <2> QED
    BY <2>1, <2>3
<1>7. ~MarkLost
  BY DEF MarkLost, FinalHyp
<1>8. CASE UNCHANGED allVars
  BY <1>8 DEF allVars, vars, pipelineVars, FinalHyp, StagedOnce
<1> QED
  BY <1>3, <1>4, <1>5, <1>6, <1>7, <1>8, CallStagesOnce DEF PipelineNext

(***************************************************************************)
(* The meta.json of accept and reject is terminal (staging_queue.cpp):     *)
(* where no firmware call fails or is cut short, a decided entry is not    *)
(* offered again, for any number of requests and whatever the bridge does. *)
(***************************************************************************)
THEOREM ReviewIsFinalTheorem ==
  ASSUME Builds = {TRUE}, Faults = {}
  PROVE  PipelineSpec => ReviewIsFinal
<1>1. PipelineInv => moves
  BY DEF PipelineInv, PipelineTypeOK, TypeOK
<1>2. PipelineInit => StagedOnce
  BY DEF PipelineInit, Init, StagedOnce, Idle
<1>3. PipelineInv /\ Inv /\ StagedOnce /\ [PipelineNext]_allVars
        => StagedOnce'
  BY <1>1, FinalNext DEF FinalHyp
<1>4. PipelineInv /\ Inv /\ StagedOnce /\ [PipelineNext]_allVars =>
        [\A id \in Ids : staging[id].meta \in {"accepted", "rejected"}
                         => staging'[id].meta # "pending"]_allVars
  BY <1>1, FinalNext DEF FinalHyp
<1> QED
  BY <1>2, <1>3, <1>4, PipelineSpecInv, PipelineImplementsStaging, SpecInv, PTL
     DEF PipelineSpec, ImplementsStaging, ReviewIsFinal
=============================================================================
