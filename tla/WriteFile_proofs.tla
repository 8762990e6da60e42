--------------------------- MODULE WriteFile_proofs ---------------------------
(***************************************************************************)
(* Proofs about WriteFile: no backend shows a torn file, each of them      *)
(* implements AtomicFile, and none gives up the old body before the new    *)
(* one is whole.                                                           *)
(***************************************************************************)
EXTENDS WriteFile, TLAPS

\* A complete temporary file holds the body of the running call.
TmpIsBody == pc \in {"written", "removed"} => tmp = call

\* The destination holds the new body once the rename is done.
DestIsBody == pc = "swapped" => dest = call

Inv == TypeOK /\ NeverTorn /\ TmpIsBody /\ DestIsBody

LEMMA InitInv == Init => Inv
BY WriteFileAssumption
   DEF Init, Inv, TypeOK, NeverTorn, TmpIsBody, DestIsBody, Steps

LEMMA NextInv == Inv /\ [Next]_vars => Inv'
<1> SUFFICES ASSUME Inv, [Next]_vars PROVE Inv'
  OBVIOUS
<1>0. UNCHANGED backend
  BY DEF Next, vars
<1> USE <1>0, WriteFileAssumption
        DEF Inv, TypeOK, NeverTorn, TmpIsBody, DestIsBody, Steps, Finish
<1>1. ASSUME NEW c \in Contents, Call(c) PROVE Inv'
  BY <1>1 DEF Call
<1>2. CASE OpenFails
  BY <1>2 DEF OpenFails
<1>3. CASE OpenTmp
  BY <1>3 DEF OpenTmp
<1>4. CASE WriteTmp
  BY <1>4 DEF WriteTmp
<1>5. CASE ShortWrite
  BY <1>5 DEF ShortWrite
<1>6. CASE RenameOver
  BY <1>6 DEF RenameOver
<1>7. CASE RenameOverFails
  BY <1>7 DEF RenameOverFails
<1>8. CASE SdRemoveDest
  BY <1>8 DEF SdRemoveDest
<1>9. CASE SdRemoveFails
  BY <1>9 DEF SdRemoveFails
<1>10. CASE SdRename
  BY <1>10 DEF SdRename, SdReadyToRename
<1>11. CASE SdRenameFails
  BY <1>11 DEF SdRenameFails, SdReadyToRename
<1>12. CASE Return
  BY <1>12 DEF Return
<1>13. CASE Crash
  BY <1>13 DEF Crash
<1>14. CASE UNCHANGED vars
  BY <1>14 DEF vars
<1>15. QED
  BY <1>1, <1>2, <1>3, <1>4, <1>5, <1>6, <1>7, <1>8, <1>9, <1>10, <1>11,
     <1>12, <1>13, <1>14 DEF Next

LEMMA SpecInv == Spec => []Inv
BY InitInv, NextInv, PTL DEF Spec

(***************************************************************************)
(* No reader of <path> ever finds a body cut short, whatever the backend,  *)
(* the bodies written and the steps that fail.                             *)
(***************************************************************************)
THEOREM NeverTornTheorem == Spec => []NeverTorn
<1>1. Inv => NeverTorn
  BY DEF Inv
<1>2. QED
  BY <1>1, SpecInv, PTL

LEMMA InitImplements == Init => Atomic!Init
BY DEF Init, Atomic!Init

LEMMA NextImplements ==
  ASSUME Inv, [Next]_vars
  PROVE  [Atomic!Next]_(Atomic!vars)
<1>0. UNCHANGED backend
  BY DEF Next, vars
<1> USE <1>0, WriteFileAssumption
        DEF Inv, TypeOK, TmpIsBody, Steps, Finish, Atomic!Next, Atomic!vars
<1>1. ASSUME NEW c \in Contents, Call(c)
      PROVE  [Atomic!Next]_(Atomic!vars)
  BY <1>1 DEF Call, Atomic!Call
<1>2. CASE OpenFails
  BY <1>2 DEF OpenFails, Atomic!Return
<1>3. CASE OpenTmp
  BY <1>3 DEF OpenTmp
<1>4. CASE WriteTmp
  BY <1>4 DEF WriteTmp
<1>5. CASE ShortWrite
  BY <1>5 DEF ShortWrite, Atomic!Return
<1>6. CASE RenameOver
  BY <1>6 DEF RenameOver, Atomic!Replace
<1>7. CASE RenameOverFails
  BY <1>7 DEF RenameOverFails, Atomic!Return
<1>8. CASE SdRemoveDest
  BY <1>8 DEF SdRemoveDest, Atomic!Lose
<1>8a. CASE SdRemoveFails
  BY <1>8a DEF SdRemoveFails, Atomic!Return
<1>8b. CASE SdRename
  BY <1>8b DEF SdRename, SdReadyToRename, Atomic!Replace
<1>8c. CASE SdRenameFails
  BY <1>8c DEF SdRenameFails, SdReadyToRename, Atomic!Return
<1>9. CASE Return
  BY <1>9 DEF Return, Atomic!Return
<1>10. CASE Crash
  BY <1>10 DEF Crash, Atomic!Crash
<1>11. CASE UNCHANGED vars
  BY <1>11 DEF vars
<1>12. QED
  BY <1>1, <1>2, <1>3, <1>4, <1>5, <1>6, <1>7, <1>8, <1>8a, <1>8b,
     <1>8c, <1>9, <1>10, <1>11 DEF Next

(***************************************************************************)
(* All three implementations are atomic up to the loss the SD backend      *)
(* admits: every behaviour of their steps, failures and crashes is one of  *)
(* AtomicFile, where only a lossy backend can lose the old file, and only  *)
(* during a call that has not yet taken effect.                            *)
(***************************************************************************)
THEOREM WriteFileIsAtomic == Spec => ImplementsAtomicFile
<1>1. Inv /\ [Next]_vars => [Atomic!Next]_(Atomic!vars)
  BY NextImplements
<1>2. QED
  BY <1>1, SpecInv, InitImplements, PTL
     DEF Spec, ImplementsAtomicFile, Atomic!Spec
(***************************************************************************)
(* The only step that takes the destination away does so when <path>.tmp   *)
(* holds the whole new body (SdStorage::write_file), for any contents.     *)
(***************************************************************************)
THEOREM RemovalKeepsNewBodyTheorem == Spec => RemovalKeepsNewBody
<1>1. ASSUME Inv, [Next]_vars, dest # Absent, dest' = Absent
      PROVE  tmp' = tmp /\ tmp = call
  <2> USE <1>1, WriteFileAssumption
          DEF Inv, TypeOK, TmpIsBody, Steps, Finish
  <2>1. CASE SdRemoveDest
    BY <2>1 DEF SdRemoveDest
  <2>2. CASE RenameOver
    BY <2>2 DEF RenameOver
  <2>3. CASE SdRename
    BY <2>3 DEF SdRename, SdReadyToRename
  <2>4. CASE UNCHANGED dest
    BY <2>4
  <2> QED
    BY <2>1, <2>2, <2>3, <2>4
       DEF Next, vars, Call, OpenFails, OpenTmp, WriteTmp, ShortWrite,
           RenameOverFails, SdRemoveFails, SdRenameFails, Return, Crash
<1>2. Inv /\ [Next]_vars =>
        [dest # Absent /\ dest' = Absent => tmp' = tmp /\ tmp = call]_vars
  BY <1>1
<1> QED
  BY <1>2, SpecInv, PTL DEF Spec, RemovalKeepsNewBody

=============================================================================
