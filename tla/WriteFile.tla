------------------------------ MODULE WriteFile ------------------------------
(***************************************************************************)
(* The three implementations of "replace a file": HostStorage::write_file, *)
(* SdStorage::write_file and the bridge's _atomic_write.  All three stream *)
(* the body to <path>.tmp first.  The host and the bridge then rename it   *)
(* over the destination; the SD library's rename refuses to overwrite, so  *)
(* the firmware removes the destination and renames afterwards.            *)
(*                                                                         *)
(* Every step is one call into the file system, any of them can fail, and  *)
(* the program can lose power between any two.                             *)
(***************************************************************************)
CONSTANTS Contents, Absent, NoCall,
          Torn      \* a file cut short by a failed or interrupted write

ASSUME WriteFileAssumption ==
    /\ Absent \notin Contents
    /\ NoCall \notin Contents
    /\ Torn \notin Contents \cup {Absent}

VARIABLES dest,  \* <path>
          tmp,   \* <path>.tmp
          call,  \* the content being written, or NoCall
          pc,    \* where write_file stands
          ret,   \* how the last call ended
          backend

vars == <<dest, tmp, call, pc, ret, backend>>

\* "swapped": the rename happened and the call is about to return "".
Steps == {"idle", "called", "opened", "written", "removed", "swapped"}

TypeOK ==
    /\ dest \in Contents \cup {Absent, Torn}
    /\ tmp \in Contents \cup {Absent, Torn}
    /\ call \in Contents \cup {NoCall}
    /\ pc \in Steps
    /\ ret \in {"none", "ok", "err", "crash"}
    /\ (call = NoCall) <=> (pc = "idle")
    /\ backend \in {"host", "sd", "bridge"}

Init ==
    /\ dest \in Contents \cup {Absent}
    /\ tmp = Absent
    /\ call = NoCall
    /\ pc = "idle"
    /\ ret = "none"
    /\ backend \in {"host", "sd", "bridge"}

Finish(outcome) ==
    /\ call' = NoCall
    /\ pc' = "idle"
    /\ ret' = outcome

Call(c) ==
    /\ pc = "idle"
    /\ call' = c
    /\ pc' = "called"
    /\ ret' = "none"
    /\ UNCHANGED <<dest, tmp>>

\* The parent directory cannot be made, or <path>.tmp cannot be opened.
OpenFails ==
    /\ pc = "called"
    /\ Finish("err")
    /\ UNCHANGED <<dest, tmp>>

\* A bug OpenTmp could have: the destination itself is opened for writing.
OpenInPlace ==
    /\ pc = "called"
    /\ dest' = Torn
    /\ tmp' = Torn
    /\ pc' = "opened"
    /\ UNCHANGED <<call, ret>>

\* Opening for writing truncates whatever an earlier call left in <path>.tmp.
OpenTmp ==
    /\ pc = "called"
    /\ tmp' = Torn
    /\ pc' = "opened"
    /\ UNCHANGED <<dest, call, ret>>

WriteTmp ==
    /\ pc = "opened"
    /\ tmp' = call
    /\ pc' = "written"
    /\ UNCHANGED <<dest, call, ret>>

\* A bug ShortWrite could have: the number of bytes written is not compared.
ShortWriteUnnoticed ==
    /\ pc = "opened"
    /\ pc' = "written"
    /\ UNCHANGED <<dest, tmp, call, ret>>

\* Only the SD backend removes the stump of a short write.
ShortWrite ==
    /\ pc = "opened"
    /\ tmp' = IF backend = "sd" THEN Absent ELSE Torn
    /\ Finish("err")
    /\ UNCHANGED dest

\* rename(2) over the destination, or over nothing.
RenameOver ==
    /\ backend # "sd"
    /\ pc = "written"
    /\ dest' = tmp
    /\ tmp' = Absent
    /\ pc' = "swapped"
    /\ UNCHANGED <<call, ret>>

\* A bug RenameOverFails could have: rename's error code is not looked at.
RenameErrorIgnored ==
    /\ backend # "sd"
    /\ pc = "written"
    /\ Finish("ok")
    /\ UNCHANGED <<dest, tmp>>

\* The host removes <path>.tmp after a failed rename, the bridge does not.
RenameOverFails ==
    /\ backend # "sd"
    /\ pc = "written"
    /\ tmp' = IF backend = "host" THEN Absent ELSE tmp
    /\ Finish("err")
    /\ UNCHANGED dest

\* A bug SdRemoveDest could have: the old file is removed first of all.
SdRemoveFirst ==
    /\ backend = "sd"
    /\ pc = "called"
    /\ dest # Absent
    /\ dest' = Absent
    /\ UNCHANGED <<tmp, call, pc, ret>>

SdRemoveDest ==
    /\ backend = "sd"
    /\ pc = "written"
    /\ dest # Absent
    /\ dest' = Absent
    /\ pc' = "removed"
    /\ UNCHANGED <<tmp, call, ret>>

SdRemoveFails ==
    /\ backend = "sd"
    /\ pc = "written"
    /\ dest # Absent
    /\ Finish("err")
    /\ UNCHANGED <<dest, tmp>>

SdReadyToRename ==
    /\ backend = "sd"
    /\ pc \in {"written", "removed"}
    /\ dest = Absent

SdRename ==
    /\ SdReadyToRename
    /\ dest' = tmp
    /\ tmp' = Absent
    /\ pc' = "swapped"
    /\ UNCHANGED <<call, ret>>

SdRenameFails ==
    /\ SdReadyToRename
    /\ Finish("err")
    /\ UNCHANGED <<dest, tmp>>

Return ==
    /\ pc = "swapped"
    /\ Finish("ok")
    /\ UNCHANGED <<dest, tmp>>

\* Power is lost: the files stay as they are, the call is gone.
Crash ==
    /\ pc # "idle"
    /\ Finish("crash")
    /\ UNCHANGED <<dest, tmp>>

Next ==
    /\ \/ \E c \in Contents : Call(c)
       \/ OpenFails \/ OpenTmp \/ WriteTmp \/ ShortWrite
       \/ RenameOver \/ RenameOverFails
       \/ SdRemoveDest \/ SdRemoveFails \/ SdRename \/ SdRenameFails
       \/ Return \/ Crash
    /\ UNCHANGED backend

Spec == Init /\ [][Next]_vars

-----------------------------------------------------------------------------
(* The abstract file is the destination; a call has taken effect once the  *)
(* rename is done.                                                         *)
Atomic == INSTANCE AtomicFile WITH
            file <- dest, took <- (pc = "swapped"),
            lossy <- (backend = "sd")

(***************************************************************************)
(* write_file is the atomic replacement storage.h asks for: every          *)
(* interleaving of steps, failures and crashes looks to a reader of the    *)
(* path like one indivisible replacement or none, and the value returned   *)
(* tells which (storage.h "Implement atomic write").  On the SD backend    *)
(* the old file may go while the call runs, and at no other time.          *)
(***************************************************************************)
ImplementsAtomicFile == Atomic!Spec

(***************************************************************************)
(* No reader ever finds a body cut short, on any backend: only complete    *)
(* temporary files are renamed to <path> (the reason for <path>.tmp).      *)
(***************************************************************************)
NeverTorn == dest # Torn

(***************************************************************************)
(* The SD backend removes the destination only once the whole new body is  *)
(* in <path>.tmp, so one call never loses the old and the new content      *)
(* together (sd_storage.cpp "Keep the tmp file around").                   *)
(***************************************************************************)
RemovalKeepsNewBody ==
    [][dest # Absent /\ dest' = Absent => tmp' = tmp /\ tmp = call]_vars
=============================================================================
