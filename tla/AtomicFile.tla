----------------------------- MODULE AtomicFile -----------------------------
(***************************************************************************)
(* What IStorage::write_file promises its callers: one file, replaced      *)
(* whole or not at all.  A call names the new content; it takes effect at  *)
(* most once, at a single instant; it returns "ok" exactly when it took    *)
(* effect and "err" exactly when it did not; a crash ends the call on      *)
(* either side of that instant.  Nothing else ever changes the file,       *)
(* except that a lossy backend may lose the old one during the call.       *)
(***************************************************************************)
CONSTANTS Contents, \* the bodies a caller may ask to be written
          Absent,   \* no such file
          NoCall    \* no write in progress

VARIABLES file,  \* what a reader of the path finds
          call,  \* the content the running call must write, or NoCall
          took,  \* the running call has replaced the file
          ret,   \* how the last call ended
          lossy  \* the backend cannot replace a file in one step

vars == <<file, call, took, ret, lossy>>

Init ==
    /\ file \in Contents \cup {Absent}
    /\ call = NoCall
    /\ took = FALSE
    /\ ret = "none"
    /\ lossy \in BOOLEAN

Call(c) ==
    /\ call = NoCall
    /\ call' = c
    /\ took' = FALSE
    /\ ret' = "none"
    /\ UNCHANGED file

\* The instant at which the new content replaces the old one.
Replace ==
    /\ call # NoCall
    /\ ~took
    /\ file' = call
    /\ took' = TRUE
    /\ UNCHANGED <<call, ret>>

Return ==
    /\ call # NoCall
    /\ ret' = IF took THEN "ok" ELSE "err"
    /\ call' = NoCall
    /\ took' = FALSE
    /\ UNCHANGED file

Crash ==
    /\ call # NoCall
    /\ ret' = "crash"
    /\ call' = NoCall
    /\ took' = FALSE
    /\ UNCHANGED file

Lose ==
    /\ lossy
    /\ call # NoCall
    /\ ~took
    /\ file' = Absent
    /\ UNCHANGED <<call, took, ret>>

Next ==
    /\ (\E c \in Contents : Call(c)) \/ Replace \/ Return \/ Crash \/ Lose
    /\ UNCHANGED lossy

Spec == Init /\ [][Next]_vars
=============================================================================
