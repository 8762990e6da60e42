------------------------------ MODULE Recorder ------------------------------
(***************************************************************************)
(* Voice capture: the recorder screen, the Recorder it owns and the        *)
(* WavWriter under it, over one project's voice/ directory.  A recording   *)
(* is recording-<n>.wav, written as a header, rewritten with more samples  *)
(* at every flush and once more to fill the header's sizes, and then       *)
(* recording-<n>.manifest.json with the length and the hash of the file.   *)
(*                                                                         *)
(* Samples come in blocks of one pass of the screen's loop.  Every file    *)
(* written is a step of its own; it can fail, and the power can go.        *)
(***************************************************************************)
EXTENDS Integers

CONSTANTS MaxTakes,     \* bound: recordings ever started
          MaxBlocks,    \* bound: blocks in one recording
          EarlyBlocks,  \* bound: blocks before the clock has moved a second
          FlushBlocks,  \* blocks that reach WavWriter's flush threshold
          Targets,      \* the durations of keys 1, 2 and 3, in seconds
          DefaultTarget,
          MaxAge,       \* bound: seconds the clock moves in one recording
          Faults,       \* which of "write" and "crash" may happen
          Absent,       \* no such file
          Empty         \* a file of no bytes

Idx == 1..MaxTakes
Blocks == 0..MaxBlocks

\* hdr: the data size in the header; len: the samples that follow it.
Wav == [take : Idx, hdr : Blocks, len : Blocks]

\* The hash stands for the very bytes it was taken of.
Manifest == [dur : Blocks, sha256 : Wav]

ASSUME RecorderAssumption ==
    /\ MaxTakes \in Nat /\ MaxBlocks \in Nat
    /\ EarlyBlocks \in 0..MaxBlocks
    /\ FlushBlocks \in Nat \ {0}
    /\ Targets \subseteq Nat
    /\ DefaultTarget \in Targets
    /\ MaxAge \in Nat
    /\ Faults \subseteq {"write", "crash"}
    /\ Absent # Empty
    /\ {Absent, Empty} \cap (Wav \cup Manifest) = {}

VARIABLES wav,       \* voice/recording-<n>.wav
          manifest,  \* voice/recording-<n>.manifest.json
          tmp,       \* an unfinished write left a recording-<n>.*.tmp
          rec,       \* the Recorder and its WavWriter, in RAM
          screen,    \* the recorder screen
          pc,        \* which write of stop() or cancel() comes next
          age,       \* seconds since last_tick
          takes,     \* recordings started so far
          clean,     \* history: no write has failed, no power cut
          sd         \* write_file is SdStorage's

files == <<wav, manifest, tmp>>
vars == <<wav, manifest, tmp, rec, screen, pc, age, takes, clean, sd>>

\* buf: blocks not flushed; data: blocks WavWriter was given (data_bytes_);
\* kept: blocks in data_buffer, from which the duration is computed.
NoRecorder == [recording |-> FALSE, n |-> 0, take |-> 0, buf |-> 0,
               data |-> 0, kept |-> 0, finalized |-> FALSE]

\* "list" stands for every screen but the recorder.
\* auto: the stop under way is the automatic one.
Away == [state |-> "list", elapsed |-> 0, target |-> DefaultTarget,
         auto |-> FALSE]

TypeOK ==
    /\ wav \in [Idx -> Wav \cup {Absent, Empty}]
    /\ manifest \in [Idx -> Manifest \cup {Absent, Empty}]
    /\ tmp \in [Idx -> BOOLEAN]
    /\ rec \in [recording : BOOLEAN, n : 0..MaxTakes, take : 0..MaxTakes,
                buf : Blocks, data : Blocks, kept : Blocks,
                finalized : BOOLEAN]
    /\ screen \in [state : {"list", "idle", "recording", "stopped"},
                   elapsed : Nat, target : Targets, auto : BOOLEAN]
    /\ pc \in {"keys", "flush", "finalize", "hash", "wipe_wav",
               "wipe_manifest"}
    /\ age \in 0..MaxAge
    /\ takes \in 0..MaxTakes
    /\ clean \in BOOLEAN
    /\ sd \in BOOLEAN

Init ==
    /\ wav = [i \in Idx |-> Absent]
    /\ manifest = [i \in Idx |-> Absent]
    /\ tmp = [i \in Idx |-> FALSE]
    /\ rec = NoRecorder
    /\ screen = Away
    /\ pc = "keys"
    /\ age = 0
    /\ takes = 0
    /\ clean = TRUE
    /\ sd \in BOOLEAN

-----------------------------------------------------------------------------
(* write_file (WriteFile): whole or not at all, except that the SD backend *)
(* may lose the old file and leave only the .tmp.                          *)

Broken(old) == { [file |-> old, tmp |-> t] : t \in BOOLEAN }
                 \cup (IF sd THEN {[file |-> Absent, tmp |-> TRUE]} ELSE {})

Outcomes(old, new) ==
    { [ret |-> "ok", file |-> new, tmp |-> FALSE] }
      \cup (IF "write" \in Faults
              THEN { [ret |-> "err", file |-> b.file, tmp |-> b.tmp] :
                       b \in Broken(old) }
              ELSE {})
      \cup (IF "crash" \in Faults
              THEN { [ret |-> "crash", file |-> b.file, tmp |-> b.tmp] :
                       b \in Broken(old)
                             \cup {[file |-> new, tmp |-> FALSE]} }
              ELSE {})

WriteWav(n, o) ==
    /\ wav' = [wav EXCEPT ![n] = o.file]
    /\ tmp' = [tmp EXCEPT ![n] = o.tmp]
    /\ clean' = (clean /\ o.ret = "ok")
    /\ UNCHANGED manifest

WriteManifest(n, o) ==
    /\ manifest' = [manifest EXCEPT ![n] = o.file]
    /\ tmp' = [tmp EXCEPT ![n] = tmp[n] \/ o.tmp]
    /\ clean' = (clean /\ o.ret = "ok")
    /\ UNCHANGED wav

\* The route returns, or the power goes: the Recorder is gone either way.
Leave ==
    /\ rec' = NoRecorder
    /\ screen' = Away
    /\ pc' = "keys"

-----------------------------------------------------------------------------
(* The recorder screen.                                                    *)

Open ==
    /\ screen.state = "list"
    /\ screen' = [Away EXCEPT !.state = "idle"]
    /\ UNCHANGED <<files, rec, pc, age, takes, clean>>

PressTarget(t) ==
    /\ screen.state # "list"
    /\ pc = "keys"
    /\ screen' = [screen EXCEPT !.target = t]
    /\ UNCHANGED <<files, rec, pc, age, takes, clean>>

\* Any recording-<i>* counts, whatever follows the digits.
Listed(i) == wav[i] # Absent \/ manifest[i] # Absent \/ tmp[i]

\* A bug IsNext could have: the largest index in use, and not one more.
IsLast(n) ==
    /\ \A i \in Idx : Listed(i) => i <= n
    /\ n > 1 => Listed(n)

\* next_recording_index(): one more than the largest index in use.
IsNext(n) ==
    /\ \A i \in Idx : Listed(i) => i < n
    /\ n > 1 => Listed(n - 1)

\* Key 'r' on an idle or stopped screen.  It does nothing when ensure_dir
\* fails, nor while the Recorder still holds a recording whose write failed:
\* start() then answers "already recording".
PressStart ==
    /\ screen.state \in {"idle", "stopped"}
    /\ ~rec.recording
    /\ takes < MaxTakes
    /\ takes' = takes + 1
    /\ \E n \in Idx :
         /\ IsNext(n)
         /\ \E o \in Outcomes(wav[n], [take |-> takes', hdr |-> 0, len |-> 0]) :
              /\ WriteWav(n, o)
              /\ \/ /\ o.ret = "ok"
                    /\ rec' = [NoRecorder EXCEPT !.recording = TRUE,
                                                 !.n = n, !.take = takes']
                    /\ screen' = [screen EXCEPT !.state = "recording",
                                                !.elapsed = 0]
                    /\ age' = 0
                    /\ UNCHANGED pc
                 \/ /\ o.ret = "err"
                    /\ UNCHANGED <<rec, screen, pc, age>>
                 \/ /\ o.ret = "crash"
                    /\ Leave
                    /\ UNCHANGED age

\* std::time moves on.
Tick ==
    /\ screen.state = "recording"
    /\ age < MaxAge
    /\ age' = age + 1
    /\ UNCHANGED <<files, rec, screen, pc, takes, clean>>

-----------------------------------------------------------------------------
(* One pass of the loop while recording: the elapsed time, a block of      *)
(* samples, perhaps a flush, perhaps the automatic stop.                   *)

\* A bug Elapsed could have: the time since last_tick is left out.
ElapsedStands == screen.elapsed

\* elapsed_ms grows by the whole time since last_tick, which no pass moves.
Elapsed == screen.elapsed + age

\* The stop that follows a good pass, once the elapsed time says so.
AutoStop ==
    /\ screen' = [screen EXCEPT !.elapsed = Elapsed,
                                !.auto = Elapsed >= screen.target]
    /\ pc' = IF Elapsed >= screen.target THEN "flush" ELSE "keys"

AppendFails ==
    /\ screen' = [screen EXCEPT !.elapsed = Elapsed, !.state = "stopped"]
    /\ UNCHANGED pc

Passing ==
    /\ screen.state = "recording"
    /\ pc = "keys"
    /\ rec.data < IF age = 0 THEN EarlyBlocks ELSE MaxBlocks

\* write_samples(): the writer takes the block before it can fail.
Sampled == [rec EXCEPT !.buf = rec.buf + 1, !.data = rec.data + 1]

\* A bug PassBuffers could have: the flush threshold is not looked at.
PassNeverFlushes ==
    /\ Passing
    /\ rec' = [Sampled EXCEPT !.kept = rec.kept + 1]
    /\ AutoStop
    /\ UNCHANGED <<files, age, takes, clean>>

PassBuffers ==
    /\ Passing
    /\ rec.buf + 1 < FlushBlocks
    /\ rec' = [Sampled EXCEPT !.kept = rec.kept + 1]
    /\ AutoStop
    /\ UNCHANGED <<files, age, takes, clean>>

\* flush_to_storage(): what is on disk, with blocks more behind it.
Appended(blocks) == [wav[rec.n] EXCEPT !.len = wav[rec.n].len + blocks]

PassFlushes ==
    /\ Passing
    /\ rec.buf + 1 >= FlushBlocks
    /\ wav[rec.n] \in Wav
    /\ \E o \in Outcomes(wav[rec.n], Appended(rec.buf + 1)) :
         /\ WriteWav(rec.n, o)
         /\ \/ /\ o.ret = "ok"
               /\ rec' = [Sampled EXCEPT !.buf = 0, !.kept = rec.kept + 1]
               /\ AutoStop
            \/ /\ o.ret = "err"
               /\ rec' = Sampled
               /\ AppendFails
            \/ /\ o.ret = "crash"
               /\ Leave
    /\ UNCHANGED <<age, takes>>

-----------------------------------------------------------------------------
(* stop(): flush, fill the header, hash the file, write the manifest.      *)

PressStop ==
    /\ screen.state = "recording"
    /\ pc = "keys"
    /\ pc' = "flush"
    /\ screen' = [screen EXCEPT !.auto = FALSE]
    /\ UNCHANGED <<files, rec, age, takes, clean>>

\* Key 'r' stays on the screen with the error; the automatic stop goes home.
StopFails ==
    \/ /\ screen.auto
       /\ Leave
    \/ /\ ~screen.auto
       /\ screen' = [screen EXCEPT !.state = "stopped"]
       /\ pc' = "keys"
       /\ UNCHANGED rec

\* How a write of stop() ends when it does not end well.
StopInterrupted(o) ==
    \/ o.ret = "err" /\ StopFails
    \/ o.ret = "crash" /\ Leave

\* A bug StopFlush could have: the buffered tail is not flushed.
FlushForgotten ==
    /\ pc = "flush"
    /\ pc' = "finalize"
    /\ UNCHANGED <<files, rec, screen, age, takes, clean>>

StopFlush ==
    /\ pc = "flush"
    /\ \/ /\ rec.buf = 0
          /\ pc' = "finalize"
          /\ UNCHANGED <<files, rec, screen, clean>>
       \/ /\ rec.buf > 0
          /\ \E o \in Outcomes(wav[rec.n], Appended(rec.buf)) :
               /\ WriteWav(rec.n, o)
               /\ \/ /\ o.ret = "ok"
                     /\ rec' = [rec EXCEPT !.buf = 0]
                     /\ pc' = "finalize"
                     /\ UNCHANGED screen
                  \/ StopInterrupted(o)
    /\ UNCHANGED <<age, takes>>

StopFinalize ==
    /\ pc = "finalize"
    /\ \E o \in Outcomes(wav[rec.n], [wav[rec.n] EXCEPT !.hdr = rec.data]) :
         /\ WriteWav(rec.n, o)
         /\ \/ /\ o.ret = "ok"
               /\ rec' = [rec EXCEPT !.finalized = TRUE]
               /\ pc' = "hash"
               /\ UNCHANGED screen
            \/ StopInterrupted(o)
    /\ UNCHANGED <<age, takes>>

StopManifest ==
    /\ pc = "hash"
    /\ \E o \in Outcomes(manifest[rec.n],
                         [dur |-> rec.kept, sha256 |-> wav[rec.n]]) :
         /\ WriteManifest(rec.n, o)
         /\ (o.ret = "ok" /\ Leave) \/ StopInterrupted(o)
    /\ UNCHANGED <<age, takes>>

-----------------------------------------------------------------------------
(* Esc, and cancel(): both files rewritten as empty, errors ignored.       *)

\* A bug PressEsc could have: the recording is dropped and not cancelled.
EscWithoutCancel ==
    /\ screen.state # "list"
    /\ pc = "keys"
    /\ Leave
    /\ UNCHANGED <<files, age, takes, clean>>

PressEsc ==
    /\ screen.state # "list"
    /\ pc = "keys"
    /\ \/ /\ screen.state = "recording"
          /\ pc' = "wipe_wav"
          /\ UNCHANGED <<rec, screen>>
       \/ /\ screen.state # "recording"
          /\ Leave
    /\ UNCHANGED <<files, age, takes, clean>>

WipeWav ==
    /\ pc = "wipe_wav"
    /\ \E o \in Outcomes(wav[rec.n], Empty) :
         /\ WriteWav(rec.n, o)
         /\ \/ /\ o.ret # "crash"
               /\ pc' = "wipe_manifest"
               /\ UNCHANGED <<rec, screen>>
            \/ /\ o.ret = "crash"
               /\ Leave
    /\ UNCHANGED <<age, takes>>

WipeManifest ==
    /\ pc = "wipe_manifest"
    /\ \E o \in Outcomes(manifest[rec.n], Empty) : WriteManifest(rec.n, o)
    /\ Leave
    /\ UNCHANGED <<age, takes>>

\* Power lost between two writes.
PowerCut ==
    /\ "crash" \in Faults
    /\ screen.state # "list"
    /\ Leave
    /\ clean' = FALSE
    /\ UNCHANGED <<files, age, takes>>

LoopPass == PassBuffers \/ PassFlushes

Stop == StopFlush \/ StopFinalize \/ StopManifest

Cancel == WipeWav \/ WipeManifest

Next ==
    /\ \/ Open
       \/ \E t \in Targets : PressTarget(t)
       \/ PressStart
       \/ Tick
       \/ LoopPass
       \/ PressStop
       \/ Stop
       \/ PressEsc
       \/ Cancel
       \/ PowerCut
    /\ UNCHANGED sd

Spec == Init /\ [][Next]_vars

\* The loop of the screen keeps turning, the clock keeps moving, and a call
\* of stop() or cancel() runs to its end.
FairSpec ==
    /\ Spec
    /\ WF_vars(LoopPass /\ UNCHANGED sd)
    /\ WF_vars(Tick /\ UNCHANGED sd)
    /\ WF_vars(Stop /\ UNCHANGED sd)
    /\ WF_vars(Cancel /\ UNCHANGED sd)

-----------------------------------------------------------------------------
Kept(i) == manifest[i] \in Manifest

\* A manifest is only ever found beside the recording it was written for:
\* the hash is that of the file, the header's size and the duration are the
\* samples the file holds, whatever was interrupted before (Recorder::stop).
ManifestDescribesWav ==
    \A i \in Idx : Kept(i) => /\ manifest[i].sha256 = wav[i]
                              /\ wav[i].hdr = wav[i].len
                              /\ manifest[i].dur = wav[i].len

\* A recording with its manifest is never touched again: no later recording
\* takes its index, no cancel empties it (next_recording_index, cancel).
KeptNeverChanges ==
    [][\A i \in Idx : Kept(i) => UNCHANGED <<wav[i], manifest[i]>>]_vars

\* On the host a recording that is not being cancelled never has less than
\* its samples up to the last flush on disk, even across a power cut: the
\* "recoverable on a power cycle" of wav_writer.h.
HostLosesOneFlush ==
    [][(/\ ~sd
        /\ rec.recording
        /\ pc \notin {"wipe_wav", "wipe_manifest"})
         => /\ wav'[rec.n] \in Wav
            /\ wav'[rec.n].take = rec.take
            /\ wav'[rec.n].len + FlushBlocks >= rec.data]_vars

\* As long as nothing has failed, whoever leaves the screen leaves only
\* finished recordings and emptied ones behind (route_recorder_impl).
NoStumpsLeft ==
    (clean /\ screen.state = "list") => \A i \in Idx : wav[i] \in Wav => Kept(i)

\* A recording nobody stops stops itself (the automatic stop).
RecordingEnds == screen.state = "recording" ~> screen.state # "recording"
=============================================================================
