--------------------------- MODULE Recorder_proofs ---------------------------
(***************************************************************************)
(* Proofs about Recorder, for any number of recordings and any flush       *)
(* threshold: its types, that a manifest describes the file beside it and  *)
(* a finished recording is never touched again, on both backends; that     *)
(* only faults leave unfinished files behind; and that on the host an      *)
(* interruption costs one flush at most.                                   *)
(***************************************************************************)
EXTENDS Recorder, TLAPS

\* While the screen records, the samples given to the writer are those on
\* disk and those in the buffer; a stop() that has come to the hash has put
\* all of them on disk and their number in the header.
Progress ==
    screen.state = "recording" =>
        /\ rec.recording
        /\ rec.kept = rec.data
        /\ pc \notin {"wipe_wav", "wipe_manifest"} =>
             /\ wav[rec.n] \in Wav
             /\ wav[rec.n].len + rec.buf = rec.data
        /\ pc \in {"finalize", "hash"} => rec.buf = 0
        /\ pc = "hash" => wav[rec.n].hdr = rec.data

\* The Recorder works on an index of its own.
Owns ==
    /\ pc # "keys" => screen.state = "recording"
    /\ rec.recording => rec.n \in Idx /\ rec.take \in Idx /\ ~Kept(rec.n)

RInv == TypeOK /\ ManifestDescribesWav /\ Progress /\ Owns

-----------------------------------------------------------------------------
\* What a write_file can leave behind.
LEMMA BrokenAre ==
    \A old : \A b \in Broken(old) : b.tmp \in BOOLEAN /\ b.file \in {old, Absent}
<1> TAKE old
<1> TAKE b \in Broken(old)
<1>1. CASE \E t \in BOOLEAN : b = [file |-> old, tmp |-> t]
  BY <1>1
<1>2. CASE b = [file |-> Absent, tmp |-> TRUE]
  BY <1>2
<1> QED
  BY <1>1, <1>2 DEF Broken

LEMMA OutcomesAre ==
    \A old, new : \A o \in Outcomes(old, new) :
        /\ o.ret \in {"ok", "err", "crash"}
        /\ o.tmp \in BOOLEAN
        /\ o.file \in {old, new, Absent}
        /\ o.ret = "ok" => o.file = new
        /\ o.ret = "err" => o.file \in {old, Absent}
<1> TAKE old, new
<1> TAKE o \in Outcomes(old, new)
<1>1. CASE o = [ret |-> "ok", file |-> new, tmp |-> FALSE]
  BY <1>1
<1>2. CASE \E b \in Broken(old) :
             o = [ret |-> "err", file |-> b.file, tmp |-> b.tmp]
  BY <1>2, BrokenAre
<1>3. CASE \E b \in Broken(old) :
             o = [ret |-> "crash", file |-> b.file, tmp |-> b.tmp]
  BY <1>3, BrokenAre
<1>4. CASE o = [ret |-> "crash", file |-> new, tmp |-> FALSE]
  BY <1>4
<1> QED
  BY <1>1, <1>2, <1>3, <1>4 DEF Outcomes

LEMMA AbsentIsNoRecording ==
    /\ Absent \notin Wav /\ Empty \notin Wav
    /\ Absent \notin Manifest /\ Empty \notin Manifest
BY RecorderAssumption

\* What the files of the running recording may become, and nothing else.
LEMMA WriteWavTypes ==
    ASSUME TypeOK, NEW n \in Idx, NEW new \in Wav \cup {Empty},
           NEW o \in Outcomes(wav[n], new), WriteWav(n, o)
    PROVE  /\ wav' \in [Idx -> Wav \cup {Absent, Empty}]
           /\ manifest' = manifest
           /\ tmp' \in [Idx -> BOOLEAN]
           /\ clean' \in BOOLEAN
           /\ \A i \in Idx : i # n => wav'[i] = wav[i]
           /\ o.ret = "ok" => wav'[n] = new
<1>1. wav[n] \in Wav \cup {Absent, Empty}
  BY DEF TypeOK
<1>2. /\ o.tmp \in BOOLEAN /\ o.file \in {wav[n], new, Absent}
      /\ o.ret = "ok" => o.file = new
  BY OutcomesAre
<1> QED
  BY <1>1, <1>2 DEF TypeOK, WriteWav

LEMMA WriteManifestTypes ==
    ASSUME TypeOK, NEW n \in Idx, NEW new \in Manifest \cup {Empty},
           NEW o \in Outcomes(manifest[n], new), WriteManifest(n, o)
    PROVE  /\ manifest' \in [Idx -> Manifest \cup {Absent, Empty}]
           /\ wav' = wav
           /\ tmp' \in [Idx -> BOOLEAN]
           /\ clean' \in BOOLEAN
           /\ \A i \in Idx : i # n => manifest'[i] = manifest[i]
           /\ manifest'[n] \in {manifest[n], new, Absent}
           /\ o.ret = "err" => manifest'[n] \in {manifest[n], Absent}
<1>1. manifest[n] \in Manifest \cup {Absent, Empty}
  BY DEF TypeOK
<1>2. /\ o.tmp \in BOOLEAN /\ o.file \in {manifest[n], new, Absent}
      /\ o.ret = "err" => o.file \in {manifest[n], Absent}
  BY OutcomesAre
<1> QED
  BY <1>1, <1>2 DEF TypeOK, WriteManifest

LEMMA AwayTypes ==
    /\ NoRecorder \in [recording : BOOLEAN, n : 0..MaxTakes,
                       take : 0..MaxTakes, buf : Blocks, data : Blocks,
                       kept : Blocks, finalized : BOOLEAN]
    /\ ~NoRecorder.recording
    /\ Away \in [state : {"list", "idle", "recording", "stopped"},
                 elapsed : Nat, target : Targets, auto : BOOLEAN]
    /\ Away.state = "list"
BY RecorderAssumption DEF NoRecorder, Away, Blocks

-----------------------------------------------------------------------------
KeptStays == \A i \in Idx : Kept(i) => UNCHANGED <<wav[i], manifest[i]>>

\* A step that changes the files of one index only, one without a manifest,
\* keeps every finished recording; what it leaves under that index must not
\* be a manifest, or describe the file.
LEMMA OneIndexChanges ==
    ASSUME RInv, NEW n \in Idx, ~Kept(n),
           \A i \in Idx : i # n => wav'[i] = wav[i] /\ manifest'[i] = manifest[i],
           \/ manifest'[n] \notin Manifest
           \/ /\ manifest'[n] = [dur |-> wav'[n].len, sha256 |-> wav'[n]]
              /\ wav'[n].hdr = wav'[n].len
    PROVE  ManifestDescribesWav' /\ KeptStays
<1>1. KeptStays
  BY DEF KeptStays
<1>2. ASSUME NEW i \in Idx, Kept(i)'
      PROVE  /\ manifest'[i].sha256 = wav'[i]
             /\ wav'[i].hdr = wav'[i].len
             /\ manifest'[i].dur = wav'[i].len
  <2>1. CASE i # n
    BY <1>2, <2>1 DEF RInv, ManifestDescribesWav, Kept
  <2>2. CASE i = n
    BY <1>2, <2>2 DEF Kept
  <2> QED
    BY <2>1, <2>2
<1> QED
  BY <1>1, <1>2 DEF ManifestDescribesWav

LEMMA FilesUnchanged ==
    ASSUME RInv, UNCHANGED <<wav, manifest>>
    PROVE  ManifestDescribesWav' /\ KeptStays
BY DEF RInv, ManifestDescribesWav, KeptStays, Kept

\* Once the Recorder is gone nothing is claimed of it.
LEMMA LeaveKeeps ==
    ASSUME Leave
    PROVE  /\ Progress' /\ Owns'
           /\ rec' = NoRecorder /\ screen' = Away /\ pc' = "keys"
BY AwayTypes DEF Leave, Progress, Owns

-----------------------------------------------------------------------------
LEMMA StartStep ==
    ASSUME RInv, PressStart, UNCHANGED sd
    PROVE  RInv' /\ KeptStays
<1> DEFINE new == [take |-> takes + 1, hdr |-> 0, len |-> 0]
<1>1. takes' \in Idx /\ takes' = takes + 1 /\ new \in Wav
  BY RecorderAssumption DEF PressStart, RInv, TypeOK, Idx, Wav, Blocks
<1>2. PICK n \in Idx : /\ IsNext(n)
                       /\ \E o \in Outcomes(wav[n], new) :
                            /\ WriteWav(n, o)
                            /\ \/ /\ o.ret = "ok"
                                  /\ rec' = [NoRecorder EXCEPT !.recording = TRUE,
                                                     !.n = n, !.take = takes + 1]
                                  /\ screen' = [screen EXCEPT !.state = "recording",
                                                              !.elapsed = 0]
                                  /\ age' = 0
                                  /\ UNCHANGED pc
                               \/ /\ o.ret = "err"
                                  /\ UNCHANGED <<rec, screen, pc, age>>
                               \/ /\ o.ret = "crash"
                                  /\ Leave
                                  /\ UNCHANGED age
  BY <1>1 DEF PressStart
<1>3. PICK o \in Outcomes(wav[n], new) :
            /\ WriteWav(n, o)
            /\ \/ /\ o.ret = "ok"
                  /\ rec' = [NoRecorder EXCEPT !.recording = TRUE,
                                     !.n = n, !.take = takes + 1]
                  /\ screen' = [screen EXCEPT !.state = "recording",
                                              !.elapsed = 0]
                  /\ age' = 0
                  /\ UNCHANGED pc
               \/ /\ o.ret = "err"
                  /\ UNCHANGED <<rec, screen, pc, age>>
               \/ /\ o.ret = "crash"
                  /\ Leave
                  /\ UNCHANGED age
  BY <1>2
<1>4. manifest[n] = Absent
  <2>1. ~Listed(n)
    BY <1>2 DEF IsNext, Idx
  <2> QED
    BY <2>1 DEF Listed
<1>5. ~Kept(n)
  BY <1>4, AbsentIsNoRecording DEF Kept
<1>6. /\ wav' \in [Idx -> Wav \cup {Absent, Empty}]
      /\ manifest' = manifest
      /\ tmp' \in [Idx -> BOOLEAN]
      /\ clean' \in BOOLEAN
      /\ \A i \in Idx : i # n => wav'[i] = wav[i]
      /\ o.ret = "ok" => wav'[n] = new
  BY <1>1, <1>3, WriteWavTypes DEF RInv
<1>7. ManifestDescribesWav' /\ KeptStays
  BY <1>4, <1>5, <1>6, AbsentIsNoRecording, OneIndexChanges
<1>8. screen.state \in {"idle", "stopped"} /\ ~rec.recording
  BY DEF PressStart
<1>9. TypeOK' /\ Progress' /\ Owns'
  <2>1. CASE /\ o.ret = "ok"
             /\ rec' = [NoRecorder EXCEPT !.recording = TRUE,
                                !.n = n, !.take = takes + 1]
             /\ screen' = [screen EXCEPT !.state = "recording", !.elapsed = 0]
             /\ age' = 0
             /\ UNCHANGED pc
    <3>1. /\ rec'.recording /\ rec'.n = n /\ rec'.take = takes'
          /\ rec'.buf = 0 /\ rec'.data = 0 /\ rec'.kept = 0
      BY <2>1, <1>1 DEF NoRecorder
    <3>2. rec' \in [recording : BOOLEAN, n : 0..MaxTakes, take : 0..MaxTakes,
                    buf : Blocks, data : Blocks, kept : Blocks,
                    finalized : BOOLEAN]
      <4>1. rec' = [recording |-> TRUE, n |-> n, take |-> takes + 1, buf |-> 0,
                    data |-> 0, kept |-> 0, finalized |-> FALSE]
        BY <2>1 DEF NoRecorder
      <4>2. 0 \in Blocks /\ n \in 0..MaxTakes /\ takes + 1 \in 0..MaxTakes
        BY <1>1, RecorderAssumption DEF Idx, Blocks
      <4> QED
        BY <4>1, <4>2
    <3>3. pc = "keys"
      BY <1>8 DEF RInv, Owns
    <3>4. screen' \in [state : {"list", "idle", "recording", "stopped"},
                       elapsed : Nat, target : Targets, auto : BOOLEAN]
      BY <2>1 DEF RInv, TypeOK
    <3>5. TypeOK'
      <4>1. /\ age' \in 0..MaxAge
            /\ pc' \in {"keys", "flush", "finalize", "hash", "wipe_wav",
                        "wipe_manifest"}
        BY <3>3, <2>1, RecorderAssumption
      <4>2. takes' \in 0..MaxTakes
        BY <1>1 DEF Idx
      <4>3. /\ manifest' \in [Idx -> Manifest \cup {Absent, Empty}]
            /\ sd' \in BOOLEAN
        BY <1>6 DEF RInv, TypeOK
      <4> QED
        BY <3>2, <3>4, <4>1, <4>2, <4>3, <1>6 DEF TypeOK
    <3>6. Progress'
      BY <3>1, <3>3, <2>1, <1>1, <1>6 DEF Progress
    <3>7. Owns'
      BY <3>1, <3>3, <2>1, <1>1, <1>5, <1>6 DEF Owns, Kept
    <3> QED
      BY <3>5, <3>6, <3>7
  <2>2. CASE UNCHANGED <<rec, screen, pc, age>>
    <3>1. TypeOK'
      BY <2>2, <1>1, <1>6 DEF RInv, TypeOK, Idx
    <3>2. Progress' /\ Owns'
      BY <2>2, <1>8 DEF RInv, Progress, Owns
    <3> QED
      BY <3>1, <3>2
  <2>3. CASE Leave /\ UNCHANGED age
    <3>1. TypeOK'
      BY <2>3, <1>1, <1>6, LeaveKeeps, AwayTypes DEF RInv, TypeOK, Idx
    <3> QED
      BY <2>3, <3>1, LeaveKeeps
  <2> QED
    BY <1>3, <2>1, <2>2, <2>3
<1> QED
  BY <1>7, <1>9 DEF RInv

-----------------------------------------------------------------------------
(* Keys, the clock, the power cut: no file changes.                        *)

LEMMA QuietStep ==
    ASSUME RInv, UNCHANGED sd,
           \/ Open
           \/ \E t \in Targets : PressTarget(t)
           \/ Tick
           \/ PressStop
           \/ PressEsc
           \/ PowerCut
    PROVE  RInv' /\ KeptStays
<1>1. ManifestDescribesWav' /\ KeptStays
  <2>1. UNCHANGED <<wav, manifest>>
    BY DEF Open, PressTarget, Tick, PressStop, PressEsc, PowerCut, files
  <2> QED
    BY <2>1, FilesUnchanged
<1>2. CASE Leave /\ UNCHANGED <<files, age, takes>> /\ clean' \in BOOLEAN
  <2>1. TypeOK'
    BY <1>2, LeaveKeeps, AwayTypes DEF RInv, TypeOK, files
  <2> QED
    BY <1>1, <1>2, <2>1, LeaveKeeps DEF RInv
<1>3. CASE Open
  <2>1. TypeOK' /\ screen'.state = "idle"
    BY <1>3, AwayTypes DEF Open, RInv, TypeOK, files
  <2>2. Progress' /\ Owns'
    BY <1>3, <2>1 DEF Open, RInv, Progress, Owns, Kept, files
  <2> QED
    BY <1>1, <2>1, <2>2 DEF RInv
<1>4. CASE \E t \in Targets : PressTarget(t)
  <2>1. TypeOK' /\ screen'.state = screen.state
    BY <1>4 DEF PressTarget, RInv, TypeOK, files
  <2>2. Progress' /\ Owns'
    BY <1>4, <2>1 DEF PressTarget, RInv, Progress, Owns, Kept, files
  <2> QED
    BY <1>1, <2>1, <2>2 DEF RInv
<1>5. CASE Tick
  <2>1. TypeOK'
    BY <1>5, RecorderAssumption DEF Tick, RInv, TypeOK, files
  <2>2. Progress' /\ Owns'
    BY <1>5 DEF Tick, RInv, Progress, Owns, Kept, files
  <2> QED
    BY <1>1, <2>1, <2>2 DEF RInv
<1>6. CASE PressStop
  <2>1. TypeOK' /\ screen'.state = "recording"
    BY <1>6 DEF PressStop, RInv, TypeOK, files
  <2>2. Progress' /\ Owns'
    BY <1>6, <2>1 DEF PressStop, RInv, Progress, Owns, Kept, files
  <2> QED
    BY <1>1, <2>1, <2>2 DEF RInv
<1>7. CASE PressEsc
  <2>1. CASE screen.state = "recording" /\ pc' = "wipe_wav"
             /\ UNCHANGED <<rec, screen>>
    <3>1. TypeOK'
      BY <1>7, <2>1 DEF PressEsc, RInv, TypeOK, files
    <3>2. Progress' /\ Owns'
      BY <1>7, <2>1 DEF PressEsc, RInv, Progress, Owns, Kept, files
    <3> QED
      BY <1>1, <3>1, <3>2 DEF RInv
  <2>2. CASE Leave
    BY <1>2, <1>7, <2>2 DEF PressEsc, RInv, TypeOK
  <2> QED
    BY <1>7, <2>1, <2>2 DEF PressEsc
<1>8. CASE PowerCut
  BY <1>2, <1>8 DEF PowerCut
<1> QED
  BY <1>3, <1>4, <1>5, <1>6, <1>7, <1>8

-----------------------------------------------------------------------------
(* One pass of the loop.                                                   *)

\* What is known whenever the loop passes, and of one block more.
LEMMA PassingFacts ==
    ASSUME RInv, Passing
    PROVE  /\ rec.recording /\ rec.n \in Idx /\ ~Kept(rec.n)
           /\ wav[rec.n] \in Wav
           /\ wav[rec.n].len + rec.buf = rec.data
           /\ rec.kept = rec.data
           /\ rec.data + 1 \in Blocks /\ rec.buf + 1 \in Blocks
           /\ Sampled.buf = rec.buf + 1 /\ Sampled.data = rec.data + 1
           /\ Sampled \in [recording : BOOLEAN, n : 0..MaxTakes,
                           take : 0..MaxTakes, buf : Blocks, data : Blocks,
                           kept : Blocks, finalized : BOOLEAN]
           /\ Sampled.n = rec.n /\ Sampled.take = rec.take
           /\ Sampled.recording /\ Sampled.kept = rec.kept
<1>1. /\ rec.recording /\ rec.n \in Idx /\ ~Kept(rec.n)
      /\ wav[rec.n] \in Wav
      /\ wav[rec.n].len + rec.buf = rec.data
      /\ rec.kept = rec.data
  BY DEF RInv, Passing, Progress, Owns
<1>2. rec.data \in Blocks /\ rec.buf \in Blocks /\ wav[rec.n].len \in Blocks
  BY <1>1 DEF RInv, TypeOK, Wav
<1>3. rec.data < MaxBlocks
  BY <1>2, RecorderAssumption DEF Passing, Blocks
<1>4. rec.data + 1 \in Blocks /\ rec.buf + 1 \in Blocks
  BY <1>1, <1>2, <1>3, RecorderAssumption DEF Blocks
<1>5. /\ Sampled \in [recording : BOOLEAN, n : 0..MaxTakes,
                      take : 0..MaxTakes, buf : Blocks, data : Blocks,
                      kept : Blocks, finalized : BOOLEAN]
      /\ Sampled.buf = rec.buf + 1 /\ Sampled.data = rec.data + 1
      /\ Sampled.n = rec.n /\ Sampled.take = rec.take
      /\ Sampled.recording = rec.recording /\ Sampled.kept = rec.kept
  BY <1>4 DEF RInv, TypeOK, Sampled
<1> QED
  BY <1>1, <1>4, <1>5

LEMMA AutoStopTypes ==
    ASSUME RInv, screen.state = "recording", AutoStop
    PROVE  /\ screen' \in [state : {"list", "idle", "recording", "stopped"},
                           elapsed : Nat, target : Targets, auto : BOOLEAN]
           /\ screen'.state = "recording"
           /\ pc' \in {"flush", "keys"}
<1>1. Elapsed \in Nat
  BY RecorderAssumption DEF RInv, TypeOK, Elapsed
<1>2. PICK b \in BOOLEAN : screen' = [screen EXCEPT !.elapsed = Elapsed,
                                                   !.auto = b]
  <2> DEFINE due == Elapsed >= screen.target
  <2>1. screen' = [screen EXCEPT !.elapsed = Elapsed, !.auto = due]
    BY DEF AutoStop
  <2>2. due \in BOOLEAN
    OBVIOUS
  <2> HIDE DEF due
  <2> QED
    BY <2>1, <2>2
<1>3. pc' \in {"flush", "keys"}
  BY DEF AutoStop
<1> QED
  BY <1>1, <1>2, <1>3 DEF RInv, TypeOK

LEMMA PassBuffersStep ==
    ASSUME RInv, PassBuffers, UNCHANGED sd
    PROVE  RInv' /\ KeptStays
<1>1. Passing /\ AutoStop /\ UNCHANGED <<wav, manifest, tmp, age, takes, clean>>
  BY DEF PassBuffers, files
<1>2. screen.state = "recording"
  BY <1>1 DEF Passing
<1>3. /\ rec' \in [recording : BOOLEAN, n : 0..MaxTakes, take : 0..MaxTakes,
                   buf : Blocks, data : Blocks, kept : Blocks,
                   finalized : BOOLEAN]
      /\ rec'.recording /\ rec'.n = rec.n /\ rec'.take = rec.take
      /\ rec'.buf = rec.buf + 1 /\ rec'.data = rec.data + 1
      /\ rec'.kept = rec.kept + 1
  BY <1>1, PassingFacts DEF PassBuffers
<1>4. TypeOK'
  BY <1>1, <1>2, <1>3, AutoStopTypes DEF RInv, TypeOK
<1>5. ManifestDescribesWav' /\ KeptStays
  BY <1>1, FilesUnchanged
<1>6. Progress'
  <2>1. wav[rec.n].len \in Blocks /\ rec.buf \in Blocks
    BY <1>1, PassingFacts DEF RInv, TypeOK, Wav
  <2> QED
    BY <1>1, <1>2, <1>3, <2>1, PassingFacts, AutoStopTypes, RecorderAssumption
    DEF Progress, Blocks
<1>7. Owns'
  BY <1>1, <1>2, <1>3, PassingFacts, AutoStopTypes DEF RInv, Owns, Kept
<1> QED
  BY <1>4, <1>5, <1>6, <1>7 DEF RInv

-----------------------------------------------------------------------------
(* Writes of the running recording's own files.                            *)

FilesTyped ==
    /\ wav \in [Idx -> Wav \cup {Absent, Empty}]
    /\ manifest \in [Idx -> Manifest \cup {Absent, Empty}]
    /\ tmp \in [Idx -> BOOLEAN]
    /\ clean \in BOOLEAN

LEMMA OwnWavWrite ==
    ASSUME RInv, rec.recording, NEW new \in Wav \cup {Empty},
           NEW o \in Outcomes(wav[rec.n], new), WriteWav(rec.n, o)
    PROVE  /\ FilesTyped' /\ ManifestDescribesWav' /\ KeptStays
           /\ manifest' = manifest
           /\ o.ret = "ok" => wav'[rec.n] = new
<1>1. rec.n \in Idx /\ ~Kept(rec.n)
  BY DEF RInv, Owns
<1>2. PICK n \in Idx : n = rec.n
  BY <1>1
<1>3. /\ wav' \in [Idx -> Wav \cup {Absent, Empty}]
      /\ manifest' = manifest
      /\ tmp' \in [Idx -> BOOLEAN]
      /\ clean' \in BOOLEAN
      /\ \A i \in Idx : i # n => wav'[i] = wav[i]
      /\ o.ret = "ok" => wav'[n] = new
  BY <1>2, WriteWavTypes DEF RInv
<1>4. FilesTyped'
  BY <1>3 DEF RInv, TypeOK, FilesTyped
<1>5. ManifestDescribesWav' /\ KeptStays
  BY <1>1, <1>2, <1>3, OneIndexChanges DEF Kept
<1> QED
  BY <1>2, <1>3, <1>4, <1>5

\* The route returns after a write, or the power goes.
LEMMA LeaveStep ==
    ASSUME RInv, Leave, FilesTyped', ManifestDescribesWav',
           UNCHANGED <<age, takes, sd>>
    PROVE  RInv'
<1>1. TypeOK'
  BY LeaveKeeps, AwayTypes DEF RInv, TypeOK, FilesTyped
<1> QED
  BY <1>1, LeaveKeeps DEF RInv

\* A write of stop() failed.
LEMMA StopFailsStep ==
    ASSUME RInv, StopFails, FilesTyped', ManifestDescribesWav',
           screen.state = "recording",
           manifest'[rec.n] \notin Manifest,
           UNCHANGED <<age, takes, sd>>
    PROVE  RInv'
<1>1. CASE Leave
  BY <1>1, LeaveStep
<1>2. CASE /\ screen' = [screen EXCEPT !.state = "stopped"]
           /\ pc' = "keys"
           /\ UNCHANGED rec
  <2>1. TypeOK' /\ screen'.state = "stopped"
    BY <1>2 DEF RInv, TypeOK, FilesTyped
  <2>2. Progress' /\ Owns'
    BY <1>2, <2>1 DEF RInv, Progress, Owns, Kept
  <2> QED
    BY <2>1, <2>2 DEF RInv
<1> QED
  BY <1>1, <1>2 DEF StopFails

LEMMA PassFlushesStep ==
    ASSUME RInv, PassFlushes, UNCHANGED sd
    PROVE  RInv' /\ KeptStays
<1> DEFINE new == Appended(rec.buf + 1)
<1>1. Passing /\ screen.state = "recording" /\ pc = "keys"
  BY DEF PassFlushes, Passing
<1>2. PICK o \in Outcomes(wav[rec.n], new) :
        /\ WriteWav(rec.n, o)
        /\ \/ /\ o.ret = "ok"
              /\ rec' = [Sampled EXCEPT !.buf = 0, !.kept = rec.kept + 1]
              /\ AutoStop
           \/ /\ o.ret = "err"
              /\ rec' = Sampled
              /\ AppendFails
           \/ /\ o.ret = "crash"
              /\ Leave
  BY DEF PassFlushes
<1>3. new \in Wav /\ new.len = rec.data + 1
  <2>1. wav[rec.n].len \in Blocks /\ rec.buf \in Blocks
    BY <1>1, PassingFacts DEF RInv, TypeOK, Wav
  <2>2. wav[rec.n].len + (rec.buf + 1) = rec.data + 1
    BY <1>1, <2>1, PassingFacts DEF Blocks
  <2> QED
    BY <1>1, <2>2, PassingFacts DEF Appended, Wav
<1>4. /\ FilesTyped' /\ ManifestDescribesWav' /\ KeptStays
      /\ manifest' = manifest
      /\ o.ret = "ok" => wav'[rec.n] = new
  BY <1>1, <1>2, <1>3, PassingFacts, OwnWavWrite
<1>5. UNCHANGED <<age, takes>>
  BY DEF PassFlushes
<1>6. RInv'
  <2>1. CASE /\ o.ret = "ok"
             /\ rec' = [Sampled EXCEPT !.buf = 0, !.kept = rec.kept + 1]
             /\ AutoStop
    <3>1. rec.kept + 1 = rec.data + 1 /\ rec.kept + 1 \in Blocks /\ 0 \in Blocks
      BY <1>1, PassingFacts, RecorderAssumption DEF Blocks
    <3>2. /\ rec' \in [recording : BOOLEAN, n : 0..MaxTakes,
                       take : 0..MaxTakes, buf : Blocks, data : Blocks,
                       kept : Blocks, finalized : BOOLEAN]
          /\ rec'.recording /\ rec'.n = rec.n /\ rec'.take = rec.take
          /\ rec'.buf = 0 /\ rec'.data = rec.data + 1
          /\ rec'.kept = rec.data + 1
      BY <1>1, <2>1, <3>1, PassingFacts
    <3>3. TypeOK'
      BY <1>1, <1>4, <1>5, <2>1, <3>2, AutoStopTypes DEF RInv, TypeOK, FilesTyped
    <3>4. Progress'
      BY <1>1, <1>3, <1>4, <2>1, <3>2, PassingFacts, AutoStopTypes
      DEF Progress, Blocks
    <3>5. Owns'
      BY <1>1, <1>4, <2>1, <3>2, PassingFacts, AutoStopTypes DEF RInv, Owns, Kept
    <3> QED
      BY <1>4, <3>3, <3>4, <3>5 DEF RInv
  <2>2. CASE rec' = Sampled /\ AppendFails
    <3>1. screen' \in [state : {"list", "idle", "recording", "stopped"},
                       elapsed : Nat, target : Targets, auto : BOOLEAN]
          /\ screen'.state = "stopped" /\ pc' = "keys"
      <4>1. Elapsed \in Nat
        BY RecorderAssumption DEF RInv, TypeOK, Elapsed
      <4> QED
        BY <1>1, <2>2, <4>1 DEF AppendFails, RInv, TypeOK
    <3>2. TypeOK'
      BY <1>1, <1>4, <1>5, <2>2, <3>1, PassingFacts DEF RInv, TypeOK, FilesTyped
    <3>3. Progress'
      BY <3>1 DEF Progress
    <3>4. Owns'
      BY <1>1, <1>4, <2>2, <3>1, PassingFacts DEF RInv, Owns, Kept
    <3> QED
      BY <1>4, <3>2, <3>3, <3>4 DEF RInv
  <2>3. CASE Leave
    BY <1>4, <1>5, <2>3, LeaveStep
  <2> QED
    BY <1>2, <2>1, <2>2, <2>3
<1> QED
  BY <1>4, <1>6

-----------------------------------------------------------------------------
(* stop() and cancel().                                                    *)

LEMMA StopFlushStep ==
    ASSUME RInv, StopFlush, UNCHANGED sd
    PROVE  RInv' /\ KeptStays
<1>1. /\ pc = "flush" /\ screen.state = "recording"
      /\ UNCHANGED <<age, takes>>
  BY DEF StopFlush, RInv, Owns
<1>2. /\ rec.recording /\ rec.n \in Idx /\ ~Kept(rec.n)
      /\ rec.kept = rec.data
      /\ wav[rec.n] \in Wav
      /\ wav[rec.n].len + rec.buf = rec.data
  BY <1>1 DEF RInv, Progress, Owns
<1>3. wav[rec.n].len \in Blocks /\ rec.buf \in Blocks /\ rec.data \in Blocks
  BY <1>2 DEF RInv, TypeOK, Wav
<1>4. CASE rec.buf = 0 /\ pc' = "finalize" /\ UNCHANGED <<files, rec, screen, clean>>
  <2>1. UNCHANGED <<wav, manifest, tmp>>
    BY <1>4 DEF files
  <2>2. TypeOK'
    BY <1>1, <1>4, <2>1 DEF RInv, TypeOK
  <2>3. Progress' /\ Owns'
    BY <1>1, <1>4, <2>1 DEF RInv, Progress, Owns, Kept
  <2> QED
    BY <2>1, <2>2, <2>3, FilesUnchanged DEF RInv
<1>5. CASE rec.buf > 0 /\ \E o \in Outcomes(wav[rec.n], Appended(rec.buf)) :
               /\ WriteWav(rec.n, o)
               /\ \/ /\ o.ret = "ok"
                     /\ rec' = [rec EXCEPT !.buf = 0]
                     /\ pc' = "finalize"
                     /\ UNCHANGED screen
                  \/ StopInterrupted(o)
  <2> DEFINE new == Appended(rec.buf)
  <2>1. PICK o \in Outcomes(wav[rec.n], new) :
               /\ WriteWav(rec.n, o)
               /\ \/ /\ o.ret = "ok"
                     /\ rec' = [rec EXCEPT !.buf = 0]
                     /\ pc' = "finalize"
                     /\ UNCHANGED screen
                  \/ StopInterrupted(o)
    BY <1>5
  <2>2. new \in Wav /\ new.len = rec.data
    BY <1>2, <1>3 DEF Appended, Wav
  <2>3. /\ FilesTyped' /\ ManifestDescribesWav' /\ KeptStays
        /\ manifest' = manifest
        /\ o.ret = "ok" => wav'[rec.n] = new
    BY <1>2, <2>1, <2>2, OwnWavWrite
  <2>4. CASE /\ o.ret = "ok"
             /\ rec' = [rec EXCEPT !.buf = 0]
             /\ pc' = "finalize"
             /\ UNCHANGED screen
    <3>1. 0 \in Blocks
      BY RecorderAssumption DEF Blocks
    <3>2. TypeOK' /\ rec'.buf = 0 /\ rec'.data = rec.data /\ rec'.n = rec.n
          /\ rec'.kept = rec.kept /\ rec'.recording /\ rec'.take = rec.take
      BY <1>1, <1>2, <2>3, <2>4, <3>1 DEF RInv, TypeOK, FilesTyped
    <3>3. Progress'
      BY <1>2, <1>3, <2>2, <2>3, <2>4, <3>2 DEF Progress, Blocks
    <3>4. Owns'
      BY <1>1, <1>2, <2>3, <2>4, <3>2 DEF RInv, Owns, Kept
    <3> QED
      BY <2>3, <3>2, <3>3, <3>4 DEF RInv
  <2>5. CASE StopFails
    BY <1>1, <1>2, <2>3, <2>5, StopFailsStep DEF Kept
  <2>6. CASE Leave
    BY <1>1, <2>3, <2>6, LeaveStep
  <2> QED
    BY <2>1, <2>3, <2>4, <2>5, <2>6 DEF StopInterrupted
<1> QED
  BY <1>4, <1>5 DEF StopFlush

LEMMA StopFinalizeStep ==
    ASSUME RInv, StopFinalize, UNCHANGED sd
    PROVE  RInv' /\ KeptStays
<1> DEFINE new == [wav[rec.n] EXCEPT !.hdr = rec.data]
<1>1. /\ pc = "finalize" /\ screen.state = "recording"
      /\ UNCHANGED <<age, takes>>
  BY DEF StopFinalize, RInv, Owns
<1>2. /\ rec.recording /\ rec.n \in Idx /\ ~Kept(rec.n)
      /\ rec.kept = rec.data /\ rec.buf = 0
      /\ wav[rec.n] \in Wav
      /\ wav[rec.n].len + rec.buf = rec.data
  BY <1>1 DEF RInv, Progress, Owns
<1>3. new \in Wav /\ new.len = wav[rec.n].len /\ new.hdr = rec.data
  BY <1>2 DEF RInv, TypeOK, Wav
<1>4. PICK o \in Outcomes(wav[rec.n], new) :
        /\ WriteWav(rec.n, o)
        /\ \/ /\ o.ret = "ok"
              /\ rec' = [rec EXCEPT !.finalized = TRUE]
              /\ pc' = "hash"
              /\ UNCHANGED screen
           \/ StopInterrupted(o)
  BY DEF StopFinalize
<1>5. /\ FilesTyped' /\ ManifestDescribesWav' /\ KeptStays
      /\ manifest' = manifest
      /\ o.ret = "ok" => wav'[rec.n] = new
  BY <1>2, <1>3, <1>4, OwnWavWrite
<1>6. CASE /\ o.ret = "ok"
           /\ rec' = [rec EXCEPT !.finalized = TRUE]
           /\ pc' = "hash"
           /\ UNCHANGED screen
  <2>1. TypeOK' /\ rec'.buf = rec.buf /\ rec'.data = rec.data /\ rec'.n = rec.n
        /\ rec'.kept = rec.kept /\ rec'.recording /\ rec'.take = rec.take
    BY <1>1, <1>2, <1>5, <1>6 DEF RInv, TypeOK, FilesTyped
  <2>2. Progress'
    BY <1>2, <1>3, <1>5, <1>6, <2>1 DEF Progress
  <2>3. Owns'
    BY <1>1, <1>2, <1>5, <1>6, <2>1 DEF RInv, Owns, Kept
  <2> QED
    BY <1>5, <2>1, <2>2, <2>3 DEF RInv
<1>7. CASE StopFails
  BY <1>1, <1>2, <1>5, <1>7, StopFailsStep DEF Kept
<1>8. CASE Leave
  BY <1>1, <1>5, <1>8, LeaveStep
<1> QED
  BY <1>4, <1>5, <1>6, <1>7, <1>8 DEF StopInterrupted

LEMMA StopManifestStep ==
    ASSUME RInv, StopManifest, UNCHANGED sd
    PROVE  RInv' /\ KeptStays
<1> DEFINE new == [dur |-> rec.kept, sha256 |-> wav[rec.n]]
<1>1. /\ pc = "hash" /\ screen.state = "recording"
      /\ UNCHANGED <<age, takes>>
  BY DEF StopManifest, RInv, Owns
<1>2. /\ rec.recording /\ rec.n \in Idx /\ ~Kept(rec.n)
      /\ rec.kept = rec.data /\ rec.buf = 0
      /\ wav[rec.n] \in Wav /\ wav[rec.n].hdr = rec.data
      /\ wav[rec.n].len + rec.buf = rec.data
      /\ rec.kept \in Blocks
  BY <1>1 DEF RInv, Progress, Owns, TypeOK
<1>3. wav[rec.n].len = rec.data
  <2>1. wav[rec.n].len \in Blocks
    BY <1>2 DEF Wav
  <2> QED
    BY <1>2, <2>1 DEF Blocks
<1>4. new \in Manifest
  BY <1>2 DEF Manifest
<1>5. PICK n \in Idx : n = rec.n
  BY <1>2
<1>6. PICK o \in Outcomes(manifest[n], new) :
        /\ WriteManifest(n, o)
        /\ (o.ret = "ok" /\ Leave) \/ StopInterrupted(o)
  BY <1>5 DEF StopManifest
<1>7. /\ manifest' \in [Idx -> Manifest \cup {Absent, Empty}]
      /\ wav' = wav
      /\ tmp' \in [Idx -> BOOLEAN]
      /\ clean' \in BOOLEAN
      /\ \A i \in Idx : i # n => manifest'[i] = manifest[i]
      /\ manifest'[n] \in {manifest[n], new, Absent}
      /\ o.ret = "err" => manifest'[n] \in {manifest[n], Absent}
  BY <1>4, <1>6, WriteManifestTypes DEF RInv
<1>8. FilesTyped'
  BY <1>7 DEF RInv, TypeOK, FilesTyped
<1>9. ManifestDescribesWav' /\ KeptStays
  <2>1. \/ manifest'[n] \notin Manifest
        \/ /\ manifest'[n] = [dur |-> wav'[n].len, sha256 |-> wav'[n]]
           /\ wav'[n].hdr = wav'[n].len
    BY <1>2, <1>3, <1>5, <1>7, AbsentIsNoRecording DEF Kept
  <2> QED
    BY <1>2, <1>5, <1>7, <2>1, OneIndexChanges
<1>10. CASE o.ret = "err" /\ StopFails
  <2>1. manifest'[rec.n] \notin Manifest
    BY <1>2, <1>5, <1>7, <1>10, AbsentIsNoRecording DEF Kept
  <2> QED
    BY <1>1, <1>8, <1>9, <1>10, <2>1, StopFailsStep
<1>11. CASE Leave
  BY <1>1, <1>8, <1>9, <1>11, LeaveStep
<1> QED
  BY <1>6, <1>9, <1>10, <1>11 DEF StopInterrupted

LEMMA WipeWavStep ==
    ASSUME RInv, WipeWav, UNCHANGED sd
    PROVE  RInv' /\ KeptStays
<1>1. /\ pc = "wipe_wav" /\ screen.state = "recording" /\ rec.recording
      /\ rec.kept = rec.data
      /\ UNCHANGED <<age, takes>>
  BY DEF WipeWav, RInv, Owns, Progress
<1>2. PICK o \in Outcomes(wav[rec.n], Empty) :
        /\ WriteWav(rec.n, o)
        /\ \/ /\ o.ret # "crash"
              /\ pc' = "wipe_manifest"
              /\ UNCHANGED <<rec, screen>>
           \/ /\ o.ret = "crash"
              /\ Leave
  BY DEF WipeWav
<1>3. /\ FilesTyped' /\ ManifestDescribesWav' /\ KeptStays
      /\ manifest' = manifest
  BY <1>1, <1>2, OwnWavWrite
<1>4. CASE pc' = "wipe_manifest" /\ UNCHANGED <<rec, screen>>
  <2>1. TypeOK'
    BY <1>1, <1>3, <1>4 DEF RInv, TypeOK, FilesTyped
  <2>2. Progress' /\ Owns'
    BY <1>1, <1>3, <1>4 DEF RInv, Progress, Owns, Kept
  <2> QED
    BY <1>3, <2>1, <2>2 DEF RInv
<1>5. CASE Leave
  BY <1>1, <1>3, <1>5, LeaveStep
<1> QED
  BY <1>2, <1>3, <1>4, <1>5

LEMMA WipeManifestStep ==
    ASSUME RInv, WipeManifest, UNCHANGED sd
    PROVE  RInv' /\ KeptStays
<1>1. /\ rec.recording /\ rec.n \in Idx /\ ~Kept(rec.n)
      /\ UNCHANGED <<age, takes>> /\ Leave
  BY DEF WipeManifest, RInv, Owns, Progress
<1>2. PICK n \in Idx : n = rec.n
  BY <1>1
<1>3. PICK o \in Outcomes(manifest[n], Empty) : WriteManifest(n, o)
  BY <1>2 DEF WipeManifest
<1>4. /\ manifest' \in [Idx -> Manifest \cup {Absent, Empty}]
      /\ wav' = wav
      /\ tmp' \in [Idx -> BOOLEAN]
      /\ clean' \in BOOLEAN
      /\ \A i \in Idx : i # n => manifest'[i] = manifest[i]
      /\ manifest'[n] \in {manifest[n], Empty, Absent}
  BY <1>3, WriteManifestTypes DEF RInv
<1>5. FilesTyped'
  BY <1>4 DEF RInv, TypeOK, FilesTyped
<1>6. ManifestDescribesWav' /\ KeptStays
  BY <1>1, <1>2, <1>4, AbsentIsNoRecording, OneIndexChanges DEF Kept
<1> QED
  BY <1>1, <1>5, <1>6, LeaveStep

-----------------------------------------------------------------------------
LEMMA InitRInv == Init => RInv
<1> SUFFICES ASSUME Init PROVE RInv
  OBVIOUS
<1>1. TypeOK
  BY AwayTypes, RecorderAssumption DEF Init, TypeOK
<1>2. ManifestDescribesWav
  BY AbsentIsNoRecording DEF Init, ManifestDescribesWav, Kept
<1>3. Progress /\ Owns
  BY AwayTypes DEF Init, Progress, Owns
<1> QED
  BY <1>1, <1>2, <1>3 DEF RInv

LEMMA NextRInv == RInv /\ [Next]_vars => RInv' /\ KeptStays
<1> SUFFICES ASSUME RInv, [Next]_vars PROVE RInv' /\ KeptStays
  OBVIOUS
<1>1. CASE UNCHANGED vars
  BY <1>1 DEF vars, RInv, TypeOK, ManifestDescribesWav, Progress, Owns, Kept,
              KeptStays
<1>2. CASE Next
  <2> USE <1>2
  <2>1. UNCHANGED sd
    BY DEF Next
  <2>2. CASE \/ Open \/ \E t \in Targets : PressTarget(t)
             \/ Tick \/ PressStop \/ PressEsc \/ PowerCut
    BY <2>1, <2>2, QuietStep
  <2>3. CASE PressStart
    BY <2>1, <2>3, StartStep
  <2>4. CASE LoopPass
    BY <2>1, <2>4, PassBuffersStep, PassFlushesStep DEF LoopPass
  <2>5. CASE Stop
    BY <2>1, <2>5, StopFlushStep, StopFinalizeStep, StopManifestStep DEF Stop
  <2>6. CASE Cancel
    BY <2>1, <2>6, WipeWavStep, WipeManifestStep DEF Cancel
  <2> QED
    BY <2>2, <2>3, <2>4, <2>5, <2>6 DEF Next
<1> QED
  BY <1>1, <1>2

\* The type invariant of the recorder.
THEOREM RecorderTypes == Spec => []TypeOK
<1>1. RInv => TypeOK
  BY DEF RInv
<1> QED
  BY <1>1, InitRInv, NextRInv, PTL DEF Spec

\* Whatever write of start(), append_samples(), stop() or cancel() fails or
\* is cut short, a manifest has the hash and the length of the file beside it.
THEOREM ManifestDescribesWavTheorem == Spec => []ManifestDescribesWav
<1>1. RInv => ManifestDescribesWav
  BY DEF RInv
<1> QED
  BY <1>1, InitRInv, NextRInv, PTL DEF Spec

\* A finished recording is never rewritten, by a later take or by a cancel.
THEOREM KeptNeverChangesTheorem == Spec => KeptNeverChanges
<1>1. RInv /\ [Next]_vars =>
        [\A i \in Idx : Kept(i) => UNCHANGED <<wav[i], manifest[i]>>]_vars
  BY NextRInv DEF KeptStays
<1> QED
  BY <1>1, InitRInv, NextRInv, PTL DEF Spec, KeptNeverChanges
-----------------------------------------------------------------------------
(* What a clean exit leaves.                                               *)

\* As long as nothing failed, a recording without a manifest is the running
\* one, and a cancel has emptied it before it empties the manifest.
StumpIsRunning ==
    clean =>
      /\ \A i \in Idx : wav[i] \in Wav =>
           Kept(i) \/ (screen.state = "recording" /\ i = rec.n)
      /\ pc = "wipe_manifest" => wav[rec.n] \notin Wav

\* The step leaves all other files and the number of the recording alone.
LEMMA OnlyOwnFile ==
    ASSUME RInv, StumpIsRunning, KeptStays, clean' => clean,
           screen.state = "recording" /\ screen'.state = "recording",
           rec'.n = rec.n,
           \A i \in Idx : i # rec.n => wav'[i] = wav[i],
           clean' /\ pc' = "wipe_manifest" => wav'[rec.n] \notin Wav
    PROVE  StumpIsRunning'
<1> SUFFICES ASSUME clean', NEW i \in Idx, wav'[i] \in Wav, i # rec.n
             PROVE  Kept(i)'
  BY DEF StumpIsRunning
<1> QED
  BY DEF StumpIsRunning, KeptStays, Kept

\* The screen is left, with no recording running or with it finished.
LEMMA LeftBehind ==
    ASSUME RInv, StumpIsRunning, KeptStays, clean' => clean, Leave,
           \A i \in Idx : i # rec.n => wav'[i] = wav[i],
           clean' /\ screen.state = "recording" =>
             wav'[rec.n] \notin Wav \/ manifest'[rec.n] \in Manifest,
           screen.state # "recording" => wav' = wav
    PROVE  StumpIsRunning'
<1> SUFFICES ASSUME clean', NEW i \in Idx, wav'[i] \in Wav
             PROVE  Kept(i)'
  BY LeaveKeeps, AwayTypes DEF StumpIsRunning
<1>1. CASE i = rec.n /\ screen.state = "recording"
  BY <1>1 DEF Kept
<1>2. CASE ~(i = rec.n /\ screen.state = "recording")
  BY <1>2 DEF StumpIsRunning, KeptStays, Kept
<1> QED
  BY <1>1, <1>2

LEMMA OwnWavOnly ==
    ASSUME RInv, NEW n \in Idx, NEW new, NEW o \in Outcomes(wav[n], new),
           WriteWav(n, o)
    PROVE  /\ \A i \in Idx : i # n => wav'[i] = wav[i]
           /\ manifest' = manifest
           /\ clean' => clean /\ o.ret = "ok" /\ wav'[n] = new
<1>1. o.ret = "ok" => o.file = new
  BY OutcomesAre
<1>2. clean' => clean /\ o.ret = "ok"
  BY DEF WriteWav
<1> QED
  BY <1>1, <1>2 DEF WriteWav, RInv, TypeOK

LEMMA StumpStep ==
    ASSUME RInv, KeptStays, StumpIsRunning, [Next]_vars
    PROVE  StumpIsRunning'
<1>1. CASE UNCHANGED vars
  BY <1>1 DEF vars, StumpIsRunning, Kept
<1>2. CASE Open \/ \E t \in Targets : PressTarget(t)
  <2>1. /\ UNCHANGED <<wav, manifest, rec, pc, clean>>
        /\ \/ screen'.state = screen.state
           \/ screen.state = "list" /\ screen'.state = "idle"
    BY <1>2, AwayTypes DEF Open, PressTarget, files, RInv, TypeOK
  <2> QED
    BY <2>1 DEF StumpIsRunning, Kept
<1>3. CASE Tick \/ PressStop
  <2>1. /\ UNCHANGED <<wav, manifest, rec, clean>>
        /\ screen'.state = screen.state
        /\ pc' \in {pc, "flush"}
    BY <1>3 DEF Tick, PressStop, files, RInv, TypeOK
  <2> QED
    BY <2>1 DEF StumpIsRunning, Kept
<1>4. CASE PressStart
  <2>1. PICK n \in Idx :
          \E o \in Outcomes(wav[n], [take |-> takes', hdr |-> 0, len |-> 0]) :
            /\ WriteWav(n, o)
            /\ o.ret = "ok" =>
                 /\ rec' = [NoRecorder EXCEPT !.recording = TRUE,
                                              !.n = n, !.take = takes']
                 /\ screen' = [screen EXCEPT !.state = "recording",
                                             !.elapsed = 0]
                 /\ UNCHANGED pc
    BY <1>4 DEF PressStart
  <2>2. PICK o \in Outcomes(wav[n], [take |-> takes', hdr |-> 0, len |-> 0]) :
            /\ WriteWav(n, o)
            /\ o.ret = "ok" =>
                 /\ rec' = [NoRecorder EXCEPT !.recording = TRUE,
                                              !.n = n, !.take = takes']
                 /\ screen' = [screen EXCEPT !.state = "recording",
                                             !.elapsed = 0]
                 /\ UNCHANGED pc
    BY <2>1
  <2>3. /\ \A i \in Idx : i # n => wav'[i] = wav[i]
        /\ clean' => clean /\ o.ret = "ok"
    BY <2>2, OwnWavOnly
  <2>4. o.ret = "ok" => rec'.n = n /\ screen'.state = "recording" /\ pc' = pc
    BY <2>2 DEF NoRecorder, RInv, TypeOK
  <2>5. screen.state # "recording" /\ pc = "keys"
    BY <1>4 DEF PressStart, RInv, Owns
  <2> QED
    BY <2>3, <2>4, <2>5 DEF StumpIsRunning, KeptStays, Kept
<1>5. CASE PassBuffers
  <2>1. Passing /\ AutoStop /\ UNCHANGED <<wav, manifest, clean>>
    BY <1>5 DEF PassBuffers, files
  <2>2. rec'.n = rec.n
    BY <1>5, <2>1, PassingFacts DEF PassBuffers
  <2>3. screen.state = "recording" /\ screen'.state = "recording"
        /\ pc' \in {"flush", "keys"}
    BY <2>1, AutoStopTypes DEF Passing
  <2> QED
    BY <2>1, <2>2, <2>3, OnlyOwnFile
<1>6. CASE PassFlushes
  <2>1. Passing /\ rec.n \in Idx
    BY <1>6, PassingFacts DEF PassFlushes, Passing
  <2>2. PICK o \in Outcomes(wav[rec.n], Appended(rec.buf + 1)) :
          /\ WriteWav(rec.n, o)
          /\ o.ret = "ok" =>
               /\ rec' = [Sampled EXCEPT !.buf = 0, !.kept = rec.kept + 1]
               /\ AutoStop
    BY <1>6 DEF PassFlushes
  <2>3. /\ \A i \in Idx : i # rec.n => wav'[i] = wav[i]
        /\ clean' => clean /\ o.ret = "ok"
    <3> DEFINE new == Appended(rec.buf + 1)
    <3>1. PICK n \in Idx : n = rec.n
      BY <2>1
    <3>2. o \in Outcomes(wav[n], new) /\ WriteWav(n, o)
      BY <2>2, <3>1
    <3> HIDE DEF new
    <3>3. /\ \A i \in Idx : i # n => wav'[i] = wav[i]
          /\ clean' => clean /\ o.ret = "ok"
      BY <3>2, OwnWavOnly
    <3> QED
      BY <3>1, <3>3
  <2>4. o.ret = "ok" => rec'.n = rec.n
    BY <2>1, <2>2, PassingFacts
  <2>5. screen.state = "recording"
        /\ (o.ret = "ok" => screen'.state = "recording" /\ pc' \in {"flush", "keys"})
    BY <2>1, <2>2, AutoStopTypes DEF Passing
  <2>6. CASE ~clean'
    BY <2>6 DEF StumpIsRunning
  <2>7. CASE clean'
    BY <2>3, <2>4, <2>5, <2>7, OnlyOwnFile
  <2> QED
    BY <2>6, <2>7
<1>7. CASE StopFlush
  <2>1. screen.state = "recording" /\ rec.recording /\ rec.n \in Idx
    BY <1>7 DEF StopFlush, RInv, Owns, Progress
  <2>2. CASE UNCHANGED <<wav, clean, rec, screen>> /\ pc' = "finalize"
    BY <2>1, <2>2, OnlyOwnFile
  <2>3. CASE \E o \in Outcomes(wav[rec.n], Appended(rec.buf)) :
               /\ WriteWav(rec.n, o)
               /\ o.ret = "ok" => /\ rec' = [rec EXCEPT !.buf = 0]
                                  /\ pc' = "finalize"
                                  /\ UNCHANGED screen
    <3>1. PICK o \in Outcomes(wav[rec.n], Appended(rec.buf)) :
               /\ WriteWav(rec.n, o)
               /\ o.ret = "ok" => /\ rec' = [rec EXCEPT !.buf = 0]
                                  /\ pc' = "finalize"
                                  /\ UNCHANGED screen
      BY <2>3
    <3>2. /\ \A i \in Idx : i # rec.n => wav'[i] = wav[i]
          /\ clean' => clean /\ o.ret = "ok"
      BY <2>1, <3>1, OwnWavOnly
    <3>3. o.ret = "ok" => rec'.n = rec.n
      BY <3>1 DEF RInv, TypeOK
    <3>4. CASE ~clean'
      BY <3>4 DEF StumpIsRunning
    <3>5. CASE clean'
      BY <2>1, <3>1, <3>2, <3>3, <3>5, OnlyOwnFile
    <3> QED
      BY <3>4, <3>5
  <2> QED
    BY <1>7, <2>2, <2>3 DEF StopFlush, StopInterrupted, files
<1>8. CASE StopFinalize
  <2>1. screen.state = "recording" /\ rec.recording /\ rec.n \in Idx
    BY <1>8 DEF StopFinalize, RInv, Owns, Progress
  <2>2. PICK o \in Outcomes(wav[rec.n], [wav[rec.n] EXCEPT !.hdr = rec.data]) :
               /\ WriteWav(rec.n, o)
               /\ o.ret = "ok" => /\ rec' = [rec EXCEPT !.finalized = TRUE]
                                  /\ pc' = "hash"
                                  /\ UNCHANGED screen
    BY <1>8 DEF StopFinalize, StopInterrupted
  <2>3. /\ \A i \in Idx : i # rec.n => wav'[i] = wav[i]
        /\ clean' => clean /\ o.ret = "ok"
    BY <2>1, <2>2, OwnWavOnly
  <2>4. o.ret = "ok" => rec'.n = rec.n
    BY <2>2 DEF RInv, TypeOK
  <2>5. CASE ~clean'
    BY <2>5 DEF StumpIsRunning
  <2>6. CASE clean'
    BY <2>1, <2>2, <2>3, <2>4, <2>6, OnlyOwnFile
  <2> QED
    BY <2>5, <2>6
<1>9. CASE StopManifest
  <2>1. /\ screen.state = "recording" /\ rec.recording /\ rec.n \in Idx
        /\ wav[rec.n] \in Wav /\ rec.kept \in Blocks
    BY <1>9 DEF StopManifest, RInv, Owns, Progress, TypeOK
  <2> DEFINE new == [dur |-> rec.kept, sha256 |-> wav[rec.n]]
  <2>2. new \in Manifest
    BY <2>1 DEF Manifest
  <2>3. PICK o \in Outcomes(manifest[rec.n], new) :
          WriteManifest(rec.n, o) /\ (o.ret = "ok" => Leave)
    BY <1>9 DEF StopManifest, StopInterrupted
  <2>4. o.ret = "ok" => o.file = new
    BY <2>3, OutcomesAre
  <2> HIDE DEF new
  <2>5. clean' => /\ clean /\ Leave /\ wav' = wav
                  /\ manifest'[rec.n] = new
    BY <2>1, <2>3, <2>4 DEF WriteManifest, RInv, TypeOK
  <2>6. CASE ~clean'
    BY <2>6 DEF StumpIsRunning
  <2>7. CASE clean'
    BY <2>2, <2>5, <2>7, LeftBehind
  <2> QED
    BY <2>6, <2>7
<1>10. CASE PressEsc
  <2>1. UNCHANGED <<wav, manifest, clean>>
    BY <1>10 DEF PressEsc, files
  <2>2. CASE screen.state = "recording" /\ pc' = "wipe_wav"
             /\ UNCHANGED <<rec, screen>>
    BY <2>1, <2>2, OnlyOwnFile
  <2>3. CASE screen.state # "recording" /\ Leave
    BY <2>1, <2>3, LeftBehind
  <2> QED
    BY <1>10, <2>2, <2>3 DEF PressEsc
<1>11. CASE WipeWav
  <2>1. screen.state = "recording" /\ rec.recording /\ rec.n \in Idx
    BY <1>11 DEF WipeWav, RInv, Owns, Progress
  <2>2. PICK o \in Outcomes(wav[rec.n], Empty) :
          WriteWav(rec.n, o) /\ (o.ret # "crash" => UNCHANGED <<rec, screen>>)
    BY <1>11 DEF WipeWav
  <2>3. /\ \A i \in Idx : i # rec.n => wav'[i] = wav[i]
        /\ clean' => clean /\ o.ret = "ok" /\ wav'[rec.n] = Empty
    BY <2>1, <2>2, OwnWavOnly
  <2>4. CASE ~clean'
    BY <2>4 DEF StumpIsRunning
  <2>5. CASE clean'
    BY <2>1, <2>2, <2>3, <2>5, AbsentIsNoRecording, OnlyOwnFile
  <2> QED
    BY <2>4, <2>5
<1>12. CASE WipeManifest
  <2>1. pc = "wipe_manifest" /\ Leave
    BY <1>12 DEF WipeManifest
  <2>2. wav' = wav /\ (clean' => clean)
    BY <1>12 DEF WipeManifest, WriteManifest
  <2>3. clean' => wav[rec.n] \notin Wav
    BY <2>1, <2>2 DEF StumpIsRunning
  <2> QED
    BY <2>1, <2>2, <2>3, LeftBehind
<1>13. CASE PowerCut
  BY <1>13 DEF PowerCut, StumpIsRunning
<1> QED
  BY <1>1, <1>2, <1>3, <1>4, <1>5, <1>6, <1>7, <1>8, <1>9, <1>10, <1>11,
     <1>12, <1>13 DEF Next, LoopPass, Stop, Cancel

\* As long as nothing has failed, leaving the recorder screen leaves finished
\* recordings and emptied files only (route_recorder_impl, Recorder::cancel).
THEOREM NoStumpsLeftTheorem == Spec => []NoStumpsLeft
<1>1. Init => StumpIsRunning
  BY AbsentIsNoRecording DEF Init, StumpIsRunning
<1>2. RInv /\ StumpIsRunning /\ [Next]_vars => StumpIsRunning'
  BY NextRInv, StumpStep
<1>3. StumpIsRunning => NoStumpsLeft
  BY DEF StumpIsRunning, NoStumpsLeft
<1> QED
  BY <1>1, <1>2, <1>3, InitRInv, NextRInv, PTL DEF Spec
-----------------------------------------------------------------------------
(* What a power cut costs on the host.                                     *)

Wiping == pc \in {"wipe_wav", "wipe_manifest"}

\* On the host the running recording is on disk but for the buffered blocks,
\* which are less than a flush while the loop runs and one flush at most
\* after a flush that failed.
AllButBuffered ==
    ~sd /\ rec.recording /\ ~Wiping =>
      /\ wav[rec.n] \in Wav
      /\ wav[rec.n].take = rec.take
      /\ wav[rec.n].len + rec.buf = rec.data
      /\ rec.buf <= FlushBlocks
      /\ screen.state = "recording" => rec.buf < FlushBlocks

\* What HostLosesOneFlush says of a step.
LosesOneFlush ==
    ~sd /\ rec.recording /\ ~Wiping =>
      /\ wav'[rec.n] \in Wav
      /\ wav'[rec.n].take = rec.take
      /\ wav'[rec.n].len + FlushBlocks >= rec.data

\* On the host a write that fails or is cut leaves the old file.
LEMMA HostOutcomes ==
    ASSUME ~sd, NEW old, NEW new, NEW o \in Outcomes(old, new)
    PROVE  /\ o.file \in {old, new}
           /\ o.ret = "err" => o.file = old
           /\ o.ret = "ok" => o.file = new
<1>1. \A b \in Broken(old) : b.file = old
  BY DEF Broken
<1> QED
  BY <1>1 DEF Outcomes

\* The file is left as it is.
LEMMA FileStays ==
    ASSUME RInv, AllButBuffered, UNCHANGED wav
    PROVE  LosesOneFlush
<1> SUFFICES ASSUME ~sd, rec.recording, ~Wiping
             PROVE  wav[rec.n].len + FlushBlocks >= rec.data
  BY DEF LosesOneFlush, AllButBuffered
<1>1. wav[rec.n].len \in Nat /\ rec.buf \in Nat /\ rec.data \in Nat
  BY DEF AllButBuffered, RInv, TypeOK, Wav, Blocks
<1> QED
  BY <1>1, RecorderAssumption DEF AllButBuffered

\* A write of the recording's file that adds blocks or fills in the header.
LEMMA FileGrows ==
    ASSUME RInv, AllButBuffered, ~sd, rec.recording, ~Wiping,
           NEW new \in Wav, new.take = rec.take,
           wav[rec.n].len <= new.len,
           NEW o \in Outcomes(wav[rec.n], new), WriteWav(rec.n, o)
    PROVE  /\ LosesOneFlush
           /\ o.ret = "ok" => wav'[rec.n] = new
           /\ o.ret = "err" => wav'[rec.n] = wav[rec.n]
<1>1. /\ wav'[rec.n] \in {wav[rec.n], new}
      /\ o.ret = "ok" => wav'[rec.n] = new
      /\ o.ret = "err" => wav'[rec.n] = wav[rec.n]
  <2>1. rec.n \in Idx
    BY DEF RInv, Owns
  <2>2. wav'[rec.n] = o.file
    BY <2>1 DEF WriteWav, RInv, TypeOK
  <2> QED
    BY <2>2, HostOutcomes
<1>2. wav[rec.n].len \in Nat /\ rec.buf \in Nat /\ rec.data \in Nat
      /\ new.len \in Nat
  BY DEF AllButBuffered, RInv, TypeOK, Wav, Blocks
<1>3. wav'[rec.n] \in Wav /\ wav'[rec.n].take = rec.take
      /\ wav'[rec.n].len >= wav[rec.n].len
  BY <1>1, <1>2 DEF AllButBuffered
<1>4. wav'[rec.n].len \in Nat
  BY <1>3 DEF Wav, Blocks
<1>5. wav'[rec.n].len + FlushBlocks >= rec.data
  BY <1>2, <1>3, <1>4, RecorderAssumption DEF AllButBuffered
<1> QED
  BY <1>1, <1>3, <1>5 DEF LosesOneFlush

\* More blocks behind the running recording.
LEMMA AppendedFile ==
    ASSUME RInv, wav[rec.n] \in Wav, NEW k \in Nat,
           wav[rec.n].len + k \in Blocks
    PROVE  /\ Appended(k) \in Wav
           /\ Appended(k).take = wav[rec.n].take
           /\ Appended(k).len = wav[rec.n].len + k
           /\ wav[rec.n].len <= Appended(k).len
<1>1. wav[rec.n].len \in Nat
  BY DEF Wav, Blocks
<1> QED
  BY <1>1 DEF Appended, Wav

LEMMA LeaveHasAll ==
    ASSUME Leave
    PROVE  AllButBuffered'
BY LeaveKeeps, AwayTypes DEF AllButBuffered

\* The Recorder and its file stay; the screen may only stop recording.
LEMMA RecorderStays ==
    ASSUME AllButBuffered, UNCHANGED sd, UNCHANGED rec, wav'[rec.n] \in Wav,
           wav'[rec.n].take = wav[rec.n].take,
           wav'[rec.n].len = wav[rec.n].len,
           Wiping => Wiping',
           screen'.state = "recording" => screen.state = "recording"
    PROVE  AllButBuffered'
BY DEF AllButBuffered

LEMMA HostPassBuffers ==
    ASSUME RInv, AllButBuffered, PassBuffers, ~sd, UNCHANGED sd
    PROVE  AllButBuffered' /\ LosesOneFlush
<1>1. Passing /\ AutoStop /\ UNCHANGED wav
  BY DEF PassBuffers, files
<1>2. /\ rec'.recording /\ rec'.n = rec.n /\ rec'.take = rec.take
      /\ rec'.buf = rec.buf + 1 /\ rec'.data = rec.data + 1
  BY <1>1, PassingFacts DEF PassBuffers
<1>3. rec.recording /\ ~Wiping
  BY <1>1, PassingFacts DEF Passing, Wiping
<1>4. wav[rec.n].len \in Nat /\ rec.buf \in Nat /\ rec.data \in Nat
  BY <1>1, PassingFacts DEF RInv, TypeOK, Wav, Blocks
<1>5. rec.buf + 1 < FlushBlocks
  BY DEF PassBuffers
<1> QED
  BY <1>1, <1>2, <1>3, <1>4, <1>5, FileStays, RecorderAssumption
     DEF AllButBuffered

LEMMA HostPassFlushes ==
    ASSUME RInv, AllButBuffered, PassFlushes, ~sd, UNCHANGED sd
    PROVE  AllButBuffered' /\ LosesOneFlush
<1> DEFINE new == Appended(rec.buf + 1)
<1>1. Passing
  BY DEF PassFlushes, Passing
<1>2. PICK o \in Outcomes(wav[rec.n], new) :
        /\ WriteWav(rec.n, o)
        /\ \/ /\ o.ret = "ok"
              /\ rec' = [Sampled EXCEPT !.buf = 0, !.kept = rec.kept + 1]
           \/ /\ o.ret = "err"
              /\ rec' = Sampled
              /\ AppendFails
           \/ Leave
  BY DEF PassFlushes
<1>3. /\ rec.recording /\ ~Wiping /\ screen.state = "recording"
      /\ rec.buf < FlushBlocks /\ wav[rec.n].take = rec.take
  BY <1>1, PassingFacts DEF Passing, Wiping, AllButBuffered
<1>4. wav[rec.n].len \in Nat /\ rec.buf \in Nat /\ rec.data \in Nat
      /\ wav[rec.n].len + (rec.buf + 1) = rec.data + 1
  <2>1. wav[rec.n].len \in Nat /\ rec.buf \in Nat /\ rec.data \in Nat
    BY <1>1, PassingFacts DEF RInv, TypeOK, Wav, Blocks
  <2> QED
    BY <1>1, <2>1, PassingFacts
<1>5. /\ new \in Wav /\ new.take = rec.take /\ new.len = rec.data + 1
      /\ wav[rec.n].len <= new.len
  <2>1. rec.buf + 1 \in Nat /\ rec.data + 1 \in Blocks /\ wav[rec.n] \in Wav
    BY <1>1, <1>4, PassingFacts
  <2> QED
    BY <1>3, <1>4, <2>1, AppendedFile
<1> HIDE DEF new
<1>6. /\ LosesOneFlush
      /\ o.ret = "ok" => wav'[rec.n] = new
      /\ o.ret = "err" => wav'[rec.n] = wav[rec.n]
  BY <1>2, <1>3, <1>5, FileGrows
<1>7. CASE o.ret = "ok"
           /\ rec' = [Sampled EXCEPT !.buf = 0, !.kept = rec.kept + 1]
  <2>1. /\ rec'.recording /\ rec'.n = rec.n /\ rec'.take = rec.take
        /\ rec'.buf = 0 /\ rec'.data = rec.data + 1
    BY <1>1, <1>7, PassingFacts
  <2> QED
    BY <1>4, <1>5, <1>6, <1>7, <2>1, RecorderAssumption DEF AllButBuffered
<1>8. CASE o.ret = "err" /\ rec' = Sampled /\ AppendFails
  <2>1. /\ rec'.recording /\ rec'.n = rec.n /\ rec'.take = rec.take
        /\ rec'.buf = rec.buf + 1 /\ rec'.data = rec.data + 1
    BY <1>1, <1>8, PassingFacts
  <2>2. screen'.state = "stopped"
    BY <1>8 DEF AppendFails, RInv, TypeOK
  <2>3. wav[rec.n] \in Wav
    BY <1>1, PassingFacts
  <2> QED
    BY <1>3, <1>4, <1>6, <1>8, <2>1, <2>2, <2>3, RecorderAssumption
       DEF AllButBuffered
<1> QED
  BY <1>2, <1>6, <1>7, <1>8, LeaveHasAll

LEMMA HostStop ==
    ASSUME RInv, AllButBuffered, Stop, ~sd, UNCHANGED sd
    PROVE  AllButBuffered' /\ LosesOneFlush
<1>1. /\ rec.recording /\ rec.n \in Idx /\ screen.state = "recording"
      /\ ~Wiping
  BY DEF Stop, StopFlush, StopFinalize, StopManifest, RInv, Owns, Progress,
         Wiping
<1>2. /\ wav[rec.n] \in Wav /\ wav[rec.n].take = rec.take
      /\ wav[rec.n].len + rec.buf = rec.data
      /\ rec.buf < FlushBlocks
  BY <1>1 DEF AllButBuffered
<1>3. wav[rec.n].len \in Nat /\ rec.buf \in Nat /\ rec.data \in Blocks
  BY <1>2 DEF RInv, TypeOK, Wav, Blocks
<1>4. ASSUME UNCHANGED rec, wav'[rec.n] = wav[rec.n], ~Wiping',
             screen'.state \in {"recording", "stopped"}
      PROVE  AllButBuffered'
  BY <1>1, <1>2, <1>4 DEF AllButBuffered
<1>5. ASSUME StopFails, wav'[rec.n] = wav[rec.n] PROVE AllButBuffered'
  <2>1. CASE Leave
    BY <2>1, LeaveHasAll
  <2>2. CASE screen' = [screen EXCEPT !.state = "stopped"] /\ pc' = "keys"
             /\ UNCHANGED rec
    <3>1. screen'.state = "stopped" /\ ~Wiping'
      BY <2>2 DEF RInv, TypeOK, Wiping
    <3> QED
      BY <1>4, <1>5, <2>2, <3>1
  <2> QED
    BY <1>5, <2>1, <2>2 DEF StopFails
<1>6. CASE StopFlush
  <2> DEFINE new == Appended(rec.buf)
  <2>1. CASE UNCHANGED <<wav, rec, screen>> /\ pc' = "finalize"
    <3>1. ~Wiping' /\ screen'.state = "recording"
      BY <1>1, <2>1 DEF Wiping
    <3> QED
      BY <1>4, <2>1, <3>1, FileStays
  <2>2. CASE \E o \in Outcomes(wav[rec.n], new) :
               /\ WriteWav(rec.n, o)
               /\ \/ /\ o.ret = "ok"
                     /\ rec' = [rec EXCEPT !.buf = 0]
                     /\ UNCHANGED screen
                  \/ StopInterrupted(o)
    <3>1. PICK o \in Outcomes(wav[rec.n], new) :
               /\ WriteWav(rec.n, o)
               /\ \/ /\ o.ret = "ok"
                     /\ rec' = [rec EXCEPT !.buf = 0]
                     /\ UNCHANGED screen
                  \/ StopInterrupted(o)
      BY <2>2
    <3>2. /\ new \in Wav /\ new.take = rec.take /\ new.len = rec.data
          /\ wav[rec.n].len <= new.len
      BY <1>2, <1>3, AppendedFile
    <3> HIDE DEF new
    <3>3. /\ LosesOneFlush
          /\ o.ret = "ok" => wav'[rec.n] = new
          /\ o.ret = "err" => wav'[rec.n] = wav[rec.n]
      BY <1>1, <3>1, <3>2, FileGrows
    <3>4. CASE o.ret = "ok" /\ rec' = [rec EXCEPT !.buf = 0]
      <4>1. /\ rec'.n = rec.n /\ rec'.take = rec.take /\ rec'.buf = 0
            /\ rec'.data = rec.data
        BY <3>4 DEF RInv, TypeOK
      <4>2. new.len + 0 = rec.data
        BY <1>3, <3>2 DEF Blocks
      <4> QED
        BY <3>2, <3>3, <3>4, <4>1, <4>2, RecorderAssumption DEF AllButBuffered
    <3> QED
      BY <1>5, <3>1, <3>3, <3>4, LeaveHasAll DEF StopInterrupted
  <2> QED
    BY <1>6, <2>1, <2>2 DEF StopFlush, files
<1>7. CASE StopFinalize
  <2> DEFINE new == [wav[rec.n] EXCEPT !.hdr = rec.data]
  <2>1. PICK o \in Outcomes(wav[rec.n], new) :
               /\ WriteWav(rec.n, o)
               /\ \/ /\ o.ret = "ok"
                     /\ rec' = [rec EXCEPT !.finalized = TRUE]
                     /\ UNCHANGED screen
                  \/ StopInterrupted(o)
    BY <1>7 DEF StopFinalize
  <2>2. /\ new \in Wav /\ new.take = rec.take /\ new.len = wav[rec.n].len
        /\ wav[rec.n].len <= new.len
    BY <1>2, <1>3 DEF Wav
  <2> HIDE DEF new
  <2>3. /\ LosesOneFlush
        /\ o.ret = "ok" => wav'[rec.n] = new
        /\ o.ret = "err" => wav'[rec.n] = wav[rec.n]
    BY <1>1, <2>1, <2>2, FileGrows
  <2>4. CASE o.ret = "ok" /\ rec' = [rec EXCEPT !.finalized = TRUE]
    <3>1. /\ rec'.n = rec.n /\ rec'.take = rec.take /\ rec'.buf = rec.buf
          /\ rec'.data = rec.data
      BY <2>4 DEF RInv, TypeOK
    <3>2. new.len + rec.buf = rec.data /\ rec.buf <= FlushBlocks
      BY <1>2, <1>3, <2>2, RecorderAssumption
    <3>3. wav'[rec'.n] = new
      BY <2>3, <2>4, <3>1
    <3>4. AllButBuffered'
      BY <1>2, <2>2, <3>1, <3>2, <3>3 DEF AllButBuffered
    <3> QED
      BY <2>3, <3>4
  <2> QED
    BY <1>5, <2>1, <2>3, <2>4, LeaveHasAll DEF StopInterrupted
<1>8. CASE StopManifest
  <2>1. UNCHANGED wav /\ (Leave \/ StopFails)
    BY <1>8 DEF StopManifest, StopInterrupted, WriteManifest
  <2> QED
    BY <1>5, <2>1, FileStays, LeaveHasAll
<1> QED
  BY <1>6, <1>7, <1>8 DEF Stop

LEMMA HostStart ==
    ASSUME RInv, AllButBuffered, PressStart, ~sd, UNCHANGED sd
    PROVE  AllButBuffered' /\ LosesOneFlush
<1> DEFINE new == [take |-> takes', hdr |-> 0, len |-> 0]
<1>1. takes' \in Idx
  BY RecorderAssumption DEF PressStart, RInv, TypeOK, Idx
<1>2. new \in Wav /\ new.take = takes' /\ new.len = 0
  BY <1>1, RecorderAssumption DEF Wav, Blocks
<1>3. ~rec.recording
  BY DEF PressStart
<1>4. PICK n \in Idx :
        \E o \in Outcomes(wav[n], new) :
          /\ WriteWav(n, o)
          /\ \/ /\ o.ret = "ok"
                /\ rec' = [NoRecorder EXCEPT !.recording = TRUE,
                                             !.n = n, !.take = takes']
             \/ UNCHANGED rec
             \/ Leave
  BY DEF PressStart
<1> HIDE DEF new
<1>5. PICK o \in Outcomes(wav[n], new) :
          /\ WriteWav(n, o)
          /\ \/ /\ o.ret = "ok"
                /\ rec' = [NoRecorder EXCEPT !.recording = TRUE,
                                             !.n = n, !.take = takes']
             \/ UNCHANGED rec
             \/ Leave
  BY <1>4
<1>6. CASE o.ret = "ok" /\ rec' = [NoRecorder EXCEPT !.recording = TRUE,
                                             !.n = n, !.take = takes']
  <2>1. /\ rec'.n = n /\ rec'.take = takes' /\ rec'.buf = 0 /\ rec'.data = 0
    BY <1>6 DEF NoRecorder
  <2>2. wav'[n] = new
    BY <1>5, <1>6, OutcomesAre DEF WriteWav, RInv, TypeOK
  <2>3. 0 + 0 = 0 /\ 0 < FlushBlocks /\ 0 <= FlushBlocks
    BY RecorderAssumption
  <2> QED
    BY <1>2, <2>1, <2>2, <2>3, <1>3 DEF AllButBuffered, LosesOneFlush
<1>7. CASE UNCHANGED rec
  BY <1>3, <1>7 DEF AllButBuffered, LosesOneFlush
<1>8. CASE Leave
  BY <1>3, <1>8, LeaveHasAll DEF LosesOneFlush
<1> QED
  BY <1>5, <1>6, <1>7, <1>8

LEMMA HostStep ==
    ASSUME RInv, AllButBuffered, [Next]_vars
    PROVE  AllButBuffered' /\ LosesOneFlush
<1>1. UNCHANGED sd
  BY DEF Next, vars
<1>2. CASE sd
  BY <1>1, <1>2 DEF AllButBuffered, LosesOneFlush
<1>3. CASE ~sd
  <2>1. CASE UNCHANGED vars
    BY <2>1, FileStays DEF vars, AllButBuffered, Wiping
  <2>2. CASE Open \/ (\E t \in Targets : PressTarget(t)) \/ Tick \/ PressStop
    <3>1. /\ UNCHANGED <<wav, rec>>
          /\ screen'.state = "recording" => screen.state = "recording"
      BY <2>2, AwayTypes
         DEF Open, PressTarget, Tick, PressStop, files, RInv, TypeOK
    <3>2. Wiping => Wiping'
      BY <2>2 DEF Open, PressTarget, Tick, PressStop, Wiping
    <3> QED
      BY <1>1, <3>1, <3>2, FileStays DEF AllButBuffered
  <2>3. CASE PressEsc \/ PowerCut
    <3>1. UNCHANGED wav /\ (Leave \/ pc' = "wipe_wav")
      BY <2>3 DEF PressEsc, PowerCut, files
    <3> QED
      BY <3>1, FileStays, LeaveHasAll DEF AllButBuffered, Wiping
  <2>4. CASE Cancel
    <3>1. Wiping /\ (Leave \/ pc' = "wipe_manifest")
      BY <2>4 DEF Cancel, WipeWav, WipeManifest, Wiping
    <3> QED
      BY <3>1, LeaveHasAll DEF AllButBuffered, LosesOneFlush, Wiping
  <2>5. CASE PressStart \/ LoopPass \/ Stop
    BY <1>1, <1>3, <2>5, HostStart, HostPassBuffers, HostPassFlushes, HostStop
       DEF LoopPass
  <2> QED
    BY <2>1, <2>2, <2>3, <2>4, <2>5 DEF Next
<1> QED
  BY <1>2, <1>3

\* On the host a recording that is not being cancelled never loses more than
\* its last flush, for any threshold and any length (wav_writer.h).
THEOREM HostLosesOneFlushTheorem == Spec => HostLosesOneFlush
<1>1. Init => AllButBuffered
  BY AwayTypes DEF Init, AllButBuffered
<1>2. RInv /\ AllButBuffered /\ [Next]_vars => AllButBuffered'
  BY HostStep
<1>3. RInv /\ AllButBuffered /\ [Next]_vars =>
        [(/\ ~sd
          /\ rec.recording
          /\ pc \notin {"wipe_wav", "wipe_manifest"})
           => /\ wav'[rec.n] \in Wav
              /\ wav'[rec.n].take = rec.take
              /\ wav'[rec.n].len + FlushBlocks >= rec.data]_vars
  BY HostStep DEF LosesOneFlush, Wiping
<1> QED
  BY <1>1, <1>2, <1>3, InitRInv, NextRInv, PTL DEF Spec, HostLosesOneFlush
=============================================================================
