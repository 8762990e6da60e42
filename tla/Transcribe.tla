----------------------------- MODULE Transcribe -----------------------------
(***************************************************************************)
(* The two commands that run the bridge's planner: run-once, which is      *)
(* module BridgeRun, and transcribe-and-plan, which writes the transcript  *)
(* of a recording over the project's idea.md, plans it under an id of its  *)
(* own, and puts idea.md back however the run ended.  Commands run one at  *)
(* a time.                                                                 *)
(***************************************************************************)
EXTENDS BridgeRun

VARIABLES cmd,     \* where transcribe-and-plan stands
          idea,    \* idea.md; "crlf" is a text with line ends of another system
          backup,  \* what the command read of it
          owner,   \* history: idea.md when the command began
          cut      \* history: the command was killed or could not write it back

ideaVars == <<cmd, idea, backup, owner, cut>>
transcribeVars == <<vars, ideaVars>>

UserIdeas == {"none", "lf", "crlf"}
Ideas == UserIdeas \cup {"transcript", "torn"}

TranscribeTypeOK ==
    /\ TypeOK
    /\ cmd \in {"idle", "replacing", "planning", "running", "restoring"}
    /\ {idea, backup, owner} \subseteq Ideas
    /\ backup # "crlf"
    /\ cut \in BOOLEAN

TranscribeInit ==
    /\ Init
    /\ cmd = "idle"
    /\ idea = "none"
    /\ backup = "none"
    /\ owner = "none"
    /\ cut = FALSE

\* read_text() turns every line end into one newline.
ReadText(text) == IF text = "crlf" THEN "lf" ELSE text

\* run-once, and the firmware's imports.
Other ==
    /\ cmd = "idle"
    /\ Next
    /\ UNCHANGED ideaVars

\* The user captures or edits an idea.
Edit ==
    /\ cmd = "idle" /\ pc = "idle"
    /\ idea' \in UserIdeas
    /\ owner' = idea'
    /\ cut' = FALSE
    /\ UNCHANGED <<vars, cmd, backup>>

\* transcript.md is written, idea.md is read.
Transcribe ==
    /\ cmd = "idle" /\ pc = "idle"
    /\ cmd' = "replacing"
    /\ backup' = ReadText(idea)
    /\ owner' = idea
    /\ cut' = FALSE
    /\ UNCHANGED <<vars, idea>>

\* write_text truncates before it writes.
TearIdea ==
    /\ \/ cmd = "replacing"
       \/ cmd = "restoring" /\ backup # "none"
    /\ idea' = "torn"
    /\ UNCHANGED <<vars, cmd, backup, owner, cut>>

ReplaceIdea ==
    /\ cmd = "replacing" /\ idea = "torn"
    /\ idea' = "transcript"
    /\ cmd' = "planning"
    /\ UNCHANGED <<vars, backup, owner, cut>>

\* No folder, no space, no provider, a pending.jsonl that cannot be read.
GiveUp ==
    /\ cmd \in {"replacing", "planning"}
    /\ cmd' = "restoring"
    /\ UNCHANGED <<vars, idea, backup, owner, cut>>

\* plan_project takes an id above those of all the result directories.
Plan ==
    /\ cmd = "planning"
    /\ dir = NoDir
    /\ Begin
    /\ cmd' = "running"
    /\ UNCHANGED <<idea, backup, owner, cut>>

\* The run, as run-once has it, but for the error manifest.
RunStep ==
    /\ cmd = "running"
    /\ \/ RaiseOther \/ Validated \/ TearManifest \/ WriteManifest
       \/ WriteArtifact \/ ArtifactsDone
    /\ UNCHANGED ideaVars

RunEnds ==
    /\ cmd = "running" /\ pc = "idle"
    /\ cmd' = "restoring"
    /\ UNCHANGED <<vars, idea, backup, owner, cut>>

\* A bug Restore could have: without an earlier idea nothing is removed.
RestoreNoUnlink ==
    /\ cmd = "restoring"
    /\ backup # "none" => idea = "torn"
    /\ idea' = IF backup # "none" THEN backup ELSE idea
    /\ cmd' = "idle"
    /\ UNCHANGED <<vars, backup, owner, cut>>

\* finally: the old text is written back, or the new file is removed.
Restore ==
    /\ cmd = "restoring"
    /\ backup # "none" => idea = "torn"
    /\ idea' = backup
    /\ cmd' = "idle"
    /\ UNCHANGED <<vars, backup, owner, cut>>

RestoreFails ==
    /\ cmd = "restoring"
    /\ cmd' = "idle"
    /\ cut' = TRUE
    /\ UNCHANGED <<vars, idea, backup, owner>>

\* The process dies, its finally with it.
KilledCommand ==
    /\ cmd # "idle"
    /\ cmd' = "idle"
    /\ pc' = "idle"
    /\ cut' = TRUE
    /\ UNCHANGED <<dir, i, runs, before, idea, backup, owner>>

TranscribeNext ==
    \/ Other \/ Edit
    \/ Transcribe \/ TearIdea \/ ReplaceIdea \/ GiveUp
    \/ Plan \/ RunStep \/ RunEnds
    \/ Restore \/ RestoreFails \/ KilledCommand

TranscribeSpec == TranscribeInit /\ [][TranscribeNext]_transcribeVars

-----------------------------------------------------------------------------
(***************************************************************************)
(* However transcribe-and-plan ends, idea.md holds the user's text again,  *)
(* up to line ends, or is absent again, unless the process was killed or   *)
(* the last write failed (cli.py:597-598: "the file system state matches what  *)
(* it was before this command ran").                                       *)
(***************************************************************************)
IdeaComesBack == cmd = "idle" /\ ~cut => ReadText(idea) = ReadText(owner)
=============================================================================
