------------------------------- MODULE Export -------------------------------
(***************************************************************************)
(* projects/<slug>/export/, the folder that is handed to a coding agent.   *)
(* Two programs write it: the device's AgentPackExporter, which writes     *)
(* over what an earlier export left, and the bridge's export command,      *)
(* which wipes the folder first.  A write may fail and power may go after  *)
(* any of them.                                                            *)
(*                                                                         *)
(* A generated file is the export that wrote it: its number and what it    *)
(* had read.                                                               *)
(***************************************************************************)
EXTENDS Naturals, Sequences

CONSTANTS Names,       \* the source artifacts, in the order of kSourceNames
          Calendar,    \* calendar-suggestions.json
          TasksJson,   \* the one of them that is parsed
          Texts,       \* what each of them may hold
          Garbled,     \* texts of tasks.json that are not JSON
          Suggested,   \* the files that results/ may hold
          Absent,      \* no such file
          Torn,        \* cut short by an end of the bridge
          MaxExports,  \* bound on the exports
          Devices,     \* which storage the device side has: "host", "SD"
          Faults       \* "write": a write may fail; "crash": power may go

Sources == {Names[i] : i \in 1..Len(Names)} \cup {Calendar}

\* The files an export makes, in the order in which they are written.
Pack == <<"agent-pack.md", "agent-tasks.json", "README.md">>
Made == {"agent-pack.md", "agent-tasks.json", "README.md",
         "sources.json", "export-info.json", "warnings.json"}

Text == UNION {Texts[s] : s \in Sources}
Read == [Sources -> Text \cup {Absent}]
Export == [number : 1..MaxExports, by : {"device", "bridge"}, read : Read]

ASSUME ExportAssumption ==
    /\ Names \in Seq(Sources)
    /\ Sources \cap Made = {}
    /\ TasksJson \in Sources \ {Calendar}
    /\ Texts \in [Sources -> SUBSET Text]
    /\ Garbled \subseteq Texts[TasksJson]
    /\ Suggested \subseteq Sources
    /\ MaxExports \in Nat
    /\ Devices \subseteq {"host", "SD"}
    /\ {Absent, Torn} \cap Export = {}

VARIABLES device,   \* the storage of the device side
          docs,     \* the source artifacts in the project folder
          results,  \* the same in the newest result directory that has them
          made,     \* the generated files in export/
          copy,     \* the copies of source artifacts in export/
          exports,  \* the exports so far
          job,      \* the running export, and which of its writes comes next
          last      \* how the last export ended, or "running"

exportVars == <<device, docs, results, made, copy, exports, job, last>>

Idle == [export |-> Absent, at |-> 0]

ExportTypeOK ==
    /\ device \in Devices
    /\ docs \in Read
    /\ results \in Read
    /\ made \in [Made -> Export \cup {Absent, Torn}]
    /\ copy \in Read
    /\ exports \in 0..MaxExports
    /\ job = Idle \/ job \in [export : Export, at : Nat \ {0}]
    /\ last \in {"none", "running", "ok", "failed", "cut"}

Nothing == [s \in Sources |-> Absent]

ExportInit ==
    /\ device \in Devices
    /\ docs = Nothing
    /\ results = Nothing
    /\ made = [f \in Made |-> Absent]
    /\ copy = Nothing
    /\ exports = 0
    /\ job = Idle
    /\ last = "none"

-----------------------------------------------------------------------------
(* What the exports read and write.                                        *)

\* find_latest_calendar takes the newest by mtime; SdStorage has none, so
\* that no calendar is ever found there.
DeviceRead ==
    [s \in Sources |->
       IF s # Calendar THEN docs[s]
       ELSE IF device = "host" THEN results[s] ELSE Absent]

\* The project folder, else the newest result directory.
BridgeRead ==
    [s \in Sources |-> IF docs[s] # Absent THEN docs[s] ELSE results[s]]

Present(e) == {s \in Sources : e.read[s] # Absent}

\* The files whose absence each program warns of.
Missed(e) ==
    (Sources \ Present(e)) \ IF e.by = "device" THEN {Calendar}
                             ELSE {"tasks.md", "agent-prompt.md"}

\* Only the device finds out here that tasks.json is not JSON; the bridge
\* does when it writes agent-tasks.json.
Warned(e) ==
    Missed(e) # {} \/ (e.by = "device" /\ e.read[TasksJson] \in Garbled)

\* The order of the loop that copies them.
Copied == Append(Names, Calendar)

\* A bug Metadata could have: the vouching file is written first.
MetadataSwapped == <<"export-info.json", "sources.json", "warnings.json">>

Metadata == <<"sources.json", "export-info.json", "warnings.json">>

\* The device writes the copies after each of the three files of the pack:
\* the loop over them stands inside the loop over those.
Writes(by) ==
    IF by = "device"
    THEN <<Pack[1]>> \o Copied \o <<Pack[2]>> \o Copied \o <<Pack[3]>> \o Copied
           \o Metadata
    ELSE Pack \o Metadata

\* What this export does not write of them.
LeftOut(e, f) ==
    \/ f \in Sources \ Present(e)
    \/ f = "warnings.json" /\ ~Warned(e)

\* A bug Listed could have: only the files of the pack are listed.
ListedPackOnly(e) == {}

\* The copies that sources.json lists beside the files of the pack.
Listed(e) == IF e.by = "device" THEN Present(e) ELSE {}

\* The bytes of a generated file: README.md says when it was written.
SameFile(f, e, d) ==
    /\ e \notin {Absent, Torn}
    /\ e.by = d.by
    /\ CASE f = "agent-pack.md" -> e.read = d.read
         [] f = "agent-tasks.json" ->
              /\ e.read[TasksJson] = d.read[TasksJson]
              /\ e.by = "device" => e.read[Calendar] = d.read[Calendar]
         [] f = "README.md" -> e.number = d.number

\* Everything that sources.json lists has the hash it is listed with.
Verifies ==
    LET e == made["sources.json"] IN
    /\ e \notin {Absent, Torn}
    /\ \A i \in 1..Len(Pack) : SameFile(Pack[i], made[Pack[i]], e)
    /\ \A s \in Listed(e) : copy[s] = e.read[s]

-----------------------------------------------------------------------------
(* The device: export_project.                                             *)

Start(by, read) ==
    /\ job = Idle
    /\ exports < MaxExports
    /\ exports' = exports + 1
    /\ job' = [export |-> [number |-> exports + 1, by |-> by, read |-> read],
               at |-> 1]
    /\ last' = "running"
    /\ UNCHANGED <<device, docs, results>>

DeviceExport ==
    /\ Start("device", DeviceRead)
    /\ UNCHANGED <<made, copy>>

Running(by) == job # Idle /\ job.export.by = by

NextFile == Writes(job.export.by)[job.at]

HasNext == job.at <= Len(Writes(job.export.by))

Writing(by) == Running(by) /\ HasNext /\ ~LeftOut(job.export, NextFile)

Advance ==
    /\ job' = [job EXCEPT !.at = @ + 1]
    /\ UNCHANGED last

Stop(how) ==
    /\ job' = Idle
    /\ last' = how

Put(f, e) ==
    IF f \in Made
    THEN made' = [made EXCEPT ![f] = e] /\ UNCHANGED copy
    ELSE copy' = [copy EXCEPT ![f] = e.read[f]] /\ UNCHANGED made

\* A file that could not be written is the old one, or none on SD.
Spoil(f) ==
    \/ UNCHANGED <<made, copy>>
    \/ /\ device = "SD"
       /\ IF f \in Made
          THEN made' = [made EXCEPT ![f] = Absent] /\ UNCHANGED copy
          ELSE copy' = [copy EXCEPT ![f] = Absent] /\ UNCHANGED made

DeviceWrites ==
    /\ Writing("device")
    /\ Put(NextFile, job.export)
    /\ Advance
    /\ UNCHANGED <<device, docs, results, exports>>

\* A bug DeviceFails could have: a copy that cannot be written is left out.
DeviceSkips ==
    /\ "write" \in Faults
    /\ Writing("device")
    /\ Spoil(NextFile)
    /\ IF NextFile \in Sources \cup {"warnings.json"} THEN Advance ELSE Stop("failed")
    /\ UNCHANGED <<device, docs, results, exports>>

\* Any error ends the export, but for warnings.json.
DeviceFails ==
    /\ "write" \in Faults
    /\ Writing("device")
    /\ Spoil(NextFile)
    /\ IF NextFile = "warnings.json" THEN Advance ELSE Stop("failed")
    /\ UNCHANGED <<device, docs, results, exports>>

-----------------------------------------------------------------------------
(* The bridge: export.                                                     *)

BridgeExport ==
    /\ Start("bridge", BridgeRead)
    /\ made' = [f \in Made |-> Absent]
    /\ copy' = Nothing

\* The end of the bridge, or an error, while it removes the old files, in the
\* order the file system lists them.
WipeEnds ==
    /\ "crash" \in Faults
    /\ job = Idle
    /\ exports < MaxExports
    /\ exports' = exports + 1
    /\ \E kept \in SUBSET ({f \in Made : made[f] # Absent}
                              \cup {s \in Sources : copy[s] # Absent}) :
         /\ made' = [f \in Made |-> IF f \in kept THEN made[f] ELSE Absent]
         /\ copy' = [s \in Sources |-> IF s \in kept THEN copy[s] ELSE Absent]
    /\ last' = "cut"
    /\ UNCHANGED <<device, docs, results, job>>

\* json.loads raises when agent-tasks.json is to be written.
BridgeRaises ==
    Writing("bridge")
      /\ NextFile = "agent-tasks.json"
      /\ job.export.read[TasksJson] \in Garbled

\* write_text truncates the file before it writes it.
BridgeWrites ==
    /\ Writing("bridge") /\ ~BridgeRaises
    /\ IF made[NextFile] # Torn
       THEN Put(NextFile, Torn) /\ UNCHANGED <<job, last>>
       ELSE Put(NextFile, job.export) /\ Advance
    /\ UNCHANGED <<device, docs, results, exports>>

BridgeFails ==
    /\ BridgeRaises \/ ("write" \in Faults /\ Writing("bridge"))
    /\ Stop("failed")
    /\ UNCHANGED <<device, docs, results, made, copy, exports>>

-----------------------------------------------------------------------------
\* A source that was not read is not in the list; there are no warnings.
PassOver ==
    /\ job # Idle /\ HasNext
    /\ LeftOut(job.export, NextFile)
    /\ Advance
    /\ UNCHANGED <<device, docs, results, made, copy, exports>>

Finish ==
    /\ job # Idle /\ ~HasNext
    /\ Stop("ok")
    /\ UNCHANGED <<device, docs, results, made, copy, exports>>

\* The power goes, in a write or between two of them.
PowerCut ==
    /\ "crash" \in Faults
    /\ job # Idle
    /\ \/ UNCHANGED <<made, copy>>
       \/ Writing("device") /\ Spoil(NextFile)
    /\ Stop("cut")
    /\ UNCHANGED <<device, docs, results, exports>>

\* Between exports: a result is accepted, the task list is used, a file is
\* lost or edited on a host.
DocChanges ==
    /\ job = Idle /\ exports < MaxExports
    /\ \E s \in Sources : \E t \in Texts[s] \cup {Absent} :
         docs' = [docs EXCEPT ![s] = t]
    /\ UNCHANGED <<device, results, made, copy, exports, job, last>>

\* The bridge has planned, or a result was accepted or rejected.
ResultChanges ==
    /\ job = Idle /\ exports < MaxExports
    /\ \E s \in Suggested : \E t \in Texts[s] \cup {Absent} :
         results' = [results EXCEPT ![s] = t]
    /\ UNCHANGED <<device, docs, made, copy, exports, job, last>>

ExportNext ==
    \/ DeviceExport \/ DeviceWrites \/ DeviceFails
    \/ BridgeExport \/ WipeEnds \/ BridgeWrites \/ BridgeFails
    \/ PassOver \/ Finish \/ PowerCut
    \/ DocChanges \/ ResultChanges

ExportSpec == ExportInit /\ [][ExportNext]_exportVars

-----------------------------------------------------------------------------
(***************************************************************************)
(* After "Export done" the folder is complete: the hashes of sources.json  *)
(* fit, and all five files come from this export, whatever failed exports  *)
(* of either program had left.                                             *)
(***************************************************************************)
DoneIsComplete ==
    last = "ok" =>
      /\ Verifies
      /\ \A f \in Made \ {"warnings.json"} :
           made[f] \in Export /\ made[f].number = exports

(***************************************************************************)
(* A folder that mixes exports does not verify: when every hash fits, the  *)
(* files that agent-pack.md was put together from lie beside it as it has  *)
(* them (after an export of the device), agent-tasks.json holds the tasks  *)
(* of the same tasks.json, and README.md dates an export that read just    *)
(* what the pack has.                                                      *)
(***************************************************************************)
MixtureIsNoticed ==
    Verifies =>
      LET pack == made["agent-pack.md"] IN
      /\ pack.by = "device" =>
           \A s \in Sources : pack.read[s] # Absent => copy[s] = pack.read[s]
      /\ made["agent-tasks.json"].read[TasksJson] = pack.read[TasksJson]
      /\ made["README.md"].read = pack.read

(***************************************************************************)
(* export-info.json, which is written last, is never ahead of the files it *)
(* vouches for: none of them is from an older export than it says.         *)
(***************************************************************************)
InfoIsNeverAhead ==
    LET info == made["export-info.json"] IN
    info \in Export =>
      \A f \in Made \ {"warnings.json"} :
        made[f] \in Export => made[f].number >= info.number
=============================================================================
