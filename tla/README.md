# Verification of advdeck-agent and its bridge

TLA+ models of the AdvDeck Agent firmware (`src/projects/advdeck-agent`) and of
the Python bridge it works with (`src/bridge/advdeck-agent-bridge`), checked
with TLC on small instances and proved with TLAPS for every size. Paths below
leave out `src/` and are shortened: FW is
`projects/advdeck-agent/src`, BR is
`bridge/advdeck-agent-bridge/src/advdeck_bridge`.

## 1. The system

The device captures ideas (typed or spoken) as projects on an SD card. A request
to plan a project is a line in `outbox/pending.jsonl`. The bridge, a command
line program on a host that has the card, takes requests, lets a provider turn
the idea into six artifacts and leaves them in `outbox/results/<id>/` with a
`result.json`. Back on the device the import moves the artifacts to
`outbox/staging/<id>/`, and the user accepts them into `projects/<slug>/` or
rejects them into `outbox/rejected/<id>/`. Beside that the device keeps tasks,
a calendar with reminders, recordings and exports for coding agents.

| Component | State it keeps | Operations | Talks to |
|---|---|---|---|
| Storage (FW/platform: host, SD) | the files | read, write_file, list, mtime | everything on the device |
| Outbox queue (FW/services/outbox_queue.cpp, BR/queue.py, ids.py) | `pending.jsonl` | enqueue, mark_in_flight, mark_terminal, retry, compact_done; the bridge's enqueue and update_status | storage; shared by both programs |
| Bridge runner (BR/runner.py, cli.py) | `results/<id>/` | run-once, plan, plan-local, transcribe-and-plan | providers, queue, project folder |
| BridgeImport (FW/services/bridge_import.cpp) | none | stage_only, import | results, StagingQueue |
| StagingQueue (FW/services/staging_queue.cpp) | `staging/`, `rejected/` | stage, accept, reject, list_pending | storage, project folder |
| Sync and Review screens (FW/app) | selection | retry, compact; accept, reject | queue, StagingQueue |
| BridgeLog | `bridge.log` | append, rotate | storage |
| Recorder, WavWriter | phase, level, open WAV file | start, tick, stop, cancel | microphone, storage |
| CalendarStore, ReminderWatcher | `events.json`, acks | add, update, remove; check, acknowledge, snooze | clock, storage |
| TaskStore, task list (FW/app/tasks.cpp) | `tasks.json`, the rows shown | load, add, set_status, delete | review, storage |
| ProjectStore | project folders | create, list, slug | storage |
| AgentPackExporter, the bridge's export (BR/export.py) | `projects/<slug>/export/` | export_project; the bridge's wipes the folder first | project folder, results, storage |
| Dispatcher (FW/main.cpp) | current route and project | run a route, take its answer | all screens |
| TextEditor and the other UI | cursor, view | insert, delete, move | display, keyboard |

What is hard about it:

- **Power loss and failing writes everywhere.** Accepting one result is up to
  twelve writes and twelve removals; nothing ties them together but their order.
- **Two writers of one file.** Device and bridge both read, modify and write
  `pending.jsonl`; only the single-writer rule
  (PHASE-2-INTERFACES.md:206) keeps them apart.
- **Long protocols over files.** A request passes through four directories and
  two programs; retries, compaction and repeated runs bring old and new copies
  of the same artifact together.
- **Two builds.** On the host a move removes its source and rename replaces a
  file; on the device a move is a copy, there are no mtimes, and replacing a
  file means removing it first.
- **Ids from what happens to be there.** Request ids, event ids, recording
  names and slugs are all "the next number not in use", read from state that
  other operations shrink.

What makes each component correct: a file is replaced whole or not at all
(storage); a request goes pending, in flight, done or error, is never worked on
twice and never gets another one's results (outbox); a result directory with a
success manifest holds one run (runner); nothing is lost between results and
project, nothing gets there unseen, a decision is final (staging, import);
every request is settled (both programs together).

## 2. Modules

| Module | Models | Builds on |
|---|---|---|
| `AtomicFile` | what `storage.h` promises of write_file | |
| `WriteFile` | HostStorage::write_file, SdStorage::write_file, the bridge's _atomic_write, call by call into the file system | refines `AtomicFile` |
| `Lifecycle` | what the outbox promises for each request | |
| `Outbox` | `pending.jsonl` under both programs | refines `Lifecycle` |
| `ResultDir` | a result directory and all that a bridge run can leave of it | |
| `AtomicRuns` | what the firmware's side takes a bridge run for: one step, beside the draining of artifacts | `ResultDir` |
| `BridgeRun` | run_for_request and write_error_manifest, entry by entry | `ResultDir`; refines `AtomicRuns` |
| `Transcribe` | transcribe-and-plan, which lends `idea.md` to a run, beside run-once | EXTENDS `BridgeRun` |
| `Staging` | stage_only, stage, accept, reject, each write and removal a step | `ResultDir` |
| `Pipeline` | rows, bridge commands, import and review together | EXTENDS and refines `Staging` |
| `Recorder` | the recorder screen, Recorder and WavWriter over the files of voice/ | a write is atomic by `WriteFile` |
| `Projects` | the dispatcher in main.cpp, the home menu, capture, the project list and detail, ProjectStore and make_unique_slug | a write is atomic by `WriteFile` |
| `Reminders` | CalendarStore, ReminderWatcher, the calendar list, the editor and the alert over `events.json` and `acks.json` | a write is atomic by `WriteFile` |
| `Tasks` | TaskStore and the task list: the file, the rows shown, texts that do not parse, plans that replace it | a write is atomic by `WriteFile` |
| `Export` | AgentPackExporter and the bridge's export command in one folder, each write a step | a write is atomic by `WriteFile` (the device's) |
| `MCStaging`, `MCPipeline`, `MCExport` | instances for TLC | |
| `WriteFile_proofs`, `Outbox_proofs`, `Pipeline_proofs` (with `Staging`), `Bridge_proofs` (`BridgeRun`, `Transcribe`, `Export`), `Recorder_proofs`, `Projects_proofs`, `Tasks_proofs`, `Reminders_proofs` | theorems | |

The layers fit together like this. `WriteFile` shows that a write is atomic (on
the SD backend up to a loss of the old file), which is why in `Outbox` a
rewrite of `pending.jsonl` is one step (plus `LoseFile` on SD) and in `Staging`
a write_file is one step (plus `SdWriteLoses` on SD); in `Recorder`,
`Projects`, `Reminders`, `Tasks` and `Export` it is one step with the outcomes
`WriteFile` leaves (`Outcomes`, `Rewritten`, `Written`, `Saved`, `Spoil`).
`BridgeRun` refines `AtomicRuns`, where a run is one step that leaves one of
`ResultDir!Outcomes`, and `Transcribe` keeps to that; this is why in `Staging`
and `Pipeline` a run is such a step. `Pipeline` refines `Staging`, so what is
proved of `Staging` holds end to end.

Definitions whose comment begins "A bug X could have" are not part of any
specification: they are mutated forms of the definition X below them, by which
it is tested that a property really depends on X.

### How the state corresponds to the code

- `WriteFile`: `dest` and `tmp` are `<path>` and `<path>.tmp`; `pc` is the place
  in write_file, one step for each call into the file system that matters;
  `ret` is "" (`ok`) or an error text.
- `Outbox`: `rows` are the lines that parse, `garbage` says whether there are
  others and whether the last one lacks its newline. A request id is day, maker
  and number (`req-YYYYMMDD-NNNNNN` from the firmware, `req-YYYYMMDD-NNN` from
  the bridge: the padding keeps them apart). `dirs` is the mtime of each result
  directory. A time unit is longer than the seven days of compaction.
- `BridgeRun`: `dir` is `results/<id>/`; an artifact's content is the number of
  the run that wrote it, so that "which run is this from" can be asked.
- `Staging`: `op` is the running call (which one, for which id, at which
  artifact, copying or removing). `op.shown` remembers what the staging entry
  held when the call began, `reached` what accept has put into the project
  folder. `moves` distinguishes the builds. `StageOnly` may also be refused
  because there is no row or its slug is not valid (`NoRowOrBadSlug`); in
  `Pipeline` the row is there, so it only uses `Staged`.
- `Pipeline`: `row` is the status in `pending.jsonl`, `importing` the request
  whose stage_only runs, `seen` the runs whose artifacts a review put before
  the user.
- `Recorder`: `rec` is the Recorder object and its WavWriter, `screen` the
  screen's state with `elapsed_ms`, `pc` the write of stop or cancel that comes
  next, `age` the time since `last_tick`. A WAV file is the take it holds, the
  size its header says and the number of blocks that follow, a block being the
  samples of one pass of the loop.
- `Projects`: `route` is `next` of loop(), `in` says whether its screen is
  open, `current` and `last` are `current_slug` and `Ctx::last_created_slug`,
  `at` the project the open screen was given. `folder`, `idea` and `stray` are
  what lies in `projects/`. `picked` and `made` remember what the user chose.
- `Reminders`: `events` and `acks` are the two files, an id is a day and a
  number, `pc` the open screen or the second write of a snooze, toggle or edit,
  `work` the event it is about. `asked` remembers what the user did with each
  setting of a reminder (a tag), whatever ids its event had; `silenced` the tags
  whose event was given an id that `acks.json` named already; `moved` those
  whose event, after the answer, was added again where its id could not be
  given back.
- `Transcribe`: `cmd` is the place in transcribe_and_plan, `idea` what
  `idea.md` holds, `backup` the variable `original_idea`. `owner` remembers the
  user's text, `cut` whether the restoring write was lost.
- `Tasks`: `tasks` or `bad` is what `tasks.json` holds, `aside` the texts in
  `tasks.json.bad-*`; `view`, `shown` and `sel` are the screen, its own list
  and the selected row. `clean` remembers that since the list was loaded no
  removal failed and no failing write changed the file, and that no two tasks
  shared an id then; `sd` says that the backend can lose the file.
- `Export`: `docs` and `results` are the artifacts an export may read, `made`
  and `copy` the files in `export/`, `job` the running export and which of its
  writes comes next, `last` what it answered. A file that this export leaves
  out (a source it has not read, `warnings.json` without warnings) is passed
  over in a step of its own (`PassOver`).

### What the models abstract from

- A torn append whose cut falls exactly before the newline is not told apart
  from a complete line; an artifact cut short counts as the run's content.
- Bridge numbers from 100000 on have six digits and could meet firmware ids.
- In `Outbox` a failing rewrite is a stutter (write_file is atomic), except
  for `LoseFile`; row writes in `Pipeline` likewise.
- Both clocks agree on the day and only move forward. A device whose clock is
  not set yet starts in 1970: listed as a hazard, not modelled.
- Firmware and bridge never run at the same time (the single-writer rule).
- The caller of stage_only and mark_terminal is not in the repository (tests
  call them one by one). It is modelled from stage_only's comment
  (FW/services/bridge_import.cpp:507) and PHASE-2-INTERFACES.md, 4.1.
- The review screen lets the user read four of the six artifacts and accept
  without reading any; `seen` counts what it offered, not what was read.
- read_file has no error result: what is there is read.
- `Recorder`: the hash of a file stands for the very bytes; list_dir does not
  fail. A write is one step (a torn `.tmp` is kept, as list_dir sees it).
- `Projects`: a slug is a stem and a number (what slugify does with characters
  and with 64 of them is left out), the order of the list is any; the screens
  that do not bear on projects (sync, review, calendar) only return to home.
  Numbers end at `MaxNumber`, where the code goes on to 9999.
- `Reminders`: dates are days, so a snooze ends the next day; titles, status and
  the move-aside of a file that does not parse are left out, and with it that
  add_event and delete_event then answer as if they had worked
  (calendar_store.cpp:272), so that the editor says saved. Writes have the
  outcomes of the SD backend, which include the host's. Nothing in main.cpp
  opens the alert or the editor yet; the model opens the alert when a reminder
  is due (PHASE-5-INTERFACES.md:111) and the editor from the list.
- `Transcribe`: an idea is absent, a text with newlines or one with CRLF
  (read_text turns the second into the first); the id of the plan is fresh, as
  plan_project means it to be (what ids.py does of it is in section 3).
- `Tasks`: a list is a function from places to tasks, so that a row keeps its
  name when another goes. Ids of new_task_id (32 random bits) are distinct;
  titles and dates are left out. A second text moved aside in the same second
  would replace the first (`.bad-<time>`); the model gives each a file.
- `Export`: a generated file is the export that wrote it and what that had
  read; two are the same file where rendering uses the same inputs
  (`SameFile`). SHA-256 is taken to tell different files apart, and no two
  exports are of the same second, so that their `README.md` differ. The
  calendar is that of the newest result, which the code takes whatever project
  it is of.

## 3. Runs

Deadlock is not checked where the bounds on runs, rows or days bring the
exploration to an end (`bridge_run`, `export`, `outbox`, `staging` and both
`pipeline` runs); `WriteFile`, `Recorder`, `Projects`, `Reminders` and `Tasks`
never stop and are checked for it.

| Run | Question | Bounds |
|---|---|---|
| `write_file` | Is each backend an atomic file? Is a file ever torn? Does the SD backend always hold one whole body? | 3 bodies: the old one, the running call's and another, all backends |
| `bridge_run` | Is a bridge run one step for the firmware? Can artifacts of two runs meet under a success manifest? Does transcribe-and-plan give `idea.md` back? | 3 artifacts (first, middle, last), 3 runs (leftovers of two); both commands, killed anywhere |
| `outbox` | Is the lifecycle kept by both programs? Are ids unique and fresh? | 3 requests, numbers up to 2 (so that the cap is reached), 2 days, both backends |
| `staging` | On both builds: is an artifact ever lost? Does a successful accept deliver what was reviewed? | 1 request, 2 artifacts, 3 runs; write errors, failing removals and power cuts |
| `pipeline` | On the host, end to end with power cuts: is anything accepted unseen or falsely done? | 1 request, 2 artifacts, 3 runs |
| `pipeline_settles` | Does every request come to an end, and is a decision final? | 2 requests of one project, 2 artifacts, 2 runs, FairSpec |
| `recorder` | Does a manifest always describe the recording beside it? Is a finished recording ever touched? What does an interruption cost? Does a forgotten recording end? | 2 takes of up to 4 blocks, a flush every 2, targets of 1 and 2 s, both backends, failing writes and power cuts |
| `reminders` | Are event ids distinct? When is a reminder lost, or one answered shown again, without a fault? | 2 events, 2 settings of a reminder, 2 days, failing writes and power cuts |
| `tasks` | When do the rows part from the file? Can a key on a stale list hit another task? Is a text that cannot be read ever lost? | 3 ids and 3 places (a row above and one below), plans of 2 tasks that may share an id, 2 bad texts, failing writes and power cuts |
| `export` | Is a finished export complete? Does a folder of two exports pass for one? | 3 exports by either program, `tasks.json` in two versions (one not JSON) and a calendar, host and SD, each export cut anywhere; what it reads changes between exports |
| `projects` | Does the dispatcher stay on the right project? Can a capture overwrite another project? Where does the device hang? | one stem with 3 numbers (so that slugs collide twice), 2 texts, both backends, failing writes and power cuts |

Two artifacts are enough to be between two of them; a third run is the one that
comes while leftovers of two earlier ones are in staging and in the project.
Larger values only repeat these situations, and the safety properties are
proved for all values besides. Requests only interfere when they share a
project or an id.

**Fairness** (`Pipeline!Fairness`), assumed only in `pipeline_settles`: run-
once is invoked again and again (docs describe it as what the user or a timer
does); the device polls for results and marks rows; a call that was begun goes
on. The user is not assumed to do anything. A run that fails with something
else than a BridgeError is left out there, because it leaves its row in flight
for ever (see below).

`Recorder!FairSpec`: the loop of the screen turns as long as it is open, time
passes, and a stop or cancel that was begun runs to its end. No key press is
assumed.

### Disagreements between the code and what it says of itself

One is a run that TLC must find violated:

- `projects_picked`: the project list's pick is dropped in route_project_list
  (routes.cpp:50); the dispatcher then opens the project captured last, or none.

Others seen while modelling, without a run of their own:

- Storage: sd_storage.cpp:24 says a torn write leaves the old file intact; the
  file is gone between remove and rename (`SdReadyToRename` in `WriteFile`).
- Outbox: on the device compaction drops done rows at once, not after seven
  days (PHASE-2-INTERFACES.md:360): SdStorage::mtime returns "", which
  counts as old. generate_request_id looks for used numbers in the rows only,
  so the next request of that day can get the id of one whose
  `results/<id>/` is still there; to whoever goes by the id the old result is
  its own. `FreshIdHasNoResults` is therefore about `~sd` only: without that
  TLC finds it violated by an enqueue, a run, a mark, a compaction and an
  enqueue. Two plans of the bridge can get one id, because the pattern that
  looks for used ids does not match an id followed by a quote (ids.py);
  `attempts` is raised by run-once when it takes a row and again by
  mark_terminal (outbox_queue.cpp:352 says it counts failures).
- Runner: a failing `plan` leaves its row in flight for ever, and retry takes
  only errors (docs/ARCHITECTURE.md:98 "Failed bridge jobs remain retryable").
  transcribe-and-plan that is killed loses `idea.md`
  (docs/ARCHITECTURE.md:97 says a raw idea is never deleted), and it changes
  CRLF line ends (cli.py:597 says the state "matches what it was before").
- Staging: stage again after a power cut makes an entry that was decided on
  pending again; stage() empties the result directory on the host
  (staging_queue.h:48 says it leaves it alone); accept() leaves it full on the
  device (staging_queue.h:17 says it is drained); reject() leaves a meta.json
  in both places (staging_queue.cpp:432 says never both); an accept cut short
  leaves part of a run in the project (PHASE-3-INTERFACES.md:63 says
  atomically); on the device a failing rewrite of meta.json makes an entry
  vanish from the list. When a staged copy could not be removed (what fs::remove
  answers is not looked at) and the accept was cut short after the newer copy in
  `results/<id>/` had gone to the project, accepting again puts the older one
  over it; `NothingLost` therefore only asks that an artifact has reached the
  project and that its file is still there. After a failed import and a retry,
  accept also drains a `results/<id>/` that a later run has filled, so that
  artifacts nobody was shown reach the project (it needs a failing write, see
  section 4).
- Review: Esc in the preview of an artifact rejects the request, although the
  footer says "[Esc] back" (review.cpp:278 and 400).
- Tasks: a plan may name two tasks alike; Backspace then removes both
  (delete_task) and Space changes the first, whichever is selected.
- Export: the device never removes a file, so copies and a `warnings.json` of
  an earlier export stay; `sources.json` leaves stale copies out, although the
  comment at agent_pack_exporter.cpp:421 says it matches the disk; by a
  misplaced brace the copies are written and listed three times (408 to 452);
  the calendar of any project is exported. The bridge reads the project folder
  first, where export.py's docstring says the result directory is preferred
  for the calendar; a garbled `tasks.json` makes it raise after it has wiped
  the previous export; the key `calendar_md` (export.py:197) is never set.
- Recorder: each pass adds the whole time since `last_tick` to `elapsed_ms`
  again (`Elapsed`), so a recording stops before its target, although the
  comment beside it speaks of an anchor (app/recorder.cpp:389); after a failing
  write the screen can stop but never start again; cancel leaves files of no
  bytes (recorder.h says they are deleted) whose number is not used again;
  manifests are one per recording (PHASE-4 speaks of one
  `voice/manifest.json`).
- Projects: the help key returns a route that loop() has no case for, so the
  device hangs; the task list opened with no project writes
  `projects/tasks.json`, which is then listed as a project; an edit that could
  not be written is shown as if it had been, since write_idea returns the error
  of write_file and the screen looks at `werr`, which stays empty; a capture
  that failed leaves a folder without idea.md, and trying again makes a second
  project with "-2"; a task whose removal could not be saved still
  vanishes from the screen (tasks.cpp:157).
- Reminders, both without any fault:
  - A reminder can be silenced before it ever fires. An ack names an id, so an
    event that gets the id of a removed one, or a reminder set again on an event
    once acknowledged, never fires, although reminder_watcher.h:32 promises
    all that are past "and not yet acked" (`silenced`).
  - A reminder that was acknowledged can fire again. A toggle, and a save in
    the editor, removes the event and adds it under the smallest free number of
    its day (calendar.cpp:179, calendar_store.cpp:290). For an event with
    nothing but a reminder that is today, whatever day its id is of; for any
    event whose date was edited it is the new day; and with a lower number
    freed in between it is that number. The ack names the old id, so the
    reminder is due again, against reminder_watcher.h:6 ("the same reminder will
    not re-fire until the user re-acks the event") and calendar.cpp:168 ("keep
    id stable"). `AnsweredStaysQuiet` says that nothing else makes it fire
    again (`moved`).

  The comment in calendar_editor.cpp:231 that the id changes on every save is
  not so. The alert looks at the end of time (reminder_alert.cpp:50), so it
  shows reminders that are not due, a snoozed one among them. Snooze
  acknowledges the original even where its copy could not be written
  (`AlertSnooze`). A failing addition loses the event a toggle has removed. An
  event added with a title only is never listed (calendar_store.cpp:343).

## 4. Proofs

All theorems hold for every value of the constants under the named assumptions
of their modules. Nearly all of them rest on an inductive invariant, which says
more than the property does; type invariants are proved and run only where they
say something of their own.

- `WriteFile_proofs`: `Inv` adds to the type that a complete `<path>.tmp` holds
  the running call's body and that the destination does after the rename.
  `NeverTornTheorem`; `RemovalKeepsNewBodyTheorem`; `WriteFileIsAtomic`
  (refinement of `AtomicFile`).
- `Outbox_proofs`: rows above `appended` are empty (`Filled`); a request at an
  end has a result directory (`EndHasDir`); rows that share an id and a result
  directory share their status (`SharedStatus`), without which an update by id
  could take a row of another status along; the bridge's request is in flight
  (`AtWork`). `FwIdsUniqueTheorem`; `KeepsLifecycle` (refinement of
  `Lifecycle`). `FreshIdHasNoResultsTheorem` needs `DateInv`: no row and no
  directory is of a later day, and today's directories of the firmware's ids
  still have their rows, because compaction spares them.
- `Pipeline_proofs`, of `Staging`: runs are numbered forwards everywhere
  (`Dated`), of the copies of one artifact outside the project results/ has the
  newest and rejected/ the oldest (`Order`), what a call is about to remove has
  arrived (`Arrived`), what the user was
  shown is still ahead of the call or arrived (`Shown`), a removal follows its
  copy (`CallShape`). `NothingLostTheorem`, `AcceptDeliversTheorem`.
- `Pipeline_proofs`, of `Pipeline`: `PipelineImplementsStaging` and from it
  `PipelineLosesNothing` and `PipelineAcceptDelivers`, end to end and on both
  builds. On the host build: `DoneIsReviewableTheorem`, from an invariant that
  says what an import at work has still to do (`ImportAtWork`).
  `OnlyReviewedTheorem` assumes besides that no write fails (power cuts are
  allowed). Its invariant says why the second loop of accept, over
  `results/<id>/`, is then harmless: a request has one complete run at most
  (`OneRun`), what stage_only returns tells whether it has (`ImportTells`), and
  what `results/` still holds of an entry is in `staging/`, too, until the user
  has seen it (`Offered`). `ReviewIsFinalTheorem` assumes that no firmware call
  fails or is cut short; then a request is staged once (`StagedOnce`).
- `Bridge_proofs`, of the bridge's commands: `BridgeInv` says what the
  directory is wherever a run stands, compared with what it was when the run
  began (`RunShape`: unchanged, torn, partly wiped, or the first artifacts of
  this run and nothing else), and that a run that is over has left one of the
  outcomes (`AtRest`). The abstract run is taken in the step that ends the
  concrete one; until then the mapping shows the firmware what `before`
  remembers. `RunIsAtomicTheorem` (refinement of `AtomicRuns`);
  `NoMixedRunsTheorem`, which needs `RunShape` because the manifest comes to
  artifacts that lie there already. `TranscribeRunsBridge` carries both over to
  transcribe-and-plan (`TranscribeIsAtomic`). `IdeaInv` adds that the copy the
  command has made is the user's text (`BackupIsOwners`):
  `IdeaComesBackTheorem`.
- `Bridge_proofs`, of `Export`: `ExportInv` says that an export has written all
  it has passed (`Progress`), that no file is of a later export (`NotAhead`),
  that a number is one export's (`OneEach`, `OwnNumber`) and that a finished
  export has written all five files (`Finished`). The lemmas `WrittenAll` and
  `InfoComesLast` say of the order of the writes what these need.
  `DoneIsCompleteTheorem`, `InfoIsNeverAheadTheorem`, `MixtureIsNoticedTheorem`;
  the last needs `OneEach`, because a hash of `README.md` only tells its date.
  Assumed of the constants (`ExportAssumption`): no source artifact has the
  name of a file an export makes, and the marks for an absent and a torn file
  are not exports.
- `Recorder_proofs`: `RInv` says besides the type how far the writes of a stop
  have come (`Progress`) and that an open recording has its number to itself
  (`Owns`). `ManifestDescribesWavTheorem`, `KeptNeverChangesTheorem`.
  `NoStumpsLeftTheorem` adds that without a fault an unfinished file is the
  running recording's (`StumpIsRunning`). `HostLosesOneFlushTheorem` adds that
  on the host the file has all blocks but the buffered ones (`AllButBuffered`).
- `Projects_proofs`: `PInv` adds that an idea lies in a folder (`Housed`), so
  that looking for the folder is enough to protect every idea, and that both
  strings stay on the project made last (`MadeIsCurrent`).
  `IdeasKeptTheorem`, `StaysOnMadeTheorem`, `CurrentExistsTheorem`,
  `ShownIsSavedTheorem`, `BareOnlyAfterFaultTheorem`, `OnlyHelpHangsTheorem`.
- `Tasks_proofs`: `Inv` adds that behind an open list the file is readable
  (`ListIsReadable`), which is why add_task never meets a text it would
  replace, and that the selected row exists (`SelectedIsRow`).
  `RowsAreTasksTheorem`, `OnlySelectedChangesTheorem`, `BadTextIsKeptTheorem`.
- `Reminders_proofs`: `RmInv` follows each setting of a reminder by its tag: a
  tag in use was set (`Tagged`) and is on one event (`TagsDistinct`); the event
  a screen is about is in the calendar under its id (`WorkIsThere`) or, between
  the removal and the addition of a toggle or an edit, nowhere (`WorkIsAway`);
  what was answered and has not lost its id since is in `acks.json`
  (`AnswerIsKept`). Lemma `IdGivenBack` says when next_id_for_date finds the old
  id again. `EventIdsDistinct`, `NoReminderForgotten`, `AnsweredStayQuiet`; the
  last two name the exceptions the code makes without a fault (section 3).

Only model-checked is liveness under fairness, which is out of the prover's
reach: `EveryRequestSettles` and `RecordingEnds`. Every other property of a run
that passes is stated by a theorem.

## 5. Not modelled

- **Text editor, layout, menus, status bar, display, keyboard**: one sequential
  buffer without files or partners, and drawing.
- **BridgeLog**: five operations that append a line and drop the log when it is
  too long. It is best effort by its own header and nothing reads it back, so
  there is no promise to check (the log is emptied before the line is written:
  listed as a hazard).
- **Read errors**: read_file returns "" for a file that cannot be read as for
  one that is empty, and a move would then remove its source. All modules read
  what is there; the hazard is listed.
- **The directory tree of the SD card**: SdStorage::write_file asks for the
  parent as `join(path, "..")` (sd_storage.cpp:123), whose meaning is the SD
  library's, which is not in the repository. The modules assume what the
  callers ensure, that the parent exists.
- **Clocks that jump**: a device not yet set starts in 1970; nothing in the
  sources sets its clock.
- **Ids the bridge gives out twice, end to end**: `Outbox` has them (a plan
  looks at result directories only); `Pipeline` and `Transcribe` take ids to be
  distinct, so what two plans do to one result directory is not followed
  further than to the rows.
- **Providers and transcription**: text in, text out; `BridgeRun` has their
  two ends, returning and raising. **Paths, validation, entry points**: pure
  helpers. **ics_export, nl_date, the github-issues format**: text from text.
- **BridgeImport's manifest and pattern checks** beyond their verdict, and
  `import()`, which is stage_only followed by accept and has no caller but a
  test.
- **The order and paging of sync, review and project lists**: they only draw.
