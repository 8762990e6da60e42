------------------------------ MODULE Projects ------------------------------
(***************************************************************************)
(* The dispatcher of main.cpp with the screens that choose, make and edit  *)
(* projects, and the ProjectStore and TaskStore under them.                *)
(*                                                                         *)
(* The dispatcher knows the project by two strings: its own current_slug   *)
(* and Ctx::last_created_slug, by which screens and dispatcher pass a      *)
(* project to each other.  The files are the folders of projects/ and the  *)
(* idea.md in each; and a stray tasks.json, which comes to lie in projects/ *)
(* itself when a task is added for no project, and is listed like one.     *)
(*                                                                         *)
(* A slug is a stem and a number, the number 1 standing for none.          *)
(***************************************************************************)
EXTENDS Integers

CONSTANTS Stems,
          MaxNumber,   \* bound: numbers make_unique_slug appends
          Texts,       \* what the user may write as an idea
          Faults,      \* which of "write" and "crash" may happen
          Backends,    \* TRUE: write_file is SdStorage's
          NoSlug,      \* the empty string, as a slug
          TasksFile,   \* "tasks.json", as a name in projects/
          Absent       \* no idea.md

Slugs == [stem : Stems, number : 1..MaxNumber]

ASSUME ProjectsAssumption ==
    /\ MaxNumber \in Nat \ {0}
    /\ Faults \subseteq {"write", "crash"}
    /\ Backends \subseteq BOOLEAN
    /\ NoSlug # TasksFile
    /\ {NoSlug, TasksFile} \cap Slugs = {}
    /\ Absent \notin Texts

\* enum class Route
Routes == {"Home", "Capture", "ProjectList", "ProjectDetail", "TaskList",
           "Calendar", "CalendarEditor", "Sync", "Export", "Review",
           "Record", "Reminder", "Help"}

\* The routes loop() has a case for; any other one is asked again for ever.
Cases == Routes \ {"CalendarEditor", "Reminder", "Help"}

VARIABLES route,    \* next
          in,       \* the screen of the route is open and polls the keyboard
          current,  \* current_slug
          last,     \* Ctx::last_created_slug
          at,       \* the project the open screen works on
          shown,    \* the idea the detail screen shows
          folder,   \* the slugs that have a folder in projects/
          idea,     \* idea.md of each project
          stray,    \* projects/tasks.json exists
          picked,   \* history: the project the user chose or made last
          made,     \* history: the same, when it was made and not chosen
          clean,    \* history: no write has failed, no power cut
          sd        \* the backend

nav == <<route, in, current, last, at, shown>>
files == <<folder, idea, stray>>
history == <<picked, made, clean>>
vars == <<nav, files, history, sd>>

TypeOK ==
    /\ route \in Routes
    /\ in \in BOOLEAN
    /\ current \in Slugs \cup {NoSlug}
    /\ last \in Slugs \cup {NoSlug}
    /\ at \in Slugs \cup {NoSlug, TasksFile}
    /\ shown \in Texts \cup {Absent}
    /\ folder \subseteq Slugs
    /\ idea \in [Slugs -> Texts \cup {Absent}]
    /\ stray \in BOOLEAN
    /\ picked \in Slugs \cup {NoSlug, TasksFile}
    /\ made \in Slugs \cup {NoSlug}
    /\ clean \in BOOLEAN
    /\ sd \in BOOLEAN

Init ==
    /\ route = "Home" /\ in = FALSE
    /\ current = NoSlug /\ last = NoSlug
    /\ at = NoSlug /\ shown = Absent
    /\ folder = {} /\ idea = [s \in Slugs |-> Absent] /\ stray = FALSE
    /\ picked = NoSlug /\ made = NoSlug /\ clean = TRUE
    /\ sd \in Backends

\* loop() is entered again, with a new Ctx: after Esc on the home menu and
\* after a power cut.
Restart ==
    /\ route' = "Home" /\ in' = FALSE
    /\ current' = NoSlug /\ last' = NoSlug
    /\ at' = NoSlug /\ shown' = Absent
    /\ picked' = NoSlug /\ made' = NoSlug

-----------------------------------------------------------------------------
(* The dispatcher.                                                         *)

\* What list_projects finds: every name in projects/, in directory order.
Names == folder \cup (IF stray THEN {TasksFile} ELSE {})

\* The first project of the list, or none.
FirstListed == IF Names = {} THEN {NoSlug} ELSE Names

Idea(s) == IF s \in folder THEN idea[s] ELSE Absent

\* next is returned to the dispatcher.
GoTo(r) ==
    /\ route' = r
    /\ in' = FALSE
    /\ at' = NoSlug
    /\ shown' = Absent

OpenFor(s) ==
    /\ in' = TRUE
    /\ at' = s
    /\ UNCHANGED route

DispatchPlain ==
    /\ ~in
    /\ route \in {"Home", "Capture", "ProjectList", "Calendar", "Sync",
                  "Review"}
    /\ OpenFor(NoSlug)
    /\ UNCHANGED <<current, last, shown, files, history>>

DispatchDetail ==
    /\ ~in
    /\ route = "ProjectDetail"
    /\ current' = IF last # NoSlug THEN last ELSE current
    /\ OpenFor(current')
    /\ shown' = Idea(current')
    /\ UNCHANGED <<last, files, history>>

DispatchTasks ==
    /\ ~in
    /\ route = "TaskList"
    /\ OpenFor(current)
    /\ UNCHANGED <<current, last, shown, files, history>>

\* A bug DispatchExport could have: the sticky slug is not stashed.
ExportNotStashed ==
    /\ ~in
    /\ route = "Export"
    /\ \E s \in (IF last # NoSlug THEN {last} ELSE FirstListed) : OpenFor(s)
    /\ last' = NoSlug
    /\ UNCHANGED <<current, shown, files, history>>

\* last_created_slug := current_slug, which route_export takes and clears.
DispatchExport ==
    /\ ~in
    /\ route = "Export"
    /\ \E s \in (IF current # NoSlug THEN {current} ELSE FirstListed) :
         OpenFor(s)
    /\ last' = NoSlug
    /\ UNCHANGED <<current, shown, files, history>>

\* The same, but route_record leaves the slug where it is.
DispatchRecord ==
    /\ ~in
    /\ route = "Record"
    /\ \E s \in (IF current # NoSlug THEN {current} ELSE FirstListed) :
         OpenFor(s)
    /\ last' = current
    /\ UNCHANGED <<current, shown, files, history>>

\* The switch has no case for the route: the inner loop turns for ever.
Spin ==
    /\ ~in
    /\ route \notin Cases
    /\ UNCHANGED <<nav, files, history>>

Dispatch ==
    \/ DispatchPlain
    \/ DispatchDetail
    \/ DispatchTasks
    \/ DispatchExport
    \/ DispatchRecord
    \/ Spin

-----------------------------------------------------------------------------
(* Home and the screens that only lead back to it.                         *)

\* A bug Menu could have: the reminder alert is put on the menu.
MenuWithReminder == {"Capture", "ProjectList", "TaskList", "Calendar",
                     "Record", "Sync", "Export", "Reminder", "Help"}

\* The menu's entries, 'r', 'p', 'c' and '?'.
Menu == {"Capture", "ProjectList", "TaskList", "Calendar", "Record", "Sync",
         "Export", "Review", "Help"}

HomeKey ==
    /\ in /\ route = "Home"
    /\ \E r \in Menu : GoTo(r)
    /\ UNCHANGED <<current, last, files, history>>

HomeEsc ==
    /\ in /\ route = "Home"
    /\ Restart
    /\ UNCHANGED <<files, clean>>

LeaveToHome ==
    /\ in
    /\ route \in {"Capture", "ProjectList", "TaskList", "Calendar", "Sync",
                  "Export", "Review", "Record"}
    /\ GoTo("Home")
    /\ UNCHANGED <<current, last, files, history>>

-----------------------------------------------------------------------------
(* Capture: make_unique_slug, ensure_dir, write_file.                      *)

\* A bug IsUnique could have: the numbered candidate is not looked up.
IsNumbered(s, base) ==
    \/ s = base /\ base \notin folder
    \/ base \in folder /\ s = [base EXCEPT !.number = 2]

\* make_unique_slug(): the title's own slug, or its stem with the first free
\* number from 2 on.
IsUnique(s, base) ==
    \/ s = base /\ base \notin folder
    \/ /\ base \in folder
       /\ s.stem = base.stem
       /\ s.number >= 2
       /\ s \notin folder
       /\ \A t \in Slugs :
            (t.stem = s.stem /\ t.number \in 2..(s.number - 1))
              => t \in folder

\* A bug Created could have: the error of write_file is not looked at.
CreateErrorIgnored(s, t) ==
    { [ret |-> "ok", folder |-> folder \cup {s}, idea |-> i] :
        i \in {idea, [idea EXCEPT ![s] = t]} }

\* How far create_project gets: to the folder and to idea.md.
Created(s, t) ==
    { [ret |-> "ok", folder |-> folder \cup {s},
       idea |-> [idea EXCEPT ![s] = t]] }
      \cup { [ret |-> r, folder |-> f, idea |-> idea] :
               r \in Faults, f \in {folder, folder \cup {s}} }
      \cup { [ret |-> r, folder |-> folder \cup {s},
              idea |-> [idea EXCEPT ![s] = t]] : r \in Faults \cap {"crash"} }

\* A bug CaptureSave could have: the slug is stashed before it is known that
\* the project could be created.
StashBeforeCreate(base, t) ==
    /\ in /\ route = "Capture"
    /\ \E s \in Slugs : IsUnique(s, base) /\ \E o \in Created(s, t) :
         /\ folder' = o.folder
         /\ idea' = o.idea
         /\ clean' = (clean /\ o.ret = "ok")
         /\ \/ /\ o.ret = "ok"
               /\ GoTo("ProjectDetail")
               /\ last' = s /\ current' = s
               /\ picked' = s /\ made' = s
            \/ /\ o.ret = "write"
               /\ last' = s
               /\ UNCHANGED <<route, in, current, at, shown, picked, made>>
            \/ /\ o.ret = "crash"
               /\ Restart
    /\ UNCHANGED stray

\* On an error the editor opens again with the same text.
CaptureSave(base, t) ==
    /\ in /\ route = "Capture"
    /\ \E s \in Slugs : IsUnique(s, base) /\ \E o \in Created(s, t) :
         /\ folder' = o.folder
         /\ idea' = o.idea
         /\ clean' = (clean /\ o.ret = "ok")
         /\ \/ /\ o.ret = "ok"
               /\ GoTo("ProjectDetail")
               /\ last' = s /\ current' = s
               /\ picked' = s /\ made' = s
            \/ /\ o.ret = "write"
               /\ UNCHANGED <<nav, picked, made>>
            \/ /\ o.ret = "crash"
               /\ Restart
    /\ UNCHANGED stray

-----------------------------------------------------------------------------
(* The project list and the detail screen.                                 *)

ListNew ==
    /\ in /\ route = "ProjectList"
    /\ GoTo("Capture")
    /\ UNCHANGED <<current, last, files, history>>

\* route_project_list drops the slug the list hands it, and the dispatcher
\* takes last_created_slug for it.
ListPick(s) ==
    /\ in /\ route = "ProjectList"
    /\ s \in Names
    /\ GoTo("ProjectDetail")
    /\ current' = last
    /\ picked' = s /\ made' = NoSlug
    /\ UNCHANGED <<last, files, clean>>

DetailKey ==
    /\ in /\ route = "ProjectDetail"
    /\ \E r \in {"ProjectList", "TaskList"} : GoTo(r)
    /\ UNCHANGED <<current, last, files, history>>

\* write_file over an idea that is there (WriteFile).
Rewritten(s, t) ==
    { [ret |-> "ok", body |-> t] }
      \cup { [ret |-> r, body |-> b] : r \in Faults,
               b \in {idea[s]} \cup (IF sd THEN {Absent} ELSE {}) }
      \cup { [ret |-> r, body |-> t] : r \in Faults \cap {"crash"} }

\* A bug EditIdea could have: the screen keeps the text it had read, which
\* is what the next edit starts from.
EditShowsOld(t) ==
    /\ in /\ route = "ProjectDetail"
    /\ at \in folder
    /\ \E o \in Rewritten(at, t) :
         /\ idea' = [idea EXCEPT ![at] = o.body]
         /\ clean' = (clean /\ o.ret = "ok")
         /\ \/ o.ret # "crash" /\ UNCHANGED <<nav, picked, made>>
            \/ o.ret = "crash" /\ Restart
    /\ UNCHANGED <<folder, stray>>

\* The new text is shown whether or not it could be written: the error of
\* write_file is returned by write_idea and looked for in werr, which it does
\* not set.
EditIdea(t) ==
    /\ in /\ route = "ProjectDetail"
    /\ at \in folder
    /\ \E o \in Rewritten(at, t) :
         /\ idea' = [idea EXCEPT ![at] = o.body]
         /\ clean' = (clean /\ o.ret = "ok")
         /\ \/ o.ret # "crash" /\ shown' = t
               /\ UNCHANGED <<route, in, current, last, at, picked, made>>
            \/ o.ret = "crash" /\ Restart
    /\ UNCHANGED <<folder, stray>>

\* write_idea for no project: "project not found".
EditNothing(t) ==
    /\ in /\ route = "ProjectDetail"
    /\ at \notin folder
    /\ shown' = t
    /\ UNCHANGED <<route, in, current, last, at, files, history>>

-----------------------------------------------------------------------------
(* The task list: add_task writes tasks.json into the project's folder     *)
(* (not followed here), and into projects/ when there is no project.       *)

AddTask ==
    /\ in /\ route = "TaskList"
    /\ at = NoSlug
    /\ \/ stray' = TRUE /\ UNCHANGED <<nav, history>>
       \/ /\ "write" \in Faults
          /\ stray' = (stray /\ ~sd)
          /\ clean' = FALSE
          /\ UNCHANGED <<nav, picked, made>>
    /\ UNCHANGED <<folder, idea>>

PowerCut ==
    /\ "crash" \in Faults
    /\ Restart
    /\ clean' = FALSE
    /\ UNCHANGED files

Capture == \E base \in Slugs, t \in Texts : CaptureSave(base, t)

Next ==
    /\ \/ Dispatch
       \/ HomeKey
       \/ HomeEsc
       \/ LeaveToHome
       \/ Capture
       \/ ListNew
       \/ \E s \in Names : ListPick(s)
       \/ DetailKey
       \/ \E t \in Texts : EditIdea(t) \/ EditNothing(t)
       \/ AddTask
       \/ PowerCut
    /\ UNCHANGED sd

Spec == Init /\ [][Next]_vars

-----------------------------------------------------------------------------
\* The project the dispatcher stays on exists: a slug is handed on only once
\* its folder is there (route_capture_impl, loop).
CurrentExists == {current, last} \ {NoSlug} \subseteq folder

\* A saved idea changes only under the screen that shows that very project:
\* no capture ever takes the slug of another project, whatever was left
\* behind by failed ones (make_unique_slug, write_idea).
IdeasKept ==
    [][\A s \in Slugs :
         idea[s] \in Texts /\ idea'[s] # idea[s]
           => in /\ route = "ProjectDetail" /\ at = s]_vars

\* From a capture on, every screen that works on a project works on the one
\* captured, until the user chooses another: through the detail screen,
\* tasks, exports and recordings (loop's sticky current_slug).
StaysOnMade ==
    (in /\ made # NoSlug
        /\ route \in {"ProjectDetail", "TaskList", "Export", "Record"})
      => at = made

\* While no write fails, the text shown, from which the next edit starts, is
\* the text saved (route_project_detail_impl).
ShownIsSaved ==
    (clean /\ in /\ route = "ProjectDetail" /\ at \in folder)
      => shown = idea[at]

\* Only a failed write or a power cut leaves a project without its idea
\* (create_project, capture's retry).
BareOnlyAfterFault == clean => \A s \in folder : idea[s] \in Texts

\* Of the routes without a case in loop(), on which the device hangs, only
\* the help is ever asked for.
OnlyHelpHangs == ~in /\ route \notin Cases => route = "Help"

\* The project picked from the list is the one that opens: the text of
\* route_project_list.
PickedProjectOpens ==
    (in /\ route = "ProjectDetail" /\ picked # NoSlug) => at = picked
=============================================================================
