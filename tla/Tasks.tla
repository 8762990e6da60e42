-------------------------------- MODULE Tasks --------------------------------
(***************************************************************************)
(* tasks.json of one project: TaskStore, which reads the whole file before *)
(* and writes it after every change, and the task list screen, which shows *)
(* a copy it loads when it opens.  While the screen is closed the file may *)
(* be replaced: the review accepts a plan, or somebody edits the card on a *)
(* host and leaves text that is no tasks.json.                             *)
(*                                                                         *)
(* A list of tasks is a function from places to tasks, the places being    *)
(* numbers in the order of the list: a removal leaves a gap, so that a row *)
(* keeps its name when another one goes.                                   *)
(***************************************************************************)
EXTENDS Naturals, FiniteSets

CONSTANTS Ids,        \* "tsk-" and 8 hex digits, or whatever a plan calls a task
          MaxPlace,   \* bound on the places
          MaxPlan,    \* bound on the tasks of a plan
          Bad,        \* texts that load() cannot read as tasks.json
          NoText,     \* the file is readable, or missing
          Faults      \* "write": a write may fail; "crash": power may go

ASSUME TasksAssumption ==
    /\ MaxPlace \in Nat
    /\ MaxPlan \in 0..MaxPlace
    /\ NoText \notin Bad

Places == 1..MaxPlace
Statuses == {"todo", "doing", "done"}
Task == [id : Ids, status : Statuses]
Lists == UNION {[P -> Task] : P \in SUBSET Places}
Empty == [p \in {} |-> 0]

VARIABLES tasks,   \* the tasks in tasks.json; none when it is missing or bad
          bad,     \* the text in tasks.json when it is not readable
          aside,   \* the texts in files tasks.json.bad-<time>
          view,    \* "closed", "list", or "hint" when the load failed
          shown,   \* the rows of the screen
          sel,     \* the place of the selected row, 0 when there is none
          clean,   \* history: since the list was last loaded no removal
                   \* failed and no failing write changed the file, and no
                   \* two tasks shared an id then
          sd       \* the backend is SdStorage: a write that fails, or in
                   \* which the power goes, may leave no file; never changes

file == <<tasks, bad, aside>>
screen == <<view, shown, sel, clean>>
vars == <<tasks, bad, aside, view, shown, sel, clean, sd>>

\* Removing rows, and the places between which the selection moves.
Without(list, S) == [p \in DOMAIN list \ S |-> list[p]]
WithId(list, id) == {p \in DOMAIN list : list[p].id = id}
DistinctIds(list) ==
    \A p, q \in DOMAIN list : list[p].id = list[q].id => p = q

\* The first and the last of some places, as a set of one or none; the row
\* to select, 0 when there is no row.
First(S) == {p \in S : \A q \in S : p <= q}
Last(S) == {p \in S : \A q \in S : q <= p}
OrNone(rows, S) == IF DOMAIN rows = {} THEN {0} ELSE S
FirstRow(rows) == OrNone(rows, First(DOMAIN rows))
LastRow(rows) == OrNone(rows, Last(DOMAIN rows))

NextStatus(s) ==
    CASE s = "todo" -> "doing" [] s = "doing" -> "done" [] s = "done" -> "todo"

TypeOK ==
    /\ tasks \in Lists
    /\ bad \in Bad \cup {NoText}
    /\ aside \subseteq Bad
    /\ view \in {"closed", "list", "hint"}
    /\ shown \in Lists
    /\ sel \in 0..MaxPlace
    /\ clean \in BOOLEAN
    /\ sd \in BOOLEAN

Init ==
    /\ tasks = Empty
    /\ bad = NoText
    /\ aside = {}
    /\ view = "closed"
    /\ shown = Empty
    /\ sel = 0
    /\ clean = FALSE
    /\ sd \in BOOLEAN

(***************************************************************************)
(* TaskStore                                                               *)
(***************************************************************************)

\* What save(new) may leave: the new file; after an error the old one, or
\* none where SdStorage had removed it already.  WriteFile shows that no
\* other file is possible, power cuts included.
Lost == IF sd THEN {Empty} ELSE {}
Saved(new) ==
    {[tasks |-> new, ok |-> TRUE]}
      \cup IF "write" \in Faults
           THEN {[tasks |-> f, ok |-> FALSE] : f \in {tasks} \cup Lost}
           ELSE {}

Torn(new) == {tasks, new} \cup Lost

\* A bug MovedAside could have: the original is truncated although the copy
\* could not be written.
MovedUnchecked(t) ==
    {[bad |-> NoText, aside |-> aside \cup {t}]}
      \cup IF "write" \in Faults
           THEN {[bad |-> NoText, aside |-> aside]}
           ELSE {}

\* move_bad_file_aside: a copy, and only then the original is truncated; the
\* SD backend may remove the original and fail.
MovedAside(t) ==
    {[bad |-> NoText, aside |-> aside \cup {t}]}
      \cup IF "write" \in Faults
           THEN {[bad |-> t, aside |-> aside],
                 [bad |-> t, aside |-> aside \cup {t}]}
           ELSE {}

\* load() as add_task, set_status and delete_task call it: a text that is not
\* readable counts as an empty list, even if it could not be moved aside.
LoadedAside ==
    IF bad = NoText THEN {[bad |-> NoText, aside |-> aside]} ELSE MovedAside(bad)

(***************************************************************************)
(* The screen                                                              *)
(***************************************************************************)

OpenList ==
    /\ view = "closed"
    /\ bad = NoText
    /\ view' = "list"
    /\ shown' = tasks
    /\ sel' \in FirstRow(tasks)
    /\ clean' = DistinctIds(tasks)
    /\ UNCHANGED file

OpenHint ==
    /\ view = "closed"
    /\ bad # NoText
    /\ \E m \in MovedAside(bad) : bad' = m.bad /\ aside' = m.aside
    /\ view' = "hint"
    /\ shown' = Empty
    /\ sel' = 0
    /\ clean' = FALSE
    /\ UNCHANGED tasks

\* Esc, or home.
Close ==
    /\ view # "closed"
    /\ view' = "closed"
    /\ shown' = Empty
    /\ sel' = 0
    /\ clean' = FALSE
    /\ UNCHANGED file

Down ==
    /\ view = "list"
    /\ \E p \in DOMAIN shown :
         /\ p > sel
         /\ \A q \in DOMAIN shown : q > sel => p <= q
         /\ sel' = p
    /\ UNCHANGED <<file, view, shown, clean>>

Up ==
    /\ view = "list"
    /\ \E p \in DOMAIN shown :
         /\ p < sel
         /\ \A q \in DOMAIN shown : q < sel => q <= p
         /\ sel' = p
    /\ UNCHANGED <<file, view, shown, clean>>

\* The selection stays at its position in the list: the next row, or the last.
SelAfter(rows) ==
    LET below == {q \in DOMAIN rows : q > sel}
    IN IF below # {} THEN First(below) ELSE LastRow(rows)

\* A bug Delete could have: the file is changed by the number of the row.
Before(list, p) == Cardinality({q \in DOMAIN list : q < p})

DeleteByNumber ==
    /\ view = "list" /\ sel # 0
    /\ LET S == {p \in DOMAIN tasks : Before(tasks, p) = Before(shown, sel)} IN
       \E s \in Saved(Without(tasks, S)) :
         /\ tasks' = s.tasks
         /\ clean' = (clean /\ s.ok)
    /\ shown' = Without(shown, {sel})
    /\ sel' \in SelAfter(shown')
    /\ UNCHANGED <<bad, aside, view>>

\* Backspace.  delete_task removes every task with the id of the row; the row
\* goes whatever delete_task returned.
Delete ==
    /\ view = "list" /\ sel # 0
    /\ LET S == WithId(tasks, shown[sel].id) IN
       IF S = {}
       THEN UNCHANGED <<tasks, clean>>
       ELSE \E s \in Saved(Without(tasks, S)) :
              /\ tasks' = s.tasks
              /\ clean' = (clean /\ s.ok)
    /\ shown' = Without(shown, {sel})
    /\ sel' \in SelAfter(shown')
    /\ UNCHANGED <<bad, aside, view>>

WithStatus(p, s) == [tasks EXCEPT ![p].status = s]

\* A bug Toggle could have: the row changes before set_status has answered.
ToggleEarly ==
    /\ view = "list" /\ sel # 0
    /\ shown' = [shown EXCEPT ![sel].status = NextStatus(@)]
    /\ LET S == WithId(tasks, shown[sel].id) IN
       IF S = {}
       THEN UNCHANGED <<tasks, clean>>
       ELSE \E f \in First(S) :
            \E s \in Saved(WithStatus(f, NextStatus(shown[sel].status))) :
              /\ tasks' = s.tasks
              /\ clean' = (clean /\ (s.ok \/ tasks' = tasks))
    /\ UNCHANGED <<bad, aside, view, sel>>

\* Space.  set_status changes the first task with the id of the row; the row
\* changes only if the file did.
Toggle ==
    /\ view = "list" /\ sel # 0
    /\ LET S == WithId(tasks, shown[sel].id)
           next == NextStatus(shown[sel].status)
       IN IF S = {}
          THEN UNCHANGED <<tasks, shown, clean>>
          ELSE \E f \in First(S) : \E s \in Saved(WithStatus(f, next)) :
                 /\ tasks' = s.tasks
                 /\ shown' = IF s.ok THEN [shown EXCEPT ![sel].status = next]
                             ELSE shown
                 /\ clean' = (clean /\ (s.ok \/ tasks' = tasks))
    /\ UNCHANGED <<bad, aside, view, sel>>

\* 'n' and a title: add_task, then the list is loaded again and the new row is
\* selected.  Two ids of new_task_id are taken to differ.
WithNew(p, id) == [q \in DOMAIN tasks \cup {p} |->
                     IF q = p THEN [id |-> id, status |-> "todo"] ELSE tasks[q]]

IsNew(p, id) ==
    /\ \A q \in DOMAIN tasks : q < p
    /\ WithId(tasks, id) \cup WithId(shown, id) = {}

Add ==
    /\ view = "list"
    /\ \E m \in LoadedAside : aside' = m.aside
    /\ \E p \in Places, id \in Ids : IsNew(p, id) /\ \E s \in Saved(WithNew(p, id)) :
         /\ tasks' = s.tasks
         /\ bad' = IF s.ok THEN NoText ELSE bad
         /\ IF s.ok
            THEN shown' = tasks' /\ sel' \in LastRow(tasks')
            ELSE UNCHANGED <<shown, sel>>
         /\ clean' = IF s.ok THEN DistinctIds(tasks')
                     ELSE clean /\ tasks' = tasks
    /\ UNCHANGED view

\* The power goes, in the middle of a key's write or between two keys.
PowerCut ==
    /\ "crash" \in Faults
    /\ view # "closed"
    /\ \/ UNCHANGED file
       \/ /\ view = "list" /\ sel # 0
          /\ LET S == WithId(tasks, shown[sel].id) IN
             /\ S # {}
             /\ \/ tasks' \in Torn(Without(tasks, S))
                \/ \E f \in First(S) :
                     tasks' \in Torn(WithStatus(f, NextStatus(shown[sel].status)))
          /\ UNCHANGED <<bad, aside>>
       \/ /\ view = "list"
          /\ \E p \in Places, id \in Ids :
               IsNew(p, id) /\ tasks' \in Torn(WithNew(p, id))
          /\ UNCHANGED <<bad, aside>>
    /\ view' = "closed"
    /\ shown' = Empty
    /\ sel' = 0
    /\ clean' = FALSE

(***************************************************************************)
(* Others, while the screen is closed                                      *)
(***************************************************************************)

\* The review accepts a plan with a tasks.json.  Its schema asks for an id in
\* every task, not for distinct ones.
AcceptPlan ==
    /\ view = "closed"
    /\ \E n \in 0..MaxPlan, f \in [1..MaxPlan -> Ids] :
         tasks' = [p \in 1..n |-> [id |-> f[p], status |-> "todo"]]
    /\ bad' = NoText
    /\ UNCHANGED <<aside, screen>>

\* The card in a computer: an edit by hand that is not readable any more.
HandEdit ==
    /\ view = "closed"
    /\ tasks' = Empty
    /\ bad' \in Bad
    /\ UNCHANGED <<aside, screen>>

Next ==
    /\ \/ OpenList \/ OpenHint \/ Close
       \/ Down \/ Up \/ Delete \/ Toggle \/ Add
       \/ PowerCut \/ AcceptPlan \/ HandEdit
    /\ UNCHANGED sd

Spec == Init /\ [][Next]_vars

-----------------------------------------------------------------------------
(***************************************************************************)
(* The rows on the screen are the tasks in the file, in their order and    *)
(* with their status, although the screen only reloads after an addition   *)
(* and changes its own copy beside the file otherwise: a status or an      *)
(* addition whose write fails leaves both as they were.  Three things part *)
(* them: a removal that fails (the row goes all the same), a failing write *)
(* on SD that takes the file along, and a plan that names two tasks alike. *)
(***************************************************************************)
RowsAreTasks == view = "list" /\ clean => shown = tasks /\ DistinctIds(tasks)

(***************************************************************************)
(* A key on the list, even on one that has grown stale, changes no task    *)
(* but those that bear the id of the selected row.  On a backend that      *)
(* renames over the old file there is no exception, not even the loss of   *)
(* every task; on SD other tasks may go, but only with the whole file.     *)
(***************************************************************************)
OnlySelectedChanges ==
    [][view = "list" /\ (sd => tasks' # Empty) =>
         \A p \in DOMAIN tasks :
           sel = 0 \/ tasks[p].id # shown[sel].id =>
             p \in DOMAIN tasks' /\ tasks'[p] = tasks[p]]_vars

(***************************************************************************)
(* A text that is not readable leaves tasks.json by the device's own doing *)
(* only when a copy of it lies beside the file, whatever fails             *)
(* (task_store.h: "the bad file is moved aside").  add_task would replace  *)
(* it without a copy; the screen never lets it come to that.               *)
(***************************************************************************)
BadTextIsKept ==
    [][bad # NoText /\ bad' = NoText => bad \in aside' \/ AcceptPlan]_vars
=============================================================================
