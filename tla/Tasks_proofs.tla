----------------------------- MODULE Tasks_proofs -----------------------------
(***************************************************************************)
(* Proofs about Tasks, for any ids, any length of the list and any faults: *)
(* the rows of the screen are the tasks in the file, a key changes no      *)
(* other task, and a text that is no tasks.json is never lost.             *)
(***************************************************************************)
EXTENDS Tasks, TLAPS

\* The list only opens on a file that could be read, so that no key meets a
\* bad one.
ListIsReadable == view = "list" => bad = NoText

SelectedIsRow == sel # 0 => sel \in DOMAIN shown

Inv == /\ TypeOK
       /\ ListIsReadable
       /\ SelectedIsRow
       /\ RowsAreTasks

-----------------------------------------------------------------------------
(* Lists of tasks.                                                         *)

LEMMA ListForm ==
  ASSUME NEW L
  PROVE  L \in Lists <=> /\ DOMAIN L \subseteq Places
                         /\ L \in [DOMAIN L -> Task]
<1>1. ASSUME L \in Lists
      PROVE  DOMAIN L \subseteq Places /\ L \in [DOMAIN L -> Task]
  BY <1>1 DEF Lists
<1>2. ASSUME DOMAIN L \subseteq Places, L \in [DOMAIN L -> Task]
      PROVE  L \in Lists
  BY <1>2 DEF Lists
<1> QED
  BY <1>1, <1>2

LEMMA EmptyList == Empty \in Lists /\ DOMAIN Empty = {} /\ DistinctIds(Empty)
<1>1. DOMAIN Empty = {} /\ Empty \in [DOMAIN Empty -> Task]
  BY DEF Empty
<1> QED
  BY <1>1, ListForm DEF DistinctIds

LEMMA NoRow == 0 \in 0..MaxPlace
BY TasksAssumption

LEMMA WithoutList ==
  ASSUME NEW L \in Lists, NEW S
  PROVE  /\ Without(L, S) \in Lists
         /\ DOMAIN Without(L, S) = DOMAIN L \ S
         /\ \A p \in DOMAIN L \ S : Without(L, S)[p] = L[p]
         /\ DistinctIds(L) => DistinctIds(Without(L, S))
<1>1. /\ DOMAIN Without(L, S) = DOMAIN L \ S
      /\ \A p \in DOMAIN L \ S : Without(L, S)[p] = L[p]
  BY DEF Without
<1>2. DOMAIN L \subseteq Places /\ L \in [DOMAIN L -> Task]
  BY ListForm
<1>3. Without(L, S) \in [DOMAIN L \ S -> Task]
  BY <1>2 DEF Without
<1>4. Without(L, S) \in Lists
  BY <1>1, <1>2, <1>3, ListForm
<1>5. DistinctIds(L) => DistinctIds(Without(L, S))
  BY <1>1 DEF DistinctIds
<1> QED
  BY <1>1, <1>4, <1>5

LEMMA NewStatusList ==
  ASSUME NEW L \in Lists, NEW f \in DOMAIN L, NEW s \in Statuses
  PROVE  LET M == [L EXCEPT ![f].status = s] IN
         /\ M \in Lists
         /\ DOMAIN M = DOMAIN L
         /\ \A p \in DOMAIN L : p # f => M[p] = L[p]
         /\ \A p \in DOMAIN L : M[p].id = L[p].id
         /\ DistinctIds(L) => DistinctIds(M)
<1> DEFINE M == [L EXCEPT ![f].status = s]
<1>1. DOMAIN L \subseteq Places /\ L \in [DOMAIN L -> Task]
  BY ListForm
<1>2. DOMAIN M = DOMAIN L /\ \A p \in DOMAIN L : p # f => M[p] = L[p]
  OBVIOUS
<1>3. M[f] = [L[f] EXCEPT !.status = s]
  OBVIOUS
<1>4. L[f] \in Task
  BY <1>1
<1>5. M[f] \in Task /\ M[f].id = L[f].id
  BY <1>3, <1>4 DEF Task
<1>6. M \in [DOMAIN L -> Task]
  BY <1>1, <1>2, <1>5
<1>7. M \in Lists
  BY <1>1, <1>2, <1>6, ListForm
<1>8. \A p \in DOMAIN L : M[p].id = L[p].id
  BY <1>2, <1>5
<1>9. DistinctIds(L) => DistinctIds(M)
  BY <1>2, <1>8 DEF DistinctIds
<1> HIDE DEF M
<1>10. /\ M \in Lists
       /\ DOMAIN M = DOMAIN L
       /\ \A p \in DOMAIN L : p # f => M[p] = L[p]
       /\ \A p \in DOMAIN L : M[p].id = L[p].id
       /\ DistinctIds(L) => DistinctIds(M)
  BY <1>2, <1>7, <1>8, <1>9
<1> QED
  BY <1>10 DEF M

LEMMA AddedList ==
  ASSUME tasks \in Lists, NEW p \in Places, NEW id \in Ids, IsNew(p, id)
  PROVE  LET new == WithNew(p, id) IN
         /\ new \in Lists
         /\ DOMAIN tasks \subseteq DOMAIN new
         /\ \A q \in DOMAIN tasks : new[q] = tasks[q]
<1> DEFINE new == WithNew(p, id)
<1>1. DOMAIN tasks \subseteq Places /\ tasks \in [DOMAIN tasks -> Task]
  BY ListForm
<1>2. DOMAIN new = DOMAIN tasks \cup {p}
  BY DEF WithNew
<1>3. [id |-> id, status |-> "todo"] \in Task
  BY DEF Task, Statuses
<1>4. new \in [DOMAIN tasks \cup {p} -> Task]
  BY <1>1, <1>3 DEF WithNew
<1>5. new \in Lists
  <2> HIDE DEF new
  <2> QED
    BY <1>1, <1>2, <1>4, ListForm
<1>6. p \notin DOMAIN tasks
  BY <1>1 DEF Places, IsNew
<1>7. \A q \in DOMAIN tasks : new[q] = tasks[q]
  BY <1>6 DEF WithNew
<1> QED
  BY <1>2, <1>5, <1>7

\* What the selection can be.
LEMMA RowSelected ==
  ASSUME NEW L \in Lists, NEW n,
         n \in FirstRow(L) \/ n \in LastRow(L) \/ n \in SelAfter(L)
  PROVE  n \in 0..MaxPlace /\ (n # 0 => n \in DOMAIN L)
<1>1. DOMAIN L \subseteq Places
  BY ListForm
<1>2. n = 0 \/ n \in DOMAIN L
  BY DEF FirstRow, LastRow, SelAfter, OrNone, First, Last
<1> QED
  BY <1>1, <1>2, TasksAssumption DEF Places

LEMMA NextStatusType ==
  ASSUME NEW s \in Statuses PROVE NextStatus(s) \in Statuses
BY DEF Statuses, NextStatus

\* The row that a key works on, and what the key may do to the file.
LEMMA SelectedTask ==
  ASSUME Inv, sel # 0
  PROVE  /\ sel \in DOMAIN shown
         /\ shown[sel] \in Task
         /\ NextStatus(shown[sel].status) \in Statuses
<1>1. shown \in [DOMAIN shown -> Task]
  BY ListForm DEF Inv, TypeOK
<1>2. sel \in DOMAIN shown
  BY DEF Inv, SelectedIsRow
<1> QED
  BY <1>1, <1>2, NextStatusType DEF Task

LEMMA SavedForm ==
  ASSUME NEW new, NEW s \in Saved(new)
  PROVE  /\ s.ok \in BOOLEAN
         /\ s.ok => s.tasks = new
         /\ s.tasks \in {new, tasks, Empty}
         /\ ~sd => s.tasks \in {new, tasks}
<1>1. /\ s \in {[tasks |-> new, ok |-> TRUE], [tasks |-> tasks, ok |-> FALSE],
                [tasks |-> Empty, ok |-> FALSE]}
      /\ ~sd => s \in {[tasks |-> new, ok |-> TRUE],
                       [tasks |-> tasks, ok |-> FALSE]}
  BY DEF Saved, Lost
<1>2. CASE s = [tasks |-> new, ok |-> TRUE]
  BY <1>2
<1>3. CASE s = [tasks |-> tasks, ok |-> FALSE]
  BY <1>3
<1>4. CASE sd /\ s = [tasks |-> Empty, ok |-> FALSE]
  BY <1>4
<1> QED
  BY <1>1, <1>2, <1>3, <1>4

LEMMA TornForm ==
  ASSUME NEW new, NEW t \in Torn(new)
  PROVE  t \in {new, tasks, Empty} /\ (~sd => t \in {new, tasks})
BY DEF Torn, Lost

LEMMA MovedForm ==
  ASSUME NEW t, NEW m \in MovedAside(t)
  PROVE  /\ m.bad \in {NoText, t}
         /\ m.aside \in {aside, aside \cup {t}}
         /\ m.bad = NoText => m.aside = aside \cup {t} \/ t = NoText
BY DEF MovedAside

-----------------------------------------------------------------------------
(* Each action keeps the invariant.                                        *)

LEMMA DeleteInv == Inv /\ Delete /\ UNCHANGED sd => Inv'
<1> SUFFICES ASSUME Inv, Delete, UNCHANGED sd PROVE Inv'
  OBVIOUS
<1> DEFINE S == WithId(tasks, shown[sel].id)
<1>0. tasks \in Lists /\ shown \in Lists
  BY DEF Inv, TypeOK
<1>1. /\ view = "list" /\ view' = "list" /\ sel # 0
      /\ bad' = bad /\ aside' = aside
      /\ shown' = Without(shown, {sel})
      /\ sel' \in SelAfter(shown')
      /\ \/ S = {} /\ tasks' = tasks /\ clean' = clean
         \/ \E s \in Saved(Without(tasks, S)) :
              tasks' = s.tasks /\ clean' = (clean /\ s.ok)
  BY DEF Delete
<1>2. shown' \in Lists /\ tasks' \in Lists /\ clean' \in BOOLEAN
  <2>1. shown' \in Lists
    BY <1>0, <1>1, WithoutList
  <2>2. tasks' \in Lists
    <3>1. Without(tasks, S) \in Lists
      BY <1>0, WithoutList
    <3>2. tasks' \in {Without(tasks, S), tasks, Empty}
      BY <1>1, SavedForm
    <3> QED
      BY <1>0, <3>1, <3>2, EmptyList
  <2>3. clean' \in BOOLEAN
    BY <1>1, SavedForm DEF Inv, TypeOK
  <2> QED
    BY <2>1, <2>2, <2>3
<1>3. sel' \in 0..MaxPlace /\ (sel' # 0 => sel' \in DOMAIN shown')
  <2> DEFINE L == shown'
  <2>1. \/ L \in Lists /\ sel' \in FirstRow(L)
        \/ sel' \in LastRow(L)
        \/ sel' \in SelAfter(L)
    BY <1>1, <1>2
  <2>2. L \in Lists
    BY <1>2
  <2>3. \/ sel' = 0
        \/ sel' \in DOMAIN L
    BY <1>1 DEF SelAfter, LastRow, OrNone, First, Last
  <2>4. DOMAIN L \subseteq Places
    BY <2>2, ListForm
  <2> QED
    BY <2>3, <2>4, TasksAssumption DEF Places
<1>4. ASSUME clean' PROVE shown' = tasks' /\ DistinctIds(tasks')
  <2>1. clean /\ shown = tasks /\ DistinctIds(tasks)
    BY <1>1, <1>4, SavedForm DEF Inv, RowsAreTasks, TypeOK
  <2>2. sel \in DOMAIN tasks
    BY <1>1, <2>1, SelectedTask
  <2>3. S = {sel}
    BY <2>1, <2>2 DEF WithId, DistinctIds
  <2>4. tasks' = Without(tasks, {sel})
    BY <1>1, <1>4, <2>3, SavedForm
  <2> QED
    BY <1>0, <1>1, <2>1, <2>4, WithoutList
<1>5. TypeOK'
  BY <1>1, <1>2, <1>3 DEF Inv, TypeOK
<1> QED
  BY <1>1, <1>3, <1>4, <1>5 DEF Inv, ListIsReadable, SelectedIsRow, RowsAreTasks

LEMMA ToggleInv == Inv /\ Toggle /\ UNCHANGED sd => Inv'
<1> SUFFICES ASSUME Inv, Toggle, UNCHANGED sd PROVE Inv'
  OBVIOUS
<1> DEFINE S == WithId(tasks, shown[sel].id)
           next == NextStatus(shown[sel].status)
<1>0. tasks \in Lists /\ shown \in Lists
  BY DEF Inv, TypeOK
<1>1. /\ view = "list" /\ view' = "list" /\ sel # 0
      /\ bad' = bad /\ aside' = aside /\ sel' = sel
  BY DEF Toggle
<1>2. sel \in DOMAIN shown /\ next \in Statuses
  BY <1>1, SelectedTask
<1>3. CASE S = {} /\ UNCHANGED <<tasks, shown, clean>>
  BY <1>1, <1>3 DEF Inv, TypeOK, ListIsReadable, SelectedIsRow, RowsAreTasks
<1>4. CASE \E f \in First(S) : \E s \in Saved(WithStatus(f, next)) :
             /\ tasks' = s.tasks
             /\ shown' = IF s.ok THEN [shown EXCEPT ![sel].status = next]
                         ELSE shown
             /\ clean' = (clean /\ (s.ok \/ tasks' = tasks))
  <2>0. PICK f \in First(S) : \E s \in Saved(WithStatus(f, next)) :
             /\ tasks' = s.tasks
             /\ shown' = IF s.ok THEN [shown EXCEPT ![sel].status = next]
                         ELSE shown
             /\ clean' = (clean /\ (s.ok \/ tasks' = tasks))
    BY <1>4
  <2>1. PICK s \in Saved(WithStatus(f, next)) :
             /\ tasks' = s.tasks
             /\ shown' = IF s.ok THEN [shown EXCEPT ![sel].status = next]
                         ELSE shown
             /\ clean' = (clean /\ (s.ok \/ tasks' = tasks))
    BY <2>0
  <2>2. f \in DOMAIN tasks /\ tasks[f].id = shown[sel].id
    BY DEF First, WithId
  <2>3. WithStatus(f, next) \in Lists
    BY <1>0, <1>2, <2>2, NewStatusList DEF WithStatus
  <2>4. tasks' \in Lists /\ clean' \in BOOLEAN
    BY <1>0, <2>1, <2>3, EmptyList, SavedForm DEF Inv, TypeOK
  <2>5. shown' \in Lists /\ DOMAIN shown' = DOMAIN shown
    BY <1>0, <1>2, <2>1, NewStatusList
  <2>6. ASSUME clean' PROVE shown' = tasks' /\ DistinctIds(tasks')
    <3>1. clean /\ (s.ok \/ tasks' = tasks) /\ shown = tasks /\ DistinctIds(tasks)
      BY <1>1, <2>1, <2>6 DEF Inv, RowsAreTasks
    <3>2. CASE s.ok
      <4>1. f = sel
        BY <1>2, <2>2, <3>1 DEF DistinctIds
      <4>2. tasks' = WithStatus(sel, next) /\ shown' = WithStatus(sel, next)
        BY <2>1, <3>1, <3>2, <4>1, SavedForm DEF WithStatus
      <4>3. DistinctIds(WithStatus(sel, next))
        BY <1>0, <1>2, <3>1, NewStatusList DEF WithStatus
      <4> QED
        BY <4>2, <4>3
    <3>3. CASE ~s.ok
      BY <2>1, <3>1, <3>3
    <3> QED
      BY <3>2, <3>3
  <2>7. TypeOK'
    BY <1>1, <2>4, <2>5 DEF Inv, TypeOK
  <2> QED
    BY <1>1, <1>2, <2>5, <2>6, <2>7
    DEF Inv, ListIsReadable, SelectedIsRow, RowsAreTasks
<1> QED
  BY <1>3, <1>4 DEF Toggle

LEMMA AddInv == Inv /\ Add /\ UNCHANGED sd => Inv'
<1> SUFFICES ASSUME Inv, Add, UNCHANGED sd PROVE Inv'
  OBVIOUS
<1>0. tasks \in Lists /\ shown \in Lists /\ bad = NoText
  BY DEF Inv, TypeOK, Add, ListIsReadable
<1>1. view = "list" /\ view' = "list" /\ aside' = aside
  BY <1>0 DEF Add, LoadedAside
<1>a. PICK p \in Places, id \in Ids :
        IsNew(p, id) /\ \E s \in Saved(WithNew(p, id)) :
        /\ tasks' = s.tasks
        /\ bad' = IF s.ok THEN NoText ELSE bad
        /\ IF s.ok THEN shown' = tasks' /\ sel' \in LastRow(tasks')
                   ELSE UNCHANGED <<shown, sel>>
        /\ clean' = IF s.ok THEN DistinctIds(tasks')
                    ELSE clean /\ tasks' = tasks
  BY DEF Add
<1>2. PICK s \in Saved(WithNew(p, id)) :
        /\ tasks' = s.tasks
        /\ bad' = IF s.ok THEN NoText ELSE bad
        /\ IF s.ok THEN shown' = tasks' /\ sel' \in LastRow(tasks')
                   ELSE UNCHANGED <<shown, sel>>
        /\ clean' = IF s.ok THEN DistinctIds(tasks')
                    ELSE clean /\ tasks' = tasks
  BY <1>a
<1>3. tasks' \in Lists /\ shown' \in Lists /\ bad' = NoText /\ clean' \in BOOLEAN
  <2>1. tasks' \in Lists
    BY <1>0, <1>a, <1>2, AddedList, EmptyList, SavedForm
  <2>2. clean' \in BOOLEAN
    BY <1>2, SavedForm DEF DistinctIds, Inv, TypeOK
  <2> QED
    BY <1>0, <1>2, <2>1, <2>2
<1>4. sel' \in 0..MaxPlace /\ (sel' # 0 => sel' \in DOMAIN shown')
  <2>1. CASE s.ok
    <3>1. DOMAIN tasks' \subseteq Places
      BY <1>3, ListForm
    <3>2. sel' = 0 \/ sel' \in DOMAIN tasks'
      BY <1>2, <2>1 DEF LastRow, OrNone, Last
    <3> QED
      BY <1>2, <2>1, <3>1, <3>2, TasksAssumption DEF Places
  <2>2. CASE ~s.ok
    BY <1>2, <2>2 DEF Inv, TypeOK, SelectedIsRow
  <2> QED
    BY <2>1, <2>2
<1>5. TypeOK'
  BY <1>1, <1>3, <1>4 DEF Inv, TypeOK
<1> QED
  BY <1>1, <1>2, <1>3, <1>4, <1>5
  DEF Inv, ListIsReadable, SelectedIsRow, RowsAreTasks

LEMMA OpenInv == Inv /\ (OpenList \/ OpenHint \/ Close) /\ UNCHANGED sd => Inv'
<1> SUFFICES ASSUME Inv, OpenList \/ OpenHint \/ Close, UNCHANGED sd PROVE Inv'
  OBVIOUS
<1>0. tasks \in Lists
  BY DEF Inv, TypeOK
<1>1. CASE OpenList
  <2>1. sel' \in 0..MaxPlace /\ (sel' # 0 => sel' \in DOMAIN shown')
    BY <1>0, <1>1, RowSelected DEF OpenList
  <2>2. clean' \in BOOLEAN
    BY <1>1 DEF OpenList, DistinctIds
  <2>3. TypeOK'
    BY <1>1, <2>1, <2>2 DEF Inv, TypeOK, OpenList, file
  <2> QED
    BY <1>1, <2>1, <2>3
    DEF Inv, ListIsReadable, SelectedIsRow, RowsAreTasks, OpenList, file
<1>2. CASE OpenHint
  <2>1. bad' \in Bad \cup {NoText} /\ aside' \subseteq Bad
    BY <1>2, MovedForm DEF Inv, TypeOK, OpenHint
  <2>2. TypeOK'
    BY <1>2, <2>1, EmptyList, NoRow DEF Inv, TypeOK, OpenHint
  <2> QED
    BY <1>2, <2>2
    DEF Inv, ListIsReadable, SelectedIsRow, RowsAreTasks, OpenHint
<1>3. CASE Close
  BY <1>3, EmptyList, NoRow
  DEF Inv, TypeOK, ListIsReadable, SelectedIsRow, RowsAreTasks, Close, file
<1> QED
  BY <1>1, <1>2, <1>3

LEMMA MoveInv == Inv /\ (Down \/ Up) /\ UNCHANGED sd => Inv'
<1> SUFFICES ASSUME Inv, Down \/ Up, UNCHANGED sd PROVE Inv'
  OBVIOUS
<1>1. /\ sel' \in DOMAIN shown
      /\ UNCHANGED <<tasks, bad, aside, view, shown, clean>>
  BY DEF Down, Up, file
<1>2. DOMAIN shown \subseteq Places
  BY ListForm DEF Inv, TypeOK
<1>3. TypeOK'
  BY <1>1, <1>2, TasksAssumption DEF Inv, TypeOK, Places
<1> QED
  BY <1>1, <1>3 DEF Inv, ListIsReadable, SelectedIsRow, RowsAreTasks

LEMMA PowerCutInv == Inv /\ PowerCut /\ UNCHANGED sd => Inv'
<1> SUFFICES ASSUME Inv, PowerCut, UNCHANGED sd PROVE Inv'
  OBVIOUS
<1>0. tasks \in Lists /\ shown \in Lists
  BY DEF Inv, TypeOK
<1>1. /\ view' = "closed" /\ shown' = Empty /\ sel' = 0 /\ clean' = FALSE
      /\ bad' = bad /\ aside' = aside
  BY DEF PowerCut, file
<1>2. tasks' \in Lists
  <2>1. CASE tasks' = tasks
    BY <1>0, <2>1
  <2>2. CASE sel # 0 /\ tasks' \in Torn(Without(tasks, WithId(tasks, shown[sel].id)))
    <3>1. \A S : Without(tasks, S) \in Lists
      BY <1>0, WithoutList
    <3> QED
      BY <1>0, <2>2, <3>1, EmptyList, TornForm
  <2>3. CASE sel # 0 /\ \E f \in First(WithId(tasks, shown[sel].id)) :
               tasks' \in Torn(WithStatus(f, NextStatus(shown[sel].status)))
    <3>1. PICK f \in First(WithId(tasks, shown[sel].id)) :
               tasks' \in Torn(WithStatus(f, NextStatus(shown[sel].status)))
      BY <2>3
    <3>2. f \in DOMAIN tasks
      BY DEF First, WithId
    <3>3. WithStatus(f, NextStatus(shown[sel].status)) \in Lists
      BY <1>0, <2>3, <3>2, SelectedTask, NewStatusList DEF WithStatus
    <3> QED
      BY <1>0, <3>1, <3>3, EmptyList, TornForm
  <2>4. CASE \E p \in Places, id \in Ids :
               IsNew(p, id) /\ tasks' \in Torn(WithNew(p, id))
    BY <1>0, <2>4, AddedList, EmptyList, TornForm
  <2> QED
    BY <2>1, <2>2, <2>3, <2>4 DEF PowerCut, file
<1>3. TypeOK'
  BY <1>1, <1>2, EmptyList, NoRow DEF Inv, TypeOK
<1> QED
  BY <1>1, <1>3 DEF Inv, ListIsReadable, SelectedIsRow, RowsAreTasks

LEMMA OutsideInv == Inv /\ (AcceptPlan \/ HandEdit) /\ UNCHANGED sd => Inv'
<1> SUFFICES ASSUME Inv, AcceptPlan \/ HandEdit, UNCHANGED sd PROVE Inv'
  OBVIOUS
<1>1. /\ view = "closed" /\ bad' \in Bad \cup {NoText}
      /\ UNCHANGED <<aside, view, shown, sel, clean>>
  BY DEF AcceptPlan, HandEdit, screen
<1>2. CASE HandEdit
  BY <1>1, <1>2, EmptyList
  DEF Inv, TypeOK, ListIsReadable, SelectedIsRow, RowsAreTasks, HandEdit
<1>3. CASE AcceptPlan
  <2>1. PICK n \in 0..MaxPlan, f \in [1..MaxPlan -> Ids] :
          tasks' = [p \in 1..n |-> [id |-> f[p], status |-> "todo"]]
    BY <1>3 DEF AcceptPlan
  <2>2. DOMAIN tasks' = 1..n /\ 1..n \subseteq Places
    BY <2>1, TasksAssumption DEF Places
  <2>3. \A p \in 1..n : [id |-> f[p], status |-> "todo"] \in Task
    BY <2>1, TasksAssumption DEF Task, Statuses
  <2>4. tasks' \in [1..n -> Task]
    BY <2>1, <2>3
  <2>5. tasks' \in Lists
    BY <2>2, <2>4, ListForm
  <2> QED
    BY <1>1, <2>5 DEF Inv, TypeOK, ListIsReadable, SelectedIsRow, RowsAreTasks
<1> QED
  BY <1>2, <1>3

LEMMA InitInv == Init => Inv
BY EmptyList, NoRow
DEF Init, Inv, TypeOK, ListIsReadable, SelectedIsRow, RowsAreTasks

LEMMA StutterInv == Inv /\ UNCHANGED vars => Inv'
BY DEF Inv, TypeOK, ListIsReadable, SelectedIsRow, RowsAreTasks, vars

LEMMA NextInv == Inv /\ [Next]_vars => Inv'
BY OpenInv, MoveInv, DeleteInv, ToggleInv, AddInv, PowerCutInv, OutsideInv,
   StutterInv
DEF Next

THEOREM InvTheorem == Spec => []Inv
BY InitInv, NextInv, PTL DEF Spec

-----------------------------------------------------------------------------
(***************************************************************************)
(* The variables have their types.                                         *)
(***************************************************************************)
THEOREM TypeCorrect == Spec => []TypeOK
<1>1. Inv => TypeOK
  BY DEF Inv
<1> QED
  BY <1>1, InvTheorem, PTL

(***************************************************************************)
(* The task list screen shows the file, although it changes a copy of its  *)
(* own beside it, until a removal fails, a failing write loses the file or *)
(* a plan names two tasks alike.                                           *)
(***************************************************************************)
THEOREM RowsAreTasksTheorem == Spec => []RowsAreTasks
<1>1. Inv => RowsAreTasks
  BY DEF Inv
<1> QED
  BY <1>1, InvTheorem, PTL

\* What one step does to the tasks that do not bear the selected id.
OthersStay ==
    view = "list" /\ (sd => tasks' # Empty) =>
      \A p \in DOMAIN tasks :
        sel = 0 \/ tasks[p].id # shown[sel].id =>
          p \in DOMAIN tasks' /\ tasks'[p] = tasks[p]

LEMMA DeleteOthersStay == Inv /\ Delete => OthersStay
<1> SUFFICES ASSUME Inv, Delete, sd => tasks' # Empty,
                    NEW p \in DOMAIN tasks, tasks[p].id # shown[sel].id
             PROVE  p \in DOMAIN tasks' /\ tasks'[p] = tasks[p]
  BY DEF OthersStay, Delete
<1> DEFINE S == WithId(tasks, shown[sel].id)
<1>1. tasks \in Lists
  BY DEF Inv, TypeOK
<1>2. tasks' \in {tasks, Without(tasks, S)}
  BY SavedForm DEF Delete
<1>3. p \in DOMAIN tasks \ S
  BY DEF WithId
<1> HIDE DEF S
<1>4. CASE tasks' = tasks
  BY <1>4
<1>5. CASE tasks' = Without(tasks, S)
  <2>1. /\ DOMAIN tasks' = DOMAIN tasks \ S
        /\ \A q \in DOMAIN tasks \ S : tasks'[q] = tasks[q]
    <3> SUFFICES ASSUME tasks' = Without(tasks, S)
                 PROVE  /\ DOMAIN tasks' = DOMAIN tasks \ S
                        /\ \A q \in DOMAIN tasks \ S : tasks'[q] = tasks[q]
      BY <1>5
    <3>1. /\ DOMAIN Without(tasks, S) = DOMAIN tasks \ S
          /\ \A q \in DOMAIN tasks \ S : Without(tasks, S)[q] = tasks[q]
      BY <1>1, WithoutList
    <3> QED
      BY <3>1
  <2> QED
    BY <1>3, <2>1
<1> QED
  BY <1>2, <1>4, <1>5

LEMMA ToggleOthersStay == Inv /\ Toggle => OthersStay
<1> SUFFICES ASSUME Inv, Toggle, sd => tasks' # Empty,
                    NEW p \in DOMAIN tasks, tasks[p].id # shown[sel].id
             PROVE  p \in DOMAIN tasks' /\ tasks'[p] = tasks[p]
  BY DEF OthersStay, Toggle
<1> DEFINE S == WithId(tasks, shown[sel].id)
           next == NextStatus(shown[sel].status)
<1>1. tasks \in Lists /\ next \in Statuses
  BY SelectedTask DEF Inv, TypeOK, Toggle
<1>2. CASE tasks' = tasks
  BY <1>2
<1>3. CASE \E f \in First(S) : tasks' = WithStatus(f, next)
  <2>1. PICK f \in First(S) : tasks' = WithStatus(f, next)
    BY <1>3
  <2>2. f \in DOMAIN tasks /\ f # p
    BY <2>1 DEF First, WithId
  <2> QED
    BY <1>1, <2>1, <2>2, NewStatusList DEF WithStatus
<1>4. tasks' = tasks \/ \E f \in First(S) : tasks' = WithStatus(f, next)
  BY SavedForm DEF Toggle
<1> QED
  BY <1>2, <1>3, <1>4

LEMMA AddOthersStay == Inv /\ Add => OthersStay
<1> SUFFICES ASSUME Inv, Add, sd => tasks' # Empty, NEW p \in DOMAIN tasks
             PROVE  p \in DOMAIN tasks' /\ tasks'[p] = tasks[p]
  BY DEF OthersStay
<1>1. PICK q \in Places, id \in Ids :
        IsNew(q, id) /\ tasks' \in {WithNew(q, id), tasks}
  BY SavedForm DEF Add
<1>2. tasks \in Lists
  BY DEF Inv, TypeOK
<1> QED
  BY <1>1, <1>2, AddedList

LEMMA CutOthersStay == Inv /\ PowerCut => OthersStay
<1> SUFFICES ASSUME Inv, PowerCut, view = "list", sd => tasks' # Empty,
                    NEW p \in DOMAIN tasks,
                    sel = 0 \/ tasks[p].id # shown[sel].id
             PROVE  p \in DOMAIN tasks' /\ tasks'[p] = tasks[p]
  BY DEF OthersStay
<1> DEFINE S == WithId(tasks, shown[sel].id)
           next == NextStatus(shown[sel].status)
<1>0. tasks \in Lists
  BY DEF Inv, TypeOK
<1>1. CASE tasks' = tasks
  BY <1>1
<1>2. CASE sel # 0 /\ tasks' = Without(tasks, S)
  <2>1. p \in DOMAIN tasks \ S
    BY <1>2 DEF WithId
  <2> HIDE DEF S
  <2>2. /\ DOMAIN tasks' = DOMAIN tasks \ S
        /\ \A q \in DOMAIN tasks \ S : tasks'[q] = tasks[q]
    BY <1>0, <1>2, WithoutList
  <2> QED
    BY <2>1, <2>2
<1>3. CASE sel # 0 /\ \E f \in First(S) : tasks' = WithStatus(f, next)
  <2>1. PICK f \in First(S) : tasks' = WithStatus(f, next)
    BY <1>3
  <2>2. f \in DOMAIN tasks /\ f # p
    BY <1>3, <2>1 DEF First, WithId
  <2>3. next \in Statuses
    BY <1>3, SelectedTask
  <2> QED
    BY <1>0, <2>1, <2>2, <2>3, NewStatusList DEF WithStatus
<1>4. CASE \E q \in Places, id \in Ids : IsNew(q, id) /\ tasks' = WithNew(q, id)
  BY <1>0, <1>4, AddedList
<1>5. \/ tasks' = tasks
      \/ sel # 0 /\ tasks' = Without(tasks, S)
      \/ sel # 0 /\ \E f \in First(S) : tasks' = WithStatus(f, next)
      \/ \E q \in Places, id \in Ids : IsNew(q, id) /\ tasks' = WithNew(q, id)
  BY DEF PowerCut, Torn, Lost, file
<1> QED
  BY <1>1, <1>2, <1>3, <1>4, <1>5

(***************************************************************************)
(* A key on the task list changes only tasks with the selected id, however *)
(* stale the screen is.                                                    *)
(***************************************************************************)
THEOREM OnlySelectedChangesTheorem == Spec => OnlySelectedChanges
<1>1. ASSUME Inv, [Next]_vars PROVE [OthersStay]_vars
  <2>1. CASE UNCHANGED vars
    BY <2>1
  <2>2. CASE OpenList \/ OpenHint \/ AcceptPlan \/ HandEdit
    BY <2>2 DEF OthersStay, OpenList, OpenHint, AcceptPlan, HandEdit
  <2>3. CASE Close \/ Down \/ Up
    BY <2>3 DEF OthersStay, Close, Down, Up, file
  <2> QED
    BY <1>1, <2>1, <2>2, <2>3, DeleteOthersStay, ToggleOthersStay,
       AddOthersStay, CutOthersStay DEF Next
<1> QED
  BY <1>1, InvTheorem, PTL DEF Spec, OnlySelectedChanges, OthersStay

(***************************************************************************)
(* A text that is no tasks.json is only replaced by the device once a copy *)
(* of it lies beside the file.                                             *)
(***************************************************************************)
THEOREM BadTextIsKeptTheorem == Spec => BadTextIsKept
<1> DEFINE A == bad # NoText /\ bad' = NoText => bad \in aside' \/ AcceptPlan
<1>1. ASSUME Inv, [Next]_vars PROVE [A]_vars
  <2>1. CASE OpenHint
    BY <2>1, MovedForm DEF OpenHint
  <2>2. CASE OpenList \/ Close \/ Down \/ Up \/ Delete \/ Toggle \/ PowerCut
    BY <2>2 DEF OpenList, Close, Down, Up, Delete, Toggle, PowerCut, file
  <2>3. CASE Add
    BY <1>1, <2>3 DEF Add, Inv, ListIsReadable
  <2>4. CASE HandEdit
    BY <2>4, TasksAssumption DEF HandEdit
  <2>5. CASE AcceptPlan
    BY <2>5
  <2>6. CASE UNCHANGED vars
    BY <2>6
  <2> QED
    BY <1>1, <2>1, <2>2, <2>3, <2>4, <2>5, <2>6 DEF Next
<1> QED
  BY <1>1, InvTheorem, PTL DEF Spec, BadTextIsKept
=============================================================================
