--------------------------- MODULE Projects_proofs ---------------------------
(***************************************************************************)
(* Proofs about Projects, for any stems, numbers and texts, on both        *)
(* backends and under any faults: the dispatcher stays on projects that    *)
(* exist and on the one captured last, a saved idea changes only under the *)
(* screen of its project, and that screen shows what is saved until a      *)
(* write fails.                                                            *)
(***************************************************************************)
EXTENDS Projects, TLAPS

\* An idea lies in a folder, so that looking for the folder is enough to
\* find every idea a capture could overwrite.
Housed == \A s \in Slugs : idea[s] # Absent => s \in folder

\* Both of the strings that stand for a project stay on the one made last.
MadeIsCurrent ==
    made # NoSlug => current = made /\ last \in {NoSlug, made}

PInv ==
    /\ TypeOK
    /\ Housed
    /\ CurrentExists
    /\ MadeIsCurrent
    /\ StaysOnMade
    /\ BareOnlyAfterFault
    /\ OnlyHelpHangs

-----------------------------------------------------------------------------
THEOREM InitPInv == Init => PInv
BY ProjectsAssumption
   DEF Init, PInv, TypeOK, Housed, CurrentExists, MadeIsCurrent, StaysOnMade,
       BareOnlyAfterFault, OnlyHelpHangs, Routes, Cases

\* Files and history stay: only the navigation is to be looked at.
NavOK ==
    /\ route' \in Routes
    /\ in' \in BOOLEAN
    /\ current' \in Slugs \cup {NoSlug}
    /\ last' \in Slugs \cup {NoSlug}
    /\ at' \in Slugs \cup {NoSlug, TasksFile}
    /\ shown' \in Texts \cup {Absent}
    /\ {current', last'} \ {NoSlug} \subseteq folder'
    /\ OnlyHelpHangs'

LEMMA NavStep ==
    ASSUME PInv, NavOK, UNCHANGED <<files, history, sd>>,
           MadeIsCurrent', StaysOnMade'
    PROVE  PInv'
<1>1. TypeOK'
  BY DEF PInv, TypeOK, NavOK, files, history
<1>2. Housed' /\ BareOnlyAfterFault'
  BY DEF PInv, Housed, BareOnlyAfterFault, files, history
<1>3. CurrentExists' /\ OnlyHelpHangs'
  BY DEF NavOK, CurrentExists
<1> QED
  BY <1>1, <1>2, <1>3 DEF PInv

LEMMA IdeaIn ==
    ASSUME PInv, NEW s \in Slugs \cup {NoSlug}
    PROVE  Idea(s) \in Texts \cup {Absent}
BY DEF PInv, TypeOK, Idea

LEMMA Listed ==
    ASSUME PInv, NEW s \in FirstListed
    PROVE  s \in Slugs \cup {NoSlug, TasksFile}
BY DEF PInv, TypeOK, FirstListed, Names

LEMMA DispatchStep == ASSUME PInv, Dispatch, UNCHANGED sd PROVE PInv'
<1>1. CASE DispatchPlain
  <2>1. NavOK
    BY <1>1 DEF PInv, TypeOK, CurrentExists, OnlyHelpHangs, NavOK,
                DispatchPlain, OpenFor, files, Cases
  <2>2. MadeIsCurrent' /\ StaysOnMade'
    BY <1>1 DEF PInv, MadeIsCurrent, StaysOnMade, DispatchPlain, OpenFor,
                history
  <2> QED
    BY <1>1, <2>1, <2>2, NavStep DEF DispatchPlain
<1>2. CASE DispatchDetail
  <2>1. NavOK
    BY <1>2, IdeaIn DEF PInv, TypeOK, CurrentExists, OnlyHelpHangs, NavOK,
                        DispatchDetail, OpenFor, files, Cases
  <2>2. MadeIsCurrent' /\ StaysOnMade'
    BY <1>2 DEF PInv, MadeIsCurrent, StaysOnMade, DispatchDetail, OpenFor,
                history
  <2> QED
    BY <1>2, <2>1, <2>2, NavStep DEF DispatchDetail
<1>3. CASE DispatchTasks
  <2>1. NavOK
    BY <1>3 DEF PInv, TypeOK, CurrentExists, OnlyHelpHangs, NavOK,
                DispatchTasks, OpenFor, files, Cases
  <2>2. MadeIsCurrent' /\ StaysOnMade'
    BY <1>3 DEF PInv, MadeIsCurrent, StaysOnMade, DispatchTasks, OpenFor,
                history
  <2> QED
    BY <1>3, <2>1, <2>2, NavStep DEF DispatchTasks
<1>4. CASE DispatchExport
  <2>1. PICK s \in (IF current # NoSlug THEN {current} ELSE FirstListed) :
          OpenFor(s)
    BY <1>4 DEF DispatchExport
  <2>2. s \in Slugs \cup {NoSlug, TasksFile}
    BY Listed DEF PInv, TypeOK
  <2>3. NavOK
    BY <1>4, <2>1, <2>2 DEF PInv, TypeOK, CurrentExists, OnlyHelpHangs, NavOK,
                            DispatchExport, OpenFor, files, Cases
  <2>4. MadeIsCurrent' /\ StaysOnMade'
    BY <1>4, <2>1 DEF PInv, MadeIsCurrent, StaysOnMade, DispatchExport,
                      OpenFor, history
  <2> QED
    BY <1>4, <2>3, <2>4, NavStep DEF DispatchExport
<1>5. CASE DispatchRecord
  <2>1. PICK s \in (IF current # NoSlug THEN {current} ELSE FirstListed) :
          OpenFor(s)
    BY <1>5 DEF DispatchRecord
  <2>2. s \in Slugs \cup {NoSlug, TasksFile}
    BY Listed DEF PInv, TypeOK
  <2>3. NavOK
    BY <1>5, <2>1, <2>2 DEF PInv, TypeOK, CurrentExists, OnlyHelpHangs, NavOK,
                            DispatchRecord, OpenFor, files, Cases
  <2>4. MadeIsCurrent' /\ StaysOnMade'
    BY <1>5, <2>1 DEF PInv, MadeIsCurrent, StaysOnMade, DispatchRecord,
                      OpenFor, history
  <2> QED
    BY <1>5, <2>3, <2>4, NavStep DEF DispatchRecord
<1>6. CASE Spin
  <2>1. NavOK
    BY <1>6 DEF PInv, TypeOK, CurrentExists, OnlyHelpHangs, NavOK, Spin, nav,
                files
  <2>2. MadeIsCurrent' /\ StaysOnMade'
    BY <1>6 DEF PInv, MadeIsCurrent, StaysOnMade, Spin, nav, history
  <2> QED
    BY <1>6, <2>1, <2>2, NavStep DEF Spin
<1> QED
  BY <1>1, <1>2, <1>3, <1>4, <1>5, <1>6 DEF Dispatch

-----------------------------------------------------------------------------
\* A screen returns a route that has a case, or the help.
LEMMA GoToStep ==
    ASSUME PInv, NEW r \in (Cases \cup {"Help"}), GoTo(r),
           UNCHANGED <<current, last, files, history, sd>>
    PROVE  PInv'
<1>1. NavOK
  BY DEF PInv, TypeOK, CurrentExists, OnlyHelpHangs, NavOK, GoTo, files,
         Routes, Cases
<1>2. MadeIsCurrent' /\ StaysOnMade'
  BY DEF PInv, MadeIsCurrent, StaysOnMade, GoTo, history
<1> QED
  BY <1>1, <1>2, NavStep

LEMMA RestartStep ==
    ASSUME PInv, Restart, UNCHANGED sd,
           folder' \subseteq Slugs, folder \subseteq folder',
           idea' \in [Slugs -> Texts \cup {Absent}], Housed',
           stray' \in BOOLEAN, clean' \in BOOLEAN, BareOnlyAfterFault'
    PROVE  PInv'
<1>1. TypeOK'
  BY DEF PInv, TypeOK, Restart, Routes
<1>2. CurrentExists' /\ MadeIsCurrent' /\ StaysOnMade' /\ OnlyHelpHangs'
  BY DEF Restart, CurrentExists, MadeIsCurrent, StaysOnMade, OnlyHelpHangs,
         Cases, Routes
<1> QED
  BY <1>1, <1>2 DEF PInv

LEMMA HomeStep ==
    ASSUME PInv, HomeKey \/ HomeEsc \/ LeaveToHome \/ ListNew \/ DetailKey,
           UNCHANGED sd
    PROVE  PInv'
<1>1. CASE HomeKey
  BY <1>1, GoToStep DEF HomeKey, Menu, Cases, Routes
<1>2. CASE HomeEsc
  <2>1. Housed' /\ BareOnlyAfterFault'
    BY <1>2 DEF HomeEsc, PInv, Housed, BareOnlyAfterFault, files
  <2> QED
    BY <1>2, <2>1, RestartStep DEF HomeEsc, PInv, TypeOK, files
<1>3. CASE LeaveToHome
  BY <1>3, GoToStep DEF LeaveToHome, Cases, Routes
<1>4. CASE ListNew
  BY <1>4, GoToStep DEF ListNew, Cases, Routes
<1>5. CASE DetailKey
  BY <1>5, GoToStep DEF DetailKey, Cases, Routes
<1> QED
  BY <1>1, <1>2, <1>3, <1>4, <1>5

-----------------------------------------------------------------------------
\* make_unique_slug returns a slug without a folder.
LEMMA UniqueIsFree ==
    ASSUME NEW s \in Slugs, NEW base \in Slugs, IsUnique(s, base)
    PROVE  s \notin folder
BY DEF IsUnique

\* How create_project can end.
MayCreate(s, t, o) ==
    /\ o.ret \in {"ok", "write", "crash"}
    /\ o.folder \in {folder, folder \cup {s}}
    /\ \/ o.idea = idea
       \/ o.folder = folder \cup {s} /\ o.idea = [idea EXCEPT ![s] = t]
    /\ o.ret = "ok" => /\ o.folder = folder \cup {s}
                       /\ o.idea = [idea EXCEPT ![s] = t]

LEMMA CreatedOutcomes ==
    \A s \in Slugs, t \in Texts : \A o \in Created(s, t) : MayCreate(s, t, o)
BY ProjectsAssumption DEF Created, MayCreate

\* What every end of create_project leaves of the files.
LEMMA CreatedFiles ==
    ASSUME PInv, NEW s \in Slugs, NEW t \in Texts, NEW o, MayCreate(s, t, o),
           folder' = o.folder, idea' = o.idea,
           clean' = (clean /\ o.ret = "ok")
    PROVE  /\ folder' \subseteq Slugs /\ folder \subseteq folder'
           /\ idea' \in [Slugs -> Texts \cup {Absent}]
           /\ clean' \in BOOLEAN
           /\ Housed' /\ BareOnlyAfterFault'
<1>1. folder' \subseteq Slugs /\ folder \subseteq folder'
  BY DEF PInv, TypeOK, MayCreate
<1>2. idea' \in [Slugs -> Texts \cup {Absent}]
  BY DEF PInv, TypeOK, MayCreate
<1>3. clean' \in BOOLEAN
  OBVIOUS
<1>4. Housed'
  BY DEF PInv, TypeOK, Housed, MayCreate
<1>5. BareOnlyAfterFault'
  <2> SUFFICES ASSUME clean', NEW r \in folder' PROVE idea'[r] \in Texts
    BY DEF BareOnlyAfterFault
  <2>1. folder' = folder \cup {s} /\ idea' = [idea EXCEPT ![s] = t] /\ clean
    BY DEF MayCreate
  <2> QED
    BY <2>1 DEF PInv, TypeOK, BareOnlyAfterFault
<1> QED
  BY <1>1, <1>2, <1>3, <1>4, <1>5

LEMMA CaptureStep ==
    ASSUME PInv, NEW base \in Slugs, NEW t \in Texts, CaptureSave(base, t),
           UNCHANGED sd
    PROVE  PInv'
<1>1. PICK s \in Slugs : IsUnique(s, base) /\ \E o \in Created(s, t) :
         /\ folder' = o.folder
         /\ idea' = o.idea
         /\ clean' = (clean /\ o.ret = "ok")
         /\ \/ /\ o.ret = "ok"
               /\ GoTo("ProjectDetail")
               /\ last' = s /\ current' = s
               /\ picked' = s /\ made' = s
            \/ /\ o.ret = "write"
               /\ UNCHANGED <<nav, picked, made>>
            \/ /\ o.ret = "crash"
               /\ Restart
  BY DEF CaptureSave
<1>2. PICK o \in Created(s, t) :
         /\ folder' = o.folder
         /\ idea' = o.idea
         /\ clean' = (clean /\ o.ret = "ok")
         /\ \/ /\ o.ret = "ok"
               /\ GoTo("ProjectDetail")
               /\ last' = s /\ current' = s
               /\ picked' = s /\ made' = s
            \/ /\ o.ret = "write"
               /\ UNCHANGED <<nav, picked, made>>
            \/ /\ o.ret = "crash"
               /\ Restart
  BY <1>1
<1>3. MayCreate(s, t, o)
  BY CreatedOutcomes
<1>4. /\ folder' \subseteq Slugs /\ folder \subseteq folder'
      /\ idea' \in [Slugs -> Texts \cup {Absent}]
      /\ clean' \in BOOLEAN
      /\ Housed' /\ BareOnlyAfterFault'
  BY <1>2, <1>3, CreatedFiles
<1>5. stray' \in BOOLEAN
  BY DEF CaptureSave, PInv, TypeOK
<1>6. CASE o.ret = "ok" /\ GoTo("ProjectDetail") /\ last' = s
           /\ current' = s /\ picked' = s /\ made' = s
  <2>1. s \in folder'
    BY <1>2, <1>3, <1>6 DEF MayCreate
  <2>2. TypeOK'
    BY <1>4, <1>5, <1>6 DEF PInv, TypeOK, GoTo, Routes
  <2>3. CurrentExists' /\ MadeIsCurrent' /\ StaysOnMade' /\ OnlyHelpHangs'
    BY <1>6, <2>1 DEF GoTo, CurrentExists, MadeIsCurrent, StaysOnMade,
                      OnlyHelpHangs, Cases, Routes
  <2> QED
    BY <1>4, <2>2, <2>3 DEF PInv
<1>7. CASE o.ret = "write" /\ UNCHANGED <<nav, picked, made>>
  <2>1. TypeOK'
    BY <1>4, <1>5, <1>7 DEF PInv, TypeOK, nav
  <2>2. CurrentExists' /\ MadeIsCurrent' /\ StaysOnMade' /\ OnlyHelpHangs'
    BY <1>4, <1>7 DEF PInv, nav, CurrentExists, MadeIsCurrent, StaysOnMade,
                      OnlyHelpHangs
  <2> QED
    BY <1>4, <2>1, <2>2 DEF PInv
<1>8. CASE o.ret = "crash" /\ Restart
  BY <1>4, <1>5, <1>8, RestartStep
<1> QED
  BY <1>2, <1>6, <1>7, <1>8

LEMMA PickStep ==
    ASSUME PInv, NEW s \in Names, ListPick(s), UNCHANGED sd PROVE PInv'
<1>1. TypeOK'
  <2>1. s \in Slugs \cup {NoSlug, TasksFile}
    BY DEF PInv, TypeOK, Names
  <2> QED
    BY <2>1 DEF PInv, TypeOK, ListPick, GoTo, files, Routes
<1>2. Housed' /\ BareOnlyAfterFault'
  BY DEF PInv, Housed, BareOnlyAfterFault, ListPick, files
<1>3. CurrentExists' /\ MadeIsCurrent' /\ StaysOnMade' /\ OnlyHelpHangs'
  BY DEF PInv, CurrentExists, MadeIsCurrent, StaysOnMade, OnlyHelpHangs,
         ListPick, GoTo, files, Cases, Routes
<1> QED
  BY <1>1, <1>2, <1>3 DEF PInv

\* How the rewriting of an idea can end: only a fault leaves another text
\* than the new one.
LEMMA RewrittenOutcomes ==
    ASSUME PInv, NEW s \in Slugs, NEW t \in Texts
    PROVE  \A o \in Rewritten(s, t) : /\ o.body \in Texts \cup {Absent}
                                      /\ o.ret = "ok" => o.body = t
BY ProjectsAssumption DEF Rewritten, PInv, TypeOK

LEMMA EditStep ==
    ASSUME PInv, NEW t \in Texts, EditIdea(t), UNCHANGED sd PROVE PInv'
<1>1. PICK o \in Rewritten(at, t) :
         /\ idea' = [idea EXCEPT ![at] = o.body]
         /\ clean' = (clean /\ o.ret = "ok")
         /\ \/ o.ret # "crash" /\ shown' = t
               /\ UNCHANGED <<route, in, current, last, at, picked, made>>
            \/ o.ret = "crash" /\ Restart
  BY DEF EditIdea
<1>2. at \in folder /\ at \in Slugs
  BY DEF EditIdea, PInv, TypeOK
<1>3. o.body \in Texts \cup {Absent} /\ (o.ret = "ok" => o.body = t)
  BY <1>2, RewrittenOutcomes
<1>4. idea' \in [Slugs -> Texts \cup {Absent}]
  BY <1>1, <1>2, <1>3 DEF PInv, TypeOK
<1>5. folder' = folder /\ stray' = stray
  BY DEF EditIdea
<1>6. Housed'
  BY <1>1, <1>2, <1>5 DEF PInv, TypeOK, Housed
<1>7. BareOnlyAfterFault'
  BY <1>1, <1>2, <1>3, <1>5 DEF PInv, TypeOK, BareOnlyAfterFault
<1>8. clean' \in BOOLEAN
  BY <1>1
<1>9. CASE o.ret # "crash" /\ shown' = t
           /\ UNCHANGED <<route, in, current, last, at, picked, made>>
  <2>1. TypeOK'
    BY <1>4, <1>5, <1>8, <1>9 DEF PInv, TypeOK
  <2>2. CurrentExists' /\ MadeIsCurrent' /\ StaysOnMade' /\ OnlyHelpHangs'
    BY <1>5, <1>9 DEF PInv, CurrentExists, MadeIsCurrent, StaysOnMade,
                      OnlyHelpHangs
  <2> QED
    BY <1>6, <1>7, <2>1, <2>2 DEF PInv
<1>10. CASE o.ret = "crash" /\ Restart
  BY <1>4, <1>5, <1>6, <1>7, <1>8, <1>10, RestartStep DEF PInv, TypeOK
<1> QED
  BY <1>1, <1>9, <1>10

\* The steps that change no project: an edit of nothing, a task of no
\* project, a power cut between two calls.
LEMMA OtherStep ==
    ASSUME PInv, (\E t \in Texts : EditNothing(t)) \/ AddTask \/ PowerCut,
           UNCHANGED sd
    PROVE  PInv'
<1>1. ASSUME NEW t \in Texts, EditNothing(t) PROVE PInv'
  <2>1. NavOK
    BY <1>1 DEF EditNothing, PInv, TypeOK, NavOK, CurrentExists,
                OnlyHelpHangs, files
  <2>2. MadeIsCurrent' /\ StaysOnMade'
    BY <1>1 DEF EditNothing, PInv, MadeIsCurrent, StaysOnMade, history
  <2> QED
    BY <1>1, <2>1, <2>2, NavStep DEF EditNothing
<1>2. CASE AddTask
  <2>1. /\ UNCHANGED <<nav, picked, made, folder, idea>>
        /\ clean' \in BOOLEAN /\ (clean' => clean)
    <3>1. UNCHANGED <<nav, picked, made, folder, idea>>
      BY <1>2 DEF AddTask, history
    <3>2. clean' = clean \/ clean' = FALSE
      BY <1>2 DEF AddTask, history
    <3>3. clean' \in BOOLEAN
      BY <3>2 DEF PInv, TypeOK
    <3>4. clean' => clean
      BY <3>2
    <3> QED
      BY <3>1, <3>3, <3>4
  <2>2. stray' \in BOOLEAN
    BY <1>2 DEF AddTask, PInv, TypeOK
  <2>3. TypeOK'
    BY <2>1, <2>2 DEF nav, PInv, TypeOK
  <2>4. /\ Housed' /\ CurrentExists' /\ MadeIsCurrent' /\ StaysOnMade'
        /\ BareOnlyAfterFault' /\ OnlyHelpHangs'
    BY <2>1 DEF nav, PInv, Housed, CurrentExists, MadeIsCurrent, StaysOnMade,
                BareOnlyAfterFault, OnlyHelpHangs
  <2> QED
    BY <2>3, <2>4 DEF PInv
<1>3. CASE PowerCut
  <2>1. Housed' /\ BareOnlyAfterFault'
    BY <1>3 DEF PowerCut, PInv, Housed, BareOnlyAfterFault, files
  <2> QED
    BY <1>3, <2>1, RestartStep DEF PowerCut, PInv, TypeOK, files
<1> QED
  BY <1>1, <1>2, <1>3

LEMMA NextPInv == PInv /\ [Next]_vars => PInv'
<1> SUFFICES ASSUME PInv, [Next]_vars PROVE PInv'
  OBVIOUS
<1>1. CASE UNCHANGED vars
  BY <1>1 DEF vars, nav, files, history, PInv, TypeOK, Housed, CurrentExists,
              MadeIsCurrent, StaysOnMade, BareOnlyAfterFault, OnlyHelpHangs
<1>2. CASE Next
  BY <1>2, DispatchStep, HomeStep, CaptureStep, PickStep, EditStep, OtherStep
     DEF Next, Capture
<1> QED
  BY <1>1, <1>2

THEOREM PInvHolds == Spec => []PInv
BY InitPInv, NextPInv, PTL DEF Spec

-----------------------------------------------------------------------------
\* Type correctness of the dispatcher and of the projects' files.
THEOREM ProjectsTypes == Spec => []TypeOK
<1>1. PInv => TypeOK
  BY DEF PInv
<1> QED
  BY <1>1, PInvHolds, PTL

\* The dispatcher only ever stays on a project whose folder is there.
THEOREM CurrentExistsTheorem == Spec => []CurrentExists
<1>1. PInv => CurrentExists
  BY DEF PInv
<1> QED
  BY <1>1, PInvHolds, PTL

\* From a capture on, every screen works on the project captured.
THEOREM StaysOnMadeTheorem == Spec => []StaysOnMade
<1>1. PInv => StaysOnMade
  BY DEF PInv
<1> QED
  BY <1>1, PInvHolds, PTL

\* Without a fault every project has its idea.
THEOREM BareOnlyAfterFaultTheorem == Spec => []BareOnlyAfterFault
<1>1. PInv => BareOnlyAfterFault
  BY DEF PInv
<1> QED
  BY <1>1, PInvHolds, PTL

\* The help is the only route on which the device can hang.
THEOREM OnlyHelpHangsTheorem == Spec => []OnlyHelpHangs
<1>1. PInv => OnlyHelpHangs
  BY DEF PInv
<1> QED
  BY <1>1, PInvHolds, PTL

\* While nothing fails, every screen that opens or stays open shows what is
\* saved.
LEMMA ShownStep ==
    ASSUME PInv, ShownIsSaved, [Next]_vars PROVE ShownIsSaved'
<1>1. CASE UNCHANGED vars
  BY <1>1 DEF vars, nav, files, history, ShownIsSaved
<1>2. CASE Dispatch
  <2>1. CASE DispatchDetail
    BY <2>1 DEF DispatchDetail, OpenFor, Idea, files, history, ShownIsSaved
  <2>2. CASE Spin
    BY <2>2 DEF Spin, nav, files, history, ShownIsSaved
  <2>3. CASE DispatchPlain \/ DispatchTasks \/ DispatchExport \/ DispatchRecord
    BY <2>3 DEF DispatchPlain, DispatchTasks, DispatchExport, DispatchRecord,
                OpenFor, ShownIsSaved
  <2> QED
    BY <1>2, <2>1, <2>2, <2>3 DEF Dispatch
<1>3. CASE HomeKey \/ HomeEsc \/ LeaveToHome \/ ListNew \/ DetailKey
           \/ PowerCut \/ \E s \in Names : ListPick(s)
  <2>1. in' = FALSE
    BY <1>3 DEF HomeKey, HomeEsc, LeaveToHome, ListNew, DetailKey, PowerCut,
                ListPick, GoTo, Restart
  <2> QED
    BY <2>1 DEF ShownIsSaved
<1>4. CASE Capture
  <2>1. PICK base \in Slugs, t \in Texts : CaptureSave(base, t)
    BY <1>4 DEF Capture
  <2>2. \/ GoTo("ProjectDetail") \/ Restart
        \/ clean' = FALSE
    BY <2>1 DEF CaptureSave
  <2> QED
    BY <2>2 DEF GoTo, Restart, ShownIsSaved
<1>5. ASSUME NEW t \in Texts, EditIdea(t) PROVE ShownIsSaved'
  <2>1. at \in folder /\ at \in Slugs /\ folder' = folder
    BY <1>5 DEF EditIdea, PInv, TypeOK
  <2>2. PICK o \in Rewritten(at, t) :
         /\ idea' = [idea EXCEPT ![at] = o.body]
         /\ clean' = (clean /\ o.ret = "ok")
         /\ \/ o.ret # "crash" /\ shown' = t
               /\ UNCHANGED <<route, in, current, last, at, picked, made>>
            \/ o.ret = "crash" /\ Restart
    BY <1>5 DEF EditIdea
  <2>3. clean' => o.body = t /\ shown' = t /\ at' = at
    BY <2>1, <2>2, RewrittenOutcomes
  <2>4. idea'[at] = o.body
    BY <2>1, <2>2 DEF PInv, TypeOK
  <2> QED
    BY <2>3, <2>4 DEF ShownIsSaved
<1>6. CASE \E t \in Texts : EditNothing(t)
  BY <1>6 DEF EditNothing, files, ShownIsSaved
<1>7. CASE AddTask
  BY <1>7 DEF AddTask, nav, history, ShownIsSaved
<1> QED
  BY <1>1, <1>2, <1>3, <1>4, <1>5, <1>6, <1>7 DEF Next

\* While no write fails the detail screen shows the idea that is saved.
THEOREM ShownIsSavedTheorem == Spec => []ShownIsSaved
<1>1. Init => ShownIsSaved
  BY DEF Init, ShownIsSaved
<1>2. PInv /\ ShownIsSaved /\ [Next]_vars => ShownIsSaved'
  BY ShownStep
<1> QED
  BY <1>1, <1>2, PInvHolds, PTL DEF Spec

\* A step that changes an idea that was saved is an edit of that project.
IdeaKept ==
    \A s \in Slugs :
      idea[s] \in Texts /\ idea'[s] # idea[s]
        => in /\ route = "ProjectDetail" /\ at = s

\* A capture writes no idea but that of a project that had no folder.
LEMMA CaptureKeeps ==
    ASSUME PInv, NEW base \in Slugs, NEW t \in Texts, CaptureSave(base, t)
    PROVE  IdeaKept
<1>1. PICK s \in Slugs : IsUnique(s, base) /\ \E o \in Created(s, t) :
                           idea' = o.idea
  BY DEF CaptureSave
<1>2. PICK o \in Created(s, t) : idea' = o.idea
  BY <1>1
<1>3. idea' = idea \/ idea' = [idea EXCEPT ![s] = t]
  BY <1>2, CreatedOutcomes DEF MayCreate
<1>4. idea[s] = Absent
  BY <1>1, UniqueIsFree DEF PInv, Housed
<1> QED
  BY <1>3, <1>4, ProjectsAssumption DEF IdeaKept, PInv, TypeOK

LEMMA StepKeepsIdeas == PInv /\ [Next]_vars => IdeaKept
<1> SUFFICES ASSUME PInv, [Next]_vars PROVE IdeaKept
  OBVIOUS
<1>1. ASSUME NEW base \in Slugs, NEW t \in Texts, CaptureSave(base, t)
      PROVE  IdeaKept
  BY <1>1, CaptureKeeps
<1>2. ASSUME NEW t \in Texts, EditIdea(t) PROVE IdeaKept
  BY <1>2 DEF EditIdea, IdeaKept, PInv, TypeOK
<1>3. CASE idea' = idea
  BY <1>3 DEF IdeaKept
<1>4. ASSUME Next PROVE idea' = idea \/ Capture \/ \E t \in Texts : EditIdea(t)
  BY <1>4 DEF Next, Dispatch, DispatchPlain, DispatchDetail, DispatchTasks,
              DispatchExport, DispatchRecord, Spin, HomeKey, HomeEsc,
              LeaveToHome, ListNew, ListPick, DetailKey, EditNothing, AddTask,
              PowerCut, files
<1> QED
  BY <1>1, <1>2, <1>3, <1>4 DEF Capture, vars, files

\* No capture, and no failure of one, ever touches the idea of another
\* project.
THEOREM IdeasKeptTheorem == Spec => IdeasKept
<1>1. PInv /\ [Next]_vars => [IdeaKept]_vars
  BY StepKeepsIdeas
<1> QED
  BY <1>1, PInvHolds, PTL DEF Spec, IdeasKept, IdeaKept
=============================================================================
