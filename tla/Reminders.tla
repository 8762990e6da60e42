------------------------------ MODULE Reminders ------------------------------
(***************************************************************************)
(* The calendar with its reminders: CalendarStore over events.json,        *)
(* ReminderWatcher over acks.json, and the screens that change both: the   *)
(* calendar list, the editor and the reminder alert.                       *)
(*                                                                         *)
(* An ack names an event by its id, and an id is the smallest number free  *)
(* on the event's day.  A toggle and an edit are a removal and an addition, *)
(* a snooze is an addition and an ack: two writes each.                    *)
(*                                                                         *)
(* The dispatcher has no case for the editor and the alert yet: they are   *)
(* opened here as routes.h and PHASE-5-INTERFACES say that it will.        *)
(*                                                                         *)
(* A tag is one setting of a reminder by the user: what the user means     *)
(* when the program says id.                                               *)
(***************************************************************************)
EXTENDS Integers, FiniteSets

CONSTANTS MaxDay,     \* bound: the clock, in days
          MaxEvents,  \* bound: events in the calendar
          MaxTags,    \* bound: reminders ever set
          Faults,     \* which of "write" and "crash" may happen
          None        \* an empty date

Days == 0..MaxDay
Tags == 1..MaxTags
Ids == [day : Days, num : 0..MaxEvents]

\* starts: day of starts_at; remind: day of remind_at; tag 0: no reminder.
Event == [id : Ids, starts : Days \cup {None}, remind : Days \cup {None},
          tag : 0..MaxTags]

ASSUME RemindersAssumption ==
    /\ MaxDay \in Nat /\ MaxEvents \in Nat \ {0} /\ MaxTags \in Nat
    /\ Faults \subseteq {"write", "crash"}
    /\ None \notin Days

VARIABLES events,  \* events.json
          acks,    \* acks.json: ids acknowledged
          now,     \* today
          pc,      \* the screen, and the second write that is still to come
          work,    \* the event that screen or write is about
          asked,   \* history: what became of each tag
          silenced, \* history: tags whose event was given an id that acks
                   \* named already
          moved,   \* history: tags whose event, since the answer, was added
                   \* again where its id could not be given back
          clean    \* history: nothing failed, no toggle or edit was cut

files == <<events, acks>>
screen == <<pc, work>>
history == <<asked, silenced, moved, clean>>
vars == <<files, now, screen, history>>

NoEvent == [id |-> [day |-> 0, num |-> 0], starts |-> None, remind |-> None,
            tag |-> 0]

TypeOK ==
    /\ events \subseteq Event
    /\ acks \subseteq Ids
    /\ now \in Days
    /\ pc \in {"list", "alert", "snoozed", "toggled", "editor", "saving"}
    /\ work \in Event
    /\ asked \in [Tags -> {"unset", "wanted", "answered", "gone"}]
    /\ silenced \subseteq Tags /\ moved \subseteq Tags
    /\ clean \in BOOLEAN

Init ==
    /\ events = {} /\ acks = {}
    /\ now = 0
    /\ pc = "list" /\ work = NoEvent
    /\ asked = [t \in Tags |-> "unset"]
    /\ silenced = {} /\ moved = {} /\ clean = TRUE

-----------------------------------------------------------------------------
(* CalendarStore.                                                          *)

\* write_file (WriteFile) over a file that holds the set old, on the SD
\* backend, which can do all that the host's can, and lose the file.
Written(old, new) ==
    { [ret |-> "ok", body |-> new] }
      \cup { [ret |-> r, body |-> b] : r \in Faults, b \in {old, {}} }
      \cup { [ret |-> r, body |-> new] : r \in Faults \cap {"crash"} }

\* The write lost nothing of what was to stay.
Harmless(old, o) == o.ret = "ok" \/ old \subseteq o.body

Room == Cardinality(events) < MaxEvents

\* A bug IsNextId could have: the events of the day are counted.
IsCount(id, day) ==
    /\ id.day = day
    /\ id.num = Cardinality({e \in events : e.id.day = day})

\* next_id_for_date(): the smallest number no event of the day has.
IsNextId(id, day) ==
    /\ id.day = day
    /\ \A e \in events : e.id # id
    /\ \A n \in 0..(id.num - 1) :
         \E e \in events : e.id = [day |-> day, num |-> n]

\* add_event(e): e gets an id of the day it starts, or of today.
IdDay(e) == IF e.starts # None THEN e.starts ELSE now

Added(e, id) ==
    /\ Room
    /\ IsNextId(id, IdDay(e))

\* History: the event of this tag was given id.
Silenced(tag, id) ==
    {t \in Tags : IF t = tag THEN id \in acks ELSE t \in silenced}

\* History: an event that had an id of another day, or one above a free
\* number, is added again, so that next_id_for_date gives it a different one.
Moves(e) ==
    \/ e.id.day # IdDay(e)
    \/ \E n \in 0..(e.id.num - 1) :
         \A f \in events : f.id # [day |-> e.id.day, num |-> n]

Moved(e) ==
    {t \in Tags : \/ t \in moved
                  \/ t = e.tag /\ asked[t] = "answered" /\ Moves(e)}

\* delete_event(id): the events that stay.
Without(id) == { e \in events : e.id # id }

ToList == pc' = "list" /\ work' = NoEvent

-----------------------------------------------------------------------------
(* ReminderWatcher.                                                        *)

\* load_due() at the end of time, as pick_pending calls it: every reminder
\* that is set and not acknowledged.
Unacked == { e \in events : e.remind # None /\ e.id \notin acks }

\* load_due(now).
Due == { e \in Unacked : e.remind < now }

Before(a, b) ==
    \/ a.remind < b.remind
    \/ a.remind = b.remind /\ a.id.day < b.id.day
    \/ a.remind = b.remind /\ a.id.day = b.id.day /\ a.id.num < b.id.num

\* A bug AckFile could have: the acks that are there are not written back.
AckFileNew(id) == {id}

\* ack(id): the file read, and the id appended.
AckFile(id) == acks \cup {id}

\* How writing acks.json can end: nothing is written for an id that is there.
Acked(id) == IF id \in acks THEN { [ret |-> "ok", body |-> acks] }
             ELSE Written(acks, AckFile(id))

-----------------------------------------------------------------------------
(* The reminder alert.                                                     *)

\* History: the reminder with this tag was answered, if the answer was
\* accepted or is in acks.json.
Answered(tag, id, o) ==
    LET done == o.ret = "ok" \/ id \in o.body IN
    /\ asked' = [t \in Tags |->
                   IF t = tag /\ done THEN "answered" ELSE asked[t]]
    /\ moved' = {t \in moved : ~(t = tag /\ done)}

\* The dispatcher asks load_due every few seconds (PHASE-5-INTERFACES 4.3).
OpenAlert ==
    /\ pc = "list"
    /\ Due # {}
    /\ pc' = "alert"
    /\ UNCHANGED <<files, work, history>>

\* The reminder shown: pick_pending takes the first of all that are set.
Shown == { e \in Unacked : \A f \in Unacked \ {e} : Before(e, f) }

AlertDismiss ==
    /\ pc = "alert"
    /\ ToList
    /\ UNCHANGED <<files, history>>

\* 'a'.  The error of ack is not looked at.
AlertAck ==
    /\ pc = "alert"
    /\ \E e \in Shown : \E o \in Acked(e.id) :
         /\ acks' = o.body
         /\ Answered(e.tag, e.id, o)
         /\ clean' = (clean /\ Harmless(acks, o) /\ o.ret # "write")
    /\ ToList
    /\ UNCHANGED <<events, silenced>>

\* The tag of a reminder set now.
Fresh == CHOOSE t \in Tags : asked[t] = "unset"
MoreTags == \E t \in Tags : asked[t] = "unset"

\* A bug AlertSnooze could have: the copy keeps the id of the original.
SnoozeKeepsId ==
    /\ pc = "alert" /\ MoreTags
    /\ \E e \in Shown :
         LET copy == [e EXCEPT !.remind = now, !.tag = Fresh] IN
         \E o \in Written(events, Without(e.id) \cup {copy}) :
           /\ events' = o.body
           /\ IF copy \in events'
                THEN /\ asked' = [asked EXCEPT ![Fresh] = "wanted",
                                               ![e.tag] = "gone"]
                     /\ silenced' = Silenced(Fresh, e.id)
                ELSE UNCHANGED <<asked, silenced>>
           /\ clean' = (clean /\ Harmless(events, o) /\ o.ret # "write")
           /\ IF o.ret = "crash" THEN ToList
              ELSE pc' = "snoozed" /\ work' = e
    /\ UNCHANGED <<acks, moved>>

\* 's': a copy of the event, due soon, and then (SnoozeAck) an ack of the
\* original.  The error of the first is not looked at.
AlertSnooze ==
    /\ pc = "alert" /\ MoreTags
    /\ \E e \in Shown, id \in Ids :
         LET copy == [e EXCEPT !.id = id, !.remind = now, !.tag = Fresh] IN
         /\ Added(e, id)
         /\ \E o \in Written(events, events \cup {copy}) :
              /\ events' = o.body
              /\ IF copy \in events'
                   THEN /\ asked' = [asked EXCEPT ![Fresh] = "wanted"]
                        /\ silenced' = Silenced(Fresh, id)
                   ELSE UNCHANGED <<asked, silenced>>
              /\ clean' = (clean /\ Harmless(events, o) /\ o.ret # "write")
              /\ IF o.ret = "crash" THEN ToList
                 ELSE pc' = "snoozed" /\ work' = e
    /\ UNCHANGED <<acks, moved>>

SnoozeAck ==
    /\ pc = "snoozed"
    /\ \E o \in Acked(work.id) :
         /\ acks' = o.body
         /\ Answered(work.tag, work.id, o)
         /\ clean' = (clean /\ Harmless(acks, o) /\ o.ret # "write")
    /\ ToList
    /\ UNCHANGED <<events, silenced>>

-----------------------------------------------------------------------------
(* The calendar list.                                                      *)

\* 'a': an event without a reminder.
AddEvent ==
    /\ pc = "list"
    /\ \E starts \in Days \cup {None}, id \in Ids :
         LET e == [NoEvent EXCEPT !.id = id, !.starts = starts] IN
         /\ Added(e, id)
         /\ \E o \in Written(events, events \cup {e}) :
              /\ events' = o.body
              /\ clean' = (clean /\ Harmless(events, o))
    /\ UNCHANGED <<acks, screen, asked, silenced, moved>>

\* upcoming("1970..."): an event with neither date is not listed.
Listed == { e \in events : e.starts # None \/ e.remind # None }

\* Enter: the status is changed by removing the event and (Readd) adding it.
Toggle ==
    /\ pc = "list"
    /\ \E e \in Listed : \E o \in Written(events, Without(e.id)) :
         /\ events' = o.body
         /\ clean' = (clean /\ o.ret = "ok")
         /\ IF o.ret = "crash" THEN ToList
            ELSE pc' = "toggled" /\ work' = e
    /\ UNCHANGED <<acks, asked, silenced, moved>>

\* add_event for an event that had an id before.  Failed: where an
\* error leads.
Readd(Failed) ==
    \E id \in Ids :
      LET e == [work EXCEPT !.id = id] IN
      /\ Added(work, id)
      /\ \E o \in Written(events, events \cup {e}) :
           /\ events' = o.body
           /\ IF e \in events'
                THEN /\ silenced' = Silenced(work.tag, id)
                     /\ moved' = Moved(work)
                ELSE UNCHANGED <<silenced, moved>>
           /\ clean' = (clean /\ o.ret = "ok")
           /\ IF o.ret = "write" THEN Failed ELSE ToList

ToggleAdd ==
    /\ pc = "toggled"
    /\ Readd(ToList)
    /\ UNCHANGED <<acks, asked>>

-----------------------------------------------------------------------------
(* The editor.                                                             *)

\* load_state for an event, or for a new one, with next_new_event_id.
EditorOpen ==
    /\ pc = "list"
    /\ \/ \E e \in events : work' = e
       \/ \E id \in Ids : /\ Room /\ IsNextId(id, now)
                          /\ work' = [NoEvent EXCEPT !.id = id]
    /\ pc' = "editor"
    /\ UNCHANGED <<files, history>>

EditorEsc ==
    /\ pc = "editor"
    /\ ToList
    /\ UNCHANGED <<files, history>>

\* 'a', with the dates the user has typed: save_state removes the event, the
\* error of which it does not look at, and (EditorAdd) adds it.
EditorSave ==
    /\ pc = "editor"
    /\ \E starts, remind \in Days \cup {None} :
         LET tag == IF remind = work.remind THEN work.tag
                    ELSE IF remind = None THEN 0
                    ELSE Fresh
         IN
         /\ remind \notin {None, work.remind} => MoreTags
         /\ asked' = [t \in Tags |->
                        IF t = tag /\ tag # work.tag THEN "wanted"
                        ELSE IF t = work.tag /\ tag # work.tag THEN "gone"
                        ELSE asked[t]]
         /\ \E o \in (IF \E e \in events : e.id = work.id
                        THEN Written(events, Without(work.id))
                        ELSE { [ret |-> "ok", body |-> events] }) :
              /\ events' = o.body
              /\ clean' = (clean /\ o.ret = "ok")
              /\ IF o.ret = "crash" THEN ToList
                 ELSE /\ pc' = "saving"
                      /\ work' = [work EXCEPT !.starts = starts,
                                              !.remind = remind, !.tag = tag]
    /\ UNCHANGED <<acks, silenced, moved>>

EditorAdd ==
    /\ pc = "saving"
    /\ Readd(pc' = "editor" /\ UNCHANGED work)
    /\ UNCHANGED <<acks, asked>>

\* 'd'; an id that is not there is an error, and the editor stays.
EditorDelete ==
    /\ pc = "editor"
    /\ \E e \in events : e.id = work.id
    /\ asked' = [t \in Tags |-> IF t = work.tag THEN "gone" ELSE asked[t]]
    /\ \E o \in Written(events, Without(work.id)) :
         /\ events' = o.body
         /\ clean' = (clean /\ Harmless(Without(work.id), o))
         /\ IF o.ret = "write" THEN UNCHANGED screen ELSE ToList
    /\ UNCHANGED <<acks, silenced, moved>>

Tick ==
    /\ now < MaxDay
    /\ now' = now + 1
    /\ UNCHANGED <<files, screen, history>>

\* The power goes between two writes.
PowerCut ==
    /\ "crash" \in Faults
    /\ ToList
    /\ clean' = (clean /\ pc \notin {"toggled", "saving"})
    /\ UNCHANGED <<files, now, asked, silenced, moved>>

Step ==
    /\ \/ OpenAlert \/ AlertDismiss \/ AlertAck \/ AlertSnooze \/ SnoozeAck
       \/ AddEvent \/ Toggle \/ ToggleAdd
       \/ EditorOpen \/ EditorEsc \/ EditorSave \/ EditorAdd \/ EditorDelete
    /\ UNCHANGED now

Next == Step \/ Tick \/ PowerCut

Spec == Init /\ [][Next]_vars

-----------------------------------------------------------------------------
\* No two events have one id, whatever failed between the removal and the
\* addition of a toggle or an edit (next_id_for_date).
IdsDistinct == \A e, f \in events : e.id = f.id => e = f

\* The reminder's event is there, and unless acks.json named its id when it
\* was given, no ack names it.
Stands(t) == \E e \in events : e.tag = t /\ (e.id \in acks => t \in silenced)

\* A reminder the user has set and not answered is lost only by a fault: its
\* event is in the calendar, or on its way back into it, and nothing answers
\* it but its own answer.  A power cut in a snooze loses nothing (snooze adds
\* before it acks).  The one exception is the code's own: an event given an
\* id that acks.json names already never fires (ReminderWatcher::load_due).
NothingForgotten ==
    clean => \A t \in Tags :
      asked[t] = "wanted" =>
        Stands(t) \/ (pc \in {"toggled", "saving"} /\ work.tag = t)

\* A reminder that was answered fires again, if nothing fails, only after a
\* toggle or an edit that could not give its event the id back: it is of
\* another day by then, or a lower number of its day is free.  With the id
\* given back it stays quiet ("keep id stable" in calendar.cpp, "will not
\* re-fire" in reminder_watcher.h).
AnsweredStaysQuiet ==
    clean => \A e \in Unacked :
      asked[e.tag] = "answered" => e.tag \in moved
=============================================================================
