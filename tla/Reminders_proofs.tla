--------------------------- MODULE Reminders_proofs ---------------------------
(***************************************************************************)
(* Proofs about Reminders, for any number of days, events and settings of  *)
(* reminders and under any faults: ids are distinct, a reminder is only    *)
(* lost by a fault, and one that was answered fires again only when its    *)
(* event could not keep its id.                                            *)
(***************************************************************************)
EXTENDS Reminders, TLAPS

\* A tag in use belongs to a reminder that was set; a reminder has a tag.
Tagged ==
    \A e \in events \cup {work} :
      /\ e.tag # 0 => asked[e.tag] # "unset"
      /\ e.tag # 0 <=> e.remind # None

\* What holds until a fault: a tag is on one event; the event a screen is
\* about is in the calendar under its id, or, between the removal and the
\* addition of a toggle or an edit, nowhere; what was answered is in acks.
TagsDistinct ==
    clean => \A e, f \in events : e.tag = f.tag /\ e.tag # 0 => e = f

WorkIsThere ==
    clean /\ pc \in {"snoozed", "editor"} =>
      \A f \in events : /\ f.id = work.id => f.tag = work.tag
                        /\ f.tag = work.tag /\ f.tag # 0 => f.id = work.id

WorkIsAway ==
    clean /\ pc \in {"toggled", "saving"} =>
      \A f \in events : /\ f.tag # 0 => f.tag # work.tag
                        /\ f.id # work.id

AnswerIsKept ==
    clean /\ pc \in {"editor", "toggled", "saving"}
          /\ work.tag # 0 /\ asked[work.tag] = "answered"
          /\ work.tag \notin moved => work.id \in acks

RmInv ==
    /\ TypeOK
    /\ IdsDistinct
    /\ Tagged
    /\ TagsDistinct
    /\ WorkIsThere
    /\ WorkIsAway
    /\ AnswerIsKept
    /\ NothingForgotten
    /\ AnsweredStaysQuiet

-----------------------------------------------------------------------------
(* Records, writes and tags.                                               *)

LEMMA EventFields ==
  ASSUME NEW e \in Event
  PROVE  /\ e.id \in Ids
         /\ e.starts \in Days \cup {None}
         /\ e.remind \in Days \cup {None}
         /\ e.tag \in 0..MaxTags
         /\ e.tag # 0 => e.tag \in Tags
BY RemindersAssumption DEF Event, Tags

LEMMA NoEventIsEvent == NoEvent \in Event /\ NoEvent.tag = 0
BY RemindersAssumption DEF NoEvent, Event, Ids, Days

LEMMA NewIdEvent ==
  ASSUME NEW e \in Event, NEW id \in Ids
  PROVE  LET c == [e EXCEPT !.id = id] IN
         /\ c \in Event
         /\ c.id = id /\ c.remind = e.remind /\ c.tag = e.tag
BY DEF Event

LEMMA PlainEvent ==
  ASSUME NEW id \in Ids, NEW s \in Days \cup {None}
  PROVE  LET c == [NoEvent EXCEPT !.id = id, !.starts = s] IN
         /\ c \in Event
         /\ c.id = id /\ c.tag = 0 /\ c.remind = None
BY NoEventIsEvent DEF Event, NoEvent

LEMMA BlankEvent ==
  ASSUME NEW id \in Ids
  PROVE  LET c == [NoEvent EXCEPT !.id = id] IN
         /\ c \in Event
         /\ c.id = id /\ c.tag = 0 /\ c.remind = None
BY NoEventIsEvent DEF Event, NoEvent

\* What a write leaves: the old, the new or nothing; an error but no crash
\* does not leave the new.
LEMMA WrittenBody ==
  ASSUME NEW old, NEW new, NEW o \in Written(old, new)
  PROVE  /\ o.ret \in {"ok", "write", "crash"}
         /\ o.body \in {old, {}, new}
         /\ o.ret = "ok" => o.body = new
         /\ o.ret = "write" => o.body \in {old, {}}
BY RemindersAssumption DEF Written

LEMMA AckedBody ==
  ASSUME NEW id, NEW o \in Acked(id)
  PROVE  /\ o.ret \in {"ok", "write", "crash"}
         /\ o.body \in {acks, {}, acks \cup {id}}
         /\ o.ret = "ok" => o.body = acks \cup {id}
         /\ o.body \subseteq acks \cup {id}
         /\ id \notin o.body => o.body \subseteq acks /\ o.ret # "ok"
<1>1. CASE id \in acks
  <2>1. o = [ret |-> "ok", body |-> acks] /\ acks \cup {id} = acks
    BY <1>1 DEF Acked
  <2> QED
    BY <2>1
<1>2. CASE id \notin acks
  <2>1. o \in Written(acks, acks \cup {id})
    BY <1>2 DEF Acked, AckFile
  <2> QED
    BY <2>1, WrittenBody
<1> QED
  BY <1>1, <1>2

LEMMA HarmlessBody ==
  ASSUME NEW old, NEW o, o.ret = "ok" => old \subseteq o.body,
         Harmless(old, o)
  PROVE  old \subseteq o.body
BY DEF Harmless

LEMMA FreshTag ==
  MoreTags => Fresh \in Tags /\ asked[Fresh] = "unset"
BY DEF MoreTags, Fresh

LEMMA TagZero == 0 \notin Tags /\ 0 \in 0..MaxTags /\ Tags \subseteq 0..MaxTags
BY RemindersAssumption DEF Tags

LEMMA NextIdIsFree ==
  ASSUME NEW id, NEW day, IsNextId(id, day)
  PROVE  \A e \in events : e.id # id
BY DEF IsNextId

\* An event that next_id_for_date can give its id back gets it back.
LEMMA IdGivenBack ==
  ASSUME NEW e \in Event, NEW id \in Ids, IsNextId(id, IdDay(e)),
         \A f \in events : f.id # e.id, ~Moves(e)
  PROVE  id = e.id
<1>1. /\ e.id \in Ids /\ e.id.day = id.day
      /\ \A n \in 0..(e.id.num - 1) :
           \E f \in events : f.id = [day |-> id.day, num |-> n]
  BY EventFields DEF Moves, IsNextId
<1>2. /\ \A f \in events : f.id # id
      /\ \A n \in 0..(id.num - 1) :
           \E f \in events : f.id = [day |-> id.day, num |-> n]
  BY DEF IsNextId
<1>3. /\ id.num \in Nat /\ e.id.num \in Nat
      /\ id = [day |-> id.day, num |-> id.num]
      /\ e.id = [day |-> id.day, num |-> e.id.num]
  BY <1>1, RemindersAssumption DEF Ids
<1>4. ~(id.num < e.id.num)
  BY <1>1, <1>2, <1>3
<1>5. ~(e.id.num < id.num)
  BY <1>2, <1>3
<1> QED
  BY <1>3, <1>4, <1>5

\* What an answer changes in the record of the reminders.
LEMMA AnsweredRecord ==
  ASSUME TypeOK, NEW tag, NEW id, NEW o, Answered(tag, id, o)
  PROVE  /\ asked' \in [Tags -> {"unset", "wanted", "answered", "gone"}]
         /\ moved' \subseteq moved
         /\ \A t \in Tags : t # tag => /\ asked'[t] = asked[t]
                                     /\ (t \in moved <=> t \in moved')
         /\ \A t \in Tags : asked'[t] \in {asked[t], "answered"}
         /\ o.ret = "ok" \/ id \in o.body => \A t \in Tags : t = tag => asked'[t] = "answered"
         /\ ~(o.ret = "ok" \/ id \in o.body) => asked' = asked /\ moved' = moved
<1> DEFINE done == o.ret = "ok" \/ id \in o.body
<1>1. /\ asked' = [t \in Tags |-> IF t = tag /\ done THEN "answered" ELSE asked[t]]
      /\ moved' = {t \in moved : ~(t = tag /\ done)}
  BY DEF Answered
<1>2. asked \in [Tags -> {"unset", "wanted", "answered", "gone"}]
  BY DEF TypeOK
<1> HIDE DEF done
<1>3. ~done => asked' = asked /\ moved' = moved
  BY <1>1, <1>2
<1>4. /\ asked' \in [Tags -> {"unset", "wanted", "answered", "gone"}]
      /\ moved' \subseteq moved
      /\ \A t \in Tags : t # tag => /\ asked'[t] = asked[t]
                                  /\ (t \in moved <=> t \in moved')
      /\ \A t \in Tags : asked'[t] \in {asked[t], "answered"}
      /\ done => \A t \in Tags : t = tag => asked'[t] = "answered"
  BY <1>1, <1>2
<1> QED
  BY <1>3, <1>4 DEF done

-----------------------------------------------------------------------------
(* The alert.                                                              *)

LEMMA AlertAckKeeps ==
  ASSUME RmInv, AlertAck, UNCHANGED now
  PROVE  RmInv'
<1> USE DEF RmInv
<1>1. PICK e \in Shown : \E o \in Acked(e.id) :
         /\ acks' = o.body
         /\ Answered(e.tag, e.id, o)
         /\ clean' = (clean /\ Harmless(acks, o) /\ o.ret # "write")
  BY DEF AlertAck
<1>2. PICK o \in Acked(e.id) :
         /\ acks' = o.body
         /\ Answered(e.tag, e.id, o)
         /\ clean' = (clean /\ Harmless(acks, o) /\ o.ret # "write")
  BY <1>1
<1>3. /\ events' = events /\ silenced' = silenced
      /\ pc' = "list" /\ work' = NoEvent /\ now' = now
      /\ pc = "alert"
  BY DEF AlertAck, ToList
<1>4. e \in events /\ e \in Event /\ e.remind # None
  BY DEF Shown, Unacked, TypeOK
<1>5. /\ o.body \in {acks, {}, acks \cup {e.id}}
      /\ o.ret = "ok" => o.body = acks \cup {e.id}
      /\ o.body \subseteq acks \cup {e.id}
      /\ e.id \notin o.body => o.body \subseteq acks /\ o.ret # "ok"
  BY AckedBody
<1>6. clean' => clean /\ acks \subseteq acks'
  BY <1>2, <1>5, HarmlessBody
<1>7. e.id \in Ids /\ e.tag \in Tags
  BY <1>4, EventFields DEF Tagged
<1>8. /\ asked' \in [Tags -> {"unset", "wanted", "answered", "gone"}]
      /\ moved' \subseteq moved
      /\ \A t \in Tags : t # e.tag => /\ asked'[t] = asked[t]
                                    /\ (t \in moved <=> t \in moved')
      /\ \A t \in Tags : asked'[t] \in {asked[t], "answered"}
      /\ o.ret = "ok" \/ e.id \in o.body => asked'[e.tag] = "answered"
      /\ ~(o.ret = "ok" \/ e.id \in o.body) => asked' = asked /\ moved' = moved
  BY <1>2, <1>7, AnsweredRecord
<1>9. TypeOK'
  <2>1. acks' \subseteq Ids
    BY <1>2, <1>5, <1>7 DEF TypeOK
  <2>2. clean' \in BOOLEAN
    BY <1>2 DEF TypeOK
  <2> QED
    BY <1>3, <1>8, <2>1, <2>2, NoEventIsEvent DEF TypeOK
<1>10. IdsDistinct'
  BY <1>3 DEF IdsDistinct
<1>11. Tagged'
  <2>1. \A f \in events : f.tag # 0 => f.tag \in Tags
    BY EventFields DEF TypeOK
  <2> QED
    BY <1>3, <1>8, <2>1, NoEventIsEvent DEF Tagged, NoEvent
<1>12. TagsDistinct' /\ WorkIsThere' /\ WorkIsAway' /\ AnswerIsKept'
  BY <1>3, <1>6 DEF TagsDistinct, WorkIsThere, WorkIsAway, AnswerIsKept
<1>13. NothingForgotten'
  <2> SUFFICES ASSUME clean', NEW t \in Tags, asked'[t] = "wanted"
               PROVE  \E f \in events : f.tag = t /\ (f.id \in acks' => t \in silenced)
    BY <1>3 DEF NothingForgotten, Stands
  <2>1. asked[t] = "wanted"
    BY <1>8
  <2>2. PICK f \in events : f.tag = t /\ (f.id \in acks => t \in silenced)
    BY <1>3, <1>6, <2>1 DEF NothingForgotten, Stands
  <2>3. CASE f.id = e.id
    <3>1. t = e.tag
      BY <1>4, <2>2, <2>3 DEF IdsDistinct
    <3>2. e.id \notin acks'
      BY <1>2, <1>8, <3>1
    <3> QED
      BY <2>2, <2>3, <3>2
  <2>4. CASE f.id # e.id
    BY <1>2, <1>5, <2>2, <2>4
  <2> QED
    BY <2>3, <2>4
<1>14. AnsweredStaysQuiet'
  <2> SUFFICES ASSUME clean', NEW f \in Unacked', asked'[f.tag] = "answered"
               PROVE  f.tag \in moved'
    BY DEF AnsweredStaysQuiet
  <2>1. f \in Unacked /\ f \in events
    BY <1>3, <1>6 DEF Unacked
  <2>2. f.tag \in Tags
    BY <2>1, EventFields DEF TypeOK, Tagged, Unacked
  <2>3. CASE f.tag = e.tag
    <3>1. f = e
      BY <1>4, <1>6, <1>7, <2>1, <2>3, TagZero DEF TagsDistinct
    <3>2. e.id \notin o.body
      BY <1>2, <3>1 DEF Unacked
    <3>3. asked' = asked /\ moved' = moved
      BY <1>5, <1>8, <3>2
    <3> QED
      BY <1>6, <2>1, <3>3 DEF AnsweredStaysQuiet
  <2>4. CASE f.tag # e.tag
    <3>1. asked[f.tag] = "answered" /\ (f.tag \in moved <=> f.tag \in moved')
      BY <1>8, <2>2, <2>4
    <3> QED
      BY <1>6, <2>1, <3>1 DEF AnsweredStaysQuiet
  <2> QED
    BY <2>3, <2>4
<1> QED
  BY <1>9, <1>10, <1>11, <1>12, <1>13, <1>14

LEMMA AlertSnoozeKeeps ==
  ASSUME RmInv, AlertSnooze, UNCHANGED now
  PROVE  RmInv'
<1> USE DEF RmInv
<1>1. PICK e \in Shown, id \in Ids :
         /\ Added(e, id)
         /\ LET copy == [e EXCEPT !.id = id, !.remind = now, !.tag = Fresh] IN
            \E o \in Written(events, events \cup {copy}) :
              /\ events' = o.body
              /\ IF copy \in events'
                   THEN /\ asked' = [asked EXCEPT ![Fresh] = "wanted"]
                        /\ silenced' = Silenced(Fresh, id)
                   ELSE UNCHANGED <<asked, silenced>>
              /\ clean' = (clean /\ Harmless(events, o) /\ o.ret # "write")
              /\ IF o.ret = "crash" THEN ToList
                 ELSE pc' = "snoozed" /\ work' = e
  BY DEF AlertSnooze
<1> DEFINE c == [e EXCEPT !.id = id, !.remind = now, !.tag = Fresh]
<1>2. PICK o \in Written(events, events \cup {c}) :
         /\ events' = o.body
         /\ IF c \in events'
              THEN /\ asked' = [asked EXCEPT ![Fresh] = "wanted"]
                   /\ silenced' = Silenced(Fresh, id)
              ELSE UNCHANGED <<asked, silenced>>
         /\ clean' = (clean /\ Harmless(events, o) /\ o.ret # "write")
         /\ IF o.ret = "crash" THEN ToList
            ELSE pc' = "snoozed" /\ work' = e
  BY <1>1
<1>3. /\ Fresh \in Tags /\ asked[Fresh] = "unset"
      /\ acks' = acks /\ now' = now /\ pc = "alert"
  BY FreshTag DEF AlertSnooze
<1>4. e \in events /\ e \in Event /\ e.remind # None
  BY DEF Shown, Unacked, TypeOK
<1>5. now \in Days /\ now # None
  BY RemindersAssumption DEF TypeOK
<1>6. /\ c \in Event /\ c.id = id /\ c.remind = now /\ c.tag = Fresh
      /\ \A f \in events : f.id # id
  <2>1. \A f \in events : f.id # id
    BY <1>1, NextIdIsFree DEF Added
  <2>2. \A r \in Days, t \in Tags :
          LET k == [e EXCEPT !.id = id, !.remind = r, !.tag = t] IN
          /\ k \in Event
          /\ k.id = id /\ k.remind = r /\ k.tag = t
    <3> TAKE r \in Days, t \in Tags
    <3>1. r \in Days \cup {None} /\ t \in 0..MaxTags /\ e \in Event /\ id \in Ids
      BY <1>4, TagZero
    <3> HIDE DEF RmInv
    <3> QED
      BY <3>1 DEF Event
  <2> QED
    BY <1>3, <1>5, <2>1, <2>2
<1>7. /\ events' \subseteq events \cup {c}
      /\ o.ret = "ok" => c \in events'
  BY <1>2, WrittenBody
<1>8. o.ret = "ok" => events \subseteq o.body
  BY WrittenBody
<1>9. clean' => clean /\ events \subseteq events' /\ o.ret \in {"ok", "crash"}
  <2>1. clean' => clean /\ Harmless(events, o) /\ o.ret # "write"
    BY <1>2
  <2>2. Harmless(events, o) => events \subseteq o.body
    BY <1>8 DEF Harmless
  <2>3. o.ret \in {"ok", "write", "crash"}
    BY WrittenBody
  <2> QED
    BY <1>2, <2>1, <2>2, <2>3
<1> HIDE DEF c
<1>10. \/ pc' = "list" /\ work' = NoEvent
       \/ pc' = "snoozed" /\ work' = e /\ o.ret # "crash"
  BY <1>2 DEF ToList
<1>11. /\ \A t \in Tags : t # Fresh => /\ asked'[t] = asked[t]
                                      /\ (t \in silenced => t \in silenced')
       /\ c \in events' => /\ asked'[Fresh] = "wanted"
                          /\ (id \in acks => Fresh \in silenced')
       /\ c \notin events' => asked' = asked
       /\ asked' \in [Tags -> {"unset", "wanted", "answered", "gone"}]
       /\ silenced' \subseteq Tags
  BY <1>2, <1>3 DEF TypeOK, Silenced
<1>12. moved' = moved
  BY DEF AlertSnooze
<1>13. \A f \in events : /\ f \in Event
                         /\ f.tag # 0 => f.tag \in Tags /\ asked[f.tag] # "unset"
                         /\ f.tag # Fresh
  BY <1>3, EventFields, TagZero DEF TypeOK, Tagged
<1>14. TypeOK'
  BY <1>2, <1>3, <1>4, <1>6, <1>7, <1>10, <1>11, <1>12, NoEventIsEvent DEF TypeOK
<1>15. IdsDistinct'
  BY <1>6, <1>7 DEF IdsDistinct
<1>16. Tagged'
  <2>1. ASSUME NEW f \in events, f.tag # 0
        PROVE  asked'[f.tag] # "unset"
    BY <2>1, <1>11, <1>13
  <2>2. c \in events' => asked'[Fresh] # "unset"
    BY <1>11
  <2>3. \A f \in events : f.tag # 0 <=> f.remind # None
    BY DEF Tagged
  <2> QED
    BY <1>3, <1>4, <1>5, <1>6, <1>7, <1>10, <2>1, <2>2, <2>3, NoEventIsEvent,
       TagZero DEF Tagged, NoEvent
<1>17. TagsDistinct'
  BY <1>6, <1>7, <1>9, <1>13 DEF TagsDistinct
<1>18. WorkIsThere'
  BY <1>4, <1>6, <1>7, <1>9, <1>10, <1>13 DEF WorkIsThere, TagsDistinct, IdsDistinct
<1>19. WorkIsAway' /\ AnswerIsKept'
  BY <1>10 DEF WorkIsAway, AnswerIsKept
<1>20. NothingForgotten'
  <2> SUFFICES ASSUME clean', NEW t \in Tags, asked'[t] = "wanted"
               PROVE  \E f \in events' : f.tag = t /\ (f.id \in acks => t \in silenced')
    BY <1>3 DEF NothingForgotten, Stands
  <2>1. CASE t = Fresh
    <3>1. c \in events'
      BY <1>3, <1>11, <2>1
    <3> QED
      BY <1>6, <1>11, <2>1, <3>1
  <2>2. CASE t # Fresh
    <3>1. asked[t] = "wanted" /\ (t \in silenced => t \in silenced')
      BY <1>11, <2>2
    <3>2. PICK f \in events : f.tag = t /\ (f.id \in acks => t \in silenced)
      BY <1>3, <1>9, <3>1 DEF NothingForgotten, Stands
    <3> QED
      BY <1>9, <3>1, <3>2
  <2> QED
    BY <2>1, <2>2
<1>21. AnsweredStaysQuiet'
  <2> SUFFICES ASSUME clean', NEW f \in Unacked', asked'[f.tag] = "answered"
               PROVE  f.tag \in moved'
    BY DEF AnsweredStaysQuiet
  <2>1. CASE f = c
    BY <1>6, <1>11, <2>1 DEF Unacked
  <2>2. CASE f # c
    <3>1. f \in events /\ f \in Unacked
      BY <1>3, <1>7, <2>2 DEF Unacked
    <3>2. f.tag \in Tags /\ f.tag # Fresh
      BY <1>13, <3>1 DEF Unacked, Tagged
    <3> QED
      BY <1>9, <1>11, <1>12, <3>1, <3>2 DEF AnsweredStaysQuiet
  <2> QED
    BY <2>1, <2>2
<1> QED
  BY <1>14, <1>15, <1>16, <1>17, <1>18, <1>19, <1>20, <1>21

LEMMA SnoozeAckKeeps ==
  ASSUME RmInv, SnoozeAck, UNCHANGED now
  PROVE  RmInv'
<1> USE DEF RmInv
<1>1. PICK o \in Acked(work.id) :
         /\ acks' = o.body
         /\ Answered(work.tag, work.id, o)
         /\ clean' = (clean /\ Harmless(acks, o) /\ o.ret # "write")
  BY DEF SnoozeAck
<1>2. /\ events' = events /\ silenced' = silenced
      /\ pc' = "list" /\ work' = NoEvent /\ now' = now
      /\ pc = "snoozed"
  BY DEF SnoozeAck, ToList
<1>3. /\ o.body \in {acks, {}, acks \cup {work.id}}
      /\ o.ret = "ok" => o.body = acks \cup {work.id}
      /\ o.body \subseteq acks \cup {work.id}
      /\ work.id \notin o.body => o.body \subseteq acks /\ o.ret # "ok"
  BY AckedBody
<1>4. clean' => clean /\ acks \subseteq acks'
  BY <1>1, <1>3, HarmlessBody
<1>5. work \in Event /\ work.id \in Ids
  BY EventFields DEF TypeOK
<1>6. \A f \in events : f.tag # 0 => f.tag \in Tags
  BY EventFields DEF TypeOK
<1>7. /\ asked' \in [Tags -> {"unset", "wanted", "answered", "gone"}]
      /\ moved' \subseteq moved
      /\ \A t \in Tags : t # work.tag => /\ asked'[t] = asked[t]
                                       /\ (t \in moved <=> t \in moved')
      /\ \A t \in Tags : asked'[t] \in {asked[t], "answered"}
      /\ o.ret = "ok" \/ work.id \in o.body =>
           \A t \in Tags : t = work.tag => asked'[t] = "answered"
      /\ ~(o.ret = "ok" \/ work.id \in o.body) => asked' = asked /\ moved' = moved
  BY <1>1, AnsweredRecord
<1>8. TypeOK'
  <2>1. acks' \subseteq Ids
    BY <1>1, <1>3, <1>5 DEF TypeOK
  <2>2. clean' \in BOOLEAN
    BY <1>1 DEF TypeOK
  <2> QED
    BY <1>2, <1>7, <2>1, <2>2, NoEventIsEvent DEF TypeOK
<1>9. IdsDistinct'
  BY <1>2 DEF IdsDistinct
<1>10. Tagged'
  BY <1>2, <1>6, <1>7, NoEventIsEvent DEF Tagged, NoEvent
<1>11. TagsDistinct' /\ WorkIsThere' /\ WorkIsAway' /\ AnswerIsKept'
  BY <1>2, <1>4 DEF TagsDistinct, WorkIsThere, WorkIsAway, AnswerIsKept
<1>12. NothingForgotten'
  <2> SUFFICES ASSUME clean', NEW t \in Tags, asked'[t] = "wanted"
               PROVE  \E f \in events : f.tag = t /\ (f.id \in acks' => t \in silenced)
    BY <1>2 DEF NothingForgotten, Stands
  <2>1. asked[t] = "wanted"
    BY <1>7
  <2>2. PICK f \in events : f.tag = t /\ (f.id \in acks => t \in silenced)
    BY <1>2, <1>4, <2>1 DEF NothingForgotten, Stands
  <2>3. CASE f.id = work.id
    <3>1. t = work.tag
      BY <1>2, <1>4, <2>2, <2>3 DEF WorkIsThere
    <3>2. work.id \notin acks'
      BY <1>1, <1>7, <3>1
    <3> QED
      BY <2>2, <2>3, <3>2
  <2>4. CASE f.id # work.id
    BY <1>1, <1>3, <2>2, <2>4
  <2> QED
    BY <2>3, <2>4
<1>13. AnsweredStaysQuiet'
  <2> SUFFICES ASSUME clean', NEW f \in Unacked', asked'[f.tag] = "answered"
               PROVE  f.tag \in moved'
    BY DEF AnsweredStaysQuiet
  <2>1. f \in Unacked /\ f \in events
    BY <1>2, <1>4 DEF Unacked
  <2>2. f.tag \in Tags
    BY <1>6, <2>1 DEF Tagged, Unacked
  <2>3. CASE f.tag = work.tag
    <3>1. f.id = work.id
      BY <1>2, <1>4, <2>1, <2>2, <2>3, TagZero DEF WorkIsThere
    <3>2. work.id \notin o.body
      BY <1>1, <3>1 DEF Unacked
    <3>3. asked' = asked /\ moved' = moved
      BY <1>3, <1>7, <3>2
    <3> QED
      BY <1>4, <2>1, <3>3 DEF AnsweredStaysQuiet
  <2>4. CASE f.tag # work.tag
    <3>1. asked[f.tag] = "answered" /\ (f.tag \in moved <=> f.tag \in moved')
      BY <1>7, <2>2, <2>4
    <3> QED
      BY <1>4, <2>1, <3>1 DEF AnsweredStaysQuiet
  <2> QED
    BY <2>3, <2>4
<1> QED
  BY <1>8, <1>9, <1>10, <1>11, <1>12, <1>13

\* Dismissing an alert, leaving the editor and a power cut go to the list.
LEMMA ToListKeeps ==
  ASSUME RmInv, ToList, UNCHANGED <<files, now, asked, silenced, moved>>,
         clean' \in BOOLEAN,
         clean' => clean /\ pc \notin {"toggled", "saving"}
  PROVE  RmInv'
<1> USE DEF RmInv
<1>1. /\ events' = events /\ acks' = acks /\ now' = now /\ asked' = asked
      /\ silenced' = silenced /\ moved' = moved
      /\ pc' = "list" /\ work' = NoEvent
  BY DEF ToList, files
<1>2. TypeOK'
  BY <1>1, NoEventIsEvent DEF TypeOK
<1>3. Tagged'
  BY <1>1, NoEventIsEvent DEF Tagged, NoEvent
<1>4. IdsDistinct' /\ TagsDistinct' /\ WorkIsThere' /\ WorkIsAway'
  BY <1>1 DEF IdsDistinct, TagsDistinct, WorkIsThere, WorkIsAway
<1>5. AnswerIsKept'
  BY <1>1 DEF AnswerIsKept
<1>6. NothingForgotten' /\ AnsweredStaysQuiet'
  BY <1>1 DEF NothingForgotten, AnsweredStaysQuiet, Stands, Unacked
<1> QED
  BY <1>2, <1>3, <1>4, <1>5, <1>6

LEMMA OpenAlertKeeps ==
  ASSUME RmInv, OpenAlert, UNCHANGED now
  PROVE  RmInv'
<1> USE DEF RmInv
<1>1. /\ events' = events /\ acks' = acks /\ now' = now /\ asked' = asked
      /\ silenced' = silenced /\ moved' = moved
      /\ pc = "list" /\ pc' = "alert" /\ work' = work /\ clean' = clean
  BY DEF OpenAlert, files, history
<1>2. TypeOK' /\ Tagged'
  BY <1>1 DEF TypeOK, Tagged
<1>3. IdsDistinct' /\ TagsDistinct' /\ WorkIsThere' /\ WorkIsAway'
  BY <1>1 DEF IdsDistinct, TagsDistinct, WorkIsThere, WorkIsAway
<1>4. AnswerIsKept'
  BY <1>1 DEF AnswerIsKept
<1>5. NothingForgotten' /\ AnsweredStaysQuiet'
  BY <1>1 DEF NothingForgotten, AnsweredStaysQuiet, Stands, Unacked
<1> QED
  BY <1>2, <1>3, <1>4, <1>5

LEMMA TickKeeps ==
  ASSUME RmInv, Tick
  PROVE  RmInv'
<1> USE DEF RmInv
<1>1. /\ events' = events /\ acks' = acks /\ asked' = asked
      /\ silenced' = silenced /\ moved' = moved
      /\ pc' = pc /\ work' = work /\ clean' = clean
  BY DEF Tick, files, screen, history
<1>2. now' \in Days
  BY RemindersAssumption DEF Tick, TypeOK, Days
<1>3. TypeOK' /\ Tagged'
  BY <1>1, <1>2 DEF TypeOK, Tagged
<1>4. IdsDistinct' /\ TagsDistinct' /\ WorkIsThere' /\ WorkIsAway'
  BY <1>1 DEF IdsDistinct, TagsDistinct, WorkIsThere, WorkIsAway
<1>5. AnswerIsKept'
  BY <1>1 DEF AnswerIsKept
<1>6. NothingForgotten' /\ AnsweredStaysQuiet'
  BY <1>1 DEF NothingForgotten, AnsweredStaysQuiet, Stands, Unacked
<1> QED
  BY <1>3, <1>4, <1>5, <1>6

-----------------------------------------------------------------------------
(* The calendar list.                                                      *)

LEMMA AddEventKeeps ==
  ASSUME RmInv, AddEvent, UNCHANGED now
  PROVE  RmInv'
<1> USE DEF RmInv
<1>1. PICK starts \in Days \cup {None}, id \in Ids :
         LET e == [NoEvent EXCEPT !.id = id, !.starts = starts] IN
         /\ Added(e, id)
         /\ \E o \in Written(events, events \cup {e}) :
              /\ events' = o.body
              /\ clean' = (clean /\ Harmless(events, o))
  BY DEF AddEvent
<1> DEFINE e == [NoEvent EXCEPT !.id = id, !.starts = starts]
<1>2. PICK o \in Written(events, events \cup {e}) :
         /\ events' = o.body
         /\ clean' = (clean /\ Harmless(events, o))
  BY <1>1
<1>3. /\ acks' = acks /\ now' = now /\ asked' = asked
      /\ silenced' = silenced /\ moved' = moved
      /\ pc = "list" /\ pc' = "list" /\ work' = work
  BY DEF AddEvent, screen
<1>4. e \in Event /\ e.id = id /\ e.tag = 0 /\ e.remind = None
  BY PlainEvent
<1>5. \A f \in events : f.id # id
  BY <1>1, NextIdIsFree DEF Added
<1>6. /\ events' \subseteq events \cup {e}
      /\ o.ret = "ok" => events \subseteq o.body
  BY <1>2, WrittenBody
<1>7. clean' => clean /\ events \subseteq events'
  BY <1>2, <1>6 DEF Harmless
<1>8. clean' \in BOOLEAN
  BY <1>2 DEF TypeOK
<1> HIDE DEF e
<1>9. TypeOK'
  BY <1>3, <1>4, <1>6, <1>8 DEF TypeOK
<1>10. IdsDistinct' /\ Tagged'
  BY <1>3, <1>4, <1>5, <1>6 DEF IdsDistinct, Tagged
<1>11. TagsDistinct'
  BY <1>4, <1>6, <1>7 DEF TagsDistinct
<1>12. WorkIsThere' /\ WorkIsAway' /\ AnswerIsKept'
  BY <1>3 DEF WorkIsThere, WorkIsAway, AnswerIsKept
<1>13. NothingForgotten'
  BY <1>3, <1>7 DEF NothingForgotten, Stands
<1>14. AnsweredStaysQuiet'
  BY <1>3, <1>4, <1>6, <1>7 DEF AnsweredStaysQuiet, Unacked, Tagged
<1> QED
  BY <1>9, <1>10, <1>11, <1>12, <1>13, <1>14

LEMMA ToggleKeeps ==
  ASSUME RmInv, Toggle, UNCHANGED now
  PROVE  RmInv'
<1> USE DEF RmInv
<1>1. PICK e \in Listed : \E o \in Written(events, Without(e.id)) :
         /\ events' = o.body
         /\ clean' = (clean /\ o.ret = "ok")
         /\ IF o.ret = "crash" THEN ToList
            ELSE pc' = "toggled" /\ work' = e
  BY DEF Toggle
<1>2. PICK o \in Written(events, Without(e.id)) :
         /\ events' = o.body
         /\ clean' = (clean /\ o.ret = "ok")
         /\ IF o.ret = "crash" THEN ToList
            ELSE pc' = "toggled" /\ work' = e
  BY <1>1
<1>3. /\ acks' = acks /\ now' = now /\ asked' = asked /\ pc = "list"
      /\ silenced' = silenced /\ moved' = moved
  BY DEF Toggle
<1>4. e \in events /\ e \in Event
  BY DEF Listed, TypeOK
<1>5. /\ events' \subseteq events
      /\ o.ret = "ok" => events' = Without(e.id)
  BY <1>2, WrittenBody DEF Without
<1>6. clean' => clean /\ events' = Without(e.id) /\ pc' = "toggled" /\ work' = e
  BY <1>2, <1>5
<1>7. \/ pc' = "list" /\ work' = NoEvent
      \/ pc' = "toggled" /\ work' = e
  BY <1>2 DEF ToList
<1>8. clean' \in BOOLEAN
  BY <1>2 DEF TypeOK
<1>9. \A f \in events : f.tag # 0 => f.tag \in Tags
  BY EventFields DEF TypeOK
<1>10. TypeOK'
  BY <1>3, <1>4, <1>5, <1>7, <1>8, NoEventIsEvent DEF TypeOK
<1>11. IdsDistinct' /\ TagsDistinct'
  BY <1>5, <1>6 DEF IdsDistinct, TagsDistinct
<1>12. Tagged'
  BY <1>3, <1>4, <1>5, <1>7, NoEventIsEvent DEF Tagged, NoEvent
<1>13. WorkIsThere'
  BY <1>7 DEF WorkIsThere
<1>14. WorkIsAway'
  BY <1>4, <1>6 DEF WorkIsAway, TagsDistinct, Without
<1>15. AnswerIsKept'
  <2> SUFFICES ASSUME clean', work'.tag # 0, asked'[work'.tag] = "answered",
                      work'.tag \notin moved'
               PROVE  work'.id \in acks'
    BY DEF AnswerIsKept
  <2>1. e.tag # 0 /\ asked[e.tag] = "answered" /\ e.remind # None
    BY <1>3, <1>4, <1>6 DEF Tagged
  <2> QED
    BY <1>3, <1>4, <1>6, <2>1 DEF AnsweredStaysQuiet, Unacked
<1>16. NothingForgotten'
  <2> SUFFICES ASSUME clean', NEW t \in Tags, asked[t] = "wanted", e.tag # t
               PROVE  Stands(t)'
    BY <1>3, <1>6 DEF NothingForgotten
  <2>1. PICK f \in events : f.tag = t /\ (f.id \in acks => t \in silenced)
    BY <1>3, <1>6 DEF NothingForgotten, Stands
  <2>2. f.id # e.id
    BY <1>4, <2>1 DEF IdsDistinct
  <2> QED
    BY <1>3, <1>6, <2>1, <2>2 DEF Stands, Without
<1>17. AnsweredStaysQuiet'
  BY <1>3, <1>5, <1>6 DEF AnsweredStaysQuiet, Unacked
<1> QED
  BY <1>10, <1>11, <1>12, <1>13, <1>14, <1>15, <1>16, <1>17

\* The addition that ends a toggle or an edit, whichever screen follows.
LEMMA ReaddKeeps ==
  ASSUME RmInv, pc \in {"toggled", "saving"},
         \/ Readd(ToList)
         \/ Readd(pc' = "editor" /\ UNCHANGED work),
         UNCHANGED <<acks, now, asked>>
  PROVE  RmInv'
<1> USE DEF RmInv
<1>1. PICK id \in Ids :
         LET e == [work EXCEPT !.id = id] IN
         /\ Added(work, id)
         /\ \E o \in Written(events, events \cup {e}) :
              /\ events' = o.body
              /\ IF e \in events'
                   THEN silenced' = Silenced(work.tag, id) /\ moved' = Moved(work)
                   ELSE UNCHANGED <<silenced, moved>>
              /\ clean' = (clean /\ o.ret = "ok")
              /\ IF o.ret = "write"
                   THEN ToList \/ (pc' = "editor" /\ UNCHANGED work)
                   ELSE ToList
  BY DEF Readd
<1> DEFINE e == [work EXCEPT !.id = id]
<1>2. PICK o \in Written(events, events \cup {e}) :
         /\ events' = o.body
         /\ IF e \in events'
              THEN silenced' = Silenced(work.tag, id) /\ moved' = Moved(work)
              ELSE UNCHANGED <<silenced, moved>>
         /\ clean' = (clean /\ o.ret = "ok")
         /\ IF o.ret = "write"
              THEN ToList \/ (pc' = "editor" /\ UNCHANGED work)
              ELSE ToList
  BY <1>1
<1>3. acks' = acks /\ now' = now /\ asked' = asked /\ work \in Event
  BY DEF TypeOK
<1>4. e \in Event /\ e.id = id /\ e.remind = work.remind /\ e.tag = work.tag
  BY <1>3, NewIdEvent
<1>5. /\ \A f \in events : f.id # id
      /\ IsNextId(id, IdDay(work))
  BY <1>1, NextIdIsFree DEF Added
<1>6. /\ events' \subseteq events \cup {e}
      /\ o.ret = "ok" => events' = events \cup {e}
  BY <1>2, WrittenBody
<1>7. clean' \in BOOLEAN
  BY <1>2 DEF TypeOK
<1> HIDE DEF e
<1>8. \/ pc' = "list" /\ work' = NoEvent
      \/ pc' = "editor" /\ work' = work /\ ~clean'
  BY <1>2 DEF ToList
<1>9. clean' => /\ clean /\ events' = events \cup {e}
                /\ silenced' = Silenced(work.tag, id) /\ moved' = Moved(work)
                /\ pc' = "list"
  BY <1>2, <1>6, <1>8
<1>10. silenced' \subseteq Tags /\ moved' \subseteq Tags
  BY <1>2 DEF TypeOK, Silenced, Moved
<1>11. \A f \in events \cup {work} : f.tag # 0 => f.tag \in Tags
  BY EventFields DEF TypeOK
<1>12. TypeOK'
  BY <1>3, <1>4, <1>6, <1>7, <1>8, <1>10, NoEventIsEvent DEF TypeOK
<1>13. IdsDistinct'
  BY <1>4, <1>5, <1>6 DEF IdsDistinct
<1>14. Tagged'
  BY <1>3, <1>4, <1>6, <1>8, NoEventIsEvent DEF Tagged, NoEvent
<1>15. TagsDistinct'
  BY <1>4, <1>9 DEF TagsDistinct, WorkIsAway
<1>16. WorkIsThere' /\ WorkIsAway' /\ AnswerIsKept'
  BY <1>8 DEF WorkIsThere, WorkIsAway, AnswerIsKept
<1>17. NothingForgotten'
  <2> SUFFICES ASSUME clean', NEW t \in Tags, asked[t] = "wanted"
               PROVE  \E f \in events' : f.tag = t /\ (f.id \in acks => t \in silenced')
    BY <1>3 DEF NothingForgotten, Stands
  <2>1. CASE work.tag = t
    <3>1. id \in acks => t \in silenced'
      BY <1>9, <2>1 DEF Silenced
    <3> QED
      BY <1>4, <1>9, <2>1, <3>1
  <2>2. CASE work.tag # t
    <3>1. PICK f \in events : f.tag = t /\ (f.id \in acks => t \in silenced)
      BY <1>9, <2>2 DEF NothingForgotten, Stands
    <3>2. t \in silenced => t \in silenced'
      BY <1>9, <2>2 DEF Silenced
    <3> QED
      BY <1>9, <3>1, <3>2
  <2> QED
    BY <2>1, <2>2
<1>18. AnsweredStaysQuiet'
  <2> SUFFICES ASSUME clean', NEW f \in Unacked', asked[f.tag] = "answered",
                      f.tag \notin moved'
               PROVE  FALSE
    BY <1>3 DEF AnsweredStaysQuiet
  <2>1. f \in events \cup {e} /\ f.id \notin acks /\ f.remind # None
    BY <1>3, <1>9 DEF Unacked
  <2>2. f.tag # 0 /\ f.tag \in Tags
    BY <1>4, <1>11, <2>1 DEF Tagged
  <2>3. f.tag \notin moved /\ (f.tag = work.tag => ~Moves(work))
    BY <1>9, <2>2 DEF Moved
  <2>4. CASE f = e
    <3>1. \A g \in events : g.id # work.id
      BY <1>9 DEF WorkIsAway
    <3>2. id = work.id
      BY <1>3, <1>4, <1>5, <2>3, <2>4, <3>1, IdGivenBack
    <3> QED
      BY <1>4, <1>9, <2>1, <2>2, <2>3, <2>4, <3>2 DEF AnswerIsKept
  <2>5. CASE f \in events
    BY <1>9, <2>1, <2>3, <2>5 DEF AnsweredStaysQuiet, Unacked
  <2> QED
    BY <2>1, <2>4, <2>5
<1> QED
  BY <1>12, <1>13, <1>14, <1>15, <1>16, <1>17, <1>18

-----------------------------------------------------------------------------
(* The editor.                                                             *)

LEMMA EditorOpenKeeps ==
  ASSUME RmInv, EditorOpen, UNCHANGED now
  PROVE  RmInv'
<1> USE DEF RmInv
<1>1. /\ events' = events /\ acks' = acks /\ now' = now /\ asked' = asked
      /\ silenced' = silenced /\ moved' = moved /\ clean' = clean
      /\ pc = "list" /\ pc' = "editor"
  BY DEF EditorOpen, files, history
<1>2. \/ work' \in events
      \/ /\ work' \in Event /\ work'.tag = 0 /\ work'.remind = None
         /\ \A f \in events : f.id # work'.id
  <2>1. ASSUME NEW id \in Ids, IsNextId(id, now),
               work' = [NoEvent EXCEPT !.id = id]
        PROVE  /\ work' \in Event /\ work'.tag = 0 /\ work'.remind = None
               /\ \A f \in events : f.id # work'.id
    BY <2>1, BlankEvent, NextIdIsFree
  <2> QED
    BY <2>1 DEF EditorOpen
<1>3. work' \in Event
  BY <1>2 DEF TypeOK
<1>4. TypeOK'
  BY <1>1, <1>3 DEF TypeOK
<1>5. IdsDistinct' /\ TagsDistinct'
  BY <1>1 DEF IdsDistinct, TagsDistinct
<1>6. Tagged'
  BY <1>1, <1>2 DEF Tagged
<1>7. WorkIsThere'
  BY <1>1, <1>2 DEF WorkIsThere, IdsDistinct, TagsDistinct
<1>8. WorkIsAway'
  BY <1>1 DEF WorkIsAway
<1>9. AnswerIsKept'
  <2> SUFFICES ASSUME clean', work'.tag # 0, asked'[work'.tag] = "answered",
                      work'.tag \notin moved'
               PROVE  work'.id \in acks'
    BY DEF AnswerIsKept
  <2>1. work' \in events /\ work'.remind # None
    BY <1>2 DEF Tagged
  <2> QED
    BY <1>1, <2>1 DEF AnsweredStaysQuiet, Unacked
<1>10. NothingForgotten' /\ AnsweredStaysQuiet'
  BY <1>1 DEF NothingForgotten, AnsweredStaysQuiet, Stands, Unacked
<1> QED
  BY <1>4, <1>5, <1>6, <1>7, <1>8, <1>9, <1>10

LEMMA EditorSaveKeeps ==
  ASSUME RmInv, EditorSave, UNCHANGED now
  PROVE  RmInv'
<1> USE DEF RmInv
<1>1. PICK starts \in Days \cup {None}, remind \in Days \cup {None} :
         LET tag == IF remind = work.remind THEN work.tag
                    ELSE IF remind = None THEN 0
                    ELSE Fresh
         IN
         /\ remind \notin {None, work.remind} => MoreTags
         /\ asked' = [t \in Tags |->
                        IF t = tag /\ tag # work.tag THEN "wanted"
                        ELSE IF t = work.tag /\ tag # work.tag THEN "gone"
                        ELSE asked[t]]
         /\ \E o \in (IF \E e \in events : e.id = work.id
                        THEN Written(events, Without(work.id))
                        ELSE { [ret |-> "ok", body |-> events] }) :
              /\ events' = o.body
              /\ clean' = (clean /\ o.ret = "ok")
              /\ IF o.ret = "crash" THEN ToList
                 ELSE /\ pc' = "saving"
                      /\ work' = [work EXCEPT !.starts = starts,
                                              !.remind = remind, !.tag = tag]
  BY DEF EditorSave
<1> DEFINE tag == IF remind = work.remind THEN work.tag
                  ELSE IF remind = None THEN 0
                  ELSE Fresh
           new == [work EXCEPT !.starts = starts, !.remind = remind, !.tag = tag]
<1>2. PICK o \in (IF \E e \in events : e.id = work.id
                    THEN Written(events, Without(work.id))
                    ELSE { [ret |-> "ok", body |-> events] }) :
         /\ events' = o.body
         /\ clean' = (clean /\ o.ret = "ok")
         /\ IF o.ret = "crash" THEN ToList ELSE pc' = "saving" /\ work' = new
  BY <1>1
<1>3. /\ acks' = acks /\ now' = now /\ pc = "editor" /\ work \in Event
      /\ silenced' = silenced /\ moved' = moved
  BY DEF EditorSave, TypeOK
<1>4. /\ events' \subseteq events
      /\ o.ret = "ok" => events' = Without(work.id)
  <2>1. CASE \E e \in events : e.id = work.id
    BY <1>2, <2>1, WrittenBody DEF Without
  <2>2. CASE ~\E e \in events : e.id = work.id
    <3>1. events' = events /\ Without(work.id) = events
      BY <1>2, <2>2 DEF Without
    <3> QED
      BY <3>1
  <2> QED
    BY <2>1, <2>2
<1>5. clean' => /\ clean /\ events' = Without(work.id)
                /\ pc' = "saving" /\ work' = new
  BY <1>2, <1>4
<1>6. \/ pc' = "list" /\ work' = NoEvent
      \/ pc' = "saving" /\ work' = new
  BY <1>2 DEF ToList
<1>7. clean' \in BOOLEAN
  BY <1>2 DEF TypeOK
<1>8. asked' = [t \in Tags |->
                  IF t = tag /\ tag # work.tag THEN "wanted"
                  ELSE IF t = work.tag /\ tag # work.tag THEN "gone"
                  ELSE asked[t]]
  BY <1>1
<1>9. \/ tag = work.tag /\ remind = work.remind
      \/ tag = 0 /\ remind = None
      \/ /\ tag = Fresh /\ remind # None
         /\ Fresh \in Tags /\ asked[Fresh] = "unset"
  BY <1>1, FreshTag
<1>10. tag \in 0..MaxTags
  BY <1>3, <1>9, EventFields, TagZero
<1>11. new \in Event /\ new.id = work.id /\ new.remind = remind /\ new.tag = tag
  <2> HIDE DEF tag, RmInv
  <2> QED
    BY <1>3, <1>10 DEF Event
<1> HIDE DEF tag, new
<1>12. \A f \in events \cup {work} :
          f.tag # 0 => f.tag \in Tags /\ asked[f.tag] # "unset"
  BY EventFields DEF TypeOK, Tagged
<1>13. \A t \in Tags : asked[t] # "unset" => asked'[t] # "unset"
  BY <1>8
<1>14. TypeOK'
  <2>1. asked' \in [Tags -> {"unset", "wanted", "answered", "gone"}]
    BY <1>8 DEF TypeOK
  <2> QED
    BY <1>3, <1>4, <1>6, <1>7, <1>11, <2>1, NoEventIsEvent DEF TypeOK
<1>15. IdsDistinct' /\ TagsDistinct'
  BY <1>4, <1>5 DEF IdsDistinct, TagsDistinct
<1>16. Tagged'
  <2>1. ASSUME NEW f \in events
        PROVE  /\ f.tag # 0 => asked'[f.tag] # "unset"
               /\ f.tag # 0 <=> f.remind # None
    BY <2>1, <1>12, <1>13 DEF Tagged
  <2>2. /\ tag # 0 => asked'[tag] # "unset"
        /\ tag # 0 <=> remind # None
    <3>1. CASE tag = work.tag /\ remind = work.remind
      BY <3>1, <1>12, <1>13 DEF Tagged
    <3>2. CASE tag = Fresh /\ remind # None /\ Fresh \in Tags /\ asked[Fresh] = "unset"
      <4>1. tag # work.tag
        BY <3>2, <1>12, TagZero
      <4> QED
        BY <1>8, <3>2, <4>1, TagZero
    <3>3. CASE tag = 0 /\ remind = None
      BY <3>3
    <3> QED
      BY <1>9, <3>1, <3>2, <3>3
  <2>3. NoEvent.tag = 0 /\ NoEvent.remind = None
    BY DEF NoEvent
  <2> QED
    BY <1>4, <1>6, <1>11, <2>1, <2>2, <2>3 DEF Tagged
<1>17. WorkIsThere'
  BY <1>6 DEF WorkIsThere
<1>18. WorkIsAway'
  <2> SUFFICES ASSUME clean', NEW f \in events', f.tag # 0
               PROVE  f.tag # tag
    BY <1>5, <1>11 DEF WorkIsAway, Without
  <2>1. clean /\ f \in events /\ f.id # work.id
    BY <1>5 DEF Without
  <2>2. f.tag # work.tag
    BY <1>3, <2>1 DEF WorkIsThere
  <2> QED
    BY <1>9, <1>12, <2>1, <2>2
<1>19. AnswerIsKept'
  <2> SUFFICES ASSUME clean', tag # 0, asked'[tag] = "answered",
                      tag \notin moved
               PROVE  work.id \in acks
    BY <1>3, <1>5, <1>11 DEF AnswerIsKept
  <2>1. tag \in Tags
    BY <1>9, <1>12
  <2>2. tag = work.tag /\ asked[work.tag] = "answered"
    BY <1>8, <2>1
  <2> QED
    BY <1>3, <1>5, <2>2 DEF AnswerIsKept
<1>20. NothingForgotten'
  <2> SUFFICES ASSUME clean', NEW t \in Tags, asked'[t] = "wanted", t # tag
               PROVE  Stands(t)'
    BY <1>5, <1>11 DEF NothingForgotten
  <2>1. t # work.tag /\ asked[t] = "wanted"
    BY <1>8
  <2>2. PICK f \in events : f.tag = t /\ (f.id \in acks => t \in silenced)
    BY <1>3, <1>5, <2>1 DEF NothingForgotten, Stands
  <2>3. f.id # work.id
    BY <1>3, <1>5, <2>1, <2>2 DEF WorkIsThere
  <2> QED
    BY <1>3, <1>5, <2>2, <2>3 DEF Stands, Without
<1>21. AnsweredStaysQuiet'
  <2> SUFFICES ASSUME clean', NEW f \in Unacked', asked'[f.tag] = "answered"
               PROVE  f.tag \in moved'
    BY DEF AnsweredStaysQuiet
  <2>1. f \in Unacked /\ f \in events
    BY <1>3, <1>4 DEF Unacked
  <2>2. f.tag \in Tags
    BY <1>12, <2>1 DEF Unacked, Tagged
  <2>3. asked[f.tag] = "answered"
    BY <1>8, <2>2
  <2> QED
    BY <1>3, <1>5, <2>1, <2>3 DEF AnsweredStaysQuiet
<1> QED
  BY <1>14, <1>15, <1>16, <1>17, <1>18, <1>19, <1>20, <1>21

LEMMA EditorDeleteKeeps ==
  ASSUME RmInv, EditorDelete, UNCHANGED now
  PROVE  RmInv'
<1> USE DEF RmInv
<1>1. PICK o \in Written(events, Without(work.id)) :
         /\ events' = o.body
         /\ clean' = (clean /\ Harmless(Without(work.id), o))
         /\ IF o.ret = "write" THEN UNCHANGED screen ELSE ToList
  BY DEF EditorDelete
<1>2. /\ acks' = acks /\ now' = now /\ pc = "editor" /\ work \in Event
      /\ asked' = [t \in Tags |-> IF t = work.tag THEN "gone" ELSE asked[t]]
      /\ silenced' = silenced /\ moved' = moved
  BY DEF EditorDelete, TypeOK
<1>3. /\ events' \subseteq events
      /\ o.ret = "ok" => Without(work.id) \subseteq o.body
  BY <1>1, WrittenBody DEF Without
<1>4. clean' => clean /\ Without(work.id) \subseteq events'
  BY <1>1, <1>3 DEF Harmless
<1>5. \/ pc' = "list" /\ work' = NoEvent
      \/ pc' = "editor" /\ work' = work
  BY <1>1, <1>2 DEF ToList, screen
<1>6. clean' \in BOOLEAN
  BY <1>1 DEF TypeOK
<1>7. \A f \in events \cup {work} : f.tag # 0 => f.tag \in Tags
  BY EventFields DEF TypeOK
<1>8. TypeOK'
  <2>1. asked' \in [Tags -> {"unset", "wanted", "answered", "gone"}]
    BY <1>2 DEF TypeOK
  <2> QED
    BY <1>2, <1>3, <1>5, <1>6, <2>1, NoEventIsEvent DEF TypeOK
<1>9. IdsDistinct' /\ TagsDistinct'
  BY <1>3, <1>4 DEF IdsDistinct, TagsDistinct
<1>10. Tagged'
  BY <1>2, <1>3, <1>5, <1>7, NoEventIsEvent DEF Tagged, NoEvent
<1>11. WorkIsThere' /\ WorkIsAway'
  BY <1>2, <1>3, <1>4, <1>5 DEF WorkIsThere, WorkIsAway
<1>12. AnswerIsKept'
  BY <1>2, <1>5, <1>7 DEF AnswerIsKept
<1>13. NothingForgotten'
  <2> SUFFICES ASSUME clean', NEW t \in Tags, asked'[t] = "wanted"
               PROVE  Stands(t)'
    BY DEF NothingForgotten
  <2>1. t # work.tag /\ asked[t] = "wanted"
    BY <1>2
  <2>2. PICK f \in events : f.tag = t /\ (f.id \in acks => t \in silenced)
    BY <1>2, <1>4, <2>1 DEF NothingForgotten, Stands
  <2>3. f.id # work.id
    BY <1>2, <1>4, <2>1, <2>2 DEF WorkIsThere
  <2> QED
    BY <1>2, <1>4, <2>2, <2>3 DEF Stands, Without
<1>14. AnsweredStaysQuiet'
  <2> SUFFICES ASSUME clean', NEW f \in Unacked', asked'[f.tag] = "answered"
               PROVE  f.tag \in moved'
    BY DEF AnsweredStaysQuiet
  <2>1. f \in Unacked /\ f \in events
    BY <1>2, <1>3 DEF Unacked
  <2>2. f.tag \in Tags
    BY <1>7, <2>1 DEF Unacked, Tagged
  <2>3. asked[f.tag] = "answered"
    BY <1>2, <2>2
  <2> QED
    BY <1>2, <1>4, <2>1, <2>3 DEF AnsweredStaysQuiet
<1> QED
  BY <1>8, <1>9, <1>10, <1>11, <1>12, <1>13, <1>14

-----------------------------------------------------------------------------
(* The theorems.                                                           *)

LEMMA RmInvInit == Init => RmInv
<1> SUFFICES ASSUME Init PROVE RmInv
  OBVIOUS
<1>1. events = {} /\ acks = {} /\ now = 0 /\ pc = "list" /\ work = NoEvent
      /\ asked = [t \in Tags |-> "unset"]
      /\ silenced = {} /\ moved = {} /\ clean = TRUE
  BY DEF Init
<1>2. TypeOK
  BY <1>1, NoEventIsEvent, RemindersAssumption DEF TypeOK, Days
<1>3. IdsDistinct /\ Tagged /\ TagsDistinct
  BY <1>1, NoEventIsEvent DEF IdsDistinct, Tagged, TagsDistinct, NoEvent
<1>4. WorkIsThere /\ WorkIsAway /\ AnswerIsKept
  BY <1>1 DEF WorkIsThere, WorkIsAway, AnswerIsKept
<1>5. NothingForgotten /\ AnsweredStaysQuiet
  BY <1>1 DEF NothingForgotten, AnsweredStaysQuiet, Unacked
<1> QED
  BY <1>2, <1>3, <1>4, <1>5 DEF RmInv

LEMMA RmInvNext == RmInv /\ [Next]_vars => RmInv'
<1> SUFFICES ASSUME RmInv, [Next]_vars
             PROVE  RmInv'
  OBVIOUS
<1>1. CASE Step
  <2>1. CASE OpenAlert
    BY <1>1, <2>1, OpenAlertKeeps DEF Step
  <2>2. CASE AlertDismiss \/ EditorEsc
    BY <1>1, <2>2, ToListKeeps
       DEF Step, AlertDismiss, EditorEsc, files, history, RmInv, TypeOK
  <2>3. CASE AlertAck
    BY <1>1, <2>3, AlertAckKeeps DEF Step
  <2>4. CASE AlertSnooze
    BY <1>1, <2>4, AlertSnoozeKeeps DEF Step
  <2>5. CASE SnoozeAck
    BY <1>1, <2>5, SnoozeAckKeeps DEF Step
  <2>6. CASE AddEvent
    BY <1>1, <2>6, AddEventKeeps DEF Step
  <2>7. CASE Toggle
    BY <1>1, <2>7, ToggleKeeps DEF Step
  <2>8. CASE ToggleAdd \/ EditorAdd
    BY <1>1, <2>8, ReaddKeeps DEF Step, ToggleAdd, EditorAdd
  <2>9. CASE EditorOpen
    BY <1>1, <2>9, EditorOpenKeeps DEF Step
  <2>10. CASE EditorSave
    BY <1>1, <2>10, EditorSaveKeeps DEF Step
  <2>11. CASE EditorDelete
    BY <1>1, <2>11, EditorDeleteKeeps DEF Step
  <2> QED
    BY <1>1, <2>1, <2>2, <2>3, <2>4, <2>5, <2>6, <2>7, <2>8, <2>9, <2>10,
       <2>11 DEF Step
<1>2. CASE Tick
  BY <1>2, TickKeeps
<1>3. CASE PowerCut
  <2>1. /\ clean' \in BOOLEAN
        /\ clean' => clean /\ pc \notin {"toggled", "saving"}
    BY <1>3 DEF PowerCut, RmInv, TypeOK
  <2> QED
    BY <1>3, <2>1, ToListKeeps DEF PowerCut
<1>4. CASE UNCHANGED vars
  BY <1>4 DEF vars, files, screen, history, RmInv, TypeOK, IdsDistinct,
     Tagged, TagsDistinct, WorkIsThere, WorkIsAway,
     AnswerIsKept, NothingForgotten, AnsweredStaysQuiet, Stands, Unacked
<1> QED
  BY <1>1, <1>2, <1>3, <1>4 DEF Next

\* The inductive invariant holds.
THEOREM RemindersInvariant == Spec => []RmInv
<1>1. Init => RmInv
  BY RmInvInit
<1>2. RmInv /\ [Next]_vars => RmInv'
  BY RmInvNext
<1> QED
  BY <1>1, <1>2, PTL DEF Spec

\* The calendar, the acks, the clock, the screen and the record of the
\* reminders keep their types.
THEOREM RemindersTypes == Spec => []TypeOK
<1>1. RmInv => TypeOK
  BY DEF RmInv
<1> QED
  BY <1>1, RemindersInvariant, PTL

\* No two events ever have one id, whatever failed between the removal and
\* the addition of a toggle or an edit (CalendarStore::next_id_for_date).
THEOREM EventIdsDistinct == Spec => []IdsDistinct
<1>1. RmInv => IdsDistinct
  BY DEF RmInv
<1> QED
  BY <1>1, RemindersInvariant, PTL

\* As long as nothing fails, a reminder that was set and not answered has its
\* event in the calendar, or on its way back into it, and only an ack that
\* was in acks.json when the event was given its id names it
\* (ReminderWatcher::load_due, ack and snooze).
THEOREM NoReminderForgotten == Spec => []NothingForgotten
<1>1. RmInv => NothingForgotten
  BY DEF RmInv
<1> QED
  BY <1>1, RemindersInvariant, PTL

\* As long as nothing fails, a reminder that was answered fires again only
\* after a toggle or an edit on another day than its id's, or with a lower
\* number of that day free (ReminderWatcher::ack, next_id_for_date).
THEOREM AnsweredStayQuiet == Spec => []AnsweredStaysQuiet
<1>1. RmInv => AnsweredStaysQuiet
  BY DEF RmInv
<1> QED
  BY <1>1, RemindersInvariant, PTL
=============================================================================
