-------------------------- MODULE DeviceFeedProofs --------------------------
(***************************************************************************)
(* Proofs about DeviceFeed: that a live page shows the device's last change *)
(* and comes to tell the truth about its socket, for any number of changes, *)
(* sockets and pages and any room in the channels.                          *)
(***************************************************************************)
EXTENDS DeviceFeed, TLAPS

USE DEF throttleVars, socketVars, pageVars, viewVars, badgeVars

-----------------------------------------------------------------------------
(* Types.                                                                  *)

\* The counters, the page's steps and the channel.
LEMMA CountsStay == Counts /\ [Next]_vars => Counts'
<1> SUFFICES ASSUME Counts, [Next]_vars PROVE Counts'
  OBVIOUS
<1> USE DEF Counts, PageSteps
<1>1. CASE Change
  BY <1>1 DEF Change
<1>2. CASE Publish
  BY <1>2 DEF Publish, Coalesce
<1>3. CASE WindowCloses
  BY <1>3 DEF WindowCloses
<1>4. CASE Flush
  BY <1>4 DEF Flush
<1>5. CASE Fan
  BY <1>5 DEF Fan
<1>6. CASE Register
  BY <1>6 DEF Register
<1>7. CASE Unregister
  BY <1>7 DEF Unregister
<1>8. CASE Forget
  BY <1>8 DEF Forget
<1>9. CASE Close
  BY <1>9 DEF Close
<1>10. CASE GraceOver
  BY <1>10 DEF GraceOver
<1>11. CASE TellOnline
  BY <1>11 DEF TellOnline, Tell
<1>12. CASE TellOffline
  BY <1>12 DEF TellOffline, Tell
<1>13. CASE Open
  BY <1>13 DEF Open
<1>14. CASE ReadRow
  BY <1>14 DEF ReadRow
<1>15. CASE HearPresence
  BY <1>15 DEF HearPresence
<1>16. CASE HearUpdates
  BY <1>16 DEF HearUpdates, UpdateComing
<1>17. CASE ShowUpdate
  BY <1>17 DEF ShowUpdate
<1>18. CASE ShowOnline
  BY <1>18 DEF ShowOnline
<1>19. CASE HoldOffline
  BY <1>19 DEF HoldOffline
<1>20. CASE TimerFires
  BY <1>20 DEF TimerFires
<1>21. CASE ShowOffline
  BY <1>21 DEF ShowOffline, WriteOffline
<1>22. CASE Leave
  BY <1>22 DEF Leave, ClearPage
<1>23. CASE UNCHANGED vars
  BY <1>23 DEF vars
<1> QED
  BY <1>1, <1>2, <1>3, <1>4, <1>5, <1>6, <1>7, <1>8, <1>9, <1>10, <1>11, <1>12,
     <1>13, <1>14, <1>15, <1>16, <1>17, <1>18, <1>19, <1>20, <1>21, <1>22, <1>23
     DEF Next, Throttle, Socket, Page

\* The flags.
LEMMA FlagsStay == Flags /\ [Next]_vars => Flags'
<1> SUFFICES ASSUME Flags, [Next]_vars PROVE Flags'
  OBVIOUS
<1> USE DEF Flags
<1>1. CASE Change
  BY <1>1 DEF Change
<1>2. CASE Publish
  BY <1>2 DEF Publish, Coalesce
<1>3. CASE WindowCloses
  BY <1>3 DEF WindowCloses
<1>4. CASE Flush
  BY <1>4 DEF Flush
<1>5. CASE Fan
  BY <1>5 DEF Fan
<1>6. CASE Register
  BY <1>6 DEF Register
<1>7. CASE Unregister
  BY <1>7 DEF Unregister
<1>8. CASE Forget
  BY <1>8 DEF Forget
<1>9. CASE Close
  BY <1>9 DEF Close
<1>10. CASE GraceOver
  BY <1>10 DEF GraceOver
<1>11. CASE TellOnline
  BY <1>11 DEF TellOnline, Tell
<1>12. CASE TellOffline
  BY <1>12 DEF TellOffline, Tell
<1>13. CASE Open
  BY <1>13 DEF Open
<1>14. CASE ReadRow
  BY <1>14 DEF ReadRow
<1>15. CASE HearPresence
  BY <1>15 DEF HearPresence
<1>16. CASE HearUpdates
  BY <1>16 DEF HearUpdates, UpdateComing
<1>17. CASE ShowUpdate
  BY <1>17 DEF ShowUpdate
<1>18. CASE ShowOnline
  BY <1>18 DEF ShowOnline
<1>19. CASE HoldOffline
  BY <1>19 DEF HoldOffline
<1>20. CASE TimerFires
  BY <1>20 DEF TimerFires
<1>21. CASE ShowOffline
  BY <1>21 DEF ShowOffline, WriteOffline
<1>22. CASE Leave
  BY <1>22 DEF Leave, ClearPage
<1>23. CASE UNCHANGED vars
  BY <1>23 DEF vars
<1> QED
  BY <1>1, <1>2, <1>3, <1>4, <1>5, <1>6, <1>7, <1>8, <1>9, <1>10, <1>11, <1>12,
     <1>13, <1>14, <1>15, <1>16, <1>17, <1>18, <1>19, <1>20, <1>21, <1>22, <1>23
     DEF Next, Throttle, Socket, Page

\* The variables of DeviceFeed keep their types.
THEOREM TypesHold == Spec => []TypeOK
<1>1. Init => TypeOK
  <2>1. Init => Counts
    BY DEF Init, Counts, PageSteps
  <2>2. Init => Flags
    BY DEF Init, Flags
  <2> QED BY <2>1, <2>2 DEF TypeOK
<1>2. TypeOK /\ [Next]_vars => TypeOK'
  BY CountsStay, FlagsStay DEF TypeOK
<1> QED BY <1>1, <1>2, PTL DEF Spec

\* One more of anything is something.
LEMMA OneMore ==
    ASSUME TypeOK
    PROVE  /\ calls + 1 > 0 /\ timers + 1 > 0 /\ fans + 1 > 0 /\ updates + 1 > 0
           /\ joins + 1 > 0 /\ drops + 1 > 0 /\ leaves + 1 > 0
BY DEF TypeOK, Counts

-----------------------------------------------------------------------------
(* The last change.                                                        *)

\* A pending update has a timer that will flush it.
Flushable == pending => timers > 0

ChangeInv == TypeOK /\ Flushable /\ LastChangeArrives

\* PublishDeviceUpdate's promise, with its exceptions: a live page that lacks the
\* device's last change will read it again, whatever the order of the changes,
\* the throttle's timers, the page's steps and the sockets' ends.
THEOREM LastChangeAlwaysArrives == Spec => []LastChangeArrives
<1>1. Init => Flushable /\ LastChangeArrives
  BY DEF Init, Flushable, LastChangeArrives
<1>2. ChangeInv /\ [Next]_vars => (Flushable /\ LastChangeArrives)'
  <2> SUFFICES ASSUME ChangeInv, [Next]_vars PROVE (Flushable /\ LastChangeArrives)'
    OBVIOUS
  <2> USE OneMore DEF ChangeInv, Flushable, LastChangeArrives, UpdateComing
  <2>1. CASE Change
    BY <2>1 DEF Change
  <2>2. CASE Throttle
    <3>1. CASE Publish
      BY <3>1 DEF Publish, Coalesce
    <3>2. CASE WindowCloses
      BY <3>2 DEF WindowCloses
    <3>3. CASE Flush
      BY <3>3 DEF Flush
    <3>4. CASE Fan
      BY <3>4 DEF Fan, HearsUpdates
    <3> QED BY <2>2, <3>1, <3>2, <3>3, <3>4 DEF Throttle
  <2>3. CASE Forget
    BY <2>3 DEF Forget
  <2>4. CASE Socket /\ ~ Forget
    <3>1. UNCHANGED <<ver, throttleVars, pageVars, viewVars>>
      BY <2>4 DEF Socket, Register, Unregister, Close, GraceOver, TellOnline, TellOffline
    <3> QED BY <3>1
  <2>5. CASE HearUpdates
    BY <2>5 DEF HearUpdates
  <2>6. CASE ShowUpdate
    BY <2>6 DEF ShowUpdate
  <2>7. CASE Open \/ ReadRow \/ HearPresence \/ Leave
    <3>1. page' # "live" /\ UNCHANGED throttleVars
      BY <2>7 DEF Open, ReadRow, HearPresence, Leave
    <3> QED BY <3>1
  <2>8. CASE ShowOnline \/ HoldOffline \/ TimerFires \/ ShowOffline
    <3>1. UNCHANGED <<ver, throttleVars, pageVars, viewVars>>
      BY <2>8 DEF ShowOnline, HoldOffline, TimerFires, ShowOffline
    <3> QED BY <3>1
  <2>9. CASE UNCHANGED vars
    BY <2>9 DEF vars
  <2> QED BY <2>1, <2>2, <2>3, <2>4, <2>5, <2>6, <2>7, <2>8, <2>9 DEF Next, Socket, Page
<1> QED BY <1>1, <1>2, TypesHold, PTL DEF Spec, ChangeInv

-----------------------------------------------------------------------------
(* The badge.                                                              *)

\* A timer that has fired has left its event.
FiredTells == timer = "fired" => fire

\* With no socket, and nobody left to say so, the last event in the channel says
\* so.
EndsOffline == presence # << >> => presence[Len(presence)] = "offline"

LastWordOffline ==
    HearsPresence /\ ~ blur /\ ~ up /\ ~ (drops > 0) /\ ~ (leaves > 0) => EndsOffline

\* BadgeComesTrue, from the subscription on.
Online  == HearsPresence /\ ~ blur /\ up /\ ~ badge => OnlineComing
Offline == HearsPresence /\ ~ blur /\ ~ up /\ badge => OfflineComing

\* A page that has not subscribed has nothing in its channel.
Unheard == ~ HearsPresence => presence = << >>

BadgeInv == FiredTells /\ Unheard /\ LastWordOffline /\ Online /\ Offline

LEMMA ChannelStays ==
    ASSUME UNCHANGED presence
    PROVE  /\ Queued("online")' <=> Queued("online")
           /\ Queued("offline")' <=> Queued("offline")
           /\ EndsOffline' <=> EndsOffline
BY DEF Queued, EndsOffline

\* A step that touches neither the page nor its channel, and no socket.
LEMMA BadgeStays ==
    ASSUME BadgeInv, UNCHANGED <<up, joins, drops, leaves, page, badgeVars>>
    PROVE  BadgeInv'
<1>1. UNCHANGED <<badge, presence, timer, fire, blur>>
  OBVIOUS
<1> QED
  BY <1>1, ChannelStays
     DEF BadgeInv, FiredTells, Unheard, LastWordOffline, Online, Offline, OnlineComing,
         OfflineComing, HearsPresence

\* An event put last in the channel.
LEMMA Appended ==
    ASSUME Counts, NEW event \in {"online", "offline"}, presence' = Append(presence, event)
    PROVE  /\ Queued(event)'
           /\ Queued("online") => Queued("online")'
           /\ Queued("offline") => Queued("offline")'
           /\ event = "offline" => EndsOffline'
<1>1. /\ Len(presence) \in Nat /\ Len(presence') = Len(presence) + 1
      /\ presence'[Len(presence) + 1] = event
      /\ \A i \in 1..Len(presence) : presence'[i] = presence[i]
  BY DEF Counts
<1> QED BY <1>1 DEF Queued, EndsOffline

\* An event taken from the channel.
LEMMA Taken ==
    ASSUME Counts, presence # << >>, presence' = Tail(presence)
    PROVE  /\ Head(presence) # "online" /\ Queued("online") => Queued("online")'
           /\ Head(presence) # "offline" /\ Queued("offline") => Queued("offline")'
           /\ EndsOffline => EndsOffline'
           /\ Head(presence) = "online" /\ EndsOffline => Queued("offline")'
           /\ presence' = << >> => EndsOffline'
<1>1. /\ Len(presence) \in Nat /\ Len(presence) > 0
      /\ Len(presence') = Len(presence) - 1
      /\ \A i \in 1..(Len(presence) - 1) : presence'[i] = presence[i + 1]
      /\ Head(presence) = presence[1]
      /\ presence' # << >> <=> Len(presence) > 1
  BY DEF Counts
<1>2. \A e \in {"online", "offline"} :
         Head(presence) # e /\ Queued(e) => Queued(e)'
  <2> SUFFICES ASSUME NEW e \in {"online", "offline"}, Head(presence) # e,
                      NEW i \in 1..Len(presence), presence[i] = e
               PROVE  Queued(e)'
    BY DEF Queued
  <2>1. i # 1 /\ i - 1 \in 1..Len(presence') /\ presence'[i - 1] = presence[i]
    BY <1>1
  <2> QED BY <2>1 DEF Queued
<1>3. EndsOffline => EndsOffline'
  BY <1>1 DEF EndsOffline
<1>4. Head(presence) = "online" /\ EndsOffline => Queued("offline")'
  <2> SUFFICES ASSUME Head(presence) = "online", EndsOffline PROVE Queued("offline")'
    OBVIOUS
  <2>1. /\ Len(presence) > 1 /\ presence'[Len(presence) - 1] = "offline"
        /\ Len(presence) - 1 \in 1..Len(presence')
    BY <1>1 DEF EndsOffline
  <2> QED BY <2>1 DEF Queued
<1> QED BY <1>2, <1>3, <1>4 DEF EndsOffline

\* What a told event does to a page that misses nothing by it.
LEMMA Told ==
    ASSUME Counts, NEW event \in {"online", "offline"}, Tell(event)
    PROVE  \/ ~ HearsPresence /\ UNCHANGED presence
           \/ HearsPresence /\ blur'
           \/ /\ HearsPresence /\ (blur' <=> blur)
              /\ event = "online" => up
              /\ Queued(event)'
              /\ Queued("online") => Queued("online")'
              /\ Queued("offline") => Queued("offline")'
              /\ event = "offline" => EndsOffline'
<1>1. CASE HearsPresence /\ presence' = Append(presence, event)
           /\ blur' = (blur \/ (event = "online" /\ ~ up))
  BY <1>1, Appended, Zenon
<1> QED BY <1>1 DEF Tell

\* The badge follows the socket through the disconnect's grace, reconnects and
\* stale timers: each step of the socket leaves something that will put it right.
LEMMA BadgeStep == TypeOK /\ BadgeInv /\ [Next]_vars => BadgeInv'
<1> SUFFICES ASSUME TypeOK, BadgeInv, [Next]_vars PROVE BadgeInv'
  OBVIOUS
<1> USE DEF BadgeInv, FiredTells, Unheard, LastWordOffline, Online, Offline, OnlineComing,
            OfflineComing
<1>0. Counts /\ Flags /\ Flags'
  BY FlagsStay DEF TypeOK
<1>1. CASE Change
  BY <1>1, BadgeStays DEF Change
<1>2. CASE Throttle
  BY <1>2, BadgeStays DEF Throttle, Publish, WindowCloses, Flush, Fan
<1>3. CASE Register
  <2>1. up' /\ joins' > 0 /\ UNCHANGED <<page, presence, blur, badge, timer, fire>>
    BY <1>3, OneMore DEF Register
  <2> QED BY <2>1 DEF HearsPresence
<1>4. CASE Unregister \/ Close
  <2>1. /\ ~ up' /\ (drops' > 0 \/ leaves' > 0)
        /\ UNCHANGED <<page, presence, blur, timer, fire>>
    BY <1>4, OneMore DEF Unregister, Close
  <2> QED BY <2>1 DEF HearsPresence
<1>5. CASE Forget
  <2>1. leaves' > 0 /\ UNCHANGED <<up, joins, page, presence, blur, badge, timer, fire>>
    BY <1>5, OneMore DEF Forget
  <2> QED BY <2>1, ChannelStays DEF HearsPresence
<1>7. CASE GraceOver
  BY <1>7, BadgeStays DEF GraceOver
<1>8. CASE TellOnline
  <2>1. Tell("online") /\ UNCHANGED <<up, drops, leaves, page, badge, timer, fire>>
    BY <1>8 DEF TellOnline
  <2> QED BY <1>0, <2>1, Told DEF HearsPresence
<1>9. CASE TellOffline
  <2>1. Tell("offline") /\ UNCHANGED <<up, joins, drops, page, badge, timer, fire>>
    BY <1>9 DEF TellOffline
  <2> QED BY <1>0, <2>1, Told DEF HearsPresence
<1>10. CASE Open \/ ReadRow \/ Leave
  <2>1. ~ HearsPresence' /\ FiredTells' /\ presence' = << >>
    BY <1>10 DEF Open, ReadRow, Leave, ClearPage, HearsPresence
  <2> QED BY <2>1
<1>11. CASE HearPresence
  <2>1. /\ HearsPresence' /\ presence' = << >> /\ blur' = (badge # up)
        /\ UNCHANGED <<up, badge, timer, fire>>
    BY <1>11 DEF HearPresence, HearsPresence
  <2>2. EndsOffline'
    BY <2>1 DEF EndsOffline
  <2>3. ~ blur' => badge' = up'
    <3>1. ~ blur' => badge = up
      BY <2>1
    <3> QED BY <2>1, <3>1
  <2>4. badge' = up' => (badge' <=> up')
    OBVIOUS
  <2> QED BY <2>1, <2>2, <2>3, <2>4
<1>12. CASE HearUpdates
  <2>1. HearsPresence /\ HearsPresence' /\ UNCHANGED <<up, joins, drops, leaves, badgeVars>>
    BY <1>12 DEF HearUpdates, HearsPresence
  <2> QED BY <2>1, ChannelStays
<1>13. CASE ShowUpdate
  BY <1>13, BadgeStays DEF ShowUpdate
<1>14. CASE ShowOnline
  <2>1. /\ Head(presence) = "online" /\ presence # << >> /\ presence' = Tail(presence)
        /\ badge' /\ timer' = "none" /\ (blur' <=> blur /\ (~ up \/ presence' # << >>))
        /\ HearsPresence /\ UNCHANGED <<up, drops, leaves, page>>
    BY <1>14 DEF ShowOnline, HearsPresence
  <2> QED BY <1>0, <2>1, Taken DEF HearsPresence
<1>15. CASE HoldOffline
  <2>1. /\ Head(presence) = "offline" /\ presence # << >> /\ presence' = Tail(presence)
        /\ timer' = "running" \/ (timer' = "fired" /\ timer = "fired")
        /\ HearsPresence /\ UNCHANGED <<up, joins, drops, leaves, page, badge, fire, blur>>
    BY <1>15 DEF HoldOffline, HearsPresence, TypeOK, Counts
  <2> QED BY <1>0, <2>1, Taken DEF HearsPresence
<1>16. CASE TimerFires
  <2>1. fire' /\ UNCHANGED <<up, joins, drops, leaves, page, badge, presence, blur>>
    BY <1>16 DEF TimerFires
  <2> QED BY <2>1, ChannelStays DEF HearsPresence
<1>17. CASE ShowOffline
  <2>1. /\ timer' = "none" /\ badge' = (badge /\ up)
        /\ blur' = (blur /\ (badge' # up \/ presence # << >>))
        /\ UNCHANGED <<up, joins, drops, leaves, page, presence>>
        /\ HearsPresence
    BY <1>17 DEF ShowOffline, WriteOffline, HearsPresence
  <2>2. (up' <=> up) /\ (badge' <=> badge /\ up)
    BY <2>1
  <2>3. ~ blur' => ~ blur \/ ((badge' <=> up) /\ EndsOffline)
    BY <1>0, <2>1 DEF EndsOffline, Flags
  <2> QED BY <2>1, <2>2, <2>3, ChannelStays DEF HearsPresence
<1>18. CASE UNCHANGED vars
  BY <1>18, BadgeStays DEF vars
<1> QED
  BY <1>1, <1>2, <1>3, <1>4, <1>5, <1>7, <1>8, <1>9, <1>10, <1>11, <1>12, <1>13, <1>14,
     <1>15, <1>16, <1>17, <1>18 DEF Next, Socket, Page

\* DeviceEvents: a badge that does not tell the truth will be put right.
THEOREM BadgeAlwaysComesTrue == Spec => []BadgeComesTrue
<1>1. Init => BadgeInv
  BY DEF Init, BadgeInv, FiredTells, Unheard, LastWordOffline, Online, Offline, HearsPresence
<1>2. BadgeInv => BadgeComesTrue
  BY DEF BadgeInv, Online, Offline, BadgeComesTrue, HearsPresence
<1> QED BY <1>1, <1>2, BadgeStep, TypesHold, PTL DEF Spec
=============================================================================
