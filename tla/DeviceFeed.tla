----------------------------- MODULE DeviceFeed -----------------------------
(***************************************************************************)
(* One device on its live page: the hub's throttle of device updates       *)
(* (PublishDeviceUpdate), its presence events (register, Unregister,       *)
(* Close), and the server-sent events of the page (DeviceEvents).  A       *)
(* goroutine that has done one part of its work and not the next is        *)
(* counted at that point; goroutines at one point are alike.               *)
(***************************************************************************)
EXTENDS Integers, Sequences

CONSTANTS
    MaxChanges,  \* versions of the device's row
    MaxSockets,  \* sockets the device opens
    MaxPages,    \* times the page is opened
    Presences,   \* the room of a page's presence channel
    Updates      \* the room of its update channel

ASSUME FeedAssumption ==
    /\ MaxChanges \in Nat /\ MaxSockets \in Nat /\ MaxPages \in Nat
    /\ Presences \in Nat \ {0} /\ Updates \in Nat \ {0}

VARIABLES
    ver,      \* the devices row, by version
    calls,    \* writers that will call PublishDeviceUpdate
    window,   \* lastUpdateAt lies less than the throttle ago
    pending,  \* pendingUpdate
    timers,   \* AfterFunc timers that have not fired
    fans,     \* broadcasts about to reach the subscribers
    up,       \* hub.clients has a socket of the device
    sockets,  \* sockets so far
    grace,    \* lastDisconnectAt lies less than PresenceGrace ago
    joins,    \* registered, the online event not published yet
    fresh,    \* the socket in the map is one of these
    drops,    \* taken from the map, the throttle not cleared yet
    leaves,   \* about to publish the offline event
    page,     \* the page: how far DeviceEvents is
    pages,    \* pages so far
    shown,    \* the version on the page, 0 for none
    badge,    \* the page says Online
    updates,  \* update events in the page's channel
    presence, \* presence events in the page's channel
    timer,    \* offlineTimer: "none", "running" or "fired"
    strays,   \* timers still running that it no longer refers to
    fire,     \* fireOffline holds an event
    cut,      \* history: why the page may miss the last change
    blur      \* history: why it may miss the last connect or disconnect

throttleVars == <<calls, window, pending, timers, fans>>
socketVars   == <<up, sockets, grace, joins, fresh, drops, leaves>>
pageVars     == <<page, pages>>
viewVars     == <<shown, updates, cut>>
badgeVars    == <<badge, presence, timer, strays, fire, blur>>
vars == <<ver, throttleVars, socketVars, pageVars, viewVars, badgeVars>>

PageSteps == {"closed", "badge", "row", "presence", "live"}

\* The page is in subscribers, in updates.
HearsPresence == page \in {"presence", "live"}
HearsUpdates  == page = "live"

-----------------------------------------------------------------------------
(* The throttle.                                                           *)

\* Something about the device changes, and the handler goes on to say so.
Change ==
    /\ ver < MaxChanges
    /\ ver' = ver + 1
    /\ calls' = calls + 1
    /\ UNCHANGED <<window, pending, timers, fans, socketVars, pageVars, viewVars, badgeVars>>

\* Mutant of Coalesce: a leading edge only.
CoalesceDrops == UNCHANGED <<pending, timers>>

\* Inside the window: one trailing flush for all.
Coalesce ==
    /\ pending' = TRUE
    /\ timers' = IF pending THEN timers ELSE timers + 1

\* PublishDeviceUpdate
Publish ==
    /\ calls > 0
    /\ calls' = calls - 1
    /\ \/ window /\ Coalesce /\ UNCHANGED <<window, fans>>
       \/ ~ window /\ window' = TRUE /\ fans' = fans + 1 /\ UNCHANGED <<pending, timers>>
    /\ UNCHANGED <<ver, socketVars, pageVars, viewVars, badgeVars>>

\* The throttle's time has passed.
WindowCloses ==
    /\ window
    /\ window' = FALSE
    /\ UNCHANGED <<ver, calls, pending, timers, fans, socketVars, pageVars, viewVars,
                   badgeVars>>

\* flushDeviceUpdate.  A timer of a window that a disconnect cut short may fire
\* in a later one.
Flush ==
    /\ timers > 0
    /\ timers' = timers - 1
    /\ pending' = FALSE
    /\ \/ pending /\ window' = TRUE /\ fans' = fans + 1
       \/ ~ pending /\ UNCHANGED <<window, fans>>
    /\ UNCHANGED <<ver, calls, socketVars, pageVars, viewVars, badgeVars>>

\* fanDeviceUpdate.  The channel is shared by all devices: when it is full the
\* event is dropped.
Fan ==
    /\ fans > 0
    /\ fans' = fans - 1
    /\ \/ ~ HearsUpdates /\ UNCHANGED <<updates, cut>>
       \/ HearsUpdates /\ updates < Updates /\ updates' = updates + 1 /\ UNCHANGED cut
       \/ HearsUpdates /\ cut' = TRUE /\ UNCHANGED updates
    /\ UNCHANGED <<ver, calls, window, pending, timers, socketVars, pageVars, shown,
                   badgeVars>>

-----------------------------------------------------------------------------
(* The device's socket.                                                    *)

\* register, which replaces an older socket of the device.
Register ==
    /\ sockets < MaxSockets
    /\ sockets' = sockets + 1
    /\ up' = TRUE
    /\ grace' = FALSE
    /\ joins' = joins + 1
    /\ fresh' = TRUE
    /\ UNCHANGED <<ver, throttleVars, drops, leaves, pageVars, viewVars, badgeVars>>

\* Unregister of the socket in the map; of a replaced one it does nothing.  It
\* follows register in the socket's own goroutine.
Unregister ==
    /\ up /\ ~ fresh
    /\ up' = FALSE
    /\ drops' = drops + 1
    /\ UNCHANGED <<ver, throttleVars, sockets, grace, joins, fresh, leaves, pageVars, viewVars,
                   badgeVars>>

\* Unregister forgets the device's throttle and notes the time.
Forget ==
    /\ drops > 0
    /\ drops' = drops - 1
    /\ leaves' = leaves + 1
    /\ window' = FALSE
    /\ pending' = FALSE
    /\ cut' = (cut \/ pending)
    /\ grace' = TRUE
    /\ UNCHANGED <<ver, calls, timers, fans, up, sockets, joins, fresh, pageVars, shown, updates,
                   badgeVars>>

\* Close, when the device's identity is taken back.
Close ==
    /\ up
    /\ up' = FALSE
    /\ fresh' = FALSE
    /\ leaves' = leaves + 1
    /\ UNCHANGED <<ver, throttleVars, sockets, grace, joins, drops, pageVars, viewVars,
                   badgeVars>>

GraceOver ==
    /\ grace
    /\ grace' = FALSE
    /\ UNCHANGED <<ver, throttleVars, up, sockets, joins, fresh, drops, leaves, pageVars, viewVars,
                   badgeVars>>

\* fanPresence, of an event that may be overtaken by what it tells.
Tell(event) ==
    \/ ~ HearsPresence /\ UNCHANGED <<presence, blur>>
    \/ /\ HearsPresence
       /\ Len(presence) < Presences
       /\ presence' = Append(presence, event)
       /\ blur' = (blur \/ (event = "online" /\ ~ up))
    \/ HearsPresence /\ blur' = TRUE /\ UNCHANGED presence

TellOnline ==
    /\ joins > 0
    /\ joins' = joins - 1
    /\ \/ fresh /\ fresh' = FALSE
       \/ (fresh => joins > 1) /\ UNCHANGED fresh
    /\ Tell("online")
    /\ UNCHANGED <<ver, throttleVars, up, sockets, grace, drops, leaves, pageVars, viewVars,
                   badge, timer, strays, fire>>

TellOffline ==
    /\ leaves > 0
    /\ leaves' = leaves - 1
    /\ Tell("offline")
    /\ UNCHANGED <<ver, throttleVars, up, sockets, grace, joins, fresh, drops, pageVars,
                   viewVars, badge, timer, strays, fire>>

-----------------------------------------------------------------------------
(* The page: DeviceEvents.                                                 *)

\* Something on its way will make the page read the row again.
UpdateComing == calls > 0 \/ fans > 0 \/ updates > 0 \/ (pending /\ timers > 0)

Queued(event) == \E i \in 1..Len(presence) : presence[i] = event

\* Something on its way will make it write Online, or set the timer or have
\* set it.
OnlineComing  == joins > 0 \/ Queued("online")
OfflineComing ==
    \/ drops > 0 \/ leaves > 0
    \/ Queued("offline")
    \/ timer = "running" \/ fire

\* IsConnectedForDisplay
Open ==
    /\ page = "closed" /\ pages < MaxPages
    /\ page' = "badge" /\ pages' = pages + 1
    /\ badge' = (up \/ grace)
    /\ UNCHANGED <<ver, throttleVars, socketVars, viewVars, presence, timer, strays, fire, blur>>

\* The read may fail.
ReadRow ==
    /\ page = "badge"
    /\ page' = "row"
    /\ shown' \in {ver, shown}
    /\ UNCHANGED <<ver, throttleVars, socketVars, pages, updates, cut, badgeVars>>

\* What happened between the reading and the subscription is not told again, nor
\* is the end of a grace period that was running at the reading.
HearPresence ==
    /\ page = "row"
    /\ page' = "presence"
    /\ blur' = (badge # up)
    /\ UNCHANGED <<ver, throttleVars, socketVars, pages, viewVars, badge, presence, timer,
                   strays, fire>>

HearUpdates ==
    /\ page = "presence"
    /\ page' = "live"
    /\ cut' = (shown # ver /\ ~ UpdateComing)
    /\ UNCHANGED <<ver, throttleVars, socketVars, pages, shown, updates, badgeVars>>

\* writeDeviceUpdate; the read may fail.
ShowUpdate ==
    /\ page = "live"
    /\ updates > 0
    /\ updates' = updates - 1
    /\ \/ shown' = ver /\ cut' = FALSE
       \/ cut' = TRUE /\ UNCHANGED shown
    /\ UNCHANGED <<ver, throttleVars, socketVars, pageVars, badgeVars>>

\* An online event stops the timer; what has fired stays in fireOffline.
ShowOnline ==
    /\ page = "live"
    /\ presence # << >> /\ Head(presence) = "online"
    /\ presence' = Tail(presence)
    /\ badge' = TRUE
    /\ timer' = "none"
    /\ blur' = (blur /\ (~ up \/ presence' # << >>))
    /\ UNCHANGED <<ver, throttleVars, socketVars, pageVars, viewVars, strays, fire>>

\* An offline event sets the timer, unless there is one.
HoldOffline ==
    /\ page = "live"
    /\ presence # << >> /\ Head(presence) = "offline"
    /\ presence' = Tail(presence)
    /\ timer' = IF timer = "none" THEN "running" ELSE timer
    /\ UNCHANGED <<ver, throttleVars, socketVars, pageVars, viewVars, badge, strays, fire,
                   blur>>

TimerFires ==
    /\ \/ timer = "running" /\ timer' = "fired" /\ UNCHANGED strays
       \/ strays > 0 /\ strays' = strays - 1 /\ UNCHANGED timer
    /\ fire' = TRUE
    /\ UNCHANGED <<ver, throttleVars, socketVars, pageVars, viewVars, badge, presence, blur>>

\* Mutant of WriteOffline: the device may be back by now.
WriteOfflineAnyway == badge' = FALSE

\* The state of now decides, not the event's.
WriteOffline == badge' = (badge /\ up)

ShowOffline ==
    /\ page = "live"
    /\ fire
    /\ fire' = FALSE
    /\ timer' = "none"
    /\ strays' = IF timer = "running" THEN strays + 1 ELSE strays
    /\ WriteOffline
    /\ blur' = (blur /\ (badge' # up \/ presence # << >>))
    /\ UNCHANGED <<ver, throttleVars, socketVars, pageVars, viewVars, presence>>

\* The channels and the timer are the stream's own.
ClearPage ==
    /\ shown' = 0 /\ badge' = FALSE
    /\ updates' = 0 /\ presence' = << >>
    /\ timer' = "none" /\ strays' = 0 /\ fire' = FALSE
    /\ cut' = FALSE /\ blur' = FALSE

Leave ==
    /\ page = "live"
    /\ page' = "closed"
    /\ ClearPage
    /\ UNCHANGED <<ver, throttleVars, socketVars, pages>>

-----------------------------------------------------------------------------
Init ==
    /\ ver = 1 /\ calls = 0
    /\ window = FALSE /\ pending = FALSE /\ timers = 0 /\ fans = 0
    /\ up = FALSE /\ sockets = 0 /\ grace = FALSE
    /\ joins = 0 /\ fresh = FALSE /\ drops = 0 /\ leaves = 0
    /\ page = "closed" /\ pages = 0 /\ shown = 0 /\ badge = FALSE
    /\ updates = 0 /\ presence = << >> /\ timer = "none" /\ strays = 0
    /\ fire = FALSE /\ cut = FALSE /\ blur = FALSE

Throttle == Publish \/ WindowCloses \/ Flush \/ Fan

Socket == Register \/ Unregister \/ Forget \/ Close \/ GraceOver \/ TellOnline \/ TellOffline

Page ==
    \/ Open \/ ReadRow \/ HearPresence \/ HearUpdates
    \/ ShowUpdate \/ ShowOnline \/ HoldOffline \/ TimerFires \/ ShowOffline
    \/ Leave

Next == Change \/ Throttle \/ Socket \/ Page

Spec == Init /\ [][Next]_vars

-----------------------------------------------------------------------------
(* Properties.                                                             *)

\* Every variable has its type.
Counts ==
    /\ ver \in Nat /\ calls \in Nat /\ timers \in Nat /\ fans \in Nat
    /\ sockets \in Nat /\ joins \in Nat /\ drops \in Nat /\ leaves \in Nat
    /\ pages \in Nat /\ shown \in Nat /\ updates \in Nat /\ strays \in Nat
    /\ page \in PageSteps
    /\ timer \in {"none", "running", "fired"}
    /\ presence \in Seq({"online", "offline"})

Flags ==
    /\ window \in BOOLEAN /\ pending \in BOOLEAN
    /\ up \in BOOLEAN /\ grace \in BOOLEAN /\ fresh \in BOOLEAN
    /\ badge \in BOOLEAN /\ fire \in BOOLEAN
    /\ cut \in BOOLEAN /\ blur \in BOOLEAN

TypeOK == Counts /\ Flags

\* A page that does not show the device's last change will read it again, unless
\* the change came while the page was opening, an event was dropped, the row
\* could not be read, or the socket's end took the trailing update with it
\* (PublishDeviceUpdate: "the device's final state always reaches the
\* dashboard").
LastChangeArrives == page = "live" /\ shown # ver /\ ~ cut => UpdateComing

\* A page whose badge is not the truth will put it right, however a grace
\* period, a reconnect and the page's timer overlap, unless the truth changed or a
\* grace period ran while the page was opening, an event was dropped, or an
\* online event was overtaken by the end of its socket (DeviceEvents).
BadgeComesTrue ==
    page = "live" /\ ~ blur =>
        /\ up /\ ~ badge => OnlineComing
        /\ ~ up /\ badge => OfflineComing
=============================================================================
