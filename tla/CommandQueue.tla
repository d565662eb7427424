---------------------------- MODULE CommandQueue ----------------------------
(***************************************************************************)
(* Delivery of the commands of one device: the rows of commands and        *)
(* command_status, the handlers and sweeps that write them, the goroutines *)
(* that carry a list of due commands from the query to the wire, and the   *)
(* device at the other end (external: the clients are not in the           *)
(* repository).                                                            *)
(*                                                                         *)
(* Commands are numbered in creation order, so b < c reads "b is older".   *)
(* A handler that reads the due list and then works through it runs in a   *)
(* worker (a goroutine): each database statement and each write to the     *)
(* socket is a step, and other workers run in between.                     *)
(*                                                                         *)
(* Time is kept as far as the code compares it.  A command leaves the      *)
(* one-hour window by AgeOut, in creation order; a lease runs out by       *)
(* LeaseLapses; an install's reports stall by Stalls; the windows of the   *)
(* other sweeps may have passed for any row they look at.  Stamps are      *)
(* compared with the moment a check-in dates the device's boot to, 15      *)
(* seconds too early, so time is counted in two halves a boot: its last 15 *)
(* seconds before the next one, and what comes before them.                *)
(***************************************************************************)
EXTENDS CommandRow, FiniteSets

CONSTANTS
    N,             \* how many commands are ever created
    TypeOf,        \* the type of each
    Workers,       \* goroutines that deliver commands
    PullCapable,   \* the client fetches its commands over HTTP
    SendsReceipt,  \* the client acks 'received'
    Preinstalled,  \* a version of the app is on the device from the start
    MaxBoots,      \* how often the device boots
    Outcomes,      \* whether what the device runs may succeed, or fail
    Doors          \* the ways a command reaches the device in this instance

Commands == 1..N

\* How a worker came by its list: the socket flush, the dashboard's queue
\* advance, the HTTP pull, the check-in reply, the redrive sweep, and the two
\* pushes at creation (API and dashboard).
ListPaths == {"flush", "advance", "pull", "checkin"}
PushPaths == {"redrive", "create", "dash"}
Paths     == ListPaths \cup PushPaths
HttpPaths == {"pull", "checkin"}

ASSUME QueueAssumption ==
    /\ N \in Nat
    /\ TypeOf \in [Commands -> CommandTypes]
    /\ PullCapable \in BOOLEAN
    /\ SendsReceipt \in BOOLEAN
    /\ Preinstalled \in BOOLEAN
    /\ MaxBoots \in Nat
    /\ Outcomes \subseteq BOOLEAN
    /\ Doors \subseteq Paths

VARIABLES
    \* the database
    last,        \* the newest command created
    aged,        \* commands 1..aged were created more than an hour ago
    row,         \* command_status
    result,      \* install commands with a row in command_results
    \* the server
    connected,   \* the hub has a client for the device
    job,         \* what each worker is doing
    \* the device
    boot,        \* its current boot
    late,        \* the next boot begins within bootTime's 15 seconds
    dev,         \* how far it is with each command
    present,     \* the app is installed
    \* history
    past,        \* commands whose row was once finished
    delivAt,     \* when a row first became 'delivered'
    seenBoot     \* the last boot a check-in reported the uptime of

dbVars     == <<last, aged, row, result>>
serverVars == <<connected, job>>
deviceVars == <<boot, late, dev, present>>
histVars   == <<past, delivAt, seenBoot>>
vars       == <<dbVars, serverVars, deviceVars, histVars>>

-----------------------------------------------------------------------------
(* Workers.                                                                *)

Steps == {"release", "read", "send", "mark", "lease", "respond"}
Idle  == [path |-> "idle", step |-> "idle", todo |-> {}, out |-> {}]
Job   == {Idle} \cup [path : Paths, step : Steps,
                      todo : SUBSET Commands, out : SUBSET Commands]

Start(p, s, todo) == [path |-> p, step |-> s, todo |-> todo, out |-> {}]

\* What each path does first with a command.
FirstStep(p) == CASE p = "pull"    -> "lease"
                  [] p = "checkin" -> "mark"
                  [] OTHER         -> "send"

\* The command at hand: lists are in creation order.
Current(w) == CHOOSE c \in job[w].todo : \A d \in job[w].todo : c <= d

\* Mutant of Proceed: an empty list is worked through like any other.
ProceedEmpty(j, todo, out) ==
    [j EXCEPT !.step = FirstStep(j.path), !.todo = todo, !.out = out]

\* The worker's state once it has its list, or is done with a command.
Proceed(j, todo, out) ==
    IF todo # {}
    THEN [j EXCEPT !.step = FirstStep(j.path), !.todo = todo, !.out = out]
    ELSE IF j.path \in HttpPaths
         THEN [j EXCEPT !.step = "respond", !.todo = {}, !.out = out]
         ELSE Idle

\* Nothing is handed out after a reboot on the list paths.
Rest(w, c) == IF TypeOf[c] = "reboot" /\ job[w].path \in ListPaths
              THEN {}
              ELSE job[w].todo \ {c}

-----------------------------------------------------------------------------
(* The due list: GetPendingCommandsForDevice.                              *)

Created == 1..last

\* Within the hour, or downloading/installing at any age.
Live(c) == c \in Created /\ (c > aged \/ row[c].status \in InFlight)

\* Mutant of Offerable: what was sent once is not sent again.
OfferableOnce(c) == row[c].status \notin {"delivered"} \cup InFlight \cup Terminal

\* A command the device could still be handed, the queue aside.
Offerable(c) ==
    /\ row[c].status \notin InFlight \cup Terminal
    /\ ~ (row[c].status = "delivered"
            /\ (row[c].recv # Never \/ TypeOf[c] = "reboot"))
    /\ row[c].lease # "held"
    /\ ~ (MaxAttempts(TypeOf[c]) > 0
            /\ row[c].attempts >= MaxAttempts(TypeOf[c]))

\* Mutant of HoldsBack: a command that was only sent does not hold the next.
HoldsBackInFlight(b, c) ==
    b < c /\ Lane(TypeOf[b]) = Lane(TypeOf[c]) /\ row[b].status \in InFlight

\* b keeps c waiting: older, same lane, unfinished.
HoldsBack(b, c) ==
    /\ b < c
    /\ Live(b)
    /\ Lane(TypeOf[b]) = Lane(TypeOf[c])
    /\ TypeOf[b] \notin GateExempt
    /\ row[b].status \notin Terminal

Blocked(c) == /\ TypeOf[c] \notin GateExempt
              /\ \E b \in Commands : HoldsBack(b, c)

Pending == {c \in Commands : Live(c) /\ Offerable(c) /\ ~ Blocked(c)}

\* The dashboard's own check before it pushes a new command: CommandBlocked.
CommandBlocked(c) ==
    \E b \in Commands : /\ b < c
                        /\ Live(b)
                        /\ row[b].status \notin Terminal

\* Deliveries the redrive sweep may find stuck: ListStuckDeliveredCommands.
Stuck == {c \in Created : /\ c > aged
                          /\ row[c].status = "delivered"
                          /\ row[c].recv = Never
                          /\ TypeOf[c] # "reboot"}

-----------------------------------------------------------------------------
(* Writing rows, and the history that goes with it.                        *)

\* What is stamped now.
Now == 2 * boot + (IF late THEN 1 ELSE 0)

WriteRows(f) ==
    /\ row' = f
    /\ past' = past \cup {c \in Commands : f[c].status \in Terminal}
    /\ delivAt' = [c \in Commands |->
                       IF row[c].status = "none" /\ f[c].status = "delivered"
                       THEN Now ELSE delivAt[c]]

WriteRow(c, r) == WriteRows([row EXCEPT ![c] = r])

\* The device takes in the commands C; it drops what it has seen before.
Receive(C) == dev' = [c \in Commands |->
                        IF c \in C /\ dev[c] = "new" THEN "got" ELSE dev[c]]

SetJob(w, j) == job' = [job EXCEPT ![w] = j]

IsIdle(w) == job[w] = Idle
At(w, s)  == job[w].step = s

-----------------------------------------------------------------------------
(* Operators and background time.                                          *)

\* CreateCommandBy.  The API pushes at once whatever else is queued (a wake
\* for a client that pulls), the dashboard only if CommandBlocked lets it.
CreateByApi(w) ==
    /\ "create" \in Doors
    /\ last < N
    /\ IsIdle(w)
    /\ last' = last + 1
    /\ SetJob(w, IF PullCapable THEN Idle
                 ELSE Start("create", "send", {last + 1}))
    /\ UNCHANGED <<aged, row, result, connected, deviceVars, histVars>>

CreateByDashboard(w) ==
    /\ "dash" \in Doors
    /\ last < N
    /\ IsIdle(w)
    /\ last' = last + 1
    /\ SetJob(w, Start("dash", "read", {last + 1}))
    /\ UNCHANGED <<aged, row, result, connected, deviceVars, histVars>>

\* POST /commands/{id}/cancel marks the row; the device page's Remove also
\* hands out what the removal released.
CancelByApi(c) ==
    /\ c \in Created
    /\ row[c].status \notin Terminal
    /\ WriteRow(c, CancelRow(row[c], Now))
    /\ UNCHANGED <<last, aged, result, serverVars, deviceVars, seenBoot>>

CancelByDashboard(w, c) ==
    /\ "advance" \in Doors
    /\ c \in Created
    /\ IsIdle(w)
    /\ WriteRow(c, CancelRow(row[c], Now))
    /\ SetJob(w, IF ~ connected THEN Idle ELSE Start("advance", "read", {}))
    /\ UNCHANGED <<last, aged, result, connected,
                   deviceVars, seenBoot>>

\* An hour passes since the oldest command still in the window.
AgeOut ==
    /\ aged < last
    /\ aged' = aged + 1
    /\ UNCHANGED <<last, row, result, serverVars, deviceVars,
                   histVars>>

\* Nothing has been written to the row for the stalled-install window.
Stalls(c) ==
    /\ TypeOf[c] \in InstallShaped
    /\ row[c].status \in InFlight /\ ~ row[c].stalled
    /\ WriteRow(c, [row[c] EXCEPT !.stalled = TRUE])
    /\ UNCHANGED <<last, aged, result, serverVars, deviceVars, seenBoot>>

LeaseLapses(c) ==
    /\ row[c].lease = "held"
    /\ WriteRow(c, [row[c] EXCEPT !.lease = "lapsed"])
    /\ UNCHANGED <<last, aged, result, serverVars, deviceVars, seenBoot>>

-----------------------------------------------------------------------------
(* Workers at work.                                                        *)

\* flushPendingCommands, from the connect hook or the minute job.
StartFlush(w) ==
    /\ "flush" \in Doors
    /\ IsIdle(w)
    /\ connected
    /\ SetJob(w, Start("flush", "read", {}))
    /\ UNCHANGED <<dbVars, connected, deviceVars, histVars>>

\* GET /commands/pending: the device polls.
StartPull(w) ==
    /\ "pull" \in Doors
    /\ PullCapable
    /\ IsIdle(w)
    /\ SetJob(w, Start("pull", "read", {}))
    /\ UNCHANGED <<dbVars, connected, deviceVars, histVars>>

\* RedriveStuckDeliveries looks for deliveries nothing came of; a client that
\* pulls is only woken.
StartRedrive(w) ==
    /\ "redrive" \in Doors
    /\ IsIdle(w)
    /\ connected
    /\ ~ PullCapable
    /\ \E S \in (SUBSET Stuck) \ {{}} : SetJob(w, Start("redrive", "send", S))
    /\ UNCHANGED <<dbVars, connected, deviceVars, histVars>>

\* Connect drops the leases before its own flush.
ReleaseLeases(w) ==
    /\ At(w, "release")
    /\ WriteRows([c \in Commands |-> ReleaseRow(row[c], Now)])
    /\ SetJob(w, [job[w] EXCEPT !.step = "read"])
    /\ UNCHANGED <<last, aged, result, connected,
                   deviceVars, seenBoot>>

\* The due list is read, or for the dashboard's push the queue ahead of it.  A
\* client that pulls gets a wake instead of a flush, and live-only types do not
\* go into an HTTP answer.
Due(w) == CASE job[w].path = "dash" -> {c \in job[w].todo : ~ CommandBlocked(c)}
            [] job[w].path = "pull" -> {c \in Pending : TypeOf[c] \notin LiveOnly}
            [] job[w].path = "flush" /\ PullCapable -> {}
            [] OTHER                -> Pending

ReadDue(w) ==
    /\ At(w, "read")
    /\ SetJob(w, Proceed(job[w], Due(w), {}))
    /\ UNCHANGED <<dbVars, connected, deviceVars, histVars>>

\* hub.Push: a refused command is passed over (the dashboard's loop then still
\* stops at a reboot); an accepted one arrives, or is swallowed by a half-open
\* socket.
Refused(w) ==
    LET c == Current(w) IN
    /\ ~ connected
    /\ SetJob(w, Proceed(job[w], IF job[w].path = "advance" THEN Rest(w, c)
                                 ELSE job[w].todo \ {c}, {}))
    /\ UNCHANGED dev

Accepted(w) ==
    LET c == Current(w) IN
    /\ connected
    /\ SetJob(w, [job[w] EXCEPT !.step = "mark"])
    /\ Receive({c}) \/ UNCHANGED dev

Send(w) ==
    /\ At(w, "send")
    /\ Refused(w) \/ Accepted(w)
    /\ UNCHANGED <<dbVars, connected, boot, late, present, past, delivAt, seenBoot>>

\* MarkCommandsDelivered; the dashboard's paths take no lease after it.
Mark(w) ==
    /\ At(w, "mark")
    /\ LET c == Current(w) IN
         /\ WriteRow(c, MarkDelivered(row[c], Now))
         /\ SetJob(w, IF job[w].path \in {"advance", "dash"}
                      THEN Proceed(job[w], Rest(w, c), {})
                      ELSE [job[w] EXCEPT !.step = "lease"])
    /\ UNCHANGED <<last, aged, result, connected,
                   deviceVars, seenBoot>>

\* LeaseCommand.
Lease(w) ==
    /\ At(w, "lease")
    /\ LET c == Current(w) IN
         /\ WriteRow(c, LeaseRow(row[c], Now))
         /\ SetJob(w, Proceed(job[w], Rest(w, c),
                        IF job[w].path \in HttpPaths
                        THEN job[w].out \cup {c} ELSE {}))
    /\ UNCHANGED <<last, aged, result, connected,
                   deviceVars, seenBoot>>

\* A failed statement is logged and passed over; the pull leaves the command
\* out of its answer, the other paths have handed it out already.
WriteFails(w) ==
    /\ job[w].step \in {"mark", "lease"}
    /\ LET c    == Current(w)
           pull == job[w].path = "pull"
       IN  /\ SetJob(w,
                IF job[w].step = "mark" /\ job[w].path \notin {"advance", "dash"}
                THEN [job[w] EXCEPT !.step = "lease"]
                ELSE Proceed(job[w],
                       IF pull THEN job[w].todo \ {c} ELSE Rest(w, c),
                       IF job[w].path = "checkin"
                       THEN job[w].out \cup {c} ELSE job[w].out))
    /\ UNCHANGED <<dbVars, connected, deviceVars, past,
                   delivAt, seenBoot>>

\* The HTTP answer reaches the device or is lost.
Respond(w) ==
    /\ At(w, "respond")
    /\ \/ Receive(job[w].out)
       \/ UNCHANGED dev
    /\ SetJob(w, Idle)
    /\ UNCHANGED <<dbVars, connected, boot, late, present, histVars>>

Work(w) == \/ ReleaseLeases(w) \/ ReadDue(w) \/ Send(w)
           \/ Mark(w) \/ Lease(w) \/ Respond(w)

-----------------------------------------------------------------------------
(* Reports from the device: HandleWsCommandAck and its HTTP twin.  A report *)
(* the device has made may arrive at any later time, more than once, after  *)
(* a later one, or never.                                                   *)

TerminalReports == {"installed", "failed", "completed"}

\* The types a device reports on as installs.
Installs == {"install_apk", "app_update", "ota"}

\* What a device reports while it works on a command of this type; of a reboot
\* it confirms the receipt only.
InterimOf(c) == CASE TypeOf[c] \in Installs -> InFlight
                  [] TypeOf[c] = "reboot" -> {}
                  [] OTHER                -> {"running"}

Reports(c) ==
    (IF SendsReceipt /\ dev[c] # "new" THEN {"received"} ELSE {})
    \cup (IF dev[c] \in {"new", "got"} THEN {} ELSE InterimOf(c))
    \cup ({dev[c]} \cap TerminalReports)

\* 'received': MarkCommandReceived.
HandleReceipt(c) ==
    /\ "received" \in Reports(c)
    /\ WriteRow(c, ReceiveRow(row[c], Now))
    /\ UNCHANGED <<last, aged, result, serverVars, deviceVars, seenBoot>>

\* 'downloading', 'installing', 'running': SetCommandProgress.
HandleProgress(c) ==
    /\ \E s \in Reports(c) \cap Interim :
         WriteRow(c, ProgressRow(row[c], s, Now))
    /\ UNCHANGED <<last, aged, result, serverVars, deviceVars, seenBoot>>

\* A terminal report: its output is saved first, AckCommand settles the row,
\* and the next command is flushed.
HandleTerminal(w, c, output) ==
    /\ IsIdle(w)
    /\ dev[c] \in TerminalReports
    /\ result' = IF output /\ TypeOf[c] = "install_apk"
                 THEN result \cup {c} ELSE result
    /\ WriteRow(c, AckRow(row[c], dev[c], Now))
    /\ SetJob(w, Start("flush", "read", {}))
    /\ UNCHANGED <<last, aged, connected, deviceVars, seenBoot>>

\* Mutant of Reconciles: the agent's own update is settled by the list too.
ReconcilesInstallShaped(c) ==
    /\ c \in Created /\ present
    /\ TypeOf[c] \in InstallShaped
    /\ row[c].status \notin {"installed", "completed"}
    /\ c \notin result

\* ReconcileInstalledCommands: the app of an install without an outcome is there.
Reconciles(c) ==
    /\ c \in Created /\ present
    /\ TypeOf[c] = "install_apk"
    /\ row[c].status \notin {"installed", "completed"}
    /\ c \notin result

\* bootTime: the moment of this boot, put back by 15 seconds less the frame's
\* time in flight and the clocks' difference; so the stamps of the boot before
\* it are earlier, but for those of its last seconds, each of which may be
\* either.  A frame is taken to arrive within the 15 seconds.
BootTimes == IF boot = 0 THEN {[c \in Commands |-> 0]}
             ELSE [Commands -> {2 * boot - 1, 2 * boot}]

\* A check-in: the reported app list settles installs; the reported uptime, if
\* there is one, settles reboots and shell commands from before the boot; and a
\* device without a socket is handed its due list, if it asked over HTTP and
\* its client reads commands there or legacy check-in is on.
CheckIn(w, withApps, uptime, bootedAt) ==
    /\ "checkin" \in Doors
    /\ IsIdle(w)
    /\ seenBoot' = IF uptime THEN boot ELSE seenBoot
    /\ WriteRows([c \in Commands |->
         CASE withApps /\ Reconciles(c)      -> ReconcileRow(row[c], Now)
           [] /\ uptime
              /\ TypeOf[c] = "reboot"
              /\ RebootAnswered(row[c], bootedAt[c])
                                             -> CompleteRebootRow(row[c], Now)
           [] /\ uptime
              /\ TypeOf[c] \in ShellLane
              /\ row[c].status \in {"delivered", "running"}
              /\ row[c].recv \in 0..(bootedAt[c] - 1)
                                             -> FailShellRow(row[c], Now)
           [] OTHER                          -> row[c]])
    /\ \/ SetJob(w, Idle)
       \/ ~ connected /\ SetJob(w, Start("checkin", "read", {}))
    /\ UNCHANGED <<last, aged, result, connected, deviceVars>>

-----------------------------------------------------------------------------
(* Sweeps.                                                                  *)

\* ExpireStalledInstalls; a connected device is flushed.
ExpireStalledInstall(w, c) ==
    /\ IsIdle(w)
    /\ TypeOf[c] \in InstallShaped
    /\ row[c].status \in InFlight /\ row[c].stalled
    /\ WriteRow(c, ExpireInstallRow(row[c], Now))
    /\ SetJob(w, IF ~ connected THEN Idle ELSE Start("flush", "read", {}))
    /\ UNCHANGED <<last, aged, result, connected,
                   deviceVars, seenBoot>>

\* FailOverdueShellCommands, deadline counted from receipt; then a flush.
FailOverdueShell(w, c) ==
    /\ IsIdle(w)
    /\ TypeOf[c] \in ShellLane
    /\ row[c].status \in {"delivered", "running"}
    /\ row[c].recv # Never
    /\ WriteRow(c, FailShellRow(row[c], Now))
    /\ SetJob(w, Start("flush", "read", {}))
    /\ UNCHANGED <<last, aged, result, connected, deviceVars, seenBoot>>

-----------------------------------------------------------------------------
(* The connection and the device (external).                               *)

\* Connect: a socket replaces whatever was there; leases, then the flush.
Connect(w) ==
    /\ IsIdle(w)
    /\ connected' = TRUE
    /\ SetJob(w, Start("flush", "release", {}))
    /\ UNCHANGED <<dbVars, deviceVars, histVars>>

\* The socket closes, or its read deadline passes.
Disconnect ==
    /\ connected
    /\ connected' = FALSE
    /\ UNCHANGED <<dbVars, job, deviceVars, histVars>>

\* The server restarts: its goroutines and sockets are gone.
Restart ==
    /\ connected' = FALSE
    /\ job' = [w \in Workers |-> Idle]
    /\ UNCHANGED <<dbVars, deviceVars, histVars>>

Begin(c) ==
    /\ dev[c] = "got"
    /\ TypeOf[c] # "reboot"
    /\ dev' = [dev EXCEPT ![c] = "running"]
    /\ UNCHANGED <<dbVars, serverVars, boot, late, present, histVars>>

Finish(c, ok) ==
    /\ dev[c] = "running"
    /\ dev' = [dev EXCEPT ![c] =
                 IF ~ ok THEN "failed"
                 ELSE IF TypeOf[c] \in Installs
                      THEN "installed" ELSE "completed"]
    /\ present' = (present \/ (ok /\ TypeOf[c] = "install_apk"))
    /\ UNCHANGED <<dbVars, serverVars, boot, late, histVars>>

\* From here to the next boot it is less than the 15 seconds.
BootNears ==
    /\ boot < MaxBoots
    /\ ~ late
    /\ late' = TRUE
    /\ UNCHANGED <<dbVars, serverVars, boot, dev, present, histVars>>

\* The device goes down for the reboot it was sent, or by itself ({}).  What
\* it was running is lost, and its socket is half-open until noticed.
BootAgain(C) ==
    /\ boot < MaxBoots
    /\ boot' = boot + 1
    /\ late' = FALSE
    /\ \A c \in C : dev[c] = "got" /\ TypeOf[c] = "reboot"
    /\ dev' = [c \in Commands |->
                 IF c \in C THEN "rebooted"
                 ELSE IF dev[c] = "running" THEN "lost" ELSE dev[c]]
    /\ UNCHANGED <<dbVars, serverVars, present, histVars>>

-----------------------------------------------------------------------------
Init ==
    /\ last = 0 /\ aged = 0
    /\ row = [c \in Commands |-> NoRow]
    /\ result = {}
    /\ connected = FALSE
    /\ job = [w \in Workers |-> Idle]
    /\ boot = 0 /\ late = FALSE
    /\ dev = [c \in Commands |-> "new"]
    /\ present = Preinstalled
    /\ past = {}
    /\ delivAt = [c \in Commands |-> Never] /\ seenBoot = 0

Operator == \/ \E w \in Workers : CreateByApi(w) \/ CreateByDashboard(w)
            \/ \E c \in Commands : CancelByApi(c)
            \/ \E w \in Workers, c \in Commands : CancelByDashboard(w, c)

Clock == AgeOut \/ \E c \in Commands : LeaseLapses(c) \/ Stalls(c)

Delivery == \E w \in Workers :
    \/ StartFlush(w) \/ StartPull(w) \/ StartRedrive(w)
    \/ Work(w) \/ WriteFails(w)

Report == \E c \in Commands :
    \/ HandleReceipt(c) \/ HandleProgress(c)
    \/ \E w \in Workers, output \in BOOLEAN : HandleTerminal(w, c, output)

Upkeep == \E w \in Workers :
    \/ \E withApps \in BOOLEAN, uptime \in BOOLEAN, bootedAt \in BootTimes :
         CheckIn(w, withApps, uptime, bootedAt)
    \/ \E c \in Commands : ExpireStalledInstall(w, c) \/ FailOverdueShell(w, c)

Link == (\E w \in Workers : Connect(w)) \/ Disconnect \/ Restart

Device == \/ \E c \in Commands : Begin(c) \/ (\E ok \in Outcomes : Finish(c, ok))
          \/ BootNears \/ BootAgain({}) \/ \E c \in Commands : BootAgain({c})

Next == Operator \/ Clock \/ Delivery \/ Report \/ Upkeep \/ Link \/ Device

Spec == Init /\ [][Next]_vars

\* What keeps a queue moving once the device stops repeating that it is at work
\* (each such report makes the row fresh again): workers finish what they
\* started, time passes, and the minute job finds a stalled install; strongly
\* fair because a worker for it may be busy each time.
MovingSpec ==
    /\ Spec
    /\ <>[][~ \E c \in Commands : HandleProgress(c)]_vars
    /\ WF_vars(AgeOut)
    /\ \A w \in Workers : WF_vars(Work(w))
    /\ \A c \in Commands :
         /\ WF_vars(Stalls(c))
         /\ SF_vars(\E w \in Workers : ExpireStalledInstall(w, c))

\* A device that comes back for good once the server stays up, and does not
\* lose every frame: leases run out, and the minute job redrive-unflushed
\* flushes whoever is connected.
DeliverySpec ==
    /\ Spec
    /\ <>[][~ (Restart \/ Disconnect)]_vars
    /\ \A w \in Workers : WF_vars(Work(w))
    /\ SF_vars(\E w \in Workers : StartFlush(w))
    /\ WF_vars(~ connected /\ \E w \in Workers : Connect(w))
    /\ \A c \in Commands :
         /\ WF_vars(LeaseLapses(c))
         /\ SF_vars(\E w \in Workers : Send(w) /\ dev'[c] = "got")

-----------------------------------------------------------------------------
(* Properties.                                                             *)

TypeOK ==
    /\ last \in 0..N
    /\ aged \in 0..last
    /\ row \in [Commands -> Row]
    /\ result \subseteq Commands
    /\ connected \in BOOLEAN
    /\ job \in [Workers -> Job]
    /\ \A w \in Workers :
         job[w].step \in {"send", "mark", "lease"} => job[w].todo # {}
    /\ boot \in 0..MaxBoots /\ late \in BOOLEAN
    /\ dev \in [Commands -> {"new", "got", "running", "rebooted", "lost"}
                            \cup TerminalReports]
    /\ present \in BOOLEAN
    /\ past \subseteq Commands
    /\ delivAt \in [Commands -> Nat \cup {Never}]
    /\ seenBoot \in 0..boot

\* Late, repeated and reordered reports, sweeps and hand-outs never move a row
\* out of 'installed', 'failed' or 'completed'; the one exception is an
\* install the sweep failed and the device never reported on, which the app
\* list may still settle as installed (AckCommand, ReconcileInstalledCommands).
SettledIsFinal ==
    [][\A c \in Commands :
         row[c].status \in Settled =>
           \/ row'[c].status = row[c].status
           \/ /\ row[c].status = "failed" /\ row'[c].status = "installed"
              /\ TypeOf[c] = "install_apk" /\ c \notin result']_vars

\* What a row says of the outcome is the device's word or the server's proof of
\* it: an installation the device reported or, of an app, shows; a completion it
\* reported, or a reboot; a failure it reported, unless the command is of the two
\* kinds the sweeps give up on (AckCommand, ReconcileInstalledCommands).
OutcomeIsReal ==
    \A c \in Commands :
        /\ row[c].status = "installed" =>
             dev[c] = "installed" \/ (TypeOf[c] = "install_apk" /\ present)
        /\ row[c].status = "completed" =>
             dev[c] = "completed" \/ TypeOf[c] = "reboot"
        /\ row[c].status = "failed" =>
             dev[c] = "failed" \/ TypeOf[c] \in InstallShaped \cup ShellLane

\* A cancelled command comes back only by what the device that had it already
\* says, or by its app being there: a list read before the cancel and worked
\* off after it, a re-push, a lease or a sweep brings nothing back
\* (CancelCommand, MarkCommandsDelivered, LeaseCommand).
CancelHolds ==
    [][\A c \in Commands :
         row[c].status = "cancelled" /\ row'[c].status # "cancelled" =>
           \/ dev[c] # "new" /\ row'[c].status \in Reports(c)
           \/ /\ row'[c].status = "installed"
              /\ TypeOf[c] = "install_apk" /\ present]_vars

\* A command the device never got is due until it is finished: frames lost and
\* statements failed between two goroutines leave no row that the due list
\* passes over, but for a lease that will lapse, a reboot that was sent and a
\* type whose attempts are used up (GetPendingCommandsForDevice).
StillDue ==
    \A c \in Created :
        dev[c] = "new" /\ row[c].status \notin Terminal =>
          \/ Offerable(c)
          \/ row[c].lease = "held"
          \/ TypeOf[c] = "reboot" /\ row[c].status = "delivered"
          \/ /\ MaxAttempts(TypeOf[c]) > 0
             /\ row[c].attempts >= MaxAttempts(TypeOf[c])

\* What becomes of every command, told in the stages an operator sees: it is
\* sent once and does not wait again, it is at work or over only on the device's
\* word, on what a check-in shows, or because a sweep gave it up, whatever
\* hand-outs, repeated and late reports and cancels cross (AckCommand,
\* SetCommandProgress, LeaseCommand, CancelCommand).
StageOf(s) == CASE s = "none"                       -> "waiting"
                [] s = "delivered"                  -> "sent"
                [] s \in Interim                    -> "working"
                [] s \in {"installed", "completed"} -> "done"
                [] s = "failed"                     -> "failed"
                [] OTHER                            -> "withdrawn"

EndOf(d) == CASE d = "new"                        -> "away"
              [] d \in {"installed", "completed"} -> "done"
              [] d = "failed"                     -> "failed"
              [] OTHER                            -> "has"

AppInstalls == {c \in Commands : TypeOf[c] = "install_apk"}
Reboots     == {c \in Commands : TypeOf[c] = "reboot"}
Watched     == {c \in Commands : TypeOf[c] \in InstallShaped \cup ShellLane}

Life == INSTANCE CommandLife WITH
    stage  <- [c \in Commands |-> StageOf(row[c].status)],
    device <- [c \in Commands |-> EndOf(dev[c])],
    app    <- present

LivesAsPromised == Life!Spec

\* The per-device gate, seen from the device: however flushes, polls, re-pushes,
\* sweeps, reports and reconnects interleave with lists already read, a command
\* reaches the device only when every older one of its lane has once been
\* finished or has left the one-hour window (GetPendingCommandsForDevice,
\* CommandBlocked).  The API's push at creation asks nobody (CreateByApi), so
\* instances that open that door are left out.
HeldFor(b, c) == /\ b < c
                 /\ Lane(TypeOf[b]) = Lane(TypeOf[c])
                 /\ TypeOf[b] \notin GateExempt
                 /\ TypeOf[c] \notin GateExempt

Released(c) == \A b \in Commands : HeldFor(b, c) => b \in past \/ b <= aged

LaneOrder ==
    "create" \notin Doors \/ PullCapable =>
        \A c \in Commands : dev[c] # "new" => Released(c)

\* A reboot is called completed only once the device has booted after the
\* command's delivery was recorded: a reconnect is not proof of a reboot
\* (CompleteDeliveredReboots, FW-2026-000033).
RebootNeedsBoot ==
    \A c \in Commands :
        TypeOf[c] = "reboot" /\ row[c].status = "completed"
            => delivAt[c] \in 0..(2 * boot - 1)

\* A reboot whose receipt was stamped more than bootTime's 15 seconds before a
\* boot does not outlive the first check-in that reports the uptime of that boot,
\* whatever re-pushes and reconnects did to the row in between
\* (CompleteDeliveredReboots' COALESCE(received_at, updated_at)).  One stamped
\* within the 15 seconds may stay 'delivered' until a further boot.
ReceivedRebootSettles ==
    \A c \in Commands :
        TypeOf[c] = "reboot" /\ row[c].status = "delivered"
            => row[c].recv \notin 0..(2 * seenBoot - 2)

\* No command keeps its lane shut for ever once its device has stopped reporting
\* that it is at work: it is finished, or it leaves the one-hour window and is
\* not downloading or installing either, for only install-shaped types report
\* those two, and the stalled-install sweep fails them when the reports stop,
\* whatever else the device fails to say (InstallShaped, ExpireStalledInstalls).
GateOpens ==
    \A c \in Commands :
        c \in Created ~> row[c].status \in Terminal \/ ~ Live(c)

\* A command is not left undelivered once its device stays connected: a lost
\* frame, a lapsed lease, a failed write or a restart in the middle of a
\* hand-out never removes it from the due list.  Only being finished or the end
\* of the one-hour window does (flushPendingCommands, redrive-unflushed).
Reached ==
    \A c \in Commands :
        c \in Created ~> \/ dev[c] # "new"
                         \/ row[c].status \in Terminal
                         \/ c <= aged

-----------------------------------------------------------------------------
(* What a comment in the code says, and the code does not do.              *)

\* "Interim progress must never overwrite a terminal state"
\* (SetCommandProgressBytes).
InterimKeepsTerminal ==
    [][\A c \in Commands :
         row[c].status \in Terminal => row'[c].status \notin Interim]_vars
=============================================================================
