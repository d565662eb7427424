----------------------------- MODULE OtaRollout -----------------------------
(***************************************************************************)
(* Firmware deployments as one device meets them: the tables updates and   *)
(* update_devices, the OTA commands of command_status, and everything that *)
(* writes them: check-ins (ingestCheckin), the device's OTA reports        *)
(* (afterOtaTerminal), the minute jobs (scheduled reboots, re-driven       *)
(* reboots, the stall sweep) and the operators of the deployment page.     *)
(*                                                                         *)
(* Deployments are numbered in creation order; the release of deployment u *)
(* is build u, newer than every build below it, and its incremental goes   *)
(* from build u - 1.  Times are kept as far as a comparison reads them:    *)
(*   age   of updated_at: "new" inside the half-hour window, "stale"       *)
(*         beyond it, "old" when a verdict lies between (a command) or a   *)
(*         day has passed (a row)                                          *)
(*   sent  reboot_sent_at, as the device boot during which it was stamped  *)
(***************************************************************************)
EXTENDS Integers

CONSTANTS
    MaxUpdates,  \* deployments
    MaxCmds,     \* OTA commands
    MaxBoots,    \* boots of the device after its first
    MaxOps,      \* clicks on the page, failed statements and server restarts
    Workers,     \* goroutines: handlers and jobs at work
    RebootAt,    \* reboot_behavior of each deployment
    Ships,       \* the packages of each release
    Pins,        \* the choices of "force the full image" that operators make
    Capable      \* the device's client can take an MDM OTA (otagate)

Updates  == 1..MaxUpdates
Builds   == 0..MaxUpdates
CmdIds   == 1..MaxCmds
Behavior == {"immediate", "scheduled", "manual"}

ASSUME RolloutAssumption ==
    /\ MaxUpdates \in Nat \ {0}
    /\ MaxCmds \in Nat \ {0}
    /\ MaxBoots \in Nat
    /\ MaxOps \in Nat
    /\ RebootAt \in [Updates -> Behavior]
    /\ Ships \in [Updates -> SUBSET {"full", "delta"}]
    /\ Pins \subseteq BOOLEAN
    /\ Capable \in BOOLEAN

VARIABLES
    upd,     \* updates: status, and the first command created since
    row,     \* update_devices: the device's row in each
    cmd,     \* the OTA commands and their command_status rows
    last,    \* commands created so far
    build,   \* devices.build_id
    due,     \* the scheduled reboot time has come
    job,     \* what each goroutine has read and will do next
    asked,   \* an OTA reboot command is on its way to the device
    boot,    \* the device: its current boot
    runs,    \*   the build it runs
    slot,    \*   the build it boots into next
    dev,     \*   how far it is with each command
    ops,     \* clicks, failures and restarts so far
    ran      \* history: the builds the device has run

deployVars == <<upd, row>>
cmdVars    == <<cmd, last>>
serverVars == <<build, due>>
deviceVars == <<boot, runs, slot, dev>>
vars == <<deployVars, cmdVars, serverVars, job, asked, deviceVars, ops, ran>>

Never == -1

Settled   == {"installed", "failed", "canceled"}
RowStatus == {"none", "pending", "downloading", "awaiting_reboot", "reboot_sent"}
                 \cup Settled
Reason    == {"none", "stalled", "cancelled", "slot", "device"}
Age       == {"new", "stale", "old"}

Row == [status : RowStatus, err : Reason, full : BOOLEAN,
        sent : {Never} \cup 0..MaxBoots, age : Age]

NoRow == [status |-> "none", err |-> "none", full |-> FALSE,
          sent |-> Never, age |-> "new"]

Upd == [status : {"none", "active", "complete", "canceled"},
        first : 1..(MaxCmds + 1)]

Finished  == {"installed", "failed"}
CmdStatus == {"none", "delivered", "downloading", "expired"} \cup Finished

DevStep == {"new", "got", "applied", "booted", "failed"}

Cmd == [for : Updates, status : CmdStatus, age : Age]

Steps == {"idle", "frame", "resolve", "arrived", "slot", "dispatch", "offer",
          "mark", "push", "report", "failed", "applied", "reboot"}

OnUpdate  == {"arrived", "slot", "offer", "mark", "failed", "applied", "reboot"}
OnCommand == {"mark", "push"}

Job == {j \in [step : Steps, u : Builds, c : 0..MaxCmds, build : Builds,
               boot : 0..MaxBoots, flag : BOOLEAN] :
          /\ j.step \in OnUpdate => j.u \in Updates
          /\ j.step \in OnCommand => j.c \in CmdIds}

Idle == [step |-> "idle", u |-> 0, c |-> 0, build |-> 0, boot |-> 0,
         flag |-> FALSE]

-----------------------------------------------------------------------------
(* The statements that write one row of update_devices.  An UPDATE of an   *)
(* absent row writes nothing.                                              *)

\* SetUpdateDeviceStatus
SetStatus(r, s) ==
    IF r.status = "none" THEN r
    ELSE [r EXCEPT !.status = s, !.err = "none", !.age = "new",
                   !.sent = IF s = "reboot_sent" /\ @ = Never THEN boot ELSE @]

\* SetUpdateDeviceFailed, and SetUpdateDeviceForceFull after an incremental
SetFailed(r, why, pin) ==
    IF r.status = "none" THEN r
    ELSE [r EXCEPT !.status = "failed", !.err = why, !.age = "new",
                   !.full = @ \/ pin]

\* CheckAndCompleteUpdate, for a deployment whose only device this is.
Completed(d, r) ==
    IF d.status = "active" /\ r.status \in Settled \cup {"none"}
    THEN [d EXCEPT !.status = "complete"] ELSE d

-----------------------------------------------------------------------------
(* OTA commands.                                                           *)

Created == {c \in CmdIds : c <= last}

Terminal == {"installed", "failed", "expired"}
Open(c)  == cmd[c].status \notin Terminal

Since(u) == {c \in Created : c >= upd[u].first}

\* HasPendingOTACommand: unfinished and heard of lately, or failed lately.
Guards(c) ==
    /\ Open(c) \/ cmd[c].status = "failed"
    /\ cmd[c].age = "new"

\* Mutant of Cleared: the command gets the row's word for it.
ClearedCanceled ==
    [c \in CmdIds |->
        IF c \in Created /\ cmd[c].status # "installed"
        THEN [cmd[c] EXCEPT !.status = "canceled", !.age = "old"]
        ELSE cmd[c]]

\* ClearPendingOTACommands, and the same statement in SendUpdateToDevices.
Cleared ==
    [c \in CmdIds |->
        IF c \in Created /\ cmd[c].status # "installed"
        THEN [cmd[c] EXCEPT !.status = "failed", !.age = "old"]
        ELSE cmd[c]]

\* A guarded write of command_status: the device's reports never reopen a
\* finished command.
Written(k, s) ==
    IF k.status \in Finished THEN k
    ELSE [k EXCEPT !.status = s, !.age = "new"]

\* MarkCommandsDelivered and LeaseCommand: any hand-out renews updated_at.
Delivered(k) ==
    [k EXCEPT !.status = IF @ = "none" THEN "delivered" ELSE @, !.age = "new"]

-----------------------------------------------------------------------------
(* ResolveUpdateForDevice.                                                 *)

\* The artifact: the incremental from the device's build unless the row is
\* pinned to the full image.
Package(u, pinned) ==
    IF "delta" \in Ships[u] /\ ~ pinned /\ build = u - 1 THEN "delta"
    ELSE IF "full" \in Ships[u] THEN "full" ELSE "none"

Served(u) ==
    /\ upd[u].status = "active"
    /\ row[u].status \notin Settled \cup {"none"}
    /\ build < u
    /\ Package(u, row[u].full) # "none"

\* ORDER BY created_at DESC LIMIT 1
Resolved(u) == Served(u) /\ \A v \in Updates : Served(v) => v <= u

Unresolved == \A u \in Updates : ~ Served(u)

At(w, s) == job[w].step = s
Done(w)  == job' = [job EXCEPT ![w] = Idle]
Goto(w, s, u) ==
    job' = [job EXCEPT ![w] = IF s = "idle" THEN Idle
                              ELSE [Idle EXCEPT !.step = s, !.u = u]]

-----------------------------------------------------------------------------
(* A check-in, over either transport: ingestCheckin.                       *)

\* The device sends what it runs; the frame may be handled much later.
CheckIn(w) ==
    /\ At(w, "idle")
    /\ job' = [job EXCEPT ![w] = [Idle EXCEPT !.step = "frame", !.build = runs,
                                              !.boot = boot]]
    /\ UNCHANGED <<deployVars, cmdVars, serverVars, asked, deviceVars, ops, ran>>

\* CompleteUpdatesAtTargetBuild: which rows the reported build finishes.
ReachedTarget(u, b) ==
    /\ u = b
    /\ upd[u].status \in {"active", "canceled"}
    /\ row[u].status \notin {"none", "installed", "canceled"}

\* UpsertCheckin, then completion by build id.
Ingest(w) ==
    /\ At(w, "frame")
    /\ build' = job[w].build
    /\ row' = [u \in Updates |->
                 IF ReachedTarget(u, job[w].build)
                 THEN [row[u] EXCEPT !.status = "installed", !.err = "none",
                                     !.age = "new"]
                 ELSE row[u]]
    /\ upd' = [u \in Updates |->
                 IF ReachedTarget(u, job[w].build)
                 THEN Completed(upd[u], row'[u]) ELSE upd[u]]
    /\ job' = [job EXCEPT ![w].step = "resolve"]
    /\ UNCHANGED <<cmdVars, due, asked, deviceVars, ops, ran>>

\* bootedAfter: whether a frame of boot t shows that the device has booted since
\* the reboot was sent.  It need not: bootTime dates the boot 15 s early, so a
\* reboot sent in the last 15 s before it passes for one sent after it, and a
\* frame may carry no uptime.  (A frame is taken to be less than 15 s on its way;
\* one that takes longer dates its boot later than it was.)
BootedAfter(u, t) ==
    IF row[u].sent # Never /\ row[u].sent < t THEN BOOLEAN ELSE {FALSE}

\* The switch of ingestCheckin: what is owed to a device that reports build b
\* and, if "after", has booted since the reboot was sent.
Verdict(u, b, after) ==
    IF u = b THEN "arrived"
    ELSE IF row[u].status = "reboot_sent" /\ after THEN "slot"
    ELSE IF row[u].status \in {"awaiting_reboot", "reboot_sent"} THEN "idle"
    ELSE IF Capable /\ (Package(u, row[u].full) = "delta" => b = u - 1)
         THEN "offer" ELSE "idle"

\* ResolveUpdateForDevice, and the switch on what it found.
Resolve(w) ==
    /\ At(w, "resolve")
    /\ \/ Unresolved /\ Done(w)
       \/ \E u \in Updates :
             /\ Resolved(u)
             /\ \E after \in BootedAfter(u, job[w].boot) :
                   Goto(w, Verdict(u, job[w].build, after), u)
    /\ UNCHANGED <<deployVars, cmdVars, serverVars, asked, deviceVars, ops, ran>>

\* Already on the target build.
Arrived(w) ==
    /\ At(w, "arrived")
    /\ LET u == job[w].u IN
       /\ row' = [row EXCEPT ![u] = SetStatus(@, "installed")]
       /\ upd' = [upd EXCEPT ![u] = Completed(@, row'[u])]
    /\ Done(w)
    /\ UNCHANGED <<cmdVars, serverVars, asked, deviceVars, ops, ran>>

\* failSlotSwitch
FailSlotSwitch(w) ==
    /\ At(w, "slot")
    /\ LET u == job[w].u IN
       /\ row' = [row EXCEPT ![u] = SetFailed(@, "slot", FALSE)]
       /\ upd' = [upd EXCEPT ![u] = Completed(@, row'[u])]
    /\ Done(w)
    /\ UNCHANGED <<cmdVars, serverVars, asked, deviceVars, ops, ran>>

\* pushOTAToConnected, started by a deployment.
Dispatch(w) ==
    /\ At(w, "dispatch")
    /\ \/ Unresolved /\ Done(w)
       \/ \E u \in Updates : Resolved(u) /\ Goto(w, "offer", u)
    /\ UNCHANGED <<deployVars, cmdVars, serverVars, asked, deviceVars, ops, ran>>

\* Mutant of InFlight: the check made when the update was resolved is trusted.
InFlightUnlocked == \E c \in Created : Guards(c) /\ cmd[c].status # "none"

InFlight == \E c \in Created : Guards(c)

\* CreateOTACommandIfNone: check and insert under the device's advisory lock.
\* The bound on commands is an insert that fails.
Create(w) ==
    /\ At(w, "offer")
    /\ IF InFlight \/ last = MaxCmds
       THEN Done(w) /\ UNCHANGED cmdVars
       ELSE /\ last' = last + 1
            /\ cmd' = [cmd EXCEPT ![last + 1] =
                         [for |-> job[w].u, status |-> "none", age |-> "new"]]
            /\ job' = [job EXCEPT ![w] = [@ EXCEPT !.step = "mark", !.c = last + 1]]
    /\ UNCHANGED <<deployVars, serverVars, asked, deviceVars, ops, ran>>

\* TryCreateOTACommand: the row is set to 'downloading', whatever it says now.
Mark(w) ==
    /\ At(w, "mark")
    /\ row' = [row EXCEPT ![job[w].u] = SetStatus(@, "downloading")]
    /\ job' = [job EXCEPT ![w] = [Idle EXCEPT !.step = "push", !.c = job[w].c]]
    /\ UNCHANGED <<upd, cmdVars, serverVars, asked, deviceVars, ops, ran>>

\* A frame the hub took arrives, unless the socket was dead.
Arrives(c) ==
    \/ UNCHANGED dev
    \/ dev' = [dev EXCEPT ![c] = IF @ = "new" THEN "got" ELSE @]

\* pushCommand, on a command that may have been cancelled meanwhile.
Push(w) ==
    /\ At(w, "push")
    /\ Done(w)
    /\ \/ UNCHANGED <<cmd, dev>>
       \/ /\ cmd' = [cmd EXCEPT ![job[w].c] = Delivered(@)]
          /\ Arrives(job[w].c)
    /\ UNCHANGED <<deployVars, last, serverVars, asked, boot, runs, slot,
                   ops, ran>>

\* The other ways a command reaches the device: the flush on connect, the
\* redrive jobs, the answer to a check-in (module CommandQueue).
HandOut(c) ==
    /\ c \in Created
    /\ cmd[c].status \in {"none", "delivered"}
    /\ dev[c] = "new"
    /\ cmd' = [cmd EXCEPT ![c] = Delivered(@)]
    /\ Arrives(c)
    /\ UNCHANGED <<deployVars, last, serverVars, job, asked, boot, runs,
                   slot, ops, ran>>

-----------------------------------------------------------------------------
(* The device's reports: OtaProgress, HandleWsOtaStatus, afterOtaTerminal. *)

\* Interim progress, over HTTP, on the command the device works on.
Progress(c) ==
    /\ c \in Created
    /\ dev[c] = "got"
    /\ cmd' = [cmd EXCEPT ![c] = Written(@, "downloading")]
    /\ UNCHANGED <<deployVars, last, serverVars, job, asked, deviceVars, ops, ran>>

\* "installed" or "error", sent until it is answered and perhaps once more.
Report(w, c) ==
    /\ At(w, "idle")
    /\ c \in Created
    /\ dev[c] \in {"applied", "booted", "failed"}
    /\ cmd' = [cmd EXCEPT ![c] =
                 Written(@, IF dev[c] = "failed" THEN "failed" ELSE "installed")]
    /\ job' = [job EXCEPT ![w] = [Idle EXCEPT !.step = "report",
                                              !.flag = dev[c] # "failed"]]
    /\ UNCHANGED <<deployVars, last, serverVars, asked, deviceVars, ops, ran>>

\* afterOtaTerminal looks up the deployment the device is in now; flag then
\* says whether an incremental failed.
Settle(w) ==
    /\ At(w, "report")
    /\ \/ Unresolved /\ Done(w)
       \/ \E u \in Updates :
             /\ Resolved(u)
             /\ job' = [job EXCEPT ![w] =
                   IF job[w].flag
                   THEN [Idle EXCEPT !.step = "applied", !.u = u]
                   ELSE [Idle EXCEPT !.step = "failed", !.u = u,
                           !.flag = Package(u, row[u].full) = "delta"]]
    /\ UNCHANGED <<deployVars, cmdVars, serverVars, asked, deviceVars, ops, ran>>

ReportedFailed(w) ==
    /\ At(w, "failed")
    /\ LET u == job[w].u IN
       /\ row' = [row EXCEPT ![u] = SetFailed(@, "device", job[w].flag)]
       /\ upd' = [upd EXCEPT ![u] = Completed(@, row'[u])]
    /\ Done(w)
    /\ UNCHANGED <<cmdVars, serverVars, asked, deviceVars, ops, ran>>

RebootNow(u) == RebootAt[u] = "immediate" \/ (RebootAt[u] = "scheduled" /\ due)

ReportedApplied(w) ==
    /\ At(w, "applied")
    /\ LET u == job[w].u IN
       /\ row' = [row EXCEPT ![u] = SetStatus(@, "awaiting_reboot")]
       /\ IF RebootNow(u) THEN Goto(w, "reboot", u) ELSE Done(w)
    /\ UNCHANGED <<upd, cmdVars, serverVars, asked, deviceVars, ops, ran>>

\* Mutant of RebootRow: the row is finished when the reboot is sent, as
\* OptimisticallyCompleteReboot once did.
RebootRowOptimistic(r) == SetStatus(SetStatus(r, "reboot_sent"), "installed")

RebootRow(r) == SetStatus(r, "reboot_sent")

\* pushRebootFor and its copies in the jobs and on the page: create the reboot,
\* set the row whatever it says now, push.
SendReboot(w) ==
    /\ At(w, "reboot")
    /\ LET u == job[w].u IN
       /\ row' = [row EXCEPT ![u] = RebootRow(@)]
       /\ upd' = [upd EXCEPT ![u] = Completed(@, row'[u])]
    /\ asked' = TRUE
    /\ Done(w)
    /\ UNCHANGED <<cmdVars, serverVars, deviceVars, ops, ran>>

-----------------------------------------------------------------------------
(* The deployment page.  Each click is on a button the page shows for the  *)
(* row's state; MaxOps bounds the clicks.                                  *)

Click ==
    /\ ops < MaxOps
    /\ ops' = ops + 1

\* resolveEligibleDevices, RemoveDowngradeTargets, RemoveInapplicableTargets
Eligible(u, pinned) ==
    /\ \A v \in Updates : upd[v].status = "active" => row[v].status \in Settled \cup {"none"}
    /\ build < u
    /\ Package(u, pinned) # "none"
    /\ pinned => "full" \in Ships[u]

Target(u, pinned) ==
    IF row[u].status = "none"
    THEN [NoRow EXCEPT !.status = "pending", !.full = pinned] ELSE row[u]

\* deployRelease: the row and the activation commit together; then the device is
\* handed the update at once if it is connected.
Deploy(w, u, pinned) ==
    /\ upd[u].status = "none"
    /\ \A v \in Updates : v < u => upd[v].status # "none"
    /\ Capable
    /\ Eligible(u, pinned)
    /\ At(w, "idle")
    /\ upd' = [upd EXCEPT ![u] = [status |-> "active", first |-> last + 1]]
    /\ row' = [row EXCEPT ![u] = Target(u, pinned)]
    /\ cmd' = Cleared
    /\ \E s \in {"dispatch", "idle"} : Goto(w, s, 0)
    /\ UNCHANGED <<last, serverVars, asked, deviceVars, ops, ran>>

\* DeploymentAddTargets re-arms a finished deployment.
AddTarget(u, pinned) ==
    /\ upd[u].status \in {"active", "complete"}
    /\ row[u].status = "none"
    /\ Eligible(u, pinned)
    /\ upd' = [upd EXCEPT ![u].status = "active"]
    /\ row' = [row EXCEPT ![u] = Target(u, pinned)]
    /\ cmd' = Cleared
    /\ UNCHANGED <<last, serverVars, job, asked, deviceVars, ops, ran>>

\* DeploymentCancel
CancelDeployment(u) ==
    /\ upd[u].status = "active"
    /\ upd' = [upd EXCEPT ![u].status = "canceled"]
    /\ row' = [row EXCEPT ![u] =
                 IF @.status = "pending"
                 THEN [@ EXCEPT !.status = "canceled", !.err = "none", !.age = "new"]
                 ELSE @]
    /\ UNCHANGED <<cmdVars, serverVars, job, asked, deviceVars, ops, ran>>

\* DeploymentCancelDeviceOTA
CancelDevice(u) ==
    /\ Click
    /\ row[u].status = "downloading"
    /\ cmd' = Cleared
    /\ row' = [row EXCEPT ![u] = SetFailed(@, "cancelled", FALSE)]
    /\ UNCHANGED <<upd, last, serverVars, job, asked, deviceVars, ran>>

\* Mutant of Reactivated: a canceled deployment is opened again.
ReactivatedAny(d) == [d EXCEPT !.status = "active"]

\* ReactivateUpdate
Reactivated(d) == IF d.status = "complete" THEN [d EXCEPT !.status = "active"] ELSE d

\* DeploymentRetryDevice
Retry(u, pinned) ==
    /\ Click
    /\ row[u].status \in {"failed", "downloading"}
    /\ cmd' = Cleared
    /\ row' = [row EXCEPT ![u] = SetStatus([@ EXCEPT !.full = pinned], "pending")]
    /\ upd' = [upd EXCEPT ![u] = Reactivated(@)]
    /\ UNCHANGED <<last, serverVars, job, asked, deviceVars, ran>>

\* DeploymentRemoveDevice
Remove(u) ==
    /\ Click
    /\ row[u].status \in {"pending", "failed", "canceled", "downloading"}
    /\ row' = [row EXCEPT ![u] = NoRow]
    /\ cmd' = Cleared
    /\ UNCHANGED <<upd, last, serverVars, job, asked, deviceVars, ran>>

\* DeviceClearOTA, on the device's page
ClearOTA ==
    /\ Click
    /\ cmd' = Cleared
    /\ UNCHANGED <<deployVars, last, serverVars, job, asked, deviceVars, ran>>

\* DeploymentRebootDevice and DeploymentRebootAll: rows listed as waiting.
AskReboot(w, u) ==
    /\ Click
    /\ row[u].status = "awaiting_reboot"
    /\ At(w, "idle")
    /\ job' = [job EXCEPT ![w] = [Idle EXCEPT !.step = "reboot", !.u = u]]
    /\ UNCHANGED <<deployVars, cmdVars, serverVars, asked, deviceVars, ran>>

\* CompleteSettledDeployments, when the page is opened
OpenPage ==
    /\ upd' = [u \in Updates |->
                 IF row[u].status = "none" THEN upd[u] ELSE Completed(upd[u], row[u])]
    /\ upd' # upd
    /\ UNCHANGED <<row, cmdVars, serverVars, job, asked, deviceVars, ops, ran>>

-----------------------------------------------------------------------------
(* The jobs of the group "commands", every minute, and the start-up check. *)

\* ProcessDueScheduledReboots lists the rows, then sends row by row.
ListScheduled(w, u) ==
    /\ At(w, "idle")
    /\ RebootAt[u] = "scheduled" /\ due
    /\ upd[u].status = "active"
    /\ row[u].status = "awaiting_reboot"
    /\ job' = [job EXCEPT ![w] = [Idle EXCEPT !.step = "reboot", !.u = u]]
    /\ UNCHANGED <<deployVars, cmdVars, serverVars, asked, deviceVars, ops, ran>>

\* Mutant of Overdue: a reboot is sent once.
OverdueNever(u) == FALSE

\* Mutant of Overdue: a download that has stopped counts as a stuck reboot.
OverdueDownload(u) ==
    /\ upd[u].status = "active"
    /\ row[u].status \in {"downloading", "reboot_sent"}
    /\ row[u].age # "new"

\* ListStaleRebootSent
Overdue(u) ==
    /\ upd[u].status = "active"
    /\ row[u].status = "reboot_sent"
    /\ row[u].age # "new"

\* RedriveStuckReboots: only devices that are connected now.
Redrive(w, u) ==
    /\ At(w, "idle")
    /\ Overdue(u)
    /\ job' = [job EXCEPT ![w] = [Idle EXCEPT !.step = "reboot", !.u = u]]
    /\ UNCHANGED <<deployVars, cmdVars, serverVars, asked, deviceVars, ops, ran>>

\* No OTA command of the deployment was written in the window.
Quiet(u) == \A c \in Since(u) : cmd[c].status = "none" \/ cmd[c].age # "new"

\* The last word on the deployment's OTA.
LastWord(u, c) ==
    /\ c \in Since(u)
    /\ cmd[c].for = u /\ cmd[c].status # "none"
    /\ \A k \in Since(u) : cmd[k].for = u /\ cmd[k].status # "none" => k <= c

\* ReviveStalledOTAs: the device has disproved the verdict.
Disproved(u, s) ==
    /\ upd[u].status \in {"active", "complete"}
    /\ row[u].status = "failed" /\ row[u].err = "stalled" /\ row[u].age # "old"
    /\ \E c \in CmdIds :
          /\ LastWord(u, c)
          /\ \/ s = "awaiting_reboot" /\ cmd[c].status = "installed" /\ cmd[c].age # "old"
             \/ s = "downloading" /\ cmd[c].status = "downloading" /\ cmd[c].age = "new"

\* Handed out, and half an hour without a word of it.  A command just created
\* counts against a device that is not heard of, not against one that is.
Stalled(u, heard) ==
    /\ upd[u].status = "active"
    /\ row[u].age # "new"
    /\ \/ row[u].status = "downloading"
       \/ /\ row[u].status = "pending"
          /\ \E c \in Since(u) : Open(c) /\ (heard => cmd[c].age # "new")
    /\ Quiet(u)

\* RequeueOfflineOTAs and ExpireStalledOTAs: what happens to a stalled row
\* depends on whether the device was heard of lately (last_seen_at, which every
\* contact renews).
Swept(u, heard) ==
    IF Disproved(u, "awaiting_reboot") THEN SetStatus(row[u], "awaiting_reboot")
    ELSE IF Disproved(u, "downloading") THEN SetStatus(row[u], "downloading")
    ELSE IF ~ Stalled(u, heard) THEN row[u]
    ELSE IF heard THEN SetFailed(row[u], "stalled", FALSE)
    ELSE SetStatus(row[u], "pending")

\* The commands of a requeued row expire; those of a failed one lie before the
\* verdict.
SweptCmd(c, heard) ==
    IF ~ \E u \in Updates : Stalled(u, heard) /\ c \in Since(u) THEN cmd[c]
    ELSE IF heard THEN [cmd[c] EXCEPT !.age = "old"]
    ELSE IF Open(c) THEN [cmd[c] EXCEPT !.status = "expired", !.age = "new"]
    ELSE cmd[c]

\* ExpireStalledOTAs, the job: its four statements in order.  A row meets at
\* most one of them.
Sweep ==
    /\ \E heard \in BOOLEAN :
          /\ row' = [u \in Updates |-> Swept(u, heard)]
          /\ cmd' = [c \in CmdIds |-> SweptCmd(c, heard)]
    /\ row' # row
    /\ upd' = [u \in Updates |->
                 IF row'[u].status \in {"awaiting_reboot", "downloading"}
                    /\ row[u].status = "failed"
                 THEN Reactivated(upd[u]) ELSE upd[u]]
    /\ UNCHANGED <<last, serverVars, job, asked, deviceVars, ops, ran>>

\* A statement fails and the goroutine returns.
Abandon(w) ==
    /\ Click
    /\ job[w].step # "idle"
    /\ Done(w)
    /\ UNCHANGED <<deployVars, cmdVars, serverVars, asked, deviceVars, ran>>

\* The server goes down between any two statements; at the start
\* ReconcileStrandedUpdates reopens deployments with unfinished rows.
Restart ==
    /\ Click
    /\ job' = [w \in Workers |-> Idle]
    /\ upd' = [u \in Updates |->
                 IF row[u].status \in Settled \cup {"none"} THEN upd[u]
                 ELSE Reactivated(upd[u])]
    /\ UNCHANGED <<row, cmdVars, serverVars, asked, deviceVars, ran>>

-----------------------------------------------------------------------------
(* Time and the device (external).                                         *)

TimeComes ==
    /\ ~ due
    /\ \E u \in Updates : RebootAt[u] = "scheduled" /\ upd[u].status = "active"
    /\ due' = TRUE
    /\ UNCHANGED <<deployVars, cmdVars, build, job, asked, deviceVars, ops, ran>>

AgeRow(u) ==
    /\ \/ row[u].age = "new" /\ row' = [row EXCEPT ![u].age = "stale"]
       \/ /\ row[u].age = "stale" /\ row[u].err = "stalled"
          /\ row' = [row EXCEPT ![u].age = "old"]
    /\ row[u].status \in {"pending", "downloading", "reboot_sent", "failed"}
    /\ UNCHANGED <<upd, cmdVars, serverVars, job, asked, deviceVars, ops, ran>>

AgeCmd(c) ==
    /\ c \in Created
    /\ cmd[c].age = "new"
    /\ cmd' = [cmd EXCEPT ![c].age = "stale"]
    /\ UNCHANGED <<deployVars, last, serverVars, job, asked, deviceVars, ops, ran>>

\* The payload is in the other slot, or the OTA failed or was cancelled.
Apply(c) ==
    /\ c \in Created
    /\ dev[c] = "got"
    /\ dev' = [dev EXCEPT ![c] = "applied"]
    /\ slot' = cmd[c].for
    /\ UNCHANGED <<deployVars, cmdVars, serverVars, job, asked, boot, runs,
                   ops, ran>>

Fail(c) ==
    /\ c \in Created
    /\ dev[c] = "got"
    /\ dev' = [dev EXCEPT ![c] = "failed"]
    /\ UNCHANGED <<deployVars, cmdVars, serverVars, job, asked, boot, runs,
                   slot, ops, ran>>

\* A boot, asked for or not; the switch to the other slot may not take.  The
\* server is not between two statements meanwhile: those take milliseconds.
Boot ==
    /\ boot < MaxBoots
    /\ \A w \in Workers : job[w].step \in {"idle", "frame"}
    /\ boot' = boot + 1
    /\ runs' \in {runs, slot}
    /\ slot' = runs'
    /\ ran' = ran \cup {runs'}
    /\ dev' = [c \in CmdIds |-> IF dev[c] = "applied" THEN "booted" ELSE dev[c]]
    /\ asked' = FALSE
    /\ UNCHANGED <<deployVars, cmdVars, serverVars, job, ops>>

\* The reboot command is lost, declined or too old.
LoseReboot ==
    /\ asked
    /\ asked' = FALSE
    /\ UNCHANGED <<deployVars, cmdVars, serverVars, job, deviceVars, ops, ran>>

-----------------------------------------------------------------------------
Init ==
    /\ upd = [u \in Updates |-> [status |-> "none", first |-> 1]]
    /\ row = [u \in Updates |-> NoRow]
    /\ cmd = [c \in CmdIds |-> [for |-> 1, status |-> "none", age |-> "new"]]
    /\ last = 0
    /\ build = 0 /\ due = FALSE
    /\ job = [w \in Workers |-> Idle]
    /\ asked = FALSE
    /\ boot = 0 /\ runs = 0 /\ slot = 0
    /\ dev = [c \in CmdIds |-> "new"]
    /\ ops = 0
    /\ ran = {0}

\* The next statement of a goroutine at work.
Statement(w) ==
    \/ Ingest(w) \/ Resolve(w) \/ Arrived(w) \/ FailSlotSwitch(w)
    \/ Dispatch(w) \/ Create(w) \/ Mark(w) \/ Push(w)
    \/ Settle(w) \/ ReportedFailed(w) \/ ReportedApplied(w) \/ SendReboot(w)

Operator ==
    \/ \E u \in Updates, pinned \in Pins :
          \/ \E w \in Workers : Deploy(w, u, pinned)
          \/ AddTarget(u, pinned)
          \/ Retry(u, pinned)
    \/ \E u \in Updates : CancelDeployment(u) \/ CancelDevice(u) \/ Remove(u)
    \/ \E w \in Workers, u \in Updates : AskReboot(w, u)
    \/ ClearOTA
    \/ OpenPage

Server ==
    \/ \E w \in Workers : Statement(w) \/ Abandon(w)
    \/ \E w \in Workers, u \in Updates : ListScheduled(w, u) \/ Redrive(w, u)
    \/ \E c \in CmdIds : HandOut(c)
    \/ Sweep
    \/ Restart

Device ==
    \/ \E w \in Workers : CheckIn(w)
    \/ \E c \in CmdIds : Progress(c) \/ Apply(c) \/ Fail(c)
    \/ \E w \in Workers, c \in CmdIds : Report(w, c)
    \/ Boot \/ LoseReboot

Time ==
    \/ TimeComes
    \/ \E u \in Updates : AgeRow(u)
    \/ \E c \in CmdIds : AgeCmd(c)

Next == Operator \/ Server \/ Device \/ Time

Spec == Init /\ [][Next]_vars

\* Goroutines finish, jobs come round every minute, time passes, and a device
\* keeps checking in, reports what became of an OTA, is handed what waits for it
\* and obeys a reboot that reaches it again and again.
Fairness ==
    /\ \A w \in Workers : WF_vars(Statement(w))
    /\ SF_vars(\E w \in Workers : CheckIn(w))
    /\ \A c \in CmdIds :
          /\ SF_vars(\E w \in Workers : Report(w, c) /\ cmd' # cmd)
          /\ SF_vars(HandOut(c) /\ dev' # dev)
          /\ WF_vars(Apply(c) \/ Fail(c))
          /\ SF_vars(AgeCmd(c))
    /\ \A u \in Updates :
          /\ SF_vars(AgeRow(u))
          /\ SF_vars(\E w \in Workers : ListScheduled(w, u))
          /\ SF_vars(\E w \in Workers : Redrive(w, u))
    /\ SF_vars(Sweep)
    /\ SF_vars(Boot /\ asked)
    /\ WF_vars(TimeComes)

FairSpec == Spec /\ Fairness

-----------------------------------------------------------------------------
(* Properties.                                                             *)

\* Every variable has its type; the tables hold only the words their readers
\* know (update_devices.status, command_status.status).
TypeOK ==
    /\ upd \in [Updates -> Upd]
    /\ row \in [Updates -> Row]
    /\ cmd \in [CmdIds -> Cmd]
    /\ last \in 0..MaxCmds
    /\ build \in Builds /\ due \in BOOLEAN
    /\ job \in [Workers -> Job]
    /\ asked \in BOOLEAN
    /\ boot \in 0..MaxBoots
    /\ runs \in Builds /\ slot \in Builds
    /\ dev \in [CmdIds -> DevStep]
    /\ ops \in 0..MaxOps
    /\ ran \subseteq Builds

\* A row says 'installed' only if the device has run that build: late check-ins,
\* stall verdicts and their revival, retries and re-sent reboots never finish a
\* deployment the device has not booted into (CompleteUpdatesAtTargetBuild,
\* OptimisticallyCompleteReboot).
InstalledMeansBooted ==
    \A u \in Updates : row[u].status = "installed" => u \in ran

\* Two check-ins of one device, or a check-in and the push of a deployment, that
\* both found it due for the update do not both create the command
\* (CreateOTACommandIfNone).
NoTwinOffers ==
    \A c, d \in Created :
        /\ cmd[c].status = "none" /\ cmd[c].age = "new"
        /\ cmd[d].status = "none" /\ cmd[d].age = "new"
        => c = d

\* The server waits for the device to reboot, or is about to.
AwaitsReboot ==
    \/ asked
    \/ \E u \in Updates : row[u].status \in {"awaiting_reboot", "reboot_sent"}
    \/ \E w \in Workers : At(w, "reboot") \/ At(w, "applied")

\* No device is rebooted, or listed as waiting for a reboot, before it has
\* applied some payload, however lists read earlier, revived rows and re-sent
\* reboots interleave (afterOtaTerminal, ReviveStalledOTAs, RedriveStuckReboots).
RebootsFollowInstalls ==
    AwaitsReboot => \E c \in Created : dev[c] \in {"applied", "booted"}

\* A canceled deployment stays canceled: neither Retry, nor a revived row, nor
\* the start-up check opens it again (ReactivateUpdate).
CanceledIsFinal ==
    [][\A u \in Updates :
         upd[u].status = "canceled" => upd'[u].status = "canceled"]_vars

\* The device's part is not over, and the bounds of the instance leave it
\* something to do.
Moving(u) ==
    /\ upd[u].status = "active"
    /\ \/ row[u].status = "pending" /\ last < MaxCmds
       \/ row[u].status = "downloading"
       \/ /\ boot < MaxBoots
          /\ \/ row[u].status = "reboot_sent"
             \/ row[u].status = "awaiting_reboot" /\ RebootAt[u] = "scheduled"

\* Whatever is lost on the way (the command, the reboot, a report, a goroutine),
\* the device does not stay in flight for ever: the stall sweep, the re-sent
\* reboots and the next check-ins bring its row to an end.
Settles == \A u \in Updates : [] <> ~ Moving(u)

-----------------------------------------------------------------------------
(* What the deployment page says, and the code does not do.                *)

\* "Immediate reboots each device once the update installs" (updates_new.html).
ImmediateReboots ==
    \A u \in Updates :
        [] <> ~ (/\ RebootAt[u] = "immediate" /\ upd[u].status = "active"
                 /\ row[u].status = "awaiting_reboot"
                 /\ ~ asked /\ boot < MaxBoots)
=============================================================================
