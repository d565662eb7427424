# TLA+ models of mdm-web

mdm-web is a device-management server in Go: Android units in restaurants check in
over HTTP or keep a WebSocket open, operators work in an HTMX dashboard, and
everything is kept in Postgres. These modules model the parts of it in which several
goroutines, several server copies, or the server and a device that comes and goes have
to agree on something. All line numbers below are those of the `src/` tree the models
were written from.

- [The system](#the-system)
- [Plan](#plan)
- [Command delivery](#command-delivery): `CommandRegistry`, `CommandRow`, `CommandQueue`, `CommandLife`
- [Who holds a device's socket](#who-holds-a-devices-socket): `DeviceOwner`
- [The check-in history queue](#the-check-in-history-queue): `HistoryLog`, `HistoryQueue`
- [Firmware deployments](#firmware-deployments): `OtaRollout`
- [Periodic jobs](#periodic-jobs): `JobLease`
- [The live page](#the-live-page): `DeviceFeed`
- [What the runs show](#what-the-runs-show)
- [What is proved](#what-is-proved)
- [Where code and comments disagree](#where-code-and-comments-disagree)
- [What is not modelled](#what-is-not-modelled)

## The system

| component | state | operations | meets |
|---|---|---|---|
| command registry (`internal/command`, `internal/product/commands.go`) | none: tables of lane, lease, deadline, attempt cap, live-only, install-shaped | lookups | every delivery path |
| command delivery (`internal/db/commands.go`, `command_delivery.go`, `command_lease.go`, `internal/api/handlers.go`, `commands_pull.go`, `internal/dashboard/device_queue.go`, `commands.go`) | tables `commands`, `command_status`, `command_results`; the list a goroutine has read | create, flush, pull, check-in hand-out, redrive, advance, cancel, ack, progress, receipt, sweeps | hub (push), check-ins, minute jobs, the device |
| hub (`internal/ws/hub.go`) | the client of each device; subscribers; throttle timestamps and pending trailing updates | register, Unregister, Close, CloseAll, Push, publish | cluster (ownership, forwarding), delivery (onConnect) |
| cluster (`internal/cluster`, `internal/db/cluster.go`) | ownership and event queues, pending batch, cached remote set; tables `cluster_instances`, `device_owners`, `cluster_msgs` | Owned, writeOwners, refresh, Forward, listen, heartbeat, leave, sweep | hub, other copies through Postgres |
| history queue (`internal/ingest`, `internal/api/ingest_queue.go`) | a channel and a batch per shard, ingest slots, closed flag | admit, Enqueue, inline write, tick, Close | check-in handlers, shutdown |
| jobs (`internal/jobs`, `internal/db/job_leases.go`) | table `job_leases`, run statistics | claim, run, release | every sweep, all copies |
| firmware deployments (`internal/db/deployments.go`, `internal/dashboard/deployments.go`, `internal/api/handlers.go`, `internal/otagate`, `internal/ota`) | tables `updates`, `update_devices`; the OTA rows of `command_status`; what a handler has resolved; gate cache | deploy, resolve, create OTA command, report, reboot, complete, cancel, retry, remove, stall sweep and revival, reconcile | command delivery, check-ins, minute jobs, dashboard |
| live page (`internal/ws/hub.go`, `internal/dashboard/events.go`) | throttle window and pending update per device, subscriber channels, the stream's badge and grace timer | PublishDeviceUpdate, flush, publishPresence, DeviceEvents | every handler that changes a device, the browser |
| relays (`internal/remote`, `shell`, `logstream`, `adbtunnel`) | sessions that pair a browser with a device | open, attach, frame, close | hub |
| alerts (`internal/alerts`, `notify`, `mailer`) | open alerts, last notified | evaluate, resolve, send | telemetry, jobs |
| the rest: telemetry store, dashboard pages, configuration, products and versions, packages, geolocation, rate limits, middleware, metrics | tables and caches | requests | |

The hard parts, and what correct means for them:

- **Command delivery.** Six paths read the same list of due commands and hand out what
  they read, one command at a time, while other goroutines do the same and reports,
  cancellations and sweeps change the rows. A push says nothing of arrival; reports are
  late, repeated, reordered or lost; the server restarts between the frame and the row.
  Correct: a lane is worked off in order; a finished command stays finished; a reboot is
  called done only after a boot; nothing shuts a lane for ever; nothing due is forgotten.
- **Ownership.** Several copies write one row per device from queues that drop when full,
  in batches, half a second late; a device moves from copy to copy leaving half-open
  sockets behind; copies die. Correct: the row settles on the copy that has the socket.
- **History.** The handler's send races the worker's last look into the channel at
  shutdown; a full shard turns the handler into a writer. Correct: nothing is lost,
  written twice or left in memory.
- **Firmware rollout.** One device's row in a deployment is written by check-ins over two
  transports, by its reports, by three minute jobs that work from lists, and by an operator;
  hardly any of these writes looks at what the row says by then. The command and the reboot
  can be lost; the verdict that a download has stalled may be wrong. Correct: 'installed'
  means booted; no reboot before there is something to boot into; one offer at a time; no
  row in flight for ever; a canceled deployment stays canceled.
- **Job leases.** A run outlives its lease, a copy dies in it, a release fails. Correct: one
  copy in time, one run a tick, and a job is not forgotten.
- **Live page.** Bursts are coalesced behind a timer, which a disconnect clears; presence
  events overtake one another; the page debounces what it hears. Correct: the last change
  and the true badge get there.

`PROJECT.json` lists the hazards at their lines, with the properties that cover each.

## Plan

1. `CommandRegistry`, `CommandRow`, `CommandQueue`, its abstract specification `CommandLife`,
   `CommandQueueProofs` and `CommandRowProofs`: written.
2. `DeviceOwner`, `DeviceOwnerProofs`: written.
3. `HistoryLog` (abstract) and `HistoryLogProofs`, `HistoryQueue` (refines it) and
   `HistoryQueueProofs`, which inherits from both: written.
4. `OtaRollout`, `OtaRolloutProofs`: written. It keeps its own, smaller rows of `command_status`
   and not those of `CommandRow`: what matters to a rollout is whether an OTA command is open
   and how long ago it was written, and the delivery of a command is a step (`HandOut`).
5. `JobLease`, `JobLeaseProofs`: written.
6. `DeviceFeed`, `DeviceFeedProofs`: written.
7. Next: the cluster's cached remote set over `DeviceOwner`; the relays
   (`internal/remote`: a stop that overtakes the next session's start); the OTA gate's cache.

## Command delivery

One device, commands `1..N` numbered in creation order. A row of `command_status` is a
record (`CommandRow`); each SQL statement that writes one is an operator from row to row,
named after it, and `CommandQueue`'s actions apply them.

| variable | code |
|---|---|
| `last`, `aged` | `commands` rows and their `created_at`: `1..last` exist, `1..aged` are older than the one-hour window of the due list |
| `row` | `command_status`; `recv`, `touch` are `received_at`, `updated_at`, counted in halves of a boot; `stalled` says that `updated_at` is older than the stalled-install window; `lease` is `lease_expires_at` as none, future or past; `attempts` saturates at `MaxCount` |
| `result` | installs with a row in `command_results` |
| `connected` | the hub has a client |
| `job` | what each goroutine that hands out commands is doing: its path, the step it is at, the commands left (`todo`) and those in an HTTP answer (`out`) |
| `boot`, `late`, `dev`, `present` | the device (external): current boot, the next one less than 15 seconds away, progress with each command, the app installed |
| `past`, `delivAt`, `seenBoot` | history, read by properties only: rows once finished, when each was first 'delivered', the last boot a check-in reported the uptime of |

| action | code |
|---|---|
| `CreateByApi`, `CreateByDashboard` | API `pushCommand` (`handlers.go` 690), dashboard `pushCommand` (`commands.go` 943) |
| `StartFlush`, `ReleaseLeases`, `ReadDue`, `Send`, `Mark`, `Lease` | `flushPendingCommands` (635), statement by statement; `releaseLeasesOnConnect` before it on a connect |
| `StartPull`, `Respond` | `PendingCommands` (`commands_pull.go` 30) |
| `StartRedrive` | `RedriveStuckDeliveries` (1992) |
| `CheckIn` | `ingestCheckin` (1150): app-list reconcile; with an uptime in the frame, reboots and shell commands from before the boot it dates (`bootTime`, 1766); hand-out |
| `HandleReceipt`, `HandleProgress`, `HandleTerminal` | `HandleWsCommandAck` and `AckCommand` |
| `CancelByApi`, `CancelByDashboard` | `CancelCommand`, `DeviceQueueRemove` with `advanceQueue` |
| `ExpireStalledInstall`, `FailOverdueShell` | the two minute jobs |
| `WriteFails` | the error branch after `MarkCommandsDelivered` and `LeaseCommand` |
| `Connect`, `Disconnect`, `Restart` | the socket and the process |
| `AgeOut`, `LeaseLapses`, `Stalls` | time: the one-hour window, a lease, the stalled-install window |
| `Begin`, `Finish`, `BootNears`, `BootAgain` | the device, modelled from what it reports; it drops a command id it has seen |

`Pending` is the due list, conjunct by conjunct: `Live` (the window), `Offerable` (the
state of the command itself), `Blocked` (the queue ahead). A handler's database
statements and socket writes are separate steps. A check-in's own statements are one
step: they touch disjoint rows, and what it hands out is a worker's list like any other.

Abstractions. Time is events: a command ages, a lease lapses, an install's reports have
stalled (`Stalls`; every write that sets `updated_at` undoes it, and the sweep asks for it).
The window of the other two sweeps may have passed for any row they look at: the
redrive and the shell sweep may come earlier than in the code, never later than fairness says.

Stamps are compared with one thing only, the moment `bootTime` dates the device's boot to: now less
the reported uptime, less 15 seconds. With a frame under 15 seconds on its way, that moment lies
in the last 15 seconds before the boot, so time is counted in two halves a boot: `Now` is
`2 * boot`, and `2 * boot + 1` once `BootNears` has said that the next boot is that close.
`CheckIn` dates the boot of each row at `2 * boot - 1` or `2 * boot` as it likes: a stamp of the first
half of an earlier boot is always older, one of the last half may or may not be. A check-in is
handled before the next boot, and a frame without uptime (`uptime = FALSE`) settles no reboot
and no shell command.
`CheckIn` does not ask how the frame came: a frame over the socket is the case that hands out
nothing, and `LegacyCheckin` may be on, so that the hand-out does not depend on `PullCapable`.

A frame accepted by the hub may be lost at `Send`, and a report may arrive any number of times while the device is in a state to have made it.
`Doors` picks the hand-out paths an instance opens, `Outcomes` whether what the device
runs can fail; both exist to keep instances small. A command's targeting is taken to hold:
the instance is about one device that every command targets.

`CommandLife` is what all this amounts to for the operator who watches a command: a stage and
nothing else. `CommandQueue` implements it under the mapping `Life`:

| stage | `command_status.status` | entered by |
|---|---|---|
| waiting | no row | creation; never entered again |
| sent | 'delivered' | a first hand-out, or the receipt that overtakes its record |
| working | 'downloading', 'installing', 'running' | the device's word |
| done | 'installed', 'completed' | the device's word; the app of an install; a boot |
| failed | 'failed' | the device's word; a sweep, of a type that is watched |
| withdrawn | 'cancelled' | an operator; left by the device's word or its app only |

A step of `CommandLife` may move several commands, each by a move of its own, since one
check-in settles several rows. That 'working' may follow 'withdrawn' is what the code does, and
the finding about late progress below. `CommandLife` has a command conclude with what the device
says became of it; of a failure the device reported without output it allows, with the code,
that the app list turns it into a success.

## Who holds a device's socket

`DeviceOwner` follows one device over server copies: what the hubs have registered
(`client`), the `Owned` calls goroutines still owe because ownership is reported after the
hub's lock is released (`calls`), the bounded queue that drops when full (`own`), the
writer's batch (`pending`) and the statement it is executing (`writing`), the row
(`owner`) and the heartbeats (`live`). Connections are numbered, so a half-open socket at
an old copy is a `client` that is not the newest connection; its copy goes on
re-asserting it until the read deadline (`Unregister`). `Stop` is a crash or an exit; a
statement already sent may still take effect. `Forget` is `ClusterLeave` or the hourly
sweep.

`Connect`, `Unregister`, `Close`, `Announce` are the hub and `Cluster.Owned`; `TakeChange`,
`Flush`, `Resync`, `Write`, `WriteFails` are `writeOwners` and `ClusterSetOwners`.

Fairness: every goroutine of a running copy runs; the writer's `select` picks among ready
cases at random, so a case that is ready again and again is served (`SF`); broken sockets
meet their read deadline; a statement that is tried again and again succeeds once
(`SF_vars(Write(i))`); a dead copy's heartbeat ages. Nothing is assumed of the device, and
none of `Connect`, `Close`, `Stop`, `WriteFails` ever has to happen. The liveness
properties speak of a device that stays where it is (`<>[]`), for one that moves for ever
has no settled owner.

`slip` records why a loss may be missed: a dropped change, or one that was late or could
not be written. `LossSeen` claims only the behaviours with none of these. `LossOnItsWay` is its safety half: a
copy without the device never has a gain as its last word to the table, so that the row it
holds is going to be cleared.

## The check-in history queue

`HistoryLog` states the promise: each shard has a sequence of jobs taken and not yet
written; a job is handed over once, in any order, either to its shard or straight to the database;
a write takes a prefix. `HistoryQueue` is the code: admission and slots
(`HttpReport`, `WsReport`, `TakeSlot`, `GiveUp`), `Enqueue` / `Refused` / `WriteInline`
(`queueHistory`), the worker (`Take`, `Flush`, `SeeStop`, `EndDrain`), and the shutdown of
`main` (`Stop`, `Close`, `Exit`). The mapping is `waiting <- batch \o chan`.

Every report has a handler of its own (`step`, `src` by report), for `ingestCheckin` holds nothing
that would keep a device's HTTP check-in and its socket frame apart: several of one device may
wait for a slot, be enqueued and be written inline at once, in any order. `given` is a history
variable of both modules, the jobs in the order in which they were handed over; one that
`Enqueue` refused counts as handed over when its handler writes it.

Two consequences of the promise are stated in `HistoryLog` for a reader of the database:
`WrittenOnce`, and `InOrder`: what lands in a write with others lands after all that was handed
over for its shard before, the reports of its own device among it. The package comment says "one
device's writes stay in order" (`ingest/queue.go` 14) without qualification, and two are needed. A
report its handler wrote because the shard was full lands alone, and ahead of older ones still in
the queue; and which of two reports in hand at once is handed over first is nobody's promise,
so that "before" can only mean the order of hand-over.

`Enqueue` is one step because it holds the read lock that `Close` needs for writing. A
`select` with several ready cases takes any of them; a full batch is written before the
next `select` (`Full`). `Shutdown` does not wait for hijacked sockets, so reports that come
over a socket may be in hand at any point of it; `hurried` records that one of the two
shutdown timeouts ran out. Fairness: each worker keeps running (`WF`), nothing else.

## Firmware deployments

`OtaRollout` follows one device. Deployments are numbered in creation order; the release of
deployment `u` is build `u`, newer than every build below it, with a full image, an
incremental from build `u - 1`, or both (`Ships`).

| variable | code |
|---|---|
| `upd` | `updates.status`; `first` stands for `created_at`: the first OTA command created since |
| `row` | the device's `update_devices` rows: status, `error_code` as far as a query reads it, `force_full`, `reboot_sent_at` as a boot number (`BootedAfter` lets a frame without uptime, or the 15 seconds of `bootTime`, keep a boot from being seen), `updated_at` as an age |
| `cmd`, `last` | the OTA commands and their `command_status`, with `updated_at` as an age |
| `build`, `due` | `devices.build_id`; the scheduled time has come |
| `job` | each goroutine: the statement it does next, the deployment, command and build it has read, and one flag |
| `asked` | an OTA reboot command is on its way |
| `boot`, `runs`, `slot`, `dev` | the device (external): its boot, the build it runs, the build it boots next, how far it is with each command |
| `ops`, `ran` | clicks, failures and restarts so far; history: builds that have run |

| action | code |
|---|---|
| `CheckIn`, `Ingest`, `Resolve`, `Arrived`, `FailSlotSwitch` | `ingestCheckin` (`handlers.go` 1107): the frame, UpsertCheckin with completion by build id, `ResolveUpdateForDevice`, the switch on what it found |
| `Create`, `Mark`, `Push` | `TryCreateOTACommand` (`db/deployments.go` 830) with `CreateOTACommandIfNone` under the advisory lock, then `SetUpdateDeviceStatus` outside it, then `pushCommand` |
| `Dispatch`, `HandOut` | `pushOTAToConnected`; any other hand-out of the command |
| `Progress`, `Report`, `Settle`, `ReportedFailed`, `ReportedApplied`, `SendReboot` | `OtaProgress`, `OtaStatus`, `HandleWsOtaStatus`, `afterOtaTerminal`, `pushRebootFor` |
| `Deploy`, `AddTarget`, `CancelDeployment`, `CancelDevice`, `Retry`, `Remove`, `AskReboot`, `ClearOTA`, `OpenPage` | the handlers of `dashboard/deployments.go`, and `DeviceClearOTA` |
| `ListScheduled`, `Redrive`, `Sweep` | `ProcessDueScheduledReboots`, `RedriveStuckReboots`, `ExpireStalledOTAs` with the requeue and the revival |
| `Abandon`, `Restart` | an error return; a restart, with `ReconcileStrandedUpdates` |
| `TimeComes`, `AgeRow`, `AgeCmd` | time |
| `Apply`, `Fail`, `Boot`, `LoseReboot` | the device |

Each database statement of a goroutine is a step of its own, and what it has read it keeps;
the handlers of the page are one step each, for they run at an operator's pace. The device
boots only while no goroutine is between two statements, though a check-in of the boot before
may still be waiting (`frame`). An insert past `MaxCmds` is an insert that fails.

Fairness (`FairSpec`): goroutines go on; each minute job comes round and reaches each row it
lists; time passes; the device checks in, is handed what waits for it, reports what became of
an OTA, and obeys a reboot that reaches it again and again. `CheckIn`, `Report`, `HandOut`,
`AgeRow`, `AgeCmd` and the jobs need `SF`, since a busy goroutine or a fresh write disables them
for a while. No fairness is assumed of operators, failures, losses or restarts.

`Settles` leaves out rows the code means to leave waiting (a manual deployment's
'awaiting_reboot'), and rows that the bounds of the instance leave nothing to do.

## Periodic jobs

`JobLease` is one job in several copies. Instants are kept as the time left to them or passed
since: `left` is `job_leases.until`, `timer` the ticker, `age` the run's, `well` how long a copy
has been up without a failed statement. `Start` is `every` with its first wait, `Claim` and
`Skip` are `claim` with `TryJobLease`, `Finish` is the end of `Run` with `release`, `Crash` ends the
process, whose successor has a new holder name; `Pass` is a unit of time, which waits until no
tick is unanswered and no run is older than `hold + Late`: a run may outlast its context's
timeout by `Late`. Timeouts in use are in `main.go`: minute jobs have interval plus five
minutes, housekeeping less than its interval.

## The live page

`DeviceFeed` is one device and one page in one server copy. `Change` and `Publish` are a handler
and `PublishDeviceUpdate`, `WindowCloses` the four seconds, `Flush` the AfterFunc, `Fan` the
broadcast to a channel that may be full; `Register`, `Unregister`, `Forget` and `Close` are the
hub, whose locks are released before the presence is published (`TellOnline`, `TellOffline`);
`Open`, `ReadRow`, `HearPresence`, `HearUpdates` are the statements of `DeviceEvents` before its
loop, and `ShowUpdate`, `ShowOnline`, `HoldOffline`, `TimerFires`, `ShowOffline` the cases of the
loop. Goroutines at the same point are alike and are counted.

Both properties say that what is wrong on the page is about to be put right, unless something
named got lost; `cut` and `blur` record it: an event that met a full channel, a failed read, what
happened between reading and subscribing, a trailing update deleted with its socket, an
online event published after its socket had ended. What remains is the claim that the throttle,
the debounce and the order of events lose nothing of their own.

## What the runs show

| run | instance | checks |
|---|---|---|
| `CommandQueueInstall` | an agent update ahead of an install, which succeed or fail, created by API and dashboard, a client that pulls and sends no receipts, 1 goroutine | `TypeOK`, `LaneOrder`, `OutcomeIsReal`, `SettledIsFinal`, `CancelHolds` |
| `CommandQueueReboot` | 1 reboot, 2 boots, 2 goroutines | `RebootNeedsBoot`, `ReceivedRebootSettles`, `LivesAsPromised` |
| `CommandQueueMoving` | an agent update ahead of an install, both created by the dashboard, 1 goroutine, no fairness of the device, reports of progress end | `GateOpens` |
| `CommandQueueDelivery` | 1 command, 2 goroutines, lost frames, failed writes, restarts | `StillDue`, `LivesAsPromised`, `Reached` |
| `DeviceOwner` | 2 copies, 2 connections, queue of 1 | `TypeOK`, `LossOnItsWay`, `OwnerFound`, `LossSeen` |
| `HistoryQueue` | 2 devices on one worker, 2 slots, buffer 2, batch 2, 2 reports each, of which both may be in hand | `TypeOK`, `NothingLost`, `WrittenOnce`, `InOrder`, `KeepsPromise`, `SoonWritten` |
| `OtaRollout` | 1 deployment, 2 goroutines, 2 OTA commands, 1 boot | `InstalledMeansBooted`, `NoTwinOffers`, `RebootsFollowInstalls` |
| `OtaRolloutSettles` | 1 scheduled deployment with both packages, 1 goroutine, 1 click, failure or restart | `TypeOK`, `Settles`, `CanceledIsFinal` |
| `JobLease` | 3 copies, interval 4, timeouts 1 and 5, overruns of up to 2 | `OneRunner`, `OncePerTick`, `Timely` |
| `DeviceFeed` | 3 versions of the row, 3 sockets, the page opened twice, channels of 2 and 1 | `LastChangeArrives`, `BadgeComesTrue` |
| `CommandQueueLateProgress`, `OtaRolloutImmediate` | the smallest that shows it | one statement of a comment or a page each, violated; see below |

Bounds. Lane order is a relation between two commands, so two of them contain every way one
can overtake the other: by a list read earlier, an HTTP answer still to be written, a push
at creation. (The redrive is left to the other two: a client that pulls is never re-pushed to.)
The pair is an agent update and an install, so that a type the app list may not settle stands next
to one it may. The theorems cover any number of commands and goroutines. The
properties of one row (`RebootNeedsBoot`, `ReceivedRebootSettles`, `StillDue`, `Reached`,
`LivesAsPromised`) need one command, two goroutines to repeat its hand-out, and for reboots a second boot after the one that answers. `MaxCount`
is 0 where no type of the instance has a cap. `DeviceOwner` needs a copy to come from and
one to go to, two connections to have an old one, and a queue of one so that it fills.
`HistoryQueue` needs a buffer and a batch of two so that both fill up and the drain loops,
a second device so that a worker's batch mixes devices, and two slots so that two reports of one
device are between admission and hand-over at once.
`OtaRollout` needs two goroutines for two check-ins that find the same update due, a second
command for the offer that follows an expired or failed one, and one boot for the verdict on
the slot; the second instance needs one goroutine and one click, since `Settles` is about what
follows when things go wrong once. Its other deployments are left to the theorems, which hold
for any number of them. `JobLease` needs a timeout below and one above the interval, an overrun
longer than the unit by which a lease ends early, and a third copy to take over from the
second. `DeviceFeed` needs a third socket for a timer left over from the first two, and a page
that closes and opens so that what it missed in between matters.

`CHECK_DEADLOCK` is off: with the commands created, finished and aged, the connections
used up, or the process gone, the system really may stop.

Fairness of `CommandQueue`. `MovingSpec`: goroutines finish what they started; time passes, so
that commands leave the window and a row in 'downloading' or 'installing' to which nothing is
written stalls (`WF(Stalls)`); and the job expire-stalled-installs, every minute, comes to each
stalled row (`SF`, only because the one worker of the instance may be busy each time). Of the device it
assumes that reports of progress end: each of them sets `updated_at`, so that a device that repeats
'downloading' for ever is never found stalled, and keeps its lane shut for ever. That is what the
code does, and `GateOpens` does not speak of such a device; one that falls silent at any point it covers.
`DeliverySpec`: from some point on the
server stays up and the socket open; the job redrive-unflushed flushes whoever is
connected; leases run out; a device that has no socket opens one; and of frames sent
again and again one arrives. The fairness of `OtaRollout` is given with the module;
`JobLease` and `DeviceFeed` state bounded waiting and "is on its way" as safety, and need none.

## What is proved

`CommandQueueProofs` proves for all values of the constants that satisfy
`QueueAssumption` and `MaxCountAssumption`:

- `TypeCorrect`: `Spec => []TypeOK`. `TypeOK` is inductive by itself, with the conjunct that
  a worker about to send, mark or lease has a command in its list: `Current` is a `CHOOSE`
  whose result is of use only then. The proof has a lemma per row operator (`Row` is
  closed under it), one for `Current` and `Rest`, and one step per action.
- `LaneOrderHolds`: `Spec => []LaneOrder`, whenever the API's unasked push is closed or the
  client pulls. `LaneOrder` is about what the device has, and a list is read long before
  it is sent, and a sent frame may leave only a 'delivered' row behind. The inductive
  invariant `OrderInv` therefore says of every command the system has let go (one that a
  goroutine past its read carries, one whose row is 'delivered', one the device has) that
  it is `Released`, and adds that lists hold created commands and that a finished row is
  recorded in `past`. `Released` is stable, since `past` and `aged` only grow; so it is
  enough that it holds when the list is read, which is what `Blocked` and `CommandBlocked`
  give, and the redrive sweep takes only rows that are 'delivered' already.

`CommandRowProofs` goes from the whole table to one row. `RowMoves` says that in any step
each row stays or is changed by one of the operators of `CommandRow`, under that operator's
guard; `DevMoves` says how far the device may have gone with a command in that step. The theorems
are then about a row and not about actions:

- `SettledStays`: `Spec => SettledIsFinal`. It needs no more than `TypeOK`: an operator either
  has a guard that a settled row fails or leaves the status alone, `ReconcileRow` excepted.
- `OutcomesAreReal`: `Spec => []OutcomeIsReal`, inductive with the types: each operator that
  writes an outcome has its evidence in its guard, and the device never takes evidence back.
- `CancelsHold`: `Spec => CancelHolds`. Of the operators only `AckRow`, `ProgressRow` and
  `ReconcileRow` are open to a cancelled row: `MarkDelivered` inserts or does nothing, and
  `LeaseRow` keeps a status that is there.
- `UnreachedStaysDue`: `Spec => []StillDue`. The due list looks at the row, the property at the
  device; `DueInv` joins them: a command the device never had has no receipt and no report, and
  so its row is absent, 'delivered' with or without a lease, or terminal.
- `QueueLivesAsPromised`: `Spec => LivesAsPromised`, the refinement of `CommandLife`: `RowMoves` read
  as stages, one case for each operator. The runs show it for a shell command and a reboot; that
  the app list moves stages as `SeeApp` allows is shown by the theorem.
- `ReportsConverge`: about the operators alone. The terminal report has the last word wherever it
  falls among the other statements on its row, and a repetition of it changes nothing.
- `RebootsNeedBoots`: `Spec => []RebootNeedsBoot`, and `ReceivedRebootsSettle`:
  `Spec => []ReceivedRebootSettles`. Neither invariant is inductive: a completed reboot was
  compared with `received_at` or `updated_at`, not with its delivery. `RebootInv` therefore
  keeps, for every reboot, both stamps at or below `Now` and, while it is
  'delivered', at or above the moment of its delivery; an absent row has no receipt; the receipt of
  a delivered row is not from before the last 15 seconds of the boot that preceded the last one a
  check-in reported. Whichever half a check-in dates its boot to (`Dates`), a stamp compared with it
  that is older was made before the boot, and one made before those 15 seconds is older. It also says that the device has no
  result for a reboot, so that `AckRow` and `ProgressRow` never apply and `RebootAnswered` is
  the only way to 'completed'. `BootMoves` adds what a step does to the boots: a boot
  writes no row, and a check-in with an uptime answers every reboot older than the date (`Answers`).

`OtaRolloutProofs` does the same for `OtaRollout`, for any number of deployments, commands,
boots, clicks and goroutines. `RowMove`, `JobMove` and `CmdMoves` list what a step can make of a
row, of a goroutine and of the commands, and by what licence; `RowMoves`, `JobMoves`,
`CommandsMove` and `DevicesMove` show it of every action once, and the invariants are then
proved from the moves.

- `TypesHold`: `Spec => []TypeOK`, inductive by itself: a goroutine at a step that writes a row
  has a deployment at hand.
- `NoEarlyReboot`: `Spec => []RebootsFollowInstalls`, from `Told`: a waiting row, a reboot on
  its way, a goroutine about to write or send one, and an 'installed' command each rest on a
  payload that the device has applied (`Evidence`), which no step takes back.
- `FinishedRowsBooted`: `Spec => []InstalledMeansBooted`, from `Booted`: the builds in check-ins
  still to be handled, and the deployment a check-in has found itself on, have all run.
- `OneOfferAtATime`: `Spec => []NoTwinOffers`. A command is created only when no other stands
  in its way, and none becomes fresh again.
- `CanceledForGood`: `Spec => CanceledIsFinal`; every action that opens a deployment opens a
  complete one or a new one.

`JobLeaseProofs`, for any copies, interval, offset, timeouts and overrun:

- `TypesHold`, with bounds on the ages.
- `OneRunnerAlways`: `Spec => []OneRunner`. `Holding` ties the lease to the run that is in time:
  its copy holds it and the time left is `hold - age`; two such runs would have one holder.
- `TicksRunOnce`: `Spec => OncePerTick`. `Keeping` says that the holder is the last starter and
  how much of its lease is left, given how long ago it started, whether or not it released.
- `NeverForgotten`: `Spec => []Timely`. `Rested` adds, for each copy, what its last tick saw: the
  lease was taken then, so the last start is at most a run and the time since the tick ago.

`DeviceFeedProofs`, for any number of changes, sockets, pages and any channel sizes:

- `TypesHold`: counters and flags apart, for the one needs arithmetic and the other none.
- `LastChangeAlwaysArrives`: `Spec => []LastChangeArrives`, with `Flushable`: a pending update
  has a timer, which may be one that an earlier disconnect left behind.
- `BadgeAlwaysComesTrue`: `Spec => []BadgeComesTrue`. `BadgeInv` says it from the subscription on,
  and that with no socket and nobody left to say so the last event in the channel is
  an offline one; it is not enough that there is some offline event, since an online one
  behind it would stop the timer.

`DeviceOwnerProofs`, for any number of copies and connections and any queue:

- `TypesHold`, in three parts: hubs, writers, tables.
- `LossAlwaysOnItsWay`: `Spec => []LossOnItsWay`, inductive with the types. `LastWord` looks through
  the queue, the gathered change and the one being sent: taking and flushing a change leave it
  as it is, a write empties it, and only a resync could make it a gain, of a socket held.

`HistoryLogProofs`, about every behaviour the promise allows:

- `PromiseWritesOnce`: `Spec => []WrittenOnce`, and `PromiseKeepsOrder`: `Spec => []InOrder`. Neither
  is inductive: a flush must know what is waiting. `LogInv` adds `Placed`, that a report waits with
  its own shard or is written, not both, and only if it was handed over; `GivenOnce`, that none is
  handed over twice; and `Sorted`, that a shard's reports wait in the order in which they were handed
  over. So whatever was handed over before a report of a batch is written, or ahead of it there.

`HistoryQueueProofs`, for any devices, shards, slots, buffer and batch:

- `TypesHold`: `Spec => []TypeOK`, inductive by itself.
- `NothingEverLost`: `Spec => []NothingLost`. `Traced` says where every report is that
  its handler is done with: in a buffer, in a batch or written; `Stages` says what the phase of the shutdown
  has settled of workers and handlers. Neither speaks of an exit, and both are kept by every
  step.
- `QueueKeepsPromise`: `Spec => KeepsPromise`, the refinement of `HistoryLog`: a worker's batch
  followed by its buffer is what the shard has taken, so that `Take` is a stutter, a flush emits
  a front of it, `Enqueue` accepts and `WriteInline` goes direct. It needs `Handed`: a report that
  was handed over has left its handler, and so is not handed over again.
- `QueueWritesOnce` and `QueueKeepsOrder`: `Spec => []WrittenOnce`, `Spec => []InOrder`, inherited from
  `HistoryLogProofs` through the refinement, with no further invariant of the queue.

Out of the provers' reach, and left to TLC: liveness under fairness (`GateOpens`, `Reached`,
`OwnerFound`, `LossSeen`, `SoonWritten`, `Settles`). Every invariant and action property of a passing run is proved, each for every value of
the constants that its assumptions admit. No module declares a recursive operator.

## Where code and comments disagree

Found while modelling, each shown by a run:

- **Late progress revives a cancelled command.** `SetCommandProgressBytes` guards with three
  of the five terminal states (`CommandQueueLateProgress`).
- **An immediate deployment can wait for its reboot for ever.** When the stall sweep has
  failed a row and the device's 'installed' comes after all, the report finds no deployment to
  act on; the revival sets 'awaiting_reboot', and no job reboots such a row of an immediate
  deployment (`OtaRolloutImmediate`). A server that stops between 'awaiting_reboot' and
  `pushRebootFor` leaves the same.

Seen while reading, with no run of their own. Command delivery, ownership and history:

- `RedriveStuckDeliveries` (`handlers.go` 2012) hands out a command whose type allows one
  attempt a second time; `registry.go` 51 says "MaxAttempts caps hand-outs".
- `CompleteDeliveredReboots` falls back on `updated_at` for a reboot without a receipt, which the
  reconnect after the boot refreshes, so an obeyed reboot can stay 'delivered';
  `command_delivery.go` 180 says "when the device first got it, not when the row was last
  touched".
- A loss dropped by a full ownership queue is not healed by the resync, which re-asserts
  sockets only (`cluster.go` 323; the comment is at 154).
- `bootTime` takes 15 seconds off so that clock skew and time in flight "can't date a boot before
  the command that caused it" (`handlers.go` 1763); taking them off is what does that. A reboot
  whose receipt is stamped within the 15 seconds before the device goes down is older than the
  boot and younger than its date, so every check-in of that boot leaves it 'delivered', and it
  holds its lane until it leaves the window or the device boots again; `command_delivery.go` 163
  says "a reboot delivered before that boot is one this boot answers". Hence the premise of
  `ReceivedRebootSettles`.
- `updated_at` is refreshed by every report of progress (`command_delivery.go` 417), so the
  stalled-install sweep never finds an install whose device repeats 'downloading' for ever.
- A full shard's inline write goes ahead of the device's reports still queued
  (`api/ingest_queue.go` 83; `ingest/queue.go` 14 says writes stay in order). Nor is a device's
  HTTP check-in kept apart from its socket frame between `UpsertCheckin` (`handlers.go` 1115) and
  `queueHistory` (1126), so that the history of two reports in hand at once may be written in
  the other order than the one in which they were stored.

Firmware deployments:

- The comment of `RedriveStuckReboots` (`handlers.go` 1829) says `optimisticallyCompleteReboot`
  flips the row to 'installed'; it has come to touch it only.
- `reboot_sent_at` is stamped once and never cleared (`db/deployments.go` 488). After a failed
  slot switch and a Retry, the next row in 'reboot_sent' is failed by the first check-in, before the
  new reboot has happened.
- `TryCreateOTACommand` writes 'downloading' whatever the row says by then, and so undoes a
  Cancel that came in between; the reboot jobs write 'reboot_sent' the same way and take an
  'installed' row of a complete deployment back. A check-in delayed past a boot offers an
  installed build again.
- `ExpireStalledOTAs`, `DeploymentCancelDeviceOTA` and `DeploymentRemoveDevice` do not look
  whether the deployment is complete; the page does, when it is opened.
- Retry of a row in a canceled deployment is accepted and never served; Retry "full" does not
  ask whether the release has a full image.
- A hand-out renews `command_status.updated_at`, so a command re-sent to a deaf device keeps
  the stall sweep away; a late report on an OTA of one deployment is booked on the next.

Live page:

- `Unregister` deletes the pending trailing update, so the last change before a disconnect
  reaches no page, although `hub.go` 534 says "This guarantees the device's *final* state always
  reaches the dashboard" (`cut` in `DeviceFeed`).
- A page opened within the thirty seconds' grace writes Online, and nothing takes it back
  when they are over (`blur`); a change between its first read and its subscription is not
  shown until the next one.
- A timer of a window that a disconnect cut short flushes in the middle of a later window,
  so two broadcasts can fall into one.

Command delivery, further:

- The comment on `received_at` (`db/commands.go`, due list) says a command with a receipt is
  not due again; a row that is 'running' with a lapsed lease is.
- `CommandBlocked` says it mirrors the queue's gate, but it does not look at lanes, attempts
  or exempt types: the dashboard holds back what the flush would let go.
- The API's push at creation asks nobody, so a command created there may reach the device
  while an older one of its lane is unfinished; `LaneOrder` says so in its premise.
- `ReconcileInstalledCommands` means to recover an install whose ack was lost; it also
  settles one that was never handed out, if an older version of the app is present. A
  failure the device reports without output leaves no row in `command_results`, so it too
  can be turned into a success by a later app list.
- `ExpireOverdueCommands` is written and scheduled nowhere.

## What is not modelled

Within the modelled components: deleting a command, cancel frames to the device, groups as
targets, capability checks at enqueue, progress bytes and percentages, the event log, the
cached remote set and its notifications (a read of the modelled
tables a few seconds old), forwarding of frames between copies, the counters of the
history queue, and the retry of a failed batch report by report.

Of the rollout: `RequeueNeverOfferedOTAs` and the branch for devices that stalled while
offline, chained updates (`after_update_id`), wipe images, products and groups as targets, deletion and
settings of a deployment, the 'downloaded' acknowledgement, statuses of an OTA command that only
older clients report, `RebootBlockedFor`, the package inspection, and the gate, whose verdict is
the constant `Capable`. Of the jobs: the statistics, clock skew between copies and the
database, and a lease statement that executes long after it was sent. Of the live page: the
events of other copies, and the fleet page.

Not at all, with the reason in `PROJECT.json`: relays and alerts are future work; rate limits,
the dashboard's other pages, the telemetry store, package
parsing, outbound HTTP, configuration and metrics are input, output and tables without
a protocol of their own.
