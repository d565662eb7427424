----------------------------- MODULE HistoryQueue -----------------------------
(***************************************************************************)
(* The check-in history queue: internal/ingest/queue.go, its use by the    *)
(* check-in handlers (internal/api/ingest_queue.go) and the order in which *)
(* the server shuts down (cmd/server/main.go).                             *)
(*                                                                         *)
(* A device may report over HTTP and over sockets at once, and nothing     *)
(* orders its reports: each has a handler of its own, and the handlers     *)
(* run side by side as far as there are slots.  Enqueue holds the read     *)
(* lock over the test of closed and the send, so it is one step.  A flush  *)
(* is the step at which its transaction commits; a report that cannot be   *)
(* written even alone is logged and counted, and is no different here.     *)
(***************************************************************************)
EXTENDS Naturals, Sequences, FiniteSets

CONSTANTS
    Devices, Shards,
    ShardOf,      \* the worker a device's jobs go to
    Slots,        \* check-ins whose synchronous half runs at once
    PerShard,     \* buffered jobs per shard
    BatchSize,    \* jobs in a batch
    MaxReports    \* how many times a device reports

ASSUME HistoryAssumption ==
    /\ ShardOf \in [Devices -> Shards]
    /\ Slots \in Nat \ {0}
    /\ PerShard \in Nat \ {0}
    /\ BatchSize \in Nat \ {0}
    /\ MaxReports \in Nat

VARIABLES
    step,      \* where each report's handler is: "none" before it has come,
               \* "slot", "new", "inline", "done", or "gone" if it gave up
    src,       \* how the report came
    chan,      \* the buffer of each shard
    batch,     \* what its worker has gathered
    worker,    \* "run", "drain" once it has seen the stop, "done"
    closed,    \* Close has been called
    phase,     \* of the server: "serving", "stopping", "closing", "exited"
    hurried,   \* a shutdown step ran into its timeout
    writes,    \* the writes to the database so far, each a sequence of jobs
    given      \* history: the jobs enqueued or written inline, in that order

vars == <<step, src, chan, batch, worker, closed, phase, hurried, writes, given>>
reports == <<step, src, given>>
workers == <<chan, batch, worker, writes>>
server == <<closed, phase, hurried>>

\* A device's reports, numbered as they come.
Jobs == Devices \X (1..MaxReports)
Shard(job) == ShardOf[job[1]]

Members(seq) == {seq[i] : i \in DOMAIN seq}

-----------------------------------------------------------------------------
(* Reports.                                                                *)

\* Past 80% of capacity an HTTP check-in is told to come back later.
Depth == Cardinality({q \in Shards \X (1..PerShard) : q[2] <= Len(chan[q[1]])})
Saturated == Depth * 5 >= Cardinality(Shards) * PerShard * 4

Arrive(job, from) ==
    /\ step[job] = "none"
    /\ \A n \in 1..(job[2] - 1) : step[<<job[1], n>>] # "none"
    /\ step' = [step EXCEPT ![job] = "slot"]
    /\ src' = [src EXCEPT ![job] = from]
    /\ UNCHANGED <<given, workers, server>>

\* admitCheckin: saturation is tested once, before the wait for a slot.
HttpReport(job) == phase = "serving" /\ ~ Saturated /\ Arrive(job, "http")

\* A frame cannot be refused, and Shutdown does not wait for a hijacked
\* connection.
WsReport(job) == phase # "exited" /\ Arrive(job, "ws")

InSlot(job) == step[job] \in {"new", "inline"}

\* The handler has its slot; the synchronous half shapes the history.
TakeSlot(job) ==
    /\ phase # "exited"
    /\ step[job] = "slot"
    /\ Cardinality({j \in Jobs : InSlot(j)}) < Slots
    /\ step' = [step EXCEPT ![job] = "new"]
    /\ UNCHANGED <<src, given, workers, server>>

\* The client is told to come back later, or has gone.
GiveUp(job) ==
    /\ phase # "exited"
    /\ step[job] = "slot" /\ src[job] = "http"
    /\ step' = [step EXCEPT ![job] = "gone"]
    /\ UNCHANGED <<src, given, workers, server>>

Takes(job) == ~ closed /\ Len(chan[Shard(job)]) < PerShard

\* queueHistory: what Enqueue refuses the handler writes itself.
Enqueue(job) ==
    /\ phase # "exited"
    /\ step[job] = "new"
    /\ Takes(job)
    /\ chan' = [chan EXCEPT ![Shard(job)] = Append(@, job)]
    /\ given' = Append(given, job)
    /\ step' = [step EXCEPT ![job] = "done"]
    /\ UNCHANGED <<src, batch, worker, writes, server>>

Refused(job) ==
    /\ phase # "exited"
    /\ step[job] = "new"
    /\ ~ Takes(job)
    /\ step' = [step EXCEPT ![job] = "inline"]
    /\ UNCHANGED <<src, given, workers, server>>

WriteInline(job) ==
    /\ phase # "exited"
    /\ step[job] = "inline"
    /\ writes' = Append(writes, <<job>>)
    /\ given' = Append(given, job)
    /\ step' = [step EXCEPT ![job] = "done"]
    /\ UNCHANGED <<src, chan, batch, worker, server>>

-----------------------------------------------------------------------------
(* The workers.                                                            *)

\* Mutant of Full: the batch outgrows its limit by one.
FullLate(s) == Len(batch[s]) > BatchSize

Full(s) == Len(batch[s]) >= BatchSize

\* Mutant of Gathered: the newest job goes first.
GatheredFirst(b, job) == <<job>> \o b

\* batch = append(batch, job)
Gathered(b, job) == Append(b, job)

Take(s) ==
    /\ phase # "exited"
    /\ worker[s] # "done"
    /\ ~ Full(s)
    /\ chan[s] # <<>>
    /\ batch' = [batch EXCEPT ![s] = Gathered(@, Head(chan[s]))]
    /\ chan' = [chan EXCEPT ![s] = Tail(@)]
    /\ UNCHANGED <<worker, writes, reports, server>>

\* Mutant of Flushed: the slice is handed on and not emptied.
FlushedKept(s) == batch[s]

\* What is left of a batch once it is written.
Flushed(s) == <<>>

\* Mutant of Due: the tick does nothing.
DueWhenFull(s) == Full(s)

\* A full batch is written at once, any other at the next tick.
Due(s) == Full(s) \/ (worker[s] = "run" /\ batch[s] # <<>>)

Flush(s) ==
    /\ phase # "exited"
    /\ Due(s)
    /\ writes' = Append(writes, batch[s])
    /\ batch' = [batch EXCEPT ![s] = Flushed(s)]
    /\ UNCHANGED <<chan, worker, reports, server>>

\* The worker's select finds the stop channel closed.
SeeStop(s) ==
    /\ phase # "exited"
    /\ closed
    /\ worker[s] = "run"
    /\ ~ Full(s)
    /\ worker' = [worker EXCEPT ![s] = "drain"]
    /\ UNCHANGED <<chan, batch, writes, reports, server>>

\* Mutant of Drained: the worker does not look into the channel again.
DrainedAtOnce(s) == TRUE

Drained(s) == chan[s] = <<>>

\* The last write, and the worker returns.
EndDrain(s) ==
    /\ phase # "exited"
    /\ worker[s] = "drain"
    /\ ~ Full(s)
    /\ Drained(s)
    /\ worker' = [worker EXCEPT ![s] = "done"]
    /\ IF batch[s] = <<>>
       THEN UNCHANGED <<writes, batch>>
       ELSE /\ writes' = Append(writes, batch[s])
            /\ batch' = [batch EXCEPT ![s] = Flushed(s)]
    /\ UNCHANGED <<chan, reports, server>>

-----------------------------------------------------------------------------
(* Shutdown: the sockets are closed and the HTTP server drained, for ten    *)
(* seconds at most, then the queue is closed, for four, then main returns.  *)

Stop ==
    /\ phase = "serving"
    /\ phase' = "stopping"
    /\ UNCHANGED <<closed, hurried, reports, workers>>

HttpDrained ==
    \A job \in Jobs : step[job] \in {"slot", "new", "inline"} => src[job] = "ws"

Close ==
    /\ phase = "stopping"
    /\ phase' = "closing"
    /\ closed' = TRUE
    /\ hurried' = (hurried \/ ~ HttpDrained)
    /\ UNCHANGED <<reports, workers>>

Exit ==
    /\ phase = "closing"
    /\ phase' = "exited"
    /\ hurried' = (hurried \/ \E s \in Shards : worker[s] # "done")
    /\ UNCHANGED <<closed, reports, workers>>

-----------------------------------------------------------------------------
Init ==
    /\ step = [job \in Jobs |-> "none"]
    /\ src = [job \in Jobs |-> "http"]
    /\ chan = [s \in Shards |-> <<>>]
    /\ batch = [s \in Shards |-> <<>>]
    /\ worker = [s \in Shards |-> "run"]
    /\ closed = FALSE
    /\ phase = "serving"
    /\ hurried = FALSE
    /\ writes = <<>>
    /\ given = <<>>

Handle(job) == \/ HttpReport(job) \/ WsReport(job) \/ TakeSlot(job) \/ GiveUp(job)
               \/ Enqueue(job) \/ Refused(job) \/ WriteInline(job)

Work(s) == Take(s) \/ Flush(s) \/ SeeStop(s) \/ EndDrain(s)

Next == \/ \E job \in Jobs : Handle(job)
        \/ \E s \in Shards : Work(s)
        \/ Stop \/ Close \/ Exit

Spec == Init /\ [][Next]_vars

\* Workers are goroutines that never wait for anything but their channels and
\* the database.
FairSpec == Spec /\ \A s \in Shards : WF_vars(Work(s))

-----------------------------------------------------------------------------
(* Properties.                                                             *)

TypeOK ==
    /\ step \in [Jobs -> {"none", "slot", "new", "inline", "done", "gone"}]
    /\ src \in [Jobs -> {"http", "ws"}]
    /\ given \in Seq(Jobs)
    /\ chan \in [Shards -> Seq(Jobs)]
    /\ batch \in [Shards -> Seq(Jobs)]
    /\ \A s \in Shards : Len(chan[s]) <= PerShard /\ Len(batch[s]) <= BatchSize
    /\ worker \in [Shards -> {"run", "drain", "done"}]
    /\ closed \in BOOLEAN
    /\ phase \in {"serving", "stopping", "closing", "exited"}
    /\ hurried \in BOOLEAN
    /\ writes \in Seq(Seq(Jobs))

Written == UNION {Members(writes[i]) : i \in DOMAIN writes}

\* A shutdown that meets no timeout loses no report: each one whose check-in
\* the server stored was written, save one that came over a socket and whose
\* handler the shutdown did not wait for (Close, CloseIngest).
NothingLost ==
    phase = "exited" /\ ~ hurried =>
        \A job \in Jobs : /\ step[job] = "done" => job \in Written
                          /\ InSlot(job) => src[job] = "ws"

\* The queue keeps the promise of HistoryLog: nothing it took is written twice,
\* dropped or overtaken between the buffer, the batch and the database.
Log == INSTANCE HistoryLog WITH waiting <- [s \in Shards |-> batch[s] \o chan[s]]

KeepsPromise == Log!Spec

\* Every report is in the history at most once, whoever wrote it: queueHistory's
\* fallback and the worker, a flush and the drain never both (Enqueue, write).
WrittenOnce == Log!WrittenOnce

\* A report that a worker writes with others lands after all that Enqueue took
\* for its shard before it, its device's reports among them; only one written
\* alone can overtake (queueHistory's fallback).
InOrder == Log!InOrder

\* A report the queue has taken does not stay in memory, whether or not others
\* follow: the tick writes what does not fill a batch, until the process ends.
Queued(job) == job \in Members(chan[Shard(job)]) \cup Members(batch[Shard(job)])

SoonWritten ==
    \A job \in Jobs : Queued(job) ~> job \in Written \/ phase = "exited"
=============================================================================
