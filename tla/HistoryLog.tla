------------------------------ MODULE HistoryLog ------------------------------
(***************************************************************************)
(* What the check-in history queue promises (package comment of            *)
(* internal/ingest/queue.go): a job it takes is written once, after the    *)
(* jobs its shard took before; a job it refuses is written by the caller.  *)
(* Nothing is promised of the order in which jobs are handed over.         *)
(***************************************************************************)
EXTENDS Naturals, Sequences

CONSTANTS
    Devices, Shards,
    ShardOf,      \* the shard of a device
    MaxReports    \* how many times a device reports

VARIABLES
    given,     \* the jobs the queue took or that were written in its place,
               \* in the order in which that happened
    waiting,   \* what each shard has taken and not written, oldest first
    writes     \* the writes to the database so far, each a sequence of jobs

\* A report: its device, and which of the device's reports it is.
Jobs == Devices \X (1..MaxReports)
Shard(job) == ShardOf[job[1]]

Init == /\ given = <<>>
        /\ waiting = [s \in Shards |-> <<>>]
        /\ writes = <<>>

Given == {given[q] : q \in DOMAIN given}

Accept(job) ==
    /\ job \notin Given
    /\ given' = Append(given, job)
    /\ waiting' = [waiting EXCEPT ![Shard(job)] = Append(@, job)]
    /\ UNCHANGED writes

Direct(job) ==
    /\ job \notin Given
    /\ given' = Append(given, job)
    /\ writes' = Append(writes, <<job>>)
    /\ UNCHANGED waiting

Emit(s, n) ==
    /\ n \in 1..Len(waiting[s])
    /\ writes' = Append(writes, SubSeq(waiting[s], 1, n))
    /\ waiting' = [waiting EXCEPT ![s] = SubSeq(@, n + 1, Len(@))]
    /\ UNCHANGED given

Next == \/ \E job \in Jobs : Accept(job) \/ Direct(job)
        \/ \E s \in Shards : \E n \in 1..Len(waiting[s]) : Emit(s, n)

Spec == Init /\ [][Next]_<<given, waiting, writes>>

-----------------------------------------------------------------------------
(* What the promise comes to for a reader of the database.                 *)

\* No report is in the history twice: neither by two workers, nor by its
\* handler and a worker, nor by a batch that is written again (Enqueue, write).
WrittenOnce ==
    \A i, k \in DOMAIN writes : \A j \in DOMAIN writes[i], l \in DOMAIN writes[k] :
        writes[i][j] = writes[k][l] => i = k /\ j = l

LandsBefore(job, i, j) ==
    \E k \in 1..i : \E l \in DOMAIN writes[k] :
        writes[k][l] = job /\ (k < i \/ l < j)

\* "One device's writes stay in order" (package comment), as far as it holds:
\* what lands in a batch with others lands after everything the queue took for
\* its shard before, the reports of its own device among it.  A report written
\* alone may be one that its handler wrote because the shard was full, ahead of
\* older ones still waiting.  Which of two reports that a device makes over two
\* transports at once is handed over first is nobody's promise.
InOrder ==
    \A i \in DOMAIN writes : \A j \in DOMAIN writes[i] : \A q \in DOMAIN given :
        Len(writes[i]) > 1 /\ given[q] = writes[i][j] =>
            \A p \in 1..(q - 1) :
                Shard(given[p]) = Shard(given[q]) => LandsBefore(given[p], i, j)
=============================================================================
