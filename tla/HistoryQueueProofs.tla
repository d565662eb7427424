-------------------------- MODULE HistoryQueueProofs --------------------------
(***************************************************************************)
(* The check-in history queue, for any devices, shards, buffer and batch:  *)
(* a shutdown that meets no timeout loses no report that its handlers were *)
(* waited for, and the queue does what HistoryLog promises.                *)
(***************************************************************************)
EXTENDS HistoryQueue, SequenceTheorems, TLAPS

USE HistoryAssumption

LEMMA InitType == Init => TypeOK
<1> SUFFICES ASSUME Init PROVE TypeOK
  OBVIOUS
<1>1. <<>> \in Seq(Jobs) /\ Len(<<>>) = 0 /\ <<>> \in Seq(Seq(Jobs))
  BY EmptySeq
<1>2. /\ chan \in [Shards -> Seq(Jobs)] /\ batch \in [Shards -> Seq(Jobs)]
      /\ \A s \in Shards : Len(chan[s]) <= PerShard /\ Len(batch[s]) <= BatchSize
      /\ writes \in Seq(Seq(Jobs)) /\ given \in Seq(Jobs)
  BY <1>1 DEF Init
<1> QED
  BY <1>2, Zenon DEF Init, TypeOK

\* The steps of a handler that leave the queue alone.
LEMMA HandlerType ==
    ASSUME TypeOK, NEW job \in Jobs,
           \/ HttpReport(job) \/ WsReport(job) \/ TakeSlot(job) \/ GiveUp(job) \/ Refused(job)
    PROVE  TypeOK'
<1>1. UNCHANGED <<given, workers, server>>
  BY DEF HttpReport, WsReport, Arrive, TakeSlot, GiveUp, Refused, workers, server
<1>2. step' \in [Jobs -> {"none", "slot", "new", "inline", "done", "gone"}]
  <2>1. \E to \in {"slot", "new", "inline", "gone"} : step' = [step EXCEPT ![job] = to]
    BY DEF HttpReport, WsReport, Arrive, TakeSlot, GiveUp, Refused
  <2> QED
    BY <2>1 DEF TypeOK
<1>3. src' \in [Jobs -> {"http", "ws"}]
  BY DEF HttpReport, WsReport, Arrive, TakeSlot, GiveUp, Refused, TypeOK
<1> QED
  BY <1>1, <1>2, <1>3 DEF TypeOK, workers, server

LEMMA ShardType == ASSUME NEW job \in Jobs PROVE Shard(job) \in Shards
BY DEF Jobs, Shard

LEMMA GivenType ==
    ASSUME TypeOK, NEW job \in Jobs, given' = Append(given, job)
    PROVE  given' \in Seq(Jobs)
BY AppendProperties DEF TypeOK

LEMMA EnqueueType ==
    ASSUME TypeOK, NEW job \in Jobs, Enqueue(job)
    PROVE  TypeOK'
<1> DEFINE s == Shard(job)
<1>1. s \in Shards /\ Len(chan[s]) < PerShard
  BY ShardType DEF Enqueue, Takes
<1>2. /\ Append(chan[s], job) \in Seq(Jobs)
      /\ Len(Append(chan[s], job)) = Len(chan[s]) + 1
      /\ Len(chan[s]) \in Nat
  BY <1>1, AppendProperties, LenProperties DEF TypeOK
<1>3. chan' = [chan EXCEPT ![s] = Append(chan[s], job)]
  BY DEF Enqueue
<1>4. /\ chan' \in [Shards -> Seq(Jobs)]
      /\ \A t \in Shards : Len(chan'[t]) <= PerShard
  BY <1>1, <1>2, <1>3 DEF TypeOK
<1>5. given' \in Seq(Jobs)
  BY GivenType DEF Enqueue
<1> QED
  BY <1>4, <1>5 DEF Enqueue, TypeOK, server

LEMMA InlineType ==
    ASSUME TypeOK, NEW job \in Jobs, WriteInline(job)
    PROVE  TypeOK'
<1>1. <<job>> \in Seq(Jobs)
  OBVIOUS
<1>2. writes' \in Seq(Seq(Jobs))
  BY <1>1, AppendProperties DEF WriteInline, TypeOK
<1>3. given' \in Seq(Jobs)
  BY GivenType DEF WriteInline
<1> QED
  BY <1>2, <1>3 DEF WriteInline, TypeOK, server

LEMMA TakeType ==
    ASSUME TypeOK, NEW s \in Shards, Take(s)
    PROVE  TypeOK'
<1>1. /\ Head(chan[s]) \in Jobs
      /\ Tail(chan[s]) \in Seq(Jobs)
      /\ Len(Tail(chan[s])) = Len(chan[s]) - 1
  BY HeadTailProperties DEF Take, TypeOK
<1>2. /\ Append(batch[s], Head(chan[s])) \in Seq(Jobs)
      /\ Len(Append(batch[s], Head(chan[s]))) = Len(batch[s]) + 1
      /\ Len(batch[s]) \in Nat /\ Len(batch[s]) < BatchSize /\ Len(chan[s]) \in Nat
  BY <1>1, AppendProperties, LenProperties DEF Take, Gathered, Full, TypeOK
<1>3. /\ chan' \in [Shards -> Seq(Jobs)]
      /\ \A t \in Shards : Len(chan'[t]) <= PerShard
  BY <1>1, <1>2 DEF Take, TypeOK
<1>4. /\ batch' \in [Shards -> Seq(Jobs)]
      /\ \A t \in Shards : Len(batch'[t]) <= BatchSize
  BY <1>1, <1>2 DEF Take, Gathered, TypeOK
<1> QED
  BY <1>3, <1>4 DEF Take, TypeOK, reports, server

LEMMA WriteType ==
    ASSUME TypeOK, NEW s \in Shards, Flush(s) \/ EndDrain(s)
    PROVE  TypeOK'
<1>1. <<>> \in Seq(Jobs) /\ Len(<<>>) = 0
  BY EmptySeq
<1>2. /\ writes' = writes \/ writes' = Append(writes, batch[s])
      /\ batch' = batch \/ batch' = [batch EXCEPT ![s] = <<>>]
  BY DEF Flush, EndDrain, Flushed
<1>3. /\ writes' \in Seq(Seq(Jobs))
      /\ batch' \in [Shards -> Seq(Jobs)]
      /\ \A t \in Shards : Len(batch'[t]) <= BatchSize
  <2>1. Append(writes, batch[s]) \in Seq(Seq(Jobs))
    BY AppendProperties DEF TypeOK
  <2>2. writes' \in Seq(Seq(Jobs))
    BY <1>2, <2>1 DEF TypeOK
  <2>3. \A t \in Shards : batch'[t] = batch[t] \/ batch'[t] = <<>>
    BY <1>2 DEF TypeOK
  <2>4. batch' \in [Shards -> Seq(Jobs)]
    BY <1>1, <1>2 DEF TypeOK
  <2> QED
    BY <1>1, <2>2, <2>3, <2>4 DEF TypeOK
<1>4. worker' \in [Shards -> {"run", "drain", "done"}]
  BY DEF Flush, EndDrain, TypeOK
<1> QED
  BY <1>3, <1>4 DEF Flush, EndDrain, TypeOK, reports, server

LEMMA ServerType ==
    ASSUME TypeOK,
           \/ \E s \in Shards : SeeStop(s)
           \/ Stop \/ Close \/ Exit
           \/ UNCHANGED vars
    PROVE  TypeOK'
<1>1. UNCHANGED <<reports, chan, batch, writes>>
  BY DEF SeeStop, Stop, Close, Exit, vars, workers, reports
<1>2. worker' \in [Shards -> {"run", "drain", "done"}]
  BY DEF SeeStop, Stop, Close, Exit, vars, workers, TypeOK
<1>3. /\ closed' \in BOOLEAN
      /\ phase' \in {"serving", "stopping", "closing", "exited"}
  BY DEF SeeStop, Stop, Close, Exit, vars, server, TypeOK
<1>4. hurried' \in BOOLEAN
  BY Zenon DEF SeeStop, Stop, Close, Exit, vars, server, TypeOK
<1> QED
  BY <1>1, <1>2, <1>3, <1>4 DEF TypeOK, reports

LEMMA NextType == TypeOK /\ [Next]_vars => TypeOK'
BY HandlerType, EnqueueType, InlineType, TakeType, WriteType, ServerType
   DEF Next, Handle, Work

\* Reports, buffers, batches and writes are what they are meant to be, and a
\* worker's buffer and batch keep to their limits.
THEOREM TypesHold == Spec => []TypeOK
<1> QED
  BY InitType, NextType, PTL DEF Spec

-----------------------------------------------------------------------------
(* Where a report can be.                                                  *)

LEMMA MembersAppend ==
    ASSUME NEW S, NEW seq \in Seq(S), NEW e \in S
    PROVE  Members(Append(seq, e)) = Members(seq) \cup {e}
<1>1. /\ Len(Append(seq, e)) = Len(seq) + 1 /\ Len(seq) \in Nat
      /\ \A i \in 1..Len(seq) : Append(seq, e)[i] = seq[i]
      /\ Append(seq, e)[Len(seq) + 1] = e
      /\ Append(seq, e) \in Seq(S)
  BY AppendProperties, LenProperties
<1>2. /\ DOMAIN seq = 1..Len(seq)
      /\ DOMAIN Append(seq, e) = 1..Len(Append(seq, e))
  BY <1>1, LenProperties
<1> QED
  BY <1>1, <1>2 DEF Members

LEMMA MembersHeadTail ==
    ASSUME NEW S, NEW seq \in Seq(S), seq # <<>>
    PROVE  Members(seq) = {Head(seq)} \cup Members(Tail(seq))
<1>1. /\ Tail(seq) \in Seq(S)
      /\ Len(Tail(seq)) = Len(seq) - 1 /\ Len(seq) \in Nat \ {0}
      /\ \A i \in 1..Len(Tail(seq)) : Tail(seq)[i] = seq[i + 1]
      /\ Head(seq) = seq[1]
  BY HeadTailProperties, EmptySeq
<1>2. /\ DOMAIN seq = 1..Len(seq)
      /\ DOMAIN Tail(seq) = 1..Len(Tail(seq))
  BY <1>1, LenProperties
<1>3. ASSUME NEW i \in DOMAIN seq
      PROVE  seq[i] = Head(seq) \/ seq[i] \in Members(Tail(seq))
  <2>1. CASE i = 1
    BY <1>1, <2>1
  <2>2. CASE i # 1
    <3>1. i - 1 \in DOMAIN Tail(seq) /\ seq[i] = Tail(seq)[i - 1]
      BY <1>1, <1>2, <2>2
    <3> QED
      BY <3>1 DEF Members
  <2> QED
    BY <2>1, <2>2
<1>4. ASSUME NEW i \in DOMAIN Tail(seq)
      PROVE  Tail(seq)[i] \in Members(seq)
  <2>1. i + 1 \in DOMAIN seq /\ Tail(seq)[i] = seq[i + 1]
    BY <1>1, <1>2
  <2> QED
    BY <2>1 DEF Members
<1>5. Head(seq) \in Members(seq)
  <2>1. 1 \in DOMAIN seq
    BY <1>1, <1>2
  <2> QED
    BY <1>1, <2>1 DEF Members
<1> QED
  BY <1>3, <1>4, <1>5 DEF Members

\* A write adds what it writes to what was written before.
LEMMA WrittenGrows ==
    ASSUME TypeOK, NEW b \in Seq(Jobs), writes' = Append(writes, b)
    PROVE  Written' = Written \cup Members(b)
<1>1. /\ Len(writes') = Len(writes) + 1 /\ Len(writes) \in Nat
      /\ \A i \in 1..Len(writes) : writes'[i] = writes[i]
      /\ writes'[Len(writes) + 1] = b
      /\ writes' \in Seq(Seq(Jobs))
  BY AppendProperties, LenProperties DEF TypeOK
<1>2. DOMAIN writes = 1..Len(writes) /\ DOMAIN writes' = 1..Len(writes')
  BY <1>1, LenProperties DEF TypeOK
<1>3. DOMAIN writes' = DOMAIN writes \cup {Len(writes) + 1}
  BY <1>1, <1>2
<1>4. Written' = UNION {Members(writes'[i]) : i \in DOMAIN writes'}
  BY DEF Written, Members
<1> HIDE DEF Members
<1> QED
  BY <1>1, <1>2, <1>3, <1>4, Zenon DEF Written

Somewhere(job) == \/ job \in Written
                  \/ job \in Members(batch[Shard(job)])
                  \/ job \in Members(chan[Shard(job)])

\* Every report its handler is done with is in a buffer, in a batch or written.
Traced == \A job \in Jobs : step[job] = "done" => Somewhere(job)

\* How far the shutdown is, and what that says of workers and handlers.
Stages ==
    /\ phase \in {"closing", "exited"} <=> closed
    /\ \A s \in Shards :
           /\ worker[s] # "run" => closed
           /\ worker[s] = "done" => chan[s] = <<>> /\ batch[s] = <<>>
    /\ closed /\ ~ hurried => HttpDrained
    /\ phase = "exited" /\ ~ hurried => \A s \in Shards : worker[s] = "done"

\* A report that comes, waits or is refused is not one its handler is done with.
LEMMA WaitsTrace ==
    ASSUME TypeOK, Traced, NEW job \in Jobs,
           \/ HttpReport(job) \/ WsReport(job) \/ TakeSlot(job) \/ GiveUp(job) \/ Refused(job)
    PROVE  Traced'
<1>1. UNCHANGED <<chan, batch, writes>> /\ Written' = Written
  BY DEF HttpReport, WsReport, Arrive, TakeSlot, GiveUp, Refused, workers, Written, Members
<1>2. \A e \in Jobs : step'[e] = "done" => step[e] = "done"
  BY DEF HttpReport, WsReport, Arrive, TakeSlot, GiveUp, Refused, TypeOK
<1> QED
  BY <1>1, <1>2 DEF Traced, Somewhere, Members, Shard

\* What leaves a handler is in a buffer or written.
LEMMA LeavingTraces ==
    ASSUME TypeOK, Traced, NEW job \in Jobs, Enqueue(job) \/ WriteInline(job)
    PROVE  Traced'
<1> DEFINE s == Shard(job)
<1>1. s \in Shards /\ <<job>> \in Seq(Jobs)
  BY ShardType
<1>2. /\ batch' = batch
      /\ \A e \in Jobs \ {job} : step'[e] = step[e]
  BY DEF Enqueue, WriteInline, TypeOK
<1>3. CASE Enqueue(job)
  <2>1. writes' = writes /\ Written' = Written
    BY <1>3 DEF Enqueue, Written, Members
  <2>2. chan' = [chan EXCEPT ![s] = Append(chan[s], job)] /\ chan[s] \in Seq(Jobs)
    BY <1>1, <1>3 DEF Enqueue, TypeOK
  <2>3. Members(Append(chan[s], job)) = Members(chan[s]) \cup {job}
    BY <2>2, MembersAppend
  <2>4. /\ Members(chan'[s]) = Members(chan[s]) \cup {job}
        /\ \A t \in Shards : Members(chan[t]) \subseteq Members(chan'[t])
    BY <1>1, <2>2, <2>3 DEF TypeOK
  <2>5. ASSUME NEW e \in Jobs, step'[e] = "done"
        PROVE  Somewhere(e)'
    <3>1. CASE e = job
      BY <2>4, <3>1 DEF Somewhere, Members, Shard
    <3>2. CASE e # job
      <4>1. Somewhere(e) /\ Shard(e) \in Shards
        BY <1>2, <2>5, <3>2, ShardType DEF Traced
      <4>2. CASE e \in Members(chan[Shard(e)])
        <5>1. e \in Members(chan'[Shard(e)])
          BY <2>4, <4>1, <4>2
        <5> QED
          BY <5>1 DEF Somewhere, Members, Shard
      <4>3. CASE e \in Written \/ e \in Members(batch[Shard(e)])
        BY <1>2, <2>1, <4>3 DEF Somewhere, Members, Shard
      <4> QED
        BY <4>1, <4>2, <4>3 DEF Somewhere
    <3> QED
      BY <3>1, <3>2
  <2> QED
    BY <2>5 DEF Traced
<1>4. CASE WriteInline(job)
  <2>1. chan' = chan /\ writes' = Append(writes, <<job>>)
    BY <1>4 DEF WriteInline
  <2>2. Written' = Written \cup Members(<<job>>)
    BY <1>1, <2>1, WrittenGrows
  <2>3. Members(<<job>>) = {job}
    BY DEF Members
  <2>4. ASSUME NEW e \in Jobs, step'[e] = "done"
        PROVE  Somewhere(e)'
    <3>1. CASE e = job
      BY <2>2, <2>3, <3>1 DEF Somewhere
    <3>2. CASE e # job
      <4>1. Somewhere(e)
        BY <1>2, <2>4, <3>2 DEF Traced
      <4> QED
        BY <1>2, <2>1, <2>2, <4>1 DEF Somewhere, Members, Shard
    <3> QED
      BY <3>1, <3>2
  <2> QED
    BY <2>4 DEF Traced
<1> QED
  BY <1>3, <1>4

\* A worker moves a report on before it lets go of it.
LEMMA TakeTraces ==
    ASSUME TypeOK, Traced, NEW s \in Shards, Take(s)
    PROVE  Traced'
<1>1. UNCHANGED <<step, writes>> /\ Written' = Written
  BY DEF Take, reports, Written, Members
<1>2. /\ chan[s] \in Seq(Jobs) /\ chan[s] # <<>> /\ batch[s] \in Seq(Jobs)
      /\ Head(chan[s]) \in Jobs
  BY HeadTailProperties DEF Take, TypeOK
<1>3. /\ batch' = [batch EXCEPT ![s] = Append(batch[s], Head(chan[s]))]
      /\ chan' = [chan EXCEPT ![s] = Tail(chan[s])]
  BY DEF Take, Gathered
<1>4. /\ Members(Append(batch[s], Head(chan[s]))) = Members(batch[s]) \cup {Head(chan[s])}
      /\ Members(chan[s]) = {Head(chan[s])} \cup Members(Tail(chan[s]))
  BY <1>2, MembersAppend, MembersHeadTail
<1>5. \A t \in Shards : /\ Members(batch[t]) \subseteq Members(batch'[t])
                        /\ Members(chan[t]) \subseteq Members(chan'[t]) \cup Members(batch'[t])
  BY <1>3, <1>4 DEF TypeOK
<1>6. ASSUME NEW e \in Jobs, step'[e] = "done"
      PROVE  Somewhere(e)'
  <2>1. Somewhere(e) /\ Shard(e) \in Shards
    BY <1>1, <1>6, ShardType DEF Traced
  <2>2. CASE e \in Written
    BY <1>1, <2>2 DEF Somewhere
  <2>3. CASE e \in Members(batch[Shard(e)]) \/ e \in Members(chan[Shard(e)])
    <3>1. e \in Members(batch'[Shard(e)]) \/ e \in Members(chan'[Shard(e)])
      BY <1>5, <2>1, <2>3
    <3> QED
      BY <3>1 DEF Somewhere, Members, Shard
  <2> QED
    BY <2>1, <2>2, <2>3 DEF Somewhere
<1> QED
  BY <1>6 DEF Traced

LEMMA WriteTraces ==
    ASSUME TypeOK, Traced, NEW s \in Shards, Flush(s) \/ EndDrain(s)
    PROVE  Traced'
<1>1. UNCHANGED <<step, chan>>
  BY DEF Flush, EndDrain, reports
<1>2. CASE UNCHANGED <<writes, batch>>
  <2>1. Written' = Written
    BY <1>2 DEF Written, Members
  <2> QED
    BY <1>1, <1>2, <2>1 DEF Traced, Somewhere, Members, Shard
<1>3. CASE /\ writes' = Append(writes, batch[s])
           /\ batch' = [batch EXCEPT ![s] = <<>>]
  <2>1. batch[s] \in Seq(Jobs)
    BY DEF TypeOK
  <2>2. Written' = Written \cup Members(batch[s])
    BY <1>3, <2>1, WrittenGrows
  <2>3. \A t \in Shards \ {s} : batch'[t] = batch[t]
    BY <1>3 DEF TypeOK
  <2>4. ASSUME NEW e \in Jobs, step'[e] = "done"
        PROVE  Somewhere(e)'
    <3>1. Somewhere(e) /\ Shard(e) \in Shards
      BY <1>1, <2>4, ShardType DEF Traced
    <3>2. CASE e \in Written \/ (e \in Members(batch[Shard(e)]) /\ Shard(e) = s)
      BY <2>2, <3>2 DEF Somewhere
    <3>3. CASE e \in Members(batch[Shard(e)]) /\ Shard(e) # s
      BY <2>3, <3>1, <3>3 DEF Somewhere, Members, Shard
    <3>4. CASE e \in Members(chan[Shard(e)])
      BY <1>1, <3>4 DEF Somewhere, Members, Shard
    <3> QED
      BY <3>1, <3>2, <3>3, <3>4 DEF Somewhere
  <2> QED
    BY <2>4 DEF Traced
<1> QED
  BY <1>2, <1>3 DEF Flush, EndDrain, Flushed

LEMMA ServerTraces ==
    ASSUME Traced,
           \/ \E s \in Shards : SeeStop(s)
           \/ Stop \/ Close \/ Exit
           \/ UNCHANGED vars
    PROVE  Traced'
<1>1. UNCHANGED <<step, chan, batch, writes>>
  BY DEF SeeStop, Stop, Close, Exit, vars, workers, reports
<1>2. Written' = Written
  BY <1>1 DEF Written, Members
<1> QED
  BY <1>1, <1>2 DEF Traced, Somewhere, Members, Shard

LEMMA NextTraces == TypeOK /\ Traced /\ [Next]_vars => Traced'
BY WaitsTrace, LeavingTraces, TakeTraces, WriteTraces, ServerTraces
   DEF Next, Handle, Work

-----------------------------------------------------------------------------
(* The shutdown.                                                           *)

LEMMA HandlerStages ==
    ASSUME TypeOK, Stages, NEW job \in Jobs, Handle(job)
    PROVE  Stages'
<1>1. UNCHANGED <<batch, worker, closed, phase, hurried>>
  BY DEF Handle, HttpReport, WsReport, Arrive, TakeSlot, GiveUp, Enqueue, Refused,
         WriteInline, workers, server
<1>2. closed => chan' = chan
  BY DEF Handle, HttpReport, WsReport, Arrive, TakeSlot, GiveUp, Enqueue, Refused,
         WriteInline, workers, Takes
<1>3. closed /\ HttpDrained => HttpDrained'
  BY DEF Handle, HttpReport, WsReport, Arrive, TakeSlot, GiveUp, Enqueue, Refused,
         WriteInline, HttpDrained, Stages, TypeOK
<1> QED
  BY <1>1, <1>2, <1>3, Zenon DEF Stages

LEMMA WorkerStages ==
    ASSUME TypeOK, Stages, NEW s \in Shards, Work(s)
    PROVE  Stages'
<1>1. UNCHANGED <<step, src, closed, phase, hurried>> /\ HttpDrained' = HttpDrained
  BY DEF Work, Take, Flush, SeeStop, EndDrain, reports, server, HttpDrained
<1>2. \A t \in Shards \ {s} : UNCHANGED <<worker[t], chan[t], batch[t]>>
  BY DEF Work, Take, Flush, SeeStop, EndDrain, TypeOK
<1>3. /\ worker'[s] # "run" => closed
      /\ worker[s] = "done" => worker'[s] = "done"
  BY DEF Work, Take, Flush, SeeStop, EndDrain, TypeOK, Stages
<1>4. worker'[s] = "done" => chan'[s] = <<>> /\ batch'[s] = <<>>
  BY DEF Work, Take, Flush, Flushed, SeeStop, EndDrain, Drained, TypeOK, Stages
<1>5. \A t \in Shards : /\ worker'[t] # "run" => closed'
                        /\ worker'[t] = "done" => chan'[t] = <<>> /\ batch'[t] = <<>>
  BY <1>1, <1>2, <1>3, <1>4 DEF Stages
<1>6. \A t \in Shards : worker[t] = "done" => worker'[t] = "done"
  BY <1>2, <1>3
<1> QED
  BY <1>1, <1>5, <1>6, Zenon DEF Stages

LEMMA ServerStages ==
    ASSUME TypeOK, Stages, Stop \/ Close \/ Exit \/ UNCHANGED vars
    PROVE  Stages'
<1>1. UNCHANGED <<step, src, chan, batch, worker>> /\ HttpDrained' = HttpDrained
  BY DEF Stop, Close, Exit, vars, reports, workers, HttpDrained
<1>2. CASE Stop
  BY <1>1, <1>2 DEF Stop, Stages
<1>3. CASE Close
  BY <1>1, <1>3 DEF Close, Stages
<1>4. CASE Exit
  BY <1>1, <1>4 DEF Exit, Stages
<1>5. CASE UNCHANGED vars
  BY <1>1, <1>5 DEF vars, Stages
<1> QED
  BY <1>2, <1>3, <1>4, <1>5

LEMMA NextStages == TypeOK /\ Stages /\ [Next]_vars => Stages'
BY HandlerStages, WorkerStages, ServerStages DEF Next

Safe == TypeOK /\ Traced /\ Stages

LEMMA SafeInit == Init => Safe
<1> SUFFICES ASSUME Init PROVE Traced /\ Stages
  BY InitType DEF Safe
<1>1. Traced
  BY DEF Init, Traced
<1>2. Stages
  BY DEF Init, Stages
<1> QED
  BY <1>1, <1>2

LEMMA SafeNext == Safe /\ [Next]_vars => Safe'
BY NextType, NextTraces, NextStages DEF Safe

LEMMA SafeMeans == Safe => NothingLost
<1> SUFFICES ASSUME Safe, phase = "exited", ~ hurried, NEW job \in Jobs
             PROVE  /\ step[job] = "done" => job \in Written
                    /\ InSlot(job) => src[job] = "ws"
  BY DEF NothingLost
<1>1. Shard(job) \in Shards
  BY ShardType
<1>2. chan[Shard(job)] = <<>> /\ batch[Shard(job)] = <<>>
  BY <1>1 DEF Safe, Stages
<1>3. Members(<<>>) = {}
  BY DEF Members
<1>4. InSlot(job) => src[job] = "ws"
  BY DEF Safe, Stages, HttpDrained, InSlot
<1> QED
  BY <1>2, <1>3, <1>4 DEF Safe, Traced, Somewhere

\* A shutdown that meets no timeout loses no report but those that came over a
\* socket and whose handlers it did not wait for (Close, CloseIngest).
THEOREM NothingEverLost == Spec => []NothingLost
<1> QED
  BY SafeInit, SafeNext, SafeMeans, PTL DEF Spec

-----------------------------------------------------------------------------
(* The queue implements HistoryLog.                                        *)

LEMMA AppendToConcat ==
    ASSUME NEW S, NEW b \in Seq(S), NEW c \in Seq(S), NEW e \in S
    PROVE  b \o Append(c, e) = Append(b \o c, e)
<1>1. <<e>> \in Seq(S) /\ b \o c \in Seq(S)
  BY ConcatProperties
<1>2. Append(c, e) = c \o <<e>> /\ Append(b \o c, e) = (b \o c) \o <<e>>
  BY <1>1, AppendIsConcat
<1>3. (b \o c) \o <<e>> = b \o (c \o <<e>>)
  BY <1>1, ConcatAssociative
<1> QED
  BY <1>2, <1>3

LEMMA HeadMoves ==
    ASSUME NEW S, NEW b \in Seq(S), NEW c \in Seq(S), c # <<>>
    PROVE  Append(b, Head(c)) \o Tail(c) = b \o c
<1>1. /\ Head(c) \in S /\ Tail(c) \in Seq(S)
      /\ Len(Tail(c)) = Len(c) - 1 /\ Len(c) \in Nat \ {0}
      /\ \A i \in 1..Len(Tail(c)) : Tail(c)[i] = c[i + 1]
      /\ Head(c) = c[1]
  BY HeadTailProperties, EmptySeq
<1>2. /\ Append(b, Head(c)) \in Seq(S)
      /\ Len(Append(b, Head(c))) = Len(b) + 1 /\ Len(b) \in Nat
      /\ \A i \in 1..Len(b) : Append(b, Head(c))[i] = b[i]
      /\ Append(b, Head(c))[Len(b) + 1] = Head(c)
  BY <1>1, AppendProperties, LenProperties
<1>3. /\ Append(b, Head(c)) \o Tail(c) \in Seq(S)
      /\ Len(Append(b, Head(c)) \o Tail(c)) = Len(b) + Len(c)
      /\ \A i \in 1..(Len(b) + Len(c)) :
             (Append(b, Head(c)) \o Tail(c))[i] =
                 IF i <= Len(b) + 1 THEN Append(b, Head(c))[i] ELSE Tail(c)[i - (Len(b) + 1)]
  <2>1. /\ Append(b, Head(c)) \o Tail(c) \in Seq(S)
        /\ Len(Append(b, Head(c)) \o Tail(c)) = Len(Append(b, Head(c))) + Len(Tail(c))
        /\ \A i \in 1..(Len(Append(b, Head(c))) + Len(Tail(c))) :
               (Append(b, Head(c)) \o Tail(c))[i] =
                   IF i <= Len(Append(b, Head(c))) THEN Append(b, Head(c))[i]
                   ELSE Tail(c)[i - Len(Append(b, Head(c)))]
    BY <1>1, <1>2, ConcatProperties
  <2>2. Len(Append(b, Head(c))) + Len(Tail(c)) = Len(b) + Len(c)
    BY <1>1, <1>2
  <2> QED
    BY <1>2, <2>1, <2>2
<1>4. /\ b \o c \in Seq(S)
      /\ Len(b \o c) = Len(b) + Len(c)
      /\ \A i \in 1..(Len(b) + Len(c)) :
             (b \o c)[i] = IF i <= Len(b) THEN b[i] ELSE c[i - Len(b)]
  BY ConcatProperties
<1>5. ASSUME NEW i \in 1..(Len(b) + Len(c))
      PROVE  (Append(b, Head(c)) \o Tail(c))[i] = (b \o c)[i]
  <2>1. CASE i <= Len(b)
    BY <1>2, <1>3, <1>4, <2>1
  <2>2. CASE i = Len(b) + 1
    BY <1>1, <1>2, <1>3, <1>4, <2>2
  <2>3. CASE i > Len(b) + 1
    <3>1. /\ i - (Len(b) + 1) \in 1..Len(Tail(c))
          /\ i - (Len(b) + 1) + 1 = i - Len(b)
      BY <1>1, <1>2, <2>3
    <3>2. Tail(c)[i - (Len(b) + 1)] = c[i - Len(b)]
      BY <1>1, <3>1
    <3> QED
      BY <1>2, <1>3, <1>4, <2>3, <3>2
  <2> QED
    BY <1>2, <2>1, <2>2, <2>3
<1> QED
  BY <1>3, <1>4, <1>5, SeqEqual

LEMMA ConcatSplits ==
    ASSUME NEW S, NEW b \in Seq(S), NEW c \in Seq(S), b # <<>>
    PROVE  /\ Len(b) \in 1..Len(b \o c)
           /\ SubSeq(b \o c, 1, Len(b)) = b
           /\ SubSeq(b \o c, Len(b) + 1, Len(b \o c)) = c
<1>1. /\ Len(b) \in Nat \ {0} /\ Len(c) \in Nat
      /\ Len(b \o c) = Len(b) + Len(c) /\ b \o c \in Seq(S)
  BY EmptySeq, LenProperties, ConcatProperties
<1>2. SubSeq(b \o c, 1, Len(b)) = b
  <2>1. 1 \in 1..Len(b) /\ Len(b) \in 1..Len(b)
    BY <1>1
  <2>2. SubSeq(b \o c, 1, Len(b)) = SubSeq(b, 1, Len(b))
    BY <2>1, SubSeqOfConcat1
  <2> QED
    BY <2>2, SubSeqFull
<1>3. SubSeq(b \o c, Len(b) + 1, Len(b \o c)) = c
  <2>1. CASE c = <<>>
    <3>1. Len(c) = 0
      BY <2>1, EmptySeq
    <3>2. Len(b) + 1 \in Int /\ Len(b \o c) \in Int /\ Len(b \o c) < Len(b) + 1
      BY <1>1, <3>1
    <3>3. SubSeq(b \o c, Len(b) + 1, Len(b \o c)) = <<>>
      BY <3>2, SubSeqEmpty
    <3> QED
      BY <2>1, <3>3
  <2>2. CASE c # <<>>
    <3>1. Len(c) \in Nat \ {0}
      BY <2>2, EmptySeq
    <3>2. /\ Len(b) + 1 \in (Len(b) + 1)..(Len(b) + Len(c))
          /\ Len(b \o c) \in (Len(b) + 1)..(Len(b) + Len(c))
          /\ (Len(b) + 1) - Len(b) = 1 /\ Len(b \o c) - Len(b) = Len(c)
      BY <1>1, <3>1
    <3>3. SubSeq(b \o c, Len(b) + 1, Len(b \o c)) =
              SubSeq(c, (Len(b) + 1) - Len(b), Len(b \o c) - Len(b))
      BY <3>2, SubSeqOfConcat2
    <3>4. SubSeq(c, 1, Len(c)) = c
      BY SubSeqFull
    <3> QED
      BY <3>2, <3>3, <3>4
  <2> QED
    BY <2>1, <2>2
<1> QED
  BY <1>1, <1>2, <1>3

Waiting == [s \in Shards |-> batch[s] \o chan[s]]

LEMMA LogInit == Init => Log!Init
<1> SUFFICES ASSUME Init PROVE Log!Init
  OBVIOUS
<1>1. Waiting = [s \in Shards |-> <<>>]
  <2>1. <<>> \o <<>> = <<>>
    BY ConcatEmptySeq, EmptySeq
  <2> QED
    BY <2>1 DEF Init, Waiting
<1> QED
  BY <1>1 DEF Init, Log!Init, Waiting

\* What was handed over has left its handler.
Handed == \A q \in DOMAIN given : step[given[q]] = "done"

LEMMA HandedInit == Init => Handed
BY EmptySeq DEF Init, Handed

LEMMA HandedNext == ASSUME TypeOK, Handed, [Next]_vars PROVE Handed'
<1>1. ASSUME NEW job \in Jobs, Enqueue(job) \/ WriteInline(job)
      PROVE  Handed'
  <2>1. /\ given' = Append(given, job) /\ step' = [step EXCEPT ![job] = "done"]
        /\ given \in Seq(Jobs)
    BY <1>1 DEF Enqueue, WriteInline, TypeOK
  <2>2. /\ DOMAIN given = 1..Len(given) /\ Len(given) \in Nat
        /\ DOMAIN given' = 1..(Len(given) + 1)
        /\ \A q \in 1..Len(given) : given'[q] = given[q] /\ given[q] \in Jobs
        /\ given'[Len(given) + 1] = job
    BY <2>1, AppendProperties, LenProperties, ElementOfSeq
  <2> QED
    BY <2>1, <2>2 DEF Handed, TypeOK
<1>2. ASSUME given' = given,
             \/ step' = step
             \/ \E job \in Jobs, to \in {"slot", "new", "inline", "gone"} :
                    step[job] # "done" /\ step' = [step EXCEPT ![job] = to]
      PROVE  Handed'
  <2>1. given \in Seq(Jobs)
    BY DEF TypeOK
  <2>2. \A q \in DOMAIN given : given[q] \in Jobs
    BY <2>1, LenProperties, ElementOfSeq
  <2> QED
    BY <1>2, <2>2 DEF Handed, TypeOK
<1>3. ASSUME NEW job \in Jobs,
             \/ HttpReport(job) \/ WsReport(job) \/ TakeSlot(job) \/ GiveUp(job) \/ Refused(job)
      PROVE  /\ given' = given
             /\ \E to \in {"slot", "new", "inline", "gone"} :
                    step[job] # "done" /\ step' = [step EXCEPT ![job] = to]
  BY <1>3 DEF HttpReport, WsReport, Arrive, TakeSlot, GiveUp, Refused
<1>4. ASSUME \/ \E s \in Shards : Work(s)
             \/ Stop \/ Close \/ Exit
             \/ UNCHANGED vars
      PROVE  given' = given /\ step' = step
  BY <1>4 DEF Work, Take, Flush, SeeStop, EndDrain, Stop, Close, Exit, vars, reports
<1> QED
  BY <1>1, <1>2, <1>3, <1>4 DEF Next, Handle

LEMMA NotYetGiven ==
    ASSUME Handed, NEW job \in Jobs, step[job] # "done"
    PROVE  job \notin Log!Given
BY DEF Handed, Log!Given

\* The steps at which no report changes hands.
LEMMA HandlerKeeps ==
    ASSUME NEW job \in Jobs,
           \/ HttpReport(job) \/ WsReport(job) \/ TakeSlot(job) \/ GiveUp(job) \/ Refused(job)
    PROVE  given' = given /\ Waiting' = Waiting /\ writes' = writes
<1>1. UNCHANGED <<chan, batch, writes, given>>
  BY DEF HttpReport, WsReport, Arrive, TakeSlot, GiveUp, Refused, workers
<1> QED
  BY <1>1 DEF Waiting

LEMMA EnqueueAccepts ==
    ASSUME TypeOK, Handed, NEW job \in Jobs, Enqueue(job)
    PROVE  job \in Log!Jobs /\ Log!Accept(job)
<1> DEFINE s == Shard(job)
<1>1. s \in Shards /\ Log!Shard(job) = s /\ job \in Log!Jobs
  BY ShardType DEF Shard, Log!Shard, Jobs, Log!Jobs
<1>2. job \notin Log!Given /\ given' = Append(given, job)
  BY NotYetGiven DEF Enqueue
<1>3. /\ chan' = [chan EXCEPT ![s] = Append(chan[s], job)] /\ batch' = batch
      /\ chan[s] \in Seq(Jobs) /\ batch[s] \in Seq(Jobs)
  BY <1>1 DEF Enqueue, TypeOK
<1>4. batch[s] \o Append(chan[s], job) = Append(batch[s] \o chan[s], job)
  <2>1. \A b, c \in Seq(Jobs), e \in Jobs : b \o Append(c, e) = Append(b \o c, e)
    BY AppendToConcat
  <2> QED
    BY <1>1, <1>3, <2>1, Zenon
<1>5. Waiting' = [Waiting EXCEPT ![s] = Append(@, job)]
  <2>1. \A t \in Shards : Waiting'[t] = IF t = s THEN Append(Waiting[s], job) ELSE Waiting[t]
    BY <1>1, <1>3, <1>4 DEF Waiting, TypeOK
  <2> QED
    BY <1>1, <2>1 DEF Waiting
<1> QED
  BY <1>1, <1>2, <1>5 DEF Enqueue, Log!Accept, Waiting

LEMMA InlineIsDirect ==
    ASSUME TypeOK, Handed, NEW job \in Jobs, WriteInline(job)
    PROVE  job \in Log!Jobs /\ Log!Direct(job)
<1>1. job \in Log!Jobs /\ job \notin Log!Given
  BY NotYetGiven DEF WriteInline, Jobs, Log!Jobs
<1>2. UNCHANGED <<chan, batch>>
  BY DEF WriteInline
<1> QED
  BY <1>1, <1>2 DEF WriteInline, Log!Direct

\* A worker's batch is the front of what its shard has taken.
LEMMA TakeKeeps ==
    ASSUME TypeOK, NEW s \in Shards, Take(s)
    PROVE  given' = given /\ Waiting' = Waiting /\ writes' = writes
<1>1. UNCHANGED <<given, writes>>
  BY DEF Take, reports
<1>2. chan[s] \in Seq(Jobs) /\ chan[s] # <<>> /\ batch[s] \in Seq(Jobs)
  BY DEF Take, TypeOK
<1>3. Append(batch[s], Head(chan[s])) \o Tail(chan[s]) = batch[s] \o chan[s]
  BY <1>2, HeadMoves
<1>4. /\ batch' = [batch EXCEPT ![s] = Append(batch[s], Head(chan[s]))]
      /\ chan' = [chan EXCEPT ![s] = Tail(chan[s])]
  BY DEF Take, Gathered
<1>5. Waiting' = Waiting
  BY <1>3, <1>4 DEF Waiting, TypeOK
<1> QED
  BY <1>1, <1>5

LEMMA WriteEmits ==
    ASSUME TypeOK, NEW s \in Shards, batch[s] # <<>>,
           writes' = Append(writes, batch[s]),
           batch' = [batch EXCEPT ![s] = <<>>],
           UNCHANGED <<given, chan>>,
           NEW n, n = Len(batch[s])
    PROVE  n \in 1..Len(Waiting[s]) /\ Log!Emit(s, n)
<1>1. batch[s] \in Seq(Jobs) /\ chan[s] \in Seq(Jobs)
  BY DEF TypeOK
<1>2. Waiting[s] = batch[s] \o chan[s]
  BY DEF Waiting
<1>3. /\ Len(batch[s]) \in 1..Len(Waiting[s])
      /\ SubSeq(Waiting[s], 1, Len(batch[s])) = batch[s]
      /\ SubSeq(Waiting[s], Len(batch[s]) + 1, Len(Waiting[s])) = chan[s]
  <2>1. /\ Len(batch[s]) \in 1..Len(batch[s] \o chan[s])
        /\ SubSeq(batch[s] \o chan[s], 1, Len(batch[s])) = batch[s]
        /\ SubSeq(batch[s] \o chan[s], Len(batch[s]) + 1, Len(batch[s] \o chan[s])) = chan[s]
    <3>1. \A b, c \in Seq(Jobs) :
              b # <<>> =>
                  /\ Len(b) \in 1..Len(b \o c)
                  /\ SubSeq(b \o c, 1, Len(b)) = b
                  /\ SubSeq(b \o c, Len(b) + 1, Len(b \o c)) = c
      BY ConcatSplits
    <3> QED
      BY <1>1, <3>1, Zenon
  <2> QED
    BY <1>2, <2>1
<1>4. <<>> \o chan[s] = chan[s]
  BY <1>1, ConcatEmptySeq
<1>5. Waiting' = [Waiting EXCEPT ![s] = SubSeq(@, n + 1, Len(@))]
  <2>1. \A t \in Shards : Waiting'[t] = IF t = s THEN chan[s] ELSE Waiting[t]
    BY <1>4 DEF Waiting, TypeOK
  <2> QED
    BY <1>3, <2>1 DEF Waiting
<1> QED
  BY <1>3, <1>5 DEF Log!Emit, Waiting

LEMMA ServerKeeps ==
    ASSUME \/ \E s \in Shards : SeeStop(s)
           \/ Stop \/ Close \/ Exit
           \/ UNCHANGED vars
    PROVE  given' = given /\ Waiting' = Waiting /\ writes' = writes
<1>1. UNCHANGED <<given, chan, batch, writes>>
  BY DEF SeeStop, Stop, Close, Exit, vars, workers, reports
<1> QED
  BY <1>1 DEF Waiting

LEMMA LogNext ==
    ASSUME TypeOK, Handed, [Next]_vars
    PROVE  Log!Next \/ (given' = given /\ Waiting' = Waiting /\ writes' = writes)
<1>1. ASSUME NEW job \in Jobs, Enqueue(job) PROVE Log!Next
  BY <1>1, EnqueueAccepts DEF Log!Next
<1>2. ASSUME NEW job \in Jobs, WriteInline(job) PROVE Log!Next
  BY <1>2, InlineIsDirect DEF Log!Next
<1>3. ASSUME NEW s \in Shards, Flush(s) \/ EndDrain(s)
      PROVE  Log!Next \/ (given' = given /\ Waiting' = Waiting /\ writes' = writes)
  <2>1. UNCHANGED <<given, chan>>
    BY <1>3 DEF Flush, EndDrain, reports
  <2>2. CASE UNCHANGED <<writes, batch>>
    BY <2>1, <2>2 DEF Waiting
  <2>3. CASE /\ batch[s] # <<>>
             /\ writes' = Append(writes, batch[s])
             /\ batch' = [batch EXCEPT ![s] = <<>>]
    <3>1. PICK n : n = Len(batch[s])
      OBVIOUS
    <3>2. n \in 1..Len(Waiting[s]) /\ Log!Emit(s, n)
      BY <2>1, <2>3, <3>1, WriteEmits
    <3> QED
      BY <3>2 DEF Log!Next, Waiting
  <2>4. Due(s) => batch[s] # <<>>
    BY LenProperties, EmptySeq DEF Due, Full, TypeOK
  <2> QED
    BY <1>3, <2>2, <2>3, <2>4 DEF Flush, EndDrain, Flushed
<1> QED
  BY <1>1, <1>2, <1>3, HandlerKeeps, TakeKeeps, ServerKeeps DEF Next, Handle, Work

\* The queue implements HistoryLog: what it takes it writes once and in the
\* shard's order, and what it refuses its caller writes.
THEOREM QueueKeepsPromise == Spec => KeepsPromise
<1>1. TypeOK /\ Handed /\ [Next]_vars => [Log!Next]_<<given, Waiting, writes>>
  BY LogNext
<1>2. TypeOK /\ Handed /\ [Next]_vars => (TypeOK /\ Handed)'
  BY NextType, HandedNext
<1> QED
  BY <1>1, <1>2, LogInit, InitType, HandedInit, PTL DEF Spec, KeepsPromise, Log!Spec, Waiting

-----------------------------------------------------------------------------
(* What HistoryLog promises its readers, the queue gives them.             *)

LogP == INSTANCE HistoryLogProofs
            WITH waiting <- [s \in Shards |-> batch[s] \o chan[s]]

LEMMA SameLog ==
    /\ LogP!Init <=> Log!Init
    /\ [LogP!Next]_<<given, [s \in Shards |-> batch[s] \o chan[s]], writes>>
           <=> [Log!Next]_<<given, [s \in Shards |-> batch[s] \o chan[s]], writes>>
    /\ LogP!WrittenOnce <=> Log!WrittenOnce
    /\ LogP!InOrder <=> Log!InOrder
<1>1. LogP!Init <=> Log!Init
  BY DEF LogP!Init, Log!Init
<1>2. LogP!Next <=> Log!Next
  BY DEF LogP!Next, LogP!Accept, LogP!Direct, LogP!Emit, LogP!Given, LogP!Jobs,
     LogP!Shard, Log!Next, Log!Accept, Log!Direct, Log!Emit, Log!Given,
     Log!Jobs, Log!Shard
<1>3. LogP!WrittenOnce <=> Log!WrittenOnce
  BY DEF LogP!WrittenOnce, Log!WrittenOnce
<1>4. LogP!InOrder <=> Log!InOrder
  BY DEF LogP!InOrder, LogP!LandsBefore, LogP!Shard, Log!InOrder, Log!LandsBefore,
     Log!Shard
<1> QED
  BY <1>1, <1>2, <1>3, <1>4

\* For any buffers, batches and shards, and whatever is refused, flushed or
\* drained when, no report is written twice (queueHistory, run, write).
THEOREM QueueWritesOnce == Spec => []WrittenOnce
BY SameLog, QueueKeepsPromise, LogP!PromiseWritesOnce, PTL
   DEF KeepsPromise, Log!Spec, LogP!Spec, WrittenOnce

\* Nor does a worker's batch land ahead of what Enqueue took for its shard
\* before, however many handlers hand over at once; only a report written alone
\* can (run, queueHistory).
THEOREM QueueKeepsOrder == Spec => []InOrder
BY SameLog, QueueKeepsPromise, LogP!PromiseKeepsOrder, PTL
   DEF KeepsPromise, Log!Spec, LogP!Spec, InOrder
=============================================================================
