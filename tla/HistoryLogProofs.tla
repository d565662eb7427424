---------------------------- MODULE HistoryLogProofs ----------------------------
(***************************************************************************)
(* What the promise of HistoryLog comes to: whatever keeps it writes no     *)
(* report twice, and no batch overtakes what its shard took before.        *)
(***************************************************************************)
EXTENDS HistoryLog, SequenceTheorems, TLAPS

Types == /\ given \in Seq(Jobs)
         /\ waiting \in [Shards -> Seq(Jobs)]
         /\ writes \in Seq(Seq(Jobs))

IsWritten(job) == \E i \in DOMAIN writes : \E j \in DOMAIN writes[i] : writes[i][j] = job
Waits(job) == \E l \in DOMAIN waiting[Shard(job)] : waiting[Shard(job)][l] = job

\* What was handed over waits with its shard or is written, and not both;
\* nothing else is anywhere.
Placed ==
    /\ \A s \in Shards : \A l \in DOMAIN waiting[s] :
           /\ waiting[s][l] \in Given /\ Shard(waiting[s][l]) = s
           /\ ~ IsWritten(waiting[s][l])
    /\ \A i \in DOMAIN writes : \A j \in DOMAIN writes[i] : writes[i][j] \in Given
    /\ \A job \in Given :
           Shard(job) \in Shards => Waits(job) \/ IsWritten(job)

GivenOnce == \A p, q \in DOMAIN given : given[p] = given[q] => p = q

\* A shard's jobs wait in the order in which they were handed over.
Sorted ==
    \A s \in Shards : \A k, l \in DOMAIN waiting[s] : \A p, q \in DOMAIN given :
        k < l /\ given[p] = waiting[s][k] /\ given[q] = waiting[s][l] => p < q

LogInv == Types /\ Placed /\ GivenOnce /\ Sorted /\ WrittenOnce /\ InOrder

-----------------------------------------------------------------------------
(* Sequences, position by position.                                        *)

LEMMA Appended ==
    ASSUME NEW S, NEW seq \in Seq(S), NEW e \in S
    PROVE  /\ Append(seq, e) \in Seq(S)
           /\ DOMAIN seq = 1..Len(seq) /\ Len(seq) \in Nat
           /\ DOMAIN Append(seq, e) = 1..(Len(seq) + 1)
           /\ \A i \in 1..Len(seq) : Append(seq, e)[i] = seq[i]
           /\ Append(seq, e)[Len(seq) + 1] = e
<1>1. /\ Append(seq, e) \in Seq(S) /\ Len(Append(seq, e)) = Len(seq) + 1
      /\ \A i \in 1..Len(seq) : Append(seq, e)[i] = seq[i]
      /\ Append(seq, e)[Len(seq) + 1] = e
  BY AppendProperties
<1> QED
  BY <1>1, LenProperties

LEMMA Front ==
    ASSUME NEW S, NEW seq \in Seq(S), NEW n \in 1..Len(seq)
    PROVE  /\ SubSeq(seq, 1, n) \in Seq(S)
           /\ Len(SubSeq(seq, 1, n)) = n
           /\ DOMAIN SubSeq(seq, 1, n) = 1..n
           /\ \A i \in 1..n : SubSeq(seq, 1, n)[i] = seq[i]
           /\ SubSeq(seq, n + 1, Len(seq)) \in Seq(S)
           /\ DOMAIN SubSeq(seq, n + 1, Len(seq)) = 1..(Len(seq) - n)
           /\ \A i \in 1..(Len(seq) - n) :
                  SubSeq(seq, n + 1, Len(seq))[i] = seq[n + i]
<1>1. Len(seq) \in Nat /\ DOMAIN seq = 1..Len(seq)
  BY LenProperties
<1>2. \A i \in 1..n : seq[i] \in S
  BY <1>1, ElementOfSeq
<1>3. \A i \in (n + 1)..Len(seq) : seq[i] \in S
  BY <1>1, ElementOfSeq
<1>4. /\ SubSeq(seq, 1, n) \in Seq(S)
      /\ Len(SubSeq(seq, 1, n)) = n
      /\ \A i \in 1..n : SubSeq(seq, 1, n)[i] = seq[i]
  <2>1. /\ SubSeq(seq, 1, n) \in Seq(S)
        /\ Len(SubSeq(seq, 1, n)) = IF 1 <= n THEN n - 1 + 1 ELSE 0
        /\ \A i \in 1..(n - 1 + 1) : SubSeq(seq, 1, n)[i] = seq[1 + i - 1]
    BY <1>1, <1>2, SubSeqProperties
  <2> QED
    BY <1>1, <2>1
<1>5. /\ SubSeq(seq, n + 1, Len(seq)) \in Seq(S)
      /\ Len(SubSeq(seq, n + 1, Len(seq))) = Len(seq) - n
      /\ \A i \in 1..(Len(seq) - n) :
             SubSeq(seq, n + 1, Len(seq))[i] = seq[n + i]
  <2>1. /\ SubSeq(seq, n + 1, Len(seq)) \in Seq(S)
        /\ Len(SubSeq(seq, n + 1, Len(seq))) =
               IF n + 1 <= Len(seq) THEN Len(seq) - (n + 1) + 1 ELSE 0
        /\ \A i \in 1..(Len(seq) - (n + 1) + 1) :
               SubSeq(seq, n + 1, Len(seq))[i] = seq[n + 1 + i - 1]
    BY <1>1, <1>3, SubSeqProperties
  <2> QED
    BY <1>1, <2>1
<1>6. /\ DOMAIN SubSeq(seq, 1, n) = 1..Len(SubSeq(seq, 1, n))
      /\ DOMAIN SubSeq(seq, n + 1, Len(seq)) = 1..Len(SubSeq(seq, n + 1, Len(seq)))
  BY <1>4, <1>5, LenProperties
<1> QED
  BY <1>4, <1>5, <1>6

-----------------------------------------------------------------------------
(* One more write.                                                         *)

LEMMA Grown ==
    ASSUME Types, NEW b \in Seq(Jobs), writes' = Append(writes, b)
    PROVE  /\ writes' \in Seq(Seq(Jobs))
           /\ Len(writes) \in Nat /\ DOMAIN writes = 1..Len(writes)
           /\ DOMAIN writes' = 1..(Len(writes) + 1)
           /\ \A i \in DOMAIN writes : writes'[i] = writes[i]
           /\ writes'[Len(writes) + 1] = b
BY Appended DEF Types

LEMMA WrittenGrows ==
    ASSUME Types, NEW b \in Seq(Jobs), writes' = Append(writes, b), NEW job
    PROVE  IsWritten(job)' <=> IsWritten(job) \/ \E j \in DOMAIN b : b[j] = job
<1>1. /\ DOMAIN writes' = DOMAIN writes \cup {Len(writes) + 1}
      /\ \A i \in DOMAIN writes : writes'[i] = writes[i]
      /\ writes'[Len(writes) + 1] = b
  BY Grown
<1>2. ASSUME NEW i \in DOMAIN writes', NEW j \in DOMAIN writes'[i], writes'[i][j] = job
      PROVE  IsWritten(job) \/ \E l \in DOMAIN b : b[l] = job
  BY <1>1, <1>2, Zenon DEF IsWritten
<1>3. ASSUME NEW i \in DOMAIN writes, NEW j \in DOMAIN writes[i], writes[i][j] = job
      PROVE  IsWritten(job)'
  BY <1>1, <1>3, Zenon DEF IsWritten
<1>4. ASSUME NEW j \in DOMAIN b, b[j] = job
      PROVE  IsWritten(job)'
  BY <1>1, <1>4, Zenon DEF IsWritten
<1> QED
  BY <1>2, <1>3, <1>4, Zenon DEF IsWritten

\* What is written anew must be there once and be written nowhere else.
LEMMA OnceGrows ==
    ASSUME Types, WrittenOnce, NEW b \in Seq(Jobs), writes' = Append(writes, b),
           \A j, l \in DOMAIN b : b[j] = b[l] => j = l,
           \A j \in DOMAIN b : ~ IsWritten(b[j])
    PROVE  WrittenOnce'
<1> SUFFICES ASSUME NEW i \in DOMAIN writes', NEW k \in DOMAIN writes',
                    NEW j \in DOMAIN writes'[i], NEW l \in DOMAIN writes'[k],
                    writes'[i][j] = writes'[k][l]
             PROVE  i = k /\ j = l
  BY DEF WrittenOnce
<1>1. /\ \/ i \in DOMAIN writes /\ writes'[i] = writes[i]
         \/ i = Len(writes) + 1 /\ writes'[i] = b
      /\ \/ k \in DOMAIN writes /\ writes'[k] = writes[k]
         \/ k = Len(writes) + 1 /\ writes'[k] = b
  BY Grown
<1>2. CASE i \in DOMAIN writes /\ writes'[i] = writes[i]
  <2>1. CASE k \in DOMAIN writes /\ writes'[k] = writes[k]
    BY <1>2, <2>1 DEF WrittenOnce
  <2>2. CASE k = Len(writes) + 1 /\ writes'[k] = b
    <3>1. IsWritten(b[l])
      BY <1>2, <2>2, Zenon DEF IsWritten
    <3> QED
      BY <2>2, <3>1
  <2> QED
    BY <1>1, <2>1, <2>2
<1>3. CASE i = Len(writes) + 1 /\ writes'[i] = b
  <2>1. CASE k \in DOMAIN writes /\ writes'[k] = writes[k]
    <3>1. IsWritten(b[j])
      BY <1>3, <2>1, Zenon DEF IsWritten
    <3> QED
      BY <1>3, <3>1
  <2>2. CASE k = Len(writes) + 1 /\ writes'[k] = b
    BY <1>3, <2>2
  <2> QED
    BY <1>1, <2>1, <2>2
<1> QED
  BY <1>1, <1>2, <1>3

-----------------------------------------------------------------------------
(* One more job handed over, and the order of the writes.                  *)

\* What was handed over keeps its place, and what comes new is not written.
Kept == /\ \A q \in DOMAIN given : \A p \in 1..q :
               p \in DOMAIN given /\ p \in DOMAIN given' /\ given'[p] = given[p]
        /\ \A q \in DOMAIN given' : q \in DOMAIN given \/ ~ IsWritten(given'[q])

LEMMA GivenGrows ==
    ASSUME Types, NEW job \in Jobs, given' = Append(given, job)
    PROVE  /\ given' \in Seq(Jobs)
           /\ Len(given) \in Nat /\ DOMAIN given = 1..Len(given)
           /\ DOMAIN given' = 1..(Len(given) + 1)
           /\ \A q \in DOMAIN given : given'[q] = given[q]
           /\ given'[Len(given) + 1] = job
           /\ Given' = Given \cup {job}
<1>1. /\ given' \in Seq(Jobs)
      /\ Len(given) \in Nat /\ DOMAIN given = 1..Len(given)
      /\ DOMAIN given' = 1..(Len(given) + 1)
      /\ \A q \in DOMAIN given : given'[q] = given[q]
      /\ given'[Len(given) + 1] = job
  BY Appended DEF Types
<1>2. DOMAIN given' = DOMAIN given \cup {Len(given) + 1}
  BY <1>1
<1>3. Given' = Given \cup {job}
  <2>1. \A e : e \in Given <=> \E q \in DOMAIN given : given[q] = e
    BY DEF Given
  <2>2. \A e : e \in Given' <=> \E q \in DOMAIN given' : given'[q] = e
    BY DEF Given
  <2>3. \A e : e \in Given' <=> e \in Given \/ e = job
    BY <1>1, <1>2, <2>1, <2>2, Zenon
  <2> QED
    BY <2>3
<1> QED
  BY <1>1, <1>3

\* A job that is new waits nowhere and is not written; it takes the last place.
LEMMA NewIsKept ==
    ASSUME Types, Placed, GivenOnce, NEW job \in Jobs, job \notin Given,
           given' = Append(given, job)
    PROVE  Kept /\ GivenOnce' /\ ~ IsWritten(job)
<1> DEFINE N == Len(given)
<1>1. /\ N \in Nat /\ DOMAIN given = 1..N /\ DOMAIN given' = 1..(N + 1)
      /\ \A q \in DOMAIN given : given'[q] = given[q]
      /\ given'[N + 1] = job
  BY GivenGrows
<1>2. \A q \in DOMAIN given : given[q] # job
  BY Zenon DEF Given
<1>3. ~ IsWritten(job)
  BY DEF Placed, IsWritten
<1> HIDE DEF N
<1>4. Kept
  <2>1. ASSUME NEW q \in DOMAIN given, NEW p \in 1..q
        PROVE  p \in DOMAIN given /\ p \in DOMAIN given' /\ given'[p] = given[p]
    BY <1>1
  <2>2. ASSUME NEW q \in DOMAIN given'
        PROVE  q \in DOMAIN given \/ ~ IsWritten(given'[q])
    BY <1>1, <1>3
  <2> QED
    BY <2>1, <2>2 DEF Kept
<1>5. GivenOnce'
  <2> SUFFICES ASSUME NEW p \in DOMAIN given', NEW q \in DOMAIN given',
                      given'[p] = given'[q]
               PROVE  p = q
    BY DEF GivenOnce
  <2>1. CASE p \in DOMAIN given /\ q \in DOMAIN given
    BY <1>1, <2>1 DEF GivenOnce
  <2>2. CASE p \notin DOMAIN given \/ q \notin DOMAIN given
    BY <1>1, <1>2, <2>2
  <2> QED
    BY <2>1, <2>2
<1> QED
  BY <1>3, <1>4, <1>5

\* In a write of several, what its shard took before must be written or stand
\* before.
LEMMA OrderGrows ==
    ASSUME Types, InOrder, Kept, NEW b \in Seq(Jobs), writes' = Append(writes, b),
           Len(b) > 1 =>
               \A j \in DOMAIN b : \A q \in DOMAIN given' : \A p \in 1..(q - 1) :
                   given'[q] = b[j] /\ Shard(given'[p]) = Shard(given'[q]) =>
                       \/ IsWritten(given'[p])
                       \/ \E l \in DOMAIN b : l < j /\ b[l] = given'[p]
    PROVE  InOrder'
<1> SUFFICES ASSUME NEW i \in DOMAIN writes', NEW j \in DOMAIN writes'[i],
                    NEW q \in DOMAIN given',
                    Len(writes'[i]) > 1, given'[q] = writes'[i][j],
                    NEW p \in 1..(q - 1), Shard(given'[p]) = Shard(given'[q]),
                    NEW job, job = given'[p]
             PROVE  LandsBefore(job, i, j)'
  BY Zenon DEF InOrder, Shard
<1>1. CASE i \in DOMAIN writes
  <2>1. writes'[i] = writes[i] /\ \A k \in 1..i : writes'[k] = writes[k]
    BY <1>1, Grown
  <2>2. j \in DOMAIN writes[i] /\ Len(writes[i]) > 1 /\ IsWritten(given'[q])
    BY <1>1, <2>1 DEF IsWritten
  <2>3. q \in DOMAIN given /\ q \in Nat
    BY <2>2, LenProperties DEF Kept, Types
  <2>4. given[q] = given'[q] /\ given[p] = given'[p]
    <3>1. q \in 1..q /\ p \in 1..q
      BY <2>3, LenProperties DEF Types
    <3> QED
      BY <2>3, <3>1, Zenon DEF Kept
  <2>5. LandsBefore(given[p], i, j)
    BY <1>1, <2>1, <2>2, <2>3, <2>4, Zenon DEF InOrder
  <2> QED
    BY <2>1, <2>4, <2>5 DEF LandsBefore
<1>2. CASE i \notin DOMAIN writes
  <2>1. i = Len(writes) + 1 /\ writes'[i] = b
    BY <1>2, Grown
  <2>2. IsWritten(job) \/ \E l \in DOMAIN b : l < j /\ b[l] = job
    BY <2>1
  <2>3. CASE IsWritten(job)
    <3>1. PICK k \in DOMAIN writes : \E l \in DOMAIN writes[k] : writes[k][l] = job
      BY <2>3 DEF IsWritten
    <3>2. k \in 1..i /\ k < i /\ writes'[k] = writes[k]
      BY <2>1, <3>1, Grown
    <3> QED
      BY <2>1, <3>1, <3>2 DEF LandsBefore
  <2>4. CASE \E l \in DOMAIN b : l < j /\ b[l] = job
    <3>1. i \in 1..i
      BY <2>1, Grown
    <3> QED
      BY <2>1, <2>4, <3>1 DEF LandsBefore
  <2> QED
    BY <2>2, <2>3, <2>4
<1> QED
  BY <1>1, <1>2

LEMMA OrderStays == ASSUME Types, InOrder, Kept, UNCHANGED writes PROVE InOrder'
<1> SUFFICES ASSUME NEW i \in DOMAIN writes', NEW j \in DOMAIN writes'[i],
                    NEW q \in DOMAIN given',
                    Len(writes'[i]) > 1, given'[q] = writes'[i][j],
                    NEW p \in 1..(q - 1), Shard(given'[p]) = Shard(given'[q]),
                    NEW job, job = given'[p]
             PROVE  LandsBefore(job, i, j)'
  BY Zenon DEF InOrder, Shard
<1>1. i \in DOMAIN writes /\ j \in DOMAIN writes[i] /\ Len(writes[i]) > 1
      /\ IsWritten(given'[q])
  BY DEF IsWritten
<1>2. q \in DOMAIN given /\ q \in Nat
  BY <1>1, LenProperties DEF Kept, Types
<1>3. given[q] = given'[q] /\ given[p] = given'[p]
  <2>1. q \in 1..q /\ p \in 1..q
    BY <1>2, LenProperties DEF Types
  <2> QED
    BY <1>2, <2>1, Zenon DEF Kept
<1>4. LandsBefore(given[p], i, j)
  BY <1>1, <1>2, <1>3, Zenon DEF InOrder
<1> QED
  BY <1>3, <1>4 DEF LandsBefore

\* What waits is handed over already, and keeps its place there.
LEMMA SortedStays ==
    ASSUME Types, Placed, Sorted, NEW job \in Jobs, job \notin Given,
           given' = Append(given, job), waiting' = waiting
    PROVE  Sorted'
<1> SUFFICES ASSUME NEW s \in Shards, NEW k \in DOMAIN waiting[s],
                    NEW l \in DOMAIN waiting[s],
                    NEW p \in DOMAIN given', NEW q \in DOMAIN given',
                    k < l, given'[p] = waiting[s][k], given'[q] = waiting[s][l]
             PROVE  p < q
  BY DEF Sorted
<1>1. waiting[s][k] \in Given /\ waiting[s][l] \in Given
  BY DEF Placed
<1>2. /\ p \in DOMAIN given /\ given[p] = waiting[s][k]
      /\ q \in DOMAIN given /\ given[q] = waiting[s][l]
  BY <1>1, GivenGrows
<1> QED
  BY <1>2 DEF Sorted

-----------------------------------------------------------------------------
(* The steps.                                                              *)

LEMMA InitLog == Init => LogInv
<1> SUFFICES ASSUME Init PROVE LogInv
  OBVIOUS
<1>1. <<>> \in Seq(Jobs) /\ <<>> \in Seq(Seq(Jobs)) /\ DOMAIN <<>> = {}
  BY EmptySeq
<1>2. Types
  BY <1>1 DEF Init, Types
<1>3. Placed /\ GivenOnce /\ Sorted
  BY <1>1 DEF Init, Placed, GivenOnce, Sorted, Given
<1>4. WrittenOnce /\ InOrder
  BY <1>1 DEF Init, WrittenOnce, InOrder
<1> QED
  BY <1>2, <1>3, <1>4 DEF LogInv

LEMMA AcceptKeeps ==
    ASSUME LogInv, NEW job \in Jobs, Accept(job)
    PROVE  LogInv'
<1> DEFINE s == Shard(job)
<1>1. /\ given' = Append(given, job) /\ writes' = writes /\ job \notin Given
      /\ waiting' = [waiting EXCEPT ![s] = Append(waiting[s], job)]
  BY DEF Accept
<1>2. Types /\ Placed /\ GivenOnce /\ Sorted /\ WrittenOnce /\ InOrder
  BY DEF LogInv
<1>a. Given' = Given \cup {job} /\ given' \in Seq(Jobs)
  BY <1>1, <1>2, GivenGrows
<1>b. Kept /\ GivenOnce' /\ ~ IsWritten(job)
  BY <1>1, <1>2, NewIsKept
<1>3. WrittenOnce' /\ InOrder' /\ \A j : IsWritten(j)' <=> IsWritten(j)
  <2>1. writes' = writes /\ WrittenOnce /\ InOrder
    BY <1>1, <1>2
  <2>2. WrittenOnce'
    BY <2>1 DEF WrittenOnce
  <2>3. InOrder'
    BY <1>2, <1>b, <2>1, OrderStays
  <2>4. ASSUME NEW j PROVE IsWritten(j)' <=> IsWritten(j)
    BY <2>1 DEF IsWritten
  <2> QED
    BY <2>2, <2>3, <2>4
<1>5. CASE s \notin Shards
  <2>1. waiting' = waiting
    BY <1>1, <1>2, <1>5 DEF Types
  <2>2. Types' /\ Sorted'
    BY <1>1, <1>2, <1>a, <2>1, SortedStays DEF Types
  <2>3. Placed'
    <3>1. ASSUME NEW t \in Shards, NEW l \in DOMAIN waiting[t], NEW j, j = waiting[t][l]
          PROVE  j \in Given' /\ Shard(j) = t /\ ~ IsWritten(j)'
      BY <1>2, <1>3, <1>a, <3>1 DEF Placed
    <3>2. \A i \in DOMAIN writes' : \A j \in DOMAIN writes'[i] : writes'[i][j] \in Given'
      BY <1>1, <1>2, <1>a DEF Placed
    <3>3. ASSUME NEW j \in Given', Shard(j) \in Shards
          PROVE  Waits(j)' \/ IsWritten(j)'
      <4>1. j \in Given
        BY <1>5, <1>a, <3>3
      <4>2. Waits(j) \/ IsWritten(j)
        BY <1>2, <3>3, <4>1 DEF Placed
      <4> QED
        BY <1>3, <2>1, <4>2 DEF Waits, Shard
    <3> QED
      BY <2>1, <3>1, <3>2, <3>3 DEF Placed, Shard
  <2> QED
    BY <1>3, <1>b, <2>2, <2>3 DEF LogInv
<1>6. CASE s \in Shards
  <2> DEFINE old == waiting[s]
             L == Len(old)
  <2>1. old \in Seq(Jobs)
    BY <1>2, <1>6 DEF Types
  <2>2. /\ Append(old, job) \in Seq(Jobs)
        /\ DOMAIN old = 1..L /\ L \in Nat
        /\ DOMAIN Append(old, job) = 1..(L + 1)
        /\ \A i \in 1..L : Append(old, job)[i] = old[i]
        /\ Append(old, job)[L + 1] = job
    BY <2>1, Appended
  <2>3. waiting'[s] = Append(old, job) /\ \A t \in Shards \ {s} : waiting'[t] = waiting[t]
    BY <1>1, <1>2, <1>6 DEF Types
  <2>4. Types'
    BY <1>1, <1>2, <1>a, <1>6, <2>2 DEF Types
  <2>5. ASSUME NEW t \in Shards, NEW l \in DOMAIN waiting'[t]
        PROVE  \/ l \in DOMAIN waiting[t] /\ waiting'[t][l] = waiting[t][l]
               \/ t = s /\ l = L + 1 /\ waiting'[t][l] = job
    BY <2>2, <2>3
  <2>7. ASSUME NEW t \in Shards, NEW l \in DOMAIN waiting[t]
        PROVE  l \in DOMAIN waiting'[t] /\ waiting'[t][l] = waiting[t][l]
    BY <2>2, <2>3
  <2>8. Placed'
    <3>1. ASSUME NEW t \in Shards, NEW l \in DOMAIN waiting'[t],
                 NEW j, j = waiting'[t][l]
          PROVE  j \in Given' /\ Shard(j) = t /\ ~ IsWritten(j)'
      <4>1. CASE l \in DOMAIN waiting[t] /\ j = waiting[t][l]
        <5>1. j \in Given /\ Shard(j) = t /\ ~ IsWritten(j)
          BY <1>2, <4>1 DEF Placed
        <5> QED
          BY <1>3, <1>a, <5>1
      <4>2. CASE t = s /\ j = job
        BY <1>3, <1>a, <1>b, <4>2
      <4> QED
        BY <2>5, <3>1, <4>1, <4>2
    <3>2. \A i \in DOMAIN writes' : \A j \in DOMAIN writes'[i] : writes'[i][j] \in Given'
      BY <1>1, <1>2, <1>a DEF Placed
    <3>3. ASSUME NEW j \in Given', Shard(j) \in Shards
          PROVE  Waits(j)' \/ IsWritten(j)'
      <4>1. CASE j = job
        <5>1. L + 1 \in DOMAIN waiting'[s] /\ waiting'[s][L + 1] = job
          BY <2>2, <2>3
        <5> QED
          BY <4>1, <5>1 DEF Waits
      <4>2. CASE j \in Given
        BY <1>2, <1>3, <2>7, <3>3, <4>2 DEF Placed, Waits
      <4> QED
        BY <1>a, <3>3, <4>1, <4>2
    <3> QED
      BY <3>1, <3>2, <3>3 DEF Placed, Shard
  <2>9. Sorted'
    <3>0. /\ Len(given) \in Nat /\ DOMAIN given = 1..Len(given)
          /\ DOMAIN given' = 1..(Len(given) + 1)
          /\ \A q \in DOMAIN given : given'[q] = given[q]
          /\ given'[Len(given) + 1] = job
      BY <1>1, <1>2, GivenGrows
    <3>1. ASSUME NEW t \in Shards, NEW k \in DOMAIN waiting'[t], NEW l \in DOMAIN waiting'[t],
                 NEW p \in DOMAIN given', NEW q \in DOMAIN given',
                 k < l, given'[p] = waiting'[t][k], given'[q] = waiting'[t][l]
          PROVE  p < q
      <4>1. CASE l \in DOMAIN waiting[t] /\ waiting'[t][l] = waiting[t][l]
        <5>1. k \in DOMAIN waiting[t] /\ waiting'[t][k] = waiting[t][k]
          BY <2>2, <2>5, <3>1, <4>1
        <5>2. waiting[t][k] \in Given /\ waiting[t][l] \in Given
          BY <1>2, <4>1, <5>1 DEF Placed
        <5>3. /\ p \in DOMAIN given /\ given[p] = waiting[t][k]
              /\ q \in DOMAIN given /\ given[q] = waiting[t][l]
          BY <1>1, <3>0, <3>1, <4>1, <5>1, <5>2
        <5> QED
          BY <1>2, <3>1, <4>1, <5>1, <5>3 DEF Sorted
      <4>2. CASE t = s /\ l = L + 1 /\ waiting'[t][l] = job
        <5>1. k \in DOMAIN old /\ waiting'[t][k] = old[k]
          BY <2>2, <2>3, <3>1, <4>2
        <5>2. old[k] \in Given
          BY <1>2, <1>6, <5>1 DEF Placed
        <5>3. p \in DOMAIN given
          BY <1>1, <3>0, <3>1, <4>2, <5>1, <5>2
        <5>4. q \notin DOMAIN given
          <6>1. \A r \in DOMAIN given : given[r] # job
            BY <1>1, Zenon DEF Given
          <6> QED
            BY <3>0, <3>1, <4>2, <6>1
        <5> QED
          BY <3>0, <5>3, <5>4
      <4> QED
        BY <2>5, <4>1, <4>2
    <3> QED
      BY <3>1 DEF Sorted
  <2> QED
    BY <1>3, <1>b, <2>4, <2>8, <2>9 DEF LogInv
<1> QED
  BY <1>5, <1>6

LEMMA DirectKeeps ==
    ASSUME LogInv, NEW job \in Jobs, Direct(job)
    PROVE  LogInv'
<1>1. /\ given' = Append(given, job) /\ waiting' = waiting /\ job \notin Given
      /\ writes' = Append(writes, <<job>>)
  BY DEF Direct
<1> DEFINE b == <<job>>
<1>2. Types /\ Placed /\ GivenOnce /\ Sorted /\ WrittenOnce /\ InOrder
  BY DEF LogInv
<1>a. Given' = Given \cup {job} /\ given' \in Seq(Jobs)
  BY <1>1, <1>2, GivenGrows
<1>3. /\ writes' = Append(writes, b)
      /\ b \in Seq(Jobs) /\ DOMAIN b = {1} /\ b[1] = job /\ Len(b) = 1
  BY <1>1
<1> HIDE DEF b
<1>4. Kept /\ GivenOnce' /\ ~ IsWritten(job)
  BY <1>1, <1>2, NewIsKept
<1>5. WrittenOnce' /\ InOrder'
  <2>1. WrittenOnce'
    BY <1>2, <1>3, <1>4, OnceGrows
  <2>2. InOrder'
    <3>1. ~ Len(b) > 1
      BY <1>3
    <3>2. Len(b) > 1 =>
              \A j \in DOMAIN b : \A q \in DOMAIN given' : \A p \in 1..(q - 1) :
                  given'[q] = b[j] /\ Shard(given'[p]) = Shard(given'[q]) =>
                      \/ IsWritten(given'[p])
                      \/ \E l \in DOMAIN b : l < j /\ b[l] = given'[p]
      BY <3>1, Zenon
    <3> QED
      BY <1>2, <1>3, <1>4, <3>2, OrderGrows
  <2> QED
    BY <2>1, <2>2
<1>6. \A j : IsWritten(j)' <=> IsWritten(j) \/ j = job
  <2>1. ASSUME NEW j PROVE IsWritten(j)' <=> IsWritten(j) \/ \E l \in DOMAIN b : b[l] = j
    BY <1>2, <1>3, WrittenGrows
  <2> QED
    BY <1>3, <2>1
<1>7. Types'
  BY <1>1, <1>2, <1>3, <1>a, Grown DEF Types
<1>8. Sorted'
  BY <1>1, <1>2, SortedStays
<1>9. Placed'
  <2>1. ASSUME NEW t \in Shards, NEW l \in DOMAIN waiting[t], NEW j, j = waiting[t][l]
        PROVE  j \in Given' /\ Shard(j) = t /\ ~ IsWritten(j)'
    <3>1. j \in Given /\ Shard(j) = t /\ ~ IsWritten(j)
      BY <1>2, <2>1 DEF Placed
    <3> QED
      BY <1>1, <1>6, <1>a, <3>1
  <2>2. ASSUME NEW i \in DOMAIN writes', NEW j \in DOMAIN writes'[i]
        PROVE  writes'[i][j] \in Given'
    <3>1. \/ i \in DOMAIN writes /\ writes'[i] = writes[i]
          \/ writes'[i] = b
      BY <1>1, <1>2, <1>3, Grown
    <3> QED
      BY <1>2, <1>3, <1>a, <3>1 DEF Placed
  <2>3. ASSUME NEW j \in Given', Shard(j) \in Shards
        PROVE  Waits(j)' \/ IsWritten(j)'
    <3>1. j \in Given => Waits(j) \/ IsWritten(j)
      BY <1>2, <2>3 DEF Placed
    <3>2. Waits(j) => Waits(j)'
      BY <1>1 DEF Waits, Shard
    <3> QED
      BY <1>6, <1>a, <2>3, <3>1, <3>2
  <2> QED
    BY <1>1, <2>1, <2>2, <2>3 DEF Placed, Shard
<1> QED
  BY <1>4, <1>5, <1>7, <1>8, <1>9 DEF LogInv

LEMMA EmitKeeps ==
    ASSUME LogInv, NEW s \in Shards, NEW n \in 1..Len(waiting[s]), Emit(s, n)
    PROVE  LogInv'
<1> DEFINE old == waiting[s]
           b == SubSeq(old, 1, n)
           rest == SubSeq(old, n + 1, Len(old))
<1>1. /\ given' = given /\ writes' = Append(writes, b)
      /\ waiting' = [waiting EXCEPT ![s] = rest]
  BY DEF Emit
<1>2. Types /\ Placed /\ GivenOnce /\ Sorted /\ WrittenOnce /\ InOrder
  BY DEF LogInv
<1>b. Given' = Given /\ Kept /\ given \in Seq(Jobs) /\ DOMAIN given = 1..Len(given)
      /\ Len(given) \in Nat
  <2>1. given \in Seq(Jobs) /\ DOMAIN given = 1..Len(given) /\ Len(given) \in Nat
    BY <1>2, LenProperties DEF Types
  <2> QED
    BY <1>1, <2>1 DEF Given, Kept
<1>3. old \in Seq(Jobs) /\ Len(old) \in Nat /\ DOMAIN old = 1..Len(old)
  BY <1>2, LenProperties DEF Types
<1>4. /\ b \in Seq(Jobs) /\ Len(b) = n /\ DOMAIN b = 1..n
      /\ \A i \in 1..n : b[i] = old[i]
      /\ rest \in Seq(Jobs) /\ DOMAIN rest = 1..(Len(old) - n)
      /\ \A i \in 1..(Len(old) - n) : rest[i] = old[n + i]
  <2>1. n \in 1..Len(old)
    OBVIOUS
  <2> HIDE DEF old
  <2>2. /\ SubSeq(old, 1, n) \in Seq(Jobs)
        /\ Len(SubSeq(old, 1, n)) = n
        /\ DOMAIN SubSeq(old, 1, n) = 1..n
        /\ \A i \in 1..n : SubSeq(old, 1, n)[i] = old[i]
        /\ SubSeq(old, n + 1, Len(old)) \in Seq(Jobs)
        /\ DOMAIN SubSeq(old, n + 1, Len(old)) = 1..(Len(old) - n)
        /\ \A i \in 1..(Len(old) - n) :
               SubSeq(old, n + 1, Len(old))[i] = old[n + i]
    BY <1>3, <2>1, Front, Zenon
  <2> QED
    BY <2>2, Zenon
<1>5. waiting'[s] = rest /\ \A t \in Shards \ {s} : waiting'[t] = waiting[t]
  BY <1>1, <1>2 DEF Types
<1>6. \A l \in DOMAIN old : old[l] \in Given /\ Shard(old[l]) = s /\ ~ IsWritten(old[l])
  BY <1>2 DEF Placed
<1>a. n \in 1..Len(old)
  OBVIOUS
<1> HIDE DEF old, b, rest
<1>0. /\ DOMAIN b \subseteq DOMAIN old
      /\ \A i \in DOMAIN b : b[i] = old[i]
      /\ \A i \in DOMAIN rest : n + i \in DOMAIN old /\ rest[i] = old[n + i]
  <2>1. DOMAIN b \subseteq DOMAIN old
    BY <1>3, <1>4, <1>a
  <2>2. \A i \in DOMAIN b : b[i] = old[i]
    BY <1>4
  <2>3. \A i \in DOMAIN rest : n + i \in DOMAIN old /\ rest[i] = old[n + i]
    BY <1>3, <1>4, <1>a
  <2> QED
    BY <2>1, <2>2, <2>3
\* Two places of a shard's sequence hold different jobs.
<1>7. ASSUME NEW k \in DOMAIN old, NEW l \in DOMAIN old, old[k] = old[l]
      PROVE  k = l
  <2>1. PICK p \in DOMAIN given : given[p] = old[k]
    BY <1>6 DEF Given
  <2>2. ~ (k < l) /\ ~ (l < k)
    <3>1. ~ (p < p)
      BY <1>b
    <3> QED
      BY <1>2, <1>7, <2>1, <3>1 DEF Sorted, old
  <2> QED
    BY <1>3, <2>2
<1>8. \A j : IsWritten(j)' <=> IsWritten(j) \/ \E i \in DOMAIN b : b[i] = j
  BY <1>1, <1>2, <1>4, WrittenGrows
<1>9. WrittenOnce'
  <2>1. \A j, l \in DOMAIN b : b[j] = b[l] => j = l
    BY <1>a, <1>0, <1>7
  <2>2. \A j \in DOMAIN b : ~ IsWritten(b[j])
    BY <1>a, <1>0, <1>6
  <2> QED
    BY <1>1, <1>2, <1>4, <2>1, <2>2, OnceGrows
<1>10. ASSUME NEW j \in DOMAIN b, NEW q \in DOMAIN given, NEW p \in 1..(q - 1),
              given[q] = b[j], Shard(given[p]) = Shard(given[q]),
              NEW e, e = given[p]
       PROVE  \/ IsWritten(e)
              \/ \E l \in DOMAIN b : l < j /\ b[l] = e
  <2>1. j \in DOMAIN old /\ given[q] = old[j]
    BY <1>a, <1>0, <1>10
  <2>2. p \in DOMAIN given /\ p < q /\ p # q
    BY <1>b
  <2>3. e \in Given /\ Shard(e) = s
    BY <1>6, <1>10, <2>1, <2>2 DEF Given
  <2>4. Waits(e) \/ IsWritten(e)
    BY <1>2, <2>3 DEF Placed
  <2>5. ASSUME Waits(e)
        PROVE  \E l \in DOMAIN b : l < j /\ b[l] = e
    <3>1. PICK l \in DOMAIN old : old[l] = e
      BY <2>3, <2>5 DEF Waits, old
    <3>2. ~ (j < l)
      <4>1. ~ (q < p)
        BY <1>b, <2>2
      <4> QED
        BY <1>2, <1>10, <2>1, <2>2, <3>1, <4>1 DEF Sorted, old
    <3>3. j # l
      BY <1>2, <1>10, <2>1, <2>2, <3>1 DEF GivenOnce
    <3>4. l < j /\ l \in DOMAIN b /\ b[l] = old[l]
      BY <1>3, <1>4, <2>1, <3>1, <3>2, <3>3
    <3> QED
      BY <3>1, <3>4
  <2> QED
    BY <2>4, <2>5
<1>11. InOrder'
  <2>1. \A j \in DOMAIN b : \A q \in DOMAIN given' : \A p \in 1..(q - 1) :
            given'[q] = b[j] /\ Shard(given'[p]) = Shard(given'[q]) =>
                \/ IsWritten(given'[p])
                \/ \E l \in DOMAIN b : l < j /\ b[l] = given'[p]
    <3> TAKE j \in DOMAIN b
    <3> TAKE q \in DOMAIN given'
    <3> TAKE p \in 1..(q - 1)
    <3> HAVE given'[q] = b[j] /\ Shard(given'[p]) = Shard(given'[q])
    <3>1. q \in DOMAIN given /\ given'[q] = given[q] /\ given'[p] = given[p]
      BY <1>1
    <3> QED
      BY <1>10, <3>1
  <2>2. Types /\ InOrder /\ Kept
    BY <1>2, <1>b
  <2>3. b \in Seq(Jobs) /\ writes' = Append(writes, b)
    BY <1>1, <1>4
  <2> QED
    BY <2>1, <2>2, <2>3, OrderGrows, Zenon
<1>12. Types'
  BY <1>1, <1>2, <1>4, <1>b, Grown DEF Types
<1>13. ASSUME NEW t \in Shards, NEW l \in DOMAIN waiting'[t]
       PROVE  \/ t # s /\ waiting'[t] = waiting[t]
              \/ t = s /\ n + l \in DOMAIN old /\ waiting'[t][l] = old[n + l]
  BY <1>a, <1>0, <1>5
<1>14. Sorted'
  <2>1. ASSUME NEW t \in Shards, NEW k \in DOMAIN waiting'[t], NEW l \in DOMAIN waiting'[t],
               NEW p \in DOMAIN given, NEW q \in DOMAIN given,
               k < l, given[p] = waiting'[t][k], given[q] = waiting'[t][l]
        PROVE  p < q
    <3>1. CASE t # s
      BY <1>2, <1>13, <2>1, <3>1 DEF Sorted
    <3>2. CASE t = s
      <4>1. /\ n + k \in DOMAIN old /\ waiting'[t][k] = old[n + k]
            /\ n + l \in DOMAIN old /\ waiting'[t][l] = old[n + l]
            /\ k \in Int /\ l \in Int /\ n \in Int
        <5>1. k \in DOMAIN rest /\ l \in DOMAIN rest /\ waiting'[t] = rest
          BY <1>5, <2>1, <3>2
        <5>2. k \in Int /\ l \in Int /\ n \in Int
          BY <1>4, <5>1
        <5> QED
          BY <1>0, <5>1, <5>2
      <4>2. n + k < n + l
        BY <2>1, <4>1
      <4> QED
        BY <1>2, <2>1, <4>1, <4>2 DEF Sorted, old
    <3> QED
      BY <3>1, <3>2
  <2> QED
    BY <1>1, <2>1 DEF Sorted
<1>15. Placed'
  <2>1. ASSUME NEW t \in Shards, NEW l \in DOMAIN waiting'[t], NEW j, j = waiting'[t][l]
        PROVE  j \in Given' /\ Shard(j) = t /\ ~ IsWritten(j)'
    <3>1. CASE t # s
      <4>1. l \in DOMAIN waiting[t] /\ j = waiting[t][l]
        BY <1>13, <2>1, <3>1
      <4>2. j \in Given /\ Shard(j) = t /\ ~ IsWritten(j)
        BY <1>2, <4>1 DEF Placed
      <4>3. \A i \in DOMAIN b : b[i] # j
        BY <1>a, <1>0, <1>6, <3>1, <4>2
      <4> QED
        BY <1>8, <1>b, <4>2, <4>3
    <3>2. CASE t = s
      <4>1. n + l \in DOMAIN old /\ j = old[n + l] /\ l \in 1..(Len(old) - n)
        BY <1>4, <1>5, <1>13, <2>1, <3>2
      <4>2. ASSUME NEW i \in DOMAIN b PROVE b[i] # j
        <5>1. i \in DOMAIN old /\ b[i] = old[i] /\ i # n + l
          BY <1>a, <1>0, <1>4, <4>1
        <5> QED
          BY <1>7, <4>1, <5>1
      <4> QED
        BY <1>6, <1>8, <1>b, <3>2, <4>1, <4>2
    <3> QED
      BY <3>1, <3>2
  <2>2. ASSUME NEW i \in DOMAIN writes', NEW j \in DOMAIN writes'[i]
        PROVE  writes'[i][j] \in Given'
    <3>1. \/ i \in DOMAIN writes /\ writes'[i] = writes[i]
          \/ writes'[i] = b
      BY <1>1, <1>2, <1>4, Grown
    <3>2. CASE i \in DOMAIN writes /\ writes'[i] = writes[i]
      BY <1>2, <1>b, <3>2 DEF Placed
    <3>3. CASE writes'[i] = b
      BY <1>a, <1>b, <1>0, <1>6, <3>3
    <3> QED
      BY <3>1, <3>2, <3>3
  <2>3. ASSUME NEW j \in Given', Shard(j) \in Shards
        PROVE  Waits(j)' \/ IsWritten(j)'
    <3>1. Waits(j) \/ IsWritten(j)
      BY <1>2, <1>b, <2>3 DEF Placed
    <3>2. ASSUME Waits(j), Shard(j) # s PROVE Waits(j)'
      BY <1>5, <2>3, <3>2 DEF Waits, Shard
    <3>3. ASSUME Waits(j), Shard(j) = s PROVE Waits(j)' \/ \E i \in DOMAIN b : b[i] = j
      <4>1. PICK l \in DOMAIN old : old[l] = j
        BY <3>3 DEF Waits, old
      <4>2. CASE l <= n
        BY <1>3, <1>4, <4>1, <4>2
      <4>3. CASE l > n
        <5>1. l - n \in 1..(Len(old) - n) /\ n + (l - n) = l
          BY <1>3, <4>3
        <5>2. l - n \in DOMAIN waiting'[s] /\ waiting'[s][l - n] = j
          BY <1>4, <1>5, <4>1, <5>1
        <5> QED
          BY <3>3, <5>2 DEF Waits, Shard
      <4> QED
        BY <1>3, <4>2, <4>3
    <3> QED
      BY <1>8, <3>1, <3>2, <3>3
  <2> QED
    BY <2>1, <2>2, <2>3 DEF Placed, Shard
<1> QED
  BY <1>1, <1>2, <1>9, <1>11, <1>12, <1>14, <1>15 DEF LogInv, GivenOnce

LEMMA StutterKeeps == LogInv /\ UNCHANGED <<given, waiting, writes>> => LogInv'
<1> SUFFICES ASSUME LogInv, UNCHANGED <<given, waiting, writes>> PROVE LogInv'
  OBVIOUS
<1>1. Types' /\ GivenOnce' /\ Sorted' /\ WrittenOnce'
  BY DEF LogInv, Types, GivenOnce, Sorted, WrittenOnce
<1>2. Placed'
  BY DEF LogInv, Placed, Waits, IsWritten, Given, Shard
<1>3. InOrder'
  <2>1. given \in Seq(Jobs) /\ DOMAIN given = 1..Len(given) /\ Len(given) \in Nat
    BY LenProperties DEF LogInv, Types
  <2>2. Kept
    BY <2>1 DEF Kept
  <2> QED
    BY <2>2, OrderStays DEF LogInv
<1> QED
  BY <1>1, <1>2, <1>3 DEF LogInv

LEMMA LogCorrect == Spec => []LogInv
<1>1. LogInv /\ [Next]_<<given, waiting, writes>> => LogInv'
  BY AcceptKeeps, DirectKeeps, EmitKeeps, StutterKeeps DEF Next
<1> QED
  BY InitLog, <1>1, PTL DEF Spec

\* What keeps the promise writes no report twice, for any devices, shards and
\* reports, and however its writes are cut.
THEOREM PromiseWritesOnce == Spec => []WrittenOnce
<1>1. LogInv => WrittenOnce
  BY DEF LogInv
<1> QED
  BY <1>1, LogCorrect, PTL

\* What keeps the promise lands a batch after all that its shard took before.
THEOREM PromiseKeepsOrder == Spec => []InOrder
<1>1. LogInv => InOrder
  BY DEF LogInv
<1> QED
  BY <1>1, LogCorrect, PTL
=============================================================================
