-------------------------- MODULE DeviceOwnerProofs --------------------------
(***************************************************************************)
(* Who holds a device's socket, for any number of server copies, any       *)
(* number of connections and any length of the ownership queue.            *)
(***************************************************************************)
EXTENDS DeviceOwner, SequenceTheorems, TLAPS

USE OwnerAssumption

LEMMA AppendLast ==
    ASSUME NEW S, NEW seq \in Seq(S), NEW e \in S
    PROVE  /\ Append(seq, e) \in Seq(S) /\ Append(seq, e) # <<>>
           /\ Len(Append(seq, e)) = Len(seq) + 1 /\ Len(seq) \in Nat
           /\ Append(seq, e)[Len(Append(seq, e))] = e
BY AppendProperties, LenProperties

LEMMA TailLast ==
    ASSUME NEW S, NEW seq \in Seq(S), seq # <<>>
    PROVE  /\ Tail(seq) \in Seq(S) /\ Head(seq) \in S
           /\ Len(Tail(seq)) = Len(seq) - 1 /\ Len(seq) \in Nat \ {0}
           /\ Tail(seq) # <<>> => Tail(seq)[Len(Tail(seq))] = seq[Len(seq)]
           /\ Tail(seq) = <<>> => Head(seq) = seq[Len(seq)]
<1>1. /\ Tail(seq) \in Seq(S) /\ Head(seq) \in S /\ Head(seq) = seq[1]
      /\ Len(Tail(seq)) = Len(seq) - 1 /\ Len(seq) \in Nat \ {0}
      /\ \A i \in 1..Len(Tail(seq)) : Tail(seq)[i] = seq[i + 1]
  BY HeadTailProperties, EmptySeq
<1>2. Tail(seq) # <<>> => Len(Tail(seq)) \in Nat \ {0}
  BY <1>1, EmptySeq
<1>3. Tail(seq) = <<>> => Len(Tail(seq)) = 0
  BY EmptySeq
<1>4. Tail(seq) # <<>> => Tail(seq)[Len(Tail(seq))] = seq[Len(seq)]
  BY <1>1, <1>2
<1>5. Tail(seq) = <<>> => Head(seq) = seq[Len(seq)]
  BY <1>1, <1>3
<1> QED
  BY <1>1, <1>4, <1>5

-----------------------------------------------------------------------------
(* Types: of the device and the hubs, of the writers, of the tables.       *)

HubType ==
    /\ conns \in 0..MaxConnects
    /\ running \subseteq Copies
    /\ client \in [Copies -> 0..conns]
    /\ calls \in [Copies -> SUBSET (Connections \X Change)]

WriterType ==
    /\ own \in [Copies -> Seq(Change)]
    /\ \A i \in Copies : Len(own[i]) <= QueueCap
    /\ pending \in [Copies -> Change \cup {"none"}]
    /\ writing \in [Copies -> Change \cup {"none"}]

TableType ==
    /\ up \in BOOLEAN
    /\ owner \in Copies \cup {None}
    /\ live \subseteq Copies
    /\ slip \in {"none", "dropped", "other"}

LEMMA TypeParts == TypeOK <=> HubType /\ WriterType /\ TableType
BY Zenon DEF TypeOK, HubType, WriterType, TableType

LEMMA InitType == Init => TypeOK
<1> SUFFICES ASSUME Init PROVE HubType /\ WriterType /\ TableType
  BY TypeParts
<1>1. <<>> \in Seq(Change) /\ Len(<<>>) = 0
  BY EmptySeq
<1>2. HubType
  BY DEF Init, HubType
<1>3. WriterType
  BY <1>1 DEF Init, WriterType
<1>4. TableType
  BY Zenon DEF Init, TableType
<1> QED
  BY <1>2, <1>3, <1>4

LEMMA HubKeepsType ==
    ASSUME TypeOK, [Next]_vars
    PROVE  HubType'
<1> USE TypeParts
<1>1. CASE UNCHANGED <<conns, hubVars>>
  BY <1>1 DEF HubType, hubVars
<1>2. ASSUME NEW i \in Copies, Connect(i) PROVE HubType'
  <2>1. conns + 1 \in 0..MaxConnects /\ conns' = conns + 1 /\ conns + 1 \in Connections
    BY <1>2 DEF Connect, HubType, Connections
  <2>2. client' \in [Copies -> 0..conns']
    BY <1>2, <2>1 DEF Connect, HubType
  <2>3. calls' \in [Copies -> SUBSET (Connections \X Change)]
    BY <1>2, <2>1 DEF Connect, HubType, Change
  <2> QED
    BY <1>2, <2>1, <2>2, <2>3 DEF Connect, HubType
<1>3. ASSUME NEW i \in Copies, Unregister(i) \/ Close(i) PROVE HubType'
  <2>1. client[i] \in Connections
    BY <1>3 DEF Unregister, Broken, Close, HubType, Connections
  <2>2. client' \in [Copies -> 0..conns]
    BY <1>3 DEF Unregister, Close, HubType
  <2>3. calls' \in [Copies -> SUBSET (Connections \X Change)]
    BY <1>3, <2>1 DEF Unregister, Close, HubType, Change
  <2> QED
    BY <1>3, <2>2, <2>3 DEF Unregister, Close, HubType, deviceVars
<1>4. ASSUME NEW i \in Copies, NEW call \in calls[i], Announce(i, call) PROVE HubType'
  BY <1>4 DEF Announce, HubType, deviceVars
<1>5. ASSUME NEW i \in Copies, Stop(i) PROVE HubType'
  BY <1>5 DEF Stop, HubType
<1>6. ASSUME NEW i \in Copies, Writer(i) \/ HeartbeatAges(i) \/ Forget(i)
      PROVE  HubType'
  BY <1>1, <1>6 DEF Writer, TakeChange, Flush, Resync, Write, WriteFails, HeartbeatAges,
                    Forget, deviceVars
<1>7. CASE Vanish \/ UNCHANGED vars
  BY <1>1, <1>7 DEF Vanish, vars, deviceVars
<1> QED
  BY <1>2, <1>3, <1>4, <1>5, <1>6, <1>7 DEF Next, Hub, Membership

LEMMA WriterKeepsType ==
    ASSUME TypeOK, [Next]_vars
    PROVE  WriterType'
<1> USE TypeParts
<1>1. CASE UNCHANGED writerVars
  BY <1>1 DEF WriterType, writerVars
<1>2. ASSUME NEW i \in Copies, NEW call \in calls[i], Announce(i, call)
      PROVE  WriterType'
  <2>1. call[2] \in Change /\ own[i] \in Seq(Change)
    BY DEF HubType, WriterType
  <2>2. CASE HasRoom(i)
    <3>1. /\ Append(own[i], call[2]) \in Seq(Change)
          /\ Len(Append(own[i], call[2])) = Len(own[i]) + 1 /\ Len(own[i]) \in Nat
      BY <2>1, AppendLast
    <3>2. own' = [own EXCEPT ![i] = Append(own[i], call[2])]
      BY <1>2, <2>2 DEF Announce
    <3>3. Len(own[i]) + 1 <= QueueCap
      BY <2>2, <3>1 DEF HasRoom
    <3> QED
      BY <1>2, <3>1, <3>2, <3>3 DEF Announce, WriterType
  <2>3. CASE ~ HasRoom(i)
    BY <1>1, <1>2, <2>3 DEF Announce, writerVars
  <2> QED
    BY <2>2, <2>3
<1>3. ASSUME NEW i \in Copies, TakeChange(i) PROVE WriterType'
  <2>1. /\ Tail(own[i]) \in Seq(Change) /\ Head(own[i]) \in Change
        /\ Len(Tail(own[i])) = Len(own[i]) - 1 /\ Len(own[i]) \in Nat \ {0}
    BY <1>3, TailLast DEF TakeChange, WriterType
  <2>2. pending' \in [Copies -> Change \cup {"none"}]
    BY <1>3, <2>1 DEF TakeChange, Gather, WriterType
  <2> QED
    BY <1>3, <2>1, <2>2 DEF TakeChange, WriterType
<1>4. ASSUME NEW i \in Copies, Flush(i) \/ Resync(i) \/ Write(i) \/ WriteFails(i)
      PROVE  WriterType'
  BY <1>4 DEF Flush, Resync, Write, WriteFails, WriterType, Change
<1>5. ASSUME NEW i \in Copies, Stop(i) PROVE WriterType'
  <2>1. <<>> \in Seq(Change) /\ Len(<<>>) = 0
    BY EmptySeq
  <2> QED
    BY <1>5, <2>1 DEF Stop, WriterType
<1>6. ASSUME NEW i \in Copies,
             Connect(i) \/ Unregister(i) \/ Close(i) \/ HeartbeatAges(i) \/ Forget(i)
      PROVE  WriterType'
  BY <1>1, <1>6 DEF Connect, Unregister, Close, HeartbeatAges, Forget
<1>7. CASE Vanish \/ UNCHANGED vars
  BY <1>1, <1>7 DEF Vanish, vars
<1> QED
  BY <1>2, <1>3, <1>4, <1>5, <1>6, <1>7 DEF Next, Hub, Writer, Membership

LEMMA TableKeepsType ==
    ASSUME TypeOK, [Next]_vars
    PROVE  TableType'
<1> USE TypeParts
<1>1. up' \in BOOLEAN
  BY Zenon DEF Next, Hub, Writer, Membership, Vanish, Connect, Unregister, Close, Announce,
               TakeChange, Flush, Resync, Write, WriteFails, Stop, HeartbeatAges, Forget,
               vars, deviceVars, TableType
<1>2. owner' \in Copies \cup {None}
  BY DEF Next, Hub, Writer, Membership, Vanish, Connect, Unregister, Close, Announce,
         TakeChange, Flush, Resync, Write, WriteFails, Stop, HeartbeatAges, Forget,
         vars, tableVars, TableType
<1>3. live' \subseteq live
  BY DEF Next, Hub, Writer, Membership, Vanish, Connect, Unregister, Close, Announce,
         TakeChange, Flush, Resync, Write, WriteFails, Stop, HeartbeatAges, Forget,
         vars, tableVars
<1>4. slip' \in {"none", "dropped", "other"}
  BY DEF Next, Hub, Writer, Membership, Vanish, Connect, Unregister, Close, Announce,
         TakeChange, Flush, Resync, Write, WriteFails, Stop, HeartbeatAges, Forget,
         vars, TableType
<1> QED
  BY <1>1, <1>2, <1>3, <1>4 DEF TableType

LEMMA NextType == TypeOK /\ [Next]_vars => TypeOK'
<1>1. (HubType /\ WriterType /\ TableType)' => TypeOK'
  BY Zenon DEF TypeOK, HubType, WriterType, TableType
<1> QED
  BY <1>1, HubKeepsType, WriterKeepsType, TableKeepsType

\* Connections, queues, writers and tables are what they are meant to be, and
\* no ownership queue grows past its length.
THEOREM TypesHold == Spec => []TypeOK
<1> QED
  BY InitType, NextType, PTL DEF Spec

-----------------------------------------------------------------------------
(* No copy is left with a gain as its last word.                           *)

Owed(i) == \E c \in Connections : <<c, "loss">> \in calls[i]

\* LossOnItsWay for one copy.
Losing(i) ==
    i \in running /\ slip = "none" /\ client[i] = 0
        /\ (owner = i \/ LastWord(i) = "gain") => Owed(i) \/ LastWord(i) = "loss"

LEMMA OneByOne == TypeOK => (LossOnItsWay <=> \A i \in Copies : Losing(i))
BY DEF TypeOK, LossOnItsWay, Losing, Owed

\* A step that leaves a copy's hub and writer alone does not put it in the
\* table, and mends no slip.
LEMMA OthersKeepLosing ==
    ASSUME TypeOK, NEW i \in Copies, Losing(i),
           UNCHANGED <<client[i], calls[i], own[i], pending[i], writing[i]>>,
           i \in running' => i \in running,
           slip' = "none" => slip = "none",
           owner' = i => owner = i
    PROVE  Losing(i)'
BY DEF Losing, Owed, LastWord

LEMMA HubLosing ==
    ASSUME TypeOK, NEW i \in Copies, Losing(i),
           Connect(i) \/ Unregister(i) \/ Close(i)
    PROVE  Losing(i)'
<1>1. CASE Connect(i)
  BY <1>1 DEF Connect, Losing, TypeOK
<1>2. CASE Unregister(i) \/ Close(i)
  <2>1. client[i] \in Connections
    BY <1>2 DEF Unregister, Broken, Close, TypeOK, Connections
  <2>2. <<client[i], "loss">> \in calls'[i]
    BY <1>2 DEF Unregister, Close, TypeOK
  <2> QED
    BY <2>1, <2>2 DEF Losing, Owed
<1> QED
  BY <1>1, <1>2

LEMMA AnnounceLosing ==
    ASSUME TypeOK, NEW i \in Copies, Losing(i), NEW call \in calls[i], Announce(i, call)
    PROVE  Losing(i)'
<1>1. call[2] \in Change /\ own[i] \in Seq(Change) /\ client' = client
  BY DEF TypeOK, Announce
<1>2. CASE HasRoom(i)
  <2>1. /\ own'[i] = Append(own[i], call[2])
        /\ own'[i] # <<>> /\ own'[i][Len(own'[i])] = call[2]
    BY <1>1, <1>2, AppendLast DEF Announce, TypeOK
  <2>2. LastWord(i)' = call[2]
    BY <2>1 DEF LastWord
  <2>3. CASE call[2] = "loss"
    BY <2>2, <2>3 DEF Losing
  <2>4. CASE call[2] = "gain"
    BY <1>1, <1>2, <2>4 DEF Announce, Losing
  <2> QED
    BY <1>1, <2>3, <2>4 DEF Change
<1>3. CASE ~ HasRoom(i)
  BY <1>3 DEF Announce, Losing
<1> QED
  BY <1>2, <1>3

LEMMA TakeLosing ==
    ASSUME TypeOK, NEW i \in Copies, Losing(i), TakeChange(i)
    PROVE  Losing(i)'
<1>1. /\ own[i] \in Seq(Change) /\ own[i] # <<>>
      /\ own'[i] = Tail(own[i]) /\ pending'[i] = Head(own[i])
      /\ UNCHANGED <<running, client, calls, owner, slip>>
  BY DEF TakeChange, Gather, TypeOK, hubVars, tableVars
<1>2. /\ Head(own[i]) \in Change
      /\ Tail(own[i]) # <<>> => Tail(own[i])[Len(Tail(own[i]))] = own[i][Len(own[i])]
      /\ Tail(own[i]) = <<>> => Head(own[i]) = own[i][Len(own[i])]
  BY <1>1, TailLast
<1>3. LastWord(i)' = LastWord(i)
  BY <1>1, <1>2 DEF LastWord, Change
<1> QED
  BY <1>1, <1>3 DEF Losing, Owed

LEMMA WriterLosing ==
    ASSUME TypeOK, NEW i \in Copies, Losing(i),
           Flush(i) \/ Resync(i) \/ Write(i) \/ WriteFails(i)
    PROVE  Losing(i)'
<1>1. CASE Flush(i)
  <2>1. LastWord(i)' = LastWord(i)
    BY <1>1 DEF Flush, LastWord, TypeOK
  <2> QED
    BY <1>1, <2>1 DEF Flush, Losing, Owed, hubVars, tableVars
<1>2. CASE Resync(i)
  BY <1>2 DEF Resync, Asserted, Losing, hubVars
<1>3. CASE Write(i)
  <2>1. /\ UNCHANGED <<running, client, calls, own, pending, slip>>
        /\ writing[i] # "none" /\ writing'[i] = "none"
        /\ writing[i] \in Change \cup {"none"} /\ pending[i] \in Change \cup {"none"}
        /\ own[i] \in Seq(Change) /\ None # i
    BY <1>3 DEF Write, TypeOK, hubVars
  <2>2. CASE own[i] = <<>> /\ pending[i] = "none"
    <3>1. LastWord(i) = writing[i] /\ LastWord(i)' = "none"
      BY <2>1, <2>2 DEF LastWord
    <3>2. writing[i] = "loss" => owner' # i
      BY <1>3, <2>1 DEF Write
    <3> QED
      BY <2>1, <3>1, <3>2 DEF Losing, Owed, Change
  <2>3. CASE own[i] # <<>> \/ pending[i] # "none"
    <3>1. LastWord(i)' = LastWord(i)
      BY <2>1, <2>3 DEF LastWord
    <3>2. LastWord(i) \in Change
      <4>1. own[i] # <<>> => Len(own[i]) \in 1..Len(own[i])
        BY <2>1, EmptySeq
      <4>2. own[i] # <<>> => own[i][Len(own[i])] \in Change
        BY <2>1, <4>1, ElementOfSeq
      <4> QED
        BY <2>1, <2>3, <4>2 DEF LastWord
    <3> QED
      BY <2>1, <3>1, <3>2 DEF Losing, Owed, Change
  <2> QED
    BY <2>2, <2>3
<1>4. CASE WriteFails(i)
  BY <1>4 DEF WriteFails, Losing
<1> QED
  BY <1>1, <1>2, <1>3, <1>4

LEMMA NextLosing ==
    ASSUME TypeOK, [Next]_vars, NEW i \in Copies, Losing(i)
    PROVE  Losing(i)'
<1>1. ASSUME NEW j \in Copies, j # i, Hub(j) \/ Writer(j)
      PROVE  Losing(i)'
  <2>1. UNCHANGED <<client[i], calls[i], own[i], pending[i], writing[i], running>>
    BY <1>1 DEF Hub, Writer, Connect, Unregister, Close, Announce, TakeChange, Flush, Resync,
                Write, WriteFails, hubVars, writerVars, TypeOK
  <2>2. slip' = "none" => slip = "none"
    BY <1>1 DEF Hub, Writer, Connect, Unregister, Close, Announce, TakeChange, Flush, Resync,
                Write, WriteFails
  <2>3. owner' = i => owner = i
    BY <1>1 DEF Hub, Writer, Connect, Unregister, Close, Announce, TakeChange, Flush, Resync,
                Write, WriteFails, tableVars
  <2> QED
    BY <2>1, <2>2, <2>3, OthersKeepLosing
<1>2. ASSUME NEW j \in Copies, HeartbeatAges(j) \/ Forget(j) \/ (j # i /\ Stop(j))
      PROVE  Losing(i)'
  <2>1. UNCHANGED <<client[i], calls[i], own[i], pending[i], writing[i], slip>>
    BY <1>2 DEF HeartbeatAges, Forget, Stop, hubVars, writerVars, TypeOK
  <2>2. i \in running' => i \in running
    BY <1>2 DEF HeartbeatAges, Forget, Stop, hubVars
  <2>3. owner' = i => owner = i
    BY <1>2 DEF HeartbeatAges, Forget, Stop, tableVars
  <2> QED
    BY <2>1, <2>2, <2>3, OthersKeepLosing
<1>3. CASE Stop(i)
  BY <1>3 DEF Stop, Losing
<1>4. CASE Vanish \/ UNCHANGED vars
  <2>1. UNCHANGED <<running, client, calls, own, pending, writing, owner, slip>>
    BY <1>4 DEF Vanish, vars, hubVars, writerVars, tableVars
  <2> QED
    BY <2>1, OthersKeepLosing
<1>5. CASE Hub(i) \/ Writer(i)
  BY <1>5, HubLosing, AnnounceLosing, TakeLosing, WriterLosing DEF Hub, Writer
<1> QED
  BY <1>1, <1>2, <1>3, <1>4, <1>5 DEF Next, Membership

LEMMA InitLosing == Init => LossOnItsWay
BY DEF Init, LossOnItsWay, LastWord

\* While changes are queued in their turn and written, a copy that has lost the
\* device ends with a loss, whatever batches, resyncs and reconnects come in
\* between: the safety half of LossSeen.
THEOREM LossAlwaysOnItsWay == Spec => []LossOnItsWay
<1>1. TypeOK /\ LossOnItsWay /\ [Next]_vars => LossOnItsWay'
  <2> SUFFICES ASSUME TypeOK, LossOnItsWay, [Next]_vars PROVE LossOnItsWay'
    OBVIOUS
  <2>1. \A i \in Copies : Losing(i)'
    BY OneByOne, NextLosing
  <2>2. TypeOK'
    BY NextType
  <2> QED
    BY <2>1, <2>2 DEF TypeOK, LossOnItsWay, Losing, Owed
<1> QED
  BY <1>1, InitType, InitLosing, TypesHold, PTL DEF Spec

=============================================================================
