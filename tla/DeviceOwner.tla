----------------------------- MODULE DeviceOwner -----------------------------
(***************************************************************************)
(* Which server copy holds a device's socket: the hub of each copy         *)
(* (internal/ws/hub.go), the copy's ownership writer                       *)
(* (internal/cluster/cluster.go) and the tables device_owners and          *)
(* cluster_instances (internal/db/cluster.go), for one device.  Devices    *)
(* share nothing but the batches their changes travel in, and a batch is a *)
(* step here whatever else it carries.  What a copy believes of the others *)
(* (Remote) is a read of those tables at most a few seconds old; the       *)
(* heartbeats of a running copy are taken to arrive.                       *)
(*                                                                         *)
(* The device's connections are numbered.  The newest one is alive while   *)
(* up holds; an older one is half-open until its copy notices.             *)
(***************************************************************************)
EXTENDS Naturals, Sequences, FiniteSets

CONSTANTS
    Copies,        \* server processes; a restarted one has a new name
    None,          \* no copy
    MaxConnects,   \* how often the device connects
    QueueCap       \* length of a copy's ownership queue

ASSUME OwnerAssumption ==
    /\ None \notin Copies
    /\ MaxConnects \in Nat
    /\ QueueCap \in Nat \ {0}

VARIABLES
    conns,     \* connections made so far
    up,        \* the newest one is alive
    running,   \* copies that are up
    client,    \* the connection each hub has registered, 0 for none
    calls,     \* Owned calls a copy's goroutines still owe
    own,       \* each copy's ownership queue
    pending,   \* the change its writer has gathered
    writing,   \* the change it is sending to the database
    owner,     \* the row of device_owners
    live,      \* copies with a recent heartbeat in cluster_instances
    slip       \* history: "dropped" once a change was dropped, "other" once one
               \* came late or could not be written

deviceVars  == <<conns, up>>
hubVars     == <<running, client, calls>>
writerVars  == <<own, pending, writing>>
tableVars   == <<owner, live>>
vars        == <<deviceVars, hubVars, writerVars, tableVars, slip>>

Connections == 1..MaxConnects
Change == {"gain", "loss"}

-----------------------------------------------------------------------------
(* The hub.                                                                *)

\* Upgrade and register: the client replaces any the copy had, and the gain is
\* announced after the lock is released.
Connect(i) ==
    /\ i \in running
    /\ conns < MaxConnects
    /\ conns' = conns + 1
    /\ up' = TRUE
    /\ client' = [client EXCEPT ![i] = conns + 1]
    /\ calls' = [calls EXCEPT ![i] = @ \cup {<<conns + 1, "gain">>}]
    /\ UNCHANGED <<running, writerVars, tableVars, slip>>

\* The device goes away without a word.
Vanish ==
    /\ up
    /\ up' = FALSE
    /\ UNCHANGED <<conns, hubVars, writerVars, tableVars, slip>>

Broken(i) == client[i] # 0 /\ ~ (up /\ client[i] = conns)

\* The read pump ends: it was started after register had returned.
Unregister(i) ==
    /\ i \in running
    /\ Broken(i)
    /\ <<client[i], "gain">> \notin calls[i]
    /\ client' = [client EXCEPT ![i] = 0]
    /\ calls' = [calls EXCEPT ![i] = @ \cup {<<client[i], "loss">>}]
    /\ UNCHANGED <<deviceVars, running, writerVars, tableVars, slip>>

\* Hub.Close: the server drops the socket, announced gain or not.
Close(i) ==
    /\ i \in running
    /\ client[i] # 0
    /\ client' = [client EXCEPT ![i] = 0]
    /\ calls' = [calls EXCEPT ![i] = @ \cup {<<client[i], "loss">>}]
    /\ up' = (up /\ client[i] # conns)
    /\ UNCHANGED <<conns, running, writerVars, tableVars, slip>>

\* Mutant of HasRoom: one change too many is taken.
HasRoomForOne(i) == Len(own[i]) <= QueueCap

HasRoom(i) == Len(own[i]) < QueueCap

\* The goroutine gets to Cluster.Owned, which never blocks.  A gain that is
\* announced when its client is gone again comes late.
Announce(i, call) ==
    /\ i \in running
    /\ call \in calls[i]
    /\ calls' = [calls EXCEPT ![i] = @ \ {call}]
    /\ IF HasRoom(i)
       THEN /\ own' = [own EXCEPT ![i] = Append(@, call[2])]
            /\ slip' = IF call[2] = "gain" /\ client[i] = 0
                       THEN "other" ELSE slip
       ELSE /\ UNCHANGED own
            /\ slip' = IF slip = "none" THEN "dropped" ELSE slip
    /\ UNCHANGED <<deviceVars, running, client, pending, writing, tableVars>>

-----------------------------------------------------------------------------
(* writeOwners.                                                            *)

\* Mutant of Gather: the first change of a batch wins.
GatherFirst(old, new) == IF old = "none" THEN new ELSE old

\* pending[ch.id] = ch.connected
Gather(old, new) == new

TakeChange(i) ==
    /\ i \in running
    /\ writing[i] = "none"
    /\ own[i] # <<>>
    /\ own' = [own EXCEPT ![i] = Tail(@)]
    /\ pending' = [pending EXCEPT ![i] = Gather(@, Head(own[i]))]
    /\ UNCHANGED <<deviceVars, hubVars, writing, tableVars, slip>>

\* The half-second flush.
Flush(i) ==
    /\ i \in running
    /\ writing[i] = "none"
    /\ pending[i] # "none"
    /\ writing' = [writing EXCEPT ![i] = pending[i]]
    /\ pending' = [pending EXCEPT ![i] = "none"]
    /\ UNCHANGED <<deviceVars, hubVars, own, tableVars, slip>>

\* Mutant of Asserted: a resync has nothing to say.
AssertedNothing(i) == FALSE

\* LocalIDs at the resync.
Asserted(i) == client[i] # 0

\* The minute resync re-asserts the sockets this copy holds, and only those.
Resync(i) ==
    /\ i \in running
    /\ writing[i] = "none"
    /\ Asserted(i)
    /\ writing' = [writing EXCEPT ![i] = "gain"]
    /\ UNCHANGED <<deviceVars, hubVars, own, pending, tableVars, slip>>

\* ClusterSetOwners, by a copy that may have stopped meanwhile.
Write(i) ==
    /\ writing[i] # "none"
    /\ writing' = [writing EXCEPT ![i] = "none"]
    /\ owner' = IF writing[i] = "gain" THEN i
                ELSE IF owner = i THEN None ELSE owner
    /\ UNCHANGED <<deviceVars, hubVars, own, pending, live, slip>>

\* The error is counted and the batch forgotten.
WriteFails(i) ==
    /\ writing[i] # "none"
    /\ writing' = [writing EXCEPT ![i] = "none"]
    /\ slip' = "other"
    /\ UNCHANGED <<deviceVars, hubVars, own, pending, tableVars>>

-----------------------------------------------------------------------------
(* Copies come and go.                                                     *)

\* Mutant of Stale: the rows of a copy that died are read for ever.
StaleNever(i) == FALSE

\* A copy that is gone has sent no heartbeat for thirty seconds.
Stale(i) == i \in live \ running

HeartbeatAges(i) ==
    /\ Stale(i)
    /\ live' = live \ {i}
    /\ UNCHANGED <<deviceVars, hubVars, writerVars, owner, slip>>

\* The process ends, by a signal or a crash; a write may still be under way.
Stop(i) ==
    /\ i \in running
    /\ running' = running \ {i}
    /\ up' = (up /\ client[i] # conns)
    /\ client' = [client EXCEPT ![i] = 0]
    /\ calls' = [calls EXCEPT ![i] = {}]
    /\ own' = [own EXCEPT ![i] = <<>>]
    /\ pending' = [pending EXCEPT ![i] = "none"]
    /\ UNCHANGED <<conns, writing, tableVars, slip>>

\* ClusterLeave, if the process lives long enough to get to it, or
\* ClusterSweep after an hour without a heartbeat: both rows go.
Forget(i) ==
    /\ i \notin running
    /\ live' = live \ {i}
    /\ owner' = IF owner = i THEN None ELSE owner
    /\ UNCHANGED <<deviceVars, hubVars, writerVars, slip>>

-----------------------------------------------------------------------------
Init ==
    /\ conns = 0 /\ up = FALSE
    /\ running = Copies
    /\ client = [i \in Copies |-> 0]
    /\ calls = [i \in Copies |-> {}]
    /\ own = [i \in Copies |-> <<>>]
    /\ pending = [i \in Copies |-> "none"]
    /\ writing = [i \in Copies |-> "none"]
    /\ owner = None
    /\ live = Copies
    /\ slip = "none"

Hub(i) == \/ Connect(i) \/ Unregister(i) \/ Close(i)
          \/ \E call \in calls[i] : Announce(i, call)

Writer(i) == TakeChange(i) \/ Flush(i) \/ Resync(i) \/ Write(i) \/ WriteFails(i)

Membership(i) == Stop(i) \/ HeartbeatAges(i) \/ Forget(i)

Next == Vanish \/ \E i \in Copies : Hub(i) \/ Writer(i) \/ Membership(i)

Spec == Init /\ [][Next]_vars

\* Every goroutine of a running copy gets its turn, the writer's select serves
\* each of its three sources, broken sockets meet their read deadline, and the
\* database does not refuse every write.
FairSpec ==
    /\ Spec
    /\ \A i \in Copies :
         /\ WF_vars(Unregister(i))
         /\ WF_vars(\E call \in calls[i] : Announce(i, call))
         /\ SF_vars(TakeChange(i))
         /\ SF_vars(Flush(i))
         /\ SF_vars(Resync(i))
         /\ SF_vars(Write(i))
         /\ WF_vars(HeartbeatAges(i))

-----------------------------------------------------------------------------
(* Properties.                                                             *)

TypeOK ==
    /\ conns \in 0..MaxConnects
    /\ up \in BOOLEAN
    /\ running \subseteq Copies
    /\ client \in [Copies -> 0..conns]
    /\ calls \in [Copies -> SUBSET (Connections \X Change)]
    /\ own \in [Copies -> Seq(Change)]
    /\ \A i \in Copies : Len(own[i]) <= QueueCap
    /\ pending \in [Copies -> Change \cup {"none"}]
    /\ writing \in [Copies -> Change \cup {"none"}]
    /\ owner \in Copies \cup {None}
    /\ live \subseteq Copies
    /\ slip \in {"none", "dropped", "other"}

\* What a copy will have told the table once its queue and its writer are empty.
LastWord(i) == IF own[i] # <<>> THEN own[i][Len(own[i])]
               ELSE IF pending[i] # "none" THEN pending[i] ELSE writing[i]

\* While changes are queued in their turn and written, a copy without the
\* device is in the table only as long as a loss follows whatever else it has
\* still to write: no batch, resync or reconnect makes a gain its last word.
LossOnItsWay ==
    \A i \in running :
        slip = "none" /\ client[i] = 0 /\ (owner = i \/ LastWord(i) = "gain") =>
            \/ \E c \in Connections : <<c, "loss">> \in calls[i]
            \/ LastWord(i) = "loss"

\* The device's live socket is at copy i.
LivesAt(i) == up /\ i \in running /\ client[i] = conns

\* Where ClusterRemoteDevices and ClusterOwner say the device is.
FoundAt(i) == owner = i /\ i \in live
FoundNowhere == owner \notin live

\* However often the device moved between copies before, whatever changes were
\* dropped or written late, and even while an old copy still re-asserts a
\* half-open socket: once its socket stays where it is, the other copies come
\* to find it there and nowhere else (writeOwners' resync).
OwnerFound == \A i \in Copies : <>[]LivesAt(i) => <>[]FoundAt(i)

\* A device that has no socket anywhere is not taken for connected for ever,
\* as long as every change was queued in its turn and written (Unregister,
\* ClusterSetOwners).
LossSeen == <>[](~ up /\ slip = "none") => <>[]FoundNowhere
=============================================================================
