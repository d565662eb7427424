----------------------------- MODULE CommandRow -----------------------------
(***************************************************************************)
(* One row of command_status: what the server believes about one command   *)
(* on one device, and the SQL statements that write it, each as a function *)
(* from the row before to the row after.  "none" is the absent row.        *)
(*                                                                         *)
(* Timestamps are kept only as far as a comparison reads them:             *)
(*   recv, touch  received_at and updated_at, counted as the queue counts  *)
(*                time (Never = NULL)                                      *)
(*   stalled      updated_at is older than the stalled-install window      *)
(*   lease        lease_expires_at: "none" (NULL), "held" (in the future)  *)
(*                or "lapsed" (in the past)                                *)
(* attempts is compared with max_attempts only, so it stops at MaxCount.   *)
(***************************************************************************)
EXTENDS Integers, CommandRegistry

CONSTANT MaxCount   \* where the attempts column stops counting

ASSUME MaxCountAssumption == MaxCount \in Nat

Never == -1

\* Statuses no guarded write leaves (the shorter list most guards use).
Settled  == {"installed", "failed", "completed"}
\* The statuses the delivery query calls finished.
Terminal == Settled \cup {"cancelled", "expired"}
InFlight == {"downloading", "installing"}
Interim  == InFlight \cup {"running"}
Status   == {"none", "delivered"} \cup Interim \cup Terminal

Row == [status : Status, recv : Nat \cup {Never}, touch : Nat,
        stalled : BOOLEAN, lease : {"none", "held", "lapsed"},
        attempts : 0..MaxCount]

NoRow == [status |-> "none", recv |-> Never, touch |-> 0, stalled |-> FALSE,
          lease |-> "none", attempts |-> 0]

\* updated_at = NOW().
Touched(r, now) == [r EXCEPT !.touch = now, !.stalled = FALSE]

\* Mutant of MarkDelivered: a row that is there is written over.
MarkDeliveredAnew(r, now) ==
    [Touched(r, now) EXCEPT !.status = IF @ \in Settled THEN @ ELSE "delivered"]

\* INSERT ... 'delivered' ON CONFLICT DO NOTHING
MarkDelivered(r, now) ==
    IF r.status = "none"
    THEN [NoRow EXCEPT !.status = "delivered", !.touch = now]
    ELSE r

\* Mutant of LeaseRow: a hand-out makes any unfinished row 'delivered'.
LeaseRowAnew(r, now) ==
    [Touched(r, now) EXCEPT
        !.status   = IF @ \in Terminal THEN @ ELSE "delivered",
        !.lease    = "held",
        !.attempts = IF @ < MaxCount THEN @ + 1 ELSE @]

\* A hand-out: lease taken, attempt counted, updated_at refreshed.  Only an
\* absent row changes status.
LeaseRow(r, now) ==
    [Touched(r, now) EXCEPT
        !.status   = IF @ = "none" THEN "delivered" ELSE @,
        !.lease    = "held",
        !.attempts = IF @ < MaxCount THEN @ + 1 ELSE @]

\* A fresh socket drops the leases of unfinished commands.
ReleaseRow(r, now) ==
    IF r.lease # "none" /\ r.status \notin Terminal
    THEN [Touched(r, now) EXCEPT !.lease = "none"]
    ELSE r

\* A terminal report from the device; then the lease is dropped.
AckRow(r, s, now) ==
    IF r.status \in Settled
    THEN [r EXCEPT !.lease = "none"]
    ELSE [Touched(r, now) EXCEPT !.status = s, !.lease = "none"]

\* The device confirms it has the command.  Only the first receipt counts.
ReceiveRow(r, now) ==
    IF r.status = "none"
    THEN [NoRow EXCEPT !.status = "delivered", !.recv = now, !.touch = now]
    ELSE IF r.recv = Never THEN [r EXCEPT !.recv = now] ELSE r

\* Mutant of ProgressRow: the status is written without a guard.
ProgressRowUnguarded(r, s, now) ==
    [Touched(r, now) EXCEPT !.status = s,
                            !.lease = IF @ = "none" THEN @ ELSE "held"]

\* An interim report; it extends a lease that exists.
ProgressRow(r, s, now) ==
    LET p == IF r.status \in Settled
             THEN r
             ELSE [Touched(r, now) EXCEPT !.status = s]
    IN  IF p.lease = "none" THEN p ELSE [p EXCEPT !.lease = "held"]

\* An operator takes the command out of the device's queue.
CancelRow(r, now) ==
    IF r.status \in Terminal
    THEN r
    ELSE [Touched(r, now) EXCEPT !.status = "cancelled"]

\* The stalled-install sweep.
ExpireInstallRow(r, now) == [Touched(r, now) EXCEPT !.status = "failed"]

\* The two shell sweeps.
FailShellRow(r, now) ==
    [Touched(r, now) EXCEPT !.status = "failed", !.lease = "none"]

\* Mutants of RebootAnswered: a check-in is proof enough; the row's last write
\* stands for the delivery.
RebootAnsweredByContact(r, bootedAt) == r.status = "delivered"
RebootAnsweredSinceTouch(r, bootedAt) ==
    r.status = "delivered" /\ r.touch < bootedAt

\* A boot dated after the row's stamp answers a delivered reboot.
RebootAnswered(r, bootedAt) ==
    /\ r.status = "delivered"
    /\ (IF r.recv # Never THEN r.recv ELSE r.touch) < bootedAt

CompleteRebootRow(r, now) == [Touched(r, now) EXCEPT !.status = "completed"]

\* The installed-app list settles an install whose last report was lost.
ReconcileRow(r, now) == [Touched(r, now) EXCEPT !.status = "installed"]
=============================================================================
