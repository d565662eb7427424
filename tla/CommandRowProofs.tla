-------------------------- MODULE CommandRowProofs --------------------------
(***************************************************************************)
(* Theorems about CommandQueue, from what a step can do to one row: what a *)
(* row says happened did happen, finished and cancelled rows stay so, a    *)
(* command the device never got stays due, and a reboot completes by a     *)
(* boot and by nothing else.                                               *)
(***************************************************************************)
EXTENDS CommandQueueProofs

\* What a check-in may date the boot to.
Dates == {2 * boot - 1, 2 * boot}

LEMMA DatesOf ==
    ASSUME TypeOK, NEW bootedAt \in BootTimes, NEW c \in Commands
    PROVE  bootedAt[c] \in Dates
BY QueueAssumption DEF BootTimes, Dates, TypeOK

\* What one step may make of the row of c.
RowMove(c) ==
    \/ row'[c] = row[c]
    \/ row'[c] = MarkDelivered(row[c], Now)
    \/ row'[c] = LeaseRow(row[c], Now)
    \/ row'[c] = ReleaseRow(row[c], Now)
    \/ row'[c] = [row[c] EXCEPT !.lease = "lapsed"]
    \/ TypeOf[c] \in InstallShaped /\ row'[c] = [row[c] EXCEPT !.stalled = TRUE]
    \/ dev[c] # "new" /\ row'[c] = ReceiveRow(row[c], Now)
    \/ row'[c] = CancelRow(row[c], Now)
    \/ \E s \in Reports(c) \cap Interim : row'[c] = ProgressRow(row[c], s, Now)
    \/ dev[c] \in TerminalReports /\ row'[c] = AckRow(row[c], dev[c], Now)
    \/ /\ Reconciles(c) /\ result' = result
       /\ row'[c] = ReconcileRow(row[c], Now)
    \/ /\ TypeOf[c] = "reboot" /\ \E b \in Dates : RebootAnswered(row[c], b)
       /\ row'[c] = CompleteRebootRow(row[c], Now)
    \/ /\ TypeOf[c] \in ShellLane /\ row[c].status \in {"delivered", "running"}
       /\ row'[c] = FailShellRow(row[c], Now)
    \/ /\ TypeOf[c] \in InstallShaped /\ row[c].status \in InFlight
       /\ row'[c] = ExpireInstallRow(row[c], Now)

LEMMA OneRow ==
    ASSUME TypeOK, NEW c \in Commands, NEW r, WriteRow(c, r)
    PROVE  row'[c] = r /\ \A d \in Commands \ {c} : row'[d] = row[d]
BY DEF TypeOK, WriteRow, WriteRows

\* Row by row, a step is one of the statements on command_status.
LEMMA RowMoves ==
    ASSUME TypeOK, [Next]_vars
    PROVE  \A d \in Commands : RowMove(d)
<1> USE DEF dbVars, serverVars, deviceVars, histVars
<1> DEFINE Goal == \A d \in Commands : RowMove(d)
<1>0. UNCHANGED row => Goal
  BY DEF RowMove
<1>1. CASE Operator
  <2>1. ASSUME NEW c \in Commands, WriteRow(c, CancelRow(row[c], Now)) PROVE Goal
    BY <2>1, OneRow DEF RowMove
  <2> QED
    BY <1>0, <1>1, <2>1 DEF Operator, CreateByApi, CreateByDashboard,
       CancelByApi, CancelByDashboard
<1>2. CASE Clock
  <2>1. ASSUME NEW c \in Commands, LeaseLapses(c) PROVE Goal
    BY <2>1, OneRow DEF RowMove, LeaseLapses
  <2>2. ASSUME NEW c \in Commands, Stalls(c) PROVE Goal
    BY <2>2, OneRow DEF RowMove, Stalls
  <2> QED
    BY <1>0, <1>2, <2>1, <2>2 DEF Clock, AgeOut
<1>3. ASSUME NEW w \in Workers, Work(w) PROVE Goal
  <2>1. CASE ReleaseLeases(w)
    BY <2>1 DEF ReleaseLeases, WriteRows, RowMove
  <2>2. CASE Mark(w)
    <3>1. Current(w) \in Commands
      BY <2>2, AtWork DEF Mark, At, Steps
    <3> QED
      BY <2>2, <3>1, OneRow DEF Mark, RowMove
  <2>3. CASE Lease(w)
    <3>1. Current(w) \in Commands
      BY <2>3, AtWork DEF Lease, At, Steps
    <3> QED
      BY <2>3, <3>1, OneRow DEF Lease, RowMove
  <2> QED
    BY <1>0, <1>3, <2>1, <2>2, <2>3 DEF Work, ReadDue, Send, Respond
<1>4. CASE Delivery
  BY <1>0, <1>3, <1>4 DEF Delivery, StartFlush, StartPull, StartRedrive, WriteFails
<1>5. ASSUME NEW c \in Commands, HandleReceipt(c) PROVE Goal
  <2>1. dev[c] # "new"
    BY <1>5 DEF HandleReceipt, Reports, InterimOf, InFlight, TerminalReports
  <2> QED
    BY <1>5, <2>1, OneRow DEF HandleReceipt, RowMove
<1>6. ASSUME NEW c \in Commands, HandleProgress(c) PROVE Goal
  <2>1. PICK s \in Reports(c) \cap Interim : WriteRow(c, ProgressRow(row[c], s, Now))
    BY <1>6 DEF HandleProgress
  <2> QED
    BY <2>1, OneRow DEF RowMove
<1>7. ASSUME NEW c \in Commands, NEW w \in Workers, NEW output \in BOOLEAN,
             HandleTerminal(w, c, output)
      PROVE  Goal
  BY <1>7, OneRow DEF HandleTerminal, RowMove
<1>8. CASE Report
  BY <1>5, <1>6, <1>7, <1>8 DEF Report
<1>9. ASSUME NEW w \in Workers, NEW withApps \in BOOLEAN, NEW uptime \in BOOLEAN,
             NEW bootedAt \in BootTimes, CheckIn(w, withApps, uptime, bootedAt)
      PROVE  Goal
  <2>1. result' = result
    BY <1>9 DEF CheckIn
  <2> SUFFICES ASSUME NEW d \in Commands PROVE RowMove(d)
    OBVIOUS
  <2>2. \/ row'[d] = row[d]
        \/ Reconciles(d) /\ row'[d] = ReconcileRow(row[d], Now)
        \/ /\ TypeOf[d] = "reboot" /\ RebootAnswered(row[d], bootedAt[d])
           /\ row'[d] = CompleteRebootRow(row[d], Now)
        \/ /\ TypeOf[d] \in ShellLane /\ row[d].status \in {"delivered", "running"}
           /\ row'[d] = FailShellRow(row[d], Now)
    BY <1>9 DEF CheckIn, WriteRows
  <2>3. bootedAt[d] \in Dates
    BY DatesOf
  <2> QED
    BY <2>1, <2>2, <2>3 DEF RowMove
<1>10. ASSUME NEW w \in Workers, NEW c \in Commands, ExpireStalledInstall(w, c)
       PROVE  Goal
  BY <1>10, OneRow DEF ExpireStalledInstall, RowMove
<1>11. ASSUME NEW w \in Workers, NEW c \in Commands, FailOverdueShell(w, c)
       PROVE  Goal
  BY <1>11, OneRow DEF FailOverdueShell, RowMove
<1>12. CASE Upkeep
  BY <1>9, <1>10, <1>11, <1>12 DEF Upkeep
<1>13. CASE Link \/ Device \/ UNCHANGED vars
  BY <1>0, <1>13 DEF Link, Connect, Disconnect, Restart, Device, Begin, Finish,
     BootNears, BootAgain, vars
<1> QED
  BY <1>1, <1>2, <1>4, <1>8, <1>12, <1>13 DEF Next

-----------------------------------------------------------------------------
(* Finished rows.                                                          *)

LEMMA SettledMove ==
    ASSUME TypeOK, NEW c \in Commands, RowMove(c), row[c].status \in Settled
    PROVE  \/ row'[c].status = row[c].status
           \/ /\ row[c].status = "failed" /\ row'[c].status = "installed"
              /\ TypeOf[c] = "install_apk" /\ c \notin result'
<1>1. row[c] \in Row
  BY RowHere
<1> QED
  BY <1>1 DEF Touched, RowMove, Row, Settled, Terminal, InFlight, MarkDelivered, LeaseRow,
     ReleaseRow, ReceiveRow, CancelRow, ProgressRow, AckRow, Reconciles, ReconcileRow,
     RebootAnswered, CompleteRebootRow, FailShellRow, ExpireInstallRow

\* However many commands, goroutines and boots: late and repeated reports,
\* sweeps and hand-outs leave a settled row settled, but for the install the
\* sweep failed and the app list shows (AckCommand, SetCommandProgressBytes,
\* ReconcileInstalledCommands).
THEOREM SettledStays == Spec => SettledIsFinal
<1>1. TypeOK /\ [Next]_vars =>
        [\A c \in Commands :
           row[c].status \in Settled =>
             \/ row'[c].status = row[c].status
             \/ /\ row[c].status = "failed" /\ row'[c].status = "installed"
                /\ TypeOf[c] = "install_apk" /\ c \notin result']_vars
  BY RowMoves, SettledMove
<1> QED
  BY <1>1, TypeCorrect, PTL DEF Spec, SettledIsFinal

-----------------------------------------------------------------------------
(* What the device is at with a command, and what it has, for the rows to   *)
(* be compared with: a command it took in it never forgets, an end it came  *)
(* to it stands by, and the app stays.                                      *)

DevMove(c) ==
    \/ dev'[c] = dev[c]
    \/ dev[c] = "new" /\ dev'[c] = "got"
    \/ /\ dev[c] \in {"got", "running"}
       /\ dev'[c] \in {"running", "rebooted", "lost"} \cup TerminalReports

LEMMA DevMoves ==
    ASSUME TypeOK, [Next]_vars
    PROVE  (\A c \in Commands : DevMove(c)) /\ (present => present')
<1> DEFINE Goal == (\A c \in Commands : DevMove(c)) /\ (present => present')
<1> USE DEF dbVars, serverVars, deviceVars, histVars
<1>0. UNCHANGED <<dev, present>> => Goal
  BY DEF DevMove
<1>1. CASE Operator \/ Clock \/ Report \/ Upkeep \/ Link \/ UNCHANGED vars
  <2>1. UNCHANGED <<dev, present>>
    BY <1>1 DEF Operator, CreateByApi, CreateByDashboard, CancelByApi,
       CancelByDashboard, Clock, AgeOut, LeaseLapses, Stalls, Report, HandleReceipt,
       HandleProgress, HandleTerminal, Upkeep, CheckIn, ExpireStalledInstall,
       FailOverdueShell, Link, Connect, Disconnect, Restart, vars
  <2> QED
    BY <1>0, <2>1
<1>2. ASSUME NEW C, Receive(C), present' = present PROVE Goal
  BY <1>2 DEF Receive, DevMove
<1>3. CASE Delivery
  BY <1>0, <1>2, <1>3 DEF Delivery, StartFlush, StartPull, StartRedrive, Work,
     ReleaseLeases, ReadDue, Send, Refused, Accepted, Mark, Lease, Respond,
     WriteFails
<1>4. ASSUME NEW d \in Commands, Begin(d) \/ \E ok \in Outcomes : Finish(d, ok)
      PROVE  Goal
  <2>1. present => present'
    BY <1>4 DEF Begin, Finish
  <2>2. \A c \in Commands : DevMove(c)
    BY <1>4 DEF Begin, Finish, TypeOK, TerminalReports, DevMove
  <2> QED
    BY <2>1, <2>2
<1>5. ASSUME NEW C, BootAgain(C) PROVE Goal
  BY <1>5 DEF BootAgain, DevMove
<1>6. CASE BootNears
  BY <1>0, <1>6 DEF BootNears
<1> QED
  BY <1>1, <1>3, <1>4, <1>5, <1>6 DEF Next, Device

-----------------------------------------------------------------------------
(* Outcomes.                                                               *)

LEMMA InitOutcome == Init => OutcomeIsReal
BY DEF Init, OutcomeIsReal, NoRow

\* Where an outcome in a row can come from.
LEMMA OutcomeMove ==
    ASSUME TypeOK, NEW c \in Commands, RowMove(c), row'[c].status # row[c].status
    PROVE  /\ row'[c].status = "installed" =>
                dev[c] = "installed" \/ (TypeOf[c] = "install_apk" /\ present)
           /\ row'[c].status = "completed" =>
                dev[c] = "completed" \/ TypeOf[c] = "reboot"
           /\ row'[c].status = "failed" =>
                dev[c] = "failed" \/ TypeOf[c] \in InstallShaped \cup ShellLane
<1>1. row[c] \in Row
  BY RowHere
<1> QED
  BY <1>1 DEF Touched, RowMove, Row, NoRow, Interim, InFlight, Reconciles, MarkDelivered,
     LeaseRow, ReleaseRow, ReceiveRow, CancelRow, ProgressRow, AckRow,
     ReconcileRow, CompleteRebootRow, FailShellRow, ExpireInstallRow

LEMMA NextOutcome == TypeOK /\ OutcomeIsReal /\ [Next]_vars => OutcomeIsReal'
<1> SUFFICES ASSUME TypeOK, OutcomeIsReal, [Next]_vars, NEW c \in Commands
             PROVE  /\ row'[c].status = "installed" =>
                         \/ dev'[c] = "installed"
                         \/ TypeOf[c] = "install_apk" /\ present'
                    /\ row'[c].status = "completed" =>
                         dev'[c] = "completed" \/ TypeOf[c] = "reboot"
                    /\ row'[c].status = "failed" =>
                         \/ dev'[c] = "failed"
                         \/ TypeOf[c] \in InstallShaped \cup ShellLane
  BY DEF OutcomeIsReal
<1>1. RowMove(c) /\ DevMove(c) /\ (present => present')
  BY RowMoves, DevMoves
<1>2. \A s \in TerminalReports : dev[c] = s => dev'[c] = s
  BY <1>1 DEF DevMove, TerminalReports
<1>3. CASE row'[c].status = row[c].status
  BY <1>1, <1>2, <1>3 DEF OutcomeIsReal, DevMove, TerminalReports
<1>4. CASE row'[c].status # row[c].status
  BY <1>1, <1>2, <1>4, OutcomeMove DEF DevMove, TerminalReports
<1> QED
  BY <1>3, <1>4

\* For every number of commands, boots and goroutines, a row says 'installed',
\* 'completed' or 'failed' only if the device said so, the app or a boot shows
\* it, or the command is of a type the sweeps give up on (AckCommand,
\* ReconcileInstalledCommands, CompleteDeliveredReboots).
THEOREM OutcomesAreReal == Spec => []OutcomeIsReal
BY InitOutcome, NextOutcome, TypeCorrect, PTL DEF Spec

-----------------------------------------------------------------------------
(* Cancelled commands.                                                     *)

LEMMA CancelledMove ==
    ASSUME TypeOK, NEW c \in Commands, RowMove(c),
           row[c].status = "cancelled", row'[c].status # "cancelled"
    PROVE  \/ dev[c] # "new" /\ row'[c].status \in Reports(c)
           \/ /\ row'[c].status = "installed"
              /\ TypeOf[c] = "install_apk" /\ present
<1>1. row[c] \in Row
  BY RowHere
<1>2. ASSUME NEW s \in Reports(c) \cap Interim, row'[c] = ProgressRow(row[c], s, Now)
      PROVE  dev[c] # "new" /\ row'[c].status \in Reports(c)
  <2>1. row'[c].status = s
    BY <1>1, <1>2 DEF Touched, ProgressRow, Row, Settled
  <2>2. dev[c] # "new"
    BY DEF Reports, InterimOf, Interim, InFlight, TerminalReports
  <2> QED
    BY <2>1, <2>2
<1>3. ASSUME dev[c] \in TerminalReports, row'[c] = AckRow(row[c], dev[c], Now)
      PROVE  dev[c] # "new" /\ row'[c].status \in Reports(c)
  <2>1. row'[c].status = dev[c]
    BY <1>1, <1>3 DEF Touched, AckRow, Row, Settled
  <2> QED
    BY <1>3, <2>1 DEF Reports, TerminalReports
<1>4. ASSUME Reconciles(c), row'[c] = ReconcileRow(row[c], Now)
      PROVE  /\ row'[c].status = "installed"
             /\ TypeOf[c] = "install_apk" /\ present
  BY <1>1, <1>4 DEF Touched, Reconciles, ReconcileRow, Row
<1>5. \/ \E s \in Reports(c) \cap Interim : row'[c] = ProgressRow(row[c], s, Now)
      \/ dev[c] \in TerminalReports /\ row'[c] = AckRow(row[c], dev[c], Now)
      \/ Reconciles(c) /\ row'[c] = ReconcileRow(row[c], Now)
  BY <1>1 DEF Touched, RowMove, Row, Terminal, InFlight, MarkDelivered, LeaseRow, ReleaseRow,
     ReceiveRow, CancelRow, RebootAnswered
<1> QED
  BY <1>2, <1>3, <1>4, <1>5

\* However lists read before the cancel, re-pushes, leases and sweeps
\* interleave with it, nothing but a report of a device that had the command,
\* or the app being there, takes it out of 'cancelled' (CancelCommand).
THEOREM CancelsHold == Spec => CancelHolds
<1>1. TypeOK /\ [Next]_vars =>
        [\A c \in Commands :
           row[c].status = "cancelled" /\ row'[c].status # "cancelled" =>
             \/ dev[c] # "new" /\ row'[c].status \in Reports(c)
             \/ /\ row'[c].status = "installed"
                /\ TypeOf[c] = "install_apk" /\ present]_vars
  BY RowMoves, CancelledMove
<1> QED
  BY <1>1, TypeCorrect, PTL DEF Spec, CancelHolds

-----------------------------------------------------------------------------
(* Commands the device never got.  StillDue is not inductive: it does not    *)
(* say that such a row has no receipt and no interim status, which is what  *)
(* keeps the due list from passing over it.                                 *)

Unheard(c) == /\ row[c].recv = Never
              /\ row[c].status \in {"none", "delivered"} \cup Terminal

DueInv == \A c \in Commands : dev[c] = "new" => Unheard(c)

LEMMA InitDue == Init => DueInv
BY DEF Init, DueInv, Unheard, NoRow

LEMMA UnheardMove ==
    ASSUME TypeOK, NEW c \in Commands, RowMove(c), dev[c] = "new", Unheard(c)
    PROVE  Unheard(c)'
<1>1. row[c] \in Row
  BY RowHere
<1>2. dev[c] \notin TerminalReports /\ Reports(c) \cap Interim = {}
  BY DEF Reports, InterimOf, Interim, InFlight, TerminalReports
<1> QED
  BY <1>1, <1>2 DEF Touched, RowMove, Row, NoRow, Unheard, Terminal, Settled, Never,
     MarkDelivered, LeaseRow, ReleaseRow, CancelRow, ReconcileRow,
     CompleteRebootRow, FailShellRow, ExpireInstallRow

LEMMA NextDue == TypeOK /\ DueInv /\ [Next]_vars => DueInv'
<1> SUFFICES ASSUME TypeOK, DueInv, [Next]_vars, NEW c \in Commands, dev'[c] = "new"
             PROVE  Unheard(c)'
  BY DEF DueInv
<1>1. RowMove(c) /\ DevMove(c)
  BY RowMoves, DevMoves
<1>2. dev[c] = "new"
  BY <1>1 DEF DevMove, TerminalReports
<1> QED
  BY <1>1, <1>2, UnheardMove DEF DueInv

LEMMA UnheardIsDue == TypeOK /\ DueInv => StillDue
<1> SUFFICES ASSUME TypeOK, DueInv, NEW c \in Created,
                    dev[c] = "new", row[c].status \notin Terminal
             PROVE  \/ Offerable(c)
                    \/ row[c].lease = "held"
                    \/ TypeOf[c] = "reboot" /\ row[c].status = "delivered"
                    \/ /\ MaxAttempts(TypeOf[c]) > 0
                       /\ row[c].attempts >= MaxAttempts(TypeOf[c])
  BY DEF StillDue
<1>1. c \in Commands
  BY QueueAssumption DEF TypeOK, Created, Commands
<1>2. Unheard(c)
  BY <1>1 DEF DueInv
<1> QED
  BY <1>2 DEF Offerable, Unheard, InFlight

\* Whatever frames, statements and goroutines are lost, a command that never
\* reached the device and is not finished is on the due list, or waits for a
\* lease to lapse; only a reboot already sent and a type whose attempts are used
\* up are passed over (GetPendingCommandsForDevice).
THEOREM UnreachedStaysDue == Spec => []StillDue
BY InitDue, NextDue, UnheardIsDue, TypeCorrect, PTL DEF Spec

-----------------------------------------------------------------------------
(* The life of a command.                                                   *)

\* One row's move, in the stages of CommandLife.
LEMMA MoveShows ==
    ASSUME TypeOK, NEW c \in Commands, RowMove(c)
    PROVE  Life!Shows(c)
<1> DEFINE s == row[c].status
           q == row'[c].status
<1>1. row[c] \in Row
  BY RowHere
<1>2. Reports(c) \cap Interim # {} => EndOf(dev[c]) # "away"
  BY DEF Reports, InterimOf, Interim, InFlight, TerminalReports, EndOf
<1>3. dev[c] \in TerminalReports =>
        /\ EndOf(dev[c]) \in {"done", "failed"}
        /\ StageOf(dev[c]) = EndOf(dev[c])
  BY DEF TerminalReports, EndOf, StageOf, Interim, InFlight
<1>4. \/ q = s
      \/ s = "none" /\ q = "delivered"
      \/ s \notin Settled /\ q \in Interim /\ EndOf(dev[c]) # "away"
      \/ s \notin Settled /\ dev[c] \in TerminalReports /\ q = dev[c]
      \/ s \notin Settled /\ q = "cancelled"
      \/ c \in AppInstalls /\ present /\ q = "installed"
      \/ c \in Reboots /\ s = "delivered" /\ q = "completed"
      \/ c \in Watched /\ s \in {"delivered"} \cup Interim /\ q = "failed"
  <2> DEFINE Quiet == {row[c], MarkDelivered(row[c], Now), LeaseRow(row[c], Now),
                       ReleaseRow(row[c], Now), [row[c] EXCEPT !.lease = "lapsed"],
                       [row[c] EXCEPT !.stalled = TRUE], ReceiveRow(row[c], Now)}
  <2>1. ASSUME row'[c] \in Quiet
        PROVE  q = s \/ (s = "none" /\ q = "delivered")
    BY <1>1, <2>1 DEF Touched, Row, NoRow, MarkDelivered, LeaseRow, ReleaseRow, ReceiveRow
  <2>2. ASSUME row'[c] = CancelRow(row[c], Now)
        PROVE  q = s \/ (s \notin Settled /\ q = "cancelled")
    BY <1>1, <2>2 DEF Touched, Row, CancelRow, Terminal
  <2>3. ASSUME NEW i \in Reports(c) \cap Interim, row'[c] = ProgressRow(row[c], i, Now)
        PROVE  q = s \/ (s \notin Settled /\ q = i)
    BY <1>1, <2>3 DEF Touched, Row, ProgressRow
  <2>4. ASSUME row'[c] = AckRow(row[c], dev[c], Now)
        PROVE  q = s \/ (s \notin Settled /\ q = dev[c])
    BY <1>1, <2>4 DEF Touched, Row, AckRow
  <2>5. ASSUME Reconciles(c), row'[c] = ReconcileRow(row[c], Now)
        PROVE  c \in AppInstalls /\ present /\ q = "installed"
    BY <1>1, <2>5 DEF Touched, Row, Reconciles, ReconcileRow, AppInstalls
  <2>6. ASSUME TypeOf[c] = "reboot", NEW b \in Dates, RebootAnswered(row[c], b),
               row'[c] = CompleteRebootRow(row[c], Now)
        PROVE  c \in Reboots /\ s = "delivered" /\ q = "completed"
    BY <1>1, <2>6 DEF Touched, Row, RebootAnswered, CompleteRebootRow, Reboots
  <2>7. ASSUME TypeOf[c] \in ShellLane, s \in {"delivered", "running"},
               row'[c] = FailShellRow(row[c], Now)
        PROVE  c \in Watched /\ s \in {"delivered"} \cup Interim /\ q = "failed"
    BY <1>1, <2>7 DEF Touched, Row, FailShellRow, Watched, Interim
  <2>8. ASSUME TypeOf[c] \in InstallShaped, s \in InFlight,
               row'[c] = ExpireInstallRow(row[c], Now)
        PROVE  c \in Watched /\ s \in {"delivered"} \cup Interim /\ q = "failed"
    BY <1>1, <2>8 DEF Touched, Row, ExpireInstallRow, Watched, Interim
  <2> HIDE DEF s, q
  <2> QED
    BY <1>2, <2>1, <2>2, <2>3, <2>4, <2>5, <2>6, <2>7, <2>8 DEF RowMove, s
<1>5. /\ StageOf("none") = "waiting" /\ StageOf("delivered") = "sent"
      /\ StageOf("cancelled") = "withdrawn"
      /\ StageOf("installed") = "done" /\ StageOf("completed") = "done"
      /\ StageOf("failed") = "failed"
      /\ \A i \in Interim : StageOf(i) = "working"
  BY DEF StageOf, Interim, InFlight
<1>6. s \in Status /\ (s \notin Settled => StageOf(s) \notin {"done", "failed"})
  BY <1>1 DEF Row, Status, StageOf, Settled, Terminal, Interim, InFlight
<1> QED
  BY <1>3, <1>4, <1>5, <1>6
  DEF Life!Shows, Life!Becomes, Life!Send, Life!Hear, Life!Conclude, Life!Withdraw,
      Life!SeeApp, Life!SeeBoot, Life!GiveUp, Life!Ends

LEMMA MoveHappens ==
    ASSUME NEW c \in Commands, DevMove(c)
    PROVE  Life!Happens(c)
BY DEF DevMove, TerminalReports, EndOf, Life!Happens, Life!Ends

LEMMA LifeInit == Init => Life!Init
<1> SUFFICES ASSUME Init PROVE Life!Init
  OBVIOUS
<1>1. StageOf("none") = "waiting" /\ EndOf("new") = "away"
  BY DEF StageOf, EndOf, Interim, InFlight
<1>2. \A c \in Commands : row[c].status = "none" /\ dev[c] = "new"
  BY DEF Init, NoRow
<1>3. present \in BOOLEAN
  BY QueueAssumption DEF Init
<1> QED
  BY <1>1, <1>2, <1>3 DEF Life!Init

LEMMA LifeNext == TypeOK /\ [Next]_vars => Life!Next
<1> SUFFICES ASSUME TypeOK, [Next]_vars PROVE Life!Next
  OBVIOUS
<1>1. \A c \in Commands : Life!Shows(c)
  BY RowMoves, MoveShows
<1>2. \A c \in Commands : Life!Happens(c)
  BY DevMoves, MoveHappens
<1>3. present => present'
  BY DevMoves
<1> QED
  BY <1>1, <1>2, <1>3 DEF Life!Next

\* Every behaviour of the queue, with all its paths, goroutines and crossing
\* reports, is one of CommandLife once rows are read as stages: nothing that was
\* sent waits again, and nothing is shown at work or over but on the device's
\* word, on what a check-in shows, or as given up.
THEOREM QueueLivesAsPromised == Spec => LivesAsPromised
<1>1. TypeOK /\ [Next]_vars => [Life!Next]_(Life!vars)
  BY LifeNext
<1> QED
  BY <1>1, LifeInit, TypeCorrect, PTL DEF Spec, LivesAsPromised, Life!Spec

-----------------------------------------------------------------------------
(* Reports out of order.                                                    *)

\* A terminal report comes to the same status whichever statement on the row it
\* overtakes or follows, and a repetition of it changes nothing: a late receipt
\* or progress report, a hand-out, a lease drop or a cancel that crosses it
\* makes no difference to the outcome (AckCommand, MarkCommandReceived,
\* SetCommandProgressBytes, CancelCommand).
THEOREM ReportsConverge ==
    ASSUME NEW r \in Row, r.status \notin Settled, NEW s \in TerminalReports,
           NEW i \in Interim, NEW now \in Nat, NEW later \in Nat
    PROVE  LET done == AckRow(r, s, now) IN
           /\ AckRow(done, s, later) = done
           /\ \A q \in {MarkDelivered(r, now), LeaseRow(r, now), ReleaseRow(r, now),
                        ReceiveRow(r, now), ProgressRow(r, i, now), CancelRow(r, now)} :
                AckRow(q, s, later).status = s
           /\ \A q \in {MarkDelivered(done, later), LeaseRow(done, later),
                        ReleaseRow(done, later), ReceiveRow(done, later),
                        ProgressRow(done, i, later), CancelRow(done, later)} :
                q.status = s
<1> DEFINE done == AckRow(r, s, now)
<1>1. done = [r EXCEPT !.status = s, !.touch = now, !.stalled = FALSE,
                       !.lease = "none"]
  BY DEF AckRow, Touched
<1>2. s \in Settled /\ i \notin Settled
  BY DEF TerminalReports, Settled, Interim, InFlight
<1>3. AckRow(done, s, later) = done
  BY <1>1, <1>2 DEF Touched, AckRow, Row
<1>4. \A q \in {MarkDelivered(done, later), LeaseRow(done, later),
                ReleaseRow(done, later), ReceiveRow(done, later),
                ProgressRow(done, i, later), CancelRow(done, later)} :
        q.status = s
  <2>1. done \in Row /\ done.status = s /\ done.lease = "none" /\ s \in Terminal
    BY <1>1, <1>2 DEF Row, Status, Terminal
  <2>2. s # "none"
    BY DEF TerminalReports
  <2> HIDE DEF done
  <2>3. /\ MarkDelivered(done, later).status = s
        /\ LeaseRow(done, later).status = s
        /\ ReceiveRow(done, later).status = s
    BY <2>1, <2>2 DEF Touched, Row, MarkDelivered, LeaseRow, ReceiveRow
  <2>4. /\ ReleaseRow(done, later).status = s
        /\ ProgressRow(done, i, later).status = s
        /\ CancelRow(done, later).status = s
    BY <1>2, <2>1 DEF Touched, Row, ReleaseRow, ProgressRow, CancelRow
  <2> QED
    BY <2>3, <2>4
<1>5. ASSUME NEW q \in Row, q.status \notin Settled
      PROVE  AckRow(q, s, later).status = s
  BY <1>5 DEF Touched, AckRow, Row
<1>6. \A q \in {MarkDelivered(r, now), LeaseRow(r, now), ReleaseRow(r, now),
                ReceiveRow(r, now), ProgressRow(r, i, now), CancelRow(r, now)} :
        q \in Row /\ q.status \notin Settled
  <2>1. i \in Status
    BY DEF Status
  <2>2. \A q \in {MarkDelivered(r, now), LeaseRow(r, now), ReleaseRow(r, now),
                  ReceiveRow(r, now), ProgressRow(r, i, now), CancelRow(r, now)} :
          q \in Row
    BY <2>1, RowOps
  <2>3. /\ MarkDelivered(r, now).status \notin Settled
        /\ LeaseRow(r, now).status \notin Settled
    BY DEF Touched, Row, NoRow, MarkDelivered, LeaseRow, Settled
  <2>4. /\ ReceiveRow(r, now).status \notin Settled
        /\ ReleaseRow(r, now).status \notin Settled
    BY DEF Touched, Row, NoRow, ReceiveRow, ReleaseRow, Settled
  <2>5. /\ ProgressRow(r, i, now).status \notin Settled
        /\ CancelRow(r, now).status \notin Settled
    BY <1>2 DEF Touched, Row, ProgressRow, CancelRow, Settled
  <2> QED
    BY <2>2, <2>3, <2>4, <2>5
<1> QED
  BY <1>3, <1>4, <1>5, <1>6

-----------------------------------------------------------------------------
(* Reboots.  What both reboot invariants rest on: the stamps the date of a  *)
(* boot is compared with lie between the delivery and now, the date is the  *)
(* boot's or 15 seconds earlier, and the device never reports a result of a *)
(* reboot, so the comparison is the only way to 'completed'.                *)

RebootRow(c) ==
    /\ dev[c] \in {"new", "got", "rebooted"}
    /\ row[c].touch \in 0..Now
    /\ row[c].recv \in 0..Now \cup {Never}
    /\ row[c].status = "none" => row[c].recv = Never
    /\ row[c].status = "delivered" =>
         /\ delivAt[c] \in 0..row[c].touch
         /\ row[c].recv # Never => delivAt[c] <= row[c].recv
         /\ row[c].recv \notin 0..(2 * seenBoot - 2)
    /\ row[c].status = "completed" => delivAt[c] \in 0..(2 * boot - 1)

RebootInv == \A c \in Commands : TypeOf[c] = "reboot" => RebootRow(c)

\* What one step may make of the row of a reboot.
RebootMove(c) ==
    \/ row'[c] = row[c]
    \/ row'[c] = MarkDelivered(row[c], Now)
    \/ row'[c] = LeaseRow(row[c], Now)
    \/ row'[c] = ReleaseRow(row[c], Now)
    \/ row'[c] = [row[c] EXCEPT !.lease = "lapsed"]
    \/ row'[c] = ReceiveRow(row[c], Now)
    \/ row'[c] = CancelRow(row[c], Now)
    \/ /\ \E b \in Dates : RebootAnswered(row[c], b)
       /\ row'[c] = CompleteRebootRow(row[c], Now)

LEMMA RebootMoves ==
    ASSUME TypeOK, NEW c \in Commands, TypeOf[c] = "reboot", RebootRow(c), RowMove(c)
    PROVE  RebootMove(c)
<1>1. Reports(c) \cap Interim = {}
  BY DEF Reports, InterimOf, Installs, RebootRow, TerminalReports, Interim, InFlight
<1>2. dev[c] \notin TerminalReports
  BY DEF RebootRow, TerminalReports
<1>3. "reboot" \notin ShellLane \cup InstallShaped
  BY DEF ShellLane, InstallShaped
<1> QED
  BY <1>1, <1>2, <1>3 DEF RowMove, RebootMove, Reconciles

\* A check-in that tells the uptime answers every reboot from before the date.
Answers(c) ==
    \E b \in Dates : row'[c] = IF RebootAnswered(row[c], b)
                               THEN CompleteRebootRow(row[c], Now) ELSE row[c]

\* A boot and the time before it write no row.
BootMove ==
    \/ UNCHANGED <<boot, late, seenBoot>>
    \/ /\ \/ boot' = boot + 1 /\ late' = FALSE
          \/ boot' = boot /\ ~ late /\ late' = TRUE
       /\ UNCHANGED <<row, delivAt, seenBoot>>
    \/ /\ UNCHANGED <<boot, late>> /\ seenBoot' = boot
       /\ \A c \in Commands : TypeOf[c] = "reboot" => Answers(c)

LEMMA BootMoves == ASSUME TypeOK, [Next]_vars PROVE BootMove
<1> USE DEF dbVars, serverVars, deviceVars, histVars, BootMove
<1>1. CASE Operator
  BY <1>1 DEF Operator, CreateByApi, CreateByDashboard, CancelByApi, CancelByDashboard
<1>2. CASE Clock
  BY <1>2 DEF Clock, AgeOut, LeaseLapses, Stalls
<1>3. CASE Delivery
  BY <1>3 DEF Delivery, StartFlush, StartPull, StartRedrive, Work,
     ReleaseLeases, ReadDue, Send, Mark, Lease, Respond, WriteFails
<1>4. CASE Report
  BY <1>4 DEF Report, HandleReceipt, HandleProgress, HandleTerminal
<1>5. CASE Upkeep
  <2>1. ASSUME NEW w \in Workers, NEW withApps \in BOOLEAN, NEW uptime \in BOOLEAN,
               NEW bootedAt \in BootTimes, CheckIn(w, withApps, uptime, bootedAt)
        PROVE  BootMove
    <3>1. UNCHANGED <<boot, late>> /\ seenBoot' = IF uptime THEN boot ELSE seenBoot
      BY <2>1 DEF CheckIn
    <3>2. "reboot" # "install_apk" /\ "reboot" \notin ShellLane
      BY DEF ShellLane
    <3>3. ASSUME uptime, NEW c \in Commands, TypeOf[c] = "reboot"
          PROVE  Answers(c)
      <4>1. row'[c] = IF RebootAnswered(row[c], bootedAt[c])
                      THEN CompleteRebootRow(row[c], Now) ELSE row[c]
        BY <2>1, <3>2, <3>3 DEF CheckIn, WriteRows, Reconciles
      <4> QED
        BY <4>1, DatesOf DEF Answers
    <3> QED
      BY <3>1, <3>3
  <2>2. ASSUME NEW w \in Workers, NEW c \in Commands,
               ExpireStalledInstall(w, c) \/ FailOverdueShell(w, c)
        PROVE  BootMove
    BY <2>2 DEF ExpireStalledInstall, FailOverdueShell
  <2> QED
    BY <1>5, <2>1, <2>2 DEF Upkeep
<1>6. CASE Link
  BY <1>6 DEF Link, Connect, Disconnect, Restart
<1>7. CASE Device
  BY <1>7 DEF Device, Begin, Finish, BootNears, BootAgain
<1>8. CASE UNCHANGED vars
  BY <1>8 DEF vars
<1> QED
  BY <1>1, <1>2, <1>3, <1>4, <1>5, <1>6, <1>7, <1>8 DEF Next

\* A reboot is taken in and obeyed; it has no result of its own.
LEMMA RebootDev ==
    ASSUME TypeOK, [Next]_vars, NEW c \in Commands, TypeOf[c] = "reboot",
           dev[c] \in {"new", "got", "rebooted"}
    PROVE  dev'[c] \in {"new", "got", "rebooted"}
<1> USE DEF dbVars, serverVars, deviceVars, histVars
<1>1. CASE Operator \/ Clock \/ Report \/ Upkeep \/ Link \/ UNCHANGED vars
  BY <1>1 DEF Operator, CreateByApi, CreateByDashboard, CancelByApi,
     CancelByDashboard, Clock, AgeOut, LeaseLapses, Stalls, Report, HandleReceipt,
     HandleProgress, HandleTerminal, Upkeep, CheckIn, ExpireStalledInstall,
     FailOverdueShell, Link, Connect, Disconnect, Restart, vars
<1>2. ASSUME NEW C, Receive(C) PROVE dev'[c] \in {"new", "got", "rebooted"}
  BY <1>2 DEF Receive
<1>3. CASE Delivery
  BY <1>2, <1>3 DEF Delivery, StartFlush, StartPull, StartRedrive, Work,
     ReleaseLeases, ReadDue, Send, Refused, Accepted, Mark, Lease, Respond,
     WriteFails
<1>4. ASSUME NEW d \in Commands, Begin(d) \/ \E ok \in Outcomes : Finish(d, ok)
      PROVE  dev'[c] \in {"new", "got", "rebooted"}
  BY <1>4 DEF Begin, Finish, TypeOK
<1>5. ASSUME NEW C, BootAgain(C) PROVE dev'[c] \in {"new", "got", "rebooted"}
  BY <1>5 DEF BootAgain
<1>6. CASE BootNears
  BY <1>6 DEF BootNears
<1> QED
  BY <1>1, <1>3, <1>4, <1>5, <1>6 DEF Next, Device

LEMMA InitReboot == Init => RebootInv
BY QueueAssumption DEF Init, RebootInv, RebootRow, NoRow, Never, Now

\* One row, one step, the time being the same.
LEMMA RebootRowKept ==
    ASSUME TypeOK, NEW c \in Commands, RebootRow(c), RebootMove(c), BootMove,
           TypeOf[c] = "reboot", UNCHANGED <<boot, late>>,
           dev'[c] \in {"new", "got", "rebooted"},
           delivAt'[c] = IF row[c].status = "none" /\ row'[c].status = "delivered"
                         THEN Now ELSE delivAt[c]
    PROVE  RebootRow(c)'
<1> DEFINE r == row[c]
           q == row'[c]
<1>1. r \in Row /\ boot \in Nat /\ seenBoot \in 0..boot
  BY RowHere DEF TypeOK
<1>2. Now \in 2 * boot..(2 * boot + 1) /\ Now \in Nat /\ Now' = Now
  BY <1>1 DEF Now, TypeOK
<1>3. q.touch \in {r.touch, Now}
  BY <1>1 DEF RebootMove, Row, NoRow, Touched, MarkDelivered, LeaseRow, ReleaseRow,
     ReceiveRow, CancelRow, CompleteRebootRow
<1>4. q.recv \in {r.recv, Never, Now}
  BY <1>1 DEF RebootMove, Row, NoRow, Touched, MarkDelivered, LeaseRow, ReleaseRow,
     ReceiveRow, CancelRow, CompleteRebootRow
<1>5. q.status = "none" => q.recv = r.recv /\ r.status = "none"
  BY <1>1 DEF RebootMove, Row, NoRow, Touched, MarkDelivered, LeaseRow, ReleaseRow,
     ReceiveRow, CancelRow, CompleteRebootRow
<1>6. /\ q.touch \in 0..Now /\ q.recv \in 0..Now \cup {Never}
      /\ q.status = "none" => q.recv = Never
  BY <1>1, <1>2, <1>3, <1>4, <1>5 DEF RebootRow
<1>7. q.status = "delivered" =>
        \/ r.status = "none" /\ q.touch = Now /\ q.recv \in {Never, Now}
        \/ /\ r.status = "delivered" /\ q.touch \in {r.touch, Now}
           /\ q.recv = r.recv \/ (r.recv = Never /\ q.recv = Now)
  BY <1>1 DEF RebootRow, RebootMove, Row, NoRow, Never, Touched, MarkDelivered,
     LeaseRow, ReleaseRow, ReceiveRow, CancelRow, CompleteRebootRow
<1>8. q.status = "completed" =>
        \/ r.status = "completed"
        \/ \E b \in Dates : RebootAnswered(r, b)
  BY <1>1 DEF RebootMove, Row, NoRow, Touched, MarkDelivered, LeaseRow,
     ReleaseRow, ReceiveRow, CancelRow, CompleteRebootRow
<1>9. ASSUME q.status = "delivered"
      PROVE  /\ delivAt'[c] \in 0..q.touch
             /\ q.recv # Never => delivAt'[c] <= q.recv
  BY <1>1, <1>2, <1>7, <1>9 DEF RebootRow, Row, Never
<1>10. ASSUME q.status = "delivered" PROVE q.recv \notin 0..(2 * seenBoot' - 2)
  <2>1. CASE seenBoot' = seenBoot
    <3>1. ASSUME q.recv = Now PROVE q.recv \notin 0..(2 * seenBoot' - 2)
      BY <1>1, <1>2, <2>1, <3>1
    <3> QED
      BY <1>1, <1>7, <1>10, <2>1, <3>1 DEF RebootRow, Row, Never
  <2>2. CASE seenBoot' # seenBoot
    <3>1. seenBoot' = boot /\ Answers(c)
      BY <1>1, <2>2 DEF BootMove
    <3>2. PICK b \in Dates : q = IF RebootAnswered(r, b)
                                 THEN CompleteRebootRow(r, Now) ELSE r
      BY <3>1 DEF Answers
    <3>3. CompleteRebootRow(r, Now).status = "completed"
      BY <1>1 DEF CompleteRebootRow, Touched, Row
    <3>4. q = r /\ ~ RebootAnswered(r, b)
      BY <1>10, <3>2, <3>3
    <3>5. b \in Int /\ b >= 2 * boot - 1
      BY <1>1 DEF Dates
    <3>6. r.recv = Never \/ r.recv >= b
      BY <1>1, <1>10, <3>4, <3>5 DEF RebootAnswered, Row, Never
    <3> QED
      BY <1>1, <3>1, <3>4, <3>5, <3>6 DEF Row, Never
  <2> QED
    BY <2>1, <2>2
<1>11. ASSUME q.status = "completed" PROVE delivAt'[c] \in 0..(2 * boot - 1)
  <2>1. CASE r.status = "completed"
    BY <1>11, <2>1 DEF RebootRow
  <2>2. ASSUME NEW b \in Dates, RebootAnswered(r, b)
        PROVE  delivAt'[c] \in 0..(2 * boot - 1)
    <3>1. b \in Int /\ b <= 2 * boot
      BY <1>1 DEF Dates
    <3> QED
      BY <1>1, <1>11, <2>2, <3>1 DEF RebootRow, RebootAnswered, Row, Never
  <2> QED
    BY <1>8, <1>11, <2>1, <2>2
<1> QED
  BY <1>2, <1>6, <1>9, <1>10, <1>11 DEF RebootRow

LEMMA NextReboot == TypeOK /\ RebootInv /\ [Next]_vars => RebootInv'
<1> SUFFICES ASSUME TypeOK, RebootInv, [Next]_vars,
                    NEW c \in Commands, TypeOf[c] = "reboot"
             PROVE  RebootRow(c)'
  BY DEF RebootInv
<1>1. RebootRow(c) /\ BootMove /\ RowMove(c)
  BY BootMoves, RowMoves DEF RebootInv
<1>2. dev'[c] \in {"new", "got", "rebooted"}
  BY <1>1, RebootDev DEF RebootRow
<1>3. CASE UNCHANGED <<boot, late>>
  <2>1. delivAt'[c] = IF row[c].status = "none" /\ row'[c].status = "delivered"
                      THEN Now ELSE delivAt[c]
    BY RowSteps DEF WriteRows
  <2> QED
    BY <1>1, <1>2, <1>3, <2>1, RebootMoves, RebootRowKept
<1>4. CASE ~ UNCHANGED <<boot, late>>
  <2>1. UNCHANGED <<row, delivAt, seenBoot>>
    BY <1>1, <1>4 DEF BootMove
  <2>2. row[c] \in Row /\ boot \in Nat /\ Now \in Nat /\ late \in BOOLEAN
    BY RowHere DEF TypeOK
  <2>3. /\ boot' \in Nat /\ boot <= boot'
        /\ Now' \in Nat /\ Now <= Now'
    BY <1>1, <1>4, <2>2 DEF BootMove, Now
  <2> QED
    BY <1>1, <1>2, <2>1, <2>2, <2>3 DEF RebootRow, Never
<1> QED
  BY <1>3, <1>4

LEMMA RebootCorrect == Spec => []RebootInv
BY InitReboot, NextReboot, TypeCorrect, PTL DEF Spec

\* However often a reboot is re-pushed, leased or released, and whoever
\* reconnects in between, it is called completed only by a boot later than its
\* delivery (CompleteDeliveredReboots, FW-2026-000033).
THEOREM RebootsNeedBoots == Spec => []RebootNeedsBoot
<1>1. RebootInv => RebootNeedsBoot
  BY DEF RebootInv, RebootRow, RebootNeedsBoot
<1> QED
  BY <1>1, RebootCorrect, PTL

\* A reboot whose receipt was stamped more than bootTime's 15 seconds before a
\* boot is settled by the first check-in that reports that boot's uptime, for
\* every number of commands and boots (CompleteDeliveredReboots).
THEOREM ReceivedRebootsSettle == Spec => []ReceivedRebootSettles
<1>1. RebootInv => ReceivedRebootSettles
  BY DEF RebootInv, RebootRow, ReceivedRebootSettles
<1> QED
  BY <1>1, RebootCorrect, PTL
=============================================================================
