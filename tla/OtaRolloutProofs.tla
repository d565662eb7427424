-------------------------- MODULE OtaRolloutProofs --------------------------
(***************************************************************************)
(* Theorems about OtaRollout, for any number of deployments, commands,     *)
(* boots and goroutines: the variables keep their types, a row says        *)
(* 'installed' only of a build the device has run, no two OTA commands     *)
(* wait side by side, and no reboot precedes an applied payload.           *)
(***************************************************************************)
EXTENDS OtaRollout, TLAPS

USE RolloutAssumption

LEMMA Ranges ==
    /\ Updates \subseteq Builds
    /\ 0 \in Builds /\ 0 \in 0..MaxCmds /\ 0 \in 0..MaxBoots
    /\ CmdIds \subseteq 0..MaxCmds
BY DEF Updates, Builds, CmdIds

LEMMA IdleJob == Idle \in Job
BY Ranges DEF Idle, Job, Steps, OnUpdate, OnCommand

\* A goroutine that goes on to step s about deployment u.
LEMMA NextJob ==
    ASSUME NEW s \in Steps \ OnCommand, NEW u \in Builds, NEW f \in BOOLEAN,
           s \in OnUpdate => u \in Updates
    PROVE  /\ [Idle EXCEPT !.step = s, !.u = u] \in Job
           /\ [Idle EXCEPT !.step = s, !.u = u, !.flag = f] \in Job
BY Ranges DEF Idle, Job

LEMMA GotoJob ==
    ASSUME job \in [Workers -> Job], NEW w \in Workers,
           NEW s \in Steps \ OnCommand, NEW u \in Builds,
           s \in OnUpdate => u \in Updates,
           Goto(w, s, u)
    PROVE  job' \in [Workers -> Job]
<1>1. [Idle EXCEPT !.step = s, !.u = u] \in Job
  BY NextJob
<1>2. (IF s = "idle" THEN Idle ELSE [Idle EXCEPT !.step = s, !.u = u]) \in Job
  BY <1>1, IdleJob
<1> QED
  BY <1>2 DEF Goto

LEMMA DoneJob ==
    ASSUME job \in [Workers -> Job], NEW w \in Workers, Done(w)
    PROVE  job' \in [Workers -> Job]
BY IdleJob DEF Done

\* The statements on one row, on one deployment and on one command.
LEMMA RowTypes ==
    ASSUME boot \in 0..MaxBoots, NEW r \in Row, NEW s \in RowStatus,
           NEW why \in Reason, NEW pin \in BOOLEAN
    PROVE  /\ SetStatus(r, s) \in Row
           /\ SetFailed(r, why, pin) \in Row
           /\ [r EXCEPT !.full = pin] \in Row
<1>1. SetStatus(r, s) \in Row
  <2>1. CASE s = "reboot_sent"
    BY <2>1 DEF SetStatus, Row, RowStatus, Settled, Reason, Age, Never
  <2>2. CASE s # "reboot_sent"
    BY <2>2 DEF SetStatus, Row, RowStatus, Settled, Reason, Age, Never
  <2> QED
    BY <2>1, <2>2
<1>2. SetFailed(r, why, pin) \in Row
  BY DEF SetFailed, Row, RowStatus, Settled, Reason, Age
<1>3. [r EXCEPT !.full = pin] \in Row
  BY DEF Row
<1> QED
  BY <1>1, <1>2, <1>3

LEMMA UpdTypes ==
    ASSUME NEW d \in Upd, NEW r
    PROVE  Completed(d, r) \in Upd /\ Reactivated(d) \in Upd
BY DEF Upd, Completed, Reactivated

LEMMA CmdTypes ==
    ASSUME cmd \in [CmdIds -> Cmd], NEW k \in Cmd,
           NEW s \in {"downloading"} \cup Finished
    PROVE  /\ Cleared \in [CmdIds -> Cmd]
           /\ Delivered(k) \in Cmd
           /\ Written(k, s) \in Cmd
BY DEF Cleared, Delivered, Written, Cmd, CmdStatus, Finished, Age, Created

LEMMA InitType == Init => TypeOK
<1> SUFFICES ASSUME Init PROVE TypeOK
  OBVIOUS
<1>1. upd \in [Updates -> Upd]
  BY DEF Init, Upd
<1>2. row \in [Updates -> Row]
  BY DEF Init, NoRow, Row, RowStatus, Settled, Reason, Age
<1>3. cmd \in [CmdIds -> Cmd]
  BY DEF Init, Cmd, CmdStatus, Age, Updates
<1>4. job \in [Workers -> Job]
  BY IdleJob DEF Init
<1>5. dev \in [CmdIds -> DevStep]
  BY DEF Init, DevStep
<1>6. /\ last \in 0..MaxCmds /\ build \in Builds /\ boot \in 0..MaxBoots
      /\ runs \in Builds /\ slot \in Builds /\ ops \in 0..MaxOps
      /\ ran \subseteq Builds
  BY Ranges DEF Init
<1> QED
  BY <1>1, <1>2, <1>3, <1>4, <1>5, <1>6 DEF Init, TypeOK

\* What a goroutine knows when it is between two statements is well typed.
LEMMA JobFields ==
    ASSUME TypeOK, NEW w \in Workers
    PROVE  /\ job[w] \in Job /\ job[w].step \in Steps /\ job[w].u \in Builds
           /\ job[w].c \in 0..MaxCmds /\ job[w].build \in Builds
           /\ job[w].boot \in 0..MaxBoots /\ job[w].flag \in BOOLEAN
           /\ job[w].step \in OnUpdate => job[w].u \in Updates
           /\ job[w].step \in OnCommand => job[w].c \in CmdIds
BY DEF TypeOK, Job

\* The steps of the goroutines.
LEMMA StatementType ==
    ASSUME TypeOK, NEW w \in Workers, Statement(w) \/ Abandon(w)
    PROVE  TypeOK'
<1> USE DEF deployVars, cmdVars, serverVars, deviceVars
<1> DEFINE v == job[w].u
<1>0. /\ boot \in 0..MaxBoots /\ row \in [Updates -> Row] /\ upd \in [Updates -> Upd]
      /\ cmd \in [CmdIds -> Cmd] /\ job \in [Workers -> Job]
      /\ \A x \in Workers : job[x] \in Job
  BY DEF TypeOK
<1>1. CASE Ingest(w)
  <2>1. [job[w] EXCEPT !.step = "resolve"] \in Job
    <3> DEFINE j == [job[w] EXCEPT !.step = "resolve"]
    <3>1. "resolve" \in Steps /\ "resolve" \notin OnUpdate \cup OnCommand
      BY DEF Steps, OnUpdate, OnCommand
    <3>2. /\ j \in [step : Steps, u : Builds, c : 0..MaxCmds, build : Builds,
                      boot : 0..MaxBoots, flag : BOOLEAN]
          /\ j.step = "resolve"
      BY <1>0, <3>1 DEF Job
    <3> HIDE DEF j
    <3>3. j \in Job
      BY <3>1, <3>2 DEF Job
    <3> QED
      BY <3>3 DEF j
  <2>2. job' \in [Workers -> Job]
    BY <1>0, <1>1, <2>1 DEF Ingest
  <2>3. row' \in [Updates -> Row]
    <3>1. ASSUME NEW u \in Updates
          PROVE  [row[u] EXCEPT !.status = "installed", !.err = "none",
                                !.age = "new"] \in Row
      <4>1. "installed" \in RowStatus /\ "none" \in Reason /\ "new" \in Age
        BY DEF RowStatus, Settled, Reason, Age
      <4> QED
        BY <1>0, <4>1 DEF Row
    <3>2. row' = [u \in Updates |->
                    IF ReachedTarget(u, job[w].build)
                    THEN [row[u] EXCEPT !.status = "installed", !.err = "none",
                                        !.age = "new"]
                    ELSE row[u]]
      BY <1>1 DEF Ingest
    <3> QED
      BY <1>0, <3>1, <3>2
  <2>4. upd' \in [Updates -> Upd]
    BY <1>0, <1>1, UpdTypes DEF Ingest
  <2>5. build' \in Builds
    BY <1>1, JobFields DEF Ingest
  <2> QED
    BY <1>1, <2>2, <2>3, <2>4, <2>5 DEF Ingest, TypeOK
<1>2. CASE Resolve(w) \/ Dispatch(w)
  <2>1. \A u \in Updates, after \in BOOLEAN :
            Verdict(u, job[w].build, after) \in Steps \ OnCommand
    BY DEF Verdict, Steps, OnCommand
  <2>2. "offer" \in Steps \ OnCommand
    BY DEF Steps, OnCommand
  <2>3. job' \in [Workers -> Job]
    BY <1>0, <1>2, <2>1, <2>2, GotoJob, DoneJob, Ranges DEF Resolve, BootedAfter, Dispatch
  <2> QED
    BY <1>2, <2>3 DEF Resolve, Dispatch, TypeOK
<1>3. CASE \/ Arrived(w) \/ FailSlotSwitch(w) \/ ReportedFailed(w) \/ Mark(w)
           \/ ReportedApplied(w) \/ SendReboot(w)
  <2>0. v \in Updates
    BY <1>3, JobFields DEF Arrived, FailSlotSwitch, ReportedFailed, Mark,
       ReportedApplied, SendReboot, At, OnUpdate
  <2>1. \A u \in Updates :
          /\ SetStatus(row[u], "installed") \in Row
          /\ SetStatus(row[u], "downloading") \in Row
          /\ SetStatus(row[u], "awaiting_reboot") \in Row
          /\ SetFailed(row[u], "slot", FALSE) \in Row
          /\ SetFailed(row[u], "device", job[w].flag) \in Row
          /\ RebootRow(row[u]) \in Row
    BY <1>0, RowTypes, JobFields DEF RebootRow, RowStatus, Settled, Reason
  <2>2. \A u \in Updates : \A r : Completed(upd[u], r) \in Upd
    BY <1>0, UpdTypes
  <2>3. row' \in [Updates -> Row]
    <3>1. \/ row' = [row EXCEPT ![v] = SetStatus(@, "installed")]
          \/ row' = [row EXCEPT ![v] = SetStatus(@, "downloading")]
          \/ row' = [row EXCEPT ![v] = SetStatus(@, "awaiting_reboot")]
          \/ row' = [row EXCEPT ![v] = SetFailed(@, "slot", FALSE)]
          \/ row' = [row EXCEPT ![v] = SetFailed(@, "device", job[w].flag)]
          \/ row' = [row EXCEPT ![v] = RebootRow(@)]
      BY <1>3 DEF Arrived, FailSlotSwitch, ReportedFailed, Mark, ReportedApplied,
         SendReboot
    <3> QED
      BY <1>0, <2>0, <2>1, <3>1
  <2>4. upd' \in [Updates -> Upd]
    <3>1. \/ upd' = upd
          \/ upd' = [upd EXCEPT ![v] = Completed(@, row'[v])]
      BY <1>3 DEF Arrived, FailSlotSwitch, ReportedFailed, Mark, ReportedApplied,
         SendReboot
    <3> QED
      BY <1>0, <2>2, <3>1
  <2>5. job' \in [Workers -> Job]
    <3>1. "reboot" \in Steps \ OnCommand
      BY DEF Steps, OnCommand
    <3>3. CASE Mark(w)
      <4>1. [Idle EXCEPT !.step = "push", !.c = job[w].c] \in Job
        BY <3>3, JobFields, Ranges
           DEF Mark, At, Idle, Job, Steps, OnUpdate, OnCommand
      <4> QED
        BY <1>0, <3>3, <4>1 DEF Mark
    <3>4. CASE ReportedApplied(w)
      BY <1>0, <2>0, <3>1, <3>4, GotoJob, DoneJob, Ranges DEF ReportedApplied
    <3> QED
      BY <1>0, <1>3, <3>3, <3>4, DoneJob DEF Arrived, FailSlotSwitch, ReportedFailed,
         SendReboot
  <2> QED
    BY <1>3, <2>3, <2>4, <2>5 DEF Arrived, FailSlotSwitch, ReportedFailed, Mark,
       ReportedApplied, SendReboot, TypeOK
<1>4. CASE Create(w)
  <2>1. CASE InFlight \/ last = MaxCmds
    BY <1>0, <1>4, <2>1, DoneJob DEF Create, TypeOK
  <2>2. CASE ~ (InFlight \/ last = MaxCmds)
    <3>1. last \in 0..MaxCmds /\ last + 1 \in 0..MaxCmds /\ last + 1 \in CmdIds
      BY <2>2 DEF TypeOK, CmdIds
    <3>2. job' \in [Workers -> Job]
      <4>1. [job[w] EXCEPT !.step = "mark", !.c = last + 1] \in Job
        BY <1>4, <3>1, JobFields DEF Create, At, Job, Steps, OnUpdate, OnCommand
      <4> QED
        BY <1>0, <1>4, <2>2, <4>1 DEF Create
    <3>3. cmd' \in [CmdIds -> Cmd]
      <4>1. [for |-> job[w].u, status |-> "none", age |-> "new"] \in Cmd
        BY <1>4, JobFields DEF Create, At, OnUpdate, Cmd, CmdStatus, Age
      <4> QED
        BY <1>0, <1>4, <2>2, <4>1 DEF Create
    <3> QED
      BY <1>4, <2>2, <3>1, <3>2, <3>3 DEF Create, TypeOK
  <2> QED
    BY <2>1, <2>2
<1>5. CASE Push(w)
  <2>1. job' \in [Workers -> Job]
    BY <1>0, <1>5, DoneJob DEF Push
  <2>2. cmd' \in [CmdIds -> Cmd]
    BY <1>0, <1>5, CmdTypes DEF Push
  <2>3. dev' \in [CmdIds -> DevStep]
    BY <1>5 DEF Push, Arrives, DevStep, TypeOK
  <2> QED
    BY <1>5, <2>1, <2>2, <2>3 DEF Push, TypeOK
<1>6. CASE Settle(w)
  <2>1. ASSUME NEW u \in Updates
        PROVE  /\ [Idle EXCEPT !.step = "applied", !.u = u] \in Job
               /\ [Idle EXCEPT !.step = "failed", !.u = u,
                     !.flag = Package(u, row[u].full) = "delta"] \in Job
    <3>1. "applied" \in Steps \ OnCommand /\ "failed" \in Steps \ OnCommand
      BY DEF Steps, OnCommand
    <3>2. (Package(u, row[u].full) = "delta") \in BOOLEAN
      OBVIOUS
    <3> QED
      BY <3>1, <3>2, NextJob, Ranges
  <2>2. job' \in [Workers -> Job]
    <3>1. CASE Done(w)
      BY <1>0, <3>1, DoneJob
    <3>2. ASSUME NEW u \in Updates,
                 \/ job' = [job EXCEPT ![w] = [Idle EXCEPT !.step = "applied", !.u = u]]
                 \/ job' = [job EXCEPT ![w] =
                        [Idle EXCEPT !.step = "failed", !.u = u,
                           !.flag = Package(u, row[u].full) = "delta"]]
          PROVE  job' \in [Workers -> Job]
      BY <1>0, <2>1, <3>2
    <3> QED
      BY <1>6, <3>1, <3>2 DEF Settle
  <2> QED
    BY <1>6, <2>2 DEF Settle, TypeOK
<1>7. CASE Abandon(w)
  BY <1>0, <1>7, DoneJob DEF Abandon, Click, TypeOK
<1> QED
  BY <1>1, <1>2, <1>3, <1>4, <1>5, <1>6, <1>7 DEF Statement

LEMMA OperatorType ==
    ASSUME TypeOK, Operator
    PROVE  TypeOK'
<1> USE DEF deployVars, cmdVars, serverVars, deviceVars
<1>0. /\ boot \in 0..MaxBoots /\ row \in [Updates -> Row] /\ upd \in [Updates -> Upd]
      /\ cmd \in [CmdIds -> Cmd] /\ job \in [Workers -> Job]
      /\ last \in 0..MaxCmds /\ last + 1 \in 1..(MaxCmds + 1)
  BY DEF TypeOK
<1>a. Cleared \in [CmdIds -> Cmd]
  <2>1. CASE CmdIds = {}
    BY <2>1 DEF Cleared
  <2>2. ASSUME NEW c \in CmdIds PROVE Cleared \in [CmdIds -> Cmd]
    BY <1>0, CmdTypes
  <2> QED
    BY <2>1, <2>2
<1>b. \A u \in Updates, pinned \in BOOLEAN : Target(u, pinned) \in Row
  BY <1>0 DEF Target, NoRow, Row, RowStatus, Settled, Reason, Age
<1>1. ASSUME NEW w \in Workers, NEW u \in Updates, NEW pinned \in Pins, Deploy(w, u, pinned)
      PROVE  TypeOK'
  <2>1. [status |-> "active", first |-> last + 1] \in Upd
    BY <1>0 DEF Upd
  <2>2. upd' \in [Updates -> Upd] /\ row' \in [Updates -> Row]
    BY <1>0, <1>1, <1>b, <2>1 DEF Deploy
  <2>3. job' \in [Workers -> Job]
    <3>1. \A s \in {"dispatch", "idle"} : s \in Steps \ OnCommand /\ s \notin OnUpdate
      BY DEF Steps, OnCommand, OnUpdate
    <3> QED
      BY <1>0, <1>1, <3>1, GotoJob, Ranges DEF Deploy
  <2> QED
    BY <1>1, <1>a, <2>2, <2>3 DEF Deploy, TypeOK
<1>2. ASSUME NEW u \in Updates, NEW pinned \in Pins, AddTarget(u, pinned) \/ Retry(u, pinned)
      PROVE  TypeOK'
  <2>1. [upd[u] EXCEPT !.status = "active"] \in Upd /\ Reactivated(upd[u]) \in Upd
    <3>1. upd[u] \in Upd
      BY <1>0
    <3>2. [upd[u] EXCEPT !.status = "active"] \in Upd
      BY <3>1 DEF Upd
    <3> QED
      BY <3>1, <3>2, UpdTypes
  <2>2. SetStatus([row[u] EXCEPT !.full = pinned], "pending") \in Row
    BY <1>0, RowTypes DEF RowStatus, Reason
  <2>3. upd' \in [Updates -> Upd]
    BY <1>0, <1>2, <2>1 DEF AddTarget, Retry
  <2>4. row' \in [Updates -> Row]
    <3>1. CASE AddTarget(u, pinned)
      BY <1>0, <1>b, <3>1 DEF AddTarget
    <3>2. CASE Retry(u, pinned)
      <4> DEFINE r == SetStatus([row[u] EXCEPT !.full = pinned], "pending")
      <4>1. row' = [row EXCEPT ![u] = r] /\ r \in Row
        BY <2>2, <3>2 DEF Retry
      <4> HIDE DEF r
      <4> QED
        BY <1>0, <4>1
    <3> QED
      BY <1>2, <3>1, <3>2
  <2> QED
    BY <1>2, <1>a, <2>3, <2>4 DEF AddTarget, Retry, Click, TypeOK
<1>3. ASSUME NEW u \in Updates, CancelDeployment(u) PROVE TypeOK'
  <2>1. [upd[u] EXCEPT !.status = "canceled"] \in Upd
    BY <1>0 DEF Upd
  <2>2. [row[u] EXCEPT !.status = "canceled", !.err = "none", !.age = "new"] \in Row
    <3>1. "canceled" \in RowStatus /\ "none" \in Reason /\ "new" \in Age
      BY DEF RowStatus, Settled, Reason, Age
    <3> QED
      BY <1>0, <3>1 DEF Row
  <2>3. upd' \in [Updates -> Upd]
    BY <1>0, <1>3, <2>1 DEF CancelDeployment
  <2>4. row' \in [Updates -> Row]
    BY <1>0, <1>3, <2>2 DEF CancelDeployment
  <2> QED
    BY <1>3, <2>3, <2>4 DEF CancelDeployment, TypeOK
<1>4. ASSUME NEW u \in Updates, CancelDevice(u) \/ Remove(u) PROVE TypeOK'
  <2>1. SetFailed(row[u], "cancelled", FALSE) \in Row /\ NoRow \in Row
    BY <1>0, RowTypes DEF NoRow, Row, RowStatus, Reason, Age
  <2>2. row' \in [Updates -> Row]
    BY <1>0, <1>4, <2>1 DEF CancelDevice, Remove
  <2> QED
    <3>0. Click
      BY <1>4 DEF CancelDevice, Remove
    <3>1. ops' \in 0..MaxOps
      BY <3>0 DEF Click, TypeOK
    <3>2. CASE CancelDevice(u)
      BY <3>1, <3>2, <1>a, <2>2 DEF CancelDevice, TypeOK
    <3>3. CASE Remove(u)
      BY <3>1, <3>3, <1>a, <2>2 DEF Remove, TypeOK
    <3> QED
      BY <1>4, <3>2, <3>3
<1>5. ASSUME NEW w \in Workers, NEW u \in Updates, AskReboot(w, u) PROVE TypeOK'
  <2>1. "reboot" \in Steps \ OnCommand
    BY DEF Steps, OnCommand
  <2>2. job' \in [Workers -> Job]
    BY <1>0, <1>5, <2>1, NextJob, Ranges DEF AskReboot
  <2> QED
    BY <1>5, <2>2 DEF AskReboot, Click, TypeOK
<1>6. CASE ClearOTA
  BY <1>6, <1>a DEF ClearOTA, Click, TypeOK
<1>7. CASE OpenPage
  <2>1. upd' \in [Updates -> Upd]
    BY <1>0, <1>7, UpdTypes DEF OpenPage
  <2> QED
    BY <1>7, <2>1 DEF OpenPage, TypeOK
<1> QED
  BY <1>1, <1>2, <1>3, <1>4, <1>5, <1>6, <1>7 DEF Operator

LEMMA ServerType ==
    ASSUME TypeOK, Server
    PROVE  TypeOK'
<1> USE DEF deployVars, cmdVars, serverVars, deviceVars
<1>0. /\ boot \in 0..MaxBoots /\ row \in [Updates -> Row] /\ upd \in [Updates -> Upd]
      /\ cmd \in [CmdIds -> Cmd] /\ job \in [Workers -> Job]
  BY DEF TypeOK
<1>1. ASSUME NEW w \in Workers, Statement(w) \/ Abandon(w) PROVE TypeOK'
  BY <1>1, StatementType
<1>2. ASSUME NEW w \in Workers, NEW u \in Updates, ListScheduled(w, u) \/ Redrive(w, u)
      PROVE  TypeOK'
  <2>1. "reboot" \in Steps \ OnCommand
    BY DEF Steps, OnCommand
  <2>2. job' \in [Workers -> Job]
    <3>1. [Idle EXCEPT !.step = "reboot", !.u = u] \in Job
      BY <2>1, NextJob, Ranges
    <3> QED
      BY <1>0, <1>2, <3>1 DEF ListScheduled, Redrive
  <2> QED
    BY <1>2, <2>2 DEF ListScheduled, Redrive, TypeOK
<1>3. ASSUME NEW c \in CmdIds, HandOut(c) PROVE TypeOK'
  <2>1. cmd' \in [CmdIds -> Cmd]
    BY <1>0, <1>3, CmdTypes DEF HandOut
  <2>2. dev' \in [CmdIds -> DevStep]
    BY <1>3 DEF HandOut, Arrives, DevStep, TypeOK
  <2> QED
    BY <1>3, <2>1, <2>2 DEF HandOut, TypeOK
<1>4. CASE Sweep
  <2>1. PICK heard \in BOOLEAN : /\ row' = [u \in Updates |-> Swept(u, heard)]
                                /\ cmd' = [c \in CmdIds |-> SweptCmd(c, heard)]
    BY <1>4 DEF Sweep
  <2>2. ASSUME NEW u \in Updates PROVE Swept(u, heard) \in Row
    <3>1. row[u] \in Row
      BY <1>0
    <3>2. /\ SetStatus(row[u], "awaiting_reboot") \in Row
          /\ SetStatus(row[u], "downloading") \in Row
          /\ SetStatus(row[u], "pending") \in Row
          /\ SetFailed(row[u], "stalled", FALSE) \in Row
      BY <1>0, <3>1, RowTypes DEF RowStatus, Reason
    <3> QED
      BY <3>1, <3>2 DEF Swept
  <2>3. ASSUME NEW c \in CmdIds PROVE SweptCmd(c, heard) \in Cmd
    <3>1. /\ cmd[c] \in Cmd
          /\ [cmd[c] EXCEPT !.age = "old"] \in Cmd
          /\ [cmd[c] EXCEPT !.status = "expired", !.age = "new"] \in Cmd
      BY <1>0 DEF Cmd, CmdStatus, Age
    <3> QED
      BY <3>1 DEF SweptCmd
  <2>4. upd' \in [Updates -> Upd]
    BY <1>0, <1>4, UpdTypes DEF Sweep
  <2>5. row' \in [Updates -> Row] /\ cmd' \in [CmdIds -> Cmd]
    BY <2>1, <2>2, <2>3
  <2> QED
    BY <1>4, <2>4, <2>5 DEF Sweep, TypeOK
<1>5. CASE Restart
  <2>1. upd' \in [Updates -> Upd]
    BY <1>0, <1>5, UpdTypes DEF Restart
  <2>2. job' \in [Workers -> Job]
    BY <1>5, IdleJob DEF Restart
  <2> QED
    BY <1>5, <2>1, <2>2 DEF Restart, Click, TypeOK
<1> QED
  BY <1>1, <1>2, <1>3, <1>4, <1>5 DEF Server

LEMMA DeviceType ==
    ASSUME TypeOK, Device \/ Time
    PROVE  TypeOK'
<1> USE DEF deployVars, cmdVars, serverVars, deviceVars
<1>0. /\ boot \in 0..MaxBoots /\ row \in [Updates -> Row] /\ job \in [Workers -> Job]
      /\ cmd \in [CmdIds -> Cmd] /\ runs \in Builds /\ dev \in [CmdIds -> DevStep]
  BY DEF TypeOK
<1>1. ASSUME NEW w \in Workers, CheckIn(w) PROVE TypeOK'
  <2>1. [Idle EXCEPT !.step = "frame", !.build = runs, !.boot = boot] \in Job
    BY <1>0, Ranges DEF Idle, Job, Steps, OnUpdate, OnCommand
  <2>2. job' \in [Workers -> Job]
    BY <1>0, <1>1, <2>1 DEF CheckIn
  <2> QED
    BY <1>1, <2>2 DEF CheckIn, TypeOK
<1>2. ASSUME NEW c \in CmdIds, Progress(c) PROVE TypeOK'
  <2>1. cmd' \in [CmdIds -> Cmd]
    BY <1>0, <1>2, CmdTypes DEF Progress
  <2> QED
    BY <1>2, <2>1 DEF Progress, TypeOK
<1>3. ASSUME NEW w \in Workers, NEW c \in CmdIds, Report(w, c) PROVE TypeOK'
  <2>1. Written(cmd[c], IF dev[c] = "failed" THEN "failed" ELSE "installed") \in Cmd
    BY <1>0, CmdTypes DEF Finished
  <2>2. [Idle EXCEPT !.step = "report", !.flag = (dev[c] # "failed")] \in Job
    BY Ranges DEF Idle, Job, Steps, OnUpdate, OnCommand
  <2>3. cmd' \in [CmdIds -> Cmd] /\ job' \in [Workers -> Job]
    BY <1>0, <1>3, <2>1, <2>2 DEF Report
  <2> QED
    BY <1>3, <2>3 DEF Report, TypeOK
<1>4. ASSUME NEW c \in CmdIds, Apply(c) \/ Fail(c) PROVE TypeOK'
  <2>1. dev' \in [CmdIds -> DevStep]
    BY <1>0, <1>4 DEF Apply, Fail, DevStep
  <2>2. slot' \in Builds
    BY <1>0, <1>4, Ranges DEF Apply, Fail, Cmd, TypeOK
  <2> QED
    BY <1>4, <2>1, <2>2 DEF Apply, Fail, TypeOK
<1>5. CASE Boot
  <2>1. dev' \in [CmdIds -> DevStep]
    BY <1>0, <1>5 DEF Boot, DevStep
  <2>2. boot' \in 0..MaxBoots
    BY <1>5 DEF Boot, TypeOK
  <2>3. runs' \in Builds
    BY <1>5 DEF Boot, TypeOK
  <2> QED
    BY <1>5, <2>1, <2>2, <2>3 DEF Boot, TypeOK
<1>6. CASE LoseReboot \/ TimeComes
  BY <1>6 DEF LoseReboot, TimeComes, TypeOK
<1>7. ASSUME NEW u \in Updates, AgeRow(u) PROVE TypeOK'
  <2>1. /\ [row[u] EXCEPT !.age = "stale"] \in Row
        /\ [row[u] EXCEPT !.age = "old"] \in Row
    BY <1>0 DEF Row, Age
  <2>2. row' \in [Updates -> Row]
    BY <1>0, <1>7, <2>1 DEF AgeRow
  <2> QED
    BY <1>7, <2>2 DEF AgeRow, TypeOK
<1>8. ASSUME NEW c \in CmdIds, AgeCmd(c) PROVE TypeOK'
  <2>1. [cmd[c] EXCEPT !.age = "stale"] \in Cmd
    BY <1>0 DEF Cmd, Age
  <2>2. cmd' \in [CmdIds -> Cmd]
    BY <1>0, <1>8, <2>1 DEF AgeCmd
  <2> QED
    BY <1>8, <2>2 DEF AgeCmd, TypeOK
<1> QED
  BY <1>1, <1>2, <1>3, <1>4, <1>5, <1>6, <1>7, <1>8 DEF Device, Time

LEMMA NextType == TypeOK /\ [Next]_vars => TypeOK'
<1>1. ASSUME TypeOK, UNCHANGED vars PROVE TypeOK'
  BY <1>1 DEF vars, deployVars, cmdVars, serverVars, deviceVars, TypeOK
<1> QED
  BY <1>1, OperatorType, ServerType, DeviceType DEF Next

\* The tables and the goroutines hold only what their readers know.
THEOREM TypesHold == Spec => []TypeOK
BY InitType, NextType, PTL DEF Spec

-----------------------------------------------------------------------------
(* What a step can make of a row, of a goroutine and of a command.         *)

Waiting == {"awaiting_reboot", "reboot_sent"}
Has(c)  == dev[c] \in {"applied", "booted"}

\* Some payload has been applied.
Evidence == \E c \in Created : Has(c)

RowMove(u) ==
    \/ row'[u].status = row[u].status
    \/ row'[u].status \in {"none", "pending", "downloading", "failed", "canceled"}
    \/ /\ row'[u].status = "installed"
       /\ \E w \in Workers : \/ At(w, "frame") /\ job[w].build = u
                             \/ At(w, "arrived") /\ job[w].u = u
    \/ /\ row'[u].status = "awaiting_reboot"
       /\ \/ \E w \in Workers : At(w, "applied")
          \/ \E c \in Created : cmd[c].status = "installed"
    \/ /\ row'[u].status = "reboot_sent"
       /\ \E w \in Workers : At(w, "reboot")

JobMove(w) ==
    \/ job'[w] = job[w]
    \/ job'[w].step \in {"idle", "slot", "dispatch", "offer", "mark", "push", "failed"}
    \/ job'[w].step = "frame" /\ job'[w].build = runs
    \/ job'[w].step = "resolve" /\ At(w, "frame") /\ job'[w].build = job[w].build
    \/ job'[w].step = "arrived" /\ At(w, "resolve") /\ job'[w].u = job[w].build
    \/ job'[w].step = "report" /\ (job'[w].flag => Evidence)
    \/ job'[w].step = "applied" /\ At(w, "report") /\ job[w].flag
    \/ /\ job'[w].step = "reboot"
       /\ \/ At(w, "applied")
          \/ \E u \in Updates : row[u].status \in Waiting

Fresh(c) == cmd[c].status = "none" /\ cmd[c].age = "new"

CmdMoves ==
    \/ /\ last' = last
       /\ \A c \in Created :
             /\ cmd'[c].status = "none" /\ cmd'[c].age = "new" => Fresh(c)
             /\ cmd'[c].status = "installed" => cmd[c].status = "installed" \/ Has(c)
    \/ /\ last' = last + 1 /\ ~ InFlight
       /\ \A c \in Created : cmd'[c] = cmd[c]
       /\ last + 1 \in CmdIds => cmd'[last + 1].status = "none"

LEMMA OneRow ==
    ASSUME row \in [Updates -> Row], NEW u \in Updates, NEW r,
           row' = [row EXCEPT ![u] = r]
    PROVE  row'[u] = r /\ \A v \in Updates \ {u} : row'[v] = row[v]
OBVIOUS

LEMMA RowMoves ==
    ASSUME TypeOK, [Next]_vars
    PROVE  \A u \in Updates : RowMove(u)
<1> USE DEF deployVars, cmdVars, serverVars, deviceVars
<1> DEFINE Goal == \A u \in Updates : RowMove(u)
<1> SUFFICES Goal
  OBVIOUS
<1>0. row \in [Updates -> Row] /\ \A u \in Updates : row[u] \in Row
  BY DEF TypeOK
<1>a. UNCHANGED row => Goal
  BY DEF RowMove
<1>b. ASSUME NEW w \in Workers, job[w].step \in OnUpdate
      PROVE  job[w].u \in Updates
  BY <1>b, JobFields
<1>1. ASSUME NEW w \in Workers, Statement(w) PROVE Goal
  <2> DEFINE v == job[w].u
  <2>1. CASE Ingest(w)
    <3>1. ASSUME NEW u \in Updates PROVE RowMove(u)
      <4>1. CASE ReachedTarget(u, job[w].build)
        <5>1. row'[u] = [row[u] EXCEPT !.status = "installed", !.err = "none",
                                       !.age = "new"]
          BY <2>1, <4>1 DEF Ingest
        <5>2. row'[u].status = "installed"
          BY <1>0, <5>1 DEF Row
        <5> QED
          BY <2>1, <4>1, <5>2 DEF Ingest, ReachedTarget, RowMove
      <4>2. CASE ~ ReachedTarget(u, job[w].build)
        BY <2>1, <4>2 DEF Ingest, RowMove
      <4> QED
        BY <4>1, <4>2
    <3> QED
      BY <3>1
  <2>2. CASE Arrived(w)
    <3>1. v \in Updates /\ At(w, "arrived")
      BY <1>b, <2>2 DEF Arrived, At, OnUpdate
    <3>2. SetStatus(row[v], "installed").status \in {"installed", "none"}
      BY <1>0, <3>1 DEF SetStatus, Row
    <3>3. row' = [row EXCEPT ![v] = SetStatus(row[v], "installed")]
      BY <2>2 DEF Arrived
    <3> QED
      BY <1>0, <3>1, <3>2, <3>3, OneRow DEF RowMove
  <2>3. CASE FailSlotSwitch(w) \/ ReportedFailed(w) \/ Mark(w)
    <3>1. v \in Updates
      BY <1>b, <2>3 DEF FailSlotSwitch, ReportedFailed, Mark, At, OnUpdate
    <3>2. PICK r : /\ row' = [row EXCEPT ![v] = r]
                   /\ \/ r = SetStatus(row[v], "downloading")
                      \/ \E why, pin : r = SetFailed(row[v], why, pin)
      <4>1. CASE FailSlotSwitch(w)
        BY <4>1 DEF FailSlotSwitch
      <4>2. CASE ReportedFailed(w)
        BY <4>2 DEF ReportedFailed
      <4>3. CASE Mark(w)
        BY <4>3 DEF Mark
      <4> QED
        BY <2>3, <4>1, <4>2, <4>3
    <3>3. r.status \in {"downloading", "failed", "none"}
      <4>1. SetStatus(row[v], "downloading").status \in {"downloading", "none"}
        BY <1>0, <3>1 DEF SetStatus, Row
      <4>2. \A why, pin : SetFailed(row[v], why, pin).status \in {"failed", "none"}
        BY <1>0, <3>1 DEF SetFailed, Row
      <4> QED
        BY <3>2, <4>1, <4>2
    <3> QED
      BY <1>0, <3>1, <3>2, <3>3, OneRow DEF RowMove
  <2>4. CASE ReportedApplied(w)
    <3>1. v \in Updates /\ At(w, "applied")
      BY <1>b, <2>4 DEF ReportedApplied, At, OnUpdate
    <3>2. SetStatus(row[v], "awaiting_reboot").status \in {"awaiting_reboot", "none"}
      BY <1>0, <3>1 DEF SetStatus, Row
    <3>3. row' = [row EXCEPT ![v] = SetStatus(row[v], "awaiting_reboot")]
      BY <2>4 DEF ReportedApplied
    <3> QED
      BY <1>0, <3>1, <3>2, <3>3, OneRow DEF RowMove
  <2>5. CASE SendReboot(w)
    <3>1. v \in Updates /\ At(w, "reboot")
      BY <1>b, <2>5 DEF SendReboot, At, OnUpdate
    <3>2. SetStatus(row[v], "reboot_sent").status \in {"reboot_sent", "none"}
      BY <1>0, <3>1 DEF SetStatus, Row
    <3>3. row' = [row EXCEPT ![v] = SetStatus(row[v], "reboot_sent")]
      BY <2>5 DEF SendReboot, RebootRow
    <3> QED
      BY <1>0, <3>1, <3>2, <3>3, OneRow DEF RowMove
  <2> QED
    BY <1>1, <1>a, <2>1, <2>2, <2>3, <2>4, <2>5
       DEF Statement, Resolve, Dispatch, Create, Push, Settle
<1>2. CASE Operator
  <2>1. ASSUME NEW u \in Updates, NEW r, row' = [row EXCEPT ![u] = r],
               r.status \in {row[u].status, "none", "pending", "failed", "canceled"}
        PROVE  Goal
    BY <1>0, <2>1, OneRow DEF RowMove
  <2>2. ASSUME NEW w \in Workers, NEW u \in Updates, NEW pinned \in Pins,
               Deploy(w, u, pinned)
        PROVE  Goal
    <3>1. row' = [row EXCEPT ![u] = Target(u, pinned)]
      BY <2>2 DEF Deploy
    <3>2. Target(u, pinned).status \in {row[u].status, "pending"}
      BY DEF Target, NoRow
    <3> QED
      BY <2>1, <3>1, <3>2
  <2>3. ASSUME NEW u \in Updates, NEW pinned \in Pins, Retry(u, pinned) PROVE Goal
    <3> DEFINE r == SetStatus([row[u] EXCEPT !.full = pinned], "pending")
    <3>1. r.status \in {"none", "pending"}
      BY <1>0 DEF SetStatus, Row
    <3>2. row' = [row EXCEPT ![u] = r]
      BY <2>3 DEF Retry
    <3> HIDE DEF r
    <3> QED
      BY <2>1, <3>1, <3>2
  <2>4. ASSUME NEW u \in Updates, CancelDevice(u) PROVE Goal
    <3> DEFINE r == SetFailed(row[u], "cancelled", FALSE)
    <3>1. r.status \in {"none", "failed"}
      BY <1>0 DEF SetFailed, Row
    <3>2. row' = [row EXCEPT ![u] = r]
      BY <2>4 DEF CancelDevice
    <3> HIDE DEF r
    <3> QED
      BY <2>1, <3>1, <3>2
  <2>5. ASSUME NEW u \in Updates, CancelDeployment(u) PROVE Goal
    <3> DEFINE r == IF row[u].status = "pending"
                    THEN [row[u] EXCEPT !.status = "canceled", !.err = "none",
                                        !.age = "new"]
                    ELSE row[u]
    <3>1. r.status \in {row[u].status, "canceled"}
      BY <1>0 DEF Row
    <3>2. row' = [row EXCEPT ![u] = r]
      BY <2>5 DEF CancelDeployment
    <3> HIDE DEF r
    <3> QED
      BY <2>1, <3>1, <3>2
  <2>6. ASSUME NEW u \in Updates, Remove(u) PROVE Goal
    BY <2>1, <2>6 DEF Remove, NoRow
  <2>7. ASSUME NEW w \in Workers, NEW u \in Updates, AskReboot(w, u) PROVE Goal
    BY <1>a, <2>7 DEF AskReboot
  <2>8. CASE ClearOTA \/ OpenPage
    BY <1>a, <2>8 DEF ClearOTA, OpenPage
  <2> HIDE DEF Goal
  <2>9. ASSUME NEW u \in Updates, NEW pinned \in Pins,
               \/ \E w \in Workers : Deploy(w, u, pinned)
               \/ AddTarget(u, pinned)
               \/ Retry(u, pinned)
        PROVE  Goal
    <3>1. ASSUME NEW w \in Workers, Deploy(w, u, pinned) PROVE Goal
      BY <2>2, <3>1
    <3>2. CASE AddTarget(u, pinned)
      <4>1. row' = [row EXCEPT ![u] = Target(u, pinned)]
        BY <3>2 DEF AddTarget
      <4>2. Target(u, pinned).status \in {row[u].status, "pending"}
        BY DEF Target, NoRow
      <4> QED
        BY <2>1, <4>1, <4>2
    <3>3. CASE Retry(u, pinned)
      BY <2>3, <3>3
    <3> QED
      BY <2>9, <3>1, <3>2, <3>3
  <2>10. CASE \E u \in Updates : CancelDeployment(u) \/ CancelDevice(u) \/ Remove(u)
    BY <2>4, <2>5, <2>6, <2>10
  <2>11. CASE \E w \in Workers, u \in Updates : AskReboot(w, u)
    BY <2>7, <2>11
  <2> QED
    BY <1>2, <2>8, <2>9, <2>10, <2>11 DEF Operator
<1>3. CASE Sweep
  <2>1. PICK heard \in BOOLEAN : row' = [u \in Updates |-> Swept(u, heard)]
    BY <1>3 DEF Sweep
  <2>2. ASSUME NEW u \in Updates PROVE RowMove(u)
    <3>1. row'[u] = Swept(u, heard)
      BY <2>1
    <3>2. CASE Disproved(u, "awaiting_reboot")
      <4>1. \E c \in Created : cmd[c].status = "installed"
        BY <3>2 DEF Disproved, LastWord, Since
      <4>2. row'[u].status \in {"none", "awaiting_reboot"}
        BY <1>0, <3>1, <3>2 DEF Swept, SetStatus, Row
      <4> QED
        BY <4>1, <4>2 DEF RowMove
    <3>3. CASE ~ Disproved(u, "awaiting_reboot")
      <4>1. \/ row'[u] = row[u]
            \/ row'[u] = SetStatus(row[u], "downloading")
            \/ row'[u] = SetStatus(row[u], "pending")
            \/ row'[u] = SetFailed(row[u], "stalled", FALSE)
        BY <3>1, <3>3 DEF Swept
      <4>2. \/ row'[u] = row[u]
            \/ row'[u].status \in {"none", "downloading", "pending", "failed"}
        BY <1>0, <4>1 DEF SetStatus, SetFailed, Row
      <4> QED
        BY <4>2 DEF RowMove
    <3> QED
      BY <3>2, <3>3
  <2> QED
    BY <2>2
<1>4. ASSUME NEW u \in Updates, AgeRow(u) PROVE Goal
  <2>1. PICK a : row' = [row EXCEPT ![u].age = a]
    BY <1>4 DEF AgeRow
  <2>2. \A v \in Updates : row'[v].status = row[v].status
    BY <1>0, <2>1 DEF Row
  <2> QED
    BY <2>2 DEF RowMove
<1>5. UNCHANGED vars => Goal
  BY <1>a DEF vars
<1>6. CASE Server
  <2>1. CASE UNCHANGED row
    BY <1>a, <2>1
  <2>2. CASE row' # row
    <3>1. Sweep \/ \E w \in Workers : Statement(w)
      BY <1>6, <2>2 DEF Server, Abandon, ListScheduled, Redrive, HandOut, Restart
    <3> QED
      BY <1>1, <1>3, <3>1
  <2> QED
    BY <2>1, <2>2
<1>7. CASE Device \/ Time
  BY <1>7, <1>a, <1>4 DEF Device, Time, CheckIn, Progress, Report, Apply, Fail, Boot,
     LoseReboot, TimeComes, AgeCmd
<1> QED
  BY <1>2, <1>5, <1>6, <1>7 DEF Next

LEMMA OneJob ==
    ASSUME TypeOK, NEW w \in Workers, NEW j, job' = [job EXCEPT ![w] = j]
    PROVE  job'[w] = j /\ \A x \in Workers \ {w} : job'[x] = job[x]
BY DEF TypeOK

LEMMA StatementMoves ==
    ASSUME TypeOK, NEW w \in Workers, Statement(w)
    PROVE  \A x \in Workers : JobMove(x)
<1> DEFINE Goal == \A x \in Workers : JobMove(x)
<1> SUFFICES Goal
  OBVIOUS
<1>0. job \in [Workers -> Job]
  BY DEF TypeOK
<1>1. ASSUME \A x \in Workers \ {w} : job'[x] = job[x],
             \/ job'[w].step \in {"idle", "slot", "dispatch", "offer", "mark", "push", "failed"}
             \/ job'[w].step = "resolve" /\ At(w, "frame") /\ job'[w].build = job[w].build
             \/ job'[w].step = "arrived" /\ At(w, "resolve") /\ job'[w].u = job[w].build
             \/ job'[w].step = "applied" /\ At(w, "report") /\ job[w].flag
             \/ job'[w].step = "reboot" /\ At(w, "applied")
      PROVE  Goal
  BY <1>1 DEF JobMove
<1>2. Idle.step = "idle"
  BY DEF Idle
<1>3. ASSUME Done(w) PROVE Goal
  <2>1. job'[w] = Idle /\ \A x \in Workers \ {w} : job'[x] = job[x]
    BY <1>0, <1>3 DEF Done
  <2> QED
    BY <1>1, <1>2, <2>1
<1>4. ASSUME NEW s, NEW u, s # "idle", Goto(w, s, u)
      PROVE  /\ \A x \in Workers \ {w} : job'[x] = job[x]
             /\ job'[w].step = s
             /\ job'[w].u = u
  <2>1. job'[w] = [Idle EXCEPT !.step = s, !.u = u]
        /\ \A x \in Workers \ {w} : job'[x] = job[x]
    BY <1>0, <1>4 DEF Goto
  <2> QED
    BY <2>1 DEF Idle
<1>5. CASE Ingest(w)
  <2>1. /\ \A x \in Workers \ {w} : job'[x] = job[x]
        /\ job'[w] = [job[w] EXCEPT !.step = "resolve"]
    BY <1>0, <1>5 DEF Ingest
  <2>2. job'[w].step = "resolve" /\ job'[w].build = job[w].build
    BY <1>0, <2>1 DEF Job
  <2> QED
    BY <1>1, <1>5, <2>1, <2>2 DEF Ingest
<1>6. CASE Resolve(w)
  <2>1. ASSUME NEW u \in Updates, NEW after, Goto(w, Verdict(u, job[w].build, after), u)
        PROVE  Goal
    <3> DEFINE s == Verdict(u, job[w].build, after)
    <3>1. At(w, "resolve")
      BY <1>6 DEF Resolve
    <3>2. \/ s \in {"idle", "slot", "offer"}
          \/ s = "arrived" /\ u = job[w].build
      <4>1. u = job[w].build => s = "arrived"
        BY DEF Verdict
      <4>2. u # job[w].build => s \in {"idle", "slot", "offer"}
        BY DEF Verdict
      <4> QED
        BY <4>1, <4>2
    <3>3. Goto(w, s, u)
      BY <2>1
    <3> HIDE DEF s, Goal
    <3>4. CASE s = "idle"
      <4>1. Done(w)
        BY <3>3, <3>4 DEF Goto, Done
      <4> QED
        BY <1>3, <4>1
    <3>5. CASE s # "idle"
      <4>1. /\ \A x \in Workers \ {w} : job'[x] = job[x]
            /\ job'[w].step = s /\ job'[w].u = u
        BY <1>4, <3>3, <3>5
      <4> QED
        BY <1>1, <3>1, <3>2, <4>1
    <3> QED
      BY <3>4, <3>5
  <2> QED
    BY <1>3, <1>6, <2>1 DEF Resolve
<1>7. CASE Dispatch(w)
  <2>1. ASSUME NEW u \in Updates, Goto(w, "offer", u) PROVE Goal
    <3>1. /\ \A x \in Workers \ {w} : job'[x] = job[x]
          /\ job'[w].step = "offer"
      BY <1>4, <2>1
    <3> QED
      BY <1>1, <3>1
  <2> QED
    BY <1>3, <1>7, <2>1 DEF Dispatch
<1>8. CASE Create(w)
  <2>1. ASSUME ~ Done(w) PROVE Goal
    <3>1. /\ \A x \in Workers \ {w} : job'[x] = job[x]
          /\ job'[w] = [job[w] EXCEPT !.step = "mark", !.c = last + 1]
      BY <1>0, <1>8, <2>1 DEF Create
    <3>2. job'[w].step = "mark"
      BY <1>0, <3>1 DEF Job
    <3> QED
      BY <1>1, <3>1, <3>2
  <2> QED
    BY <1>3, <2>1
<1>9. CASE Mark(w)
  <2>1. /\ \A x \in Workers \ {w} : job'[x] = job[x]
        /\ job'[w].step = "push"
    BY <1>0, <1>9 DEF Mark, Idle
  <2> QED
    BY <1>1, <2>1
<1>10. CASE Settle(w)
  <2>1. ASSUME NEW u \in Updates,
               job' = [job EXCEPT ![w] =
                  IF job[w].flag
                  THEN [Idle EXCEPT !.step = "applied", !.u = u]
                  ELSE [Idle EXCEPT !.step = "failed", !.u = u,
                          !.flag = Package(u, row[u].full) = "delta"]]
        PROVE  Goal
    <3>1. At(w, "report")
      BY <1>10 DEF Settle
    <3>2. \A x \in Workers \ {w} : job'[x] = job[x]
      BY <1>0, <2>1
    <3>3. CASE job[w].flag
      <4>1. job'[w] = [Idle EXCEPT !.step = "applied", !.u = u]
        BY <1>0, <2>1, <3>3
      <4>2. job'[w].step = "applied"
        BY <4>1 DEF Idle
      <4> QED
        BY <1>1, <3>1, <3>2, <3>3, <4>2
    <3>4. CASE ~ job[w].flag
      <4>1. PICK b : job'[w] = [Idle EXCEPT !.step = "failed", !.u = u, !.flag = b]
        BY <1>0, <2>1, <3>4
      <4>2. job'[w].step = "failed"
        BY <4>1 DEF Idle
      <4> QED
        BY <1>1, <3>2, <4>2
    <3> QED
      BY <3>3, <3>4
  <2> QED
    BY <1>3, <1>10, <2>1 DEF Settle
<1>11. CASE ReportedApplied(w)
  <2>1. ASSUME Goto(w, "reboot", job[w].u) PROVE Goal
    <3>1. /\ \A x \in Workers \ {w} : job'[x] = job[x]
          /\ job'[w].step = "reboot"
      BY <1>4, <2>1
    <3>2. At(w, "applied")
      BY <1>11 DEF ReportedApplied
    <3> QED
      BY <1>1, <3>1, <3>2
  <2> QED
    BY <1>3, <1>11, <2>1 DEF ReportedApplied
<1>12. CASE Arrived(w) \/ FailSlotSwitch(w) \/ Push(w) \/ ReportedFailed(w) \/ SendReboot(w)
  BY <1>3, <1>12 DEF Arrived, FailSlotSwitch, Push, ReportedFailed, SendReboot
<1> QED
  BY <1>5, <1>6, <1>7, <1>8, <1>9, <1>10, <1>11, <1>12 DEF Statement

LEMMA JobMoves ==
    ASSUME TypeOK, [Next]_vars
    PROVE  \A x \in Workers : JobMove(x)
<1> USE DEF deployVars, cmdVars, serverVars, deviceVars
<1> DEFINE Goal == \A x \in Workers : JobMove(x)
<1> SUFFICES Goal
  OBVIOUS
<1>a. UNCHANGED job => Goal
  BY DEF JobMove
<1>b. Idle.step = "idle"
  BY DEF Idle
<1>1. ASSUME NEW w \in Workers, Statement(w) PROVE Goal
  BY <1>1, StatementMoves
<1>2. ASSUME NEW w \in Workers, Abandon(w) PROVE Goal
  BY <1>2, <1>b, OneJob DEF Abandon, Done, JobMove
<1>3. ASSUME NEW w \in Workers, NEW u \in Updates, row[u].status \in Waiting,
             job' = [job EXCEPT ![w] = [Idle EXCEPT !.step = "reboot", !.u = u]]
      PROVE  Goal
  <2>1. [Idle EXCEPT !.step = "reboot", !.u = u].step = "reboot"
    BY DEF Idle
  <2> QED
    BY <1>3, <2>1, OneJob DEF JobMove
<1>4. ASSUME NEW w \in Workers, NEW u \in Updates,
             ListScheduled(w, u) \/ Redrive(w, u) \/ AskReboot(w, u)
      PROVE  Goal
  BY <1>3, <1>4 DEF ListScheduled, Redrive, AskReboot, Overdue, Waiting
<1>5. ASSUME NEW w \in Workers, NEW u \in Updates, NEW pinned \in Pins, Deploy(w, u, pinned)
      PROVE  Goal
  <2>1. PICK s \in {"dispatch", "idle"} : Goto(w, s, 0)
    BY <1>5 DEF Deploy
  <2>2. [Idle EXCEPT !.step = s, !.u = 0].step = s
    BY DEF Idle
  <2> QED
    BY <1>b, <2>1, <2>2, OneJob DEF Goto, JobMove
<1>6. CASE Restart
  BY <1>6, <1>b DEF Restart, JobMove
<1>7. ASSUME NEW w \in Workers, CheckIn(w) PROVE Goal
  <2>1. /\ [Idle EXCEPT !.step = "frame", !.build = runs, !.boot = boot].step = "frame"
        /\ [Idle EXCEPT !.step = "frame", !.build = runs, !.boot = boot].build = runs
    BY DEF Idle
  <2> QED
    BY <1>7, <2>1, OneJob DEF CheckIn, JobMove
<1>8. ASSUME NEW w \in Workers, NEW c \in CmdIds, Report(w, c) PROVE Goal
  <2> DEFINE b == dev[c] # "failed"
  <2>1. b => Evidence
    BY <1>8 DEF Report, Evidence, Has
  <2>2. job' = [job EXCEPT ![w] = [Idle EXCEPT !.step = "report", !.flag = b]]
    BY <1>8 DEF Report
  <2> HIDE DEF b
  <2>3. /\ \A x \in Workers \ {w} : job'[x] = job[x]
        /\ job'[w] = [Idle EXCEPT !.step = "report", !.flag = b]
    BY <2>2 DEF TypeOK
  <2>4. job'[w].step = "report" /\ job'[w].flag = b
    BY <2>3 DEF Idle
  <2> QED
    BY <2>1, <2>3, <2>4 DEF JobMove
<1> HIDE DEF Goal
<1>9. CASE Operator
  <2>1. \/ UNCHANGED job
        \/ \E w \in Workers, u \in Updates : AskReboot(w, u)
        \/ \E w \in Workers, u \in Updates, pinned \in Pins : Deploy(w, u, pinned)
    BY <1>9 DEF Operator, AddTarget, Retry, CancelDeployment, CancelDevice, Remove,
       ClearOTA, OpenPage
  <2> QED
    BY <1>a, <1>4, <1>5, <2>1
<1>10. CASE Server
  BY <1>10, <1>a, <1>1, <1>2, <1>4, <1>6 DEF Server, HandOut, Sweep
<1>11. CASE Device \/ Time
  BY <1>11, <1>a, <1>7, <1>8 DEF Device, Time, Progress, Apply, Fail, Boot, LoseReboot,
     TimeComes, AgeRow, AgeCmd
<1> QED
  BY <1>a, <1>9, <1>10, <1>11 DEF Next, vars

\* The device never unlearns, and the server asks for a reboot in one place.
DevMoves ==
    /\ \A c \in CmdIds : Has(c) => dev'[c] \in {"applied", "booted"}
    /\ ran \subseteq ran'
    /\ runs \in ran => runs' \in ran'
    /\ asked' => asked \/ \E w \in Workers : At(w, "reboot")

LEMMA DevicesMove ==
    ASSUME TypeOK, [Next]_vars
    PROVE  DevMoves
<1> USE DEF deployVars, cmdVars, serverVars, deviceVars
<1>0. dev \in [CmdIds -> DevStep]
  BY DEF TypeOK
<1>a. UNCHANGED <<dev, ran, runs, asked>> => DevMoves
  BY DEF DevMoves, Has
<1>b. ASSUME NEW c \in CmdIds, Arrives(c), UNCHANGED <<ran, runs, asked>>
      PROVE  DevMoves
  <2>1. \A k \in CmdIds : Has(k) => dev'[k] = dev[k]
    BY <1>0, <1>b DEF Arrives, Has
  <2> QED
    BY <1>b, <2>1 DEF DevMoves, Has
<1>1. ASSUME NEW w \in Workers, Push(w) PROVE DevMoves
  <2>1. job[w].c \in CmdIds
    BY <1>1, JobFields DEF Push, At, OnCommand
  <2> QED
    BY <1>1, <1>a, <1>b, <2>1 DEF Push
<1>2. ASSUME NEW w \in Workers, SendReboot(w) PROVE DevMoves
  BY <1>2 DEF SendReboot, DevMoves, Has
<1>3. ASSUME NEW w \in Workers, Statement(w) PROVE DevMoves
  BY <1>3, <1>1, <1>2, <1>a DEF Statement, Ingest, Resolve, Arrived, FailSlotSwitch,
     Dispatch, Create, Mark, Settle, ReportedFailed, ReportedApplied
<1>4. ASSUME NEW c \in CmdIds, HandOut(c) PROVE DevMoves
  BY <1>4, <1>b DEF HandOut
<1>5. ASSUME NEW c \in CmdIds, Apply(c) \/ Fail(c) PROVE DevMoves
  <2>1. \A k \in CmdIds : Has(k) => dev'[k] = dev[k]
    BY <1>0, <1>5 DEF Apply, Fail, Has
  <2> QED
    BY <1>5, <2>1 DEF Apply, Fail, DevMoves, Has
<1>6. CASE Boot
  BY <1>0, <1>6 DEF Boot, DevMoves, Has
<1>7. CASE LoseReboot
  BY <1>7 DEF LoseReboot, DevMoves, Has
<1>8. CASE Operator
  BY <1>8, <1>a DEF Operator, Deploy, AddTarget, Retry, CancelDeployment, CancelDevice,
     Remove, AskReboot, ClearOTA, OpenPage
<1>9. CASE Server
  BY <1>9, <1>a, <1>3, <1>4 DEF Server, Abandon, ListScheduled, Redrive, Sweep, Restart
<1>10. CASE Device
  BY <1>10, <1>a, <1>5, <1>6, <1>7 DEF Device, CheckIn, Progress, Report
<1>11. CASE Time
  BY <1>11, <1>a DEF Time, TimeComes, AgeRow, AgeCmd
<1> QED
  BY <1>a, <1>8, <1>9, <1>10, <1>11 DEF Next, vars

LEMMA CommandsMove ==
    ASSUME TypeOK, [Next]_vars
    PROVE  CmdMoves
<1> USE DEF deployVars, cmdVars, serverVars, deviceVars
<1>0. /\ cmd \in [CmdIds -> Cmd]
      /\ \A c \in CmdIds : cmd[c] \in Cmd
      /\ Created \subseteq CmdIds
  BY DEF TypeOK, Created
<1>a. UNCHANGED <<cmd, last>> => CmdMoves
  BY DEF CmdMoves, Fresh
<1>b. ASSUME last' = last, NEW c \in CmdIds, NEW k, cmd' = [cmd EXCEPT ![c] = k],
             k.status # "none" \/ k.age # "new" \/ Fresh(c),
             k.status = "installed" => cmd[c].status = "installed" \/ Has(c)
      PROVE  CmdMoves
  <2>1. cmd'[c] = k /\ \A d \in CmdIds \ {c} : cmd'[d] = cmd[d]
    BY <1>0, <1>b
  <2> QED
    BY <1>0, <1>b, <2>1 DEF CmdMoves, Fresh
<1>1. ASSUME last' = last, cmd' = Cleared PROVE CmdMoves
  <2>1. ASSUME NEW c \in Created
        PROVE  \/ cmd'[c] = cmd[c]
               \/ cmd'[c] = [cmd[c] EXCEPT !.status = "failed", !.age = "old"]
    BY <1>0, <1>1 DEF Cleared
  <2>2. ASSUME NEW c \in Created
        PROVE  cmd'[c] = cmd[c] \/ cmd'[c].status = "failed"
    BY <1>0, <2>1 DEF Cmd
  <2> QED
    BY <1>1, <2>2 DEF CmdMoves, Fresh
<1>2. ASSUME NEW c \in CmdIds, last' = last, cmd' = [cmd EXCEPT ![c] = Delivered(@)]
      PROVE  CmdMoves
  <2>1. /\ Delivered(cmd[c]).status # "none"
        /\ Delivered(cmd[c]).status = "installed" => cmd[c].status = "installed"
    BY <1>0 DEF Delivered, Cmd
  <2> QED
    BY <1>b, <1>2, <2>1
<1>3. ASSUME NEW c \in CmdIds, NEW s \in {"downloading", "failed", "installed"},
             last' = last, cmd' = [cmd EXCEPT ![c] = Written(@, s)],
             s = "installed" => Has(c)
      PROVE  CmdMoves
  <2>1. /\ Written(cmd[c], s).status # "none"
        /\ Written(cmd[c], s).status \in {cmd[c].status, s}
    BY <1>0 DEF Written, Finished, Cmd
  <2> QED
    BY <1>b, <1>3, <2>1
<1>4. CASE Sweep
  <2>1. PICK heard \in BOOLEAN : cmd' = [c \in CmdIds |-> SweptCmd(c, heard)]
    BY <1>4 DEF Sweep
  <2>2. ASSUME NEW c \in Created
        PROVE  /\ cmd'[c].status = "none" /\ cmd'[c].age = "new" => Fresh(c)
               /\ cmd'[c].status = "installed" => cmd[c].status = "installed"
    <3>1. \/ cmd'[c] = cmd[c]
          \/ cmd'[c] = [cmd[c] EXCEPT !.age = "old"]
          \/ cmd'[c] = [cmd[c] EXCEPT !.status = "expired", !.age = "new"]
      BY <1>0, <2>1 DEF SweptCmd
    <3> QED
      BY <1>0, <3>1 DEF Cmd, Fresh
  <2> QED
    BY <1>4, <2>2 DEF CmdMoves, Sweep
<1>5. ASSUME NEW w \in Workers, Create(w) PROVE CmdMoves
  <2>1. CASE InFlight \/ last = MaxCmds
    BY <1>5, <1>a, <2>1 DEF Create
  <2>2. CASE ~ (InFlight \/ last = MaxCmds)
    <3>1. /\ last' = last + 1
          /\ cmd' = [cmd EXCEPT ![last + 1] =
                       [for |-> job[w].u, status |-> "none", age |-> "new"]]
      BY <1>5, <2>2 DEF Create
    <3>2. \A c \in Created : cmd'[c] = cmd[c]
      BY <1>0, <3>1, Ranges DEF Created, TypeOK
    <3>3. last + 1 \in CmdIds => cmd'[last + 1].status = "none"
      BY <1>0, <3>1
    <3> QED
      BY <2>2, <3>1, <3>2, <3>3 DEF CmdMoves
  <2> QED
    BY <2>1, <2>2
<1>6. ASSUME NEW w \in Workers, Push(w) PROVE CmdMoves
  <2>1. job[w].c \in CmdIds
    BY <1>6, JobFields DEF Push, At, OnCommand
  <2> QED
    BY <1>6, <1>a, <1>2, <2>1 DEF Push
<1>7. ASSUME NEW w \in Workers, Statement(w) PROVE CmdMoves
  BY <1>7, <1>a, <1>5, <1>6 DEF Statement, Ingest, Resolve, Arrived, FailSlotSwitch,
     Dispatch, Mark, Settle, ReportedFailed, ReportedApplied, SendReboot
<1>8. ASSUME NEW w \in Workers, NEW c \in CmdIds, Report(w, c) PROVE CmdMoves
  <2> DEFINE s == IF dev[c] = "failed" THEN "failed" ELSE "installed"
  <2>1. s = "installed" => Has(c)
    BY <1>8 DEF Report, Has
  <2>2. s \in {"downloading", "failed", "installed"}
    OBVIOUS
  <2>3. last' = last /\ cmd' = [cmd EXCEPT ![c] = Written(@, s)]
    BY <1>8 DEF Report
  <2> HIDE DEF s
  <2> QED
    BY <1>3, <2>1, <2>2, <2>3
<1>9. ASSUME NEW c \in CmdIds, Progress(c) PROVE CmdMoves
  BY <1>3, <1>9 DEF Progress
<1>10. ASSUME NEW c \in CmdIds, HandOut(c) PROVE CmdMoves
  BY <1>2, <1>10 DEF HandOut
<1>11. ASSUME NEW c \in CmdIds, AgeCmd(c) PROVE CmdMoves
  <2> DEFINE k == [cmd[c] EXCEPT !.age = "stale"]
  <2>1. k.age = "stale" /\ k.status = cmd[c].status
    BY <1>0 DEF Cmd
  <2>2. last' = last /\ cmd' = [cmd EXCEPT ![c] = k]
    BY <1>0, <1>11 DEF AgeCmd
  <2> HIDE DEF k
  <2> QED
    BY <1>b, <2>1, <2>2
<1>12. CASE Operator
  <2>1. last' = last /\ (cmd' = cmd \/ cmd' = Cleared)
    BY <1>12 DEF Operator, Deploy, AddTarget, Retry, CancelDeployment, CancelDevice,
       Remove, AskReboot, ClearOTA, OpenPage
  <2> QED
    BY <1>a, <1>1, <2>1
<1>13. CASE Server
  BY <1>13, <1>a, <1>4, <1>7, <1>10 DEF Server, Abandon, ListScheduled, Redrive, Restart
<1>14. CASE Device
  BY <1>14, <1>a, <1>8, <1>9 DEF Device, CheckIn, Apply, Fail, Boot, LoseReboot
<1>15. CASE Time
  BY <1>15, <1>a, <1>11 DEF Time, TimeComes, AgeRow
<1> QED
  BY <1>a, <1>12, <1>13, <1>14, <1>15 DEF Next, vars

LEMMA EvidenceStays ==
    ASSUME TypeOK, [Next]_vars
    PROVE  /\ Created \subseteq Created'
           /\ Evidence => Evidence'
<1>1. last' \in {last, last + 1} /\ last \in 0..MaxCmds
  BY CommandsMove DEF CmdMoves, TypeOK
<1>2. Created \subseteq Created'
  <2>1. ASSUME NEW c \in CmdIds, c <= last PROVE c <= last'
    <3>1. c \in Int /\ last \in Int
      BY <1>1, RolloutAssumption DEF CmdIds
    <3> QED
      BY <1>1, <2>1, <3>1
  <2> QED
    BY <2>1 DEF Created
<1>3. ASSUME Evidence PROVE Evidence'
  <2>1. PICK c \in Created : Has(c)
    BY <1>3 DEF Evidence
  <2>2. Has(c)'
    BY <2>1, DevicesMove DEF DevMoves, Has, Created
  <2> QED
    BY <1>2, <2>1, <2>2 DEF Evidence
<1> QED
  BY <1>2, <1>3

-----------------------------------------------------------------------------
(* No two commands are fresh.                                              *)

LEMMA TwinsStep == TypeOK /\ NoTwinOffers /\ [Next]_vars => NoTwinOffers'
<1> SUFFICES ASSUME TypeOK, NoTwinOffers, [Next]_vars,
                    NEW c \in Created', NEW d \in Created', Fresh(c)', Fresh(d)'
             PROVE  c = d
  BY DEF NoTwinOffers, Fresh
<1>0. CmdMoves
  BY CommandsMove
<1>1. CASE last' = last
  <2>1. c \in Created /\ d \in Created
    BY <1>1 DEF Created
  <2>2. Fresh(c) /\ Fresh(d)
    BY <1>0, <1>1, <2>1, Ranges DEF CmdMoves, Fresh, TypeOK
  <2> QED
    BY <2>1, <2>2 DEF NoTwinOffers, Fresh
<1>2. CASE last' # last
  <2>1. ~ InFlight /\ last' = last + 1 /\ \A k \in Created : cmd'[k] = cmd[k]
    BY <1>0, <1>2 DEF CmdMoves
  <2>2. \A k \in Created : ~ Fresh(k)
    BY <2>1 DEF InFlight, Guards, Fresh, Open, Terminal
  <2>3. c \notin Created /\ d \notin Created
    BY <2>1, <2>2 DEF Fresh
  <2>4. c \in CmdIds /\ d \in CmdIds /\ c <= last + 1 /\ d <= last + 1
        /\ ~ c <= last /\ ~ d <= last
    BY <2>1, <2>3 DEF Created
  <2> QED
    BY <2>4, Ranges DEF TypeOK
<1> QED
  BY <1>1, <1>2

\* Of two goroutines that both found the device due, one creates the command.
THEOREM OneOfferAtATime == Spec => []NoTwinOffers
<1>1. Init => NoTwinOffers
  BY Ranges DEF Init, NoTwinOffers, Created
<1> QED
  BY <1>1, TypesHold, TwinsStep, PTL DEF Spec

-----------------------------------------------------------------------------
(* What the server waits for, it has been told.                            *)

Told ==
    /\ \A u \in Updates : row[u].status \in Waiting => Evidence
    /\ asked => Evidence
    /\ \A w \in Workers :
          \/ At(w, "applied") \/ At(w, "reboot") \/ (At(w, "report") /\ job[w].flag)
          => Evidence
    /\ \A c \in Created : cmd[c].status = "installed" => Evidence

LEMMA ToldStep == TypeOK /\ Told /\ [Next]_vars => Told'
<1> SUFFICES ASSUME TypeOK, Told, [Next]_vars PROVE Told'
  OBVIOUS
<1>0. Evidence => Evidence'
  BY EvidenceStays
<1>1. ASSUME NEW u \in Updates, row'[u].status \in Waiting PROVE Evidence
  <2>1. RowMove(u)
    BY RowMoves
  <2> QED
    BY <1>1, <2>1 DEF RowMove, Waiting, Told
<1>2. asked' => Evidence
  BY DevicesMove DEF DevMoves, Told
<1>3. ASSUME NEW w \in Workers,
             \/ At(w, "applied")' \/ At(w, "reboot")'
             \/ (At(w, "report")' /\ job'[w].flag)
      PROVE  Evidence
  <2>1. JobMove(w)
    BY JobMoves
  <2>2. ASSUME NEW u \in Updates, row[u].status \in Waiting PROVE Evidence
    BY <2>2 DEF Told
  <2>3. \/ job'[w] = job[w]
        \/ job'[w].step = "report" /\ (job'[w].flag => Evidence)
        \/ job'[w].step = "applied" /\ At(w, "report") /\ job[w].flag
        \/ /\ job'[w].step = "reboot"
           /\ \/ At(w, "applied")
              \/ \E u \in Updates : row[u].status \in Waiting
    BY <1>3, <2>1 DEF JobMove, At
  <2> QED
    BY <1>3, <2>2, <2>3 DEF At, Told
<1>4. ASSUME NEW c \in Created', cmd'[c].status = "installed" PROVE Evidence
  <2>1. CmdMoves
    BY CommandsMove
  <2>2. CASE c \in Created
    BY <1>4, <2>1, <2>2 DEF CmdMoves, Told, Evidence
  <2>3. CASE c \notin Created
    <3>0. c \in CmdIds /\ c \in Int /\ last \in Int /\ c <= last' /\ ~ c <= last
      BY <1>4, <2>3, RolloutAssumption DEF Created, CmdIds, TypeOK
    <3>1. last' = last + 1 /\ c = last + 1
      BY <2>1, <3>0 DEF CmdMoves
    <3> QED
      BY <1>4, <2>1, <3>0, <3>1 DEF CmdMoves
  <2> QED
    BY <2>2, <2>3
<1>5. (\A w \in Workers :
          \/ At(w, "applied") \/ At(w, "reboot") \/ (At(w, "report") /\ job[w].flag)
          => Evidence)'
  BY <1>0, <1>3
<1> QED
  BY <1>0, <1>1, <1>2, <1>4, <1>5 DEF Told, Waiting

\* No reboot is asked for, or waited for, before something was applied.
THEOREM NoEarlyReboot == Spec => []RebootsFollowInstalls
<1>1. Init => Told
  BY Ranges DEF Init, Told, Created, Waiting, NoRow, Idle, At
<1>2. Told => RebootsFollowInstalls
  BY DEF Told, RebootsFollowInstalls, AwaitsReboot, Evidence, Has, Waiting
<1> QED
  BY <1>1, <1>2, TypesHold, ToldStep, PTL DEF Spec

-----------------------------------------------------------------------------
(* 'installed' is written on the device's word alone.                      *)

Booted ==
    /\ runs \in ran
    /\ \A w \in Workers :
          /\ At(w, "frame") \/ At(w, "resolve") => job[w].build \in ran
          /\ At(w, "arrived") => job[w].u \in ran
    /\ InstalledMeansBooted

LEMMA BootedStep == TypeOK /\ Booted /\ [Next]_vars => Booted'
<1> SUFFICES ASSUME TypeOK, Booted, [Next]_vars PROVE Booted'
  OBVIOUS
<1>0. ran \subseteq ran' /\ runs' \in ran'
  BY DevicesMove DEF DevMoves, Booted
<1>1. ASSUME NEW u \in Updates, row'[u].status = "installed" PROVE u \in ran
  <2>1. RowMove(u)
    BY RowMoves
  <2> QED
    BY <1>1, <2>1 DEF RowMove, Booted, InstalledMeansBooted
<1>2. ASSUME NEW w \in Workers
      PROVE  /\ job'[w].step \in {"frame", "resolve"} => job'[w].build \in ran
             /\ job'[w].step = "arrived" => job'[w].u \in ran
  <2>1. JobMove(w)
    BY JobMoves
  <2> QED
    BY <2>1 DEF JobMove, At, Booted
<1> QED
  BY <1>0, <1>1, <1>2 DEF Booted, InstalledMeansBooted, At

\* A finished row means a device that booted into the build.
THEOREM FinishedRowsBooted == Spec => []InstalledMeansBooted
<1>1. Init => Booted
  BY DEF Init, Booted, InstalledMeansBooted, NoRow, Idle, At
<1>2. Booted => InstalledMeansBooted
  BY DEF Booted
<1> QED
  BY <1>1, <1>2, TypesHold, BootedStep, PTL DEF Spec

-----------------------------------------------------------------------------
(* Nothing opens a canceled deployment.                                    *)

LEMMA StaysCanceled ==
    ASSUME TypeOK, Next, NEW u \in Updates, upd[u].status = "canceled"
    PROVE  upd'[u].status = "canceled"
<1> USE DEF deployVars, cmdVars, serverVars, deviceVars
<1> DEFINE Goal == upd'[u].status = "canceled"
<1> SUFFICES Goal
  OBVIOUS
<1>0. upd \in [Updates -> Upd]
  BY DEF TypeOK
<1>a. upd'[u] = upd[u] => Goal
  OBVIOUS
<1>b. (\A r : Completed(upd[u], r) = upd[u]) /\ Reactivated(upd[u]) = upd[u]
  BY DEF Completed, Reactivated
<1>1. ASSUME NEW w \in Workers, Statement(w) PROVE Goal
  <2>1. CASE Ingest(w)
    BY <2>1, <1>b DEF Ingest
  <2>2. ASSUME NEW v, NEW r, upd' = [upd EXCEPT ![v] = Completed(@, r)]
        PROVE  Goal
    BY <1>0, <1>b, <2>2
  <2>3. CASE Arrived(w)
    BY <2>2, <2>3 DEF Arrived
  <2>4. CASE FailSlotSwitch(w)
    BY <2>2, <2>4 DEF FailSlotSwitch
  <2>5. CASE ReportedFailed(w)
    BY <2>2, <2>5 DEF ReportedFailed
  <2>6. CASE SendReboot(w)
    BY <2>2, <2>6 DEF SendReboot
  <2> QED
    BY <1>1, <1>a, <2>1, <2>3, <2>4, <2>5, <2>6
       DEF Statement, Resolve, Dispatch, Create, Mark, Push, Settle, ReportedApplied
<1>2. ASSUME NEW v \in Updates, NEW pinned \in Pins,
             \/ \E w \in Workers : Deploy(w, v, pinned)
             \/ AddTarget(v, pinned)
             \/ Retry(v, pinned)
      PROVE  Goal
  <2>1. CASE v = u
    <3>1. Retry(u, pinned)
      BY <1>2, <2>1 DEF Deploy, AddTarget
    <3> QED
      BY <1>0, <1>b, <3>1 DEF Retry
  <2>2. CASE v # u
    BY <1>0, <1>2, <2>2 DEF Deploy, AddTarget, Retry
  <2> QED
    BY <2>1, <2>2
<1>3. ASSUME NEW v \in Updates, CancelDeployment(v) \/ CancelDevice(v) \/ Remove(v)
      PROVE  Goal
  BY <1>0, <1>3 DEF CancelDeployment, CancelDevice, Remove
<1>4. CASE OpenPage
  BY <1>4, <1>b DEF OpenPage
<1>5. CASE Sweep \/ Restart
  BY <1>5, <1>b DEF Sweep, Restart
<1> HIDE DEF Goal
<1>6. CASE Operator
  BY <1>6, <1>a, <1>2, <1>3, <1>4 DEF Operator, AskReboot, ClearOTA
<1>7. CASE Server
  BY <1>7, <1>a, <1>1, <1>5 DEF Server, Abandon, ListScheduled, Redrive, HandOut
<1>8. CASE Device \/ Time
  BY <1>8, <1>a DEF Device, Time, CheckIn, Progress, Report, Apply, Fail, Boot,
     LoseReboot, TimeComes, AgeRow, AgeCmd
<1> QED
  BY <1>6, <1>7, <1>8 DEF Next

\* A canceled deployment is never active again.
THEOREM CanceledForGood == Spec => CanceledIsFinal
<1>1. ASSUME TypeOK, [Next]_vars
      PROVE  [\A u \in Updates :
                upd[u].status = "canceled" => upd'[u].status = "canceled"]_vars
  BY <1>1, StaysCanceled
<1> QED
  BY <1>1, TypesHold, PTL DEF Spec, CanceledIsFinal
=============================================================================
