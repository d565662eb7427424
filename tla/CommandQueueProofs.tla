-------------------------- MODULE CommandQueueProofs --------------------------
(***************************************************************************)
(* Theorems about CommandQueue, for every number of commands, every choice *)
(* of their types, any set of workers and every client.                    *)
(***************************************************************************)
EXTENDS CommandQueue, WellFoundedInduction, TLAPS

-----------------------------------------------------------------------------
(* What the operators return.                                              *)

\* A worker that has commands left takes up one of them.
LEMMA CurrentInTodo ==
    ASSUME NEW w, job[w].todo \subseteq Commands, job[w].todo # {}
    PROVE  Current(w) \in job[w].todo
<1> DEFINE T == job[w].todo
<1>1. T \subseteq Nat
  BY QueueAssumption DEF Commands
<1>2. PICK x \in T : \A y \in T : ~ (<<y, x>> \in OpToRel(<, Nat))
  BY <1>1, NatLessThanWellFounded, WFMin
<1>3. ASSUME NEW y \in T PROVE x <= y
  <2>1. x \in Nat /\ y \in Nat
    BY <1>1
  <2>2. ~ (y < x)
    BY <1>2, <2>1 DEF OpToRel
  <2> QED
    BY <2>1, <2>2
<1> QED
  BY <1>3 DEF Current

\* Every statement on command_status leaves a row a row.
LEMMA RowOps ==
    ASSUME NEW r \in Row, NEW now \in Nat
    PROVE  /\ NoRow \in Row /\ Touched(r, now) \in Row
           /\ MarkDelivered(r, now) \in Row
           /\ LeaseRow(r, now) \in Row
           /\ ReleaseRow(r, now) \in Row
           /\ \A s \in Status : AckRow(r, s, now) \in Row
           /\ ReceiveRow(r, now) \in Row
           /\ \A s \in Status : ProgressRow(r, s, now) \in Row
           /\ CancelRow(r, now) \in Row
           /\ ExpireInstallRow(r, now) \in Row
           /\ FailShellRow(r, now) \in Row
           /\ CompleteRebootRow(r, now) \in Row
           /\ ReconcileRow(r, now) \in Row
           /\ [r EXCEPT !.lease = "lapsed"] \in Row
           /\ [r EXCEPT !.stalled = TRUE] \in Row
<1> DEFINE t == Touched(r, now)
<1>0. t \in Row /\ t.status = r.status
  BY DEF Touched, Row
<1> HIDE DEF t
<1>1. NoRow \in Row
  BY MaxCountAssumption DEF NoRow, Row, Status, Never
<1>2. LeaseRow(r, now) \in Row
  <2> DEFINE a == IF t.attempts < MaxCount THEN t.attempts + 1 ELSE t.attempts
             st == IF t.status = "none" THEN "delivered" ELSE t.status
  <2>1. a \in 0..MaxCount
    BY <1>0, MaxCountAssumption DEF Row
  <2>2. st \in Status
    BY <1>0 DEF Row, Status
  <2>3. LeaseRow(r, now) = [t EXCEPT !.status = st, !.lease = "held", !.attempts = a]
    BY <1>0 DEF LeaseRow, Row, t
  <2> HIDE DEF a, st
  <2> QED
    BY <1>0, <2>1, <2>2, <2>3 DEF Row
<1>3. MarkDelivered(r, now) \in Row /\ ReceiveRow(r, now) \in Row
  BY <1>1 DEF MarkDelivered, ReceiveRow, Row, Status
<1>4. ASSUME NEW s \in Status
      PROVE  ProgressRow(r, s, now) \in Row /\ AckRow(r, s, now) \in Row
  <2>1. AckRow(r, s, now) \in Row
    BY <1>0 DEF AckRow, Row, t
  <2> DEFINE p == IF r.status \in Settled THEN r ELSE [t EXCEPT !.status = s]
  <2>2. p \in Row
    BY <1>0 DEF Row
  <2>3. ProgressRow(r, s, now) = IF p.lease = "none" THEN p ELSE [p EXCEPT !.lease = "held"]
    BY DEF ProgressRow, t
  <2> HIDE DEF p
  <2>4. ProgressRow(r, s, now) \in Row
    BY <2>2, <2>3 DEF Row
  <2> QED
    BY <2>1, <2>4
<1>5. ReleaseRow(r, now) \in Row /\ CancelRow(r, now) \in Row
  BY <1>0 DEF ReleaseRow, CancelRow, Row, Status, Terminal, t
<1>6. /\ ExpireInstallRow(r, now) \in Row /\ FailShellRow(r, now) \in Row
      /\ CompleteRebootRow(r, now) \in Row /\ ReconcileRow(r, now) \in Row
  BY <1>0 DEF ExpireInstallRow, FailShellRow, CompleteRebootRow, ReconcileRow,
     Row, Status, Terminal, Settled, t
<1>7. [r EXCEPT !.lease = "lapsed"] \in Row /\ [r EXCEPT !.stalled = TRUE] \in Row
  BY DEF Row
<1> QED
  BY <1>0, <1>1, <1>2, <1>3, <1>4, <1>5, <1>6, <1>7 DEF t

\* A worker is busy with a command only while it has one.
Working(j) == j.step \in {"send", "mark", "lease"} => j.todo # {}

LEMMA ProceedType ==
    ASSUME NEW j \in Job, j # Idle,
           NEW todo \in SUBSET Commands, NEW out \in SUBSET Commands
    PROVE  Proceed(j, todo, out) \in Job /\ Working(Proceed(j, todo, out))
<1>1. j \in [path : Paths, step : Steps, todo : SUBSET Commands, out : SUBSET Commands]
  BY DEF Job
<1>2. FirstStep(j.path) \in {"lease", "mark", "send"}
  BY DEF FirstStep
<1>3. CASE todo # {}
  BY <1>1, <1>2, <1>3 DEF Proceed, Job, Steps, Working
<1>4. CASE todo = {}
  BY <1>1, <1>4 DEF Proceed, Job, Steps, Working, Idle
<1> QED
  BY <1>3, <1>4

LEMMA StartType ==
    ASSUME NEW p \in Paths, NEW s \in Steps, NEW todo \in SUBSET Commands,
           s \in {"release", "read", "respond"} \/ todo # {}
    PROVE  Start(p, s, todo) \in Job /\ Working(Start(p, s, todo))
BY DEF Start, Job, Steps, Working

LEMMA IdleType == Idle \in Job /\ Working(Idle)
BY DEF Job, Idle, Working

-----------------------------------------------------------------------------
(* Type correctness.                                                       *)

\* A write to command_status, with the history that goes with it.
RowsOK == /\ row \in [Commands -> Row]
          /\ past \subseteq Commands
          /\ delivAt \in [Commands -> Nat \cup {Never}]

LEMMA WriteRowsType ==
    ASSUME TypeOK, NEW f \in [Commands -> Row], WriteRows(f)
    PROVE  RowsOK'
<1>1. Now \in Nat
  BY QueueAssumption DEF TypeOK, Now
<1> QED
  BY <1>1 DEF TypeOK, RowsOK, WriteRows, Never

LEMMA WriteRowType ==
    ASSUME TypeOK, NEW c \in Commands, NEW r \in Row, WriteRow(c, r)
    PROVE  RowsOK'
<1>1. [row EXCEPT ![c] = r] \in [Commands -> Row]
  BY DEF TypeOK
<1> QED
  BY <1>1, WriteRowsType DEF WriteRow

LEMMA RowHere ==
    ASSUME TypeOK, NEW c \in Commands
    PROVE  row[c] \in Row /\ boot \in Nat /\ Now \in Nat
BY QueueAssumption DEF TypeOK, Now

\* A worker's next state.
JobsOK == job \in [Workers -> Job] /\ \A w \in Workers : Working(job[w])

LEMMA SetJobType ==
    ASSUME TypeOK, NEW w \in Workers, NEW j \in Job, Working(j), SetJob(w, j)
    PROVE  JobsOK'
BY DEF TypeOK, JobsOK, SetJob, Working

LEMMA InitType == Init => TypeOK
<1> SUFFICES ASSUME Init PROVE TypeOK
  OBVIOUS
<1>1. NoRow \in Row
  BY MaxCountAssumption DEF NoRow, Row, Status, Never
<1>2. RowsOK
  BY <1>1 DEF Init, RowsOK, Never
<1>3. JobsOK
  BY IdleType DEF Init, JobsOK, Working
<1>4. /\ dev \in [Commands -> {"new", "got", "running", "rebooted", "lost"}
                               \cup TerminalReports]
      /\ present \in BOOLEAN /\ connected \in BOOLEAN
  BY QueueAssumption DEF Init
<1>5. last \in 0..N /\ aged \in 0..last /\ boot \in 0..MaxBoots /\ seenBoot \in 0..boot
  BY QueueAssumption DEF Init
<1> QED
  BY <1>2, <1>3, <1>4, <1>5 DEF Init, TypeOK, RowsOK, JobsOK, Working

\* The worker's list, and its command at hand.
LEMMA AtWork ==
    ASSUME TypeOK, NEW w \in Workers, job[w].step \in Steps
    PROVE  /\ job[w] \in Job /\ job[w] # Idle
           /\ job[w] \in [path : Paths, step : Steps,
                           todo : SUBSET Commands, out : SUBSET Commands]
           /\ job[w].step \in {"send", "mark", "lease"} =>
                 Current(w) \in job[w].todo /\ Current(w) \in Commands
<1>1. job[w] \in Job /\ job[w] # Idle
  BY DEF TypeOK, Idle, Steps
<1>2. job[w] \in [path : Paths, step : Steps,
                  todo : SUBSET Commands, out : SUBSET Commands]
  BY <1>1 DEF Job
<1>3. ASSUME job[w].step \in {"send", "mark", "lease"}
      PROVE  Current(w) \in job[w].todo
  BY <1>2, <1>3, CurrentInTodo DEF TypeOK
<1> QED
  BY <1>1, <1>2, <1>3

LEMMA OperatorType == TypeOK /\ Operator => TypeOK'
<1> SUFFICES ASSUME TypeOK, Operator PROVE TypeOK'
  OBVIOUS
<1> USE DEF dbVars, serverVars, deviceVars, histVars
<1>1. ASSUME NEW w \in Workers, CreateByApi(w) PROVE TypeOK'
  <2>1. last + 1 \in Commands /\ last + 1 \in 0..N /\ aged \in 0..(last + 1)
    BY <1>1, QueueAssumption DEF CreateByApi, TypeOK, Commands
  <2>2. JobsOK'
    BY <1>1, <2>1, SetJobType, StartType, IdleType DEF CreateByApi, Paths, PushPaths, Steps
  <2> QED
    BY <1>1, <2>1, <2>2 DEF CreateByApi, TypeOK, JobsOK, Working
<1>2. ASSUME NEW w \in Workers, CreateByDashboard(w) PROVE TypeOK'
  <2>1. last + 1 \in Commands /\ last + 1 \in 0..N /\ aged \in 0..(last + 1)
    BY <1>2, QueueAssumption DEF CreateByDashboard, TypeOK, Commands
  <2>2. JobsOK'
    BY <1>2, <2>1, SetJobType, StartType DEF CreateByDashboard, Paths, PushPaths, Steps
  <2> QED
    BY <1>2, <2>1, <2>2 DEF CreateByDashboard, TypeOK, JobsOK, Working
<1>3. ASSUME NEW c \in Commands, CancelByApi(c) PROVE TypeOK'
  <2>1. RowsOK'
    BY <1>3, RowHere, RowOps, WriteRowType DEF CancelByApi
  <2> QED
    BY <1>3, <2>1 DEF CancelByApi, TypeOK, RowsOK
<1>4. ASSUME NEW w \in Workers, NEW c \in Commands, CancelByDashboard(w, c)
      PROVE  TypeOK'
  <2>1. RowsOK'
    BY <1>4, RowHere, RowOps, WriteRowType DEF CancelByDashboard
  <2>2. JobsOK'
    BY <1>4, SetJobType, StartType, IdleType
    DEF CancelByDashboard, Paths, ListPaths, Steps
  <2> QED
    BY <1>4, <2>1, <2>2 DEF CancelByDashboard, TypeOK, RowsOK, JobsOK, Working
<1> QED
  BY <1>1, <1>2, <1>3, <1>4 DEF Operator

LEMMA ClockType == TypeOK /\ Clock => TypeOK'
<1> SUFFICES ASSUME TypeOK, Clock PROVE TypeOK'
  OBVIOUS
<1> USE DEF dbVars, serverVars, deviceVars, histVars
<1>1. ASSUME AgeOut PROVE TypeOK'
  <2>1. aged + 1 \in 0..last
    BY <1>1 DEF AgeOut, TypeOK
  <2> QED
    BY <1>1, <2>1 DEF AgeOut, TypeOK
<1>2. ASSUME NEW c \in Commands, LeaseLapses(c) PROVE TypeOK'
  <2>1. RowsOK'
    BY <1>2, RowHere, RowOps, WriteRowType DEF LeaseLapses
  <2> QED
    BY <1>2, <2>1 DEF LeaseLapses, TypeOK, RowsOK
<1>3. ASSUME NEW c \in Commands, Stalls(c) PROVE TypeOK'
  <2>1. RowsOK'
    BY <1>3, RowHere, RowOps, WriteRowType DEF Stalls
  <2> QED
    BY <1>3, <2>1 DEF Stalls, TypeOK, RowsOK
<1> QED
  BY <1>1, <1>2, <1>3 DEF Clock

LEMMA StartDeliveryType ==
    ASSUME TypeOK, NEW w \in Workers,
           StartFlush(w) \/ StartPull(w) \/ StartRedrive(w)
    PROVE  TypeOK'
<1> USE DEF dbVars, serverVars, deviceVars, histVars
<1>1. CASE StartFlush(w)
  <2>1. JobsOK'
    BY <1>1, SetJobType, StartType DEF StartFlush, Paths, ListPaths, Steps
  <2> QED
    BY <1>1, <2>1 DEF StartFlush, TypeOK, JobsOK, Working
<1>2. CASE StartPull(w)
  <2>1. JobsOK'
    BY <1>2, SetJobType, StartType DEF StartPull, Paths, ListPaths, Steps
  <2> QED
    BY <1>2, <2>1 DEF StartPull, TypeOK, JobsOK, Working
<1>3. CASE StartRedrive(w)
  <2>1. Stuck \subseteq Commands
    BY QueueAssumption DEF Stuck, Created, Commands, TypeOK
  <2>2. JobsOK'
    BY <1>3, <2>1, SetJobType, StartType DEF StartRedrive, Paths, PushPaths, Steps
  <2> QED
    BY <1>3, <2>2 DEF StartRedrive, TypeOK, JobsOK, Working
<1> QED
  BY <1>1, <1>2, <1>3

\* The device side of a hand-out.
DevsOK == dev \in [Commands -> {"new", "got", "running", "rebooted", "lost"}
                               \cup TerminalReports]

LEMMA ReceiveType ==
    ASSUME TypeOK, NEW C, Receive(C) \/ UNCHANGED dev
    PROVE  DevsOK'
BY DEF TypeOK, DevsOK, Receive

LEMMA RestType ==
    ASSUME NEW w, NEW c, job[w].todo \subseteq Commands
    PROVE  Rest(w, c) \subseteq Commands
BY DEF Rest

LEMMA WorkType ==
    ASSUME TypeOK, NEW w \in Workers, Work(w)
    PROVE  TypeOK'
<1> USE DEF dbVars, serverVars, deviceVars, histVars
<1> DEFINE c == Current(w)
<1>1. CASE ReleaseLeases(w)
  <2>1. [d \in Commands |-> ReleaseRow(row[d], Now)] \in [Commands -> Row]
    BY RowHere, RowOps
  <2>2. RowsOK'
    BY <1>1, <2>1, WriteRowsType DEF ReleaseLeases
  <2>3. [job[w] EXCEPT !.step = "read"] \in Job /\ Working([job[w] EXCEPT !.step = "read"])
    BY <1>1, AtWork DEF ReleaseLeases, At, Steps, Job, Working
  <2>4. JobsOK'
    BY <1>1, <2>3, SetJobType DEF ReleaseLeases
  <2> QED
    BY <1>1, <2>2, <2>4 DEF ReleaseLeases, TypeOK, RowsOK, JobsOK, Working
<1>2. CASE ReadDue(w)
  <2>1. job[w] \in Job /\ job[w] # Idle /\ job[w].todo \subseteq Commands
    BY <1>2, AtWork DEF ReadDue, At, Steps
  <2>2. Due(w) \subseteq Commands
    BY <2>1 DEF Due, Pending
  <2>3. JobsOK'
    BY <1>2, <2>1, <2>2, ProceedType, SetJobType DEF ReadDue
  <2> QED
    BY <1>2, <2>3 DEF ReadDue, TypeOK, JobsOK, Working
<1>3. CASE Send(w)
  <2>1. /\ job[w] \in Job /\ job[w] # Idle /\ job[w].todo \subseteq Commands
        /\ job[w] \in [path : Paths, step : Steps,
                        todo : SUBSET Commands, out : SUBSET Commands]
        /\ c \in job[w].todo
    BY <1>3, AtWork DEF Send, At, Steps
  <2>2. DevsOK'
    BY <1>3, ReceiveType DEF Send, Refused, Accepted
  <2>3. CASE Refused(w)
    <3>1. Rest(w, c) \subseteq Commands /\ job[w].todo \ {c} \subseteq Commands
      BY <2>1, RestType
    <3>2. JobsOK'
      BY <2>1, <2>3, <3>1, ProceedType, SetJobType DEF Refused
    <3> QED
      BY <1>3, <2>2, <3>2 DEF Send, TypeOK, JobsOK, DevsOK, Working
  <2>4. CASE Accepted(w)
    <3>1. [job[w] EXCEPT !.step = "mark"] \in Job /\ Working([job[w] EXCEPT !.step = "mark"])
      BY <2>1 DEF Job, Steps, Working
    <3>2. JobsOK'
      BY <2>4, <3>1, SetJobType DEF Accepted
    <3> QED
      BY <1>3, <2>2, <3>2 DEF Send, TypeOK, JobsOK, DevsOK, Working
  <2> QED
    BY <1>3, <2>3, <2>4 DEF Send
<1>4. CASE Mark(w)
  <2>1. /\ job[w] \in Job /\ job[w] # Idle /\ job[w].todo \subseteq Commands
        /\ job[w] \in [path : Paths, step : Steps,
                        todo : SUBSET Commands, out : SUBSET Commands]
        /\ c \in job[w].todo /\ c \in Commands
    BY <1>4, AtWork DEF Mark, At, Steps
  <2>2. RowsOK'
    BY <1>4, <2>1, RowHere, RowOps, WriteRowType DEF Mark
  <2>3. Rest(w, c) \subseteq Commands
    BY <2>1, RestType
  <2>4. [job[w] EXCEPT !.step = "lease"] \in Job /\ Working([job[w] EXCEPT !.step = "lease"])
    BY <2>1 DEF Job, Steps, Working
  <2>5. JobsOK'
    BY <1>4, <2>1, <2>3, <2>4, ProceedType, SetJobType DEF Mark
  <2> QED
    BY <1>4, <2>2, <2>5 DEF Mark, TypeOK, RowsOK, JobsOK, Working
<1>5. CASE Lease(w)
  <2>1. /\ job[w] \in Job /\ job[w] # Idle /\ job[w].todo \subseteq Commands
        /\ job[w].out \subseteq Commands
        /\ c \in job[w].todo /\ c \in Commands
    BY <1>5, AtWork DEF Lease, At, Steps
  <2>2. RowsOK'
    BY <1>5, <2>1, RowHere, RowOps, WriteRowType DEF Lease
  <2>3. Rest(w, c) \subseteq Commands /\ job[w].out \cup {c} \subseteq Commands
    BY <2>1, RestType
  <2>4. JobsOK'
    BY <1>5, <2>1, <2>3, ProceedType, SetJobType DEF Lease
  <2> QED
    BY <1>5, <2>2, <2>4 DEF Lease, TypeOK, RowsOK, JobsOK, Working
<1>6. CASE Respond(w)
  <2>1. DevsOK'
    BY <1>6, ReceiveType DEF Respond
  <2>2. JobsOK'
    BY <1>6, IdleType, SetJobType DEF Respond
  <2> QED
    BY <1>6, <2>1, <2>2 DEF Respond, TypeOK, JobsOK, DevsOK, Working
<1> QED
  BY <1>1, <1>2, <1>3, <1>4, <1>5, <1>6 DEF Work

LEMMA WriteFailsType ==
    ASSUME TypeOK, NEW w \in Workers, WriteFails(w)
    PROVE  TypeOK'
<1> USE DEF dbVars, serverVars, deviceVars, histVars
<1> DEFINE c    == Current(w)
           todo == IF job[w].path = "pull" THEN job[w].todo \ {c} ELSE Rest(w, c)
           out  == IF job[w].path = "checkin" THEN job[w].out \cup {c} ELSE job[w].out
<1>1. /\ job[w] \in Job /\ job[w] # Idle
      /\ job[w] \in [path : Paths, step : Steps,
                      todo : SUBSET Commands, out : SUBSET Commands]
      /\ c \in job[w].todo /\ c \in Commands
  BY AtWork DEF WriteFails, Steps
<1>2. todo \subseteq Commands /\ out \subseteq Commands
  BY <1>1, RestType
<1>3. [job[w] EXCEPT !.step = "lease"] \in Job /\ Working([job[w] EXCEPT !.step = "lease"])
  BY <1>1 DEF Job, Steps, Working
<1>4. Proceed(job[w], todo, out) \in Job /\ Working(Proceed(job[w], todo, out))
  BY <1>1, <1>2, ProceedType
<1>5. JobsOK'
  BY <1>3, <1>4, SetJobType DEF WriteFails
<1> QED
  BY <1>5 DEF WriteFails, TypeOK, JobsOK, Working

LEMMA ReportType == TypeOK /\ Report => TypeOK'
<1> SUFFICES ASSUME TypeOK, Report PROVE TypeOK'
  OBVIOUS
<1> USE DEF dbVars, serverVars, deviceVars, histVars
<1>1. ASSUME NEW c \in Commands, HandleReceipt(c) PROVE TypeOK'
  <2>1. RowsOK'
    BY <1>1, RowHere, RowOps, WriteRowType DEF HandleReceipt
  <2> QED
    BY <1>1, <2>1 DEF HandleReceipt, TypeOK, RowsOK
<1>2. ASSUME NEW c \in Commands, HandleProgress(c) PROVE TypeOK'
  <2>1. PICK s \in Interim : WriteRow(c, ProgressRow(row[c], s, Now))
    BY <1>2 DEF HandleProgress
  <2>2. ProgressRow(row[c], s, Now) \in Row
    BY RowHere, RowOps DEF Status
  <2>3. RowsOK'
    BY <2>1, <2>2, WriteRowType
  <2> QED
    BY <1>2, <2>3 DEF HandleProgress, TypeOK, RowsOK
<1>3. ASSUME NEW c \in Commands, NEW w \in Workers, NEW output \in BOOLEAN,
             HandleTerminal(w, c, output)
      PROVE  TypeOK'
  <2>1. AckRow(row[c], dev[c], Now) \in Row
    BY <1>3, RowHere, RowOps
    DEF HandleTerminal, TerminalReports, Status, Terminal, Settled
  <2>2. RowsOK'
    BY <1>3, <2>1, WriteRowType DEF HandleTerminal
  <2>3. JobsOK'
    BY <1>3, SetJobType, StartType DEF HandleTerminal, Paths, ListPaths, Steps
  <2>4. result' \subseteq Commands
    BY <1>3 DEF HandleTerminal, TypeOK
  <2> QED
    BY <1>3, <2>2, <2>3, <2>4 DEF HandleTerminal, TypeOK, RowsOK, JobsOK, Working
<1> QED
  BY <1>1, <1>2, <1>3 DEF Report

LEMMA UpkeepType == TypeOK /\ Upkeep => TypeOK'
<1> SUFFICES ASSUME TypeOK, Upkeep PROVE TypeOK'
  OBVIOUS
<1> USE DEF dbVars, serverVars, deviceVars, histVars
<1>1. ASSUME NEW w \in Workers, NEW withApps, NEW uptime, NEW bootedAt,
             CheckIn(w, withApps, uptime, bootedAt)
      PROVE  TypeOK'
  <2>1. \A c \in Commands :
          /\ row[c] \in Row
          /\ ReconcileRow(row[c], Now) \in Row
          /\ CompleteRebootRow(row[c], Now) \in Row
          /\ FailShellRow(row[c], Now) \in Row
    BY RowHere, RowOps
  <2>2. RowsOK'
    BY <1>1, <2>1, WriteRowsType DEF CheckIn
  <2>3. JobsOK'
    BY <1>1, SetJobType, StartType, IdleType DEF CheckIn, Paths, ListPaths, Steps
  <2>4. seenBoot' \in 0..boot'
    BY <1>1, RowHere, QueueAssumption DEF CheckIn, TypeOK
  <2> QED
    BY <1>1, <2>2, <2>3, <2>4 DEF CheckIn, TypeOK, RowsOK, JobsOK, Working
<1>2. ASSUME NEW w \in Workers, NEW c \in Commands, ExpireStalledInstall(w, c)
      PROVE  TypeOK'
  <2>1. RowsOK'
    BY <1>2, RowHere, RowOps, WriteRowType DEF ExpireStalledInstall
  <2>2. JobsOK'
    BY <1>2, SetJobType, StartType, IdleType
    DEF ExpireStalledInstall, Paths, ListPaths, Steps
  <2> QED
    BY <1>2, <2>1, <2>2 DEF ExpireStalledInstall, TypeOK, RowsOK, JobsOK, Working
<1>3. ASSUME NEW w \in Workers, NEW c \in Commands, FailOverdueShell(w, c)
      PROVE  TypeOK'
  <2>1. RowsOK'
    BY <1>3, RowHere, RowOps, WriteRowType DEF FailOverdueShell
  <2>2. JobsOK'
    BY <1>3, SetJobType, StartType DEF FailOverdueShell, Paths, ListPaths, Steps
  <2> QED
    BY <1>3, <2>1, <2>2 DEF FailOverdueShell, TypeOK, RowsOK, JobsOK, Working
<1> QED
  BY <1>1, <1>2, <1>3 DEF Upkeep

LEMMA LinkType == TypeOK /\ Link => TypeOK'
<1> SUFFICES ASSUME TypeOK, Link PROVE TypeOK'
  OBVIOUS
<1> USE DEF dbVars, serverVars, deviceVars, histVars
<1>1. ASSUME NEW w \in Workers, Connect(w) PROVE TypeOK'
  <2>1. JobsOK'
    BY <1>1, SetJobType, StartType DEF Connect, Paths, ListPaths, Steps
  <2> QED
    BY <1>1, <2>1 DEF Connect, TypeOK, JobsOK, Working
<1>2. ASSUME Disconnect PROVE TypeOK'
  BY <1>2 DEF Disconnect, TypeOK
<1>3. ASSUME Restart PROVE TypeOK'
  <2>1. JobsOK'
    BY <1>3, IdleType DEF Restart, JobsOK, Working
  <2> QED
    BY <1>3, <2>1 DEF Restart, TypeOK, JobsOK, Working
<1> QED
  BY <1>1, <1>2, <1>3 DEF Link

LEMMA DeviceType == TypeOK /\ Device => TypeOK'
<1> SUFFICES ASSUME TypeOK, Device PROVE TypeOK'
  OBVIOUS
<1> USE DEF dbVars, serverVars, deviceVars, histVars
<1>1. ASSUME NEW c \in Commands, Begin(c) PROVE TypeOK'
  BY <1>1 DEF Begin, TypeOK
<1>2. ASSUME NEW c \in Commands, NEW ok \in Outcomes, Finish(c, ok) PROVE TypeOK'
  <2>1. DevsOK'
    BY <1>2 DEF Finish, TypeOK, DevsOK, TerminalReports
  <2>2. present' \in BOOLEAN
    BY <1>2 DEF Finish
  <2> QED
    BY <1>2, <2>1, <2>2 DEF Finish, TypeOK, DevsOK
<1>3. ASSUME NEW C, BootAgain(C) PROVE TypeOK'
  <2>1. boot' \in 0..MaxBoots /\ seenBoot \in 0..boot'
    BY <1>3, QueueAssumption DEF BootAgain, TypeOK
  <2>2. DevsOK'
    BY <1>3 DEF BootAgain, TypeOK, DevsOK
  <2> QED
    BY <1>3, <2>1, <2>2 DEF BootAgain, TypeOK, DevsOK
<1>4. CASE BootNears
  BY <1>4 DEF BootNears, TypeOK
<1> QED
  BY <1>1, <1>2, <1>3, <1>4 DEF Device

LEMMA NextType == TypeOK /\ [Next]_vars => TypeOK'
<1> SUFFICES ASSUME TypeOK, [Next]_vars PROVE TypeOK'
  OBVIOUS
<1>1. CASE Delivery
  BY <1>1, StartDeliveryType, WorkType, WriteFailsType DEF Delivery
<1>2. CASE UNCHANGED vars
  BY <1>2 DEF TypeOK, vars, dbVars, serverVars, deviceVars, histVars
<1> QED
  BY <1>1, <1>2, OperatorType, ClockType, ReportType, UpkeepType, LinkType,
     DeviceType DEF Next

\* The rows, the workers and the device keep to their types whatever the order
\* of handlers, sweeps and reports, and a worker is at a hand-out only while it
\* has a command to hand out.
THEOREM TypeCorrect == Spec => []TypeOK
BY InitType, NextType, PTL DEF Spec

-----------------------------------------------------------------------------
(* The order of a lane.                                                    *)

\* The commands a worker is carrying, and those the system has let go.
Carried(j) == IF j.step \in {"send", "mark", "lease", "respond"}
              THEN j.todo \cup j.out ELSE {}
LetGo(c)   == \/ dev[c] # "new"
              \/ row[c].status = "delivered"
              \/ \E w \in Workers : c \in Carried(job[w])

Gated == "create" \notin Doors \/ PullCapable

OrderInv ==
    /\ \A w \in Workers : job[w].todo \subseteq Created
    /\ \A c \in Commands : row[c].status \in Terminal => c \in past
    /\ Gated => \A c \in Commands : LetGo(c) => Released(c)

\* Time and the rows' history only go forward.
Forward == past \subseteq past' /\ aged <= aged' /\ last <= last'

\* A step writes rows by WriteRows, or leaves them and their history alone.
LEMMA RowSteps ==
    ASSUME [Next]_vars
    PROVE  (\E f : WriteRows(f)) \/ UNCHANGED <<row, past, delivAt>>
<1> USE DEF dbVars, serverVars, deviceVars, histVars, WriteRow
<1>1. CASE Operator
  BY <1>1 DEF Operator, CreateByApi, CreateByDashboard, CancelByApi, CancelByDashboard
<1>2. CASE Clock
  BY <1>2 DEF Clock, AgeOut, LeaseLapses, Stalls
<1>3. CASE Delivery
  BY <1>3 DEF Delivery, StartFlush, StartPull, StartRedrive, Work,
     ReleaseLeases, ReadDue, Send, Mark, Lease, Respond, WriteFails
<1>4. CASE Report
  BY <1>4 DEF Report, HandleReceipt, HandleProgress, HandleTerminal
<1>5. CASE Upkeep
  BY <1>5 DEF Upkeep, CheckIn, ExpireStalledInstall, FailOverdueShell
<1>6. CASE Link
  BY <1>6 DEF Link, Connect, Disconnect, Restart
<1>7. CASE Device
  BY <1>7 DEF Device, Begin, Finish, BootNears, BootAgain
<1>8. CASE UNCHANGED vars
  BY <1>8 DEF vars
<1> QED
  BY <1>1, <1>2, <1>3, <1>4, <1>5, <1>6, <1>7, <1>8 DEF Next

\* Commands are created and leave the window one at a time.
LEMMA ClockSteps ==
    ASSUME [Next]_vars
    PROVE  last' \in {last, last + 1} /\ aged' \in {aged, aged + 1}
<1> USE DEF dbVars, serverVars, deviceVars, histVars
<1>1. CASE Operator
  BY <1>1 DEF Operator, CreateByApi, CreateByDashboard, CancelByApi, CancelByDashboard
<1>2. CASE Clock
  BY <1>2 DEF Clock, AgeOut, LeaseLapses, Stalls
<1>3. CASE Delivery
  BY <1>3 DEF Delivery, StartFlush, StartPull, StartRedrive, Work,
     ReleaseLeases, ReadDue, Send, Mark, Lease, Respond, WriteFails
<1>4. CASE Report
  BY <1>4 DEF Report, HandleReceipt, HandleProgress, HandleTerminal
<1>5. CASE Upkeep
  BY <1>5 DEF Upkeep, CheckIn, ExpireStalledInstall, FailOverdueShell
<1>6. CASE Link
  BY <1>6 DEF Link, Connect, Disconnect, Restart
<1>7. CASE Device
  BY <1>7 DEF Device, Begin, Finish, BootNears, BootAgain
<1>8. CASE UNCHANGED vars
  BY <1>8 DEF vars
<1> QED
  BY <1>1, <1>2, <1>3, <1>4, <1>5, <1>6, <1>7, <1>8 DEF Next

LEMMA NextForward == TypeOK /\ [Next]_vars => Forward
<1> SUFFICES ASSUME TypeOK, [Next]_vars PROVE Forward
  OBVIOUS
<1>1. past \subseteq past'
  BY RowSteps DEF WriteRows
<1>2. aged \in Int /\ last \in Int
  BY QueueAssumption DEF TypeOK
<1> QED
  BY <1>1, <1>2, ClockSteps DEF Forward

LEMMA ReleasedStays ==
    ASSUME TypeOK, TypeOK', Forward, NEW c \in Commands, Released(c)
    PROVE  Released(c)'
<1>1. aged \in Int /\ aged' \in Int /\ Commands \subseteq Int
  BY QueueAssumption DEF TypeOK, Commands
<1> QED
  BY <1>1 DEF Released, Forward, HeldFor

LEMMA TerminalIsPast ==
    ASSUME TypeOK, TypeOK', OrderInv, [Next]_vars
    PROVE  \A c \in Commands : row'[c].status \in Terminal => c \in past'
<1>1. ASSUME NEW f, WriteRows(f)
      PROVE  \A c \in Commands : row'[c].status \in Terminal => c \in past'
  BY <1>1 DEF WriteRows
<1>2. CASE UNCHANGED <<row, past>>
  BY <1>2 DEF OrderInv
<1> QED
  BY <1>1, <1>2, RowSteps

\* Only the hand-out and the receipt make a row 'delivered'.
LEMMA DeliveredOps ==
    ASSUME NEW r \in Row, NEW now
    PROVE  /\ LeaseRow(r, now).status = "delivered" => r.status \in {"none", "delivered"}
           /\ ReleaseRow(r, now).status = "delivered" => r.status = "delivered"
           /\ \A s \in TerminalReports :
                AckRow(r, s, now).status = "delivered" => r.status = "delivered"
           /\ \A s \in Interim :
                ProgressRow(r, s, now).status = "delivered" => r.status = "delivered"
           /\ CancelRow(r, now).status = "delivered" => r.status = "delivered"
           /\ ExpireInstallRow(r, now).status # "delivered"
           /\ FailShellRow(r, now).status # "delivered"
           /\ CompleteRebootRow(r, now).status # "delivered"
           /\ ReconcileRow(r, now).status # "delivered"
           /\ [r EXCEPT !.lease = "lapsed"].status = r.status
           /\ [r EXCEPT !.stalled = TRUE].status = r.status
BY DEF Touched, LeaseRow, ReleaseRow, AckRow, ProgressRow, CancelRow, ExpireInstallRow,
       FailShellRow, CompleteRebootRow, ReconcileRow, Row, Interim, InFlight,
       TerminalReports, Settled

\* What a worker's next state carries.
LEMMA CarriedOps ==
    /\ Carried(Idle) = {}
    /\ \A p, todo : /\ Carried(Start(p, "read", todo)) = {}
                    /\ Carried(Start(p, "release", todo)) = {}
                    /\ Carried(Start(p, "send", todo)) = todo
BY DEF Carried, Idle, Start

LEMMA CarriedProceed ==
    ASSUME NEW j \in Job, j # Idle,
           NEW todo \in SUBSET Commands, NEW out \in SUBSET Commands
    PROVE  /\ Carried(Proceed(j, todo, out)) \subseteq todo \cup out
           /\ Proceed(j, todo, out).todo \subseteq todo
<1>1. j \in [path : Paths, step : Steps, todo : SUBSET Commands, out : SUBSET Commands]
  BY DEF Job
<1> QED
  BY <1>1 DEF Carried, Proceed, Idle

LEMMA SetJobCarried ==
    ASSUME TypeOK, NEW w \in Workers, NEW j, SetJob(w, j)
    PROVE  \A c : (\E v \in Workers : c \in Carried(job'[v]))
                     => c \in Carried(j) \/ \E v \in Workers : c \in Carried(job[v])
BY DEF TypeOK, SetJob

\* One row written: 'delivered' is new only where the command had been let go.
LEMMA WriteRowLetGo ==
    ASSUME TypeOK, NEW c \in Commands, NEW r \in Row, WriteRow(c, r),
           r.status = "delivered" => LetGo(c)
    PROVE  \A d \in Commands : row'[d].status = "delivered" => LetGo(d)
BY DEF TypeOK, WriteRow, WriteRows, LetGo

LEMMA AtHandIsLetGo ==
    ASSUME TypeOK, NEW w \in Workers, job[w].step \in {"send", "mark", "lease"}
    PROVE  Current(w) \in Commands /\ LetGo(Current(w))
<1>1. Current(w) \in job[w].todo /\ Current(w) \in Commands
  BY AtWork DEF Steps
<1> QED
  BY <1>1 DEF LetGo, Carried

LEMMA RowsLetGo ==
    ASSUME TypeOK, [Next]_vars
    PROVE  \A d \in Commands : row'[d].status = "delivered" => LetGo(d)
<1> USE DEF dbVars, serverVars, deviceVars, histVars
<1> DEFINE Goal == \A d \in Commands : row'[d].status = "delivered" => LetGo(d)
<1>0. UNCHANGED row => Goal
  BY DEF LetGo
<1>1. CASE Operator
  <2>1. ASSUME NEW c \in Commands, WriteRow(c, CancelRow(row[c], Now)) PROVE Goal
    <3>1. /\ CancelRow(row[c], Now) \in Row
          /\ CancelRow(row[c], Now).status = "delivered" => LetGo(c)
      BY RowHere, RowOps, DeliveredOps DEF LetGo
    <3> QED
      BY <2>1, <3>1, WriteRowLetGo
  <2> QED
    BY <1>0, <1>1, <2>1 DEF Operator, CreateByApi, CreateByDashboard,
       CancelByApi, CancelByDashboard
<1>2. CASE Clock
  <2>1. ASSUME NEW c \in Commands, LeaseLapses(c) PROVE Goal
    BY <2>1, RowHere, RowOps, DeliveredOps, WriteRowLetGo DEF LetGo, LeaseLapses
  <2>2. ASSUME NEW c \in Commands, Stalls(c) PROVE Goal
    BY <2>2, RowHere, RowOps, DeliveredOps, WriteRowLetGo DEF LetGo, Stalls
  <2> QED
    BY <1>0, <1>2, <2>1, <2>2 DEF Clock, AgeOut
<1>3. ASSUME NEW w \in Workers, Work(w) PROVE Goal
  <2>1. CASE ReleaseLeases(w)
    <3>1. \A d \in Commands : row'[d] = ReleaseRow(row[d], Now)
      BY <2>1 DEF ReleaseLeases, WriteRows
    <3> QED
      BY <3>1, RowHere, DeliveredOps DEF LetGo
  <2>2. CASE Mark(w)
    <3>1. Current(w) \in Commands /\ LetGo(Current(w))
      BY <2>2, AtHandIsLetGo DEF Mark, At
    <3> QED
      BY <2>2, <3>1, RowHere, RowOps, WriteRowLetGo DEF Mark
  <2>3. CASE Lease(w)
    <3>1. Current(w) \in Commands /\ LetGo(Current(w))
      BY <2>3, AtHandIsLetGo DEF Lease, At
    <3> QED
      BY <2>3, <3>1, RowHere, RowOps, WriteRowLetGo DEF Lease
  <2> QED
    BY <1>0, <1>3, <2>1, <2>2, <2>3 DEF Work, ReadDue, Send, Respond
<1>4. CASE Delivery
  BY <1>0, <1>3, <1>4 DEF Delivery, StartFlush, StartPull, StartRedrive, WriteFails
<1>5. ASSUME NEW c \in Commands, HandleReceipt(c) PROVE Goal
  <2>1. dev[c] # "new"
    BY <1>5 DEF HandleReceipt, Reports, InterimOf, InFlight, TerminalReports
  <2> QED
    BY <1>5, <2>1, RowHere, RowOps, WriteRowLetGo DEF HandleReceipt, LetGo
<1>6. ASSUME NEW c \in Commands, HandleProgress(c) PROVE Goal
  <2>1. PICK s \in Interim : WriteRow(c, ProgressRow(row[c], s, Now))
    BY <1>6 DEF HandleProgress
  <2>2. ProgressRow(row[c], s, Now) \in Row
    <3>1. s \in Status
      BY DEF Status
    <3> QED
      BY <3>1, RowHere, RowOps
  <2>3. ASSUME ProgressRow(row[c], s, Now).status = "delivered"
        PROVE  LetGo(c)
    <3>1. row[c] \in Row
      BY RowHere
    <3>2. row[c].status = "delivered"
      BY <2>3, <3>1 DEF ProgressRow, Touched, Row, Interim, InFlight
    <3> QED
      BY <3>2 DEF LetGo
  <2> QED
    BY <2>1, <2>2, <2>3, WriteRowLetGo
<1>7. ASSUME NEW c \in Commands, NEW w \in Workers, NEW output \in BOOLEAN,
             HandleTerminal(w, c, output)
      PROVE  Goal
  <2>1. /\ AckRow(row[c], dev[c], Now) \in Row
        /\ AckRow(row[c], dev[c], Now).status = "delivered" => LetGo(c)
    BY <1>7, RowHere, RowOps, DeliveredOps
    DEF HandleTerminal, TerminalReports, Status, Terminal, Settled, LetGo
  <2> QED
    BY <1>7, <2>1, WriteRowLetGo DEF HandleTerminal
<1>8. CASE Report
  BY <1>5, <1>6, <1>7, <1>8 DEF Report
<1>9. ASSUME NEW w \in Workers, NEW withApps, NEW uptime, NEW bootedAt,
             CheckIn(w, withApps, uptime, bootedAt)
      PROVE  Goal
  <2>1. \A d \in Commands :
          \/ row'[d] = ReconcileRow(row[d], Now)
          \/ row'[d] = CompleteRebootRow(row[d], Now)
          \/ row'[d] = FailShellRow(row[d], Now)
          \/ row'[d] = row[d]
    BY <1>9 DEF CheckIn, WriteRows
  <2> QED
    BY <2>1, RowHere, DeliveredOps DEF LetGo
<1>10. ASSUME NEW w \in Workers, NEW c \in Commands,
              ExpireStalledInstall(w, c) \/ FailOverdueShell(w, c)
       PROVE  Goal
  <2>1. /\ ExpireInstallRow(row[c], Now) \in Row
        /\ FailShellRow(row[c], Now) \in Row
        /\ ExpireInstallRow(row[c], Now).status # "delivered"
        /\ FailShellRow(row[c], Now).status # "delivered"
    <3>1. row[c] \in Row /\ Now \in Nat
      BY RowHere
    <3>2. ExpireInstallRow(row[c], Now) \in Row /\ FailShellRow(row[c], Now) \in Row
      BY <3>1, RowOps
    <3> QED
      BY <3>1, <3>2, DeliveredOps
  <2>2. WriteRow(c, ExpireInstallRow(row[c], Now)) \/ WriteRow(c, FailShellRow(row[c], Now))
    BY <1>10 DEF ExpireStalledInstall, FailOverdueShell
  <2> QED
    BY <2>1, <2>2, WriteRowLetGo
<1>11. CASE Upkeep
  BY <1>9, <1>10, <1>11 DEF Upkeep
<1>12. CASE Link \/ Device \/ UNCHANGED vars
  BY <1>0, <1>12 DEF Link, Connect, Disconnect, Restart, Device, Begin, Finish,
     BootNears, BootAgain, vars
<1> QED
  BY <1>1, <1>2, <1>4, <1>8, <1>11, <1>12 DEF Next

\* A command reaches the device out of a worker's hands.
LEMMA DevLetGo ==
    ASSUME TypeOK, [Next]_vars
    PROVE  \A d \in Commands : dev'[d] # "new" => LetGo(d)
<1> USE DEF dbVars, serverVars, deviceVars, histVars
<1> DEFINE Goal == \A d \in Commands : dev'[d] # "new" => LetGo(d)
<1>0. UNCHANGED dev => Goal
  BY DEF LetGo
<1>1. ASSUME NEW w \in Workers, Send(w) PROVE Goal
  <2>1. Current(w) \in Commands /\ LetGo(Current(w))
    BY <1>1, AtHandIsLetGo DEF Send, At
  <2> QED
    BY <1>0, <1>1, <2>1 DEF Send, Refused, Accepted, Receive, LetGo
<1>2. ASSUME NEW w \in Workers, Respond(w) PROVE Goal
  <2>1. \A d \in job[w].out : LetGo(d)
    BY <1>2 DEF Respond, At, LetGo, Carried
  <2> QED
    BY <1>0, <1>2, <2>1 DEF Respond, Receive, LetGo
<1>3. CASE Delivery
  BY <1>0, <1>1, <1>2, <1>3 DEF Delivery, Work, StartFlush, StartPull,
     StartRedrive, ReleaseLeases, ReadDue, Mark, Lease, WriteFails
<1>4. CASE Device
  BY <1>4 DEF Device, Begin, Finish, BootNears, BootAgain, TypeOK, LetGo
<1>5. CASE Operator \/ Clock
  BY <1>0, <1>5 DEF Operator, CreateByApi, CreateByDashboard, CancelByApi,
     CancelByDashboard, Clock, AgeOut, LeaseLapses, Stalls
<1>6. CASE Report
  BY <1>0, <1>6 DEF Report, HandleReceipt, HandleProgress, HandleTerminal
<1>7. CASE Upkeep
  BY <1>0, <1>7 DEF Upkeep, CheckIn, ExpireStalledInstall, FailOverdueShell
<1>8. CASE Link \/ UNCHANGED vars
  BY <1>0, <1>8 DEF Link, Connect, Disconnect, Restart, vars
<1> QED
  BY <1>3, <1>4, <1>5, <1>6, <1>7, <1>8 DEF Next

\* A worker takes up only commands that are released or had been let go.
LEMMA JobsLetGo ==
    ASSUME TypeOK, OrderInv, Gated, [Next]_vars
    PROVE  \A d \in Commands :
             (\E v \in Workers : d \in Carried(job'[v])) => LetGo(d) \/ Released(d)
<1> USE DEF dbVars, serverVars, deviceVars, histVars
<1> DEFINE Goal == \A d \in Commands :
             (\E v \in Workers : d \in Carried(job'[v])) => LetGo(d) \/ Released(d)
<1>0. UNCHANGED job => Goal
  BY DEF LetGo
<1>1. ASSUME NEW w \in Workers, NEW j, SetJob(w, j),
             \A d \in Commands : d \in Carried(j) => LetGo(d) \/ Released(d)
      PROVE  Goal
  BY <1>1, SetJobCarried DEF LetGo
<1>2. ASSUME NEW w \in Workers, NEW j, SetJob(w, j), Carried(j) = {} PROVE Goal
  BY <1>1, <1>2
<1>3. CASE Operator
  <2>1. ASSUME NEW w \in Workers, CreateByApi(w) PROVE Goal
    BY <1>2, <2>1, CarriedOps DEF CreateByApi, Gated
  <2>2. ASSUME NEW w \in Workers, CreateByDashboard(w) PROVE Goal
    BY <1>2, <2>2, CarriedOps DEF CreateByDashboard
  <2>3. ASSUME NEW w \in Workers, NEW c, CancelByDashboard(w, c) PROVE Goal
    BY <1>2, <2>3, CarriedOps DEF CancelByDashboard
  <2> QED
    BY <1>0, <1>3, <2>1, <2>2, <2>3 DEF Operator, CancelByApi
<1>4. ASSUME NEW w \in Workers, StartRedrive(w) PROVE Goal
  <2>1. PICK S \in (SUBSET Stuck) \ {{}} : SetJob(w, Start("redrive", "send", S))
    BY <1>4 DEF StartRedrive
  <2>2. \A d \in S : LetGo(d)
    BY DEF Stuck, LetGo
  <2> QED
    BY <1>1, <2>1, <2>2, CarriedOps
<1>5. ASSUME NEW w \in Workers, ReadDue(w) PROVE Goal
  <2>1. job[w] \in Job /\ job[w] # Idle /\ job[w].todo \subseteq Commands
    BY <1>5, AtWork DEF ReadDue, At, Steps
  <2>2. Due(w) \subseteq Commands
    BY <2>1 DEF Due, Pending
  <2>3. ASSUME NEW d \in Due(w) PROVE Released(d)
    <3>1. d \in Created /\ Created \subseteq Commands
      BY <2>3, QueueAssumption DEF Due, OrderInv, Pending, Live, Created, TypeOK, Commands
    <3>2. ~ CommandBlocked(d) \/ ~ Blocked(d)
      BY <2>3 DEF Due, Pending
    <3>3. ASSUME NEW b \in Commands, HeldFor(b, d) PROVE b \in past \/ b <= aged
      <4>1. b \in Created
        BY <3>1, <3>3, QueueAssumption DEF HeldFor, Created, Commands, TypeOK
      <4>2. ~ Live(b) \/ row[b].status \in Terminal
        BY <3>2, <3>3 DEF HeldFor, CommandBlocked, Blocked, HoldsBack
      <4>3. aged \in Int /\ b \in Int
        BY QueueAssumption DEF TypeOK, Commands
      <4> QED
        BY <4>1, <4>2, <4>3 DEF Live, OrderInv
    <3> QED
      BY <3>3 DEF Released
  <2>4. Carried(Proceed(job[w], Due(w), {})) \subseteq Due(w)
    <3> DEFINE none == {}
    <3>1. none \in SUBSET Commands /\ Due(w) \in SUBSET Commands
      BY <2>2
    <3> HIDE DEF none
    <3>2. Carried(Proceed(job[w], Due(w), none)) \subseteq Due(w) \cup none
      BY <2>1, <3>1, CarriedProceed
    <3> QED
      BY <3>2 DEF none
  <2> QED
    BY <1>1, <1>5, <2>3, <2>4 DEF ReadDue
<1>6. ASSUME NEW w \in Workers, Send(w) \/ Mark(w) \/ Lease(w) \/ WriteFails(w)
      PROVE  Goal
  <2> DEFINE c == Current(w)
  <2>1. /\ job[w] \in Job /\ job[w] # Idle
        /\ job[w] \in [path : Paths, step : Steps,
                        todo : SUBSET Commands, out : SUBSET Commands]
        /\ job[w].step \in {"send", "mark", "lease"}
        /\ c \in job[w].todo
    BY <1>6, AtWork DEF Send, Mark, Lease, WriteFails, At, Steps
  <2>2. \A d \in job[w].todo \cup job[w].out : LetGo(d)
    BY <2>1 DEF LetGo, Carried
  <2>3. ASSUME NEW todo \in SUBSET job[w].todo, NEW out \in SUBSET (job[w].todo \cup job[w].out),
               SetJob(w, Proceed(job[w], todo, out))
        PROVE  Goal
    <3>1. Carried(Proceed(job[w], todo, out)) \subseteq todo \cup out
      BY <2>1, <2>3, CarriedProceed
    <3> QED
      BY <1>1, <2>2, <2>3, <3>1
  <2>4. ASSUME NEW s \in Steps, SetJob(w, [job[w] EXCEPT !.step = s]) PROVE Goal
    <3>1. Carried([job[w] EXCEPT !.step = s]) \subseteq job[w].todo \cup job[w].out
      BY <2>1 DEF Carried
    <3> QED
      BY <1>1, <2>2, <2>4, <3>1
  <2>5. Rest(w, c) \subseteq job[w].todo
    BY DEF Rest
  <2>6. CASE Send(w)
    <3>1. CASE Refused(w)
      <4> DEFINE left == IF job[w].path = "advance" THEN Rest(w, c) ELSE job[w].todo \ {c}
      <4>1. left \in SUBSET job[w].todo /\ {} \in SUBSET (job[w].todo \cup job[w].out)
        BY <2>5
      <4>2. SetJob(w, Proceed(job[w], left, {}))
        BY <3>1 DEF Refused
      <4> QED
        BY <2>3, <4>1, <4>2
    <3>2. CASE Accepted(w)
      BY <2>4, <3>2 DEF Accepted, Steps
    <3> QED
      BY <2>6, <3>1, <3>2 DEF Send
  <2>7. CASE Mark(w)
    BY <2>3, <2>4, <2>5, <2>7 DEF Mark, Steps
  <2>8. CASE Lease(w)
    BY <2>1, <2>3, <2>5, <2>8 DEF Lease
  <2>9. CASE WriteFails(w)
    BY <2>1, <2>3, <2>4, <2>5, <2>9 DEF WriteFails, Steps
  <2> QED
    BY <1>6, <2>6, <2>7, <2>8, <2>9
<1>7. ASSUME NEW w \in Workers, ReleaseLeases(w) PROVE Goal
  <2>1. Carried([job[w] EXCEPT !.step = "read"]) = {}
    BY <1>7, AtWork DEF ReleaseLeases, At, Steps, Carried
  <2> QED
    BY <1>2, <1>7, <2>1 DEF ReleaseLeases
<1>8. CASE Delivery
  <2>1. ASSUME NEW w \in Workers, StartFlush(w) \/ StartPull(w) \/ Respond(w) PROVE Goal
    BY <1>2, <2>1, CarriedOps DEF StartFlush, StartPull, Respond
  <2> QED
    BY <1>4, <1>5, <1>6, <1>7, <1>8, <2>1 DEF Delivery, Work
<1>9. CASE Clock
  BY <1>0, <1>9 DEF Clock, AgeOut, LeaseLapses, Stalls
<1>10. CASE Report
  <2>1. ASSUME NEW w \in Workers, NEW c, NEW output, HandleTerminal(w, c, output)
        PROVE  Goal
    BY <1>2, <2>1, CarriedOps DEF HandleTerminal
  <2> QED
    BY <1>0, <1>10, <2>1 DEF Report, HandleReceipt, HandleProgress
<1>11. CASE Upkeep
  <2>1. ASSUME NEW w \in Workers, NEW withApps, NEW uptime, NEW bootedAt,
               CheckIn(w, withApps, uptime, bootedAt)
        PROVE  Goal
    BY <1>2, <2>1, CarriedOps DEF CheckIn
  <2>2. ASSUME NEW w \in Workers, NEW c, ExpireStalledInstall(w, c) PROVE Goal
    BY <1>2, <2>2, CarriedOps DEF ExpireStalledInstall
  <2>3. ASSUME NEW w \in Workers, NEW c, FailOverdueShell(w, c) PROVE Goal
    BY <1>2, <2>3, CarriedOps DEF FailOverdueShell
  <2> QED
    BY <1>11, <2>1, <2>2, <2>3 DEF Upkeep
<1>12. CASE Link
  <2>1. ASSUME NEW w \in Workers, Connect(w) PROVE Goal
    BY <1>2, <2>1, CarriedOps DEF Connect
  <2>2. CASE Restart
    BY <2>2, CarriedOps DEF Restart
  <2> QED
    BY <1>0, <1>12, <2>1, <2>2 DEF Link, Disconnect
<1>13. CASE Device \/ UNCHANGED vars
  BY <1>0, <1>13 DEF Device, Begin, Finish, BootNears, BootAgain, vars
<1> QED
  BY <1>3, <1>8, <1>9, <1>10, <1>11, <1>12, <1>13 DEF Next

LEMMA TodoCreated ==
    ASSUME TypeOK, OrderInv, [Next]_vars
    PROVE  \A v \in Workers : job'[v].todo \subseteq Created'
<1> USE DEF dbVars, serverVars, deviceVars, histVars
<1> DEFINE Goal == \A v \in Workers : job'[v].todo \subseteq Created'
<1>0. Created \subseteq Created' /\ Created \subseteq Commands
  BY ClockSteps, QueueAssumption DEF Created, TypeOK, Commands
<1>1. ASSUME NEW w \in Workers, NEW j, SetJob(w, j), j.todo \subseteq Created' PROVE Goal
  BY <1>0, <1>1 DEF SetJob, OrderInv, TypeOK
<1>2. UNCHANGED job => Goal
  BY <1>0 DEF OrderInv
<1>3. Idle.todo = {} /\ \A p, t, todo : Start(p, t, todo).todo = todo
  BY DEF Idle, Start
<1>4. ASSUME NEW w \in Workers, NEW p, NEW t, SetJob(w, Idle) \/ SetJob(w, Start(p, t, {}))
      PROVE  Goal
  BY <1>1, <1>3, <1>4
<1>5. CASE Operator
  <2>1. ASSUME NEW w \in Workers, CreateByApi(w) \/ CreateByDashboard(w) PROVE Goal
    <3>1. last + 1 \in Created'
      BY <2>1 , QueueAssumption DEF CreateByApi, CreateByDashboard, Created, TypeOK
    <3> QED
      BY <1>1, <1>3, <2>1, <3>1 DEF CreateByApi, CreateByDashboard
  <2>2. ASSUME NEW w \in Workers, NEW c, CancelByDashboard(w, c) PROVE Goal
    BY <1>4, <2>2 DEF CancelByDashboard
  <2> QED
    BY <1>2, <1>5, <2>1, <2>2 DEF Operator, CancelByApi
<1>6. ASSUME NEW w \in Workers, StartFlush(w) \/ StartPull(w) \/ Respond(w) PROVE Goal
  BY <1>4, <1>6 DEF StartFlush, StartPull, Respond
<1>7. ASSUME NEW w \in Workers, StartRedrive(w) PROVE Goal
  <2>1. PICK S \in (SUBSET Stuck) \ {{}} : SetJob(w, Start("redrive", "send", S))
    BY <1>7 DEF StartRedrive
  <2>2. S \subseteq Created'
    BY <1>0 DEF Stuck
  <2> QED
    BY <1>1, <1>3, <2>1, <2>2
<1>8. ASSUME NEW w \in Workers,
             \/ ReleaseLeases(w) \/ ReadDue(w) \/ Send(w) \/ Mark(w)
             \/ Lease(w) \/ WriteFails(w)
      PROVE  Goal
  <2> DEFINE c == Current(w)
  <2>1. /\ job[w] \in Job /\ job[w] # Idle
        /\ job[w] \in [path : Paths, step : Steps,
                        todo : SUBSET Commands, out : SUBSET Commands]
        /\ job[w].step \in {"send", "mark", "lease"} => c \in job[w].todo
        /\ job[w].todo \subseteq Created'
    BY <1>0, <1>8, AtWork
    DEF ReleaseLeases, ReadDue, Send, Mark, Lease, WriteFails, At, Steps, OrderInv
  <2>2. ASSUME NEW todo, NEW out, todo \subseteq Created',
               SetJob(w, Proceed(job[w], todo, out))
        PROVE  Goal
    <3>1. Proceed(job[w], todo, out).todo \subseteq todo
      BY <2>1 DEF Proceed, Idle
    <3> QED
      BY <1>1, <2>2, <3>1
  <2>3. ASSUME NEW s \in Steps, SetJob(w, [job[w] EXCEPT !.step = s]) PROVE Goal
    BY <1>1, <2>1, <2>3
  <2>4. Rest(w, c) \subseteq Created' /\ job[w].todo \ {c} \subseteq Created'
    BY <2>1 DEF Rest
  <2>5. CASE ReleaseLeases(w)
    BY <2>3, <2>5 DEF ReleaseLeases, Steps
  <2>6. CASE ReadDue(w)
    <3>1. Due(w) \subseteq Created'
      BY <1>0, <2>1 DEF Due, Pending, Live
    <3> QED
      BY <2>2, <2>6, <3>1 DEF ReadDue
  <2>7. CASE Send(w)
    <3>1. CASE Refused(w)
      BY <2>2, <2>4, <3>1 DEF Refused
    <3>2. CASE Accepted(w)
      BY <2>3, <3>2 DEF Accepted, Steps
    <3> QED
      BY <2>7, <3>1, <3>2 DEF Send
  <2>8. CASE Mark(w)
    BY <2>2, <2>3, <2>4, <2>8 DEF Mark, Steps
  <2>9. CASE Lease(w)
    BY <2>2, <2>4, <2>9 DEF Lease
  <2>10. CASE WriteFails(w)
    <3> DEFINE todo == IF job[w].path = "pull" THEN job[w].todo \ {c} ELSE Rest(w, c)
               out  == IF job[w].path = "checkin" THEN job[w].out \cup {c} ELSE job[w].out
    <3>1. todo \subseteq Created'
      BY <2>4
    <3>2. \/ SetJob(w, [job[w] EXCEPT !.step = "lease"])
          \/ SetJob(w, Proceed(job[w], todo, out))
      BY <2>10 DEF WriteFails
    <3> HIDE DEF todo, out
    <3> QED
      BY <2>2, <2>3, <3>1, <3>2 DEF Steps
  <2> QED
    BY <1>8, <2>5, <2>6, <2>7, <2>8, <2>9, <2>10
<1>9. CASE Delivery
  BY <1>6, <1>7, <1>8, <1>9 DEF Delivery, Work
<1>10. CASE Report
  <2>1. ASSUME NEW w \in Workers, NEW c, NEW output, HandleTerminal(w, c, output)
        PROVE  Goal
    BY <1>4, <2>1 DEF HandleTerminal
  <2> QED
    BY <1>2, <1>10, <2>1 DEF Report, HandleReceipt, HandleProgress
<1>11. CASE Upkeep
  BY <1>4, <1>11 DEF Upkeep, CheckIn, ExpireStalledInstall, FailOverdueShell
<1>12. CASE Link
  <2>1. ASSUME NEW w \in Workers, Connect(w) PROVE Goal
    BY <1>4, <2>1 DEF Connect
  <2>2. CASE Restart
    BY <1>3, <2>2 DEF Restart
  <2> QED
    BY <1>2, <1>12, <2>1, <2>2 DEF Link, Disconnect
<1>13. CASE Clock \/ Device \/ UNCHANGED vars
  BY <1>2, <1>13 DEF Clock, AgeOut, LeaseLapses, Stalls, Device, Begin, Finish, BootNears, BootAgain, vars
<1> QED
  BY <1>5, <1>9, <1>10, <1>11, <1>12, <1>13 DEF Next

LEMMA InitOrder == Init => OrderInv
BY DEF Init, OrderInv, LetGo, Carried, Idle, NoRow, Terminal, Settled

LEMMA NextOrder == TypeOK /\ TypeOK' /\ OrderInv /\ [Next]_vars => OrderInv'
<1> SUFFICES ASSUME TypeOK, TypeOK', OrderInv, [Next]_vars PROVE OrderInv'
  OBVIOUS
<1>1. (\A w \in Workers : job[w].todo \subseteq Created)'
  BY TodoCreated
<1>2. (\A c \in Commands : row[c].status \in Terminal => c \in past)'
  BY TerminalIsPast
<1>3. ASSUME Gated, NEW c \in Commands, LetGo(c)' PROVE Released(c)'
  <2>1. LetGo(c) \/ Released(c)
    BY <1>3, RowsLetGo, DevLetGo, JobsLetGo DEF LetGo
  <2>2. Released(c)
    BY <1>3, <2>1 DEF OrderInv
  <2> QED
    BY <2>2, NextForward, ReleasedStays
<1> QED
  BY <1>1, <1>2, <1>3 DEF OrderInv, Gated

\* However hand-outs, sweeps, reports and reconnects interleave, a command gets
\* to the device only when every older command of its lane has been finished
\* or has left the one-hour window (GetPendingCommandsForDevice).
THEOREM LaneOrderHolds == Spec => []LaneOrder
<1>1. TypeOK /\ OrderInv => LaneOrder
  BY DEF OrderInv, LaneOrder, Gated, LetGo
<1> QED
  BY InitType, NextType, InitOrder, NextOrder, <1>1, PTL DEF Spec
=============================================================================
