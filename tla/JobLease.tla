------------------------------ MODULE JobLease ------------------------------
(***************************************************************************)
(* One periodic job in several copies of the server (jobs.Every) and its   *)
(* row of job_leases, which decides who runs a tick.  Time is counted in    *)
(* units; what the code keeps as instants is kept here as the time left to  *)
(* them or passed since.  A statement takes no time; a run takes any, and   *)
(* may outlast its timeout by Late when it is slow to obey its context.     *)
(***************************************************************************)
EXTENDS Integers

CONSTANTS
    Copies,    \* server copies
    Interval,  \* the job's interval
    Early,     \* how long before the next tick a lease ends (interval/20)
    Offset,    \* the wait before the first tick (Offset, or 0 for EveryNow)
    Holds,     \* the timeouts jobs are registered with
    Late       \* how long a run may outlast its timeout

ASSUME LeaseAssumption ==
    /\ Interval \in Nat \ {0}
    /\ Early \in 0..(Interval - 1)
    /\ Offset \in 0..Interval
    /\ Holds \subseteq Nat
    /\ Late \in Nat

Gone == "gone"

ASSUME GoneAssumption == Gone \notin Copies

VARIABLES
    hold,    \* the job's timeout
    holder,  \* job_leases.holder: a copy, or a process that has gone
    left,    \* job_leases.until - now, -1 once it has passed
    step,    \* each copy: "down", "wait" for a tick, "run"
    timer,   \* time to its ticker's next tick
    tick,    \* a tick waits in the ticker's channel
    age,     \* of the run
    starter, \* history: who started last, and how long ago
    ago,
    clean,   \*   whether that run has released its lease
    well     \*   how long each copy has been up without a failed statement

leaseVars == <<holder, left>>
copyVars  == <<step, timer, tick, age>>
histVars  == <<starter, ago, clean, well>>
vars == <<hold, leaseVars, copyVars, histVars>>

AtMost(n, m)  == IF n < m THEN n ELSE m
AtLeast(n, m) == IF n > m THEN n ELSE m

Past   == -1
MaxRun == hold + Late

\* The longest a lease or a run keeps the other copies out, and then a tick.
Gap == AtLeast(MaxRun, Interval - Early) + Interval

-----------------------------------------------------------------------------
(* The statements on job_leases.                                           *)

\* Mutant of Free: a lock instead of a lease, given back and never run out.
FreeWhenReleased(w) == (left < 0 /\ clean) \/ holder = w

\* TryJobLease: the WHERE of its upsert.
Free(w) == left < 0 \/ holder = w

\* Mutant of Release: any copy may end the lease.
ReleaseAny(w) == left' = AtLeast(Interval - Early - age[w], Past)

\* Mutant of Release: the lease ends with the run, and the next copy to tick
\* runs the job again.
ReleaseAtOnce(w) == left' = IF holder = w THEN Past ELSE left

\* ReleaseJobLease: the holder's lease ends just before the next tick.
Release(w) ==
    left' = IF holder = w THEN AtLeast(Interval - Early - age[w], Past) ELSE left

-----------------------------------------------------------------------------
(* A copy.                                                                 *)

\* every starts the ticker when the first wait is over, so the first tick is as
\* good as the ticker's.
Start(w) ==
    /\ step[w] = "down"
    /\ step' = [step EXCEPT ![w] = "wait"]
    /\ timer' = [timer EXCEPT ![w] = IF Offset = 0 THEN Interval ELSE Offset]
    /\ tick' = [tick EXCEPT ![w] = Offset = 0]
    /\ UNCHANGED <<hold, leaseVars, age, histVars>>

Due(w) == step[w] = "wait" /\ tick[w]

\* claim, and the run begins.
Claim(w) ==
    /\ Due(w)
    /\ Free(w)
    /\ holder' = w
    /\ left' = hold
    /\ step' = [step EXCEPT ![w] = "run"]
    /\ tick' = [tick EXCEPT ![w] = FALSE]
    /\ age' = [age EXCEPT ![w] = 0]
    /\ starter' = w /\ ago' = 0 /\ clean' = FALSE
    /\ UNCHANGED <<hold, timer, well>>

\* Another copy holds the lease, or the statement fails: the tick is skipped.
Skip(w) ==
    /\ Due(w)
    /\ tick' = [tick EXCEPT ![w] = FALSE]
    /\ \/ ~ Free(w) /\ UNCHANGED well
       \/ well' = [well EXCEPT ![w] = 0]
    /\ UNCHANGED <<hold, leaseVars, step, timer, age, starter, ago, clean>>

\* The run returns (or panics, which Run recovers); a release that fails is
\* logged.
Finish(w) ==
    /\ step[w] = "run"
    /\ step' = [step EXCEPT ![w] = "wait"]
    /\ age' = [age EXCEPT ![w] = 0]
    /\ \/ Release(w) /\ clean' = (clean \/ starter = w)
       \/ UNCHANGED <<left, clean>>
    /\ UNCHANGED <<hold, holder, timer, tick, starter, ago, well>>

\* The process dies; the next one on this machine has another name.
Crash(w) ==
    /\ step[w] # "down"
    /\ step' = [step EXCEPT ![w] = "down"]
    /\ timer' = [timer EXCEPT ![w] = Interval]
    /\ tick' = [tick EXCEPT ![w] = FALSE]
    /\ age' = [age EXCEPT ![w] = 0]
    /\ well' = [well EXCEPT ![w] = 0]
    /\ holder' = IF holder = w THEN Gone ELSE holder
    /\ starter' = IF starter = w THEN Gone ELSE starter
    /\ UNCHANGED <<hold, left, ago, clean>>

\* A unit of time.  A channel holds one tick: a busy copy loses the rest.
Pass ==
    /\ \A w \in Copies : ~ Due(w) /\ (step[w] = "run" => age[w] < MaxRun)
    /\ left' = AtLeast(left - 1, Past)
    /\ timer' = [w \in Copies |->
                   IF step[w] = "down" THEN timer[w]
                   ELSE IF timer[w] = 1 THEN Interval ELSE timer[w] - 1]
    /\ tick' = [w \in Copies |-> tick[w] \/ (step[w] # "down" /\ timer[w] = 1)]
    /\ age' = [w \in Copies |-> IF step[w] = "run" THEN age[w] + 1 ELSE age[w]]
    /\ ago' = AtMost(ago + 1, Gap + 1)
    /\ well' = [w \in Copies |->
                  IF step[w] = "down" THEN 0 ELSE AtMost(well[w] + 1, Gap + 1)]
    /\ UNCHANGED <<hold, holder, step, starter, clean>>

-----------------------------------------------------------------------------
Init ==
    /\ hold \in Holds
    /\ holder = Gone /\ left = Past
    /\ step = [w \in Copies |-> "down"]
    /\ timer = [w \in Copies |-> Interval]
    /\ tick = [w \in Copies |-> FALSE]
    /\ age = [w \in Copies |-> 0]
    /\ starter = Gone /\ ago = Gap + 1 /\ clean = TRUE
    /\ well = [w \in Copies |-> 0]

Next ==
    \/ \E w \in Copies : Start(w) \/ Claim(w) \/ Skip(w) \/ Finish(w) \/ Crash(w)
    \/ Pass

Spec == Init /\ [][Next]_vars

-----------------------------------------------------------------------------
(* Properties.                                                             *)

TypeOK ==
    /\ hold \in Holds
    /\ holder \in Copies \cup {Gone}
    /\ left \in Int /\ left >= Past
    /\ step \in [Copies -> {"down", "wait", "run"}]
    /\ timer \in [Copies -> 1..Interval]
    /\ tick \in [Copies -> BOOLEAN]
    /\ age \in [Copies -> Nat]
    /\ starter \in Copies \cup {Gone}
    /\ ago \in Nat /\ clean \in BOOLEAN
    /\ well \in [Copies -> Nat]

InTime(w) == step[w] = "run" /\ age[w] <= hold

\* Of the copies whose run is within its timeout there is at most one, whatever
\* crashed, overran or failed to release before ("none can run this one twice",
\* ReleaseJobLease): an overdue copy's release does not free the next one's
\* lease.
OneRunner == \A v, w \in Copies : InTime(v) /\ InTime(w) => v = w

Starts(w) == step[w] # "run" /\ step'[w] = "run"

\* A copy does not run a tick that another has run: it starts later than the end
\* of the other's lease, just before the next tick, or, when that run crashed,
\* overran or could not release, later than its timeout (TryJobLease).
OncePerTick ==
    [][\A w \in Copies :
         Starts(w) /\ starter # w =>
            \/ ago > Interval - Early
            \/ ~ clean /\ ago > hold]_vars

\* The job is not forgotten: while some copy has been up, with no statement
\* failing, for as long as a lease and an interval, the last start is not older
\* than that ("frees it at the timeout at the latest", TryJobLease).
Timely == \A w \in Copies : well[w] > Gap => ago <= Gap
=============================================================================
