--------------------------- MODULE JobLeaseProofs ---------------------------
(***************************************************************************)
(* Every copy's runs, for any number of copies and any interval, offset,   *)
(* timeout and overrun: who may run, when, and how long the job may rest.  *)
(***************************************************************************)
EXTENDS JobLease, TLAPS

USE LeaseAssumption, GoneAssumption

\* The longest a lease or a run keeps the other copies out.
Reach == AtLeast(MaxRun, Interval - Early)

Bounds ==
    /\ \A w \in Copies : age[w] <= MaxRun
    /\ \A w \in Copies : step[w] = "down" => well[w] = 0
    /\ \A w \in Copies : step[w] # "run" => age[w] = 0
    /\ ago <= Gap + 1

LEMMA Numbers ==
    ASSUME hold \in Holds
    PROVE  /\ hold \in Nat /\ MaxRun \in Nat /\ Reach \in Nat /\ Gap \in Nat
           /\ Gap = Reach + Interval
           /\ hold <= MaxRun /\ MaxRun <= Reach /\ Interval - Early <= Reach
           /\ Interval \in Nat \ {0} /\ Early \in Nat /\ Early < Interval
           /\ Interval - Early \in Nat
BY DEF MaxRun, Reach, Gap, AtLeast

LEMMA Extremes ==
    ASSUME NEW n \in Int, NEW m \in Int
    PROVE  /\ AtLeast(n, m) \in Int /\ AtLeast(n, m) >= n /\ AtLeast(n, m) >= m
           /\ AtLeast(n, m) \in {n, m}
           /\ AtMost(n, m) \in Int /\ AtMost(n, m) <= n /\ AtMost(n, m) <= m
           /\ AtMost(n, m) \in {n, m}
BY DEF AtLeast, AtMost

LEMMA InitType == Init => TypeOK /\ Bounds
<1> SUFFICES ASSUME Init PROVE TypeOK /\ Bounds
  OBVIOUS
<1> QED
  BY Numbers DEF Init, TypeOK, Bounds, Past

LEMMA StartType ==
    ASSUME TypeOK, Bounds, NEW w \in Copies, Start(w)
    PROVE  TypeOK' /\ Bounds'
<1>1. (IF Offset = 0 THEN Interval ELSE Offset) \in 1..Interval
  OBVIOUS
<1>2. TypeOK'
  BY <1>1 DEF Start, TypeOK, leaseVars, histVars
<1>3. Bounds'
  BY DEF Start, TypeOK, Bounds, leaseVars, histVars, Gap, MaxRun
<1> QED
  BY <1>2, <1>3

LEMMA ClaimType ==
    ASSUME TypeOK, Bounds, NEW w \in Copies, Claim(w)
    PROVE  TypeOK' /\ Bounds'
<1>0. hold \in Nat /\ hold \in Int /\ hold >= Past
  BY Numbers DEF TypeOK, Past
<1>1. TypeOK'
  BY <1>0 DEF Claim, TypeOK
<1>2. Bounds'
  BY Numbers DEF Claim, Due, TypeOK, Bounds, Gap, MaxRun
<1> QED
  BY <1>1, <1>2

LEMMA SkipType ==
    ASSUME TypeOK, Bounds, NEW w \in Copies, Skip(w)
    PROVE  TypeOK' /\ Bounds'
<1>1. well' = well \/ well' = [well EXCEPT ![w] = 0]
  BY DEF Skip
<1>2. TypeOK'
  BY <1>1 DEF Skip, TypeOK, leaseVars
<1>3. Bounds'
  BY <1>1 DEF Skip, TypeOK, Bounds, leaseVars, Gap, MaxRun
<1> QED
  BY <1>2, <1>3

LEMMA FinishType ==
    ASSUME TypeOK, Bounds, NEW w \in Copies, Finish(w)
    PROVE  TypeOK' /\ Bounds'
<1>1. left' \in Int /\ left' >= Past
  <2>1. Interval - Early - age[w] \in Int /\ Past \in Int
    BY DEF TypeOK, Past
  <2>2. CASE UNCHANGED left
    BY <2>2 DEF TypeOK
  <2>3. CASE Release(w)
    BY <2>1, <2>3, Extremes DEF Release, TypeOK
  <2> QED
    BY <2>2, <2>3 DEF Finish
<1>2. clean' \in BOOLEAN
  BY DEF Finish, TypeOK
<1>3. TypeOK'
  BY <1>1, <1>2 DEF Finish, TypeOK
<1>4. Bounds'
  BY Numbers DEF Finish, TypeOK, Bounds, Gap, MaxRun
<1> QED
  BY <1>3, <1>4

LEMMA CrashType ==
    ASSUME TypeOK, Bounds, NEW w \in Copies, Crash(w)
    PROVE  TypeOK' /\ Bounds'
<1>1. TypeOK'
  BY DEF Crash, TypeOK
<1>2. Bounds'
  BY Numbers DEF Crash, TypeOK, Bounds, Gap, MaxRun
<1> QED
  BY <1>1, <1>2

LEMMA PassType ==
    ASSUME TypeOK, Bounds, Pass
    PROVE  TypeOK' /\ Bounds'
<1>1. left' \in Int /\ left' >= Past
  BY Extremes DEF Pass, TypeOK, Past
<1>2. timer' \in [Copies -> 1..Interval]
  BY DEF Pass, TypeOK
<1>3. age' \in [Copies -> Nat] /\ tick' \in [Copies -> BOOLEAN]
  BY DEF Pass, TypeOK
<1>4. ago' \in Nat /\ ago' <= Gap + 1
  BY Numbers DEF Pass, TypeOK, AtMost
<1>5. well' \in [Copies -> Nat]
  <2>1. \A w \in Copies : AtMost(well[w] + 1, Gap + 1) \in Nat
    BY Numbers DEF TypeOK, AtMost
  <2> QED
    BY <2>1 DEF Pass
<1>6. TypeOK'
  BY <1>1, <1>2, <1>3, <1>4, <1>5 DEF Pass, TypeOK
<1>7. \A w \in Copies : age'[w] <= MaxRun /\ (step[w] # "run" => age'[w] = 0)
  BY Numbers DEF Pass, TypeOK, Bounds
<1>8. \A w \in Copies : step[w] = "down" => well'[w] = 0
  BY DEF Pass, TypeOK
<1>9. Bounds'
  BY <1>4, <1>7, <1>8 DEF Pass, Bounds, Gap, MaxRun
<1> QED
  BY <1>6, <1>9

LEMMA NextType == TypeOK /\ Bounds /\ [Next]_vars => (TypeOK /\ Bounds)'
<1> SUFFICES ASSUME TypeOK, Bounds, [Next]_vars PROVE TypeOK' /\ Bounds'
  OBVIOUS
<1>1. CASE UNCHANGED vars
  <2>1. TypeOK'
    BY <1>1 DEF vars, leaseVars, copyVars, histVars, TypeOK
  <2>2. Bounds'
    BY <1>1 DEF vars, leaseVars, copyVars, histVars, Bounds, Gap, MaxRun
  <2> QED
    BY <2>1, <2>2
<1> QED
  BY <1>1, StartType, ClaimType, SkipType, FinishType, CrashType, PassType DEF Next

\* The row and the copies hold what their readers expect.
THEOREM TypesHold == Spec => [](TypeOK /\ Bounds)
BY InitType, NextType, PTL DEF Spec

-----------------------------------------------------------------------------
(* The lease follows the run that holds it.                                *)

Holding == \A w \in Copies : InTime(w) => holder = w /\ left = hold - age[w]

\* The holder is the last to have started; while its lease keeps others out,
\* the time left follows from the time since.
Keeping ==
    /\ holder = starter
    /\ \A w \in Copies : step[w] = "run" => ago <= age[w]
    /\ \A w \in Copies : step[w] = "run" /\ starter = w => ago = age[w] /\ ~ clean
    /\ ~ clean /\ ago <= hold => left = hold - ago
    /\ clean /\ ago <= Interval - Early => left = Interval - Early - ago
    /\ left >= 0 => left + ago <= Reach

LEMMA InitKept == Init => Holding /\ Keeping
<1> SUFFICES ASSUME Init PROVE Holding /\ Keeping
  OBVIOUS
<1>1. /\ hold \in Nat /\ Reach \in Nat /\ Gap = Reach + Interval
      /\ Interval - Early <= Reach
  BY Numbers DEF Init
<1> QED
  BY <1>1 DEF Init, Holding, Keeping, InTime, Past

LEMMA StartKept ==
    ASSUME TypeOK, Bounds, Holding, Keeping, NEW w \in Copies, Start(w)
    PROVE  Holding' /\ Keeping'
<1>1. /\ UNCHANGED <<hold, holder, left, age, starter, ago, clean>>
      /\ \A v \in Copies : step'[v] = "run" => step[v] = "run"
  BY DEF Start, TypeOK, leaseVars, histVars
<1>2. UNCHANGED Reach
  BY <1>1 DEF Reach, MaxRun
<1>3. Holding'
  BY <1>1 DEF Holding, InTime
<1>4. Keeping'
  BY <1>1, <1>2 DEF Keeping
<1> QED
  BY <1>3, <1>4

LEMMA SkipKept ==
    ASSUME TypeOK, Bounds, Holding, Keeping, NEW w \in Copies, Skip(w)
    PROVE  Holding' /\ Keeping'
<1>1. UNCHANGED <<hold, holder, left, step, age, starter, ago, clean>>
  BY DEF Skip, leaseVars
<1>2. UNCHANGED Reach
  BY <1>1 DEF Reach, MaxRun
<1> QED
  BY <1>1, <1>2 DEF Holding, Keeping, InTime

LEMMA ClaimKept ==
    ASSUME TypeOK, Bounds, Holding, Keeping, NEW w \in Copies, Claim(w)
    PROVE  Holding' /\ Keeping'
<1>1. /\ holder' = w /\ left' = hold /\ starter' = w /\ ago' = 0 /\ ~ clean'
      /\ hold' = hold /\ hold \in Nat
      /\ age'[w] = 0 /\ step'[w] = "run"
      /\ \A v \in Copies \ {w} : age'[v] = age[v] /\ step'[v] = step[v]
  BY Numbers DEF Claim, TypeOK
<1>2. step[w] # "run"
  BY DEF Claim, Due
<1>3. Reach' = Reach /\ hold <= Reach /\ Reach \in Nat
  BY <1>1, Numbers DEF Reach, MaxRun, TypeOK
<1>4. ASSUME NEW v \in Copies \ {w} PROVE ~ InTime(v)'
  <2>1. CASE InTime(v)
    <3>1. holder = v /\ left = hold - age[v] /\ age[v] <= hold /\ age[v] \in Nat
      BY <2>1 DEF Holding, InTime, TypeOK
    <3>2. ~ left < 0
      BY <1>1, <3>1
    <3> QED
      BY <3>1, <3>2 DEF Claim, Free
  <2>2. CASE ~ InTime(v)
    BY <1>1, <2>2 DEF InTime
  <2> QED
    BY <2>1, <2>2
<1>5. Holding'
  BY <1>1, <1>4 DEF Holding
<1>6. Keeping'
  <2>1. \A v \in Copies : age'[v] \in Nat
    BY <1>1 DEF TypeOK
  <2> QED
    BY <1>1, <1>3, <2>1 DEF Keeping
<1> QED
  BY <1>5, <1>6

LEMMA FinishKept ==
    ASSUME TypeOK, Bounds, Holding, Keeping, NEW w \in Copies, Finish(w)
    PROVE  Holding' /\ Keeping'
<1>1. /\ UNCHANGED <<hold, holder, starter, ago>>
      /\ step[w] = "run" /\ step'[w] = "wait"
      /\ \A v \in Copies \ {w} : age'[v] = age[v] /\ step'[v] = step[v]
  BY DEF Finish, TypeOK
<1>2. Reach' = Reach /\ Reach \in Nat /\ Interval - Early <= Reach
      /\ Interval - Early \in Nat /\ hold \in Nat /\ ago \in Nat /\ left \in Int
      /\ age[w] \in Nat
  BY <1>1, Numbers DEF Reach, MaxRun, TypeOK
<1>3. CASE holder # w
  <2>1. left' = left /\ clean' = clean
    BY <1>3 DEF Finish, Release, Keeping, TypeOK
  <2>2. Holding'
    BY <1>1, <2>1 DEF Holding, InTime
  <2>3. Keeping'
    BY <1>1, <1>2, <2>1 DEF Keeping
  <2> QED
    BY <2>2, <2>3
<1>4. CASE holder = w
  <2>1. ago = age[w] /\ ~ clean
    BY <1>1, <1>4 DEF Keeping
  <2>2. Holding'
    <3>1. ASSUME NEW v \in Copies, InTime(v)' PROVE v # w /\ InTime(v)
      BY <1>1, <3>1 DEF InTime
    <3> QED
      BY <1>4, <3>1 DEF Holding
  <2>3. \A v \in Copies : step'[v] = "run" => v # w /\ step[v] = "run" /\ age'[v] = age[v]
    BY <1>1
  <2>4. /\ holder' = starter'
        /\ \A v \in Copies : step'[v] = "run" => ago' <= age'[v]
        /\ \A v \in Copies : step'[v] = "run" => starter' # v
    BY <1>1, <1>4, <2>3 DEF Keeping
  <2>5. CASE left' = left /\ clean' = clean
    BY <1>1, <1>2, <2>2, <2>4, <2>5 DEF Keeping
  <2>6. CASE Release(w) /\ clean'
    <3>1. left' = AtLeast(Interval - Early - age[w], Past)
      BY <1>4, <2>6 DEF Release
    <3>2. \/ left' = Interval - Early - ago
          \/ left' = -1 /\ Interval - Early - ago < 0
      BY <1>2, <2>1, <3>1 DEF AtLeast, Past
    <3>3. Keeping'
      BY <1>1, <1>2, <2>4, <2>6, <3>2 DEF Keeping
    <3> QED
      BY <2>2, <3>3
  <2>7. starter = w
    BY <1>4 DEF Keeping
  <2>8. (left' = left /\ clean' = clean) \/ (Release(w) /\ clean')
    BY <2>7 DEF Finish
  <2> QED
    BY <2>2, <2>5, <2>6, <2>8
<1> QED
  BY <1>3, <1>4

LEMMA CrashKept ==
    ASSUME TypeOK, Bounds, Holding, Keeping, NEW w \in Copies, Crash(w)
    PROVE  Holding' /\ Keeping'
<1>1. /\ UNCHANGED <<hold, left, ago, clean>>
      /\ step'[w] = "down"
      /\ \A v \in Copies \ {w} : age'[v] = age[v] /\ step'[v] = step[v]
      /\ holder' = IF holder = w THEN Gone ELSE holder
      /\ starter' = IF starter = w THEN Gone ELSE starter
  BY DEF Crash, TypeOK
<1>2. Reach' = Reach
  BY <1>1 DEF Reach, MaxRun
<1>3. Holding'
  <2>1. ASSUME NEW v \in Copies, InTime(v)' PROVE v # w /\ InTime(v)
    BY <1>1, <2>1 DEF InTime
  <2> QED
    BY <1>1, <2>1 DEF Holding
<1>4. Keeping'
  <2>1. \A v \in Copies : step'[v] = "run" => v # w /\ step[v] = "run" /\ age'[v] = age[v]
    BY <1>1
  <2>2. \A v \in Copies : step'[v] = "run" /\ starter' = v => starter = v
    BY <1>1, <2>1
  <2> QED
    BY <1>1, <1>2, <2>1, <2>2 DEF Keeping
<1> QED
  BY <1>3, <1>4

LEMMA PassKept ==
    ASSUME TypeOK, Bounds, Holding, Keeping, Pass
    PROVE  Holding' /\ Keeping'
<1>1. /\ UNCHANGED <<hold, holder, step, starter, clean>>
      /\ \A w \in Copies : step[w] = "run" => age'[w] = age[w] + 1 /\ age[w] < MaxRun
      /\ \A w \in Copies : step[w] # "run" => age'[w] = age[w]
      /\ left' = AtLeast(left - 1, Past)
      /\ ago' = AtMost(ago + 1, Gap + 1)
  BY DEF Pass, TypeOK
<1>2. /\ Reach' = Reach /\ Reach \in Nat /\ Gap = Reach + Interval
      /\ Interval \in Nat \ {0} /\ MaxRun \in Nat /\ MaxRun <= Reach
      /\ Interval - Early \in Nat /\ Interval - Early <= Reach
      /\ hold \in Nat /\ hold <= MaxRun
      /\ ago \in Nat /\ left \in Int /\ left >= -1
      /\ \A w \in Copies : age[w] \in Nat
  BY <1>1, Numbers DEF Reach, MaxRun, TypeOK, Past
<1>3. \/ left' = left - 1 /\ left >= 0
      \/ left' = -1 /\ left = -1
  BY <1>1, <1>2 DEF AtLeast, Past
<1>4. \/ ago' = ago + 1
      \/ ago' = ago /\ ago = Gap + 1
  BY <1>1, <1>2 DEF AtMost, Bounds
<1>5. Holding'
  <2>1. ASSUME NEW w \in Copies, InTime(w)' PROVE holder = w /\ left' = hold - age'[w]
    <3>1. InTime(w) /\ age'[w] = age[w] + 1 /\ age'[w] <= hold
      BY <1>1, <1>2, <2>1 DEF InTime
    <3>2. holder = w /\ left = hold - age[w]
      BY <3>1 DEF Holding
    <3> QED
      BY <1>2, <1>3, <3>1, <3>2
  <2> QED
    BY <1>1, <2>1 DEF Holding
<1>6. Keeping'
  <2>1. \A w \in Copies : step[w] = "run" => ago <= age[w] /\ ago <= MaxRun
    BY <1>1, <1>2 DEF Keeping
  <2>2. \A w \in Copies : step'[w] = "run" => ago' <= age'[w]
    BY <1>1, <1>2, <1>4, <2>1
  <2>3. \A w \in Copies : step'[w] = "run" /\ starter' = w => ago' = age'[w] /\ ~ clean'
    <3>1. ASSUME NEW w \in Copies, step'[w] = "run", starter' = w
          PROVE  ago' = age'[w] /\ ~ clean'
      <4>1. ago = age[w] /\ ~ clean /\ step[w] = "run"
        BY <1>1, <3>1 DEF Keeping
      <4>2. ago # Gap + 1
        BY <1>2, <2>1, <4>1
      <4> QED
        BY <1>1, <1>4, <4>1, <4>2
    <3> QED
      BY <3>1
  <2>4. ~ clean' /\ ago' <= hold' => left' = hold' - ago'
    BY <1>1, <1>2, <1>3, <1>4 DEF Keeping
  <2>5. clean' /\ ago' <= Interval - Early => left' = Interval - Early - ago'
    BY <1>1, <1>2, <1>3, <1>4 DEF Keeping
  <2>6. left' >= 0 => left' + ago' <= Reach'
    BY <1>1, <1>2, <1>3, <1>4 DEF Keeping
  <2> QED
    BY <1>1, <2>2, <2>3, <2>4, <2>5, <2>6 DEF Keeping
<1> QED
  BY <1>5, <1>6

Lease == TypeOK /\ Bounds /\ Holding /\ Keeping

LEMMA LeaseHolds == Spec => []Lease
<1>1. Init => Lease
  BY InitType, InitKept DEF Lease
<1>2. Lease /\ [Next]_vars => Lease'
  <2> SUFFICES ASSUME Lease, [Next]_vars PROVE Holding' /\ Keeping'
    BY NextType DEF Lease
  <2>1. CASE UNCHANGED vars
    BY <2>1 DEF Lease, Holding, Keeping, InTime, Reach, MaxRun, vars, leaseVars,
       copyVars, histVars
  <2> QED
    BY <2>1, StartKept, ClaimKept, SkipKept, FinishKept, CrashKept, PassKept
       DEF Lease, Next
<1> QED
  BY <1>1, <1>2, PTL DEF Spec

\* No two runs that keep to their timeout overlap.
THEOREM OneRunnerAlways == Spec => []OneRunner
<1>1. Lease => OneRunner
  BY DEF Lease, Holding, OneRunner
<1> QED
  BY <1>1, LeaseHolds, PTL

\* A tick that one copy has run is not run by another.
THEOREM TicksRunOnce == Spec => OncePerTick
<1> DEFINE Step == \A w \in Copies :
                     Starts(w) /\ starter # w =>
                        \/ ago > Interval - Early
                        \/ ~ clean /\ ago > hold
<1>1. ASSUME Lease, Next PROVE Step
  <2>1. SUFFICES ASSUME NEW w \in Copies, Starts(w), starter # w
                 PROVE  ago > Interval - Early \/ (~ clean /\ ago > hold)
    OBVIOUS
  <2>2. Claim(w)
    BY <1>1, <2>1 DEF Starts, Next, Start, Claim, Skip, Finish, Crash, Pass, Lease, TypeOK
  <2>3. left < 0
    BY <1>1, <2>1, <2>2 DEF Claim, Free, Lease, Keeping
  <2>4. ago \in Nat /\ hold \in Nat /\ Interval - Early \in Nat
    BY <1>1, Numbers DEF Lease, TypeOK
  <2> QED
    BY <1>1, <2>3, <2>4 DEF Lease, Keeping, TypeOK
<1>2. ASSUME Lease, [Next]_vars PROVE [Step]_vars
  BY <1>1, <1>2
<1> QED
  BY <1>2, LeaseHolds, PTL DEF Spec, OncePerTick

-----------------------------------------------------------------------------
(* How long the job may rest.                                              *)

\* The time since the ticker's last tick.
Elapsed(w) == Interval - timer[w]

\* What the last tick of a copy saw still limits the time since the last start.
RestedAt(w) ==
    /\ step[w] = "run" /\ ~ tick[w] => age[w] <= Elapsed(w)
    /\ step[w] = "wait" /\ ~ tick[w] /\ well[w] > Elapsed(w)
          => ago <= Reach + Elapsed(w)
    /\ step[w] = "wait" /\ tick[w] /\ well[w] > Gap => ago <= Gap

Rested == \A w \in Copies : RestedAt(w)

LEMMA Amounts ==
    ASSUME Lease
    PROVE  /\ Reach \in Nat /\ Gap = Reach + Interval /\ MaxRun \in Nat
           /\ MaxRun <= Reach /\ Interval \in Nat \ {0}
           /\ ago \in Nat /\ left \in Int
           /\ \A w \in Copies :
                 /\ timer[w] \in 1..Interval /\ Elapsed(w) \in 0..(Interval - 1)
                 /\ age[w] \in Nat /\ well[w] \in Nat /\ age[w] <= MaxRun
<1>1. /\ Reach \in Nat /\ Gap = Reach + Interval /\ MaxRun \in Nat
      /\ MaxRun <= Reach /\ Interval \in Nat \ {0}
  BY Numbers DEF Lease, TypeOK
<1> QED
  BY <1>1 DEF Lease, TypeOK, Bounds, Elapsed

\* A step of w alone does not make the last start older for the others.
LEMMA OthersRest ==
    ASSUME Lease, Rested, NEW w \in Copies, hold' = hold, ago' \in {0, ago},
           \A v \in Copies \ {w} :
              /\ step'[v] = step[v] /\ timer'[v] = timer[v] /\ tick'[v] = tick[v]
              /\ age'[v] = age[v] /\ well'[v] = well[v]
    PROVE  \A v \in Copies \ {w} : RestedAt(v)'
<1>1. Reach' = Reach /\ Gap' = Gap
  BY DEF Reach, Gap, MaxRun
<1>2. ASSUME NEW v \in Copies \ {w} PROVE RestedAt(v)'
  <2>1. RestedAt(v) /\ Elapsed(v)' = Elapsed(v)
    BY DEF Rested, Elapsed
  <2> QED
    BY <1>1, <2>1, Amounts DEF RestedAt
<1> QED
  BY <1>2

LEMMA RestedStep ==
    ASSUME Lease, Rested, [Next]_vars
    PROVE  Rested'
<1>0. /\ step \in [Copies -> {"down", "wait", "run"}] /\ timer \in [Copies -> 1..Interval]
      /\ tick \in [Copies -> BOOLEAN] /\ age \in [Copies -> Nat] /\ well \in [Copies -> Nat]
      /\ \A w \in Copies : RestedAt(w)
  BY DEF Lease, TypeOK, Rested
<1>1. ASSUME NEW w \in Copies, Start(w) PROVE Rested'
  <2>1. RestedAt(w)'
    <3>1. step'[w] = "wait" /\ well'[w] = 0 /\ timer'[w] \in 1..Interval
      BY <1>0, <1>1 DEF Start, histVars, Lease, Bounds
    <3>2. Gap' = Gap
      BY <1>1 DEF Start, Gap, MaxRun
    <3> QED
      BY <3>1, <3>2, Amounts DEF RestedAt, Elapsed
  <2>2. \A v \in Copies \ {w} : RestedAt(v)'
    BY <1>0, <1>1, OthersRest DEF Start, leaseVars, histVars
  <2> QED
    BY <2>1, <2>2 DEF Rested
<1>2. ASSUME NEW w \in Copies, Claim(w) PROVE Rested'
  <2>1. RestedAt(w)'
    <3>1. step'[w] = "run" /\ age'[w] = 0 /\ timer' = timer
      BY <1>0, <1>2 DEF Claim
    <3> QED
      BY <3>1, Amounts DEF RestedAt, Elapsed
  <2>2. \A v \in Copies \ {w} : RestedAt(v)'
    BY <1>0, <1>2, OthersRest DEF Claim
  <2> QED
    BY <2>1, <2>2 DEF Rested
<1>3. ASSUME NEW w \in Copies, Skip(w) PROVE Rested'
  <2>1. RestedAt(w)'
    <3>1. step'[w] = "wait" /\ ~ tick'[w] /\ timer' = timer /\ ago' = ago /\ hold' = hold
      BY <1>0, <1>3 DEF Skip, Due
    <3>2. Reach' = Reach
      BY <3>1 DEF Reach, MaxRun
    <3>3. CASE ~ Free(w)
      <4>1. ago <= Reach
        BY <3>3, Amounts DEF Free, Lease, Keeping
      <4> QED
        BY <3>1, <3>2, <4>1, Amounts DEF RestedAt, Elapsed
    <3>4. CASE well' = [well EXCEPT ![w] = 0]
      <4>1. well'[w] = 0
        BY <1>0, <3>4
      <4> QED
        BY <3>1, <4>1, Amounts DEF RestedAt, Elapsed
    <3> QED
      BY <1>3, <3>3, <3>4 DEF Skip
  <2>2. \A v \in Copies \ {w} : well'[v] = well[v] /\ tick'[v] = tick[v]
    BY <1>0, <1>3 DEF Skip
  <2>3. \A v \in Copies \ {w} : RestedAt(v)'
    BY <1>3, <2>2, OthersRest DEF Skip
  <2> QED
    BY <2>1, <2>3 DEF Rested
<1>4. ASSUME NEW w \in Copies, Finish(w) PROVE Rested'
  <2>1. RestedAt(w)'
    <3>1. /\ step'[w] = "wait" /\ timer' = timer /\ tick' = tick /\ ago' = ago
          /\ hold' = hold /\ step[w] = "run"
      BY <1>0, <1>4 DEF Finish
    <3>2. Reach' = Reach /\ Gap' = Gap
      BY <3>1 DEF Reach, Gap, MaxRun
    <3>3. ago <= age[w]
      BY <3>1 DEF Lease, Keeping
    <3>4. ~ tick[w] => age[w] <= Elapsed(w)
      BY <1>0, <3>1 DEF RestedAt
    <3> QED
      BY <3>1, <3>2, <3>3, <3>4, Amounts DEF RestedAt, Elapsed
  <2>2. \A v \in Copies \ {w} : RestedAt(v)'
    BY <1>0, <1>4, OthersRest DEF Finish
  <2> QED
    BY <2>1, <2>2 DEF Rested
<1>5. ASSUME NEW w \in Copies, Crash(w) PROVE Rested'
  <2>1. RestedAt(w)'
    BY <1>0, <1>5 DEF Crash, RestedAt
  <2>2. \A v \in Copies \ {w} : RestedAt(v)'
    BY <1>0, <1>5, OthersRest DEF Crash
  <2> QED
    BY <2>1, <2>2 DEF Rested
<1>6. ASSUME Pass, NEW w \in Copies PROVE RestedAt(w)'
  <2>1. /\ step'[w] = step[w] /\ hold' = hold
        /\ step[w] = "wait" => ~ tick[w]
    BY <1>6 DEF Pass, Due
  <2>2. Reach' = Reach /\ Gap' = Gap
    BY <2>1 DEF Reach, Gap, MaxRun
  <2>3. ago' <= ago + 1 /\ ago' \in Int
    <3>1. ago + 1 \in Int /\ Gap + 1 \in Int
      BY Amounts
    <3>2. ago' = AtMost(ago + 1, Gap + 1)
      BY <1>6 DEF Pass
    <3> QED
      BY <3>1, <3>2, Extremes
  <2>4. CASE step[w] = "run"
    <3>1. age'[w] = age[w] + 1
      BY <1>6, <2>4 DEF Pass
    <3>2. \/ timer[w] = 1 /\ tick'[w]
          \/ timer[w] # 1 /\ timer'[w] = timer[w] - 1 /\ tick'[w] = tick[w]
      BY <1>0, <1>6, <2>4 DEF Pass
    <3> QED
      BY <1>0, <2>1, <2>4, <3>1, <3>2, Amounts DEF RestedAt, Elapsed
  <2>5. CASE step[w] = "wait"
    <3>1. well'[w] = AtMost(well[w] + 1, Gap + 1)
      BY <1>6, <2>5 DEF Pass
    <3>2. well'[w] <= well[w] + 1 /\ well'[w] \in Int
      BY <3>1, Amounts, Extremes
    <3>3. \/ timer[w] = 1 /\ tick'[w]
          \/ timer[w] # 1 /\ timer'[w] = timer[w] - 1 /\ ~ tick'[w]
      BY <1>0, <1>6, <2>1, <2>5 DEF Pass
    <3> QED
      BY <1>0, <2>1, <2>2, <2>3, <2>5, <3>2, <3>3, Amounts DEF RestedAt, Elapsed
  <2>6. CASE step[w] = "down"
    BY <2>1, <2>6 DEF RestedAt
  <2> QED
    BY <1>0, <2>4, <2>5, <2>6
<1>7. CASE UNCHANGED vars
  BY <1>0, <1>7 DEF vars, leaseVars, copyVars, histVars, Rested, RestedAt, Elapsed, Reach,
     Gap, MaxRun
<1> QED
  BY <1>1, <1>2, <1>3, <1>4, <1>5, <1>6, <1>7 DEF Next, Rested

\* While a copy is up and its statements succeed, the job runs in time.
THEOREM NeverForgotten == Spec => []Timely
<1>1. Init => Rested
  BY DEF Init, Rested, RestedAt
<1>2. Lease /\ Rested => Timely
  <2> SUFFICES ASSUME Lease, Rested, NEW w \in Copies, well[w] > Gap PROVE ago <= Gap
    BY DEF Timely
  <2>1. RestedAt(w) /\ step[w] \in {"down", "wait", "run"} /\ tick[w] \in BOOLEAN
    BY DEF Rested, Lease, TypeOK
  <2>2. step[w] # "down"
    BY Amounts DEF Lease, Bounds
  <2>3. step[w] = "run" => ago <= age[w]
    BY DEF Lease, Keeping
  <2> QED
    BY <2>1, <2>2, <2>3, Amounts DEF RestedAt
<1>3. Lease /\ Rested /\ [Next]_vars => Rested'
  BY RestedStep
<1> QED
  BY <1>1, <1>2, <1>3, LeaseHolds, PTL DEF Spec
=============================================================================
