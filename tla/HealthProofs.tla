----------------------------- MODULE HealthProofs -----------------------------
(* The staleness threshold is wide enough, for every interval, every       *)
(* duration of the awaits and every liveness probe.                        *)
EXTENDS Health, TLAPS

(* A process only runs with an interval that is a positive number.         *)
LEMMA IntervalIsNat ==
  ASSUME raw \in RawIntervals, Starts(raw)
  PROVE  Interval(raw) \in Nat /\ Threshold(raw) < Modulus
BY IntervalAssumption DEF Starts, Interval

(* The two constants that bound time. *)
LEMMA FarIsNat == Far \in Nat /\ Modulus \in Nat
BY FarAssumption

(* A row of probes ends before time is no longer counted. *)
LEMMA FarIsWide ==
  ASSUME TypeOK, pc # "down"
  PROVE  Threshold(raw) + fails * ProbePeriod < Far
<1>1. Threshold(raw) \in Nat
  BY IntervalIsNat DEF TypeOK, Threshold
<1>2. Threshold(raw) + FailureThreshold * ProbePeriod < Far
  BY FarAssumption DEF TypeOK
<1>3. FailureThreshold - fails \in Nat
  BY DurationAssumption DEF TypeOK
<1>4. FailureThreshold * ProbePeriod = fails * ProbePeriod + (FailureThreshold - fails) * ProbePeriod
  BY DurationAssumption DEF TypeOK
<1>5. (FailureThreshold - fails) * ProbePeriod \in Nat /\ fails * ProbePeriod \in Nat
        /\ FailureThreshold * ProbePeriod \in Nat
  BY <1>3, DurationAssumption DEF TypeOK
<1>. QED
  BY <1>1, <1>2, <1>4, <1>5, FarIsNat

(* A process that is gone leaves nothing to be late. *)
LEMMA LostIsFine ==
  ASSUME IInv, ProcessLost, raw' = raw, budget' \in 0 .. MaxDisturbances
  PROVE  IInv'
<1>1. 0 \in 0 .. FailureThreshold - 1 /\ 0 \in 0 .. Far
  BY DurationAssumption, FarIsNat
<1>2. hung' \in BOOLEAN /\ observed' \in BOOLEAN /\ stepped' \in BOOLEAN
  BY DEF ProcessLost
<1>3. /\ pc' = "down" /\ due' = 0 /\ busy' = 0 /\ watch' = "live"
      /\ elapsed' = 0 /\ skew' = 0 /\ failed' = 0
      /\ probeIn' = 0 /\ fails' = 0
  BY DEF ProcessLost
<1>4. TypeOK'
  BY <1>1, <1>2, <1>3 DEF IInv, TypeOK
<1>5. (DownIsBlank /\ OnlyAwaitsHang /\ TimerInBounds /\ OnTime)'
  BY DEF ProcessLost, DownIsBlank, OnlyAwaitsHang, TimerInBounds, OnTime
<1>6. (StrikesInRow /\ RowIsSilent)'
  BY <1>3 DEF ProcessLost, StrikesInRow, RowIsSilent
<1>. QED
  BY <1>4, <1>5, <1>6 DEF IInv

(* A reconcile starts the count anew while its timer runs on. *)
LEMMA ReconcileIsFine ==
  ASSUME IInv, pc # "down", ~ hung, Reconcile,
         UNCHANGED <<raw, due, hung, watch, probeIn, fails, budget>>
  PROVE  IInv'
<1>1. Interval(raw) \in Nat
  BY IntervalIsNat DEF IInv, TypeOK
<1>2. TypeOK'
  <2>1. observed' \in BOOLEAN /\ stepped' \in BOOLEAN
    BY DEF Reconcile
  <2>2. elapsed' = 0 /\ skew' = 0 /\ failed' = 0 /\ pc' = "calling" /\ busy' = 0
    BY DEF Reconcile
  <2>. QED
    BY <2>1, <2>2, FarIsNat DEF IInv, TypeOK
<1>3. OnTime'
  BY <1>1, DurationAssumption
     DEF IInv, TypeOK, TimerInBounds, Reconcile, OnTime, Brisk, Interval
<1>4. StrikesInRow' /\ RowIsSilent'
  BY DurationAssumption DEF IInv, TypeOK, Reconcile, StrikesInRow, RowIsSilent, Threshold, Interval
<1>. QED
  BY <1>2, <1>3, <1>4 DEF IInv, DownIsBlank, OnlyAwaitsHang, TimerInBounds, Interval, Reconcile

(* Time passes: an await is at most as old as its deadline allows. *)
LEMMA TickIsFine ==
  ASSUME IInv, Tick
  PROVE  IInv'
<1>1. Interval(raw) \in Nat
  BY IntervalIsNat DEF IInv, TypeOK, Tick
<1>2. TypeOK'
  BY FarIsNat DEF IInv, TypeOK, Tick, Countdown
<1>3. OnTime'
  BY <1>1, DurationAssumption
     DEF IInv, TypeOK, Tick, Countdown, Urgent, OnTime, Brisk, Allowance, Interval
<1>4. TimerInBounds'
  BY <1>1 DEF IInv, TypeOK, TimerInBounds, Tick, Countdown, Interval
<1>5. StrikesInRow'
  BY DurationAssumption DEF IInv, TypeOK, StrikesInRow, Tick, Countdown
<1>6. RowIsSilent'
  <2>1. Threshold(raw) \in Nat /\ fails * ProbePeriod \in Nat
    BY <1>1, DurationAssumption DEF IInv, TypeOK, Threshold
  <2>2. elapsed = Far => elapsed > Threshold(raw) + fails * ProbePeriod
    BY <2>1, FarIsWide DEF IInv, TypeOK, Tick
  <2>3. fails' = fails /\ Threshold(raw') = Threshold(raw) /\ stepped' = stepped
    BY DEF Tick, Threshold, Interval
  <2>4. probeIn \in Nat \ {0} /\ probeIn' = probeIn - 1
    BY DEF IInv, TypeOK, Tick, Urgent, Countdown
  <2>5. elapsed' \in Nat /\ (elapsed' = elapsed + 1 \/ elapsed' = elapsed)
    BY FarIsNat DEF IInv, TypeOK, Tick
  <2>6. CASE observed /\ elapsed < Far
    BY <2>1, <2>3, <2>4, <2>6, DurationAssumption, FarIsNat DEF IInv, TypeOK, RowIsSilent, Tick
  <2>7. CASE elapsed = Far
    BY <2>1, <2>2, <2>3, <2>4, <2>7, DurationAssumption, FarIsNat
       DEF IInv, TypeOK, RowIsSilent, Tick
  <2>8. CASE ~ observed
    BY <2>8 DEF IInv, StrikesInRow, RowIsSilent, Tick
  <2>. QED
    BY <2>6, <2>7, <2>8, FarIsNat DEF IInv, TypeOK
<1>. QED
  BY <1>2, <1>3, <1>4, <1>5, <1>6 DEF IInv, DownIsBlank, OnlyAwaitsHang, Tick

LEMMA InitIsFine == Init => IInv
<1> SUFFICES ASSUME Init PROVE IInv
  OBVIOUS
<1>1. hung \in BOOLEAN /\ observed \in BOOLEAN /\ stepped \in BOOLEAN
  BY DEF Init, NoProcess
<1>2. /\ pc = "down" /\ due = 0 /\ busy = 0 /\ watch = "live"
      /\ elapsed = 0 /\ skew = 0 /\ failed = 0
      /\ probeIn = 0 /\ fails = 0
  BY DEF Init, NoProcess
<1>3. 0 \in 0 .. FailureThreshold - 1 /\ 0 \in 0 .. Far /\ budget \in 0 .. MaxDisturbances
  BY DurationAssumption, BudgetAssumption, FarIsNat DEF Init
<1>4. TypeOK
  BY <1>1, <1>2, <1>3 DEF Init, TypeOK
<1>. QED
  BY <1>2, <1>4 DEF Init, NoProcess, IInv, DownIsBlank, OnlyAwaitsHang, TimerInBounds, OnTime,
                    StrikesInRow, RowIsSilent

(* On time, the age is within the threshold and is not wrapped. *)
LEMMA OnTimeIsHealthy == IInv => NeverStale
<1> SUFFICES ASSUME IInv, observed, ~ hung, skew = 0, failed <= 1, Brisk
             PROVE  Healthy
  BY DEF NeverStale
<1>1. Interval(raw) \in Nat /\ Threshold(raw) < Modulus /\ pc # "down"
  BY IntervalIsNat DEF IInv, TypeOK, DownIsBlank
<1>2. elapsed <= Threshold(raw)
  BY <1>1, DurationAssumption
     DEF IInv, TypeOK, OnTime, Brisk, Allowance, Threshold
<1>3. (elapsed + skew) % Modulus = elapsed
  BY <1>1, <1>2, FarIsNat DEF IInv, TypeOK, Threshold
<1>. QED
  BY <1>2, <1>3 DEF Healthy

(* A probe that fails in a row of failed ones finds an agent that has been *)
(* silent for longer than the row; the first of a row, for longer than the *)
(* threshold.                                                              *)
LEMMA FailedRowIsSilent ==
  ASSUME IInv, pc # "down", probeIn = 0, ~ Healthy, ~ stepped, ProbePeriod <= Threshold(raw)
  PROVE  observed /\ elapsed > Threshold(raw) + fails * ProbePeriod
<1>1. Threshold(raw) \in Nat /\ Threshold(raw) < Modulus
  BY IntervalIsNat DEF IInv, TypeOK, Threshold
<1>2. skew = 0 /\ elapsed \in Nat
  BY FarIsNat DEF IInv, TypeOK, StrikesInRow
<1>3. observed /\ ~ (elapsed % Modulus <= Threshold(raw))
  BY <1>2 DEF Healthy
<1>4. elapsed > Threshold(raw)
  <2> SUFFICES ASSUME elapsed <= Threshold(raw) PROVE FALSE
    BY <1>1, <1>2
  <2>1. elapsed % Modulus = elapsed
    BY <1>1, <1>2, FarIsNat
  <2>. QED
    BY <1>3, <2>1
<1>5. CASE fails = 0
  BY <1>1, <1>3, <1>4, <1>5, DurationAssumption
<1>6. CASE fails > 0
  BY <1>1, <1>2, <1>3, <1>4, <1>6, DurationAssumption DEF IInv, RowIsSilent
<1>. QED
  BY <1>5, <1>6, DurationAssumption DEF IInv, TypeOK

(* A probe either ends the row, adds to it or kills. *)
LEMMA ProbeIsFine ==
  ASSUME IInv, NEW ok \in BOOLEAN, Probe(ok)
  PROVE  IInv'
<1> USE DEF IInv
<1>1. CASE ok \/ fails + 1 < FailureThreshold
  <2>1. /\ UNCHANGED <<raw, pc, due, busy, hung, watch, observed, elapsed, skew, stepped>>
        /\ UNCHANGED <<failed, budget>>
        /\ fails' = (IF ok THEN 0 ELSE fails + 1) /\ probeIn' = ProbePeriod
    BY <1>1 DEF Probe
  <2>2. TypeOK'
    BY <1>1, <2>1, DurationAssumption DEF TypeOK
  <2>3. (DownIsBlank /\ OnlyAwaitsHang /\ TimerInBounds /\ OnTime)'
    BY <2>1 DEF DownIsBlank, OnlyAwaitsHang, TimerInBounds, OnTime, Brisk, Allowance, Interval
  <2>4. StrikesInRow'
    <3>1. ~ observed => ok
      BY DEF Probe, Healthy
    <3>. QED
      BY <2>1, <3>1, DurationAssumption DEF StrikesInRow
  <2>5. RowIsSilent'
    <3>1. CASE ok
      BY <2>1, <3>1 DEF RowIsSilent
    <3>2. CASE ~ ok
      <4> SUFFICES ASSUME ~ stepped, ProbePeriod <= Threshold(raw)
                   PROVE  elapsed' + probeIn' > Threshold(raw)' + fails' * ProbePeriod
        BY <2>1 DEF RowIsSilent, Threshold, Interval
      <4>1. elapsed > Threshold(raw) + fails * ProbePeriod
        BY <3>2, FailedRowIsSilent DEF Probe
      <4>2. (fails + 1) * ProbePeriod = fails * ProbePeriod + ProbePeriod
        BY DurationAssumption DEF TypeOK
      <4>3. Threshold(raw) \in Nat /\ fails * ProbePeriod \in Nat /\ elapsed \in Nat
        BY IntervalIsNat, DurationAssumption, FarIsNat DEF Probe, TypeOK, Threshold
      <4>4. Threshold(raw)' = Threshold(raw) /\ elapsed' = elapsed
        BY <2>1 DEF Threshold, Interval
      <4>. QED
        BY <2>1, <3>2, <4>1, <4>2, <4>3, <4>4, DurationAssumption
    <3>. QED
      BY <3>1, <3>2
  <2>. QED
    BY <2>2, <2>3, <2>4, <2>5
<1>2. CASE ~ (ok \/ fails + 1 < FailureThreshold)
  BY <1>2, LostIsFine DEF Probe, TypeOK
<1>. QED
  BY <1>1, <1>2

(* One step per action. *)
LEMMA StepIsFine == IInv /\ [Next]_vars => IInv'
<1> SUFFICES ASSUME IInv, [Next]_vars PROVE IInv'
  OBVIOUS
<1> USE DEF IInv, TypeOK, DownIsBlank, OnlyAwaitsHang, TimerInBounds, OnTime,
            StrikesInRow, RowIsSilent, Threshold
<1>1. CASE UNCHANGED vars
  BY <1>1 DEF vars, timers, Brisk, Allowance, Interval
<1>2. ASSUME NEW r \in RawIntervals, Configure(r) PROVE IInv'
  BY <1>2 DEF Configure, timers
<1>3. CASE Start
  <2>1. Interval(raw) \in Nat
    BY <1>3, IntervalIsNat DEF Start
  <2>2. due' = Interval(raw) /\ Interval(raw') = Interval(raw) /\ ~ observed'
    BY <1>3 DEF Start
  <2>3. TypeOK'
    BY <1>3, <2>1, DurationAssumption DEF Start
  <2>. QED
    BY <1>3, <2>1, <2>2, <2>3 DEF Start
<1>4. CASE Exit
  BY <1>4, LostIsFine, BudgetAssumption DEF Exit, Disturb
<1>5. CASE Deliver
  BY <1>5, ReconcileIsFine DEF Deliver
<1>6. CASE ResyncTick
  <2>1. Interval(raw) \in Nat
    BY <1>6, IntervalIsNat DEF ResyncTick
  <2>. QED
    BY <1>6, <2>1, DurationAssumption DEF ResyncTick, Brisk, Allowance, Interval
<1>7. CASE FetchOk
  BY <1>7, ReconcileIsFine DEF FetchOk
<1>8. CASE FetchFails
  <2>1. Interval(raw) \in Nat
    BY <1>8, IntervalIsNat DEF FetchFails
  <2>. QED
    BY <1>8, <2>1, DurationAssumption, BudgetAssumption
       DEF FetchFails, Disturb, Brisk, Allowance, Interval
<1>9. CASE CallsReturn
  <2>1. Interval(raw) \in Nat
    BY <1>9, IntervalIsNat DEF CallsReturn
  <2>. QED
    BY <1>9, <2>1, DurationAssumption DEF CallsReturn, Brisk, Allowance, Interval
<1>10. CASE Hang
  BY <1>10, BudgetAssumption DEF Hang, Disturb, timers, Interval
<1>11. CASE StreamSticks
  BY <1>11, BudgetAssumption DEF StreamSticks, Disturb, timers, Brisk, Allowance, Interval
<1>12. ASSUME NEW ok \in BOOLEAN, Probe(ok) PROVE IInv'
  BY <1>12, ProbeIsFine
<1>13. ASSUME NEW d \in (-MaxStep .. MaxStep) \ {0}, ClockStep(d) PROVE IInv'
  BY <1>13, BudgetAssumption DEF ClockStep, Disturb, timers, Brisk, Allowance, Interval
<1>. QED
  BY <1>1, <1>2, <1>3, <1>4, <1>5, <1>6, <1>7, <1>8, <1>9, <1>10, <1>11, <1>12, <1>13, TickIsFine
     DEF Next, Loop, Kubelet, Environment

-----------------------------------------------------------------------------
(* The inductive invariant: the timer, the await and the time since the    *)
(* last reconcile add up.                                                  *)
THEOREM OnTimeAlways == Spec => []IInv
BY InitIsFine, StepIsFine, PTL DEF Spec

(* The process's variables keep their types, none of them below zero. *)
THEOREM HealthTypeCorrect == Spec => []TypeOK
<1>1. IInv => TypeOK
  BY DEF IInv
<1>. QED
  BY <1>1, OnTimeAlways, PTL

(* A slow but living agent with one failed resync is not called stale. *)
THEOREM NeverStaleAlways == Spec => []NeverStale
BY OnTimeIsHealthy, OnTimeAlways, PTL
(* The probe kills no agent that did not go silent for a cause. *)
THEOREM KilledForCauseAlways == Spec => KilledForCause
<1>1. IInv /\ [Next]_vars =>
        [pc # "down" /\ pc' = "down" /\ ~ stepped /\ ProbePeriod <= Threshold(raw) =>
           budget' < budget \/ (observed /\ elapsed > Silence /\ Cause)]_vars
  <2> SUFFICES ASSUME IInv, Next, pc # "down", pc' = "down", ~ stepped,
                      ProbePeriod <= Threshold(raw)
               PROVE  budget' < budget \/ (observed /\ elapsed > Silence /\ Cause)
    OBVIOUS
  <2>1. CASE Exit
    BY <2>1, BudgetAssumption DEF Exit, Disturb, IInv, TypeOK
  <2>2. ASSUME NEW ok \in BOOLEAN, Probe(ok) PROVE observed /\ elapsed > Silence /\ Cause
    <3>1. ~ Healthy /\ ~ (fails + 1 < FailureThreshold) /\ probeIn = 0
      BY <2>2 DEF Probe
    <3>2. fails = FailureThreshold - 1
      BY <3>1, DurationAssumption DEF IInv, TypeOK
    <3>3. observed /\ elapsed > Silence
      BY <3>1, <3>2, FailedRowIsSilent DEF Silence
    <3>4. skew = 0 /\ failed \in 0 .. 2
      BY DEF IInv, TypeOK, StrikesInRow
    <3>5. Cause
      BY <3>1, <3>3, <3>4, OnTimeIsHealthy DEF NeverStale, Cause
    <3>. QED
      BY <3>3, <3>5
  <2>3. CASE Tick
    BY <2>3 DEF Tick
  <2>4. ASSUME NEW r \in RawIntervals, Configure(r) PROVE FALSE
    BY <2>4 DEF Configure
  <2>5. ASSUME NEW d \in (-MaxStep .. MaxStep) \ {0}, ClockStep(d) PROVE FALSE
    BY <2>5 DEF ClockStep
  <2>. QED
    BY <2>1, <2>2, <2>3, <2>4, <2>5
       DEF Next, Loop, Kubelet, Environment, Start, Deliver, Reconcile, ResyncTick, FetchOk,
           FetchFails, CallsReturn, Hang, StreamSticks
<1>. QED
  BY <1>1, OnTimeAlways, PTL DEF Spec, KilledForCause
=============================================================================
