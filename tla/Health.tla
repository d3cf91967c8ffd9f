-------------------------------- MODULE Health --------------------------------
(***************************************************************************)
(* Time in power-agent: the resync timer, the awaits that hold the loop    *)
(* up, the staleness check behind /healthz and the kubelet's liveness      *)
(* probe that acts on it.                                                  *)
(*                                                                         *)
(* Time is counted in whole units.  Timers and durations run on the        *)
(* monotonic clock; /healthz compares two readings of the wall clock,      *)
(* which somebody may step in between.                                     *)
(***************************************************************************)
EXTENDS Integers

CONSTANTS
  RawIntervals,     \* what RESYNC_INTERVAL_SECONDS may be set to
  Unset, Garbage,   \* the variable is missing; it is not a 64-bit number
  DefaultInterval,  \* the resync interval when the variable is missing
  Modulus,          \* two to the number of bits of a u64
  MaxFetch,         \* the longest get_opt takes, unless it hangs
  MaxCalls,         \* the longest patch and Events take, unless one hangs
  InitialDelay, ProbePeriod, FailureThreshold,  \* the liveness probe
  MaxStep,          \* bound on a step of the wall clock, either way
  Far,              \* time since the last reconcile is counted up to here
  MaxDisturbances   \* bound on the steps of the environment

Interval(raw) == IF raw = Unset THEN DefaultInterval ELSE raw

(* Mutation: two intervals. *)
ThresholdOfTwo(raw) == 2 * Interval(raw)

(* http.rs: the staleness threshold, Duration * 3. *)
Threshold(raw) == 3 * Interval(raw)

(* Config::from_env rejects what does not parse, the product panics when   *)
(* it leaves 64 bits, and tokio's interval panics on a period of zero.     *)
Starts(raw) ==
  /\ raw # Garbage
  /\ Threshold(raw) < Modulus
  /\ Interval(raw) > 0

ASSUME IntervalAssumption ==
  RawIntervals \subseteq Nat \cup {Unset, Garbage} /\ DefaultInterval \in Nat
ASSUME DurationAssumption ==
  /\ MaxFetch \in Nat /\ MaxCalls \in Nat
  /\ InitialDelay \in Nat /\ ProbePeriod \in Nat \ {0} /\ FailureThreshold \in Nat \ {0}
ASSUME BudgetAssumption == MaxDisturbances \in Nat /\ MaxStep \in Nat
ASSUME FarAssumption ==
  /\ Far \in Nat /\ Modulus \in Nat
  /\ \A raw \in RawIntervals :
       Starts(raw) =>
         /\ Threshold(raw) + MaxDisturbances * MaxStep < Far
         /\ Threshold(raw) + FailureThreshold * ProbePeriod < Far

VARIABLES
  raw,       \* RESYNC_INTERVAL_SECONDS in the pod's environment
  pc,        \* where the loop is; "down" when there is no process
  due,       \* time to the next tick of the resync timer
  busy,      \* how long the present await has taken
  hung,      \* the present await will never return
  watch,     \* "live", or "stuck": it delivers nothing and reports no error
  observed,  \* whether a reconcile has completed: last_reconcile_unix # 0
  elapsed,   \* time since the last reconcile
  skew,      \* by how much the wall clock was stepped since then
  stepped,   \* history: whether it was stepped since then
  failed,    \* history: resyncs that failed since then, counted up to two
  probeIn,   \* time to the next liveness probe
  fails,     \* consecutive probes that failed
  budget     \* environment steps left

timers == <<due, busy, elapsed, probeIn>>
vars   == <<raw, pc, timers, hung, watch, observed, skew, stepped, failed, fails, budget>>

TypeOK ==
  /\ raw \in RawIntervals
  /\ pc \in {"down", "waiting", "fetching", "calling"}
  /\ pc # "down" => Starts(raw)
  /\ due \in Nat /\ busy \in Nat /\ probeIn \in Nat
  /\ hung \in BOOLEAN
  /\ watch \in {"live", "stuck"}
  /\ observed \in BOOLEAN
  /\ elapsed \in 0 .. Far
  /\ skew \in Int
  /\ stepped \in BOOLEAN
  /\ failed \in 0 .. 2
  /\ fails \in 0 .. FailureThreshold - 1
  /\ budget \in 0 .. MaxDisturbances

NoProcess ==
  /\ due = 0 /\ busy = 0 /\ hung = FALSE /\ watch = "live"
  /\ observed = FALSE /\ elapsed = 0
  /\ skew = 0 /\ stepped = FALSE /\ failed = 0
  /\ probeIn = 0 /\ fails = 0

Init == raw \in RawIntervals /\ pc = "down" /\ NoProcess /\ budget = MaxDisturbances

Disturb == budget > 0 /\ budget' = budget - 1

-----------------------------------------------------------------------------
(* The process. *)

(* The pod's specification is changed while no process runs. *)
Configure(r) ==
  /\ pc = "down" /\ r # raw
  /\ raw' = r
  /\ UNCHANGED <<pc, timers, hung, watch, observed, skew, stepped, failed, fails, budget>>

(* Mutation: whatever the setting, the process comes up. *)
StartAnyway ==
  /\ pc = "down"
  /\ pc' = "waiting"
  /\ due' = Interval(raw)
  /\ probeIn' = InitialDelay
  /\ UNCHANGED <<raw, busy, hung, watch, observed, elapsed, skew, stepped, failed, fails, budget>>

(* The first tick of the resync timer is immediate, and skipped. *)
Start ==
  /\ pc = "down" /\ Starts(raw)
  /\ pc' = "waiting"
  /\ due' = Interval(raw)
  /\ probeIn' = InitialDelay
  /\ UNCHANGED <<raw, busy, hung, watch, observed, elapsed, skew, stepped, failed, fails, budget>>

ProcessLost ==
  /\ pc' = "down"
  /\ due' = 0 /\ busy' = 0 /\ hung' = FALSE /\ watch' = "live"
  /\ observed' = FALSE /\ elapsed' = 0 /\ skew' = 0 /\ stepped' = FALSE /\ failed' = 0
  /\ probeIn' = 0 /\ fails' = 0

(* SIGTERM, or the watch stream ends and run returns. *)
Exit ==
  /\ pc # "down"
  /\ Disturb
  /\ ProcessLost
  /\ UNCHANGED raw

-----------------------------------------------------------------------------
(* The loop. *)

(* reconcile_node applies and stores the time; then it awaits its calls. *)
Reconcile ==
  /\ pc' = "calling" /\ busy' = 0
  /\ observed' = TRUE /\ elapsed' = 0 /\ skew' = 0 /\ stepped' = FALSE /\ failed' = 0

(* The watch stream hands over a Node. *)
Deliver ==
  /\ pc = "waiting" /\ watch = "live"
  /\ Reconcile
  /\ UNCHANGED <<raw, due, hung, watch, probeIn, fails, budget>>

(* A tick that was missed fires as soon as the loop is back, and the next  *)
(* is an interval from then: MissedTickBehavior::Delay.                    *)
ResyncTick ==
  /\ pc = "waiting" /\ due = 0
  /\ pc' = "fetching" /\ busy' = 0
  /\ due' = Interval(raw)
  /\ UNCHANGED <<raw, hung, watch, observed, elapsed, skew, stepped, failed, probeIn, fails, budget>>

FetchOk ==
  /\ pc = "fetching" /\ ~ hung
  /\ Reconcile
  /\ UNCHANGED <<raw, due, hung, watch, probeIn, fails, budget>>

(* Mutation: the loop sleeps for an interval after the fetch. *)
FetchFailsRearms ==
  /\ pc = "fetching" /\ ~ hung
  /\ Disturb
  /\ pc' = "waiting" /\ busy' = 0
  /\ due' = Interval(raw)
  /\ failed' = IF failed < 2 THEN failed + 1 ELSE 2
  /\ UNCHANGED <<raw, hung, watch, observed, elapsed, skew, stepped, probeIn, fails>>

(* No Node, or an error: a warning, and nothing else. *)
FetchFails ==
  /\ pc = "fetching" /\ ~ hung
  /\ Disturb
  /\ pc' = "waiting" /\ busy' = 0
  /\ failed' = IF failed < 2 THEN failed + 1 ELSE 2
  /\ UNCHANGED <<raw, due, hung, watch, observed, elapsed, skew, stepped, probeIn, fails>>

CallsReturn ==
  /\ pc = "calling" /\ ~ hung
  /\ pc' = "waiting" /\ busy' = 0
  /\ UNCHANGED <<raw, due, hung, watch, observed, elapsed, skew, stepped, failed, probeIn, fails, budget>>

(* The API server neither answers nor closes the connection. *)
Hang ==
  /\ pc \in {"fetching", "calling"} /\ ~ hung
  /\ Disturb
  /\ hung' = TRUE
  /\ UNCHANGED <<raw, pc, timers, watch, observed, skew, stepped, failed, fails>>

StreamSticks ==
  /\ pc # "down" /\ watch = "live"
  /\ Disturb
  /\ watch' = "stuck"
  /\ UNCHANGED <<raw, pc, timers, hung, observed, skew, stepped, failed, fails>>

-----------------------------------------------------------------------------
(* /healthz and the kubelet. *)

(* Mutation: healthy for ever off a single early success. *)
HealthyOnce == TRUE

(* Mutation: an agent is unhealthy until its first reconcile. *)
HealthyOnceObserved == observed /\ (elapsed + skew) % Modulus <= Threshold(raw)

(* healthz_handler.  A negative age becomes a huge one in `age as u64`. *)
Healthy ==
  observed => (elapsed + skew) % Modulus <= Threshold(raw)

Probe(ok) ==
  /\ pc # "down" /\ probeIn = 0
  /\ ok = Healthy
  /\ IF ok \/ fails + 1 < FailureThreshold
     THEN /\ fails' = IF ok THEN 0 ELSE fails + 1
          /\ probeIn' = ProbePeriod
          /\ UNCHANGED <<pc, due, busy, hung, watch, observed, elapsed, skew, stepped, failed>>
     ELSE ProcessLost
  /\ UNCHANGED <<raw, budget>>

-----------------------------------------------------------------------------
(* The clocks. *)

Countdown(n) == IF n > 0 THEN n - 1 ELSE 0

(* Something is to happen before time goes on. *)
Urgent ==
  \/ probeIn = 0
  \/ pc = "waiting" /\ due = 0
  \/ pc = "fetching" /\ ~ hung /\ busy >= MaxFetch
  \/ pc = "calling" /\ ~ hung /\ busy >= MaxCalls

Tick ==
  /\ pc # "down" /\ ~ Urgent
  /\ due' = Countdown(due)
  /\ probeIn' = Countdown(probeIn)
  /\ busy' = IF pc = "waiting" \/ hung THEN busy ELSE busy + 1
  /\ elapsed' = IF observed /\ elapsed < Far THEN elapsed + 1 ELSE elapsed
  /\ UNCHANGED <<raw, pc, hung, watch, observed, skew, stepped, failed, fails, budget>>

(* Somebody sets the wall clock, NTP for one. *)
ClockStep(d) ==
  /\ observed
  /\ Disturb
  /\ skew' = skew + d /\ stepped' = TRUE
  /\ UNCHANGED <<raw, pc, timers, hung, watch, observed, failed, fails>>

Loop ==
  \/ Start \/ Deliver \/ ResyncTick \/ FetchOk \/ FetchFails \/ CallsReturn

Kubelet == \E ok \in BOOLEAN : Probe(ok)

Environment ==
  \/ \E r \in RawIntervals : Configure(r)
  \/ Exit \/ Hang \/ StreamSticks
  \/ \E d \in (-MaxStep .. MaxStep) \ {0} : ClockStep(d)

Next == Loop \/ Kubelet \/ Tick \/ Environment

Spec == Init /\ [][Next]_vars

(***************************************************************************)
(* Time passes, the kubelet probes, and the runtime polls what is ready.   *)
(* An await that does not hang ends by its deadline, one way or the other. *)
(***************************************************************************)
Fairness ==
  /\ WF_vars(Tick) /\ WF_vars(Kubelet)
  /\ WF_vars(Start) /\ WF_vars(ResyncTick)
  /\ WF_vars(FetchOk \/ FetchFails) /\ WF_vars(CallsReturn)

FairSpec == Spec /\ Fairness
-----------------------------------------------------------------------------
(* Properties. *)

(* No await takes longer than the resync interval. *)
Brisk == MaxFetch <= Interval(raw) /\ MaxCalls <= Interval(raw)

(* While the wall clock runs evenly, an agent whose awaits return is never *)
(* called stale because of one failed resync: three intervals are enough   *)
(* for a tick delayed by the calls of a reconcile, a fetch that takes its  *)
(* full time and fails, and the next fetch.  With two failures they are    *)
(* not.  No accepted interval is an exception.                             *)
NeverStale == observed /\ ~ hung /\ skew = 0 /\ failed <= 1 /\ Brisk => Healthy

(* What an agent may go without a reconcile for. *)
Cause == hung \/ failed > 1 \/ ~ Brisk

(* All the probes of a row were answered stale. *)
Silence == Threshold(raw) + (FailureThreshold - 1) * ProbePeriod

(* The agent goes down at the environment's hand or the probe's, and while *)
(* nobody steps the clock the probe's strikes only an agent that has       *)
(* reconciled once, has then been silent for the threshold and a whole row *)
(* of probes, and for a cause: its loop hangs, two resyncs failed, or an   *)
(* await takes longer than the interval.  A slow start is no cause, nor is *)
(* a watch stream with nothing to say, and one reconcile, however late,    *)
(* makes good for all the probes that failed before it.                    *)
KilledForCause ==
  [][pc # "down" /\ pc' = "down" /\ ~ stepped /\ ProbePeriod <= Threshold(raw) =>
       budget' < budget \/ (observed /\ elapsed > Silence /\ Cause)]_vars

(* A loop stuck in an await that never returns is found by the probe and   *)
(* restarted, once it has reconciled; before that, /healthz answers        *)
(* "starting" for ever.                                                    *)
WedgedIsRestarted == hung /\ observed ~> pc = "down"

-----------------------------------------------------------------------------
(* What the comments say and the code does not do. *)

(* http.rs:18: the check catches a stuck watch stream. *)
StuckWatchIsCaught == watch = "stuck" ~> ~ Healthy \/ watch = "live"

(* http.rs:17: it fails once this much time has passed since the last      *)
(* reconcile, hence not before.                                            *)
FreshIsHealthy == elapsed <= Threshold(raw) => Healthy

-----------------------------------------------------------------------------
(* An inductive invariant for NeverStale and KilledForCause. *)

Allowance == IF failed = 0 THEN Interval(raw) ELSE 2 * Interval(raw)

(* A loop that waits will tick in time; one that fetches ticked in time.   *)
(* The timer runs while the loop awaits, so calls and fetches delay a tick *)
(* by no more than they take beyond an interval.                           *)
OnTime ==
  observed /\ ~ hung /\ failed <= 1 /\ Brisk =>
    /\ pc = "waiting" => elapsed + due <= Allowance
    /\ pc = "fetching" => /\ busy <= MaxFetch
                          /\ due + busy <= Interval(raw)
                          /\ elapsed <= Allowance + busy
    /\ pc = "calling" => /\ elapsed <= busy /\ busy <= MaxCalls
                         /\ due = 0 \/ elapsed + due <= Interval(raw)

DownIsBlank == pc = "down" => ~ observed
OnlyAwaitsHang == hung => pc \in {"fetching", "calling"}
TimerInBounds == pc # "down" => due <= Interval(raw)

(* Either a reconcile came since the last probe of a row that failed, and  *)
(* will be young at the next one, or there was none in all the row.        *)
RowIsSilent ==
  fails > 0 /\ ~ stepped /\ ProbePeriod <= Threshold(raw) =>
    \/ elapsed + probeIn <= ProbePeriod
    \/ elapsed + probeIn > Threshold(raw) + fails * ProbePeriod

StrikesInRow ==
  /\ ~ observed => fails = 0
  /\ fails > 0 => probeIn <= ProbePeriod
  /\ ~ stepped => skew = 0

IInv ==
  /\ TypeOK /\ DownIsBlank /\ OnlyAwaitsHang /\ TimerInBounds /\ OnTime
  /\ StrikesInRow /\ RowIsSilent
=============================================================================
