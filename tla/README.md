# Formal models of k8s-power-management

`power-agent` runs on every node of a Kubernetes cluster, watches its own Node
object, and makes the CPU power settings of the host follow two labels of that
Node. It reports what it did in four annotations, in Events, in Prometheus
metrics and on `/healthz`. `cpu-power-hal` is the library that knows the sysfs
files; `pstate-cli` drives the same library by hand.

The modules here model that code in TLA+. TLC checks them on small instances
and TLAPS proves the most important safety properties for all instances.

## Inventory

Paths are relative to `src/crates/`.

| Component | Source | State it keeps | Operations | Hard because |
|---|---|---|---|---|
| Discovery and detection | `cpu-power-hal/src/topology.rs`, `backend/mod.rs` | none; the backend keeps the policies found | `discover_policies`, `detect_backend` | read file by file, once, at start; only the first policy decides, and directories come in the order of their paths; a failed listing looks like a host without policies |
| Sysfs access | `cpu-power-hal/src/sysfs.rs` | none | `read`, `read_dir`, `exists`, `write` | a file asked for and the same file used a moment later |
| EPP backend | `backend/epp.rs` | policies, vendor | `apply`, `set_turbo`, `current` | a loop of writes without rollback; each policy can refuse; an inverted and two direct turbo files, picked at call time |
| Governor backend | `backend/governor.rs` | policies, a once-only warning flag | same | many-to-one mapping; no turbo |
| Unsupported backend | `backend/unsupported.rs` | none | same, all no-ops | succeeds without doing anything |
| `reconcile_once` | `power-agent/src/reconcile.rs:50-106` | none | label parsing, calls of the backend, report | invalid labels fall back instead of stopping; profile and turbo fail apart |
| The agent's loop | `reconcile.rs:108-191` | watch stream, resync timer, last report | deliver, resync, fetch, reconcile | two sources of Node snapshots, awaits that fail, crashes |
| Annotations and Events | `power-agent/src/status.rs` | annotations and Events on the API server | `patch_status`, `emit_events` | a merge patch without a version, computed from a snapshot; the agent sees its own patches as watch events |
| Process lifecycle | `power-agent/src/main.rs` | process alive or not, backend | start, SIGTERM, SIGKILL | dropped awaits, partly written policies |
| Metrics | `power-agent/src/metrics.rs` | gauges, counters | `observe`, `encode` | gauges updated one by one against a scrape on another thread |
| Health | `power-agent/src/http.rs` | time of the last reconcile | `healthz_handler` | wall clock, signed age |
| Configuration | `power-agent/src/config.rs` | none | `from_env` | an unchecked resync interval |
| Command line | `pstate-cli/src/main.rs` | none | `apply`, `read`, `probe` | a second writer of the same files, without a lock; `probe` discovers twice |
| Deployment | `deploy/manifests/04-daemonset.yaml` | the container, its failed probes | liveness probe, restart | the probe is all that ends a wedged loop |

How they interact: the loop calls `reconcile_once`, which calls the backend,
which writes sysfs; all of that is synchronous. The report then goes to the
metrics (shared with the HTTP server, through atomics) and, over awaited calls,
to the API server as a patch and as Events. A patch comes back as a watch event.
The kubelet asks the HTTP server for the time of the last reconcile and restarts
the container if that is too long ago.
`pstate-cli` and the agent meet only in the files.

What makes them correct:

- the files follow the labels of the Node as it is, not of a snapshot that was
  overtaken, whatever the interleaving, failures, kills and restarts;
- the annotations are those of the last report, except after a failed patch;
- the loop comes to rest instead of patching because of its own patches;
- drift heals, and an invalid label is warned of, sooner or later;
- a call of the backend has the effect its outcome announces: all policies, or
  exactly those before the first that failed;
- the agent's labels win over a command-line call in the end;
- what a discovery keeps is what the kernel showed, in the order of the numbers;
- the agent never falls back to labels that it had put behind it;
- `/healthz` does not condemn a working agent, and does a wedged one;
- a scrape shows values that some report had, and one report if it met no other.

## Modules

| Module | What it is |
|---|---|
| `Hal.tla` | `cpu-power-hal` as operators: discovery, detection, which policies `apply` reaches, what it and `set_turbo` write and return. |
| `Reconcile.tla` | `reconcile_once`, the report, `desired_annotations`, `needs_patch` and the reasons of `emit_events`, as operators. |
| `Agent.tla` | The agent's process, its Node on the API server and the host: a state machine, one action per await or handler. |
| `Contract.tla` | The abstract specification of the agent: a Node that wants something, an agent that applies it. No loop, no stream, no API server. |
| `AgentContract.tla` | The refinement mapping from `Agent` to `Contract`. |
| `Backend.tla` | The backend write by write: agents and `pstate-cli` calls interleave on one host. |
| `Discovery.tla` | `discover_policies`, `detect_backend` and `current`, file by file, in the agent, `read` and `probe`, while the kernel changes. |
| `Health.tla` | Time: the resync timer, slow and hanging awaits, `/healthz`, the kubelet's probe, the wall clock, the resync interval. |
| `Metrics.tla` | `observe` series by series on one thread against a scrape on another. |
| `MCAgent`, `MCBackend`, `MCDiscovery`, `MCHealth`, `MCMetrics` | Hosts and arguments for TLC. They define constants, nothing else. |
| `HalProofs.tla` | Lemmas about the operators of `Hal` and `Reconcile`. |
| `AgentProofs`, `ContractProofs`, `BackendProofs`, `DiscoveryProofs`, `HealthProofs`, `MetricsProofs` | The theorems. |

How they fit together: `Hal` says what the library does as whole steps and
`Agent` and `Metrics` are built on `Hal` and `Reconcile`. Two detailed modules
justify the whole steps: `Backend` (an undisturbed `apply` is `Hal`'s) and
`Discovery` (an undisturbed discovery is `Hal`'s). `Contract` stands above
`Agent`. `Health` has the same loop as `Agent`, reduced to where the time goes.

Operators whose comment begins with "Mutation:" are wrong variants of the
definition that follows them. No action uses them. They are there to be put in
its place, to see that each property does fail when the code has a plausible bug.

### Hal and Reconcile

A policy is a record: the vendor names found in its `scaling_driver`, whether it
has an EPP file, which preferences and governors it advertises, and whether the
kernel takes a write just now. Discovery keeps all but the last. A write is
refused if the policy is gone, locked, or does not offer the value *now*, which
need not be what it offered when the agent started.

`Blocking` is the set of policies at which the loop of `apply` would return an
error and `Reached` the set it has written by then: those below every blocking
one. With them the whole call is one update, `EppWrites` or `GovernorWrites`,
and the result is an error exactly when `Blocking` is not empty.

Label values are model strings; `"absent"` stands for a label or annotation that
is not there. Errors are kept as booleans because nothing but log and Event
texts depends on the rest of them.

### Agent

| Code | Actions |
|---|---|
| `main` up to the loop | `Start`; `StartBlind` if listing the policies fails |
| `watcher(...).applied_objects()` | `List`, `LosePlace`; `NodeBecomes` in every action that writes the Node |
| `run`, stream branch | `Deliver` |
| `run`, timer branch: tick, `get_opt`, its result | `ResyncTick`; `FetchOk`, `FetchNone`, `FetchFails`; `ResyncReconcile` |
| `reconcile_node` up to its first await | `Reconcile(n)`, in `Deliver` and `ResyncReconcile` |
| `patch_status` | `PatchApplied`, `PatchNotFound`, `PatchFails`, `LatePatch` |
| `emit_events` | `EmitEvents`, `EmitSomeEvents` |
| shutdown, SIGKILL | `Shutdown`, `KilledApplying` |
| users, kubelet, other writers, kernel | `EditLabels`, `StripAnnotations`, `DeleteNode`, `CreateNode`, `Drift`, `KernelChange` |

`pending` is the queue of snapshots in the watch stream. `got` is the answer of
`get_opt` on its way back, during which the Node may change. A failed patch may
have reached the server late (`late`). A failed publish of one Event leaves the
others. `missed` and `drifted` are history variables for the properties.

`reconcile_once` is one step here because no await lies inside it. That the
writes of a call which nobody disturbs do have that effect is what `Backend`
shows; a command-line call in between is a `Drift` step, and a kill between two
writes is `KilledApplying`.

Both a failed list of policies and a host without any give the unsupported
backend, as in the code.

### Backend

Each caller has a program counter. `Begin` enters a call; `WritePolicy` and
`PolicyFails` are one turn of the loop; then `PickTurboFile` asks which turbo
file exists and `WriteTurbo` or `TurboFails` writes it, or `ReturnWithoutTurbo`
leaves without. An agent keeps its backend across calls and `pstate-cli` detects
one per call. Any caller can be killed between two steps and the kernel can
change between two steps. `alone` and `before` are history variables: whether
anybody else has moved the files or the kernel since the call began, and the
files at that time. `AloneIsAtomic` speaks of undisturbed calls only; what
disturbed ones leave behind is the matter of `AgentsWin`.

### Discovery

| Code | Actions |
|---|---|
| `topology.rs:58-66`, a root that does not exist | `FindRoot` |
| `read_dir`, its sort by path, its errors | `ListPolicies`, `ListFails` |
| per directory: `scaling_driver`; the EPP file; the list of preferences; the governors | `ReadDriver`, `LookForEpp`, `ReadPreferences`, `ReadGovernors` |
| the sort by number | in `PrintPolicies` and `DetectBackendOfFound` |
| `detect_backend` | `DetectBackendOfFound` |
| `current`, called by `read` and `probe`; the exit code | `ReadCurrent` |
| the kernel | `KernelChange` |

Whether an EPP file exists and what its list of preferences holds are two
accesses, as in the code, and preferences are read only if the file is there.
`epp` is what reading an `energy_performance_preference` that exists gives: a
profile, a raw number, which is no profile, or an error (`Unreadable`). It never
changes, since every command reads it at most once. To `current` any error of
reading is an error, also of a file that is there, such as that of a policy whose
CPUs are offline (EBUSY). Discovery itself takes a file that it cannot read for an
empty one, so an empty file in a host stands for both. `Ranked(S, rank)` is the set `S` as a sequence,
upwards by `rank`: an element's place is the number of those below it. It stands
for both sorts of the code, of the directories by path, whose order is the constant
`PathRank`, and of the policies by number. `seen` records the hosts the kernel has shown
since the command began.

### Health

| Code | Actions |
|---|---|
| `Config::from_env`, the product at `main.rs:37`, tokio's `interval` | `Starts(raw)`, `Start`; `Configure` for a new pod specification |
| `run`: timer branch, `get_opt` | `ResyncTick`, `FetchOk`, `FetchFails` |
| `run`: stream branch | `Deliver` |
| `reconcile_node`: the stored time; the awaits after it | `Reconcile` in the above; `CallsReturn` |
| `healthz_handler` | `Healthy`, asked by `Probe` |
| livenessProbe and restart in the DaemonSet | `Probe`, `ProcessLost` |
| time | `Tick`, `ClockStep` |
| failures | `Hang`, `StreamSticks`, `Exit` |

`Tick` is one unit of the monotonic clock. It waits for what is due (`Urgent`):
a timer that has run out, an await at its deadline, a probe. `due` is the resync
timer with `MissedTickBehavior::Delay`: it runs on during awaits, fires late, and
the next tick is one interval from then. `skew` is what somebody added to the wall
clock since the last reconcile, and `stepped` whether somebody did, even if the
steps cancel. `fails` counts the probes that failed in a row. The age of `/healthz` is computed modulo
`Modulus`, which is what `as u64` does.

### Metrics

`Observe` fixes what the report makes of the series (`target`) and the order in
which `observe` sets them (`todo`); `SetSeries` is one `set` or `inc`;
`CreateSeries` is `with_label_values` finding no such series. A scrape (`Scrape`,
`ReadSeries`, `Answer`) reads one series per step, in any of `ReadOrders`: the
order in which `gather` walks its collectors and a vector its hash map is not the
program's. `possible` and `overlaps` are history variables.

### Contract

`Contract` has what the Node wants (`wanted`), what the agent applied last
(`applied`) and which wishes the Node has dropped but the agent may still apply
(`overtaken`). A wish enters `overtaken` only by an `Edit`, at the moment the
Node drops it; nothing else ever adds to it.

`AgentContract` maps the labels of the Node to `wanted`, the labels of the last
report of this process to `applied`, and the snapshots in the watch stream and
in the answer of `get_opt` that differ from the Node to `overtaken`. Snapshots
overtake each other between stream and resync, so the agent may go back and
forth for a moment; the contract says what that is bounded by: the wishes still
in its hands. A `List` only adds the Node as it is, so it never puts an old wish
back.

## What the runs check

| Run | Instance | Shows |
|---|---|---|
| `agent_safety` | one Intel host, two policies, either of which may lock and unlock; a valid and an invalid profile label; 3 disturbances | `TypeOK`; `IInv`; `HardwareFollowsLabels`: once the stream is drained the files are what the Node's labels ask for, up to the policy that stopped `apply`; `AnnotationsFollowReport`: so are the annotations unless the last patch failed |
| `agent_mixed_hosts` | six kinds of host, among which the kernel may move under the agent; 2 disturbances | the same two properties for every backend, inverted and direct turbo files; `KeepsContract`: the refinement of `Contract`; `RestIsKept`: an agent that has caught up with its Node writes neither a file nor the Node again, however often it resyncs |
| `agent_liveness` | as `agent_safety`, 2 disturbances, fair to everything but the watch | `Converges`: files, report and annotations settle on the labels; `InvalidLabelIsWarned`: although publishes fail and processes die; `NoHotLoop`: the agent sees its own patches and stops writing its Node |
| `backend_callers` | one agent, one place for `pstate-cli`, two AMD policies, four forms of the host; 3 disturbances | `TypeOK`; `IInv`; `AloneIsAtomic`: an undisturbed call has the effect of `Hal`; `ReadsBack`: `read` after a successful undisturbed `apply` prints its profile; `AgentsWin`: the labels are in force in the end, whoever interleaved |
| `discovery_steps` | policies 2 and 10, six forms of the host, among them one with a policy whose files cannot be read; preferences that are a profile, a number or unreadable; 2 disturbances | `TypeOK`; `IInv`; `QuietDiscoveryIsExact`: an undisturbed discovery is `Hal`'s, although directories come as 10, 2; `FilesWereShown`: a disturbed one mixes hosts, but keeps of each file what was shown there; `ExitIsAccountedFor`: undisturbed, `read` and `probe` report what the lowest-numbered policy holds and `read` fails exactly when that cannot be read; otherwise `read` fails only if the kernel changed meanwhile and `probe` only if it could not list the policies |
| `health_timed` | intervals unset, no number, zero, of 5 units, too large; awaits of up to 5 units; steps of the clock of up to 2; 4 disturbances, fair | `TypeOK`; `IInv`; `NeverStale`: no working agent is called stale for one failed resync; `WedgedIsRestarted`: one that hangs is restarted, once it has reconciled; `KilledForCause`: while the clock is not stepped, the probe kills only an agent that has reconciled once, then was silent for the threshold and a whole row of probes, and did so because of a hang, a second failed resync or a slow await |
| `scrapes` | two Intel hosts, two label sets, two orders of reading; 2 reports | `TypeOK`; `ShownWasReported`: every value shown is that of a report in force or being set; `QuietScrapeShowsReport`: a scrape that met no `observe` shows the last report whole, and counters that counted each report under one result |

Five runs expect a violation: they state what the documentation or a comment
says and the code does not do.

| Run | Documentation | Code |
|---|---|---|
| `turbo_annotation` | `docs/labels.md:50`: an unsupported turbo label gives `applied-turbo: unsupported` | `status.rs:67` reads `turbo_unsupported` only when no turbo label was parsed, so it is never set there; the annotation says `enabled` |
| `unsupported_note` | `unsupported.rs:6` and the Event of `status.rs:152`: no cpufreq policies | the backend is also chosen when the first policy has neither EPP nor governors |
| `drift_behind_locked` | `docs/labels.md:5`: the periodic resync heals drift | policies behind one that stays locked are never written again: both hold the profile, the second drifts, the first is locked, and the resync never gets to the second |
| `stuck_watch` | `http.rs:17`: the staleness check catches a stuck watch stream | the resync reconciles, and so renews the time of the last reconcile, at every interval |
| `clock_step` | `http.rs:17`: `/healthz` fails once this much time has passed since the last reconcile | a wall clock stepped back makes the age negative, and `as u64` makes that huge |

Three more were seen on the way and have no run of their own:
`docs/verification.md:88` promises `status: unsupported` regardless of labelling,
but `result_label` puts `invalid_label` first; `metrics.rs:34` calls the profile
gauge the currently applied one, but `observe` sets it when `apply` failed too;
and a discovery torn by a driver switch can end unsupported on a host that was
never without a usable policy.

### Bounds

- `MaxDisturbances` bounds what the agent does not do itself: label edits, drift,
  kernel changes, failed calls, kills, restarts, lost watches, command-line
  calls, hanging calls, steps of the clock. It stands in the guards, not in a
  state constraint, so liveness is checked on the whole graph, and it is also how
  "once the world is quiet" is said. The hardest orders we know, such as a
  snapshot overtaken by a resync whose patch then fails and arrives late, or a
  kill between two writes followed by a kernel change, take three such steps at
  most. The agent's run with liveness has two to keep the graph small; its
  properties are about what happens after the last disturbance.
- Two policies: the loop then has a first, a last, a policy before and one after
  the one that blocks. `Discovery` calls them 2 and 10 because paths sort them
  the other way round. The proofs cover any set of ids.
- One turbo label in most runs: the two positive values differ only in the value
  written; the mixed run adds an invalid one and the other files.
- The watch queue has no bound of its own; the disturbances bound it, since the
  agent's own patches stop.
- `Health` counts in units. With an interval of 5, awaits up to 5 long and a
  probe every 2, ticks fall before, at and after the end of an await. The time
  since the last reconcile is counted up to `Far`, beyond the threshold plus any
  `skew` the budget allows and beyond the threshold plus a row of failed probes,
  so nothing distinguishes later times (`FarAssumption`). `Modulus` is 64: an interval of 32 is the one whose
  threefold does not fit. Four disturbances allow a failed fetch, a hang, a
  stuck stream and a step of the clock in one behaviour.
- `MaxObserves` is two in `Metrics`: a scrape can then run into the end of one
  report and the whole of the next. Two opposite orders of reading put every
  pair of series both ways round; the proof covers every order.

### Fairness

`Start` is weakly fair: the kubelet restarts the container (`restartPolicy` of
the DaemonSet). Each awaited call (`FetchOk \/ FetchNone \/ FetchFails` and so
on) is weakly fair: we assume that the client's timeouts end it one way or the
other; nothing is said about which. `ResyncTick` is strongly fair, because
`tokio::select!` polls its branches in random order and the loop leaves `idle`
again and again, which makes weak fairness empty. Nothing is asked of the watch:
`List` and `Deliver` may never happen, so the liveness of the agent rests on the
resync alone.

In `Backend` only the agents' steps are fair: a `pstate-cli` that stops in the
middle of a call stays there. In `Health` time passes (`Tick`), the kubelet
probes, and the runtime polls what is due; an await that has not been made to
hang by `Hang` ends by its deadline, and one that has never does. Weak fairness
of `ResyncTick` is enough there: `WedgedIsRestarted` speaks of a loop that is in
an await and rests on `Tick` and the kubelet.

All failures cost budget, so no fairness hides a failure that repeats for ever;
with an API server that never answers again nothing converges.

Deadlock is checked in all runs.

## What is proved

TLAPS proves these for any sets of labels, hosts, policies, callers, and any
bound.

| Theorem | Statement |
|---|---|
| `AgentProofs!TypeCorrect` | `Spec => []TypeOK` |
| `AgentProofs!Inductive` | `Spec => []IInv` |
| `AgentProofs!HardwareFollowsLabelsAlways` | `Spec => []HardwareFollowsLabels` |
| `AgentProofs!AnnotationsFollowReportAlways` | `Spec => []AnnotationsFollowReport` |
| `AgentProofs!RestIsKeptAlways` | `Spec => RestIsKept` |
| `ContractProofs!AgentKeepsContract` | `Spec => KeepsContract`: `Agent` implements `Contract` |
| `ContractProofs!AgentNeverRelapses` | `Spec => C!NoRelapse`: with nothing overtaken, what is applied changes only to what is wanted |
| `BackendProofs!LoopsGoUpward` | `Spec => []IInv` |
| `BackendProofs!BackendTypeCorrect` | `Spec => []TypeOK` |
| `BackendProofs!AloneIsAtomicAlways` | `Spec => []AloneIsAtomic` |
| `BackendProofs!ReadsBackAlways` | `Spec => []ReadsBack` |
| `DiscoveryProofs!Invariance` | `Spec => []IInv` |
| `DiscoveryProofs!TypeCorrect` | `Spec => []TypeOK` |
| `DiscoveryProofs!QuietIsExact` | `Spec => []QuietDiscoveryIsExact` |
| `DiscoveryProofs!FilesShown` | `Spec => []FilesWereShown` |
| `DiscoveryProofs!ExitAccountedFor` | `Spec => []ExitIsAccountedFor` |
| `HealthProofs!OnTimeAlways` | `Spec => []IInv` |
| `HealthProofs!HealthTypeCorrect` | `Spec => []TypeOK` |
| `HealthProofs!NeverStaleAlways` | `Spec => []NeverStale` |
| `HealthProofs!KilledForCauseAlways` | `Spec => KilledForCause` |
| `MetricsProofs!MetricsTypeCorrect` | `Spec => []TypeOK` |
| `MetricsProofs!ShownWasReportedAlways` | `Spec => []ShownWasReported` |
| `MetricsProofs!QuietScrapeShowsReportAlways` | `Spec => []QuietScrapeShowsReport` |

The assumptions are those named in the modules: policy ids are natural numbers,
every host is well formed, `Gone` is neither a Node nor a wish, `Drifts` are
profiles, durations and bounds are natural numbers, `Far` is far enough, an
order of reading has every series, and no two policies have the same name or
place among the paths. TLC evaluates them in the runs.

**Agent.** The two safety properties speak of quiet states only and are not
inductive. `IInv` adds what holds in between. While snapshots are waiting, the
last of them is the Node itself (`StreamEndsWithNode`); when none is waiting,
the last report was made from the Node's labels *and a resync that has already
fetched holds the Node itself* (`ReportIsCurrent`). That second half is the heart
of it: without it a resync could apply an old snapshot after the stream was
drained. It holds because a Node that changes after the fetch puts a newer
snapshot into the stream. `AnnotationsWritten` and `AppliedInForce` say that
nothing but a patch, and nothing but a reconcile, disturbs what the last one
left. `DownIsBlank` is what a new process starts from.

`RestIsKept` needs one fact more about a resync that finds nothing new. It applies
the labels the last report was made from, to a host that has not drifted. So the
same policies block and the same turbo file is picked (`OutcomeStands`: the
backend would answer as it did), the writes put back what is there
(`WritesAreIdempotent`, `TurboIsIdempotent`), the report is the same
(`ReportIsIdempotent`), and so `needs_patch` finds nothing to change. For `apply`
this is idempotence even where it stops at a policy that refuses: the policies
before it are the same ones.

**Backend.** `AloneIsAtomic` speaks of calls that have returned. `CallSoFar` adds
the loop: every policy visited is below every one still to visit, none of them
blocks, and the files are those at the beginning with exactly the visited ones
written. When the loop stops at a policy, the visited ones are exactly `Reached`
(`VisitedIsReached`); that step needs that the ids are visited upwards, hence
`FirstIsLeast`. `TodoInBounds` is the part that disturbed calls keep too, for
the types.

`ReadsBack` follows from `AloneIsAtomic`: an undisturbed call that succeeded
reached every policy, so the lowest one, which `read` looks at, holds the
profile. One more invariant is needed: while nobody disturbs a command-line
call, its backend is what detection makes of the host as it is
(`CliHasDetected`).

**Discovery.** `QuietDiscoveryIsExact` compares lists sorted twice with `Hal`'s
functions on sets. The lemmas say that `Ranked` lists every element once
(`RankedSorts`: elements of distinct ranks have distinct numbers of elements
below, and those numbers fill every place, `PlacesAreTaken`), so a list of the policies of one
host, in whatever order they were read, has after the sort the first policy that
`detect_backend` looks at (`SortedOfSorts`, `HeadIsFirst`, `DetectIsExact`). The inductive
invariant has three parts. What was read and what is still to be visited never
share a number (`NoPolicyTwice`). Each file read so far, also of the policy half
read, is as some host in `seen` showed it (`EntryWasShown`). And while nothing
has changed, what was read is what the host shows, and the two lists together are
all its policies (`QuietSoFar`). No step on policies counts them, so their number
does not matter. `ExitIsAccountedFor` adds that `current` opens the file of the
policy with the lowest number and that an EPP backend finds it there
(`QuietCurrentIsExact`), so only the reading of it can fail.

**Contract.** The steps of the agent fall into three kinds, one lemma each: those
that apply a snapshot (`Applies`), those that lose the process (`Restarts`), and
all others, which at most put the Node as it becomes into the loop's hands
(`SeesOrForgets`). Beyond the types only one fact is needed: a fetch that came
back holds a Node (`FetchedIsNode`). The mapping's initial state is `Contract`'s.

**Health.** `NeverStale` is about the age of the last reconcile and is not
inductive: the age of a waiting loop may grow only because its timer shrinks.
`OnTime` adds the two. While no resync has failed since, age and remaining time
make at most one interval, after one failure at most two, and a fetch adds its
own duration: with awaits no longer than an interval, three intervals in all,
which is the threshold. The allowance survives `CallsReturn` because the timer
runs during calls, so calls delay a tick only by what they exceed the interval.

`KilledForCause` is about a whole row of probes, of which a state keeps only the
number. `RowIsSilent` says what that number means: either a reconcile came since
the last probe, and will be young enough at the next one, or the time since the
last reconcile exceeds the threshold by as many periods as probes have failed.
The first case needs that a probe period is no longer than the threshold, which
the property assumes: the manifest probes every 30 seconds, and the threshold is
900 by default. With an interval under ten seconds it would not hold. The causes then come from `NeverStale`.

**Metrics.** `Inv` says that only the series still to be set differ from what the
report makes of them (`OnlyTodoDiffers`), and that whatever a scrape would read
now it may show (`PossibleNow`). A scrape nothing overlapped began with nothing to
set (`QuietSoFar`), so what it has read is still there. The order of writing
matters only in covering all that the report changes (`WriteOrderCovers`). That
the counters add up to the number of reports rests on `CountsOnce`: a report moves
the counter of its result by one, a missing one from nothing to one, and no other.

Only model-checked: the liveness properties `Converges`, `NoHotLoop`,
`InvalidLabelIsWarned`, `AgentsWin` and `WedgedIsRestarted`, since the prover
cannot do fairness and `ENABLED`. Two of them have a safety side that is proved:
`RestIsKept` beside `NoHotLoop`, and `KilledForCause`, which says what else than a
wedged loop is restarted.

## What is not modelled

- Failures of start-up other than the resync interval: no node name, no client,
  port in use. The process ends before it has touched anything and starts again.
- The other settings: names of labels, address, log format. They are taken as
  they are.
- `related_cpus`, which is read and used by nothing; the resolution of paths
  under another root in `RootedSysfs`, which only tests have.
- Logging, texts of notes and errors, the text format of metrics, and which of
  the five series of the backend kind is set: they stand as one.
- `patch_status` of several agents on one Node: a DaemonSet runs one per node.
- Images, RBAC, mounts, CI.
- `Agent` takes a discovery for one step on one state of the host, but for
  `StartBlind`. A torn discovery is in `Discovery` only, where `FilesWereShown`
  says what may be in it: files of different hosts, each as it was shown. The
  code keeps such a result, and that of a failed listing, until the process
  restarts; nothing promises otherwise and no property objects.

## Plan

Done: `Hal`, `Reconcile`, `Agent`, `Backend`, `Discovery`, `Health`, `Metrics`,
and `Contract` with its refinement, each with its runs and proofs.

What is left is proof only:

1. Why the loop comes to rest: that every step of an undisturbed agent that has
   not caught up brings it nearer, a step by step bound for `Converges` that needs
   no fairness.
2. In `Backend`, that a call interrupted at any point leaves each file as it was or
   as some caller wanted it.
