-------------------------------- MODULE Agent --------------------------------
(***************************************************************************)
(* One power-agent process, the Node object it watches on the API server,  *)
(* and the files it drives on its host.                                    *)
(*                                                                         *)
(* The loop of Runtime::run waits on the watch stream and on the resync    *)
(* timer.  Either hands a snapshot of the Node to reconcile_node, which    *)
(* applies the labels of the snapshot at once and then makes awaited calls *)
(* to the API server.  Each await is a step of its own: the Node may       *)
(* change, the call may fail or be answered late, the process may stop.    *)
(*                                                                         *)
(* What the agent does not do itself, be it a label edit, drift of a file, *)
(* a failed call or a killed process, uses up one unit of budget, so that  *)
(* the environment is quiet from some point on.                            *)
(***************************************************************************)
EXTENDS Reconcile, Sequences, FiniteSets

CONSTANTS
  ProfileLabels,   \* raw values the profile label takes, Absent among them
  TurboLabels,     \* raw values the turbo label takes
  Hosts,           \* the forms the host takes as its kernel changes
  Drifts,          \* profiles something else writes to a policy's EPP file
  Gone,            \* no Node object; also: no snapshot in hand
  MaxDisturbances  \* bound on the steps of the environment

ASSUME HostsAssumption == \A h \in Hosts : IsHost(h)
ASSUME DriftsAssumption == Drifts \subseteq Profiles
ASSUME BudgetAssumption == MaxDisturbances \in Nat

Nodes == [profile : ProfileLabels, turbo : TurboLabels, ann : Annotations]

ASSUME GoneAssumption == Gone \notin Nodes

VARIABLES
  node,      \* the Node on the API server, or Gone
  late,      \* annotation patches sent, given up on, and perhaps yet to arrive
  events,    \* reasons of the Events recorded on the Node
  host,      \* what the kernel shows
  epp,       \* content of energy_performance_preference, by policy
  gov,       \* content of scaling_governor, by policy
  boost,     \* content of the turbo files
  pc,        \* where the loop is; "down" when there is no process
  backend,   \* the backend detected when the process started
  listed,    \* whether the watcher has listed and now follows the Node
  pending,   \* Node snapshots the watch stream has yet to hand over
  got,       \* the snapshot get_opt returned, while it is on its way
  observed,  \* whether a reconcile has completed: last_reconcile_unix # 0
  report,    \* the last report, which is what the metrics show
  missed,    \* history: the last patch that was due did not go through
  drifted,   \* history: the files or the kernel moved since the last reconcile
  budget     \* environment steps left

server   == <<node, late, events>>
files    == <<epp, gov, boost>>
process  == <<backend, listed, pending, got, observed, report>>
history  == <<missed, drifted>>
vars     == <<server, host, files, pc, process, history, budget>>

InitialReport == [profile |-> "default", profileInvalid |-> FALSE, profileError |-> FALSE,
                  turbo |-> Unmanaged, turboInvalid |-> FALSE, turboError |-> FALSE,
                  turboUnsupported |-> FALSE, kind |-> "unsupported"]

PcStates == {"down", "idle", "fetching", "fetched", "patching", "publishing"}

TypeOK ==
  /\ node \in Nodes \cup {Gone}
  /\ late \subseteq Annotations
  /\ events \subseteq Reasons
  /\ host \in Hosts
  /\ epp \in [PolicyIds -> Profiles]
  /\ gov \in [PolicyIds -> Governors]
  /\ boost \in [TurboFiles -> {"0", "1"}]
  /\ pc \in PcStates
  /\ IsBackend(backend)
  /\ listed \in BOOLEAN
  /\ pending \in Seq(Nodes)
  /\ got \in Nodes \cup {Gone}
  /\ observed \in BOOLEAN
  /\ report \in Report
  /\ missed \in BOOLEAN
  /\ drifted \in BOOLEAN
  /\ budget \in 0 .. MaxDisturbances

Init ==
  /\ \E p \in ProfileLabels, t \in TurboLabels :
       node = [profile |-> p, turbo |-> t, ann |-> NoAnnotations]
  /\ late = {} /\ events = {}
  /\ host \in Hosts
  /\ \E p \in Drifts : epp = [i \in PolicyIds |-> p]
  /\ gov = [i \in PolicyIds |-> "powersave"]
  /\ boost = [f \in TurboFiles |-> "0"]
  /\ pc = "down" /\ backend = NoBackend
  /\ listed = FALSE /\ pending = <<>> /\ got = Gone
  /\ observed = FALSE /\ report = InitialReport
  /\ missed = FALSE /\ drifted = FALSE
  /\ budget = MaxDisturbances

Disturb == budget > 0 /\ budget' = budget - 1

-----------------------------------------------------------------------------
(* The process and its watcher. *)

(* The kubelet starts the container; main picks the backend once. *)
Start ==
  /\ pc = "down"
  /\ pc' = "idle"
  /\ backend' = DetectBackend(host)
  /\ UNCHANGED <<server, host, files, listed, pending, got, observed, report, history, budget>>

(* discover_policies fails to list the directory; detect_backend takes the *)
(* error for a host without policies.                                      *)
StartBlind ==
  /\ pc = "down"
  /\ Disturb
  /\ pc' = "idle"
  /\ backend' = NoBackend
  /\ UNCHANGED <<server, host, files, listed, pending, got, observed, report, history>>

(* Mutation: the watcher lists but hands over only what changes later. *)
ListSilently ==
  /\ pc = "idle" /\ ~ listed
  /\ listed' = TRUE /\ pending' = <<>>
  /\ UNCHANGED <<server, host, files, pc, backend, got, observed, report, history, budget>>

(* The initial list of the watcher, or the one after it lost its place:    *)
(* the stream then hands over the Node as it is now, if there is one.      *)
List ==
  /\ pc = "idle" /\ ~ listed
  /\ listed' = TRUE
  /\ pending' = IF node = Gone THEN <<>> ELSE <<node>>
  /\ UNCHANGED <<server, host, files, pc, backend, got, observed, report, history, budget>>

(* The watch fails in a way that cannot be resumed (410 Gone).  The error  *)
(* is logged; undelivered events are lost and the watcher lists again.     *)
LosePlace ==
  /\ pc = "idle" /\ listed
  /\ Disturb
  /\ listed' = FALSE /\ pending' = <<>>
  /\ UNCHANGED <<server, host, files, pc, backend, got, observed, report, history>>

(* Every write of the Node that changes it is an event for a watcher that  *)
(* follows it.                                                             *)
NodeBecomes(n) ==
  /\ node' = n
  /\ pending' = IF listed /\ n # node THEN Append(pending, n) ELSE pending

-----------------------------------------------------------------------------
(* reconcile_node on snapshot n: all of it up to its first await. *)

Reconcile(n) ==
  LET profile == ParseProfile(n.profile)
      done    == Reached(backend, profile, host)
      turbo   == ParseTurbo(n.turbo)
  IN /\ epp' = EppWrites(backend, profile, done, epp)
     /\ gov' = GovernorWrites(backend, profile, done, gov)
     /\ boost' = IF turbo = Unmanaged THEN boost
                 ELSE TurboWrites(backend.kind, host, turbo = "enabled", boost)
     /\ report' = ReportOf(backend, host, n)
     /\ observed' = TRUE
     /\ drifted' = FALSE
     /\ IF NeedsPatch(n.ann, DesiredAnnotations(report'))
        THEN pc' = "patching" /\ UNCHANGED missed
        ELSE pc' = "publishing" /\ missed' = FALSE

(* The watch stream hands over its next snapshot. *)
Deliver ==
  /\ pc = "idle" /\ listed /\ pending # <<>>
  /\ Reconcile(Head(pending))
  /\ pending' = Tail(pending)
  /\ UNCHANGED <<server, host, backend, listed, got, budget>>

(* Mutation: the resync waits until the watch stream has nothing to say.   *)
ResyncTickWhenDrained ==
  /\ pc = "idle" /\ listed /\ pending = <<>>
  /\ pc' = "fetching"
  /\ UNCHANGED <<server, host, files, process, history, budget>>

(* The resync timer fires; get_opt is sent. *)
ResyncTick ==
  /\ pc = "idle"
  /\ pc' = "fetching"
  /\ UNCHANGED <<server, host, files, process, history, budget>>

(* The API server reads the Node; its answer is then on its way. *)
FetchOk ==
  /\ pc = "fetching" /\ node # Gone
  /\ pc' = "fetched" /\ got' = node
  /\ UNCHANGED <<server, host, files, backend, listed, pending, observed, report, history, budget>>

(* Ok(None) and Err are logged, and the loop goes on. *)
FetchNone ==
  /\ pc = "fetching" /\ node = Gone
  /\ pc' = "idle"
  /\ UNCHANGED <<server, host, files, process, history, budget>>

FetchFails ==
  /\ pc = "fetching"
  /\ Disturb
  /\ pc' = "idle"
  /\ UNCHANGED <<server, host, files, process, history>>

(* Mutation: what a resync fetched makes the snapshots in the watch stream *)
(* superfluous.                                                            *)
ResyncDropsStream ==
  /\ pc = "fetched"
  /\ Reconcile(got)
  /\ got' = Gone /\ pending' = <<>>
  /\ UNCHANGED <<server, host, backend, listed, budget>>

(* Mutation: a resync that finds the annotations in order applies nothing. *)
ResyncSkipsUnchanged ==
  /\ pc = "fetched"
  /\ IF observed /\ ~ NeedsPatch(got.ann, DesiredAnnotations(report))
     THEN /\ pc' = "idle"
          /\ UNCHANGED <<files, observed, report, history>>
     ELSE Reconcile(got)
  /\ got' = Gone
  /\ UNCHANGED <<server, host, backend, listed, pending, budget>>

(* Mutation: the resync re-asserts the profile last applied, as if only    *)
(* the files could have changed since.                                     *)
ResyncReasserts ==
  /\ pc = "fetched"
  /\ Reconcile(IF observed /\ report.profile \in ProfileLabels
               THEN [got EXCEPT !.profile = report.profile] ELSE got)
  /\ got' = Gone
  /\ UNCHANGED <<server, host, backend, listed, pending, budget>>

ResyncReconcile ==
  /\ pc = "fetched"
  /\ Reconcile(got)
  /\ got' = Gone
  /\ UNCHANGED <<server, host, backend, listed, pending, budget>>

-----------------------------------------------------------------------------
(* patch_status and emit_events. *)

(* Mutation: a replacement of all annotations by the keys that differ. *)
PatchReplaces ==
  /\ pc = "patching" /\ node # Gone
  /\ LET desired == DesiredAnnotations(report) IN
     NodeBecomes([node EXCEPT !.ann =
       [key \in DOMAIN desired |-> IF node.ann[key] # desired[key] THEN desired[key] ELSE Absent]])
  /\ pc' = "publishing" /\ missed' = FALSE
  /\ UNCHANGED <<late, events, host, files, backend, listed, got, observed, report, drifted, budget>>

(* Mutation: the backend annotation is set once and kept. *)
PatchKeepsBackend ==
  /\ pc = "patching" /\ node # Gone
  /\ LET desired == DesiredAnnotations(report) IN
     NodeBecomes([node EXCEPT !.ann =
       [desired EXCEPT !.backend = IF node.ann.backend = Absent THEN @ ELSE node.ann.backend]])
  /\ pc' = "publishing" /\ missed' = FALSE
  /\ UNCHANGED <<late, events, host, files, backend, listed, got, observed, report, drifted, budget>>

(* The merge patch carries no resourceVersion: it overwrites the four      *)
(* annotations whatever the Node has become since the snapshot.            *)
PatchApplied ==
  /\ pc = "patching" /\ node # Gone
  /\ NodeBecomes([node EXCEPT !.ann = DesiredAnnotations(report)])
  /\ pc' = "publishing" /\ missed' = FALSE
  /\ UNCHANGED <<late, events, host, files, backend, listed, got, observed, report, drifted, budget>>

PatchNotFound ==
  /\ pc = "patching" /\ node = Gone
  /\ pc' = "publishing" /\ missed' = TRUE
  /\ UNCHANGED <<server, host, files, process, drifted, budget>>

(* The call fails.  The patch is lost, or merely late.  It is not retried. *)
PatchFails ==
  /\ pc = "patching"
  /\ Disturb
  /\ late' \in {late, late \cup {DesiredAnnotations(report)}}
  /\ pc' = "publishing" /\ missed' = TRUE
  /\ UNCHANGED <<node, events, host, files, process, drifted>>

EmitEvents ==
  /\ pc = "publishing"
  /\ pc' = "idle"
  /\ events' = events \cup EventsOf(report)
  /\ UNCHANGED <<node, late, host, files, process, history, budget>>

(* Some publishes fail; the others still go out. *)
EmitSomeEvents ==
  /\ pc = "publishing"
  /\ Disturb
  /\ pc' = "idle"
  /\ \E failed \in SUBSET EventsOf(report) : events' = events \cup (EventsOf(report) \ failed)
  /\ UNCHANGED <<node, late, host, files, process, history>>

-----------------------------------------------------------------------------
(* The end of the process.  Nothing is reverted on the way out. *)

ProcessLost ==
  /\ pc' = "down"
  /\ backend' = NoBackend
  /\ listed' = FALSE /\ pending' = <<>> /\ got' = Gone
  /\ observed' = FALSE /\ report' = InitialReport
  /\ missed' = FALSE /\ drifted' = FALSE

(* SIGTERM drops the loop at the await it is in; a patch in flight may     *)
(* still arrive.  A watch stream that ends makes run return, which ends    *)
(* the process as well.                                                    *)
Shutdown ==
  /\ pc # "down"
  /\ Disturb
  /\ ProcessLost
  /\ late' \in {late} \cup IF pc = "patching" THEN {late \cup {DesiredAnnotations(report)}} ELSE {}
  /\ UNCHANGED <<node, events, host, files>>

(* SIGKILL in the middle of applying a snapshot: the policies up to cut    *)
(* are written, the rest and the turbo file are not.                       *)
KilledApplying ==
  /\ \/ pc = "idle" /\ listed /\ pending # <<>>
     \/ pc = "fetched"
  /\ Disturb
  /\ LET n       == IF pc = "fetched" THEN got ELSE Head(pending)
         profile == ParseProfile(n.profile)
     IN \E cut \in Reached(backend, profile, host) :
          LET done == {i \in Reached(backend, profile, host) : i <= cut} IN
          /\ epp' = EppWrites(backend, profile, done, epp)
          /\ gov' = GovernorWrites(backend, profile, done, gov)
  /\ ProcessLost
  /\ UNCHANGED <<server, host, boost>>

-----------------------------------------------------------------------------
(* The rest of the world. *)

EditLabels(p, t) ==
  /\ node # Gone
  /\ <<p, t>> # <<node.profile, node.turbo>>
  /\ Disturb
  /\ NodeBecomes([node EXCEPT !.profile = p, !.turbo = t])
  /\ UNCHANGED <<late, events, host, files, pc, backend, listed, got, observed, report, history>>

(* Somebody strips the agent's annotations. *)
StripAnnotations ==
  /\ node # Gone
  /\ Disturb
  /\ NodeBecomes([node EXCEPT !.ann = NoAnnotations])
  /\ UNCHANGED <<late, events, host, files, pc, backend, listed, got, observed, report, history>>

(* A patch the agent gave up on arrives after all. *)
LatePatch(a) ==
  /\ a \in late /\ node # Gone
  /\ late' = late \ {a}
  /\ NodeBecomes([node EXCEPT !.ann = a])
  /\ UNCHANGED <<events, host, files, pc, backend, listed, got, observed, report, history, budget>>

(* The stream the agent reads leaves deletions out. *)
DeleteNode ==
  /\ node # Gone
  /\ Disturb
  /\ node' = Gone
  /\ UNCHANGED <<late, events, host, files, pc, process, history>>

(* The kubelet registers the Node again. *)
CreateNode(p, t) ==
  /\ node = Gone
  /\ Disturb
  /\ NodeBecomes([profile |-> p, turbo |-> t, ann |-> NoAnnotations])
  /\ UNCHANGED <<late, events, host, files, pc, backend, listed, got, observed, report, history>>

(* Something else on the host writes a policy's knob or a turbo file. *)
Drift ==
  /\ Disturb
  /\ \/ \E i \in DOMAIN host.policies, p \in Drifts :
          /\ host.policies[i].hasEpp
          /\ epp' = [epp EXCEPT ![i] = p]
          /\ UNCHANGED <<gov, boost>>
     \/ \E i \in DOMAIN host.policies : \E g \in host.policies[i].governors :
          gov' = [gov EXCEPT ![i] = g] /\ UNCHANGED <<epp, boost>>
     \/ \E f \in host.turboFiles, v \in {"0", "1"} :
          boost' = [boost EXCEPT ![f] = v] /\ UNCHANGED <<epp, gov>>
  /\ drifted' = TRUE
  /\ UNCHANGED <<server, host, pc, process, missed>>

(* A CPU goes offline, a driver changes mode, a knob is locked or freed. *)
KernelChange(h) ==
  /\ h # host
  /\ Disturb
  /\ host' = h
  /\ drifted' = TRUE
  /\ UNCHANGED <<server, files, pc, process, missed>>

Loop ==
  \/ Start \/ List
  \/ Deliver \/ ResyncTick \/ FetchOk \/ FetchNone \/ FetchFails \/ ResyncReconcile
  \/ PatchApplied \/ PatchNotFound \/ PatchFails \/ EmitEvents \/ EmitSomeEvents

Environment ==
  \/ StartBlind \/ LosePlace \/ Shutdown \/ KilledApplying
  \/ \E p \in ProfileLabels, t \in TurboLabels : EditLabels(p, t) \/ CreateNode(p, t)
  \/ StripAnnotations \/ DeleteNode \/ Drift
  \/ \E a \in late : LatePatch(a)
  \/ \E h \in Hosts : KernelChange(h)

Next == Loop \/ Environment

Spec == Init /\ [][Next]_vars

(***************************************************************************)
(* The kubelet restarts the container, awaited calls come back because the *)
(* client has timeouts, and tokio::select! looks at its branches in random *)
(* order, so the resync gets its turn although the loop leaves "idle"      *)
(* again and again.  Nothing is asked of the watch stream: it may never    *)
(* list, and never deliver.                                                *)
(***************************************************************************)
Fairness ==
  /\ WF_vars(Start)
  /\ SF_vars(ResyncTick)
  /\ WF_vars(FetchOk \/ FetchNone \/ FetchFails)
  /\ WF_vars(ResyncReconcile)
  /\ WF_vars(PatchApplied \/ PatchNotFound \/ PatchFails)
  /\ WF_vars(EmitEvents \/ EmitSomeEvents)

FairSpec == Spec /\ Fairness
-----------------------------------------------------------------------------
(* Properties. *)

(* The labels a report was made from are the labels of node n. *)
Follows(r, n) ==
  /\ r.profile = ParseProfile(n.profile) /\ r.profileInvalid = InvalidProfile(n.profile)
  /\ r.turbo = ParseTurbo(n.turbo) /\ r.turboInvalid = InvalidTurbo(n.turbo)

(* The loop waits and the watch stream has handed over all there was. *)
Quiet == pc = "idle" /\ listed /\ pending = <<>> /\ node # Gone

Knob(i) == IF backend.kind \in EppKinds THEN epp[i] ELSE gov[i]

ProfileInForce ==
  \A i \in Reached(backend, report.profile, host) : Knob(i) = Wanted(backend, i, report.profile)

TurboInForce ==
  report.turbo \in TurboStates /\ ~ report.turboError /\ backend.kind \in {"intel_epp", "amd_epp"}
    => BoostAllowed(backend.kind, host, boost) = (report.turbo = "enabled")

(* Snapshots reach the loop from two sources, and one read by a resync may *)
(* be followed by older ones still in the watch stream.  Once the stream   *)
(* is drained the files are what the labels on the Node ask for, not what  *)
(* an overtaken snapshot asked for: every policy when apply succeeded, and *)
(* every policy before the one that stopped it when it did not.            *)
HardwareFollowsLabels ==
  Quiet /\ ~ drifted =>
    /\ Follows(report, node)
    /\ ProfileInForce
    /\ ~ report.profileError => Reached(backend, report.profile, host) = DOMAIN backend.policies
    /\ TurboInForce

(* Under the same condition the annotations are those of the last report,  *)
(* in spite of patches computed from overtaken snapshots, patches that     *)
(* arrive after the agent gave up on them, and Nodes deleted and created   *)
(* again in between; unless the last patch that was due failed, which only *)
(* the next resync repairs.                                                *)
AnnotationsFollowReport ==
  Quiet /\ ~ missed => observed /\ node.ann = DesiredAnnotations(report)

(* The safety half of NoHotLoop below, and of reconcile_node being safe to *)
(* call as often as one likes: an agent that has caught up rests.  As long *)
(* as the world leaves the node alone no resync, however many there are,   *)
(* writes a file, the Node or a different report, or ends the rest.        *)
AtRest ==
  /\ listed /\ node # Gone /\ pending = <<>> /\ pc # "patching"
  /\ ~ missed /\ ~ drifted

RestIsKept ==
  [][AtRest /\ UNCHANGED <<budget, late>> => AtRest' /\ UNCHANGED <<node, files, report>>]_vars

(* docs/labels.md: drift heals, labels win, and the self-inflicted watch   *)
(* events die out, once the world leaves the node alone.                   *)
Settled ==
  node # Gone =>
    /\ observed /\ Follows(report, node)
    /\ node.ann = DesiredAnnotations(report)
    /\ ProfileInForce /\ TurboInForce
Converges == <>[]Settled

(* status.rs: the agent watches the Node it patches, and must not go on    *)
(* patching because of its own patches.                                    *)
NoHotLoop == <>[][UNCHANGED node]_node

(* docs/labels.md: an invalid label that stays on the Node ends up as a    *)
(* Warning Event, although publishes fail and the process is killed.       *)
InvalidNow == node # Gone /\ InvalidProfile(node.profile)
InvalidLabelIsWarned == InvalidNow ~> ("InvalidProfileLabel" \in events \/ ~ InvalidNow)

-----------------------------------------------------------------------------
(* What the documents say and the code does not do. *)

(* docs/labels.md:50 has a turbo label the backend cannot follow reported  *)
(* as applied-turbo: unsupported.                                          *)
UnsupportedTurboIsReported ==
  Quiet /\ ~ missed /\ report.turboUnsupported => node.ann.turbo = "unsupported"

(* The note of the ProfileUnsupported Event (status.rs:152): no cpufreq    *)
(* policies detected on this node.                                         *)
UnsupportedMeansNoPolicies ==
  "ProfileUnsupported" \in events => \E h \in Hosts : DOMAIN h.policies = {}

(* docs/labels.md:5: the periodic resync self-heals drift. A policy that   *)
(* once held the profile the labels ask for, still offers it and takes the *)
(* write does not stay astray from it for ever.                            *)
FollowedOn(i) == observed /\ node # Gone /\ Follows(report, node) /\ i \in DOMAIN backend.policies
InForceOn(i) == FollowedOn(i) /\ Knob(i) = Wanted(backend, i, report.profile)
Astray(i) ==
  /\ FollowedOn(i) /\ ~ InForceOn(i)
  /\ Advertised(backend, i, report.profile) /\ WriteOk(backend, i, report.profile, host)

DriftHealsEverywhere == \A i \in PolicyIds : <>InForceOn(i) => []<>~ Astray(i)

-----------------------------------------------------------------------------
(* An inductive invariant for the two safety properties. *)

(* A process that is not there has reconciled nothing and follows nothing. *)
DownIsBlank == pc = "down" => ~ observed /\ ~ listed

(* While there are snapshots to hand over, the newest is the Node itself. *)
StreamEndsWithNode ==
  listed /\ node # Gone /\ pending # <<>> => pending[Len(pending)] = node

Drained == listed /\ node # Gone /\ pending = <<>>

(* When there are none, the last report was made from the Node's labels,   *)
(* and a resync under way holds no other snapshot.                         *)
ReportIsCurrent ==
  Drained => observed /\ Follows(report, node) /\ (pc = "fetched" => got = node)

AnnotationsWritten ==
  Drained /\ pc # "patching" => missed \/ node.ann = DesiredAnnotations(report)

(* The backend would answer the last calls as it did. *)
OutcomeStands ==
  LET turbo == IF report.turbo = Unmanaged THEN "ok" ELSE TurboOutcome(backend.kind, host) IN
  /\ report.kind = backend.kind
  /\ report.profileError = (Blocking(backend, report.profile, host) # {})
  /\ report.turboError = (turbo = "error")
  /\ report.turboUnsupported = (turbo = "unsupported")

(* Nothing but a reconcile moves the files, so they are as it left them.   *)
AppliedInForce ==
  observed /\ ~ drifted =>
    /\ ProfileInForce
    /\ ~ report.profileError => Reached(backend, report.profile, host) = DOMAIN backend.policies
    /\ TurboInForce
    /\ OutcomeStands

IInv ==
  /\ TypeOK
  /\ DownIsBlank /\ StreamEndsWithNode
  /\ ReportIsCurrent /\ AnnotationsWritten /\ AppliedInForce
=============================================================================
