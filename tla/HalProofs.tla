------------------------------ MODULE HalProofs ------------------------------
(***************************************************************************)
(* What the operators of Hal and Reconcile return, for every host, backend *)
(* and label: the lemmas the proofs about the state machines rest on.      *)
(***************************************************************************)
EXTENDS Reconcile, TLAPS, WellFoundedInduction

(* map_governor (governor.rs:41) names one of the governors it knows. *)
LEMMA MapGovernorType ==
  ASSUME NEW profile, NEW available
  PROVE  MapGovernor(profile, available) \in Governors
BY DEF MapGovernor, Governors

(* detect_backend (mod.rs:68) returns a usable backend on every host. *)
LEMMA DetectBackendType ==
  ASSUME NEW h, IsHost(h)
  PROVE  IsBackend(DetectBackend(h))
<1> DEFINE ps == DiscoverPolicies(h)
<1>1. /\ DOMAIN ps \subseteq PolicyIds
      /\ ps \in [DOMAIN ps -> CpuPolicy]
  <2>1. \A p \in Policy : Discovered(p) \in CpuPolicy
    BY DEF Policy, CpuPolicy, Discovered
  <2> QED BY <2>1 DEF IsHost, DiscoverPolicies
<1>2. DetectKind(ps) \in BackendKinds
  BY DEF DetectKind, VendorKind, BackendKinds, EppKinds
<1>3. DOMAIN NoPolicies = {} /\ NoPolicies \in [DOMAIN NoPolicies -> CpuPolicy]
  BY DEF NoPolicies
<1> HIDE DEF ps
<1> QED BY <1>1, <1>2, <1>3 DEF DetectBackend, IsBackend, ps

(* parse_profile_label and parse_turbo_label (reconcile.rs:50-70) fall back *)
(* to a value the rest of the code knows, whatever the label holds.        *)
LEMMA ParseType ==
  ASSUME NEW raw
  PROVE  /\ ParseProfile(raw) \in Profiles
         /\ ParseTurbo(raw) \in TurboStates \cup {Unmanaged}
BY DEF ParseProfile, ParseTurbo, Profiles

(* reconcile_once (reconcile.rs:76) returns a well-formed report. *)
LEMMA ReportType ==
  ASSUME NEW b, IsBackend(b), NEW h, NEW n
  PROVE  ReportOf(b, h, n) \in Report
<1>1. b.kind \in BackendKinds
  BY DEF IsBackend
<1>2. InvalidProfile(n.profile) \in BOOLEAN /\ InvalidTurbo(n.turbo) \in BOOLEAN
  BY DEF InvalidProfile, InvalidTurbo
<1> QED BY <1>1, <1>2, ParseType DEF ReportOf, Report

(* desired_annotations (status.rs:63) fills all four annotations. *)
LEMMA DesiredType ==
  ASSUME NEW r \in Report
  PROVE  DesiredAnnotations(r) \in Annotations
<1>1. ResultLabel(r) \in {"ok", "invalid_label", "unsupported", "error"}
  BY DEF ResultLabel
<1> QED BY <1>1 DEF DesiredAnnotations, Annotations, Report

(* The loops of apply (epp.rs:63, governor.rs:70) write values the files   *)
(* can hold, to the policies of the backend.                               *)
LEMMA WritesType ==
  ASSUME NEW b, IsBackend(b), NEW profile \in Profiles, NEW done,
         NEW e \in [PolicyIds -> Profiles], NEW g \in [PolicyIds -> Governors]
  PROVE  /\ EppWrites(b, profile, done, e) \in [PolicyIds -> Profiles]
         /\ GovernorWrites(b, profile, done, g) \in [PolicyIds -> Governors]
<1>1. ASSUME NEW i, b.kind \in EppKinds
      PROVE  Wanted(b, i, profile) \in Profiles
  BY <1>1 DEF Wanted
<1>2. ASSUME NEW i, b.kind = "governor_fallback"
      PROVE  Wanted(b, i, profile) \in Governors
  BY <1>2, MapGovernorType DEF Wanted, EppKinds
<1> QED BY <1>1, <1>2 DEF EppWrites, GovernorWrites

LEMMA TurboWritesType ==
  ASSUME NEW kind, NEW h, NEW enabled, NEW t \in [TurboFiles -> {"0", "1"}]
  PROVE  TurboWrites(kind, h, enabled, t) \in [TurboFiles -> {"0", "1"}]
<1>1. TurboFile(kind, h.turboFiles) \in TurboFiles
  BY DEF TurboFile, TurboFiles
<1>2. TurboValue(kind, enabled) \in {"0", "1"}
  BY DEF TurboValue
<1> QED BY <1>1, <1>2 DEF TurboWrites

(* UnsupportedBackend, the backend of a process yet to start, is one too. *)
LEMMA NoBackendType == IsBackend(NoBackend)
<1>1. DOMAIN NoPolicies = {} /\ NoPolicies \in [DOMAIN NoPolicies -> CpuPolicy]
  BY DEF NoPolicies
<1> QED BY <1>1 DEF NoBackend, IsBackend, BackendKinds

(* The policies discovery found are sorted, so there is a first one. *)
LEMMA FirstIsLeast ==
  ASSUME NEW ids, ids \subseteq PolicyIds, ids # {}
  PROVE  First(ids) \in ids /\ \A j \in ids : First(ids) <= j
<1>1. ids \subseteq Nat
  BY PolicyIdsAssumption
<1>2. PICK i \in ids : \A j \in ids : ~ (<<j, i>> \in OpToRel(<, Nat))
  BY <1>1, WFMin, NatLessThanWellFounded, Zenon
<1>3. \A j \in ids : ~ (<<j, i>>[1] < <<j, i>>[2])
  <2> TAKE j \in ids
  <2>1. <<j, i>> \in Nat \X Nat
    BY <1>1
  <2> QED BY <1>2, <2>1, Zenon DEF OpToRel
<1>4. \A j \in ids : i <= j
  BY <1>1, <1>3
<1> QED BY <1>4 DEF First
=============================================================================
