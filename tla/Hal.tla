-------------------------------- MODULE Hal --------------------------------
(***************************************************************************)
(* The crate cpu-power-hal as a library of operators: what a cpufreq       *)
(* policy advertises, which backend detect_backend picks, what apply and   *)
(* set_turbo write and which policies they reach before they give up.      *)
(*                                                                         *)
(* The calls are given here as the effect of the whole call on the files   *)
(* under /sys/devices/system/cpu, which is what a single caller sees; the  *)
(* writes one by one, with several callers, are module Backend.            *)
(***************************************************************************)
EXTENDS Integers

CONSTANT PolicyIds      \* the N of the policyN directories a host may show
ASSUME PolicyIdsAssumption == PolicyIds \subseteq Nat

Profiles == {"default", "performance", "balance_performance", "balance_power", "power"}

(* The governors map_governor knows by name. *)
Governors == {"performance", "powersave", "schedutil", "ondemand"}

EppKinds == {"intel_epp", "amd_epp", "unknown_epp"}
BackendKinds == EppKinds \cup {"governor_fallback", "unsupported"}

(***************************************************************************)
(* A policyN directory as the kernel shows it now.  driver holds the       *)
(* vendor names that occur in the scaling_driver string, hasEpp says       *)
(* whether energy_performance_preference exists, and writable whether the  *)
(* kernel takes a write of the policy's knob (an offline policy answers    *)
(* EBUSY, a locked-down one EACCES).                                       *)
(***************************************************************************)
Policy == [driver    : SUBSET {"intel", "amd"},
           hasEpp    : BOOLEAN,
           epps      : SUBSET Profiles,
           governors : SUBSET Governors,
           writable  : BOOLEAN]

TurboFiles == {"no_turbo", "amd_pstate_boost", "cpufreq_boost"}

(* A host: its policies, by id, the turbo files that exist on it, and      *)
(* whether the kernel takes a write of them.                               *)
IsHost(h) ==
  /\ h = [policies |-> h.policies, turboFiles |-> h.turboFiles,
          turboWritable |-> h.turboWritable]
  /\ DOMAIN h.policies \subseteq PolicyIds
  /\ h.policies \in [DOMAIN h.policies -> Policy]
  /\ h.turboFiles \subseteq TurboFiles
  /\ h.turboWritable \in BOOLEAN

(* What discovery keeps of a policy: it never learns whether the knob can  *)
(* be written, and reads the EPP list only where the EPP file exists.      *)
Discovered(p) == [driver    |-> p.driver,
                  hasEpp    |-> p.hasEpp,
                  epps      |-> IF p.hasEpp THEN p.epps ELSE {},
                  governors |-> p.governors]

CpuPolicy == [driver    : SUBSET {"intel", "amd"},
              hasEpp    : BOOLEAN,
              epps      : SUBSET Profiles,
              governors : SUBSET Governors]

DiscoverPolicies(host) == [i \in DOMAIN host.policies |-> Discovered(host.policies[i])]

VendorKind(driver) ==
  IF "intel" \in driver THEN "intel_epp"
  ELSE IF "amd" \in driver THEN "amd_epp"
  ELSE "unknown_epp"

(* Mutation: the policies are sorted the other way. *)
Greatest(ids) == CHOOSE i \in ids : \A j \in ids : j <= i

(* policies.first(): the discovered policies are sorted by id. *)
First(ids) == CHOOSE i \in ids : \A j \in ids : i <= j

(* Only the first policy decides; the others are driven the same way. *)
DetectKind(ps) ==
  IF DOMAIN ps = {} THEN "unsupported"
  ELSE LET first == ps[First(DOMAIN ps)] IN
       IF first.hasEpp THEN VendorKind(first.driver)
       ELSE IF first.governors # {} THEN "governor_fallback"
       ELSE "unsupported"

(* A backend keeps the policies it was built from for the life of the      *)
(* process; UnsupportedBackend keeps none.                                 *)
NoPolicies == [i \in {} |-> 0]
DetectBackend(host) ==
  LET ps   == DiscoverPolicies(host)
      kind == DetectKind(ps)
  IN  [kind     |-> kind,
       policies |-> IF kind = "unsupported" THEN NoPolicies ELSE ps]

(* UnsupportedBackend, which also stands for no backend at all. *)
NoBackend == [kind |-> "unsupported", policies |-> NoPolicies]

IsBackend(b) ==
  /\ b = [kind |-> b.kind, policies |-> b.policies]
  /\ b.kind \in BackendKinds
  /\ DOMAIN b.policies \subseteq PolicyIds
  /\ b.policies \in [DOMAIN b.policies -> CpuPolicy]
  /\ b.kind = "unsupported" => DOMAIN b.policies = {}

-----------------------------------------------------------------------------
(* Applying a profile. *)

MapGovernor(profile, available) ==
  CASE profile = "performance" -> "performance"
    [] profile = "power"       -> "powersave"
    [] OTHER -> IF "schedutil" \in available THEN "schedutil"
                ELSE IF "ondemand" \in available THEN "ondemand"
                ELSE "powersave"

(* What the loop writes to the knob of policy i, and its check before it. *)
Wanted(b, i, profile) ==
  IF b.kind \in EppKinds THEN profile ELSE MapGovernor(profile, b.policies[i].governors)

Advertised(b, i, profile) ==
  IF b.kind \in EppKinds
  THEN b.policies[i].epps = {} \/ profile \in b.policies[i].epps
  ELSE Wanted(b, i, profile) \in b.policies[i].governors

(* Whether the kernel takes that write: by what the policy is now, not by  *)
(* what it was when it was discovered.                                     *)
WriteOk(b, i, profile, host) ==
  /\ i \in DOMAIN host.policies
  /\ LET p == host.policies[i] IN
     /\ p.writable
     /\ IF b.kind \in EppKinds
        THEN p.hasEpp /\ (p.epps = {} \/ profile \in p.epps)
        ELSE Wanted(b, i, profile) \in p.governors

Blocking(b, profile, host) ==
  {i \in DOMAIN b.policies : ~ (Advertised(b, i, profile) /\ WriteOk(b, i, profile, host))}

(* The loop goes up the ids and returns at the first policy that blocks:   *)
(* the policies before it are written, it and all after it are not.        *)
Reached(b, profile, host) ==
  {i \in DOMAIN b.policies : \A j \in Blocking(b, profile, host) : i < j}

(* The two files the loops write, after the policies in done.              *)
EppWrites(b, profile, done, epp) ==
  [i \in PolicyIds |->
     IF i \in done /\ b.kind \in EppKinds THEN Wanted(b, i, profile) ELSE epp[i]]

GovernorWrites(b, profile, done, gov) ==
  [i \in PolicyIds |->
     IF i \in done /\ b.kind = "governor_fallback" THEN Wanted(b, i, profile) ELSE gov[i]]

-----------------------------------------------------------------------------
(* Setting turbo.  enabled is the positive sense; no_turbo is inverted. *)

TurboFile(kind, files) ==
  IF kind = "intel_epp" THEN "no_turbo"
  ELSE IF "amd_pstate_boost" \in files THEN "amd_pstate_boost"
  ELSE "cpufreq_boost"

(* Mutation: the Intel file is taken for a direct one. *)
TurboValueDirect(kind, enabled) == IF enabled THEN "1" ELSE "0"

TurboValue(kind, enabled) ==
  IF kind = "intel_epp"
  THEN IF enabled THEN "0" ELSE "1"
  ELSE IF enabled THEN "1" ELSE "0"

(* What set_turbo returns: UnsupportedBackend does nothing and says Ok. *)
TurboOutcome(kind, host) ==
  IF kind = "unsupported" THEN "ok"
  ELSE IF kind \in {"unknown_epp", "governor_fallback"} THEN "unsupported"
  ELSE IF TurboFile(kind, host.turboFiles) \in host.turboFiles /\ host.turboWritable THEN "ok"
  ELSE "error"

TurboWrites(kind, host, enabled, boost) ==
  IF kind \in {"intel_epp", "amd_epp"} /\ TurboOutcome(kind, host) = "ok"
  THEN [boost EXCEPT ![TurboFile(kind, host.turboFiles)] = TurboValue(kind, enabled)]
  ELSE boost

(* Whether the processor may boost: the kernel's reading of the files, not *)
(* the crate's.  An AMD driver obeys its own file where it has one.        *)
BoostAllowed(kind, host, boost) ==
  IF kind = "intel_epp" THEN boost["no_turbo"] = "0"
  ELSE IF "amd_pstate_boost" \in host.turboFiles THEN boost["amd_pstate_boost"] = "1"
  ELSE boost["cpufreq_boost"] = "1"
=============================================================================
