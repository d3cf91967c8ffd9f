------------------------------- MODULE MCAgent -------------------------------
(* Small hosts for TLC. *)
EXTENDS AgentContract

(* Policies as Linux shows them.  The EPP list of UnlistedEpp could not be *)
(* read, which the crate takes for "anything goes".                        *)
EppPolicy(vendor, epps, writable) ==
  [driver |-> vendor, hasEpp |-> TRUE, epps |-> epps, governors |-> {"powersave"},
   writable |-> writable]
GovernorPolicy(governors) ==
  [driver |-> {}, hasEpp |-> FALSE, epps |-> {}, governors |-> governors, writable |-> TRUE]

HostWith(policies, turboFiles, turboWritable) ==
  [policies |-> policies, turboFiles |-> turboFiles, turboWritable |-> turboWritable]

Intel(locked) ==
  HostWith([i \in PolicyIds |-> EppPolicy({"intel"}, {}, i \notin locked)],
           {"no_turbo"}, locked = {})

(* The intel_pstate driver in active mode, all well; its first or second   *)
(* policy locked; and in passive mode, where the policies have no EPP.     *)
Passive == HostWith([i \in PolicyIds |-> GovernorPolicy({"performance", "schedutil"})],
                    {"no_turbo"}, TRUE)
(* amd-pstate with its own boost file, and one that lists few preferences. *)
Amd(turboFiles) ==
  HostWith([i \in PolicyIds |-> EppPolicy({"amd"}, {"default", "power"}, TRUE)], turboFiles, TRUE)
Unknown == HostWith([i \in PolicyIds |-> EppPolicy({}, {}, TRUE)], {"cpufreq_boost"}, TRUE)
Guest == HostWith([i \in {} |-> 0], {}, TRUE)
(* The first policy has neither EPP nor governors, the second has both. *)
Bare == HostWith([i \in PolicyIds |-> IF i = 0 THEN GovernorPolicy({})
                                      ELSE EppPolicy({"intel"}, {}, TRUE)], {}, TRUE)

OnlyPassive == {Passive}
OnlyBare == {Bare}
OneIntel == {Intel({})}
(* With one profile label, once applied, a policy can differ from it only  *)
(* by drifting.                                                            *)
LockableIntel == {Intel({}), Intel({0})}
IntelHosts == {Intel({}), Intel({0}), Intel({1})}
MixedHosts == {Intel({}), Passive, Amd({"amd_pstate_boost", "cpufreq_boost"}),
               Amd({"cpufreq_boost"}), Unknown, Guest}
=============================================================================
