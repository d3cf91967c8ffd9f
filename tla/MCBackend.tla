------------------------------ MODULE MCBackend ------------------------------
(* Small hosts and requests for TLC. *)
EXTENDS Backend

EppPolicy(vendor, epps, writable) ==
  [driver |-> vendor, hasEpp |-> TRUE, epps |-> epps, governors |-> {"powersave"},
   writable |-> writable]
GovernorPolicy ==
  [driver |-> {}, hasEpp |-> FALSE, epps |-> {}, governors |-> {"performance", "schedutil"},
   writable |-> TRUE]
HostWith(policies, turboFiles, turboWritable) ==
  [policies |-> policies, turboFiles |-> turboFiles, turboWritable |-> turboWritable]

(* Three AMD hosts: all well; one whose second policy and turbo files are  *)
(* locked and whose vendor's boost file is gone; and one that lists few    *)
(* preferences on its first policy.  The last has no EPP.                  *)
Amd     == HostWith([i \in PolicyIds |-> EppPolicy({"amd"}, {}, TRUE)],
                    {"amd_pstate_boost", "cpufreq_boost"}, TRUE)
Locked  == HostWith([i \in PolicyIds |-> EppPolicy({"amd"}, {}, i = 0)],
                    {"cpufreq_boost"}, FALSE)
Picky   == HostWith([i \in PolicyIds |->
                       EppPolicy({"amd"}, IF i = 0 THEN {"default", "power"} ELSE {}, TRUE)],
                    {"cpufreq_boost"}, TRUE)
Passive == HostWith([i \in PolicyIds |-> GovernorPolicy], {}, TRUE)

AmdHosts == {Amd, Locked, Picky, Passive}

(* ultra is no profile: the agent falls back, the command line complains.  *)
FallBack    == [profile |-> "ultra", turbo |-> "enabled"]
Performance == [profile |-> "performance", turbo |-> "disabled"]
TurboOnly   == [profile |-> "ultra", turbo |-> "disabled"]
OneLabel == {FallBack}
TwoArgs  == {Performance, TurboOnly}
=============================================================================
