------------------------------ MODULE MCMetrics ------------------------------
(* Two hosts and a few labels for TLC. *)
EXTENDS Metrics

Intel(writable) ==
  [policies |-> [i \in PolicyIds |-> [driver |-> {"intel"}, hasEpp |-> TRUE, epps |-> {},
                                      governors |-> {"powersave"}, writable |-> writable]],
   turboFiles |-> {"no_turbo"}, turboWritable |-> writable]

(* All well, and everything locked. *)
IntelHosts == {Intel(TRUE), Intel(FALSE)}

Labels(p, t) == [profile |-> p, turbo |-> t]
TwoLabels == {Labels("power", "enabled"), Labels("ultra", Absent)}

(* As observe writes them, and the other way round. *)
Forward ==
  ProfileOrder \o <<"kind", "turbo_managed", "turbo_enabled",
                    "ok", "invalid_label", "unsupported", "error", "last_reconcile">>
Backward == [i \in DOMAIN Forward |-> Forward[Len(Forward) + 1 - i]]
Orders == {Forward, Backward}
=============================================================================
