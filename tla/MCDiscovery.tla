----------------------------- MODULE MCDiscovery -----------------------------
(* Policies 2 and 10, which path order turns round, and the forms of one    *)
(* AMD host: driver switched, a policy gone, all gone, a policy whose CPUs  *)
(* are offline, none of whose files can be read; and an Intel host in       *)
(* passive mode, where no policy has an EPP file.                           *)
EXTENDS Discovery

TwoAndTen == {2, 10}
AsPaths == [i \in TwoAndTen |-> IF i = 10 THEN 1 ELSE 2]

AmdEpp(epps) == [driver |-> {"amd"}, hasEpp |-> TRUE, epps |-> epps,
                 governors |-> {"powersave"}, writable |-> TRUE]
Acpi == [driver |-> {}, hasEpp |-> FALSE, epps |-> {}, governors |-> {"schedutil"}, writable |-> TRUE]
Inactive == [driver |-> {}, hasEpp |-> TRUE, epps |-> {}, governors |-> {}, writable |-> FALSE]
IntelPassive == [driver |-> {"intel"}, hasEpp |-> FALSE, epps |-> {},
                 governors |-> {"performance"}, writable |-> TRUE]

HostOf(ids, p(_)) == [policies |-> [i \in ids |-> p(i)], turboFiles |-> {}, turboWritable |-> TRUE]

(* The two policies differ, so that it shows which one was first. *)
AmdActive(i) == AmdEpp(IF i = 2 THEN {"power", "default"} ELSE {"performance"})
AmdOffline(i) == IF i = 2 THEN Inactive ELSE AmdActive(i)
AmdMixed(i) == IF i = 2 THEN Acpi ELSE AmdActive(i)

ChangingHosts == {HostOf(TwoAndTen, AmdActive), HostOf(TwoAndTen, AmdMixed), HostOf({10}, AmdActive),
                  HostOf({}, AmdActive), HostOf(TwoAndTen, AmdOffline),
                  HostOf(TwoAndTen, LAMBDA i : IntelPassive)}
=============================================================================
