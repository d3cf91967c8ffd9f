---------------------------- MODULE AgentContract ----------------------------
(* The agent keeps the contract: module Agent under a refinement mapping.   *)
EXTENDS Agent

(* What the labels of a Node, and those a report was made from, mean. *)
Meaning(n) == [profile |-> ParseProfile(n.profile), profileInvalid |-> InvalidProfile(n.profile),
               turbo |-> ParseTurbo(n.turbo), turboInvalid |-> InvalidTurbo(n.turbo)]
ReportMeaning(r) == [profile |-> r.profile, profileInvalid |-> r.profileInvalid,
                     turbo |-> r.turbo, turboInvalid |-> r.turboInvalid]

Meanings == {Meaning([profile |-> p, turbo |-> t]) : p \in ProfileLabels, t \in TurboLabels}

ASSUME WishAssumption == Gone \notin Meanings

(* The snapshots the loop may yet reconcile: those in the watch stream,    *)
(* and the one a resync has fetched.                                       *)
InHand == {pending[i] : i \in DOMAIN pending} \cup (IF pc = "fetched" THEN {got} ELSE {})

NodeWish == IF node = Gone THEN Gone ELSE Meaning(node)
AppliedWish == IF observed THEN ReportMeaning(report) ELSE Gone
OvertakenWishes == {Meaning(n) : n \in InHand} \ {NodeWish}

C == INSTANCE Contract WITH
       Wishes <- Meanings, Nothing <- Gone,
       wanted <- NodeWish, applied <- AppliedWish, overtaken <- OvertakenWishes

(* Snapshots overtake each other between the watch stream and the resync,  *)
(* processes die with snapshots in hand, watches are lost: through all of  *)
(* it the agent applies what the Node wants or has just ceased to want,    *)
(* and never falls back to a wish that was no longer in its hands.         *)
KeepsContract == C!Spec
=============================================================================
