---------------------------- MODULE ContractProofs ----------------------------
(* Module Agent implements module Contract, step by step. *)
EXTENDS AgentContract, AgentProofs

(* A resync that has fetched holds a Node. *)
FetchedIsNode == pc = "fetched" => got \in Nodes

LEMMA FetchedStaysNode == TypeOK /\ FetchedIsNode /\ [Next]_vars => FetchedIsNode'
<1> SUFFICES ASSUME TypeOK, FetchedIsNode, [Next]_vars, pc' = "fetched" PROVE got' \in Nodes
  BY DEF FetchedIsNode
<1>1. \/ node # Gone /\ got' = node
      \/ pc = "fetched" /\ got' = got
  BY DEF Next, Loop, Environment, vars, process, Start, StartBlind, List, LosePlace, Deliver,
         ResyncTick, FetchOk, FetchNone, FetchFails, ResyncReconcile, Reconcile, PatchApplied,
         PatchNotFound, PatchFails, EmitEvents, EmitSomeEvents, Shutdown, KilledApplying,
         ProcessLost, EditLabels, CreateNode, StripAnnotations, DeleteNode, Drift, LatePatch,
         KernelChange
<1>. QED
  BY <1>1 DEF TypeOK, FetchedIsNode

LEMMA MeaningIsWish ==
  ASSUME NEW n \in Nodes
  PROVE  Meaning(n) \in Meanings /\ Meaning(n) # Gone
<1>1. n.profile \in ProfileLabels /\ n.turbo \in TurboLabels
  BY DEF Nodes
<1>2. Meaning(n) = Meaning([profile |-> n.profile, turbo |-> n.turbo])
  BY DEF Meaning
<1>. QED
  BY <1>1, <1>2, WishAssumption DEF Meanings

LEMMA InHandAreNodes ==
  ASSUME TypeOK, FetchedIsNode
  PROVE  InHand \subseteq Nodes
BY DEF TypeOK, FetchedIsNode, InHand

LEMMA WishIsMeaning ==
  ASSUME TypeOK
  PROVE  NodeWish \in Meanings \cup {Gone} /\ (node # Gone => NodeWish \in Meanings)
BY MeaningIsWish DEF TypeOK, NodeWish

-----------------------------------------------------------------------------
(* The three ways a step of the agent is a step of the contract. *)

(* Nothing is applied; what is in hand was there before, or is the Node,   *)
(* before or after it changed.                                             *)
LEMMA SeesOrForgets ==
  ASSUME TypeOK, TypeOK', FetchedIsNode, FetchedIsNode',
         AppliedWish' = AppliedWish,
         \A n \in InHand' : n \in InHand \/ n = node \/ n = node'
  PROVE  [C!Next]_(C!vars)
<1>1. InHand' \subseteq Nodes
  BY DEF TypeOK, FetchedIsNode, InHand
<1>2. ASSUME NEW m \in OvertakenWishes'
      PROVE  m \in OvertakenWishes \cup ({NodeWish} \ {Gone}) /\ m # NodeWish'
  <2>1. PICK n \in InHand' : m = Meaning(n) /\ m # NodeWish'
    BY DEF OvertakenWishes
  <2>2. n \in Nodes /\ n # Gone /\ m # Gone
    BY <1>1, <2>1, GoneAssumption, MeaningIsWish
  <2>3. n # node'
    BY <2>1, <2>2 DEF NodeWish
  <2>4. CASE n = node
    BY <2>1, <2>2, <2>4 DEF NodeWish
  <2>5. CASE n \in InHand
    BY <2>1, <2>2, <2>5 DEF OvertakenWishes
  <2>. QED
    BY <2>1, <2>3, <2>4, <2>5
<1>3. NodeWish' \in Meanings \cup {Gone}
  BY MeaningIsWish DEF TypeOK, NodeWish
<1>4. CASE NodeWish' = NodeWish
  BY <1>2, <1>4 DEF C!Next, C!Forget, OvertakenWishes
<1>5. CASE NodeWish' # NodeWish
  <2>1. C!Edit(NodeWish')
    BY <1>2, <1>5 DEF C!Edit, C!Wish
  <2>. QED
    BY <2>1, <1>3 DEF C!Next
<1>. QED
  BY <1>4, <1>5

(* A snapshot in hand is applied. *)
LEMMA Applies ==
  ASSUME TypeOK, FetchedIsNode, node' = node, InHand' \subseteq InHand,
         NEW n \in InHand, Reconcile(n)
  PROVE  [C!Next]_(C!vars)
<1>1. AppliedWish' = Meaning(n)
  BY DEF Reconcile, AppliedWish, ReportMeaning, ReportOf, Meaning
<1>2. NodeWish' = NodeWish
  BY DEF NodeWish
<1>3. Meaning(n) # Gone
  BY InHandAreNodes, MeaningIsWish
<1>4. Meaning(n) \in OvertakenWishes \cup ({NodeWish} \ {Gone})
  BY <1>3 DEF OvertakenWishes
<1>5. OvertakenWishes' \subseteq OvertakenWishes
  BY <1>2 DEF OvertakenWishes
<1>6. C!Apply
  BY <1>1, <1>2, <1>4, <1>5 DEF C!Apply, C!Wish
<1>. QED
  BY <1>6 DEF C!Next

(* The process is gone. *)
LEMMA Restarts ==
  ASSUME node' = node, ProcessLost
  PROVE  [C!Next]_(C!vars)
<1>1. NodeWish' = NodeWish
  BY DEF NodeWish
<1>2. AppliedWish' = Gone /\ InHand' = {}
  BY DEF ProcessLost, AppliedWish, InHand
<1>3. OvertakenWishes' = {}
  BY <1>2 DEF OvertakenWishes
<1>4. C!Restart
  BY <1>1, <1>2, <1>3 DEF C!Restart
<1>. QED
  BY <1>4 DEF C!Next

(* A write of the Node adds the Node as it becomes to what is in hand. *)
LEMMA NodeBecomesInHand ==
  ASSUME TypeOK, NEW m \in Nodes, NodeBecomes(m), UNCHANGED <<pc, got>>
  PROVE  \A n \in InHand' : n \in InHand \/ n = node'
<1>1. CASE pending' = pending
  BY <1>1 DEF InHand
<1>2. CASE pending' = Append(pending, m)
  <2>1. \A i \in DOMAIN pending' : (i \in DOMAIN pending /\ pending'[i] = pending[i]) \/ pending'[i] = m
    BY <1>2 DEF TypeOK
  <2>. QED
    BY <2>1 DEF InHand, NodeBecomes
<1>. QED
  BY <1>1, <1>2 DEF NodeBecomes

-----------------------------------------------------------------------------
(* Every step of the agent is one of these, or leaves in hand what was. *)
LEMMA StepSimulates ==
  TypeOK /\ TypeOK' /\ FetchedIsNode /\ FetchedIsNode' /\ [Next]_vars => [C!Next]_(C!vars)
<1> SUFFICES ASSUME TypeOK, TypeOK', FetchedIsNode, FetchedIsNode', [Next]_vars
             PROVE  [C!Next]_(C!vars)
  OBVIOUS
<1> USE DEF vars, server, files, process, history
<1>1. CASE List
  <2>1. \A n \in InHand' : n = node
    BY <1>1 DEF List, InHand
  <2>. QED
    BY <1>1, <2>1, SeesOrForgets DEF List, AppliedWish
<1>2. CASE FetchOk
  <2>1. \A n \in InHand' : n \in InHand \/ n = node
    BY <1>2 DEF FetchOk, InHand
  <2>. QED
    BY <1>2, <2>1, SeesOrForgets DEF FetchOk, AppliedWish
<1>3. CASE UNCHANGED vars \/ Start \/ StartBlind \/ LosePlace \/ ResyncTick \/ FetchNone \/ FetchFails
           \/ PatchNotFound \/ PatchFails \/ EmitEvents \/ EmitSomeEvents
           \/ DeleteNode \/ Drift \/ \E h \in Hosts : KernelChange(h)
  <2>1. /\ observed' = observed /\ report' = report
        /\ pending' \in {pending, <<>>}
        /\ pc' = "fetched" => pc = "fetched" /\ got' = got
    BY <1>3 DEF Start, StartBlind, LosePlace, ResyncTick, FetchNone, FetchFails, PatchNotFound,
       PatchFails, EmitEvents, EmitSomeEvents, DeleteNode, Drift, KernelChange
  <2>2. InHand' \subseteq InHand
    BY <2>1 DEF InHand
  <2>. QED
    BY <2>1, <2>2, SeesOrForgets DEF AppliedWish
<1>4. CASE Deliver
  <2>1. Head(pending) \in InHand /\ Reconcile(Head(pending)) /\ node' = node
    BY <1>4 DEF Deliver, InHand, TypeOK
  <2>2. \A i \in DOMAIN pending' : i + 1 \in DOMAIN pending /\ pending'[i] = pending[i + 1]
    BY <1>4 DEF Deliver, TypeOK
  <2>3. pc' # "fetched"
    BY <2>1 DEF Reconcile
  <2>4. InHand' \subseteq InHand
    BY <2>2, <2>3 DEF InHand
  <2>. QED
    BY <2>1, <2>4, Applies
<1>5. CASE ResyncReconcile
  <2>1. got \in InHand /\ Reconcile(got) /\ node' = node /\ pending' = pending
    BY <1>5 DEF ResyncReconcile, InHand
  <2>2. pc' # "fetched"
    BY <2>1 DEF Reconcile
  <2>3. InHand' \subseteq InHand
    BY <2>1, <2>2 DEF InHand
  <2>. QED
    BY <2>1, <2>3, Applies
<1>6. CASE PatchApplied
  <2>1. [node EXCEPT !.ann = DesiredAnnotations(report)] \in Nodes
    BY <1>6, DesiredType DEF PatchApplied, TypeOK, Nodes
  <2>2. \A n \in InHand' : n \in InHand \/ n = node'
    <3>1. pc' # "fetched" /\ pc # "fetched"
      BY <1>6 DEF PatchApplied
    <3>2. \A i \in DOMAIN pending' :
             (i \in DOMAIN pending /\ pending'[i] = pending[i]) \/ pending'[i] = node'
      BY <1>6, <2>1 DEF PatchApplied, NodeBecomes, TypeOK
    <3>. QED
      BY <3>1, <3>2 DEF InHand
  <2>. QED
    BY <1>6, <2>2, SeesOrForgets DEF PatchApplied, AppliedWish
<1>7. CASE Shutdown \/ KilledApplying
  BY <1>7, Restarts DEF Shutdown, KilledApplying
<1>8. ASSUME NEW p \in ProfileLabels, NEW t \in TurboLabels, EditLabels(p, t)
      PROVE  [C!Next]_(C!vars)
  <2>1. [node EXCEPT !.profile = p, !.turbo = t] \in Nodes
    BY <1>8 DEF EditLabels, TypeOK, Nodes
  <2>. QED
    BY <1>8, <2>1, NodeBecomesInHand, SeesOrForgets DEF EditLabels, AppliedWish
<1>9. ASSUME NEW p \in ProfileLabels, NEW t \in TurboLabels, CreateNode(p, t)
      PROVE  [C!Next]_(C!vars)
  <2>1. [profile |-> p, turbo |-> t, ann |-> NoAnnotations] \in Nodes
    BY DEF Nodes, NoAnnotations, Annotations
  <2>. QED
    BY <1>9, <2>1, NodeBecomesInHand, SeesOrForgets DEF CreateNode, AppliedWish
<1>10. CASE StripAnnotations
  <2>1. [node EXCEPT !.ann = NoAnnotations] \in Nodes
    BY <1>10 DEF StripAnnotations, TypeOK, Nodes, NoAnnotations, Annotations
  <2>. QED
    BY <1>10, <2>1, NodeBecomesInHand, SeesOrForgets DEF StripAnnotations, AppliedWish
<1>11. ASSUME NEW a \in late, LatePatch(a)
       PROVE  [C!Next]_(C!vars)
  <2>1. [node EXCEPT !.ann = a] \in Nodes
    BY <1>11 DEF LatePatch, TypeOK, Nodes
  <2>. QED
    BY <1>11, <2>1, NodeBecomesInHand, SeesOrForgets DEF LatePatch, AppliedWish
<1>. QED
  BY <1>1, <1>2, <1>3, <1>4, <1>5, <1>6, <1>7, <1>8, <1>9, <1>10, <1>11 DEF Next, Loop, Environment

LEMMA InitSimulates == Init => C!Init /\ FetchedIsNode
<1> SUFFICES ASSUME Init PROVE C!Init /\ FetchedIsNode
  OBVIOUS
<1>1. PICK p \in ProfileLabels, t \in TurboLabels :
        node = [profile |-> p, turbo |-> t, ann |-> NoAnnotations]
  BY DEF Init
<1>2. node \in Nodes
  BY <1>1 DEF Nodes, NoAnnotations, Annotations
<1>3. NodeWish \in Meanings
  BY <1>2, MeaningIsWish, GoneAssumption DEF NodeWish
<1>4. InHand = {} /\ AppliedWish = Gone
  BY DEF Init, InHand, AppliedWish
<1>. QED
  BY <1>3, <1>4 DEF C!Init, OvertakenWishes, Init, FetchedIsNode

(* The agent implements the contract: whatever overtakes what, is lost or  *)
(* dies, it applies nothing the Node does not want or has just ceased to.  *)
THEOREM AgentKeepsContract == Spec => KeepsContract
BY TypeCorrect, InitSimulates, StepSimulates, FetchedStaysNode, PTL DEF Spec, KeepsContract, C!Spec

(* With nothing overtaken in hand, an agent that changes what is applied   *)
(* changes it to what the Node wants: an old wish never returns.           *)
THEOREM AgentNeverRelapses == Spec => C!NoRelapse
<1>1. [C!Next]_(C!vars)
        => [OvertakenWishes = {} /\ NodeWish' = NodeWish /\ AppliedWish' # Gone
              => AppliedWish' \in {AppliedWish, NodeWish}]_(C!vars)
  BY DEF C!Next, C!Edit, C!Apply, C!Forget, C!Restart, C!Wish, C!vars
<1>. QED
  BY <1>1, AgentKeepsContract, PTL DEF KeepsContract, C!Spec, C!NoRelapse
=============================================================================
