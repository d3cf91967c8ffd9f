----------------------------- MODULE AgentProofs -----------------------------
(***************************************************************************)
(* Proofs about module Agent, for every value of its constants.            *)
(***************************************************************************)
EXTENDS Agent, HalProofs

(* The gauges and the report before the first reconcile. *)
LEMMA InitialReportType == InitialReport \in Report
BY DEF InitialReport, Report, Profiles, BackendKinds

(* A watch stream is a sequence of Nodes, and what is appended is last. *)
LEMMA StreamType ==
  ASSUME NEW S, NEW s \in Seq(S), NEW e \in S
  PROVE  /\ Append(s, e) \in Seq(S) /\ Append(s, e) # <<>>
         /\ Append(s, e)[Len(Append(s, e))] = e
OBVIOUS

LEMMA StreamHead ==
  ASSUME NEW S, NEW s \in Seq(S), s # <<>>
  PROVE  /\ Head(s) \in S /\ Tail(s) \in Seq(S)
         /\ Tail(s) = <<>> => Head(s) = s[Len(s)]
         /\ Tail(s) # <<>> => Tail(s)[Len(Tail(s))] = s[Len(s)]
<1>1. Len(s) \in Nat /\ Len(s) >= 1 /\ Head(s) = s[1] /\ Head(s) \in S
  OBVIOUS
<1>2. Tail(s) \in Seq(S) /\ Len(Tail(s)) = Len(s) - 1
  OBVIOUS
<1>3. ASSUME Tail(s) = <<>>
      PROVE  Head(s) = s[Len(s)]
  BY <1>1, <1>2, <1>3
<1>4. ASSUME Tail(s) # <<>>
      PROVE  Tail(s)[Len(Tail(s))] = s[Len(s)]
  <2>1. Len(Tail(s)) \in 1 .. Len(Tail(s))
    BY <1>1, <1>2, <1>4
  <2>2. \A i \in 1 .. Len(Tail(s)) : Tail(s)[i] = s[i + 1]
    BY <1>1, <1>2
  <2> QED BY <1>1, <1>2, <2>1, <2>2
<1> QED BY <1>1, <1>2, <1>3, <1>4

-----------------------------------------------------------------------------
(* Type correctness. *)

(* reconcile_node up to its first await (reconcile.rs:117-138). *)
LEMMA ReconcileType ==
  ASSUME TypeOK, NEW n, Reconcile(n)
  PROVE  /\ epp' \in [PolicyIds -> Profiles] /\ gov' \in [PolicyIds -> Governors]
         /\ boost' \in [TurboFiles -> {"0", "1"}]
         /\ pc' \in PcStates
         /\ observed' = TRUE /\ report' \in Report
         /\ missed' \in BOOLEAN /\ drifted' = FALSE
<1> DEFINE profile == ParseProfile(n.profile)
           done    == Reached(backend, profile, host)
<1>1. /\ EppWrites(backend, profile, done, epp) \in [PolicyIds -> Profiles]
      /\ GovernorWrites(backend, profile, done, gov) \in [PolicyIds -> Governors]
  <2> HIDE DEF done
  <2> QED BY WritesType, ParseType DEF TypeOK
<1>2. boost' \in [TurboFiles -> {"0", "1"}]
  BY TurboWritesType DEF Reconcile, TypeOK
<1>3. report' \in Report
  BY ReportType DEF Reconcile, TypeOK
<1>4. pc' \in PcStates /\ missed' \in BOOLEAN
  BY DEF Reconcile, TypeOK, PcStates
<1> QED BY <1>1, <1>2, <1>3, <1>4 DEF Reconcile

(* A write of the Node reaches the watch stream as a snapshot. *)
LEMMA NodeBecomesType ==
  ASSUME TypeOK, NEW n \in Nodes, NodeBecomes(n)
  PROVE  node' \in Nodes \cup {Gone} /\ pending' \in Seq(Nodes)
BY StreamType DEF NodeBecomes, TypeOK

(* The process ends and takes its variables with it. *)
LEMMA ProcessLostType ==
  ASSUME ProcessLost
  PROVE  /\ pc' \in PcStates /\ IsBackend(backend') /\ listed' \in BOOLEAN
         /\ pending' \in Seq(Nodes) /\ got' \in Nodes \cup {Gone}
         /\ observed' \in BOOLEAN /\ report' \in Report
         /\ missed' \in BOOLEAN /\ drifted' \in BOOLEAN
<1>1. pending' \in Seq(Nodes)
  BY DEF ProcessLost
<1>2. IsBackend(backend') /\ report' \in Report
  BY NoBackendType, InitialReportType DEF ProcessLost
<1> QED BY <1>1, <1>2 DEF ProcessLost, PcStates

LEMMA DisturbType ==
  ASSUME TypeOK, Disturb
  PROVE  budget' \in 0 .. MaxDisturbances
BY BudgetAssumption DEF TypeOK, Disturb

LEMMA TypeInit == Init => TypeOK
<1> SUFFICES ASSUME Init PROVE TypeOK
  OBVIOUS
<1>1. node \in Nodes
  BY DEF Init, Nodes, NoAnnotations, Annotations
<1>2. epp \in [PolicyIds -> Profiles] /\ gov \in [PolicyIds -> Governors]
  BY DriftsAssumption DEF Init, Governors
<1>3. pending \in Seq(Nodes)
  BY DEF Init
<1>4. budget \in 0 .. MaxDisturbances
  BY BudgetAssumption DEF Init
<1> QED BY <1>1, <1>2, <1>3, <1>4, NoBackendType, InitialReportType
        DEF Init, TypeOK, PcStates

LEMMA TypeNext == TypeOK /\ [Next]_vars => TypeOK'
<1> SUFFICES ASSUME TypeOK, [Next]_vars PROVE TypeOK'
  OBVIOUS
<1> USE DEF vars, server, files, process, history
<1>1. CASE Start
  BY <1>1, DetectBackendType, HostsAssumption DEF Start, TypeOK, PcStates
<1>2. CASE StartBlind
  BY <1>2, NoBackendType, DisturbType DEF StartBlind, TypeOK, PcStates
<1>3. CASE List
  <2>1. pending' \in Seq(Nodes)
    BY <1>3 DEF List, TypeOK
  <2> QED BY <1>3, <2>1 DEF List, TypeOK, PcStates
<1>4. CASE LosePlace
  <2>1. pending' \in Seq(Nodes)
    BY <1>4 DEF LosePlace
  <2> QED BY <1>4, <2>1, DisturbType DEF LosePlace, TypeOK
<1>5. CASE Deliver
  <2>1. Head(pending) \in Nodes /\ Tail(pending) \in Seq(Nodes)
    BY <1>5, StreamHead DEF Deliver, TypeOK
  <2> QED BY <1>5, <2>1, ReconcileType DEF Deliver, TypeOK
<1>6. CASE ResyncTick
  BY <1>6 DEF ResyncTick, TypeOK, PcStates
<1>7. CASE FetchOk
  BY <1>7 DEF FetchOk, TypeOK, PcStates
<1>8. CASE FetchNone
  BY <1>8 DEF FetchNone, TypeOK, PcStates
<1>9. CASE FetchFails
  BY <1>9, DisturbType DEF FetchFails, TypeOK, PcStates
<1>10. CASE ResyncReconcile
  BY <1>10, ReconcileType DEF ResyncReconcile, TypeOK
<1>11. CASE PatchApplied
  <2>1. [node EXCEPT !.ann = DesiredAnnotations(report)] \in Nodes
    BY <1>11, DesiredType DEF PatchApplied, TypeOK, Nodes
  <2> QED BY <1>11, <2>1, NodeBecomesType DEF PatchApplied, TypeOK, PcStates
<1>12. CASE PatchNotFound
  BY <1>12 DEF PatchNotFound, TypeOK, PcStates
<1>13. CASE PatchFails
  BY <1>13, DesiredType, DisturbType DEF PatchFails, TypeOK, PcStates
<1>14. CASE EmitEvents
  BY <1>14 DEF EmitEvents, TypeOK, PcStates, EventsOf
<1>15. CASE EmitSomeEvents
  BY <1>15, DisturbType DEF EmitSomeEvents, TypeOK, PcStates, EventsOf
<1>16. CASE Shutdown
  <2>1. late' \subseteq Annotations
    BY <1>16, DesiredType DEF Shutdown, TypeOK
  <2> QED BY <1>16, <2>1, ProcessLostType, DisturbType DEF Shutdown, TypeOK
<1>17. CASE KilledApplying
  <2>1. epp' \in [PolicyIds -> Profiles] /\ gov' \in [PolicyIds -> Governors]
    <3> DEFINE profile == ParseProfile(IF pc = "fetched" THEN got.profile
                                       ELSE Head(pending).profile)
    <3>1. PICK done :
            /\ epp' = EppWrites(backend, profile, done, epp)
            /\ gov' = GovernorWrites(backend, profile, done, gov)
      BY <1>17 DEF KilledApplying
    <3>2. profile \in Profiles
      BY ParseType
    <3> HIDE DEF profile
    <3> QED BY <3>1, <3>2, WritesType DEF TypeOK
  <2> QED BY <1>17, <2>1, ProcessLostType, DisturbType DEF KilledApplying, TypeOK
<1>18. ASSUME NEW p \in ProfileLabels, NEW t \in TurboLabels, EditLabels(p, t)
       PROVE  TypeOK'
  <2>1. [node EXCEPT !.profile = p, !.turbo = t] \in Nodes
    BY <1>18 DEF EditLabels, TypeOK, Nodes
  <2> QED BY <1>18, <2>1, NodeBecomesType, DisturbType DEF EditLabels, TypeOK
<1>19. ASSUME NEW p \in ProfileLabels, NEW t \in TurboLabels, CreateNode(p, t)
       PROVE  TypeOK'
  <2>1. [profile |-> p, turbo |-> t, ann |-> NoAnnotations] \in Nodes
    BY DEF Nodes, NoAnnotations, Annotations
  <2> QED BY <1>19, <2>1, NodeBecomesType, DisturbType DEF CreateNode, TypeOK
<1>20. CASE StripAnnotations
  <2>1. [node EXCEPT !.ann = NoAnnotations] \in Nodes
    BY <1>20 DEF StripAnnotations, TypeOK, Nodes, NoAnnotations, Annotations
  <2> QED BY <1>20, <2>1, NodeBecomesType, DisturbType DEF StripAnnotations, TypeOK
<1>21. CASE DeleteNode
  BY <1>21, DisturbType DEF DeleteNode, TypeOK
<1>22. CASE Drift
  <2>1. epp' \in [PolicyIds -> Profiles]
    BY <1>22, DriftsAssumption DEF Drift, TypeOK
  <2>2. gov' \in [PolicyIds -> Governors]
    BY <1>22, HostsAssumption DEF Drift, TypeOK, IsHost, Policy
  <2>3. boost' \in [TurboFiles -> {"0", "1"}]
    BY <1>22 DEF Drift, TypeOK
  <2> QED BY <1>22, <2>1, <2>2, <2>3, DisturbType DEF Drift, TypeOK
<1>23. ASSUME NEW a \in late, LatePatch(a)
       PROVE  TypeOK'
  <2>1. [node EXCEPT !.ann = a] \in Nodes
    BY <1>23 DEF LatePatch, TypeOK, Nodes
  <2> QED BY <1>23, <2>1, NodeBecomesType DEF LatePatch, TypeOK
<1>24. ASSUME NEW h \in Hosts, KernelChange(h)
       PROVE  TypeOK'
  BY <1>24, DisturbType DEF KernelChange, TypeOK
<1>25. CASE UNCHANGED vars
  BY <1>25 DEF TypeOK
<1> QED
  BY <1>1, <1>2, <1>3, <1>4, <1>5, <1>6, <1>7, <1>8, <1>9, <1>10, <1>11, <1>12, <1>13,
     <1>14, <1>15, <1>16, <1>17, <1>18, <1>19, <1>20, <1>21, <1>22, <1>23, <1>24, <1>25
  DEF Next, Loop, Environment

(* Every state of the agent is well formed. *)
THEOREM TypeCorrect == Spec => []TypeOK
<1>1. Init => TypeOK
  BY TypeInit
<1>2. TypeOK /\ [Next]_vars => TypeOK'
  BY TypeNext
<1> QED BY <1>1, <1>2, PTL DEF Spec

-----------------------------------------------------------------------------
(* The inductive invariant. *)

(* needs_patch (status.rs:98) skips the patch only if nothing would change. *)
LEMMA NoPatchNeeded ==
  ASSUME NEW a \in Annotations, NEW r \in Report, ~ NeedsPatch(a, DesiredAnnotations(r))
  PROVE  a = DesiredAnnotations(r)
<1>1. DesiredAnnotations(r) \in Annotations
  BY DesiredType
<1>2. \A key \in {"profile", "turbo", "backend", "status"} : a[key] = DesiredAnnotations(r)[key]
  BY <1>1 DEF NeedsPatch, DesiredAnnotations
<1> QED BY <1>1, <1>2 DEF Annotations

(* What a snapshot's labels ask for is in force when reconcile_once has    *)
(* returned: epp.rs:63-79 and 100-131, governor.rs:83-97.                  *)
LEMMA ReconcileApplies ==
  ASSUME TypeOK, NEW n, Reconcile(n), UNCHANGED <<backend, host>>
  PROVE  AppliedInForce'
<1> DEFINE profile == ParseProfile(n.profile)
           done    == Reached(backend, profile, host)
           turbo   == ParseTurbo(n.turbo)
<1>1. /\ report'.profile = profile /\ report'.turbo = turbo
      /\ report'.profileError = (Blocking(backend, profile, host) # {})
      /\ turbo # Unmanaged =>
           report'.turboError = (TurboOutcome(backend.kind, host) = "error")
  BY DEF Reconcile, ReportOf
<1>2. done \subseteq DOMAIN backend.policies /\ DOMAIN backend.policies \subseteq PolicyIds
  BY DEF Reached, TypeOK, IsBackend
<1>3. ProfileInForce'
  <2>1. \A i \in done : (IF backend.kind \in EppKinds THEN epp'[i] ELSE gov'[i])
                         = Wanted(backend, i, profile)
    <3>1. backend.kind = "unsupported" => done = {}
      BY <1>2 DEF TypeOK, IsBackend
    <3>2. backend.kind \in EppKinds \cup {"governor_fallback", "unsupported"}
      BY DEF TypeOK, IsBackend, BackendKinds
    <3>3. /\ epp' = EppWrites(backend, profile, done, epp)
          /\ gov' = GovernorWrites(backend, profile, done, gov)
      BY DEF Reconcile
    <3> HIDE DEF done, profile
    <3> QED BY <1>2, <3>1, <3>2, <3>3 DEF EppWrites, GovernorWrites, EppKinds
  <2> QED BY <1>1, <2>1 DEF ProfileInForce, Knob
<1>4. ~ report'.profileError => done = DOMAIN backend.policies
  BY <1>1 DEF Reached
<1>5. TurboInForce'
  <2> SUFFICES ASSUME turbo \in TurboStates, ~ report'.turboError,
                      backend.kind \in {"intel_epp", "amd_epp"}
               PROVE  BoostAllowed(backend.kind, host, boost') = (turbo = "enabled")
    BY <1>1 DEF TurboInForce
  <2>1. turbo # Unmanaged
    BY DEF TurboStates, Unmanaged
  <2>2. TurboOutcome(backend.kind, host) = "ok"
    BY <1>1, <2>1 DEF TurboOutcome
  <2>3. boost' = [boost EXCEPT ![TurboFile(backend.kind, host.turboFiles)]
                               = TurboValue(backend.kind, turbo = "enabled")]
    BY <2>1, <2>2 DEF Reconcile, TurboWrites
  <2> QED BY <2>3 DEF BoostAllowed, TurboFile, TurboValue, TurboFiles, TypeOK
<1>6. OutcomeStands'
  <2>1. report' = ReportOf(backend, host, n)
    BY DEF Reconcile
  <2>2. ReportOf(backend, host, n).kind = backend.kind
    BY DEF ReportOf
  <2> QED BY <2>1, <2>2 DEF OutcomeStands, ReportOf
<1> QED BY <1>1, <1>3, <1>4, <1>5, <1>6 DEF AppliedInForce

(* A reconcile from a snapshot that is the Node itself brings report and   *)
(* annotations up to date, or is about to: reconcile.rs:117-143.           *)
LEMMA ReconcileFollows ==
  ASSUME TypeOK, Reconcile(node), node # Gone, UNCHANGED node
  PROVE  /\ observed' /\ Follows(report', node') /\ pc' \in {"patching", "publishing"}
         /\ pc' # "patching" => node'.ann = DesiredAnnotations(report')
<1>1. report' \in Report /\ observed'
  BY ReconcileType
<1>2. Follows(report', node')
  BY DEF Reconcile, ReportOf, Follows
<1>3. ASSUME pc' # "patching"
      PROVE  node'.ann = DesiredAnnotations(report')
  <2>1. ~ NeedsPatch(node.ann, DesiredAnnotations(report'))
    BY <1>3 DEF Reconcile
  <2>2. node.ann \in Annotations
    BY DEF TypeOK, Nodes
  <2> QED BY <1>1, <2>1, <2>2, NoPatchNeeded
<1> QED BY <1>1, <1>2, <1>3 DEF Reconcile

(* After a write of the Node the stream is either as it was, with the Node *)
(* as it was, or it ends with the Node and is not empty.                   *)
LEMMA NodeBecomesLast ==
  ASSUME TypeOK, NEW n \in Nodes, NodeBecomes(n), UNCHANGED listed
  PROVE  \/ node' = node /\ pending' = pending
         \/ ~ listed'
         \/ pending' # <<>> /\ pending'[Len(pending')] = node'
BY StreamType DEF NodeBecomes, TypeOK

LEMMA NodeWritten ==
  ASSUME IInv, NEW n \in Nodes, NodeBecomes(n),
         UNCHANGED <<host, files, pc, backend, listed, got, observed, report, history>>
  PROVE  (DownIsBlank /\ StreamEndsWithNode /\ ReportIsCurrent /\ AnnotationsWritten
           /\ AppliedInForce)'
<1> USE DEF files, history
<1>1. CASE node' = node /\ pending' = pending
  BY <1>1 DEF IInv, DownIsBlank, StreamEndsWithNode, ReportIsCurrent, AnnotationsWritten,
              Drained, AppliedInForce, ProfileInForce, TurboInForce, OutcomeStands, Knob
<1>2. CASE ~ listed' \/ (pending' # <<>> /\ pending'[Len(pending')] = node')
  BY <1>2 DEF IInv, DownIsBlank, StreamEndsWithNode, ReportIsCurrent, AnnotationsWritten,
              Drained, AppliedInForce, ProfileInForce, TurboInForce, OutcomeStands, Knob
<1> QED BY <1>1, <1>2, NodeBecomesLast DEF IInv

(* The process ends: what it knew of the Node and the files is gone.       *)
LEMMA ProcessLostInv ==
  ASSUME ProcessLost
  PROVE  (DownIsBlank /\ StreamEndsWithNode /\ ReportIsCurrent /\ AnnotationsWritten
           /\ AppliedInForce)'
BY DEF ProcessLost, DownIsBlank, StreamEndsWithNode, ReportIsCurrent, AnnotationsWritten,
       Drained, AppliedInForce

LEMMA InvInit == Init => IInv
BY TypeInit DEF Init, IInv, DownIsBlank, StreamEndsWithNode, ReportIsCurrent,
                AnnotationsWritten, Drained, AppliedInForce

LEMMA InvNext == IInv /\ [Next]_vars => IInv'
<1> SUFFICES ASSUME IInv, [Next]_vars
             PROVE  (DownIsBlank /\ StreamEndsWithNode /\ ReportIsCurrent
                      /\ AnnotationsWritten /\ AppliedInForce)'
  BY TypeNext DEF IInv
<1>0. TypeOK
  BY DEF IInv
<1> USE DEF vars, server, files, process, history
<1> DEFINE Parts == DownIsBlank /\ StreamEndsWithNode /\ ReportIsCurrent
                      /\ AnnotationsWritten /\ AppliedInForce
<1>1. CASE Start
  BY <1>1 DEF IInv, Start, DownIsBlank, StreamEndsWithNode, ReportIsCurrent,
              AnnotationsWritten, Drained, AppliedInForce
<1>2. CASE StartBlind
  BY <1>2 DEF IInv, StartBlind, DownIsBlank, StreamEndsWithNode, ReportIsCurrent,
              AnnotationsWritten, Drained, AppliedInForce
<1>3. CASE List
  BY <1>3 DEF IInv, List, DownIsBlank, StreamEndsWithNode, ReportIsCurrent,
              AnnotationsWritten, Drained, AppliedInForce, ProfileInForce, TurboInForce, OutcomeStands, Knob
<1>4. CASE LosePlace
  BY <1>4 DEF IInv, LosePlace, DownIsBlank, StreamEndsWithNode, ReportIsCurrent,
              AnnotationsWritten, Drained, AppliedInForce, ProfileInForce, TurboInForce, OutcomeStands, Knob
<1>5. CASE Deliver
  <2> USE <1>5 DEF Deliver
  <2>1. AppliedInForce'
    BY <1>0, ReconcileApplies
  <2>2. /\ pending' = <<>> => Head(pending) = pending[Len(pending)]
        /\ pending' # <<>> => pending'[Len(pending')] = pending[Len(pending)]
    BY <1>0, StreamHead DEF TypeOK
  <2>3. node # Gone => pending[Len(pending)] = node
    BY DEF IInv, StreamEndsWithNode
  <2>4. DownIsBlank' /\ StreamEndsWithNode'
    BY <2>2, <2>3 DEF DownIsBlank, StreamEndsWithNode, Reconcile
  <2>5. ReportIsCurrent' /\ AnnotationsWritten'
    BY <1>0, <2>2, <2>3, ReconcileFollows DEF ReportIsCurrent, AnnotationsWritten, Drained
  <2> QED BY <2>1, <2>4, <2>5
<1>6. CASE ResyncTick
  BY <1>6 DEF IInv, ResyncTick, DownIsBlank, StreamEndsWithNode, ReportIsCurrent,
              AnnotationsWritten, Drained, AppliedInForce, ProfileInForce, TurboInForce, OutcomeStands, Knob
<1>7. CASE FetchOk
  BY <1>7 DEF IInv, FetchOk, DownIsBlank, StreamEndsWithNode, ReportIsCurrent,
              AnnotationsWritten, Drained, AppliedInForce, ProfileInForce, TurboInForce, OutcomeStands, Knob
<1>8. CASE FetchNone
  BY <1>8 DEF IInv, FetchNone, DownIsBlank, StreamEndsWithNode, ReportIsCurrent,
              AnnotationsWritten, Drained, AppliedInForce, ProfileInForce, TurboInForce, OutcomeStands, Knob
<1>9. CASE FetchFails
  BY <1>9 DEF IInv, FetchFails, DownIsBlank, StreamEndsWithNode, ReportIsCurrent,
              AnnotationsWritten, Drained, AppliedInForce, ProfileInForce, TurboInForce, OutcomeStands, Knob
<1>10. CASE ResyncReconcile
  <2> USE <1>10 DEF ResyncReconcile
  <2>1. AppliedInForce'
    BY <1>0, ReconcileApplies
  <2>2. DownIsBlank' /\ StreamEndsWithNode'
    BY DEF IInv, DownIsBlank, StreamEndsWithNode, Reconcile
  <2>3. Drained' => got = node
    BY DEF IInv, ReportIsCurrent, Drained
  <2>4. ReportIsCurrent' /\ AnnotationsWritten'
    BY <1>0, <2>3, ReconcileFollows DEF ReportIsCurrent, AnnotationsWritten, Drained
  <2> QED BY <2>1, <2>2, <2>4
<1>11. CASE PatchApplied
  <2> USE <1>11 DEF PatchApplied
  <2> DEFINE patched == [node EXCEPT !.ann = DesiredAnnotations(report)]
  <2>1. patched \in Nodes /\ patched.ann = DesiredAnnotations(report)
    BY <1>0, DesiredType DEF TypeOK, Nodes
  <2>2. \/ node' = node /\ pending' = pending
        \/ ~ listed'
        \/ pending' # <<>> /\ pending'[Len(pending')] = node'
    BY <1>0, <2>1, NodeBecomesLast
  <2>3. node' = patched
    BY DEF NodeBecomes
  <2>4. DownIsBlank' /\ AppliedInForce'
    BY DEF IInv, DownIsBlank, AppliedInForce, ProfileInForce, TurboInForce, OutcomeStands, Knob
  <2>5. StreamEndsWithNode' /\ ReportIsCurrent'
    BY <2>2 DEF IInv, StreamEndsWithNode, ReportIsCurrent, Drained
  <2>6. AnnotationsWritten'
    BY <2>1, <2>3 DEF AnnotationsWritten
  <2> QED BY <2>4, <2>5, <2>6
<1>12. CASE PatchNotFound
  BY <1>12 DEF IInv, PatchNotFound, DownIsBlank, StreamEndsWithNode, ReportIsCurrent,
               AnnotationsWritten, Drained, AppliedInForce, ProfileInForce, TurboInForce, OutcomeStands, Knob
<1>13. CASE PatchFails
  BY <1>13 DEF IInv, PatchFails, DownIsBlank, StreamEndsWithNode, ReportIsCurrent,
               AnnotationsWritten, Drained, AppliedInForce, ProfileInForce, TurboInForce, OutcomeStands, Knob
<1>14. CASE EmitEvents
  BY <1>14 DEF IInv, EmitEvents, DownIsBlank, StreamEndsWithNode, ReportIsCurrent,
               AnnotationsWritten, Drained, AppliedInForce, ProfileInForce, TurboInForce, OutcomeStands, Knob
<1>15. CASE EmitSomeEvents
  BY <1>15 DEF IInv, EmitSomeEvents, DownIsBlank, StreamEndsWithNode, ReportIsCurrent,
               AnnotationsWritten, Drained, AppliedInForce, ProfileInForce, TurboInForce, OutcomeStands, Knob
<1>16. CASE Shutdown
  BY <1>16, ProcessLostInv DEF Shutdown
<1>17. CASE KilledApplying
  BY <1>17, ProcessLostInv DEF KilledApplying
<1>18. ASSUME NEW p \in ProfileLabels, NEW t \in TurboLabels, EditLabels(p, t)
       PROVE  Parts'
  <2>1. [node EXCEPT !.profile = p, !.turbo = t] \in Nodes
    BY <1>0, <1>18 DEF EditLabels, TypeOK, Nodes
  <2> QED BY <1>18, <2>1, NodeWritten DEF EditLabels
<1>19. ASSUME NEW p \in ProfileLabels, NEW t \in TurboLabels, CreateNode(p, t)
       PROVE  Parts'
  <2>1. [profile |-> p, turbo |-> t, ann |-> NoAnnotations] \in Nodes
    BY DEF Nodes, NoAnnotations, Annotations
  <2> QED BY <1>19, <2>1, NodeWritten DEF CreateNode
<1>20. CASE StripAnnotations
  <2>1. [node EXCEPT !.ann = NoAnnotations] \in Nodes
    BY <1>0, <1>20 DEF StripAnnotations, TypeOK, Nodes, NoAnnotations, Annotations
  <2> QED BY <1>20, <2>1, NodeWritten DEF StripAnnotations
<1>21. CASE DeleteNode
  BY <1>21 DEF IInv, DeleteNode, DownIsBlank, StreamEndsWithNode, ReportIsCurrent,
               AnnotationsWritten, Drained, AppliedInForce, ProfileInForce, TurboInForce, OutcomeStands, Knob
<1>22. CASE Drift
  BY <1>22 DEF IInv, Drift, DownIsBlank, StreamEndsWithNode, ReportIsCurrent,
               AnnotationsWritten, Drained, AppliedInForce
<1>23. ASSUME NEW a \in late, LatePatch(a)
       PROVE  Parts'
  <2>1. [node EXCEPT !.ann = a] \in Nodes
    BY <1>0, <1>23 DEF LatePatch, TypeOK, Nodes
  <2> QED BY <1>23, <2>1, NodeWritten DEF LatePatch
<1>24. ASSUME NEW h \in Hosts, KernelChange(h)
       PROVE  Parts'
  BY <1>24 DEF IInv, KernelChange, DownIsBlank, StreamEndsWithNode, ReportIsCurrent,
               AnnotationsWritten, Drained, AppliedInForce
<1>25. CASE UNCHANGED vars
  BY <1>25 DEF IInv, DownIsBlank, StreamEndsWithNode, ReportIsCurrent,
               AnnotationsWritten, Drained, AppliedInForce, ProfileInForce, TurboInForce, OutcomeStands, Knob
<1> QED
  BY <1>1, <1>2, <1>3, <1>4, <1>5, <1>6, <1>7, <1>8, <1>9, <1>10, <1>11, <1>12, <1>13,
     <1>14, <1>15, <1>16, <1>17, <1>18, <1>19, <1>20, <1>21, <1>22, <1>23, <1>24, <1>25
  DEF Next, Loop, Environment

(* The stream, the answer of a resync, the report, the annotations and the *)
(* files are tied to the Node as IInv says, in every state.                *)
THEOREM Inductive == Spec => []IInv
<1>1. Init => IInv
  BY InvInit
<1>2. IInv /\ [Next]_vars => IInv'
  BY InvNext
<1> QED BY <1>1, <1>2, PTL DEF Spec

(* Once the watch stream is drained the files are as the labels on the     *)
(* Node ask, whatever snapshots overtook each other before.                *)
THEOREM HardwareFollowsLabelsAlways == Spec => []HardwareFollowsLabels
<1>1. IInv => HardwareFollowsLabels
  BY DEF IInv, ReportIsCurrent, AppliedInForce, Drained, Quiet, HardwareFollowsLabels
<1> QED BY <1>1, Inductive, PTL

(* Then, too, the annotations are those of the last report, unless the     *)
(* last patch that was due failed.                                         *)
THEOREM AnnotationsFollowReportAlways == Spec => []AnnotationsFollowReport
<1>1. IInv => AnnotationsFollowReport
  BY DEF IInv, ReportIsCurrent, AnnotationsWritten, Drained, Quiet, AnnotationsFollowReport
<1> QED BY <1>1, Inductive, PTL

-----------------------------------------------------------------------------
(* An agent that has caught up rests. *)

(* Writing the values in force changes no policy's file: the loops of      *)
(* epp.rs:63-79 and governor.rs:83-97 are idempotent.                      *)
LEMMA WritesAreIdempotent ==
  ASSUME TypeOK, ProfileInForce
  PROVE  LET done == Reached(backend, report.profile, host) IN
         /\ EppWrites(backend, report.profile, done, epp) = epp
         /\ GovernorWrites(backend, report.profile, done, gov) = gov
<1> DEFINE done == Reached(backend, report.profile, host)
<1>1. epp \in [PolicyIds -> Profiles] /\ gov \in [PolicyIds -> Governors]
  BY DEF TypeOK
<1>2. \A i \in done : Knob(i) = Wanted(backend, i, report.profile)
  BY DEF ProfileInForce
<1>3. "governor_fallback" \notin EppKinds
  BY DEF EppKinds
<1> HIDE DEF done
<1>4. \A i \in PolicyIds :
        (IF i \in done /\ backend.kind \in EppKinds
         THEN Wanted(backend, i, report.profile) ELSE epp[i]) = epp[i]
  BY <1>2 DEF Knob
<1>5. \A i \in PolicyIds :
        (IF i \in done /\ backend.kind = "governor_fallback"
         THEN Wanted(backend, i, report.profile) ELSE gov[i]) = gov[i]
  BY <1>2, <1>3 DEF Knob
<1>6. EppWrites(backend, report.profile, done, epp) = epp
  BY <1>1, <1>4 DEF EppWrites
<1>7. GovernorWrites(backend, report.profile, done, gov) = gov
  BY <1>1, <1>5 DEF GovernorWrites
<1> QED BY <1>6, <1>7 DEF done

(* Nor does setting turbo as it is (epp.rs:100-131). *)
LEMMA TurboIsIdempotent ==
  ASSUME TypeOK, TurboInForce, OutcomeStands, report.turbo # Unmanaged
  PROVE  TurboWrites(backend.kind, host, report.turbo = "enabled", boost) = boost
<1>1. CASE ~ (backend.kind \in {"intel_epp", "amd_epp"} /\ TurboOutcome(backend.kind, host) = "ok")
  BY <1>1 DEF TurboWrites
<1>2. CASE backend.kind \in {"intel_epp", "amd_epp"} /\ TurboOutcome(backend.kind, host) = "ok"
  <2>1. report.turbo \in TurboStates /\ ~ report.turboError
    BY <1>2 DEF OutcomeStands, TypeOK, Report
  <2>2. BoostAllowed(backend.kind, host, boost) = (report.turbo = "enabled")
    BY <1>2, <2>1 DEF TurboInForce
  <2>3. boost \in [TurboFiles -> {"0", "1"}]
    BY DEF TypeOK
  <2> DEFINE f == TurboFile(backend.kind, host.turboFiles)
  <2>4. f \in TurboFiles
    BY DEF TurboFile, TurboFiles
  <2>5. boost[f] = TurboValue(backend.kind, report.turbo = "enabled")
    <3>1. CASE backend.kind = "intel_epp"
      <4>1. (boost["no_turbo"] = "0") = (report.turbo = "enabled") /\ f = "no_turbo"
        BY <2>2, <3>1 DEF BoostAllowed, TurboFile
      <4>2. boost["no_turbo"] \in {"0", "1"}
        BY <2>3 DEF TurboFiles
      <4> QED BY <3>1, <4>1, <4>2 DEF TurboValue
    <3>2. CASE backend.kind # "intel_epp"
      <4>1. (boost[f] = "1") = (report.turbo = "enabled")
        BY <2>2, <3>2 DEF BoostAllowed, TurboFile
      <4>2. boost[f] \in {"0", "1"}
        BY <2>3, <2>4
      <4> QED BY <3>2, <4>1, <4>2 DEF TurboValue
    <3> QED BY <3>1, <3>2
  <2> HIDE DEF f
  <2>6. [boost EXCEPT ![f] = TurboValue(backend.kind, report.turbo = "enabled")] = boost
    BY <2>3, <2>4, <2>5
  <2> QED BY <1>2, <2>6 DEF TurboWrites, f
<1> QED BY <1>1, <1>2

(* The same labels on the same host give the same report. *)
LEMMA ReportIsIdempotent ==
  ASSUME TypeOK, OutcomeStands, NEW n, Follows(report, n)
  PROVE  ReportOf(backend, host, n) = report
<1>1. report \in Report /\ ReportOf(backend, host, n) \in Report
  BY ReportType DEF TypeOK
<1>2. /\ ReportOf(backend, host, n).profile = report.profile
      /\ ReportOf(backend, host, n).profileInvalid = report.profileInvalid
      /\ ReportOf(backend, host, n).profileError = report.profileError
      /\ ReportOf(backend, host, n).turbo = report.turbo
      /\ ReportOf(backend, host, n).turboInvalid = report.turboInvalid
      /\ ReportOf(backend, host, n).turboError = report.turboError
      /\ ReportOf(backend, host, n).turboUnsupported = report.turboUnsupported
      /\ ReportOf(backend, host, n).kind = report.kind
  BY DEF ReportOf, OutcomeStands, Follows
<1> QED BY <1>1, <1>2 DEF Report

(* So a resync at rest leaves everything as it is (reconcile.rs:117-143). *)
LEMMA ReconcileIsIdempotent ==
  ASSUME IInv, AtRest, Reconcile(node)
  PROVE  UNCHANGED <<files, report>> /\ pc' = "publishing" /\ ~ missed' /\ ~ drifted'
<1>1. /\ TypeOK /\ Follows(report, node) /\ node.ann = DesiredAnnotations(report)
      /\ ProfileInForce /\ TurboInForce /\ OutcomeStands
  BY DEF IInv, AtRest, Drained, ReportIsCurrent, AnnotationsWritten, AppliedInForce
<1>2. report' = report
  BY <1>1, ReportIsIdempotent DEF Reconcile
<1>3. report.profile = ParseProfile(node.profile) /\ report.turbo = ParseTurbo(node.turbo)
  BY <1>1 DEF Follows
<1>4. epp' = epp /\ gov' = gov
  BY <1>1, <1>3, WritesAreIdempotent DEF Reconcile
<1>5. boost' = boost
  BY <1>1, <1>3, TurboIsIdempotent DEF Reconcile
<1>6. ~ NeedsPatch(node.ann, DesiredAnnotations(report'))
  BY <1>1, <1>2 DEF NeedsPatch
<1> QED BY <1>2, <1>4, <1>5, <1>6 DEF Reconcile, files

(* An agent that has caught up with its Node writes nothing more, neither  *)
(* a file nor the Node, and never sets off its own watch, however often it *)
(* resyncs: the safety half of what status.rs:91-97 says needs_patch is for. *)
THEOREM RestIsKeptAlways == Spec => RestIsKept
<1>1. IInv /\ [Next]_vars =>
        [AtRest /\ UNCHANGED <<budget, late>> => AtRest' /\ UNCHANGED <<node, files, report>>]_vars
  <2> SUFFICES ASSUME IInv, Next, AtRest, UNCHANGED <<budget, late>>
               PROVE  AtRest' /\ UNCHANGED <<node, files, report>>
    OBVIOUS
  <2> USE DEF server, files, process, history
  <2>1. budget \in Nat
    BY BudgetAssumption DEF IInv, TypeOK
  <2>2. ~ Disturb
    BY <2>1 DEF Disturb
  <2>3. listed /\ pending = <<>> /\ pc # "patching" /\ pc # "down" /\ node # Gone
    BY DEF AtRest, IInv, DownIsBlank
  <2>4. CASE ResyncTick
    BY <2>4 DEF ResyncTick, AtRest
  <2>5. CASE FetchOk
    BY <2>5 DEF FetchOk, AtRest
  <2>6. CASE ResyncReconcile
    <3>1. got = node
      BY <2>3, <2>6 DEF ResyncReconcile, IInv, ReportIsCurrent, Drained, AtRest
    <3> QED BY <2>6, <3>1, ReconcileIsIdempotent DEF ResyncReconcile, AtRest
  <2>7. CASE EmitEvents
    BY <2>7 DEF EmitEvents, AtRest
  <2>8. ASSUME NEW a \in late, LatePatch(a) PROVE FALSE
    BY <2>8 DEF LatePatch
  <2> QED
    BY <2>2, <2>3, <2>4, <2>5, <2>6, <2>7, <2>8
    DEF Next, Loop, Environment, Start, List, Deliver, FetchNone, FetchFails, PatchApplied,
        PatchNotFound, PatchFails, EmitSomeEvents, StartBlind, LosePlace, Shutdown, KilledApplying,
        EditLabels, CreateNode, StripAnnotations, DeleteNode, Drift, KernelChange
<1> QED BY <1>1, Inductive, PTL DEF Spec, RestIsKept
=============================================================================
