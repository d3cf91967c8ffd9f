---------------------------- MODULE BackendProofs ----------------------------
(***************************************************************************)
(* Proofs about module Backend: for any number of callers, policies and    *)
(* forms of the host, a call nobody disturbs has the effect module Hal     *)
(* gives for the whole call.                                               *)
(***************************************************************************)
EXTENDS Backend, HalProofs

-----------------------------------------------------------------------------
(* What the files hold before the loop. *)

(* A loop that visits no policy writes nothing. *)
LEMMA WritesNothing ==
  ASSUME NEW b, NEW profile, NEW e \in [PolicyIds -> Profiles],
         NEW g \in [PolicyIds -> Governors]
  PROVE  /\ EppWrites(b, profile, {}, e) = e
         /\ GovernorWrites(b, profile, {}, g) = g
BY DEF EppWrites, GovernorWrites

-----------------------------------------------------------------------------
(* Types. *)

LEMMA NoCallType == NoCall \in Calls
BY DEF NoCall, Calls, TurboFiles

(* The loops write what the files can hold. *)
LEMMA WritePolicyType ==
  ASSUME TypeOK, TodoInBounds, NEW c \in Callers, WritePolicy(c)
  PROVE  epp' \in [PolicyIds -> Profiles] /\ gov' \in [PolicyIds -> Governors]
<1>1. call[c].profile \in Profiles
  BY DEF TypeOK, Calls, TodoInBounds, Targets, WritePolicy, Applying
<1>2. IsBackend(backend[c]) /\ epp \in [PolicyIds -> Profiles] /\ gov \in [PolicyIds -> Governors]
  BY DEF TypeOK, Files
<1> QED BY <1>1, <1>2, WritesType DEF WritePolicy

LEMMA BeginType ==
  ASSUME TypeOK, NEW c \in Callers, NEW b, IsBackend(b), NEW k \in Calls, Begin(c, b, k),
         budget' \in 0 .. MaxDisturbances
  PROVE  TypeOK'
<1>1. DOMAIN b.policies \subseteq PolicyIds
  BY DEF IsBackend
<1>2. [k EXCEPT !.todo = IF k.profile = Absent THEN {} ELSE DOMAIN b.policies] \in Calls
  BY <1>1 DEF Calls
<1>3. call' \in [Callers -> Calls]
  BY <1>2 DEF TypeOK, Begin
<1>4. pc' \in [Callers -> PcStates] /\ alone' \in [Callers -> BOOLEAN]
  BY DEF TypeOK, Begin, PcStates
<1>5. backend' = [d \in Callers |-> backend'[d]] /\ \A d \in Callers : IsBackend(backend'[d])
  BY DEF TypeOK, Begin
<1>6. before' \in [Callers -> Files]
  BY DEF TypeOK, Begin
<1>7. host' \in Hosts /\ [epp |-> epp', gov |-> gov', boost |-> boost'] \in Files
  BY DEF TypeOK, Begin, files
<1> QED BY <1>3, <1>4, <1>5, <1>6, <1>7 DEF TypeOK

LEMMA BodyType ==
  ASSUME TypeOK, TodoInBounds, NEW c \in Callers, Body(c)
  PROVE  TypeOK'
<1>1. CASE WritePolicy(c)
  <2>1. call' \in [Callers -> Calls]
    BY <1>1 DEF TypeOK, WritePolicy, Calls
  <2>2. alone' \in [Callers -> BOOLEAN]
    BY <1>1 DEF TypeOK, WritePolicy, OthersNotAlone
  <2>3. [epp |-> epp', gov |-> gov', boost |-> boost'] \in Files
    BY <1>1, WritePolicyType DEF TypeOK, WritePolicy, Files
  <2> QED BY <1>1, <2>1, <2>2, <2>3 DEF TypeOK, WritePolicy
<1>2. CASE PolicyFails(c)
  <2>1. [call[c] EXCEPT !.todo = {}, !.profileError = TRUE] \in Calls
    BY DEF TypeOK, Calls
  <2>2. call' \in [Callers -> Calls]
    BY <1>2, <2>1 DEF TypeOK, PolicyFails
  <2> QED BY <1>2, <2>2 DEF TypeOK, PolicyFails, files
<1>3. CASE ReturnWithoutTurbo(c)
  <2> DEFINE outcome == IF call[c].turbo = Unmanaged THEN "ok"
                        ELSE TurboOutcome(backend[c].kind, host)
  <2>1. outcome \in {"ok", "unsupported", "error"}
    BY DEF TurboOutcome
  <2>2. call' \in [Callers -> Calls]
    <3>1. call' = [call EXCEPT ![c].turboOutcome = outcome]
      BY <1>3 DEF ReturnWithoutTurbo
    <3> HIDE DEF outcome
    <3>2. [call[c] EXCEPT !.turboOutcome = outcome] \in Calls
      BY <2>1 DEF TypeOK, Calls
    <3> QED BY <3>1, <3>2 DEF TypeOK
  <2>3. pc' \in [Callers -> PcStates]
    BY <1>3 DEF TypeOK, ReturnWithoutTurbo, PcStates
  <2> QED BY <1>3, <2>2, <2>3 DEF TypeOK, ReturnWithoutTurbo, files
<1>4. CASE PickTurboFile(c)
  <2>1. TurboFile(backend[c].kind, host.turboFiles) \in TurboFiles
    BY DEF TurboFile, TurboFiles
  <2>2. call' \in [Callers -> Calls]
    <3> DEFINE path == TurboFile(backend[c].kind, host.turboFiles)
    <3>1. call' = [call EXCEPT ![c].path = path]
      BY <1>4 DEF PickTurboFile
    <3> HIDE DEF path
    <3>2. [call[c] EXCEPT !.path = path] \in Calls
      BY <2>1 DEF TypeOK, Calls, path
    <3> QED BY <3>1, <3>2 DEF TypeOK
  <2>3. pc' \in [Callers -> PcStates]
    BY <1>4 DEF TypeOK, PickTurboFile, PcStates
  <2> QED BY <1>4, <2>2, <2>3 DEF TypeOK, PickTurboFile, files
<1>5. CASE WriteTurbo(c)
  <2>1. TurboValue(backend[c].kind, call[c].turbo = "enabled") \in {"0", "1"}
    BY DEF TurboValue
  <2>2. [epp |-> epp', gov |-> gov', boost |-> boost'] \in Files
    BY <1>5, <2>1 DEF TypeOK, WriteTurbo, Files
  <2>3. pc' \in [Callers -> PcStates]
    BY <1>5 DEF TypeOK, WriteTurbo, PcStates
  <2>4. alone' \in [Callers -> BOOLEAN]
    BY <1>5 DEF TypeOK, WriteTurbo, OthersNotAlone
  <2> QED BY <1>5, <2>2, <2>3, <2>4 DEF TypeOK, WriteTurbo
<1>6. CASE TurboFails(c)
  <2>1. call' \in [Callers -> Calls]
    <3>1. call' = [call EXCEPT ![c].turboOutcome = "error"]
      BY <1>6 DEF TurboFails
    <3>2. [call[c] EXCEPT !.turboOutcome = "error"] \in Calls
      BY DEF TypeOK, Calls
    <3> QED BY <3>1, <3>2 DEF TypeOK
  <2>2. pc' \in [Callers -> PcStates]
    BY <1>6 DEF TypeOK, TurboFails, PcStates
  <2> QED BY <1>6, <2>1, <2>2 DEF TypeOK, TurboFails, files
<1> QED BY <1>1, <1>2, <1>3, <1>4, <1>5, <1>6 DEF Body

(* Every call begins as one the loop has not entered. *)
LEMMA CallBegins ==
  ASSUME NEW raw
  PROVE  /\ [NoCall EXCEPT !.profile = ParseProfile(raw.profile),
                           !.turbo = ParseTurbo(raw.turbo)] \in Calls
         /\ [NoCall EXCEPT !.profile = IF raw.profile \in Profiles THEN raw.profile ELSE Absent,
                           !.turbo = ParseTurbo(raw.turbo),
                           !.badArgs = InvalidProfile(raw.profile) \/ InvalidTurbo(raw.turbo)]
              \in Calls
BY NoCallType, ParseType DEF Calls, NoCall

LEMMA StepType ==
  ASSUME TypeOK, TodoInBounds, Next
  PROVE  TypeOK'
<1>1. ASSUME NEW c \in Callers, StartAgent(c)
      PROVE  TypeOK'
  <2>1. IsBackend(DetectBackend(host))
    BY DetectBackendType, HostsAssumption DEF TypeOK
  <2>2. pc' \in [Callers -> PcStates]
    BY <1>1 DEF TypeOK, StartAgent, PcStates
  <2>3. backend' = [d \in Callers |-> backend'[d]] /\ \A d \in Callers : IsBackend(backend'[d])
    BY <1>1, <2>1 DEF TypeOK, StartAgent
  <2> QED BY <1>1, <2>2, <2>3 DEF TypeOK, StartAgent, files
<1>2. ASSUME NEW c \in Callers, NEW raw, Reconciles(c, raw)
      PROVE  TypeOK'
  <2>1. IsBackend(backend[c]) /\ budget' \in 0 .. MaxDisturbances
    BY <1>2 DEF TypeOK, Reconciles
  <2> QED BY <1>2, <2>1, CallBegins, BeginType DEF Reconciles
<1>3. ASSUME NEW c \in Callers, NEW raw, Invoked(c, raw)
      PROVE  TypeOK'
  <2>1. IsBackend(DetectBackend(host))
    BY DetectBackendType, HostsAssumption DEF TypeOK
  <2>2. budget' \in 0 .. MaxDisturbances
    BY <1>3, BudgetAssumption DEF TypeOK, Invoked, Disturb
  <2> QED BY <1>3, <2>1, <2>2, CallBegins, BeginType DEF Invoked
<1>4. ASSUME NEW c \in Callers, Killed(c)
      PROVE  TypeOK'
  <2>1. pc' \in [Callers -> PcStates]
    BY <1>4 DEF TypeOK, Killed, PcStates
  <2>2. backend' = [d \in Callers |-> backend'[d]] /\ \A d \in Callers : IsBackend(backend'[d])
    BY <1>4, NoBackendType DEF TypeOK, Killed
  <2>3. call' \in [Callers -> Calls]
    BY <1>4, NoCallType DEF TypeOK, Killed
  <2>4. budget' \in 0 .. MaxDisturbances
    BY <1>4, BudgetAssumption DEF TypeOK, Killed, Disturb
  <2> QED BY <1>4, <2>1, <2>2, <2>3, <2>4 DEF TypeOK, Killed, files
<1>5. ASSUME NEW h \in Hosts, KernelChange(h)
      PROVE  TypeOK'
  <2>1. budget' \in 0 .. MaxDisturbances
    BY <1>5, BudgetAssumption DEF TypeOK, KernelChange, Disturb
  <2> QED BY <1>5, <2>1 DEF TypeOK, KernelChange, files
<1> QED BY <1>1, <1>2, <1>3, <1>4, <1>5, BodyType DEF Next, AgentStep, Callers

LEMMA InitType == Init => TypeOK
<1> SUFFICES ASSUME Init PROVE TypeOK
  OBVIOUS
<1>1. [epp |-> epp, gov |-> gov, boost |-> boost] \in Files
  BY DEF Init, Files, Profiles, Governors, TurboFiles
<1>2. pc \in [Callers -> PcStates] /\ alone \in [Callers -> BOOLEAN]
  BY DEF Init, PcStates
<1>3. call \in [Callers -> Calls] /\ before \in [Callers -> Files]
  BY <1>1, NoCallType DEF Init
<1>4. backend = [c \in Callers |-> backend[c]] /\ \A c \in Callers : IsBackend(backend[c])
  BY NoBackendType DEF Init
<1>5. budget \in 0 .. MaxDisturbances
  BY BudgetAssumption DEF Init
<1> QED BY <1>1, <1>2, <1>3, <1>4, <1>5 DEF Init, TypeOK

-----------------------------------------------------------------------------
(* The invariant. *)

(* A caller whom a step passes by is where it was. *)
LEMMA Frame ==
  ASSUME NEW d \in Callers, UNCHANGED <<host, files>>, pc'[d] = pc[d],
         backend'[d] = backend[d], call'[d] = call[d], alone'[d] = alone[d],
         before'[d] = before[d], Undisturbed(d) => CallSoFar(d)
  PROVE  Undisturbed(d)' => CallSoFar(d)'
<1>1. Undisturbed(d)' = Undisturbed(d)
  BY DEF Undisturbed
<1>2. CallSoFar(d)' = CallSoFar(d)
  <2>1. ProfileAtomic(d)' = ProfileAtomic(d)
    BY DEF ProfileAtomic, files
  <2>2. TurboAtomic(d)' = TurboAtomic(d)
    BY DEF TurboAtomic, files
  <2>3. LoopSoFar(d)' = LoopSoFar(d)
    BY DEF LoopSoFar, Targets, files
  <2> QED BY <2>1, <2>2, <2>3 DEF CallSoFar, DrivesTurbo, files
<1> QED BY <1>1, <1>2

(* When the loop stops at a policy, those it visited are those reached. *)
LEMMA VisitedIsReached ==
  ASSUME NEW b, IsBackend(b), NEW profile, NEW h, NEW todo, NEW visited,
         todo # {}, todo \subseteq DOMAIN b.policies, visited = DOMAIN b.policies \ todo,
         \A i \in visited, j \in todo : i < j,
         visited \cap Blocking(b, profile, h) = {},
         First(todo) \in Blocking(b, profile, h)
  PROVE  visited = Reached(b, profile, h)
<1>1. DOMAIN b.policies \subseteq PolicyIds /\ PolicyIds \subseteq Nat
  BY PolicyIdsAssumption DEF IsBackend
<1>2. First(todo) \in todo /\ \A j \in todo : First(todo) <= j
  BY <1>1, FirstIsLeast
<1>3. Blocking(b, profile, h) \subseteq todo
  BY DEF Blocking
<1>4. ASSUME NEW i \in visited
      PROVE  i \in Reached(b, profile, h)
  BY <1>3 DEF Reached
<1>5. ASSUME NEW i \in Reached(b, profile, h)
      PROVE  i \in visited
  <2>1. i \in DOMAIN b.policies /\ i < First(todo)
    BY DEF Reached
  <2>2. i \in Nat /\ First(todo) \in Nat
    BY <1>1, <1>2, <2>1
  <2>3. ~ (First(todo) <= i)
    BY <2>1, <2>2
  <2> QED BY <1>2, <2>1, <2>3
<1> QED BY <1>4, <1>5

LEMMA WritePolicyStep ==
  ASSUME IInv, NEW c \in Callers, WritePolicy(c)
  PROVE  UndisturbedSoFar'
<1> SUFFICES ASSUME NEW d \in Callers, Undisturbed(d)' PROVE CallSoFar(d)'
  BY DEF UndisturbedSoFar
<1> DEFINE i == NextPolicy(c)
           visited == Targets(c) \ call[c].todo
<1>1. d = c /\ alone[c]
  BY DEF Undisturbed, WritePolicy, OthersNotAlone
<1>2. LoopSoFar(c) /\ boost = before[c].boost /\ call[c].turboOutcome = "ok"
      /\ ~ call[c].profileError
  BY <1>1 DEF IInv, UndisturbedSoFar, CallSoFar, Undisturbed, WritePolicy, Applying
<1>3. call[c].todo # {} /\ call[c].todo \subseteq Targets(c) /\ pc[c] = "applying"
  BY DEF IInv, TodoInBounds, WritePolicy, Applying
<1>4. Targets(c) \subseteq Nat /\ call[c].todo \subseteq PolicyIds
  BY <1>3, PolicyIdsAssumption DEF IInv, TypeOK, IsBackend, Targets
<1>5. i \in call[c].todo /\ \A j \in call[c].todo : i <= j
  BY <1>3, <1>4, FirstIsLeast DEF NextPolicy
<1>6. call' = [call EXCEPT ![c] = [call[c] EXCEPT !.todo = call[c].todo \ {i}]]
  BY DEF WritePolicy
<1>7. call'[c] = [call[c] EXCEPT !.todo = call[c].todo \ {i}]
  BY <1>6 DEF IInv, TypeOK
<1>8. /\ call'[c].todo = call[c].todo \ {i}
      /\ call'[c].profile = call[c].profile /\ call'[c].turbo = call[c].turbo
      /\ call'[c].profileError = call[c].profileError
      /\ call'[c].turboOutcome = call[c].turboOutcome
  BY <1>7 DEF IInv, TypeOK, Calls
<1>9. Targets(c)' = Targets(c)
  BY <1>8 DEF Targets, WritePolicy
<1>10. Targets(c) \ (call[c].todo \ {i}) = visited \cup {i}
  BY <1>3, <1>5
<1>11. LoopSoFar(c)'
  <2>1. \A a \in visited \cup {i}, j \in call[c].todo \ {i} : a < j
    BY <1>2, <1>3, <1>4, <1>5 DEF LoopSoFar
  <2>2. i \notin Blocking(backend[c], call[c].profile, host)
    BY DEF WritePolicy, Blocked
  <2>3. call[c].profile # Absent =>
          (visited \cup {i}) \cap Blocking(backend[c], call[c].profile, host) = {}
    BY <1>2, <2>2 DEF LoopSoFar
  <2>4. epp' = EppWrites(backend[c], call[c].profile, visited \cup {i}, before[c].epp)
    <3>1. epp = EppWrites(backend[c], call[c].profile, visited, before[c].epp)
      BY <1>2 DEF LoopSoFar
    <3>2. epp' = EppWrites(backend[c], call[c].profile, {i}, epp)
      BY DEF WritePolicy
    <3> HIDE DEF i, visited
    <3> QED BY <3>1, <3>2 DEF EppWrites
  <2>5. gov' = GovernorWrites(backend[c], call[c].profile, visited \cup {i}, before[c].gov)
    <3>1. gov = GovernorWrites(backend[c], call[c].profile, visited, before[c].gov)
      BY <1>2 DEF LoopSoFar
    <3>2. gov' = GovernorWrites(backend[c], call[c].profile, {i}, gov)
      BY DEF WritePolicy
    <3> HIDE DEF i, visited
    <3> QED BY <3>1, <3>2 DEF GovernorWrites
  <2> HIDE DEF i, visited
  <2> QED BY <1>8, <1>9, <1>10, <2>1, <2>3, <2>4, <2>5 DEF LoopSoFar, WritePolicy
<1> QED BY <1>1, <1>2, <1>3, <1>8, <1>11 DEF CallSoFar, WritePolicy

LEMMA PolicyFailsStep ==
  ASSUME IInv, NEW c \in Callers, PolicyFails(c)
  PROVE  UndisturbedSoFar'
<1> SUFFICES ASSUME NEW d \in Callers, Undisturbed(d)' PROVE CallSoFar(d)'
  BY DEF UndisturbedSoFar
<1>1. CASE d # c
  BY <1>1, Frame DEF IInv, UndisturbedSoFar, PolicyFails
<1>2. CASE d = c
  <2> DEFINE visited == Targets(c) \ call[c].todo
  <2>1. pc[c] = "applying" /\ Undisturbed(c) /\ call[c].todo # {}
    BY <1>2 DEF Undisturbed, PolicyFails, Applying
  <2>2. LoopSoFar(c) /\ boost = before[c].boost /\ call[c].turboOutcome = "ok"
    BY <2>1 DEF IInv, UndisturbedSoFar, CallSoFar
  <2>3. call[c].profile # Absent /\ Targets(c) = DOMAIN backend[c].policies
        /\ call[c].todo \subseteq Targets(c) /\ IsBackend(backend[c])
    BY <2>1 DEF IInv, TodoInBounds, Targets, TypeOK
  <2>4. First(call[c].todo) \in Blocking(backend[c], call[c].profile, host)
    BY DEF PolicyFails, Blocked, NextPolicy
  <2>5. visited = Reached(backend[c], call[c].profile, host)
    BY <2>1, <2>2, <2>3, <2>4, VisitedIsReached DEF LoopSoFar
  <2>6. call'[c] = [call[c] EXCEPT !.todo = {}, !.profileError = TRUE]
    BY DEF PolicyFails, IInv, TypeOK
  <2>7. /\ call'[c].todo = {} /\ call'[c].profileError = TRUE
        /\ call'[c].profile = call[c].profile
        /\ call'[c].turboOutcome = call[c].turboOutcome
    BY <2>6 DEF IInv, TypeOK, Calls
  <2>8. ProfileAtomic(c)'
    <3>1. epp = EppWrites(backend[c], call[c].profile, visited, before[c].epp)
          /\ gov = GovernorWrites(backend[c], call[c].profile, visited, before[c].gov)
      BY <2>2 DEF LoopSoFar
    <3> HIDE DEF visited
    <3> QED BY <2>3, <2>4, <2>5, <2>7, <3>1 DEF ProfileAtomic, PolicyFails, files
  <2> QED BY <1>2, <2>1, <2>2, <2>3, <2>7, <2>8 DEF CallSoFar, PolicyFails, files
<1> QED BY <1>1, <1>2

(* The other steps of a call leave what the loop has done alone. *)
LEMMA LoopFrame ==
  ASSUME NEW c \in Callers, UNCHANGED <<host, epp, gov, backend, before>>,
         call'[c].todo = call[c].todo, call'[c].profile = call[c].profile,
         call'[c].profileError = call[c].profileError
  PROVE  /\ LoopSoFar(c)' = LoopSoFar(c)
         /\ ProfileAtomic(c)' = ProfileAtomic(c)
<1>1. Targets(c)' = Targets(c)
  BY DEF Targets
<1>2. LoopSoFar(c)' = LoopSoFar(c)
  BY <1>1 DEF LoopSoFar
<1>3. ProfileAtomic(c)' = ProfileAtomic(c)
  BY DEF ProfileAtomic
<1> QED BY <1>2, <1>3

LEMMA ReturnWithoutTurboStep ==
  ASSUME IInv, NEW c \in Callers, ReturnWithoutTurbo(c)
  PROVE  UndisturbedSoFar'
<1> SUFFICES ASSUME NEW d \in Callers, Undisturbed(d)' PROVE CallSoFar(d)'
  BY DEF UndisturbedSoFar
<1>1. CASE d # c
  BY <1>1, Frame DEF IInv, UndisturbedSoFar, ReturnWithoutTurbo
<1>2. CASE d = c
  <2> DEFINE outcome == IF call[c].turbo = Unmanaged THEN "ok"
                        ELSE TurboOutcome(backend[c].kind, host)
  <2>1. pc[c] = "applying" /\ Undisturbed(c) /\ call[c].todo = {}
    BY <1>2 DEF Undisturbed, ReturnWithoutTurbo, Applied
  <2>2. CallSoFar(c) /\ boost = before[c].boost
    BY <2>1 DEF IInv, UndisturbedSoFar, CallSoFar
  <2>3. call'[c] = [call[c] EXCEPT !.turboOutcome = outcome]
    BY DEF ReturnWithoutTurbo, IInv, TypeOK
  <2>4. /\ call'[c].todo = call[c].todo /\ call'[c].profile = call[c].profile
        /\ call'[c].profileError = call[c].profileError /\ call'[c].turbo = call[c].turbo
        /\ call'[c].turboOutcome = outcome
    <3> HIDE DEF outcome
    <3> QED BY <2>3 DEF IInv, TypeOK, Calls
  <2>5. LoopSoFar(c)' = LoopSoFar(c) /\ ProfileAtomic(c)' = ProfileAtomic(c)
    BY <2>4, LoopFrame DEF ReturnWithoutTurbo, files
  <2>6. TurboAtomic(c)'
    <3>1. call[c].turbo \in TurboStates \cup {Unmanaged}
      BY DEF IInv, TypeOK, Calls
    <3>2. call[c].turbo # Unmanaged => backend[c].kind \notin {"intel_epp", "amd_epp"}
      BY <3>1 DEF ReturnWithoutTurbo, DrivesTurbo
    <3>3. call[c].turbo # Unmanaged =>
            boost = TurboWrites(backend[c].kind, host, call[c].turbo = "enabled", before[c].boost)
      BY <2>2, <3>2 DEF TurboWrites
    <3> QED BY <2>2, <2>4, <3>3 DEF TurboAtomic, ReturnWithoutTurbo, files
  <2>7. pc'[c] = "returned"
    BY DEF ReturnWithoutTurbo, IInv, TypeOK
  <2> QED BY <1>2, <2>1, <2>2, <2>4, <2>5, <2>6, <2>7 DEF CallSoFar
<1> QED BY <1>1, <1>2

LEMMA PickTurboFileStep ==
  ASSUME IInv, NEW c \in Callers, PickTurboFile(c)
  PROVE  UndisturbedSoFar'
<1> SUFFICES ASSUME NEW d \in Callers, Undisturbed(d)' PROVE CallSoFar(d)'
  BY DEF UndisturbedSoFar
<1>1. CASE d # c
  BY <1>1, Frame DEF IInv, UndisturbedSoFar, PickTurboFile
<1>2. CASE d = c
  <2> DEFINE path == TurboFile(backend[c].kind, host.turboFiles)
  <2>1. pc[c] = "applying" /\ Undisturbed(c) /\ call[c].todo = {} /\ DrivesTurbo(c)
    BY <1>2 DEF Undisturbed, PickTurboFile, Applied
  <2>2. CallSoFar(c) /\ boost = before[c].boost /\ call[c].turboOutcome = "ok"
    BY <2>1 DEF IInv, UndisturbedSoFar, CallSoFar
  <2>3. call'[c] = [call[c] EXCEPT !.path = path]
    BY DEF PickTurboFile, IInv, TypeOK
  <2>4. /\ call'[c].todo = call[c].todo /\ call'[c].profile = call[c].profile
        /\ call'[c].profileError = call[c].profileError /\ call'[c].turbo = call[c].turbo
        /\ call'[c].turboOutcome = call[c].turboOutcome /\ call'[c].path = path
    <3> HIDE DEF path
    <3> QED BY <2>3 DEF IInv, TypeOK, Calls
  <2>5. LoopSoFar(c)' = LoopSoFar(c) /\ ProfileAtomic(c)' = ProfileAtomic(c)
    BY <2>4, LoopFrame DEF PickTurboFile, files
  <2>6. pc'[c] = "writing" /\ UNCHANGED <<host, boost, backend, before>>
    BY DEF PickTurboFile, IInv, TypeOK, files
  <2>7. DrivesTurbo(c)'
    BY <2>1, <2>4, <2>6 DEF DrivesTurbo
  <2> QED BY <1>2, <2>1, <2>2, <2>4, <2>5, <2>6, <2>7 DEF CallSoFar
<1> QED BY <1>1, <1>2

LEMMA WriteTurboStep ==
  ASSUME IInv, NEW c \in Callers, WriteTurbo(c)
  PROVE  UndisturbedSoFar'
<1> SUFFICES ASSUME NEW d \in Callers, Undisturbed(d)' PROVE CallSoFar(d)'
  BY DEF UndisturbedSoFar
<1>1. d = c /\ alone[c] /\ pc[c] = "writing"
  BY DEF Undisturbed, WriteTurbo, OthersNotAlone
<1>2. CallSoFar(c)
  BY <1>1 DEF IInv, UndisturbedSoFar, Undisturbed
<1>3. LoopSoFar(c)' = LoopSoFar(c) /\ ProfileAtomic(c)' = ProfileAtomic(c)
  BY LoopFrame DEF WriteTurbo
<1>4. TurboAtomic(c)'
  <2>1. call[c].turbo # Unmanaged /\ backend[c].kind \in {"intel_epp", "amd_epp"}
    BY <1>1, <1>2 DEF CallSoFar, DrivesTurbo, TurboStates, Unmanaged
  <2>2. TurboOutcome(backend[c].kind, host) = "ok"
    BY <1>1, <1>2, <2>1 DEF CallSoFar, TurboOutcome, WriteTurbo, TurboTaken
  <2>3. boost' = TurboWrites(backend[c].kind, host, call[c].turbo = "enabled", before[c].boost)
    BY <1>1, <1>2, <2>1, <2>2 DEF CallSoFar, TurboWrites, WriteTurbo
  <2> QED BY <1>1, <1>2, <2>1, <2>2, <2>3 DEF CallSoFar, TurboAtomic, WriteTurbo
<1>5. pc'[c] = "returned" /\ call' = call
  BY DEF WriteTurbo, IInv, TypeOK
<1> QED BY <1>1, <1>2, <1>3, <1>4, <1>5 DEF CallSoFar

LEMMA TurboFailsStep ==
  ASSUME IInv, NEW c \in Callers, TurboFails(c)
  PROVE  UndisturbedSoFar'
<1> SUFFICES ASSUME NEW d \in Callers, Undisturbed(d)' PROVE CallSoFar(d)'
  BY DEF UndisturbedSoFar
<1>1. CASE d # c
  BY <1>1, Frame DEF IInv, UndisturbedSoFar, TurboFails
<1>2. CASE d = c
  <2>1. pc[c] = "writing" /\ Undisturbed(c)
    BY <1>2 DEF Undisturbed, TurboFails
  <2>2. CallSoFar(c) /\ boost = before[c].boost
    BY <2>1 DEF IInv, UndisturbedSoFar, CallSoFar
  <2>3. call'[c] = [call[c] EXCEPT !.turboOutcome = "error"]
    BY DEF TurboFails, IInv, TypeOK
  <2>4. /\ call'[c].todo = call[c].todo /\ call'[c].profile = call[c].profile
        /\ call'[c].profileError = call[c].profileError /\ call'[c].turbo = call[c].turbo
        /\ call'[c].turboOutcome = "error"
    BY <2>3 DEF IInv, TypeOK, Calls
  <2>5. LoopSoFar(c)' = LoopSoFar(c) /\ ProfileAtomic(c)' = ProfileAtomic(c)
    BY <2>4, LoopFrame DEF TurboFails, files
  <2>6. call[c].turbo # Unmanaged /\ backend[c].kind \in {"intel_epp", "amd_epp"}
    BY <2>1, <2>2 DEF CallSoFar, DrivesTurbo, TurboStates, Unmanaged
  <2>7. TurboOutcome(backend[c].kind, host) = "error"
    BY <2>1, <2>2, <2>6 DEF CallSoFar, TurboOutcome, TurboFails, TurboTaken
  <2>8. boost = TurboWrites(backend[c].kind, host, call[c].turbo = "enabled", before[c].boost)
    BY <2>2, <2>7 DEF TurboWrites
  <2>9. TurboAtomic(c)'
    BY <2>4, <2>6, <2>7, <2>8 DEF TurboAtomic, TurboFails, files
  <2>10. pc'[c] = "returned"
    BY DEF TurboFails, IInv, TypeOK
  <2> QED BY <1>2, <2>1, <2>2, <2>4, <2>5, <2>9, <2>10 DEF CallSoFar
<1> QED BY <1>1, <1>2

LEMMA BeginStep ==
  ASSUME IInv, NEW c \in Callers, NEW b, NEW k \in Calls, Begin(c, b, k),
         ~ k.profileError, k.turboOutcome = "ok"
  PROVE  UndisturbedSoFar' /\ TodoInBounds'
<1> DEFINE todo == IF k.profile = Absent THEN {} ELSE DOMAIN b.policies
<1>1. call'[c] = [k EXCEPT !.todo = todo] /\ backend'[c] = b /\ pc'[c] = "applying"
      /\ before'[c] = [epp |-> epp, gov |-> gov, boost |-> boost]
  BY DEF Begin, IInv, TypeOK
<1>2. /\ call'[c].todo = todo /\ call'[c].profile = k.profile
      /\ ~ call'[c].profileError /\ call'[c].turboOutcome = "ok"
  <2> HIDE DEF todo
  <2> QED BY <1>1 DEF Calls
<1>3. Targets(c)' = todo
  BY <1>1, <1>2 DEF Targets
<1>4. UNCHANGED <<host, epp, gov, boost>>
  BY DEF Begin, files
<1>5. ASSUME NEW d \in Callers, d # c
      PROVE  call'[d] = call[d] /\ backend'[d] = backend[d] /\ pc'[d] = pc[d]
             /\ alone'[d] = alone[d] /\ before'[d] = before[d]
  BY <1>5 DEF Begin, IInv, TypeOK
<1>6. TodoInBounds'
  <2> SUFFICES ASSUME NEW d \in Callers
               PROVE  /\ call'[d].todo \subseteq Targets(d)'
                      /\ pc'[d] = "down" => call'[d].todo = {}
    BY DEF TodoInBounds
  <2>1. CASE d = c
    BY <1>1, <1>2, <1>3, <2>1
  <2>2. CASE d # c
    BY <1>5, <2>2 DEF IInv, TodoInBounds, Targets
  <2> QED BY <2>1, <2>2
<1>7. UndisturbedSoFar'
  <2> SUFFICES ASSUME NEW d \in Callers, Undisturbed(d)' PROVE CallSoFar(d)'
    BY DEF UndisturbedSoFar
  <2>1. CASE d = c
    <3>1. epp \in [PolicyIds -> Profiles] /\ gov \in [PolicyIds -> Governors]
      BY DEF IInv, TypeOK, Files
    <3>2. /\ epp = EppWrites(b, k.profile, {}, epp)
          /\ gov = GovernorWrites(b, k.profile, {}, gov)
      BY <3>1, WritesNothing
    <3>3. (Targets(c) \ call[c].todo)' = {}
      BY <1>2, <1>3
    <3>4. LoopSoFar(c)'
      <4>1. epp' = EppWrites(backend'[c], call'[c].profile, {}, before'[c].epp)
        BY <1>1, <1>2, <1>4, <3>2
      <4>2. gov' = GovernorWrites(backend'[c], call'[c].profile, {}, before'[c].gov)
        BY <1>1, <1>2, <1>4, <3>2
      <4> QED BY <3>3, <4>1, <4>2 DEF LoopSoFar
    <3>5. boost' = before'[c].boost
      BY <1>1, <1>4
    <3> QED BY <1>1, <1>2, <2>1, <3>4, <3>5 DEF CallSoFar
  <2>2. CASE d # c
    BY <1>4, <1>5, <2>2, Frame DEF IInv, UndisturbedSoFar, files
  <2> QED BY <2>1, <2>2
<1> QED BY <1>6, <1>7

LEMMA BodyStep ==
  ASSUME IInv, NEW c \in Callers, Body(c)
  PROVE  UndisturbedSoFar' /\ TodoInBounds'
<1>1. UndisturbedSoFar'
  BY WritePolicyStep, PolicyFailsStep, ReturnWithoutTurboStep, PickTurboFileStep,
     WriteTurboStep, TurboFailsStep DEF Body
<1>2. backend' = backend
  BY DEF Body, WritePolicy, PolicyFails, ReturnWithoutTurbo, PickTurboFile, WriteTurbo, TurboFails
<1>3. \A d \in Callers : call'[d].profile = call[d].profile
                         /\ call'[d].todo \subseteq call[d].todo
  <2>1. ASSUME NEW i, call' = [call EXCEPT ![c] = [call[c] EXCEPT !.todo = call[c].todo \ {i}]]
        PROVE  <1>3!:
    BY <2>1 DEF IInv, TypeOK, Calls
  <2>2. CASE PolicyFails(c)
    BY <2>2 DEF IInv, TypeOK, Calls, PolicyFails
  <2>3. ASSUME NEW outcome, call' = [call EXCEPT ![c] = [call[c] EXCEPT !.turboOutcome = outcome]]
        PROVE  <1>3!:
    BY <2>3 DEF IInv, TypeOK, Calls
  <2>4. CASE PickTurboFile(c)
    BY <2>4 DEF IInv, TypeOK, Calls, PickTurboFile
  <2>5. CASE WriteTurbo(c)
    BY <2>5 DEF WriteTurbo
  <2> QED BY <2>1, <2>2, <2>3, <2>4, <2>5 DEF Body, WritePolicy, ReturnWithoutTurbo, TurboFails
<1>4. \A d \in Callers : pc'[d] = "down" => pc[d] = "down"
  BY DEF IInv, TypeOK, Body, WritePolicy, PolicyFails, ReturnWithoutTurbo, PickTurboFile,
         WriteTurbo, TurboFails
<1>5. TodoInBounds'
  BY <1>2, <1>3, <1>4 DEF IInv, TodoInBounds, Targets
<1> QED BY <1>1, <1>5

LEMMA InvariantStep ==
  ASSUME IInv, Next
  PROVE  UndisturbedSoFar' /\ TodoInBounds'
<1>1. ASSUME NEW c \in Callers, StartAgent(c)
      PROVE  UndisturbedSoFar' /\ TodoInBounds'
  <2>1. pc'[c] = "ready" /\ call'[c].todo = {}
    BY <1>1 DEF IInv, TypeOK, TodoInBounds, StartAgent
  <2>2. \A d \in Callers : d # c =>
          pc'[d] = pc[d] /\ call'[d] = call[d] /\ backend'[d] = backend[d]
    BY <1>1 DEF IInv, TypeOK, StartAgent
  <2>3. UndisturbedSoFar'
    BY <1>1, <2>1, <2>2, Frame DEF IInv, UndisturbedSoFar, Undisturbed, StartAgent
  <2>4. TodoInBounds'
    BY <2>1, <2>2 DEF IInv, TodoInBounds, Targets
  <2> QED BY <2>3, <2>4
<1>2. ASSUME NEW c \in Callers, NEW raw, Reconciles(c, raw)
      PROVE  UndisturbedSoFar' /\ TodoInBounds'
  <2>1. [NoCall EXCEPT !.profile = ParseProfile(raw.profile),
                       !.turbo = ParseTurbo(raw.turbo)] \in Calls
    BY CallBegins
  <2> QED BY <1>2, <2>1, BeginStep DEF Reconciles, NoCall
<1>3. ASSUME NEW c \in Callers, NEW raw, Invoked(c, raw)
      PROVE  UndisturbedSoFar' /\ TodoInBounds'
  <2> DEFINE k == [NoCall EXCEPT
                     !.profile = IF raw.profile \in Profiles THEN raw.profile ELSE Absent,
                     !.turbo = ParseTurbo(raw.turbo),
                     !.badArgs = InvalidProfile(raw.profile) \/ InvalidTurbo(raw.turbo)]
  <2>1. k \in Calls
    BY CallBegins
  <2>2. ~ k.profileError /\ k.turboOutcome = "ok"
    BY DEF NoCall
  <2>3. Begin(c, DetectBackend(host), k)
    BY <1>3 DEF Invoked
  <2> HIDE DEF k
  <2> QED BY <2>1, <2>2, <2>3, BeginStep
<1>4. ASSUME NEW c \in Callers, Killed(c)
      PROVE  UndisturbedSoFar' /\ TodoInBounds'
  <2>1. pc'[c] = "down" /\ call'[c].todo = {}
    BY <1>4 DEF IInv, TypeOK, Killed, NoCall
  <2>2. \A d \in Callers : d # c =>
          pc'[d] = pc[d] /\ call'[d] = call[d] /\ backend'[d] = backend[d]
    BY <1>4 DEF IInv, TypeOK, Killed
  <2>3. UndisturbedSoFar'
    BY <1>4, <2>1, <2>2, Frame DEF IInv, UndisturbedSoFar, Undisturbed, Killed
  <2>4. TodoInBounds'
    BY <2>1, <2>2 DEF IInv, TodoInBounds, Targets
  <2> QED BY <2>3, <2>4
<1>5. ASSUME NEW h \in Hosts, KernelChange(h)
      PROVE  UndisturbedSoFar' /\ TodoInBounds'
  BY <1>5 DEF IInv, UndisturbedSoFar, Undisturbed, TodoInBounds, Targets, KernelChange
<1> QED BY <1>1, <1>2, <1>3, <1>4, <1>5, BodyStep DEF Next, AgentStep, Callers

-----------------------------------------------------------------------------
(* The theorems. *)

LEMMA InitInvariant == Init => IInv
<1> SUFFICES ASSUME Init PROVE IInv
  OBVIOUS
<1>1. TodoInBounds
  BY DEF Init, TodoInBounds, NoCall
<1>2. UndisturbedSoFar
  BY DEF Init, UndisturbedSoFar, Undisturbed
<1> QED BY <1>1, <1>2, InitType DEF IInv

LEMMA NextInvariant == IInv /\ [Next]_vars => IInv'
<1> SUFFICES ASSUME IInv, [Next]_vars PROVE IInv'
  OBVIOUS
<1>1. CASE Next
  BY <1>1, StepType, InvariantStep DEF IInv
<1>2. CASE UNCHANGED vars
  <2>1. UNCHANGED <<host, epp, gov, boost, pc, backend, call, alone, before, budget>>
    BY <1>2 DEF vars, files
  <2>2. TypeOK'
    BY <2>1 DEF IInv, TypeOK
  <2>3. TodoInBounds'
    BY <2>1 DEF IInv, TodoInBounds, Targets
  <2>4. UndisturbedSoFar'
    BY <2>1, Frame DEF IInv, UndisturbedSoFar, files
  <2> QED BY <2>2, <2>3, <2>4 DEF IInv
<1> QED BY <1>1, <1>2

(* The invariant says what is wanted of the calls that have returned.      *)
LEMMA InvariantImpliesAtomic == IInv => AloneIsAtomic
<1> SUFFICES ASSUME IInv, NEW c \in Callers, pc[c] = "returned", alone[c]
             PROVE  ProfileAtomic(c) /\ TurboAtomic(c)
  BY DEF AloneIsAtomic
<1>1. CallSoFar(c)
  BY DEF IInv, UndisturbedSoFar, Undisturbed
<1>2. CASE call[c].profileError
  BY <1>1, <1>2 DEF CallSoFar
<1>3. CASE ~ call[c].profileError
  <2>1. LoopSoFar(c) /\ call[c].todo = {} /\ call[c].profileError = FALSE
    BY <1>1, <1>3 DEF CallSoFar, IInv, TypeOK, Calls
  <2>2. call[c].profile # Absent =>
          /\ Blocking(backend[c], call[c].profile, host) = {}
          /\ Reached(backend[c], call[c].profile, host) = Targets(c)
    BY <2>1 DEF LoopSoFar, Targets, Blocking, Reached
  <2>3. ProfileAtomic(c)
    <3>1. Targets(c) \ call[c].todo = Targets(c)
      BY <2>1
    <3>2. /\ epp = EppWrites(backend[c], call[c].profile, Targets(c), before[c].epp)
          /\ gov = GovernorWrites(backend[c], call[c].profile, Targets(c), before[c].gov)
      BY <2>1, <3>1 DEF LoopSoFar
    <3>3. call[c].profile = Absent => Targets(c) = {}
      BY DEF Targets
    <3> QED BY <2>1, <2>2, <3>2, <3>3 DEF ProfileAtomic
  <2> QED BY <1>1, <2>3 DEF CallSoFar
<1> QED BY <1>2, <1>3

(* Each loop has, at any moment of a call nobody disturbs, written exactly *)
(* the policies below those still to visit, and every variable has its     *)
(* type: epp.rs:63-80, governor.rs:70-97.                                  *)
THEOREM LoopsGoUpward == Spec => []IInv
BY InitInvariant, NextInvariant, PTL DEF Spec

(* A call of apply and set_turbo that nobody disturbs has the effect and   *)
(* the outcome module Hal gives for the whole of it, so that module Agent  *)
(* may take reconcile_once for one step: reconcile.rs:82-92.               *)
THEOREM AloneIsAtomicAlways == Spec => []AloneIsAtomic
BY LoopsGoUpward, InvariantImpliesAtomic, PTL

(* Every caller has its place and every file a value it can hold, whatever *)
(* calls interleave and wherever they are killed.                          *)
THEOREM BackendTypeCorrect == Spec => []TypeOK
<1>1. IInv => TypeOK
  BY DEF IInv
<1> QED BY <1>1, LoopsGoUpward, PTL

-----------------------------------------------------------------------------
(* What pstate-cli read finds. *)

(* pstate-cli detects its backend when it is invoked (main.rs:106), and    *)
(* the host is still that one while nobody disturbs the call.              *)
CliHasDetected ==
  \A c \in Clis : pc[c] # "down" /\ alone[c] => backend[c] = DetectBackend(host)

LEMMA DetectedStep ==
  ASSUME IInv, CliHasDetected, Next
  PROVE  CliHasDetected'
<1> USE CallersAssumption DEF Callers
<1>1. ASSUME NEW c \in Callers, Body(c)
      PROVE  CliHasDetected'
  <2>1. host' = host /\ backend' = backend
    BY <1>1 DEF Body, WritePolicy, PolicyFails, ReturnWithoutTurbo, PickTurboFile,
                WriteTurbo, TurboFails, files
  <2>2. \A d \in Callers : alone'[d] => alone[d]
    BY <1>1 DEF Body, WritePolicy, PolicyFails, ReturnWithoutTurbo, PickTurboFile,
                WriteTurbo, TurboFails, OthersNotAlone
  <2>3. \A d \in Callers : pc'[d] # "down" => pc[d] # "down"
    BY <1>1 DEF IInv, TypeOK, Body, WritePolicy, PolicyFails, ReturnWithoutTurbo, PickTurboFile,
                WriteTurbo, TurboFails, Applying, Applied
  <2> QED BY <2>1, <2>2, <2>3 DEF CliHasDetected
<1>2. ASSUME NEW c \in Agents, StartAgent(c) \/ \E raw \in AgentLabels : Reconciles(c, raw)
      PROVE  CliHasDetected'
  <2>1. c \notin Clis
    OBVIOUS
  <2>2. host' = host /\ \A d \in Clis : /\ pc'[d] = pc[d] /\ backend'[d] = backend[d]
                                        /\ alone'[d] = alone[d]
    BY <1>2, <2>1 DEF IInv, TypeOK, StartAgent, Reconciles, Begin
  <2> QED BY <2>2 DEF CliHasDetected
<1>3. ASSUME NEW c \in Clis, NEW raw, Invoked(c, raw)
      PROVE  CliHasDetected'
  <2>1. host' = host /\ backend'[c] = DetectBackend(host)
    BY <1>3 DEF IInv, TypeOK, Invoked, Begin
  <2>2. \A d \in Clis \ {c} : /\ pc'[d] = pc[d] /\ backend'[d] = backend[d]
                             /\ alone'[d] = alone[d]
    BY <1>3 DEF IInv, TypeOK, Invoked, Begin
  <2> QED BY <2>1, <2>2 DEF CliHasDetected
<1>4. ASSUME NEW c \in Callers, Killed(c)
      PROVE  CliHasDetected'
  <2>1. host' = host /\ alone' = alone /\ pc'[c] = "down"
    BY <1>4 DEF IInv, TypeOK, Killed
  <2>2. \A d \in Callers \ {c} : pc'[d] = pc[d] /\ backend'[d] = backend[d]
    BY <1>4 DEF IInv, TypeOK, Killed
  <2> QED BY <2>1, <2>2 DEF CliHasDetected
<1>5. ASSUME NEW h \in Hosts, KernelChange(h)
      PROVE  CliHasDetected'
  BY <1>5 DEF KernelChange, CliHasDetected
<1> QED BY <1>1, <1>2, <1>3, <1>4, <1>5 DEF Next, AgentStep

LEMMA DetectedInvariant == Spec => []CliHasDetected
<1>1. Init => CliHasDetected
  BY DEF Init, CliHasDetected, Callers
<1>2. IInv /\ CliHasDetected /\ [Next]_vars => CliHasDetected'
  <2>1. CliHasDetected /\ UNCHANGED vars => CliHasDetected'
    BY DEF CliHasDetected, vars
  <2> QED BY <2>1, DetectedStep
<1> QED BY <1>1, <1>2, LoopsGoUpward, PTL DEF Spec

(* The policies a backend with EPP was built from are those of the host,   *)
(* and there is a first one.                                               *)
LEMMA DetectedFirst ==
  ASSUME NEW h, IsHost(h), DetectBackend(h).kind \in EppKinds
  PROVE  LET ps == DetectBackend(h).policies IN
         /\ DOMAIN ps = DOMAIN h.policies
         /\ First(DOMAIN ps) \in DOMAIN ps /\ First(DOMAIN ps) \in PolicyIds
<1>1. DetectBackend(h).policies = DiscoverPolicies(h) /\ DetectKind(DiscoverPolicies(h)) \in EppKinds
  BY DEF DetectBackend, EppKinds
<1>2. DOMAIN DiscoverPolicies(h) = DOMAIN h.policies /\ DOMAIN h.policies \subseteq PolicyIds
  BY DEF DiscoverPolicies, IsHost
<1>3. DOMAIN DiscoverPolicies(h) # {}
  BY <1>1 DEF DetectKind, EppKinds
<1> QED BY <1>1, <1>2, <1>3, FirstIsLeast

LEMMA AtomicReadsBack ==
  ASSUME TypeOK, AloneIsAtomic, CliHasDetected
  PROVE  ReadsBack
<1> SUFFICES ASSUME NEW c \in Clis, pc[c] = "returned", alone[c], ExitSuccess(c),
                    call[c].profile # Absent, DetectBackend(host).kind \in EppKinds
             PROVE  Current(DetectBackend(host)) = call[c].profile
  BY DEF ReadsBack
<1> DEFINE b == DetectBackend(host)
           k == call[c]
<1>1. backend[c] = b /\ ProfileAtomic(c)
  BY DEF CliHasDetected, AloneIsAtomic, Callers
<1>2. Blocking(b, k.profile, host) = {}
  BY <1>1 DEF ProfileAtomic, ExitSuccess
<1>3. Reached(b, k.profile, host) = DOMAIN b.policies
  BY <1>2 DEF Reached
<1>4. /\ DOMAIN b.policies = DOMAIN host.policies
      /\ First(DOMAIN b.policies) \in DOMAIN b.policies
      /\ First(DOMAIN b.policies) \in PolicyIds
  BY DetectedFirst, HostsAssumption DEF TypeOK
<1>5. epp = EppWrites(b, k.profile, DOMAIN b.policies, before[c].epp)
  BY <1>1, <1>3 DEF ProfileAtomic
<1>6. epp[First(DOMAIN b.policies)] = k.profile
  BY <1>4, <1>5 DEF EppWrites, Wanted
<1> QED BY <1>4, <1>6 DEF Current

(* pstate-cli read after an apply that succeeded and that nobody disturbed *)
(* prints its profile, on every host: main.rs:151, epp.rs:82-98.           *)
THEOREM ReadsBackAlways == Spec => []ReadsBack
<1>1. IInv /\ AloneIsAtomic /\ CliHasDetected => ReadsBack
  BY AtomicReadsBack DEF IInv
<1> QED BY <1>1, LoopsGoUpward, AloneIsAtomicAlways, DetectedInvariant, PTL
=============================================================================
