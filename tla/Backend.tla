------------------------------- MODULE Backend -------------------------------
(***************************************************************************)
(* The backends of cpu-power-hal one write at a time.  Several processes   *)
(* drive the files of one host without a lock between them: the agent,     *)
(* which keeps the backend it detected when it started, and invocations of *)
(* pstate-cli apply, each of which detects its own.  The kernel changes    *)
(* and processes are killed between any two writes.                        *)
(***************************************************************************)
EXTENDS Reconcile

CONSTANTS
  Agents,          \* power-agent processes
  Clis,            \* places for pstate-cli invocations
  AgentLabels,     \* pairs of raw label values the agents reconcile from
  CliArgs,         \* pairs of raw --profile and --turbo values
  Hosts,           \* the forms the host takes as its kernel changes
  MaxDisturbances  \* bound on invocations, kernel changes and kills

Callers == Agents \cup Clis

ASSUME HostsAssumption == \A h \in Hosts : IsHost(h)
ASSUME CallersAssumption == Agents \cap Clis = {}
ASSUME BudgetAssumption == MaxDisturbances \in Nat

VARIABLES
  host,     \* what the kernel shows
  epp,      \* content of energy_performance_preference, by policy
  gov,      \* content of scaling_governor, by policy
  boost,    \* content of the turbo files
  pc,       \* where each caller is
  backend,  \* the backend each caller drives
  call,     \* the call each caller is in or last returned from
  alone,    \* history: nobody else moved files or kernel since the call began
  before,   \* history: the files when the call began
  budget    \* environment steps left

files == <<epp, gov, boost>>
vars  == <<host, files, pc, backend, call, alone, before, budget>>

PcStates == {"down", "ready", "applying", "writing", "returned"}

(* profile is Absent when there is none to apply; todo are the policies    *)
(* the loop has yet to visit; path is the turbo file set_turbo has picked; *)
(* badArgs is pstate-cli's complaint about an argument it cannot parse.    *)
Calls == [profile      : Profiles \cup {Absent},
          turbo        : TurboStates \cup {Unmanaged},
          badArgs      : BOOLEAN,
          todo         : SUBSET PolicyIds,
          profileError : BOOLEAN,
          path         : TurboFiles,
          turboOutcome : {"ok", "unsupported", "error"}]

Files == [epp : [PolicyIds -> Profiles], gov : [PolicyIds -> Governors],
          boost : [TurboFiles -> {"0", "1"}]]

TypeOK ==
  /\ host \in Hosts
  /\ [epp |-> epp, gov |-> gov, boost |-> boost] \in Files
  /\ pc \in [Callers -> PcStates]
  /\ backend = [c \in Callers |-> backend[c]]
  /\ \A c \in Callers : IsBackend(backend[c])
  /\ call \in [Callers -> Calls]
  /\ alone \in [Callers -> BOOLEAN]
  /\ before \in [Callers -> Files]
  /\ budget \in 0 .. MaxDisturbances

NoCall == [profile |-> Absent, turbo |-> Unmanaged, badArgs |-> FALSE, todo |-> {},
           profileError |-> FALSE, path |-> "no_turbo", turboOutcome |-> "ok"]

Init ==
  /\ host \in Hosts
  /\ epp = [i \in PolicyIds |-> "default"] /\ gov = [i \in PolicyIds |-> "powersave"]
  /\ boost = [f \in TurboFiles |-> "1"]
  /\ pc = [c \in Callers |-> "down"]
  /\ backend = [c \in Callers |-> NoBackend]
  /\ call = [c \in Callers |-> NoCall]
  /\ alone = [c \in Callers |-> FALSE]
  /\ before = [c \in Callers |-> [epp |-> epp, gov |-> gov, boost |-> boost]]
  /\ budget = MaxDisturbances

Disturb == budget > 0 /\ budget' = budget - 1

(* The policies a call is to write. *)
Targets(c) == IF call[c].profile = Absent THEN {} ELSE DOMAIN backend[c].policies

-----------------------------------------------------------------------------
(* The beginning of a call. *)

Begin(c, b, k) ==
  /\ pc' = [pc EXCEPT ![c] = "applying"]
  /\ backend' = [backend EXCEPT ![c] = b]
  /\ call' = [call EXCEPT ![c] =
       [k EXCEPT !.todo = IF k.profile = Absent THEN {} ELSE DOMAIN b.policies]]
  /\ alone' = [alone EXCEPT ![c] = TRUE]
  /\ before' = [before EXCEPT ![c] = [epp |-> epp, gov |-> gov, boost |-> boost]]
  /\ UNCHANGED <<host, files>>

(* power-agent starts and detects its backend, once. *)
StartAgent(c) ==
  /\ pc[c] = "down"
  /\ pc' = [pc EXCEPT ![c] = "ready"]
  /\ backend' = [backend EXCEPT ![c] = DetectBackend(host)]
  /\ UNCHANGED <<host, files, call, alone, before, budget>>

(* Mutation: an agent calls the backend only when the labels changed. *)
ReconcilesChange(c, raw) ==
  /\ pc[c] \in {"ready", "returned"}
  /\ \/ pc[c] = "ready"
     \/ <<call[c].profile, call[c].turbo>> # <<ParseProfile(raw.profile), ParseTurbo(raw.turbo)>>
  /\ Begin(c, backend[c], [NoCall EXCEPT !.profile = ParseProfile(raw.profile),
                                         !.turbo = ParseTurbo(raw.turbo)])
  /\ UNCHANGED budget

(* reconcile_once, on whatever the labels hold. *)
Reconciles(c, raw) ==
  /\ pc[c] \in {"ready", "returned"}
  /\ Begin(c, backend[c], [NoCall EXCEPT !.profile = ParseProfile(raw.profile),
                                         !.turbo = ParseTurbo(raw.turbo)])
  /\ UNCHANGED budget

(* pstate-cli apply: an argument it cannot parse is complained of and      *)
(* skipped, the other one still takes effect.                              *)
Invoked(c, raw) ==
  /\ pc[c] \in {"down", "returned"}
  /\ raw.profile # Absent \/ raw.turbo # Absent
  /\ Disturb
  /\ Begin(c, DetectBackend(host),
           [NoCall EXCEPT !.profile = IF raw.profile \in Profiles THEN raw.profile ELSE Absent,
                          !.turbo = ParseTurbo(raw.turbo),
                          !.badArgs = InvalidProfile(raw.profile) \/ InvalidTurbo(raw.turbo)])

-----------------------------------------------------------------------------
(* apply: the policies in the order of their ids. *)

Applying(c) == pc[c] = "applying" /\ call[c].todo # {}
NextPolicy(c) == First(call[c].todo)
Blocked(c) == NextPolicy(c) \in Blocking(backend[c], call[c].profile, host)

(* Whoever else is in a call, or has returned from one, is not alone. *)
OthersNotAlone(c) == alone' = [d \in Callers |-> d = c /\ alone[d]]

WritePolicy(c) ==
  /\ Applying(c) /\ ~ Blocked(c)
  /\ epp' = EppWrites(backend[c], call[c].profile, {NextPolicy(c)}, epp)
  /\ gov' = GovernorWrites(backend[c], call[c].profile, {NextPolicy(c)}, gov)
  /\ call' = [call EXCEPT ![c].todo = @ \ {NextPolicy(c)}]
  /\ OthersNotAlone(c)
  /\ UNCHANGED <<host, boost, pc, backend, before, budget>>

(* Mutation: the loop goes on with the next policy. *)
PolicyFailsAndGoesOn(c) ==
  /\ Applying(c) /\ Blocked(c)
  /\ call' = [call EXCEPT ![c] =
       [@ EXCEPT !.todo = @ \ {NextPolicy(c)}, !.profileError = TRUE]]
  /\ UNCHANGED <<host, files, pc, backend, alone, before, budget>>

(* Mutation: the loop ends there, and apply says Ok. *)
PolicyFailsSilently(c) ==
  /\ Applying(c) /\ Blocked(c)
  /\ call' = [call EXCEPT ![c].todo = {}]
  /\ UNCHANGED <<host, files, pc, backend, alone, before, budget>>

(* Not advertised, or not taken by the kernel: apply returns the error.    *)
PolicyFails(c) ==
  /\ Applying(c) /\ Blocked(c)
  /\ call' = [call EXCEPT ![c] = [@ EXCEPT !.todo = {}, !.profileError = TRUE]]
  /\ UNCHANGED <<host, files, pc, backend, alone, before, budget>>

-----------------------------------------------------------------------------
(* set_turbo: the choice of the file, and the write of it. *)

Applied(c) == pc[c] = "applying" /\ call[c].todo = {}
DrivesTurbo(c) == call[c].turbo \in TurboStates /\ backend[c].kind \in {"intel_epp", "amd_epp"}

(* No turbo to set, or a backend that has no file for it. *)
ReturnWithoutTurbo(c) ==
  /\ Applied(c) /\ ~ DrivesTurbo(c)
  /\ pc' = [pc EXCEPT ![c] = "returned"]
  /\ call' = [call EXCEPT ![c].turboOutcome =
       IF call[c].turbo = Unmanaged THEN "ok" ELSE TurboOutcome(backend[c].kind, host)]
  /\ UNCHANGED <<host, files, backend, alone, before, budget>>

(* On AMD by what exists at this moment. *)
PickTurboFile(c) ==
  /\ Applied(c) /\ DrivesTurbo(c)
  /\ pc' = [pc EXCEPT ![c] = "writing"]
  /\ call' = [call EXCEPT ![c].path = TurboFile(backend[c].kind, host.turboFiles)]
  /\ UNCHANGED <<host, files, backend, alone, before, budget>>

TurboTaken(c) == call[c].path \in host.turboFiles /\ host.turboWritable

WriteTurbo(c) ==
  /\ pc[c] = "writing" /\ TurboTaken(c)
  /\ boost' = [boost EXCEPT ![call[c].path] =
                 TurboValue(backend[c].kind, call[c].turbo = "enabled")]
  /\ pc' = [pc EXCEPT ![c] = "returned"]
  /\ OthersNotAlone(c)
  /\ UNCHANGED <<host, epp, gov, backend, call, before, budget>>

TurboFails(c) ==
  /\ pc[c] = "writing" /\ ~ TurboTaken(c)
  /\ pc' = [pc EXCEPT ![c] = "returned"]
  /\ call' = [call EXCEPT ![c].turboOutcome = "error"]
  /\ UNCHANGED <<host, files, backend, alone, before, budget>>

-----------------------------------------------------------------------------
(* The rest of the world. *)

Killed(c) ==
  /\ pc[c] # "down"
  /\ Disturb
  /\ pc' = [pc EXCEPT ![c] = "down"]
  /\ backend' = [backend EXCEPT ![c] = NoBackend]
  /\ call' = [call EXCEPT ![c] = NoCall]
  /\ UNCHANGED <<host, files, alone, before>>

KernelChange(h) ==
  /\ h # host
  /\ Disturb
  /\ host' = h
  /\ alone' = [c \in Callers |-> FALSE]
  /\ UNCHANGED <<files, pc, backend, call, before>>

Body(c) ==
  \/ WritePolicy(c) \/ PolicyFails(c)
  \/ ReturnWithoutTurbo(c) \/ PickTurboFile(c) \/ WriteTurbo(c) \/ TurboFails(c)

AgentStep(c) == StartAgent(c) \/ (\E raw \in AgentLabels : Reconciles(c, raw)) \/ Body(c)

Next ==
  \/ \E c \in Agents : AgentStep(c)
  \/ \E c \in Clis : (\E raw \in CliArgs : Invoked(c, raw)) \/ Body(c)
  \/ \E c \in Callers : Killed(c)
  \/ \E h \in Hosts : KernelChange(h)

Spec == Init /\ [][Next]_vars

(* The agent is restarted when it is gone, its calls are synchronous, and  *)
(* its resync calls again and again.  Nothing is asked of pstate-cli.      *)
FairSpec == Spec /\ \A c \in Agents : WF_vars(AgentStep(c))
-----------------------------------------------------------------------------
(* Properties. *)

(* A call that nobody disturbed has had the effect Hal gives for the whole *)
(* call, which is what module Agent builds on: the policies before the     *)
(* first that failed are written, that one and the others are not, the     *)
(* turbo file is, and the outcome says so.                                 *)
ProfileAtomic(c) ==
  LET k    == call[c]
      done == IF k.profile = Absent THEN {} ELSE Reached(backend[c], k.profile, host)
  IN  /\ epp = EppWrites(backend[c], k.profile, done, before[c].epp)
      /\ gov = GovernorWrites(backend[c], k.profile, done, before[c].gov)
      /\ k.profileError = (k.profile # Absent /\ Blocking(backend[c], k.profile, host) # {})

TurboAtomic(c) ==
  LET k == call[c] IN
  IF k.turbo = Unmanaged
  THEN boost = before[c].boost /\ k.turboOutcome = "ok"
  ELSE /\ boost = TurboWrites(backend[c].kind, host, k.turbo = "enabled", before[c].boost)
       /\ k.turboOutcome = TurboOutcome(backend[c].kind, host)

AloneIsAtomic ==
  \A c \in Callers : pc[c] = "returned" /\ alone[c] => ProfileAtomic(c) /\ TurboAtomic(c)

(* PowerBackend::current: what pstate-cli read prints of a file that can be *)
(* read. When it cannot, read fails: see module Discovery.                  *)
Current(b) ==
  IF b.kind \in EppKinds /\ First(DOMAIN b.policies) \in DOMAIN host.policies
  THEN epp[First(DOMAIN b.policies)]
  ELSE Absent

(* pstate-cli read after a pstate-cli apply that succeeded and that nobody *)
(* disturbed prints the profile, although it detects the backend anew and  *)
(* looks at the first policy only; unless that file, which just took the   *)
(* write, cannot be read.                                                  *)
ExitSuccess(c) ==
  ~ call[c].badArgs /\ ~ call[c].profileError /\ call[c].turboOutcome = "ok"

ReadsBack ==
  \A c \in Clis :
    pc[c] = "returned" /\ alone[c] /\ ExitSuccess(c) /\ call[c].profile # Absent =>
      LET b == DetectBackend(host) IN
      b.kind \in EppKinds => Current(b) = call[c].profile

(* Calls may interleave and leave half of the policies on either profile;  *)
(* the agent's next call mends that.  Once nobody is invoked any more, the *)
(* labels win on every policy apply reaches, and on the turbo file.        *)
InForce(c) ==
  \A raw \in AgentLabels :
    LET profile == ParseProfile(raw.profile)
        turbo   == ParseTurbo(raw.turbo)
        b       == backend[c]
    IN /\ \A i \in Reached(b, profile, host) :
            (IF b.kind \in EppKinds THEN epp[i] ELSE gov[i]) = Wanted(b, i, profile)
       /\ turbo # Unmanaged =>
            boost = TurboWrites(b.kind, host, turbo = "enabled", boost)

AgentsWin == <>[](\A c \in Agents : InForce(c))

-----------------------------------------------------------------------------
(* An inductive invariant for AloneIsAtomic. *)

(* Disturbed or not, a call without a profile visits no policy, and a      *)
(* process that is gone visits none.                                       *)
TodoInBounds ==
  \A c \in Callers :
    /\ call[c].todo \subseteq Targets(c)
    /\ pc[c] = "down" => call[c].todo = {}

(* The loop has visited every policy below those still to visit, has been  *)
(* stopped by none of them, and has written exactly those.                 *)
LoopSoFar(c) ==
  LET k       == call[c]
      visited == Targets(c) \ k.todo
  IN  /\ \A i \in visited, j \in k.todo : i < j
      /\ k.profile # Absent => visited \cap Blocking(backend[c], k.profile, host) = {}
      /\ epp = EppWrites(backend[c], k.profile, visited, before[c].epp)
      /\ gov = GovernorWrites(backend[c], k.profile, visited, before[c].gov)

CallSoFar(c) ==
  /\ IF call[c].profileError
     THEN call[c].todo = {} /\ call[c].profile # Absent /\ ProfileAtomic(c)
     ELSE LoopSoFar(c)
  /\ pc[c] \in {"applying", "writing"} =>
       boost = before[c].boost /\ call[c].turboOutcome = "ok"
  /\ pc[c] \in {"writing", "returned"} => call[c].todo = {}
  /\ pc[c] = "writing" =>
       DrivesTurbo(c) /\ call[c].path = TurboFile(backend[c].kind, host.turboFiles)
  /\ pc[c] = "returned" => TurboAtomic(c)

Undisturbed(c) == alone[c] /\ pc[c] \in {"applying", "writing", "returned"}
UndisturbedSoFar == \A c \in Callers : Undisturbed(c) => CallSoFar(c)

IInv == TypeOK /\ TodoInBounds /\ UndisturbedSoFar
=============================================================================
