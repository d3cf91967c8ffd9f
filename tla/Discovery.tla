------------------------------ MODULE Discovery ------------------------------
(***************************************************************************)
(* discover_policies and detect_backend one access at a time, as the agent *)
(* runs them when it starts and pstate-cli in read and, twice, in probe.   *)
(* The kernel may change drivers and take policies away between any two    *)
(* accesses.  To discovery a file that is not there when it is read, or    *)
(* cannot be read (that of an inactive policy: EBUSY), counts as empty; to *)
(* current both are errors.                                                *)
(*                                                                         *)
(* Modules Agent and Backend take detection for one step, DetectBackend;   *)
(* QuietDiscoveryIsExact is what entitles them to.                         *)
(***************************************************************************)
EXTENDS Hal, Sequences, FiniteSets, Functions

CONSTANTS
  Hosts,           \* the forms the host takes as its kernel changes
  PathRank,        \* the place of policyN among all such names
  Contents,        \* what energy_performance_preference may hold
  MaxDisturbances  \* bound on the steps of the environment

ASSUME HostsAssumption == \A h \in Hosts : IsHost(h)
(* An id is a u32, and no two policies have the same name. *)
ASSUME PathsAssumption ==
  IsFiniteSet(PolicyIds) /\ PathRank \in [PolicyIds -> Nat] /\ IsInjective(PathRank)
ASSUME BudgetAssumption == MaxDisturbances \in Nat

VARIABLES
  host,     \* what the kernel shows
  epp,      \* what reading an energy_performance_preference that exists gives
  command,  \* "agent", "read" or "probe"
  pc,       \* the access that is next
  todo,     \* directories still to be visited
  entry,    \* what was read of the one being visited
  found,    \* the policies read so far; when discovery is over, all of them
  listed,   \* the policies probe has printed
  printed,  \* whether it has
  kind,     \* the kind of the backend, or Undetected
  current,  \* what current returned: a profile, "none" or "error"
  exit,     \* the exit code of pstate-cli
  seen,     \* history: the hosts the kernel has shown since the command began
  erred,    \* history: listing the directory failed
  budget    \* environment steps left

results == <<listed, printed, kind, current, exit, erred>>
vars    == <<host, epp, command, pc, todo, entry, found, results, seen, budget>>

Undetected == "undetected"
Unreadable == "unreadable"  \* EBUSY, EACCES, EIO, ...

NoEntry == [driver |-> {}, hasEpp |-> FALSE, epps |-> {}, governors |-> {}]

(* Policies in a list, no two of which have the same number. *)
Ids(ps) == [n \in DOMAIN ps |-> ps[n].id]
IsFound(ps) == ps \in Seq([id : PolicyIds, policy : CpuPolicy]) /\ IsInjective(Ids(ps))

TypeOK ==
  /\ host \in Hosts /\ epp \in [PolicyIds -> Contents \cup {Unreadable}]
  /\ command \in {"agent", "read", "probe"}
  /\ pc \in {"idle", "root", "list", "driver", "epp", "preferences", "governors",
             "sort", "current", "done"}
  /\ todo \in Seq(PolicyIds) /\ IsInjective(todo)
  /\ entry \in CpuPolicy
  /\ IsFound(found) /\ IsFound(listed) /\ printed \in BOOLEAN
  /\ kind \in BackendKinds \cup {Undetected}
  /\ current \in Profiles \cup {"none", "error"}
  /\ exit \in {"success", "failure"}
  /\ seen \subseteq Hosts /\ erred \in BOOLEAN
  /\ budget \in 0 .. MaxDisturbances

Blank ==
  /\ todo = <<>> /\ entry = NoEntry /\ found = <<>> /\ listed = <<>> /\ printed = FALSE
  /\ kind = Undetected /\ current = "none" /\ exit = "success" /\ erred = FALSE

Init ==
  /\ host \in Hosts /\ epp \in [PolicyIds -> Contents \cup {Unreadable}]
  /\ command = "agent" /\ pc = "idle" /\ Blank /\ seen = {}
  /\ budget = MaxDisturbances

Disturb == budget > 0 /\ budget' = budget - 1

(* The program's steps leave the world alone. *)
Access == UNCHANGED <<host, epp, command, seen, budget>>

(* A process starts. *)
Begin(c) ==
  /\ pc \in {"idle", "done"}
  /\ command' = c /\ pc' = "root" /\ seen' = {host}
  /\ todo' = <<>> /\ entry' = NoEntry /\ found' = <<>> /\ listed' = <<>> /\ printed' = FALSE
  /\ kind' = Undetected /\ current' = "none" /\ exit' = "success" /\ erred' = FALSE
  /\ UNCHANGED <<host, epp, budget>>

-----------------------------------------------------------------------------
(* discover_policies. *)

(* The root need not exist on a host without policies. *)
FindRoot ==
  /\ pc = "root"
  /\ pc' \in {"list"} \cup (IF DOMAIN host.policies = {} THEN {"sort"} ELSE {})
  /\ Access
  /\ UNCHANGED <<todo, entry, found, results>>

(* The elements of a finite set by their rank, each after those below it. *)
Ranked(S, rank) ==
  [n \in 1 .. Cardinality(S) |->
     CHOOSE x \in S : Cardinality({y \in S : rank[y] < rank[x]}) = n - 1]

(* read_dir returns the paths sorted as paths, policy10 before policy2. *)
ListPolicies ==
  /\ pc = "list"
  /\ todo' = Ranked(DOMAIN host.policies, PathRank)
  /\ pc' = IF todo' = <<>> THEN "sort" ELSE "driver"
  /\ Access
  /\ UNCHANGED <<entry, found, results>>

(* Mutation: an error is an empty list. *)
ListFailsUnnoticed ==
  /\ pc = "list"
  /\ Disturb
  /\ erred' = TRUE /\ pc' = "sort"
  /\ UNCHANGED <<host, epp, command, todo, entry, found, listed, printed, kind, current, exit, seen>>

(* An error: probe gives up, detect_backend goes on without policies.      *)
ListFails ==
  /\ pc = "list"
  /\ Disturb
  /\ erred' = TRUE
  /\ IF command = "probe" /\ ~ printed
     THEN pc' = "done" /\ exit' = "failure"
     ELSE pc' = "sort" /\ UNCHANGED exit
  /\ UNCHANGED <<host, epp, command, todo, entry, found, listed, printed, kind, current, seen>>

(* A directory that has gone since it was listed has no files. A file that *)
(* cannot be read gives what an empty one gives: an empty file of a host   *)
(* stands for either.                                                      *)
Shown == IF Head(todo) \in DOMAIN host.policies
         THEN Discovered(host.policies[Head(todo)])
         ELSE NoEntry

ReadDriver ==
  /\ pc = "driver"
  /\ entry' = [entry EXCEPT !.driver = Shown.driver]
  /\ pc' = "epp"
  /\ Access
  /\ UNCHANGED <<todo, found, results>>

(* Mutation: the driver's name is taken for the capability. *)
LookForEppByName ==
  /\ pc = "epp"
  /\ entry' = [entry EXCEPT !.hasEpp = entry.driver # {}, !.epps = {}]
  /\ pc' = IF entry'.hasEpp THEN "preferences" ELSE "governors"
  /\ Access
  /\ UNCHANGED <<todo, found, results>>

(* Mutation: the list of preferences is left from the policy before. *)
LookForEppKeeps ==
  /\ pc = "epp"
  /\ entry' = [entry EXCEPT !.hasEpp = Shown.hasEpp]
  /\ pc' = IF Shown.hasEpp THEN "preferences" ELSE "governors"
  /\ Access
  /\ UNCHANGED <<todo, found, results>>

LookForEpp ==
  /\ pc = "epp"
  /\ entry' = [entry EXCEPT !.hasEpp = Shown.hasEpp, !.epps = {}]
  /\ pc' = IF Shown.hasEpp THEN "preferences" ELSE "governors"
  /\ Access
  /\ UNCHANGED <<todo, found, results>>

ReadPreferences ==
  /\ pc = "preferences"
  /\ entry' = [entry EXCEPT !.epps = Shown.epps]
  /\ pc' = "governors"
  /\ Access
  /\ UNCHANGED <<todo, found, results>>

ReadGovernors ==
  /\ pc = "governors"
  /\ entry' = [entry EXCEPT !.governors = Shown.governors]
  /\ found' = Append(found, [id |-> Head(todo), policy |-> entry'])
  /\ todo' = Tail(todo)
  /\ pc' = IF todo' = <<>> THEN "sort" ELSE "driver"
  /\ Access
  /\ UNCHANGED <<results>>

(* Mutation: the paths are in order already. *)
AsListed(ps) == ps

SortedById(ps) == Ranked(Range(ps), [p \in Range(ps) |-> p.id])

-----------------------------------------------------------------------------
(* detect_backend, and what its callers do. *)

Detect(ps) ==
  IF ps = <<>> THEN "unsupported"
  ELSE IF Head(ps).policy.hasEpp THEN VendorKind(Head(ps).policy.driver)
  ELSE IF Head(ps).policy.governors # {} THEN "governor_fallback"
  ELSE "unsupported"

(* Mutation: the second discovery adds to the list of the first. *)
PrintPoliciesKeepsFound ==
  /\ pc = "sort" /\ command = "probe" /\ ~ printed
  /\ listed' = SortedById(found) /\ printed' = TRUE
  /\ pc' = "root" /\ entry' = NoEntry
  /\ Access
  /\ UNCHANGED <<todo, found, kind, current, exit, erred>>

(* probe prints what it found and discovers once more. *)
PrintPolicies ==
  /\ pc = "sort" /\ command = "probe" /\ ~ printed
  /\ listed' = SortedById(found) /\ printed' = TRUE
  /\ pc' = "root" /\ found' = <<>> /\ entry' = NoEntry
  /\ Access
  /\ UNCHANGED <<todo, kind, current, exit, erred>>

DetectBackendOfFound ==
  /\ pc = "sort" /\ (command = "probe" => printed)
  /\ found' = SortedById(found)
  /\ kind' = Detect(found')
  /\ pc' = IF command = "agent" THEN "done" ELSE "current"
  /\ Access
  /\ UNCHANGED <<todo, entry, listed, printed, current, exit, erred>>

(* What current makes of a file that exists: any error of reading it is an *)
(* error, a value outside the known profiles is none.                      *)
Reading(content) ==
  IF content = Unreadable THEN "error" ELSE IF content \in Profiles THEN content ELSE "none"

(* What current returns: it reads the file of the first policy found. *)
CurrentNow ==
  IF kind \notin EppKinds THEN "none"
  ELSE LET i == Head(found).id IN
       IF i \in DOMAIN host.policies /\ host.policies[i].hasEpp THEN Reading(epp[i]) ELSE "error"

(* Only read turns an error into its exit code. *)
ReadCurrent ==
  /\ pc = "current"
  /\ current' = CurrentNow
  /\ exit' = IF command = "read" /\ current' = "error" THEN "failure" ELSE "success"
  /\ pc' = "done"
  /\ Access
  /\ UNCHANGED <<todo, entry, found, listed, printed, kind, erred>>

-----------------------------------------------------------------------------
(* The kernel, and whoever writes its files. *)

KernelChange(h) ==
  /\ h # host
  /\ Disturb
  /\ host' = h /\ seen' = seen \cup {h}
  /\ UNCHANGED <<epp, command, pc, todo, entry, found, results>>

Next ==
  \/ \E c \in {"agent", "read", "probe"} : Begin(c)
  \/ FindRoot \/ ListPolicies \/ ListFails
  \/ ReadDriver \/ LookForEpp \/ ReadPreferences \/ ReadGovernors
  \/ PrintPolicies \/ DetectBackendOfFound \/ ReadCurrent
  \/ \E h \in Hosts : KernelChange(h)

Spec == Init /\ [][Next]_vars
-----------------------------------------------------------------------------
(* Properties. *)

Upward(ps) == \A i, j \in DOMAIN ps : i < j => ps[i].id < ps[j].id

(* The same policies as module Hal's, by id and not by place. *)
Matches(ps, policies) ==
  /\ Upward(ps)
  /\ {<<ps[i].id, ps[i].policy>> : i \in DOMAIN ps}
       = {<<i, policies[i]>> : i \in DOMAIN policies}

Quiet == seen = {host} /\ ~ erred

(* A discovery during which the kernel showed one host throughout finds,   *)
(* file by file and in the order of paths, what module Hal says of that    *)
(* host in one step: the kind, the policies, their order by number.        *)
QuietDiscoveryIsExact ==
  pc \in {"current", "done"} /\ Quiet =>
    /\ kind = DetectBackend(host).kind
    /\ Matches(found, DiscoverPolicies(host))
    /\ command = "probe" => listed = found

(* One that the kernel changed under may be torn between hosts, even       *)
(* within a policy, but what it keeps of each file, is what one of them    *)
(* showed there, and preferences are kept only with the EPP file.          *)
Having(i) == {h \in seen : i \in DOMAIN h.policies}

DriverShown(i, policy) ==
  \/ policy.driver = {} /\ Having(i) # seen
  \/ \E h \in Having(i) : policy.driver = h.policies[i].driver
EppShown(i, policy) == policy.hasEpp => \E h \in Having(i) : h.policies[i].hasEpp
PreferencesShown(i, policy) ==
  \/ policy.epps = {}
  \/ policy.hasEpp /\ \E h \in Having(i) : policy.epps = h.policies[i].epps
GovernorsShown(i, policy) ==
  \/ policy.governors = {} /\ Having(i) # seen
  \/ \E h \in Having(i) : policy.governors = h.policies[i].governors

ShownOnce(i, policy) ==
  /\ DriverShown(i, policy) /\ EppShown(i, policy)
  /\ PreferencesShown(i, policy) /\ GovernorsShown(i, policy)

FilesWereShown == \A n \in DOMAIN found : ShownOnce(found[n].id, found[n].policy)

(* What current is to return of host h: what its lowest-numbered policy    *)
(* holds, if that has an EPP file.                                         *)
CurrentOf(h) ==
  IF DetectBackend(h).kind \in EppKinds THEN Reading(epp[First(DOMAIN h.policies)]) ELSE "none"

(* What pstate-cli reports and exits with is accounted for by the host and *)
(* not by the way it was discovered. Undisturbed, read and probe report    *)
(* what the lowest-numbered policy holds, and read fails exactly when that *)
(* file is there and cannot be read. Otherwise read fails only because the *)
(* kernel changed while it ran, and probe only because it could not list   *)
(* the policies.                                                           *)
ExitIsAccountedFor ==
  pc = "done" =>
    /\ Quiet /\ command # "agent" => current = CurrentOf(host)
    /\ Quiet /\ command = "read" /\ CurrentOf(host) = "error" => exit = "failure"
    /\ exit = "failure" =>
         \/ command = "probe" /\ erred
         \/ command = "read" /\ (seen # {host} \/ CurrentOf(host) = "error")

-----------------------------------------------------------------------------
(* An inductive invariant for all of them. *)

InPolicy == {"driver", "epp", "preferences", "governors"}

ControlIsSound ==
  /\ pc \in InPolicy <=> todo # <<>>
  /\ pc \in {"idle", "root", "list"} => found = <<>>
  /\ pc = "idle" => ~ printed
  /\ pc # "idle" => host \in seen
  /\ exit = "failure" => pc = "done"

(* No directory is visited twice. *)
NoPolicyTwice == IsInjective(Ids(found) \o todo)

(* What was read so far of the policy being visited was shown. *)
EntryWasShown ==
  /\ pc \in InPolicy \ {"driver"} => DriverShown(Head(todo), entry)
  /\ pc \in {"preferences", "governors"} =>
       EppShown(Head(todo), entry) /\ PreferencesShown(Head(todo), entry)
  /\ pc = "preferences" => entry.hasEpp /\ entry.epps = {}

(* A listing that failed leaves nothing to detect a backend from. *)
ErredFindsNothing ==
  erred => /\ pc \in {"sort", "current", "done"} /\ found = <<>>
           /\ pc = "sort" /\ command = "probe" => printed
           /\ pc = "current" => kind = "unsupported"

(* What a discovery of host h is to find, whatever the order. *)
AllOf(h) == {[id |-> i, policy |-> Discovered(h.policies[i])] : i \in DOMAIN h.policies}
SortedOf(h) == Ranked(AllOf(h), [p \in AllOf(h) |-> p.id])

(* While the kernel shows one host, what was read is that host's, and what *)
(* was not is still to be visited.                                         *)
QuietSoFar ==
  Quiet =>
    /\ pc \in InPolicy \cup {"sort"} =>
         /\ Range(Ids(found)) \cup Range(todo) = DOMAIN host.policies
         /\ \A n \in DOMAIN found : found[n].policy = Discovered(host.policies[found[n].id])
    /\ pc \in InPolicy =>
         LET shown == Discovered(host.policies[Head(todo)]) IN
         /\ pc # "driver" => entry.driver = shown.driver
         /\ pc \in {"preferences", "governors"} => entry.hasEpp = shown.hasEpp
         /\ pc = "governors" => entry.epps = shown.epps
    /\ printed => listed = SortedOf(host)
    /\ pc \in {"current", "done"} =>
         /\ found = SortedOf(host) /\ kind = DetectBackend(host).kind
         /\ command = "probe" => printed

IInv ==
  /\ TypeOK /\ ControlIsSound /\ NoPolicyTwice
  /\ FilesWereShown /\ EntryWasShown
  /\ ErredFindsNothing /\ QuietSoFar /\ ExitIsAccountedFor
=============================================================================
