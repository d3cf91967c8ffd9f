------------------------------ MODULE Reconcile ------------------------------
(***************************************************************************)
(* The synchronous heart of power-agent: reconcile_once turns the two raw  *)
(* label values of a Node into calls of the backend and a report, and      *)
(* status.rs turns the report into the four annotations and the Events.    *)
(*                                                                         *)
(* A raw label value is a string; Absent stands for a label that is not    *)
(* on the Node, and likewise for an annotation.                            *)
(***************************************************************************)
EXTENDS Hal

Absent == "absent"

(* Mutation: a label that is present is believed. *)
ParseProfileUnchecked(raw) == IF raw = Absent THEN "default" ELSE raw

(* reconcile.rs: parse_profile_label and parse_turbo_label. *)
ParseProfile(raw) == IF raw \in Profiles THEN raw ELSE "default"
InvalidProfile(raw) == raw \notin Profiles \cup {Absent}

TurboStates == {"enabled", "disabled"}
Unmanaged == "unmanaged"
ParseTurbo(raw) == IF raw \in TurboStates THEN raw ELSE Unmanaged
InvalidTurbo(raw) == raw \notin TurboStates \cup {Absent}

(* ReconcileReport; the errors and invalid values are kept as booleans. *)
Report == [profile          : Profiles,
           profileInvalid   : BOOLEAN,
           profileError     : BOOLEAN,
           turbo            : TurboStates \cup {Unmanaged},
           turboInvalid     : BOOLEAN,
           turboError       : BOOLEAN,
           turboUnsupported : BOOLEAN,
           kind             : BackendKinds]

(* The report of reconcile_once on backend b and the labels of node n, on  *)
(* a host in this state.                                                   *)
ReportOf(b, host, n) ==
  LET profile == ParseProfile(n.profile)
      turbo   == ParseTurbo(n.turbo)
      outcome == IF turbo = Unmanaged THEN "ok" ELSE TurboOutcome(b.kind, host)
  IN  [profile          |-> profile,
       profileInvalid   |-> InvalidProfile(n.profile),
       profileError     |-> Blocking(b, profile, host) # {},
       turbo            |-> turbo,
       turboInvalid     |-> InvalidTurbo(n.turbo),
       turboError       |-> outcome = "error",
       turboUnsupported |-> outcome = "unsupported",
       kind             |-> b.kind]

ResultLabel(r) ==
  IF r.profileError \/ r.turboError THEN "error"
  ELSE IF r.profileInvalid \/ r.turboInvalid THEN "invalid_label"
  ELSE IF r.kind = "unsupported" THEN "unsupported"
  ELSE "ok"

(* The four annotations the agent owns, each possibly absent. *)
Annotations == [profile : Profiles \cup {Absent},
                turbo   : TurboStates \cup {Unmanaged, "unsupported", Absent},
                backend : BackendKinds \cup {Absent},
                status  : {"ok", "invalid_label", "unsupported", "error", Absent}]

NoAnnotations == [profile |-> Absent, turbo |-> Absent,
                  backend |-> Absent, status |-> Absent]

DesiredAnnotations(r) ==
  [profile |-> r.profile,
   turbo   |-> IF r.turbo \in TurboStates THEN r.turbo
               ELSE IF r.turboUnsupported THEN "unsupported"
               ELSE Unmanaged,
   backend |-> r.kind,
   status  |-> ResultLabel(r)]

(* Mutation: only the profile and the status are compared. *)
NeedsPatchProfile(current, desired) ==
  current.profile # desired.profile \/ current.status # desired.status

(* Mutation: the annotations are patched after every reconcile. *)
NeedsPatchAlways(current, desired) == desired.status # Absent

NeedsPatch(current, desired) == \E key \in DOMAIN desired : current[key] # desired[key]

(* The reasons emit_events publishes for a report.  The Recorder folds     *)
(* repeated Events into a series, so a set is what the cluster shows.      *)
Reasons == {"InvalidProfileLabel", "InvalidTurboLabel", "ApplyFailed",
            "ProfileUnsupported", "ProfileApplied", "TurboApplied"}

(* Mutation: the warning about the label is the alternative to ApplyFailed. *)
EventsOfElseIf(r) ==
  {reason \in Reasons :
     \/ reason = "InvalidProfileLabel" /\ r.profileInvalid /\ ~ r.profileError
     \/ reason = "ApplyFailed" /\ r.profileError}

EventsOf(r) ==
  {reason \in Reasons :
     \/ reason = "InvalidProfileLabel" /\ r.profileInvalid
     \/ reason = "InvalidTurboLabel" /\ r.turboInvalid
     \/ reason = "ApplyFailed" /\ (r.profileError \/ r.turboError)
     \/ reason = "ProfileUnsupported" /\ ~ r.profileError /\ r.kind = "unsupported"
     \/ reason = "ProfileApplied" /\ ~ r.profileError /\ r.kind # "unsupported"
     \/ reason = "TurboApplied" /\ ~ r.turboError /\ r.turbo # Unmanaged}
=============================================================================
