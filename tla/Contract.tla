------------------------------- MODULE Contract -------------------------------
(***************************************************************************)
(* What power-agent promises whoever labels a Node, said without the loop, *)
(* the watch stream, the resync or the API server.                         *)
(*                                                                         *)
(* The Node wants something.  The agent applies what it wants, or what it  *)
(* wanted a moment ago and the agent has yet to see overtaken; but what    *)
(* the agent has once put behind it does not come back unless the Node     *)
(* wants it again.                                                         *)
(***************************************************************************)
CONSTANTS
  Wishes,    \* what the labels of a Node can mean
  Nothing    \* no wish: no Node, hence none; or nothing applied

VARIABLES
  wanted,     \* what the Node's labels ask for
  applied,    \* what the agent that runs now applied last
  overtaken   \* what the Node no longer wants and the agent may yet apply

vars == <<wanted, applied, overtaken>>

TypeOK ==
  /\ wanted \in Wishes \cup {Nothing}
  /\ applied \in Wishes \cup {Nothing}
  /\ overtaken \subseteq Wishes

Init == wanted \in Wishes /\ applied = Nothing /\ overtaken = {}

Wish == {wanted} \ {Nothing}

(* The labels change, or the Node is deleted or created: the agent may     *)
(* have the last wish in hand already.                                     *)
Edit(w) ==
  /\ w # wanted
  /\ wanted' = w
  /\ overtaken' \subseteq (overtaken \cup Wish) \ {w}
  /\ UNCHANGED applied

Apply ==
  /\ applied' \in overtaken \cup Wish
  /\ overtaken' \subseteq overtaken
  /\ UNCHANGED wanted

(* The agent learns that some of what it was to apply is history. *)
Forget ==
  /\ overtaken' \subseteq overtaken
  /\ UNCHANGED <<wanted, applied>>

(* Another process knows nothing of what was applied before it. *)
Restart ==
  /\ applied' = Nothing /\ overtaken' = {}
  /\ UNCHANGED wanted

Next ==
  \/ \E w \in Wishes \cup {Nothing} : Edit(w)
  \/ Apply \/ Forget \/ Restart

Spec == Init /\ [][Next]_vars

(* With nothing overtaken, an agent that changes what is applied changes   *)
(* it to what the Node wants.                                              *)
NoRelapse ==
  [][overtaken = {} /\ wanted' = wanted /\ applied' # Nothing
       => applied' \in {applied, wanted}]_vars
=============================================================================
