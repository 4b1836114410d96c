---------------------------- MODULE Provisioning ----------------------------
(***************************************************************************)
(* What a provisioning controller promises to the readers of the status it *)
(* publishes, whatever the order in which it works: the outside resources  *)
(* (database rows, topics) are only ever added, each after the ones it     *)
(* depends on, and a status only names a target whose resources all exist. *)
(***************************************************************************)
CONSTANTS
  Keys,      \* the objects that carry a status
  Targets,   \* what a status can name
  Resource,  \* the outside resources
  Requires,  \* Requires[x]: the resources that must exist before x
  Needs,     \* Needs[t]: the resources a status naming t stands for
  None       \* a status that names nothing

VARIABLES made, claim

Init == made = {} /\ claim = [k \in Keys |-> None]

Make(x) ==
  /\ Requires[x] \subseteq made
  /\ made' = made \cup {x}
  /\ UNCHANGED claim

Claim(k, t) ==
  /\ Needs[t] \subseteq made
  /\ claim' = [claim EXCEPT ![k] = t]
  /\ UNCHANGED made

(* The object goes away, or is created again with an empty status. *)
Withdraw(k) ==
  /\ claim' = [claim EXCEPT ![k] = None]
  /\ UNCHANGED made

Next ==
  \/ \E x \in Resource : Make(x)
  \/ \E k \in Keys, t \in Targets : Claim(k, t)
  \/ \E k \in Keys : Withdraw(k)

Spec == Init /\ [][Next]_<<made, claim>>
=============================================================================
