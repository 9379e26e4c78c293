----------------------------- MODULE ForwardRef -----------------------------
(***************************************************************************)
(* References that may be used before what they refer to exists            *)
(* (util/types/forward_ref.hpp).  The users of a reference leave callbacks *)
(* with it, each of which patches one place of the node that was made for  *)
(* them; once the reference is resolved a new user is called at once.      *)
(***************************************************************************)

CONSTANTS
  Names,       (* the references                                           *)
  Sites,       (* the places the callbacks patch                           *)
  Nodes,       (* what a reference may be resolved to                      *)
  Unresolved   (* neither a node nor a place to find one                   *)

ASSUME UnresolvedAssumption == Unresolved \notin Nodes

VARIABLES
  value,    (* value[n]: the node reference n is resolved to               *)
  waiting,  (* waiting[n]: the places whose callbacks wait for n           *)
  target    (* target[s]: the node place s points to                       *)

refVars == <<value, waiting, target>>

InitRefs ==
  /\ value = [n \in Names |-> Unresolved]
  /\ waiting = [n \in Names |-> {}]
  /\ target = [s \in Sites |-> Unresolved]

IsResolved(n) == value[n] # Unresolved

(* Mutant: whoever comes late waits for ever.                              *)
RegisterCallback_WaitAlways(n, s) ==
  /\ waiting' = [waiting EXCEPT ![n] = @ \cup {s}]
  /\ UNCHANGED <<value, target>>

RegisterCallback(n, s) ==
  \/ /\ IsResolved(n)
     /\ target' = [target EXCEPT ![s] = value[n]]
     /\ UNCHANGED <<value, waiting>>
  \/ /\ ~IsResolved(n)
     /\ waiting' = [waiting EXCEPT ![n] = @ \cup {s}]
     /\ UNCHANGED <<value, target>>

(* Mutant: those who waited for another reference are called.              *)
Resolve_CallAll(n, node) ==
  /\ value' = [value EXCEPT ![n] = node]
  /\ target' = [s \in Sites |->
                  IF \E m \in Names : s \in waiting[m] THEN node ELSE target[s]]
  /\ waiting' = [waiting EXCEPT ![n] = {}]

(* To resolve a reference again, to something else, is an error that is    *)
(* thrown; to the same, it changes nothing.                                *)
Resolve(n, node) ==
  \/ /\ value[n] = node
     /\ UNCHANGED refVars
  \/ /\ ~IsResolved(n)
     /\ value' = [value EXCEPT ![n] = node]
     /\ target' = [s \in Sites |-> IF s \in waiting[n] THEN node ELSE target[s]]
     /\ waiting' = [waiting EXCEPT ![n] = {}]

RefsTypeOK ==
  /\ value \in [Names -> Nodes \cup {Unresolved}]
  /\ waiting \in [Names -> SUBSET Sites]
  /\ target \in [Sites -> Nodes \cup {Unresolved}]

=============================================================================
