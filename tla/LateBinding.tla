---------------------------- MODULE LateBinding ----------------------------
(***************************************************************************)
(* What the references of a script promise: a place that names something   *)
(* is bound, at some moment, to what that name stands for, and stays so.   *)
(* The order in which uses and definitions come does not show.             *)
(***************************************************************************)
CONSTANTS
  Sites,       (* the places that may name something                       *)
  Unbound

VARIABLES
  meant,       (* meant[s]: what the name at s stands for                  *)
  bound        (* bound[s]: what s is bound to                             *)

Init == bound = [s \in Sites |-> Unbound]

Bind ==
  /\ DOMAIN bound' = Sites
  /\ \A s \in Sites :
       bound'[s] # bound[s] => bound[s] = Unbound /\ bound'[s] = meant[s]
  /\ UNCHANGED meant

Spec == Init /\ [][Bind]_<<meant, bound>>

=============================================================================
