-------------------------- MODULE BranchRelaxation --------------------------
(***************************************************************************)
(* What shortening the transfers of a code hunk promises, without passes,  *)
(* stored offsets or an order: a transfer may become short whenever its    *)
(* target is near in the layout of the moment, and when none is left that  *)
(* may, the hunk is settled.                                               *)
(***************************************************************************)
EXTENDS HunkNodes, FiniteSets

VARIABLES
  prog,     (* the nodes of the hunk                                       *)
  short,    (* the transfers that are short                                *)
  settled   (* the layout is final                                         *)

vars == <<prog, short, settled>>

CanShrink(p) == {i \in DOMAIN p : p[i].kind \in Transfers /\ p[i].target # 0}

(* Where each node starts when the transfers in S are short.               *)
Layout(p, S) ==
  LET start[i \in 1..(Len(p) + 1)] ==
        IF i = 1 THEN 0 ELSE start[i - 1] + SizeOf(p[i - 1], (i - 1) \in S)
  IN  start

(* The transfers whose target is near when the transfers in S are short.   *)
Near(p, S) ==
  LET start == Layout(p, S)
      Base(i) == start[i] + (IF p[i].kind = "call" THEN 5 ELSE 4)
  IN  {i \in CanShrink(p) : canOptimizeTransfer(start[p[i].target], Base(i))}

Init ==
  /\ IsProgram(prog)
  /\ short = {}
  /\ settled = FALSE

Shorten(i) ==
  /\ ~settled
  /\ i \in Near(prog, short) \ short
  /\ short' = short \cup {i}
  /\ UNCHANGED <<prog, settled>>

Settle ==
  /\ ~settled
  /\ Near(prog, short) \subseteq short
  /\ settled' = TRUE
  /\ UNCHANGED <<prog, short>>

Next == (\E i \in DOMAIN prog : Shorten(i)) \/ Settle

Spec == Init /\ [][Next]_vars

-----------------------------------------------------------------------------
(* The least set of short transfers no transfer can be added to.           *)
LeastClosed(p) ==
  LET closed == {S \in SUBSET CanShrink(p) : Near(p, S) \subseteq S}
  IN  {i \in CanShrink(p) : \A S \in closed : i \in S}

(* The order in which transfers are shortened does not matter: whatever    *)
(* the passes of OptimizeHunk visit first, they settle on the same layout. *)
OrderDoesNotMatter == settled => short = LeastClosed(prog)

=============================================================================
