---------------------------- MODULE MCHunkLayout ----------------------------
(* HunkLayout on every hunk of a few nodes, with runs of instructions      *)
(* whose lengths bring the transfers across them to the limit of 128.      *)
EXTENDS HunkLayout

CONSTANTS
  Length,       (* nodes of a hunk                                         *)
  RunLengths    (* lengths of the runs of plain instructions               *)

Op(s) == [kind |-> "op", size |-> s, target |-> 0]
SendTo(s) == [kind |-> "send", size |-> s, target |-> 0]
Label == [kind |-> "label", size |-> 0, target |-> 0]
Transfer(k, t) == [kind |-> k, size |-> 0, target |-> t]

NodesAt == {Op(s) : s \in RunLengths} \cup {Label, SendTo(1)}
           \cup {Transfer("branch", t) : t \in 1..Length}
           \cup {Transfer("call", t) : t \in {0, 1, Length}}

MCPrograms == {p \in [1..Length -> NodesAt] : IsProgram(p)}

=============================================================================
