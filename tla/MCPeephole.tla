----------------------------- MODULE MCPeephole -----------------------------
(***************************************************************************)
(* Peephole on every procedure of a few instructions of an alphabet, run   *)
(* on the interpreter before, during and after.                            *)
(***************************************************************************)
EXTENDS Beliefs

CONSTANTS
  Length,     (* instructions of a procedure before its return             *)
  Alphabets   (* the instructions it is made of: one of these sets         *)

Ret == Instr("ret", 0)
Load(v, a) == Access("load", v, a, FALSE, FALSE)
Store(v, a) == Access("store", v, a, TRUE, FALSE)
Inc(v, a) == Access("inc", v, a, FALSE, FALSE)

(* What the code generator makes of expressions on variables and constants, *)
(* of branches, of properties, and of counting.                             *)
CoreAlphabet ==
  {Load("tmp", 0), Load("tmp", 1), Store("tmp", 0), Instr("push", 0),
   Instr("pushi", 3), Instr("loadi", 3), Instr("add", 0), Instr("callk", 0),
   Instr("dup", 0)}

BranchAlphabet ==
  {Instr("label", 1), Instr("label", 2), Instr("bnt", 1), Instr("bt", 2),
   Instr("jmp", 2), Load("tmp", 0), Instr("push", 0), Store("tmp", 1)}

PropertyAlphabet ==
  {Instr("pToa", 2), Instr("aTop", 4), Instr("push", 0), Instr("pToa", 4),
   Instr("ipToa", 2), Instr("selfID", 0), Instr("send", 1), Instr("pushi", 1)}

IncAlphabet ==
  {Load("tmp", 0), Inc("tmp", 0), Instr("push", 0), Store("tmp", 1),
   Instr("eq", 0), Instr("pprev", 0), Instr("toss", 0)}

(* A procedure without loops runs at most this long.                       *)
MCFuel == 2 * Length + 6

Memory(a, b, p) ==
  (At("tmp", 0) :> a) @@ (At("tmp", 1) :> b)
  @@ (At("prop", 2) :> p) @@ (At("prop", 4) :> 19)

MCStarts == {Start(acc, <<8, 9>>, Memory(1, 0, 17)) : acc \in {0, 5}}
            \cup {Start(6, <<8, 9>>, Memory(0, 14, 0))}

(* The compiler makes no code that takes from the stack what is not there, *)
(* nor jumps that only lead to each other.                                 *)
IsSane(p) == \A s \in Starts : Finish(p, s).status # "fault"

JumpTo(p, n) ==
  /\ p[n].op = "jmp"
  /\ p[FindNextOp(p, p[n].arg)].op \in BranchOps

(* A constant, a property or self is loaded and pushed, and whatever comes *)
(* next may still want it in the accumulator: the code generator makes     *)
(* such code, and the optimizer gets it wrong (MCCompiler shows it).       *)
KeepsWhatItPushed(p) ==
  \E i, j \in 1..Len(p) :
    /\ i < j
    /\ p[i].op \in {"loadi", "pToa", "selfID"}
    /\ p[j].op \in {"push", "pushi"}
    /\ \A k \in (i + 1)..j : ~OpCanModifyAccum(p[k])
    /\ \/ OpReadsAccum(p[j + 1])
       \/ ~OpCanModifyAccum(p[j + 1])
       \/ p[j + 1] = p[i]

ProcsOver(alphabet, n) ==
  {p \in {Append(b, Ret) : b \in [1..n -> alphabet]} :
     /\ IsProc(p)
     /\ ~KeepsWhatItPushed(p)
     /\ \A i \in 1..Len(p) : ~JumpTo(p, i)
     /\ IsSane(p)}

MCProcs == UNION {ProcsOver(alphabet, Length) : alphabet \in Alphabets}

AllAlphabets == {CoreAlphabet, BranchAlphabet, PropertyAlphabet, IncAlphabet}
-----------------------------------------------------------------------------
(* The optimized procedure does what the procedure did: it returns the     *)
(* same, leaves the same variables and the same stack, and makes the same  *)
(* calls, whatever it is started with.                                     *)
SameMeaning ==
  phase = "done" =>
    \A s \in Starts :
      Finish(source, s).status = "done" =>
        Outcome(Finish(list, s)) = Outcome(Finish(source, s))

=============================================================================
