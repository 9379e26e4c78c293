------------------------------ MODULE Beliefs -------------------------------
(***************************************************************************)
(* What the optimizer believes, against what the interpreter finds: the    *)
(* procedure as it is at each moment of a pass (Peephole) is run, and its  *)
(* accumulator and stack compared with accType and stackType wherever the  *)
(* run comes to the cursor.                                                *)
(***************************************************************************)
EXTENDS Peephole

CONSTANTS
  Starts,     (* the states of the interpreter a procedure is started in   *)
  Fuel        (* the instructions it is run for                            *)

IsState(s) ==
  s \in [acc : Int, prev : Int, stack : Seq(Int), mem : [DOMAIN s.mem -> Int],
         calls : Seq(Int \X Seq(Int)), pc : Int,
         status : {"running", "done", "fault"}]

ASSUME MachineAssumption ==
  /\ Fuel \in Nat
  /\ \A s \in Starts : IsState(s) /\ s.pc = 1 /\ s.status = "running"

Finish(code, s) == Run(code, s, Fuel)

-----------------------------------------------------------------------------
(* The states in which an execution of the procedure comes to the cursor,  *)
(* where it is not at a label, at which the pass forgets all.              *)
Arrivals(s) ==
  LET run[k \in 0..Fuel] == IF k = 0 THEN s ELSE Step(list, run[k - 1])
  IN  {run[k] : k \in {j \in 0..Fuel : /\ run[j].pc = cursor
                                     /\ run[j].status = "running"
                                     /\ cursor <= Len(list)
                                     /\ It.op # "label"}}

Agrees(known, value, s) ==
  CASE known.type = "imm" -> value = known.val
    [] known.type = "self" -> value = Self
    [] known.type = "unknown" -> TRUE
    [] OTHER -> value = Fetch(s, At(known.type, known.val))

(* An access to an array is taken for one to the variable at its base.     *)
IsPlain(code) == \A i \in 1..Len(code) : ~code[i].index

(* What the pass believes the accumulator to hold it does hold, each time  *)
(* an execution of the procedure as it is now comes to the cursor: a load  *)
(* of that may be dropped (OptimizeProc).                                  *)
AccumulatorIsKnown ==
  IsPlain(source) =>
    \A s \in Starts : \A t \in Arrivals(s) : Agrees(accum, t.acc, t)

(* The same of the top of the stack: a push of that may be made a dup.     *)
(* Of counted variables, properties and pprev, the pass believes           *)
(* things of the stack that are no longer true, so that the claim is made  *)
(* of procedures without them.                                             *)
MisleadingOps ==
  {"inc", "dec", "pToa", "ipToa", "dpToa", "aTop", "pTos", "pprev"}

IsHonest(code) == \A i \in 1..Len(code) : code[i].op \notin MisleadingOps

StackTopIsKnown ==
  IsPlain(source) /\ IsHonest(source) =>
    \A s \in Starts : \A t \in Arrivals(s) :
      t.stack # <<>> => Agrees(top, Top(t), t)

(* Where ExecutionClobbersAccum says that the accumulator does not matter  *)
(* any more, the procedure goes on the same whatever is in it.             *)
ClobberedMeansUnread ==
  phase = "done" =>
    \A n \in 1..Len(source) :
      ExecutionClobbersAccum(source, n) =>
        \A s \in Starts :
          LET from(acc) == [s EXCEPT !.pc = n, !.acc = acc]
          IN  Finish(source, from(0)).status = "done" =>
                Outcome(Finish(source, from(0))) = Outcome(Finish(source, from(1)))

(* What the pass goes by is so: of the accumulator, of the stack, and of   *)
(* what happens later (OptimizeProc, ExecutionClobbersAccum).              *)
BeliefsHold == AccumulatorIsKnown /\ StackTopIsKnown /\ ClobberedMeansUnread

=============================================================================
