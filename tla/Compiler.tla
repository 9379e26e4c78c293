------------------------------ MODULE Compiler ------------------------------
(***************************************************************************)
(* The way of a procedure through the compiler: BuildCode                  *)
(* (scic/sem/code_builder.cpp) has its body built by ExprBuilder, and      *)
(* CodeGenerator::Assemble (scic/codegen/code_generator.cpp) has the       *)
(* optimizer work on it, unless the option -z turns that off.  The layout  *)
(* of the instructions follows (HunkLayout).                               *)
(***************************************************************************)
EXTENDS SciLanguage

CONSTANTS
  PlainExprs,      (* the bodies to compile without the optimizer          *)
  OptimizedExprs   (* the bodies to compile with it                        *)

VARIABLES
  expr,     (* the body of the procedure                                   *)
  opt,      (* CodeGenerator::opt: "OPTIMIZE" or "NO_OPTIMIZE"             *)
  source, list, cursor, accum, top, changed, hop, phase
            (* the optimizer; phase is "failed" if there is no code        *)

optimizerVars == <<source, list, cursor, accum, top, changed, hop, phase>>
vars == <<expr, opt, optimizerVars>>

Codes == {Procedure(e) : e \in PlainExprs \cup OptimizedExprs}

Optimizer == INSTANCE Peephole WITH Procs <- Codes

(* An error the builder returns ends the compilation.                      *)
Init ==
  /\ \/ opt = "NO_OPTIMIZE" /\ expr \in PlainExprs
     \/ opt = "OPTIMIZE" /\ expr \in OptimizedExprs
  /\ Optimizer!Begin(Procedure(expr))
  /\ phase = IF Fails(source) THEN "failed"
             ELSE IF opt = "OPTIMIZE" THEN "pass"
             ELSE "done"

Next == Optimizer!Next /\ UNCHANGED <<expr, opt>>

Spec == Init /\ [][Next]_vars

(* One thread runs the compiler.                                           *)
FairSpec == Spec /\ WF_vars(Next)

-----------------------------------------------------------------------------
(* Every compilation comes to an end.                                      *)
Termination == <>(phase \in {"done", "failed"})

=============================================================================
