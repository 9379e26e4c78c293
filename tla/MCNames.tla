------------------------------- MODULE MCNames -------------------------------
(***************************************************************************)
(* Programs of up to two scripts whose declarations meet one another: the  *)
(* same names and words declared twice, in the global items, in script 0   *)
(* and in another script, with publics and bodies that use those names;    *)
(* classes that are declared, defined or both, in sources that come in any *)
(* order or have one number.                                               *)
(***************************************************************************)
EXTENDS ModuleEnvironment

Extern(name, module, index) == [kind |-> "extern", name |-> name, module |-> module, index |-> index]
GlobalDecl(name, index) == [kind |-> "globaldecl", name |-> name, index |-> index]
Local(name, index, size, values) ==
  [kind |-> "local", name |-> name, index |-> index, size |-> size, values |-> values]
Temp(name, size) == [name |-> name, size |-> size]
Proc(name, params, temps) == [kind |-> "proc", name |-> name, params |-> params, temps |-> temps]
Class(name, methods) == [kind |-> "class", name |-> name, props |-> {"y"}, methods |-> methods]
ClassDeclared(name, script, species) ==
  [kind |-> "classdecl", name |-> name, script |-> script, species |-> species]
Object(name, methods) == [kind |-> "object", name |-> name, props |-> {"y"}, methods |-> methods]
Public(entries) == [kind |-> "public", entries |-> entries]
Entry(name, index) == [name |-> name, index |-> index]

Script(n, items) == [script |-> n, items |-> items]
Some(S) == {<<>>} \cup {<<s>> : s \in S}
UpTo2(S) == Some(S) \cup {<<s, t>> : s \in S, t \in S}

(* Declared variables against those of script 0 and of another script.     *)
Plain == Proc("p", <<>>, <<>>)
VarPrograms ==
  LET decls == {GlobalDecl(n, i) : n \in {"x", "y"}, i \in 0..1}
      locals == {Local(n, i, 1, <<>>) : n \in {"x", "y"}, i \in 0..1}
      others == {<<>>, <<Class("x", <<Proc("go", <<"y">>, <<>>)>>)>>, <<Object("y", <<Plain>>)>>}
  IN  {[global |-> ds,
        modules |-> <<Script(0, ls \o <<Plain>>),
                      Script(1, ms \o os \o <<Proc("q", <<"x">>, <<Temp("x", 1), Temp("y", 2)>>)>>)>>] :
         ds \in UpTo2(decls), ls \in UpTo2(locals), ms \in Some(locals), os \in others}

(* Publics of what a script defines, does not define, or defines twice.    *)
PublicPrograms ==
  LET entries == {Entry(n, i) : n \in {"x", "y", "z"}, i \in 0..1}
      things == {Proc("x", <<>>, <<>>), Class("x", <<>>), Object("y", <<>>), Proc("y", <<>>, <<>>)}
  IN  {[global |-> <<>>,
        modules |-> <<Script(0, ts), Script(1, us \o <<Public(es)>>)>>] :
         ts \in {<<>>, <<Class("z", <<>>)>>}, us \in UpTo2(things),
         es \in UpTo2(entries)}

(* Classes that are declared for a script or defined in one, or in two.    *)
ClassPrograms ==
  LET decls == {ClassDeclared(n, script, i) : n \in {"x", "z"}, script \in 0..1, i \in 0..1}
      defined == UpTo2({Class("x", <<>>)}) \cup {<<Class("z", <<>>)>>}
      publics == {<<Public(<<Entry(n, 0)>>)>> : n \in {"x", "z"}}
  IN  {[global |-> ds,
        modules |-> <<Script(numbers[1], cs \o ps), Script(numbers[2], es \o fs)>>] :
         ds \in Some(decls), es \in Some(decls), cs \in defined, fs \in defined, ps \in publics,
         numbers \in {<<0, 1>>, <<1, 0>>, <<1, 1>>}}

(* Externs, tables given twice, values that do not fit.                    *)
TablePrograms ==
  LET exts == {Extern(n, m, i) : n \in {"x", "y"}, m \in {-2, -1, 1}, i \in {-1, 2}}
      odd == {<<Public(<<>>), Public(<<>>)>>}
             \cup {<<Local("x", 0, size, values)>> :
                     size \in -1..2, values \in {<<>>, <<7>>, <<7, 8>>, <<7, 8, 9>>}}
  IN  {[global |-> es, modules |-> <<Script(1, os \o <<Proc("y", <<>>, <<>>)>>)>>] :
         es \in UpTo2(exts), os \in odd}

(* Frames.                                                                 *)
FramePrograms ==
  LET temps == {Temp(n, size) : n \in {"x", "z"}, size \in {-1, 1, 2, 3}}
      params == {<<>>, <<"x">>, <<"x", "y">>, <<"x", "x">>, <<"argc">>}
  IN  {[global |-> <<>>,
        modules |-> <<Script(0, <<Object("o", <<Proc("go", ps, ts)>>)>>)>>] :
         ps \in params, ts \in UpTo2(temps) \cup {<<t, u, Temp("y", 1)>> : t \in temps, u \in temps}}

MCPrograms ==
  VarPrograms \cup PublicPrograms \cup ClassPrograms \cup TablePrograms \cup FramePrograms
=============================================================================
