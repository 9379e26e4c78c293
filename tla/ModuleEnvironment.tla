------------------------- MODULE ModuleEnvironment -------------------------
(***************************************************************************)
(* What the names in a script stand for (scic/sem/module_env.cpp and the   *)
(* tables it fills, scic/sem/exprs/expr_context.cpp, and the frames of     *)
(* procedures and methods from scic/sem/code_builder.cpp).                 *)
(*                                                                         *)
(* The table of classes comes first: those that are defined, each with the *)
(* reference to it that belongs to the code of its script, and those that  *)
(* are only declared.  The global items also declare externs and the       *)
(* variables of script 0, which every script may use by name.  A script    *)
(* then has procedures, publics and variables of its own.  When all        *)
(* scripts have their tables, the code of one after the other is built,    *)
(* each body within a frame of parameters and temporaries, and its publics *)
(* get their entries in its dispatch table.  The first error ends the      *)
(* compilation.  Selectors, supers and properties of classes and objects   *)
(* are in GlobalEnvironment; here they are names.                          *)
(***************************************************************************)
EXTENDS Integers, SequencesExt, FiniteSetsExt

CONSTANT
  Programs   (* global items, and the number and the items of each source  *)

(* The items (ast.hpp).                                                    *)
ExternDef == [kind : {"extern"}, name : STRING, module : Int, index : Int]
GlobalDeclDef == [kind : {"globaldecl"}, name : STRING, index : Int]
ModuleVarsDef == [kind : {"local"}, name : STRING, index : Int, size : Int, values : Seq(Int)]
PublicDef == [kind : {"public"}, entries : Seq([name : STRING, index : Int])]
VarDef == [name : STRING, size : Int]
ProcDef == [kind : {"proc"}, name : STRING, params : Seq(STRING), temps : Seq(VarDef)]
ClassDef ==
  [kind : {"class", "object"}, name : STRING, props : SUBSET STRING, methods : Seq(ProcDef)]
ClassDecl == [kind : {"classdecl"}, name : STRING, script : Nat, species : Nat]
GlobalItem == ExternDef \cup GlobalDeclDef \cup ClassDecl
ModuleItem == ModuleVarsDef \cup PublicDef \cup ProcDef \cup ClassDef \cup ClassDecl

ASSUME ProgramAssumption ==
  \A program \in Programs :
    /\ program.global \in Seq(GlobalItem)
    /\ Len(program.modules) > 0
    /\ program.modules \in Seq([script : Nat, items : Seq(ModuleItem)])

VARIABLES
  program,   (* the program that is compiled                               *)
  declared,  (* the declared classes                                       *)
  classes,   (* the class table: the defined ones, and declared ones       *)
  externs,   (* the extern table                                           *)
  globals,   (* the table of declared variables                            *)
  tables,    (* the procedures, publics and variables of each script       *)
  frames,    (* the frames of the definitions built so far, by script      *)
  dispatches,   (* what its publics were dispatched to, by script          *)
  stage,     (* the table that is filled, or "code", or how it ended       *)
  at,        (* the script it is filled for                                *)
  pos        (* the item that comes next                                   *)

env == <<declared, classes, externs, globals>>
vars == <<program, env, tables, frames, dispatches, stage, at, pos>>

-----------------------------------------------------------------------------
Modules == 1..Len(program.modules)
ScriptNum(s) == program.modules[s].script

(* The sources whose code is built: emplace keeps the first of a number.   *)
(* It is done in the order of the numbers.                                 *)
Built == {s \in Modules : \A t \in 1..(s - 1) : ScriptNum(t) # ScriptNum(s)}
After(n) == {s \in Built : ScriptNum(s) > n}
NextScript(n) == CHOOSE s \in After(n) : \A t \in After(n) : ScriptNum(s) <= ScriptNum(t)

(* GetElemsOfTypes, where a declaration of many entries counts as many.    *)
Select(items, kinds) ==
  LET first[n \in 0..Len(items)] ==
        IF n = 0 THEN <<>>
        ELSE IF items[n].kind \in kinds THEN Append(first[n - 1], items[n]) ELSE first[n - 1]
  IN  first[Len(items)]

Elems(items, kind) == Select(items, {kind})
Items(s, kind) == Elems(program.modules[s].items, kind)

(* The procedures, classes and objects of a script, in the order of the    *)
(* source, and the bodies in them: methods know the properties around.     *)
DefinitionKind == {"proc", "class", "object"}
Definitions(s) == Select(program.modules[s].items, DefinitionKind)

BodiesOf(def) ==
  IF def.kind = "proc" THEN <<[item |-> def, props |-> {}]>>
  ELSE [i \in 1..Len(def.methods) |-> [item |-> def.methods[i], props |-> def.props]]

(* More than one public table is refused before any of them is read.       *)
PublicEntries(s) == IF Items(s, "public") = <<>> THEN <<>> ELSE Items(s, "public")[1].entries

ListOf(p) ==
  CASE p = "globalclasses" -> Elems(program.global, "classdecl")
    [] p = "classdecls" -> Items(at, "classdecl")
    [] p = "classdefs" -> Items(at, "class")
    [] p = "copies" -> declared
    [] p = "externs" -> Elems(program.global, "extern")
    [] p = "globals" -> Elems(program.global, "globaldecl")
    [] p = "procs" -> Items(at, "proc")
    [] p = "publics" -> PublicEntries(at)
    [] p = "locals" -> Items(at, "local")
    [] p = "code" -> Definitions(at)
    [] p = "dispatch" -> tables[at].publics

Init ==
  /\ program \in Programs
  /\ declared = <<>> /\ classes = <<>> /\ externs = <<>> /\ globals = <<>>
  /\ tables = [s \in Modules |-> [procs |-> <<>>, publics |-> <<>>, locals |-> <<>>]]
  /\ frames = [s \in Modules |-> <<>>]
  /\ dispatches = [s \in Modules |-> <<>>]
  /\ stage = "globalclasses" /\ at = 1 /\ pos = 1

-----------------------------------------------------------------------------
(* Tables.                                                                 *)
Working == stage \notin {"done", "failed", "crashed"}
At(p) == stage = p /\ pos <= Len(ListOf(p))
Item == ListOf(stage)[pos]

Names(table) == {table[i].name : i \in 1..Len(table)}
Indexes(table) == {table[i].index : i \in 1..Len(table)}

(* emplace keeps the first entry of a name.                                *)
LookupByName(table, name) ==
  table[CHOOSE i \in 1..Len(table) :
          table[i].name = name /\ \A k \in 1..(i - 1) : table[k].name # name]

Advance == pos' = pos + 1 /\ UNCHANGED <<program, stage, at>>

(* Classes.                                                                *)
Species(layer) == {layer[i].species : i \in 1..Len(layer)}

(* A class with the source whose code has the reference to it, if one has. *)
NoModule == 0
DeclaredClass(decl) ==
  [name |-> decl.name, script |-> decl.script, species |-> decl.species, module |-> NoModule]

(* find_next_species: all numbers below those it gave before are taken.    *)
NextSpecies ==
  CHOOSE n \in 0..Len(classes) : n \notin Species(classes) /\ 0..(n - 1) \subseteq Species(classes)

DefinedClass(def) ==
  [name |-> def.name, script |-> ScriptNum(at), module |-> at,
   species |-> IF def.name \in Names(declared) THEN LookupByName(declared, def.name).species
               ELSE NextSpecies]

(* AddClass of a layer.                                                    *)
CanAddClass(layer, class) == class.name \notin Names(layer) /\ class.species \notin Species(layer)

AddClassDecl ==
  /\ At("globalclasses") \/ At("classdecls")
  /\ CanAddClass(declared, DeclaredClass(Item))
  /\ declared' = Append(declared, DeclaredClass(Item))
  /\ Advance
  /\ UNCHANGED <<classes, externs, globals, tables, frames, dispatches>>

AddClassDef ==
  /\ At("classdefs")
  /\ CanAddClass(classes, DefinedClass(Item))
  /\ classes' = Append(classes, DefinedClass(Item))
  /\ Advance
  /\ UNCHANGED <<declared, externs, globals, tables, frames, dispatches>>

(* A declared class is left out when a defined one has its number: itself, *)
(* or a new class that was given it.                                       *)
IsTaken(class) == class.species \in Species(classes)

CopyClass ==
  /\ At("copies")
  /\ \/ IsTaken(Item) /\ UNCHANGED classes
     \/ ~IsTaken(Item) /\ CanAddClass(classes, Item) /\ classes' = Append(classes, Item)
  /\ Advance
  /\ UNCHANGED <<declared, externs, globals, tables, frames, dispatches>>

IsRefused ==
  \/ (At("globalclasses") \/ At("classdecls")) /\ ~CanAddClass(declared, DeclaredClass(Item))
  \/ At("classdefs") /\ ~CanAddClass(classes, DefinedClass(Item))
  \/ At("copies") /\ ~IsTaken(Item) /\ ~CanAddClass(classes, Item)

(* AddExtern: -1 is the kernel.                                            *)
CanAddExtern(entry) ==
  entry.module >= -1 /\ entry.index >= 0 /\ entry.name \notin Names(externs)

AddExtern ==
  /\ At("externs")
  /\ CanAddExtern(Item)
  /\ externs' = Append(externs, Item)
  /\ Advance
  /\ UNCHANGED <<declared, classes, globals, tables, frames, dispatches>>

(* Mutant: it is the same variable when either is the same.                *)
IsDeclared_Either(entry) == entry.name \in Names(globals) \/ entry.index \in Indexes(globals)

(* DeclareVar: a declaration may be repeated as it is ...                  *)
IsDeclared(entry) ==
  \E i \in 1..Len(globals) : globals[i].name = entry.name /\ globals[i].index = entry.index

(* ... but neither its name nor its index may be taken for another.        *)
CanDeclareVar(entry) == entry.name \notin Names(globals) /\ entry.index \notin Indexes(globals)

DeclareVar ==
  /\ At("globals")
  /\ \/ IsDeclared(Item) /\ UNCHANGED globals
     \/ CanDeclareVar(Item) /\ globals' = Append(globals, Item)
  /\ Advance
  /\ UNCHANGED <<declared, classes, externs, tables, frames, dispatches>>

Add(table, entry) ==
  /\ tables' = [tables EXCEPT ![at][table] = Append(@, entry)]
  /\ Advance
  /\ UNCHANGED <<env, frames, dispatches>>

AddProcedure == At("procs") /\ Add("procs", [name |-> Item.name])

(* Mutant: the class of another script will do.                            *)
Entities_AnyScript(s, name) ==
  {k \in {"proc", "object"} : name \in Names(Items(s, k))}
    \cup {k \in {"class"} : name \in Names(classes)}

(* What the name of a public may be: of the class table, what is of this   *)
(* number counts, defined in this source or not.                           *)
Entities(s, name) ==
  {k \in {"proc", "object"} : name \in Names(Items(s, k))}
    \cup {k \in {"class"} : /\ name \in Names(classes)
                             /\ LookupByName(classes, name).script = ScriptNum(s)}

CanAddPublic(entry) ==
  Cardinality(Entities(at, entry.name)) = 1 /\ entry.index \notin Indexes(tables[at].publics)

AddPublic ==
  /\ At("publics")
  /\ CanAddPublic(Item)
  /\ \E kind \in Entities(at, Item.name) :
       Add("publics", [name |-> Item.name, index |-> Item.index, kind |-> kind])

(* AstConstValuesToLiteralValues: one value stands for all words.          *)
WordsOf(entry) ==
  IF Len(entry.values) \in {0, 1} THEN entry.size ELSE Len(entry.values)

(* DefineVar: only the index of the first word must not be taken.          *)
CanDefineVar(entry) ==
  WordsOf(entry) = entry.size /\ entry.index \notin Indexes(tables[at].locals)

(* A size below zero is a very large number of words.                      *)
TooManyWords(entry) == WordsOf(entry) < 0

DefineVar ==
  /\ At("locals")
  /\ CanDefineVar(Item) /\ ~TooManyWords(Item)
  /\ Add("locals", [name |-> Item.name, index |-> Item.index, size |-> Item.size])

-----------------------------------------------------------------------------
(* Frames.                                                                 *)

(* "argc" is parameter 0.                                                  *)
Params(body) == <<"argc">> \o body.params

(* Mutant: an array takes one word.                                        *)
WordsBefore_Array(temps, i) == i - 1

(* The words of the temporaries before one of them.                        *)
WordsBefore(temps, i) ==
  LET words[n \in 0..Len(temps)] == IF n = 0 THEN 0 ELSE words[n - 1] + temps[n].size
  IN  words[i - 1]

FirstOf(list, name) ==
  CHOOSE i \in 1..Len(list) : list[i] = name /\ \A k \in 1..(i - 1) : list[k] # name

(* BuildGenericProcedure: where the parameters and temporaries of a body   *)
(* are, and how many words the temporaries take.                           *)
FrameOf(body) ==
  LET params == Params(body.item)
      temps == body.item.temps
      names == [i \in 1..Len(temps) |-> temps[i].name]
  IN  [props |-> body.props,
       params |-> [n \in Range(params) |-> FirstOf(params, n) - 1],
       temps |-> [n \in Range(names) |-> WordsBefore(temps, FirstOf(names, n))],
       size |-> WordsBefore(temps, Len(temps) + 1)]

(* BuildProcedure, BuildClass, BuildObject: the frames of all bodies.      *)
CanBuild(def) == \A i \in 1..Len(BodiesOf(def)) : IsInjective(Params(BodiesOf(def)[i].item))

(* The name of a procedure or an object refers to one piece of code, once  *)
(* and for all; of two classes with one name, the second was refused       *)
(* before.                                                                 *)
IsRebuilt ==
  \E i \in 1..(pos - 1) : /\ Definitions(at)[i].kind = Item.kind
                         /\ Definitions(at)[i].name = Item.name

BuildDefinition ==
  /\ At("code")
  /\ ~IsRebuilt /\ CanBuild(Item)
  /\ LET bodies == BodiesOf(Item)
     IN  frames' = [frames EXCEPT ![at] =
                      Append(@, [i \in 1..Len(bodies) |-> FrameOf(bodies[i])])]
  /\ Advance
  /\ UNCHANGED <<env, tables, dispatches>>

(* The source whose code has the reference a public is dispatched to.      *)
ModuleOf(s, public) ==
  IF public.kind = "class" THEN LookupByName(classes, public.name).module ELSE s

(* CodeGenerator::AddPublic, which waits for the reference to be resolved. *)
Dispatch ==
  /\ At("dispatch")
  /\ ModuleOf(at, Item) # NoModule
  /\ dispatches' = [dispatches EXCEPT ![at] =
                      Append(@, [index |-> Item.index, module |-> ModuleOf(at, Item)])]
  /\ Advance
  /\ UNCHANGED <<env, tables, frames>>

-----------------------------------------------------------------------------
Go(p, s) ==
  /\ stage' = p /\ at' = s /\ pos' = 1
  /\ UNCHANGED <<program, env, tables, frames, dispatches>>

(* One table is full, and then the tables or the code of one script.       *)
EndStage ==
  /\ Working /\ pos > Len(ListOf(stage))
  /\ \/ stage = "globalclasses" /\ Go("classdecls", at)
     \/ stage = "classdecls" /\ at < Len(program.modules) /\ Go("classdecls", at + 1)
     \/ stage = "classdecls" /\ at = Len(program.modules) /\ Go("classdefs", 1)
     \/ stage = "classdefs" /\ at < Len(program.modules) /\ Go("classdefs", at + 1)
     \/ stage = "classdefs" /\ at = Len(program.modules) /\ Go("copies", 1)
     \/ stage = "copies" /\ Go("externs", at)
     \/ stage = "externs" /\ Go("globals", at)
     \/ stage = "globals" /\ Go("procs", at)
     \/ stage = "procs" /\ Len(Items(at, "public")) <= 1 /\ Go("publics", at)
     \/ stage = "publics" /\ Go("locals", at)
     \/ stage = "locals" /\ at < Len(program.modules) /\ Go("procs", at + 1)
     \/ stage = "locals" /\ at = Len(program.modules) /\ Go("code", NextScript(-1))
     \/ stage = "code" /\ Go("dispatch", at)
     \/ /\ stage = "dispatch" /\ After(ScriptNum(at)) # {}
        /\ Go("code", NextScript(ScriptNum(at)))
     \/ stage = "dispatch" /\ After(ScriptNum(at)) = {} /\ Go("done", at)

End(how) ==
  stage' = how /\ UNCHANGED <<program, env, tables, frames, dispatches, at, pos>>

(* An error, which ends the compilation.                                   *)
Fail ==
  /\ \/ IsRefused
     \/ At("externs") /\ ~CanAddExtern(Item)
     \/ At("globals") /\ ~IsDeclared(Item) /\ ~CanDeclareVar(Item)
     \/ stage = "procs" /\ pos > Len(ListOf("procs")) /\ Len(Items(at, "public")) > 1
     \/ At("publics") /\ ~CanAddPublic(Item)
     \/ At("locals") /\ ~CanDefineVar(Item) /\ ~TooManyWords(Item)
     \/ At("code") /\ ~CanBuild(Item) /\ ~(IsRebuilt /\ Item.kind = "object")
  /\ End("failed")

(* The memory does not hold a variable, the reference of a procedure or an *)
(* object is resolved a second time, for other code, which throws, or a    *)
(* public is a class without a reference, of which nobody has made sure.   *)
Crash ==
  /\ \/ At("locals") /\ TooManyWords(Item)
     \/ At("code") /\ IsRebuilt /\ (CanBuild(Item) \/ Item.kind = "object")
     \/ At("dispatch") /\ ModuleOf(at, Item) = NoModule
  /\ End("crashed")

Terminated == ~Working /\ UNCHANGED vars

Next ==
  \/ AddClassDecl \/ AddClassDef \/ CopyClass
  \/ AddExtern \/ DeclareVar
  \/ AddProcedure \/ AddPublic \/ DefineVar
  \/ BuildDefinition \/ Dispatch
  \/ EndStage \/ Fail \/ Crash
  \/ Terminated

Spec == Init /\ [][Next]_vars

-----------------------------------------------------------------------------
(* Names in an expression (LookupSym, LookupProc).                         *)
Ambiguous == [sym |-> "ambiguous"]
NotFound == [sym |-> "not found"]

(* What a name may be when it is neither in the frame nor a property.      *)
Candidates(s, name) ==
  {k \in {"local", "global", "object", "class"} :
     CASE k = "local" -> name \in Names(tables[s].locals)
       [] k = "global" -> name \in Names(globals)
       [] k = "object" -> name \in Names(Items(s, "object"))
       [] k = "class" -> name \in Names(classes)}

LocalSym(s, name) == [sym |-> "local", offset |-> LookupByName(tables[s].locals, name).index]
GlobalSym(name) == [sym |-> "global", offset |-> LookupByName(globals, name).index]

(* Mutant: a variable of script 0 is the global of its name.               *)
SameWord_Name(s, name) == ScriptNum(s) = 0

(* Script 0 declares its own variables as globals too.                     *)
SameWord(s, name) ==
  ScriptNum(s) = 0 /\ LocalSym(s, name).offset = GlobalSym(name).offset

OuterSym(s, name) ==
  LET found == Candidates(s, name)
  IN  CASE found = {} -> NotFound
        [] found = {"local", "global"} /\ SameWord(s, name) -> LocalSym(s, name)
        [] found = {"local", "global"} /\ ~SameWord(s, name) -> Ambiguous
        [] Cardinality(found) > 1 /\ found # {"local", "global"} -> Ambiguous
        [] found = {"local"} -> LocalSym(s, name)
        [] found = {"global"} -> GlobalSym(name)
        [] OTHER -> [sym |-> CHOOSE k \in found : TRUE, name |-> name]

LookupSym(s, frame, name) ==
  LET param == name \in DOMAIN frame.params
      temp == name \in DOMAIN frame.temps
  IN  CASE param /\ temp -> Ambiguous
        [] param /\ ~temp -> [sym |-> "param", offset |-> frame.params[name]]
        [] temp /\ ~param -> [sym |-> "temp", offset |-> frame.temps[name]]
        [] ~param /\ ~temp /\ name \in frame.props -> [sym |-> "prop", name |-> name]
        [] OTHER -> OuterSym(s, name)

LookupProc(s, name) ==
  LET proc == name \in Names(tables[s].procs)
      extern == name \in Names(externs)
      ext == LookupByName(externs, name)
  IN  CASE proc /\ extern -> Ambiguous
        [] ~proc /\ ~extern -> NotFound
        [] proc /\ ~extern -> [sym |-> "proc", name |-> name]
        [] extern /\ ~proc /\ ext.module = -1 -> [sym |-> "kernel", offset |-> ext.index]
        [] OTHER -> [sym |-> "extern", script |-> ext.module, offset |-> ext.index]

-----------------------------------------------------------------------------
(* The word a name of a variable stands for, with the script it is in.     *)
WordOf(s, name) ==
  LET sym == OuterSym(s, name)
  IN  CASE sym.sym = "local" -> <<ScriptNum(s), sym.offset>>
        [] sym.sym = "global" -> <<0, sym.offset>>
        [] OTHER -> <<>>

(* A declared global names one word of script 0 in every script, script 0  *)
(* included, or is refused there: what one script writes under a name the  *)
(* others read under it (LookupSym in expr_context.cpp).                   *)
GlobalsMeanTheSame ==
  stage \in {"code", "dispatch", "done"} =>
    \A s \in Modules, name \in Names(globals) :
      WordOf(s, name) \in {<<>>, <<0, LookupByName(globals, name).index>>}

Decls == Elems(program.global, "globaldecl")

(* Past the global table, two declarations have one name exactly when they *)
(* have one word, and each is there once; and a set of declarations that   *)
(* agree so is never refused, repeated or not and in any order (DeclareVar *)
(* in var_table.cpp).                                                      *)
DeclarationsAgree ==
  LET agree == \A i, k \in 1..Len(Decls) :
                 (Decls[i].name = Decls[k].name) <=> (Decls[i].index = Decls[k].index)
  IN  /\ stage \in {"procs", "publics", "locals", "code", "dispatch", "done"} =>
           agree /\ Len(globals) = Cardinality(Range(Decls))
      /\ At("globals") /\ agree => IsDeclared(Item) \/ CanDeclareVar(Item)

(* When all code could be built, what a script makes public is exactly one *)
(* thing that it defines itself, and another script that calls a number of *)
(* it can mean nothing else (BuildPublicTable, AddEntry, BuildCode).  Only *)
(* where two sources have one number may it be a class of the other one,   *)
(* which is left out of the build, though the reference to a class "_must  *)
(* not_ be used in other codegen instances" (class_table.hpp:51).  (A      *)
(* class that is only declared is accepted too, but does not get here.)    *)
PublicsAreDefinedHere ==
  stage = "done" =>
    \A s \in Built :
      LET publics == tables[s].publics
          items == program.modules[s].items
          defining(name) == {k \in 1..Len(items) :
                               items[k].kind \in DefinitionKind /\ items[k].name = name}
      IN  /\ Len(dispatches[s]) = Len(publics)
          /\ \A i \in 1..Len(publics) :
               LET name == publics[i].name
                   module == dispatches[s][i].module
               IN  /\ module = s => Cardinality(defining(name)) = 1
                   /\ module # s => /\ module \in Modules \ Built
                                    /\ ScriptNum(module) = ScriptNum(s)
                                    /\ name \in Names(Items(module, "class"))
                                    /\ defining(name) = {}
          /\ \A i, k \in 1..Len(publics) :
               dispatches[s][i].index = dispatches[s][k].index => i = k

(* The words of a temporary.                                               *)
SizeOf(temps, name) ==
  temps[CHOOSE i \in 1..Len(temps) :
          temps[i].name = name /\ \A k \in 1..(i - 1) : temps[k].name # name].size

(* Two names of a body never share a word, and each lies in the words the  *)
(* link instruction makes room for, unless a size is below zero, which     *)
(* nobody refuses (BuildGenericProcedure).                                 *)
NamesHaveTheirOwnWords ==
  \A s \in Modules : \A d \in 1..Len(frames[s]) : \A i \in 1..Len(frames[s][d]) :
    LET frame == frames[s][d][i]
        item == BodiesOf(Definitions(s)[d])[i].item
        words(name) == frame.temps[name]..(frame.temps[name] + SizeOf(item.temps, name) - 1)
    IN  /\ IsInjective(frame.params)
        /\ (\A t \in Range(item.temps) : t.size >= 0) =>
             /\ \A a \in DOMAIN frame.temps : words(a) \subseteq 0..(frame.size - 1)
             /\ \A a, b \in DOMAIN frame.temps : a # b => words(a) \cap words(b) = {}
=============================================================================
