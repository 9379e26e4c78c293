# A verification project for sci-compiler

`scic` compiles scripts of Sierra's SCI adventure games into the two files the
interpreter loads, the heap (`N.hep`) and the hunk (`N.scr`). This directory holds TLA+
models of the compiler from its characters to its files, the TLC configurations that check
them, and proofs that TLAPS checks. The compiler is one sequential process. What can go
wrong in it are rewrites that are right only if later code does not look, passes that judge
by the state of an earlier pass, names used before they are defined, numbers at a limit,
errors half way, and loops that need a reason to end. The one part that is shared between
processes is the class database of the original compiler `sc` (`scic/legacy`), which several
people update at once.

- [The system](#the-system)
- [The modules](#the-modules)
- [What is checked](#what-is-checked)
- [What is proved](#what-is-proved)
- [What is not modelled](#what-is-not-modelled)
- [Defects](#defects)
- [Plan](#plan)

## The system

`RunMain` (`scic/frontend/scic.cpp`) runs these phases; the first error ends it.

    files -> tokens -> list trees (preprocessor) -> items -> tables -> code -> layout -> files

| Part | State it keeps | Operations | What makes it correct |
|---|---|---|---|
| `tokens` | position in the text, pushed tokens | next token, push tokens | line ends are one character; pushed tokens come first |
| `parsers/list_tree` | stack of conditional frames, defines, open lists | next token, directives, `define`, `include` | exactly the tokens of the taken clauses are produced; it ends |
| `parsers/sci` | none (functions on lists) | parse an item, an expression | every list is an item or an error |
| `sem` selector table | names, numbers, names without a number | declare, use, build | names and numbers correspond; gaps are filled in order |
| `sem` class table, property lists, objects | two layers of classes, property lists, objects | add, set supers, resolve properties, add object | a property has one place in a class and all its subclasses; declared numbers are kept |
| `sem` variable, procedure, public, extern tables | entries by name and by number | declare, define, look up | no two variables share a word; a number is one public |
| `sem` expression builder | loops around the expression, parameters, temporaries | an operation for each kind of expression | the code means what the expression means; the stack is balanced |
| `sem` code builder | none | calls to the code generator, item by item | everything that is named is made |
| `codegen` code generator | texts, variables, lists of nodes of heap and hunk, references not yet bound | create objects, functions, publics, texts; assemble | every reference is bound to what it names |
| `codegen` optimizer | the instruction list, what accumulator and top of stack are believed to hold | passes until nothing changes | the procedure does what it did |
| `codegen` layout | offsets and sizes of nodes, "changed" | passes until nothing shrinks, emit | displacements are those of the offsets in the file |
| `codegen` fixups | nodes that hold heap addresses | collect, emit | the file works at whatever address it is loaded |
| `frontend` | flags, definitions of the globals, open files | run the phases, write the files | nothing leaks from one source to the next; what is written when an error comes |
| legacy class database | files `selector`, `classdef`, class table, lock file; in memory, the same numbers | lock, read, give numbers, commit a script, rewrite, unlock | a number in a compiled script is never given away |

Parts interact by plain calls, except in three places, which is where the models look
hardest: a reference that is used before its target exists leaves a **callback** in
`ForwardRef`, run when it is resolved; the passes of optimizer and layout **share** the
list of nodes and their flags, so that each pass reads what an earlier one wrote; and the
tables **share** selectors and classes between scripts. Runs of the legacy compiler meet in
the files of a directory and a lock on one of them, and nowhere else.

The hard behaviours, each at its line, are the `hazards` of `PROJECT.json`, with the
properties that cover them.

## The modules

| Module | Models | Extends / uses |
|---|---|---|
| `HunkNodes` | nodes of a hunk, their sizes, which displacement is near | |
| `HunkLayout` | `OptimizeHunk`, `setOffset`, `tryShrink`, `emit` of the hunk | `HunkNodes` |
| `BranchRelaxation` | abstract: shorten any transfer that is near, in any order | `HunkNodes` |
| `HunkLayoutProofs` | proofs about `HunkLayout`, and that it refines `BranchRelaxation` | `Induction` |
| `Induction` | induction as statements about sets of numbers, for the proofs | |
| `SciMachine` | the instructions, as the interpreter executes them (external) | |
| `Peephole` | `OptimizeProc`: one action per node the pass comes to | `SciMachine` |
| `Beliefs` | what the optimizer believes, against runs of the procedure | `Peephole` |
| `PeepholeProofs` | proofs about `Beliefs` | `Induction` |
| `ExprBuilder` | `BuildExpr`: an operator for each kind of expression | `SciMachine` |
| `SciLanguage` | abstract: what an expression means | |
| `Compiler` | an expression built, then optimized or not | `ExprBuilder`, `Peephole` |
| `ForwardRef` | references, their values and the callbacks that wait | |
| `LateBinding` | abstract: a place is bound once, to what its name stands for | |
| `CodeGenerator` | the calls of a script, the layout of both files, fixups, emission | `ForwardRef` |
| `ScriptBuilder` | the order in which `BuildCode` makes those calls | |
| `LoadedScript` | what the interpreter reads from the files: fixup table, variables, messages, publics (external) | `CodeGenerator` |
| `CodeGeneratorProofs` | proofs about `CodeGenerator` and `LoadedScript` | `Induction` |
| `SelectorTable` | declaration, use and numbering of selectors | |
| `ClassTable` | both layers of classes, property lists, objects | |
| `GlobalEnvironment` | the phases that fill those tables from the items of all scripts | both |
| `EnvironmentProofs` | proofs about `GlobalEnvironment` | `Induction` |
| `ModuleEnvironment` | which classes there are, externs, globals, procedures, publics, variables, frames, the dispatch of publics, and the lookup of a name | |
| `ModuleEnvironmentProofs` | proofs about `ModuleEnvironment` | `Induction` |
| `Tokens` | what a token is, and what reading one may come to | |
| `Scanner` | from a text to tokens, a step per token, directive or white space | `Tokens` |
| `Syntax` | the parsers of items and expressions, as combinators | `Tokens` |
| `Reading` | text, tokens, lists and items, one after the other | `Scanner`, `Syntax` |
| `Preprocessor` | directives, replaced names, lists, `define` and `include`, a step per token | |
| `Frontend` | `RunMain`: parsing of globals and sources, tables, code, files | `Preprocessor` |
| `FrontendProofs` | proofs about `Frontend` | `Induction` |
| `ClassDatabase` | runs of `sc` over one directory | |
| `ClassDatabaseProofs` | proofs about `ClassDatabase` | |
| `MC...` | instances for TLC and the properties stated only for them | |

### Layout of the hunk

`prog` is the list of leaves in the order the composite nodes visit them. `opByte` is the
flag `OP_BYTE` of branches and calls, `offset` the offsets, and `phase` and `cursor` are
the loop `Assemble` is in and the node it is at: `setOffset`, then `tryShrink` and
`setOffset` in turn until `changed` stays false, then `emit`. Instructions of a fixed
length between two labels stand as one node, whose length is what matters.
`BranchRelaxation` has no passes and no cursor; the layout implements it with "short" as
the nodes with `OP_BYTE` and "settled" when the loop ends.

### Optimizer and expressions

`SciMachine` gives each instruction its effect on accumulator, previous accumulator,
stack, variables and calls made. It is the interpreter, which is not part of the
repository; it is modelled from the code the compiler makes for it. `Peephole` keeps
`list`, the cursor and the two beliefs (`accum`, `top`) of `optimize.cpp`, one action per
branch of its switch. `source` is a history variable, the procedure as it was given.
`Beliefs` runs the list as it is at each moment of a pass, from any of `Starts` and for at
most `Fuel` instructions, and compares the machine with `accum` and `top` wherever a run
comes to the cursor.
`ExprBuilder` translates a tree into instructions as `expr_builder.cpp` does, with the
loops around it as a parameter; `SciLanguage` gives the same tree a meaning directly, with
no stack and no instructions. `Compiler` joins them, and `opt` says whether the optimizer
runs (it does by default, `-z` turns it off).

### Resource files

A script is a sequence of calls to the code generator. The lists of texts, variables,
objects, functions and publics they fill are determined by the calls made so far, and the
model derives them (`Newest`, `Refers`, `Creates`, ...) instead of keeping copies. Each
call that names something uses a reference, and `ForwardRef` holds its value or the places
that wait for it. `Body` lists the nodes of both files, `Leaves` adds the fixup table,
`Starts` lays them out, and `Emit` writes words with their places. Lengths of branches are
`HunkLayout`'s and do not appear here. `LoadedScript` reads the files as the interpreter does,
from words at places it knows and by what it has read before (`WordAt`, `Table`, `Entries`).

What the tables have seen to before the first call is assumed of a script (`IsScript`): every
name stands for one thing (`NamesAreFound`), which for a method is code and for an address that
is loaded an object, since procedures and classes have calls of their own
(`NamesAreOfTheirKind`, `expr_builder.cpp:216`); texts are added where they are looked at
(`TextsAreAdded`, `module_env.cpp:76`); properties and methods follow their object, among
whose basic properties are those that lead to its dictionaries (`ObjectsAreWhole`,
`code_builder.cpp:93`); and no number is that of two publics (`PublicsAreUnique`, as
`PublicsAreDefinedHere` says of the table they come from). `ScriptBuilder` makes the scripts of the
runs in the order of `BuildCode`, and TLC finds all of them to be such.

### Selectors, classes, objects

`source` holds what `GetElemsOfType` finds among the global items and then in each script.
`phase` is the loop the environment builder is in and `cursor` the item it is at.
`resolving` is the stack of calls of `ResolveProperties`, which goes to the super first.
`Fail` is an error status, `Crash` an exception, a null pointer or a recursion that does
not end. The standard selectors, the order of the basic properties and the limit are
constants. That a program is one the parser hands over (`IsSource`: lists of items, a
declaration with a number) and that the basic properties are different ones
(`ClassAssumption`) is assumed. A list of properties is empty until it is resolved, as in the
code.

### Names

`program` holds the global items and, for each source, its number and its items. `stage` is
the table being filled, `at` the source and `pos` the item: first the classes, then externs and
global variables, then for each source procedures, publics and variables, then the code of all
scripts, for which only the frames of bodies are kept, and then their dispatch tables. The class
table (`classes`) is what `ClassTableBuilder::Build` makes: the defined classes, each with the
source whose code has its `class_ref` (`module`), and copies of those that are only declared,
which have none (`NoModule`). A public is looked up there by name and number of the script
(`Entities`), so that a class of another source with that number counts, and one that is only
declared; `Dispatch` is where it shows. Supers and properties of classes are in
`GlobalEnvironment`. Tables are made for all sources, code for the first of each number, in the
order of the numbers (`Built`, `NextScript`). `OuterSym` and `LookupProc` are the
lookups of `expr_context.cpp`, in its order, with its way of finding that a local and a
global are the same variable.

### From text to items

`Scanner` keeps the characters still to come, whether they start a line, the tokens and the
ranges they came from. `Syntax` is data: a parser is a record that says which combinator it
is, so that `ParseForExpr` reads like its counterpart in `expr_parsers.cpp`, and `Parse`
gives combinators their meaning. `Reading` runs both, and adds up errors as
`ParseEachTreeExpr` does. Characters are one-letter strings, and words like `else` count as
syllables, so that short texts can hold them.

### Preprocessor and frontend

`conds` is `preproc_stack_`, `lists` the lists that are open (the recursion of `ParseExpr`),
`pushed` the tokens put back by an include or a replaced name, and `cond` the condition in
the loop of `IsTrue`. When `MovesDefines` is true, replacing a name takes the names and texts
of its definition away, as `PushTokens` does; what uses them then meets null pointers.
`Frontend` starts the parser for the globals and then for each source, keeps which source is
the script of a number (`moduleEnvs`), and opens two files per script, which empties them, then
its listing (`OpenListing`), which may throw, and then writes both. A write may fail (`PutInto`):
`StreamOutputWriter` does not look at its stream, so the file is `Torn` and the program goes on. Of
the items it knows only their keyword and whether a later phase refuses them: the other
modules say when that is. Which numbers there are and in which order the map of scripts has
them (`Number`, `Rank`) are constants.

### Class database

Each run has a program counter, its sources, what it has in memory and a flag for errors.
Reading, each statement that gives a number, writing the script, opening and rewriting each
file, and unlocking are steps of their own, and between any two of them other runs take
theirs and any run may die (`Crash`), end with a fatal error (`Fatal`) or find an error
(`Mistake`). A file between its opening and its end is `Torn`. `committed` and `lost` are
history: the scripts whose run got both files written, and whether a run died over a file
that was half written; `moved` remembers that a class right under RootObj has been put under
another one. `HasFlock` is false on Windows, where `LockFile` does not lock.

## What is checked

Run from this directory: `tlc -config X.cfg Module`. All runs take less than five minutes.

| Run | Bounds | Shows |
|---|---|---|
| `layout` | every hunk of 5 nodes, runs of 122 and 124 bytes | tight, settled layouts, unique, written where laid out; transfers land, or have the one displacement that wraps; refinement of `BranchRelaxation`; termination |
| `peephole` | every procedure of 4 instructions over 4 alphabets | same meaning, beliefs are true |
| `compiler` | some thousands of expressions, with and without the optimizer | code means what the expression means, the stack is balanced, termination |
| `compiler_misused_accumulator` | one expression | **violated**, see Defects |
| `script` | scripts of procedures, an object, a class, variables and publics in several orders | references bound late, files load anywhere, messages, publics and variables are found and start as declared |
| `script_public_object` | scripts with a public object | **violated**, see Defects |
| `environment` | up to 2 declared and 2 defined classes, every number and super; selectors around the limit | tables agree, gaps are filled, classes and objects are as written |
| `names` | up to 2 sources, in either order of their numbers or with one number; up to 2 declarations of each kind over 2 names and 2 indexes; classes that are declared, defined, both or neither; frames of up to 3 temporaries (19,551 programs) | declarations agree, a global is one word everywhere, what is public is defined where it is said to be, names in a frame have words of their own |
| `reading` | every text of up to 3 characters of 18, up to 5 over what matters to lines, strings, keys and numbers; some 500 programs with 7 kinds of white space; every list of up to 3 or 4 elements behind each keyword | tokens stand alone, directives fill lines, programs are read as written, what is accepted is read whole, every step takes something |
| `frontend` | every text of up to 5 lines of conditions, of up to 4 lines of definitions, groups in groups, up to 3 sources | clauses inside skipped ones stay skipped, text is selected as written, scripts are gone through in order and hold their own or what is left where a write failed, the first source of a number wins, the program ends |
| `frontend_second_use` | the same | **violated**, see Defects |
| `class_database` | 2 runs, 13 command lines, 3 selectors and a builtin one, 3 classes, 2 scripts, limits of 3 and 2 numbers, 2 databases | one updater at a time, numbers are kept, the files can be read, the class table of a run without errors matches, everybody ends |

**Why the bounds are enough.** The limit of a short transfer is 128 bytes. With runs of
122 and 124 bytes and instructions of 1 to 3 around them, distances from 122 to over 128
occur in both directions, and with five nodes one transfer's shrinking brings another into
reach, over several passes. Four instructions are one more than the longest pattern
`optimize.cpp` looks at; each alphabet holds the instructions of one group of its cases.
Expressions have operands that have side effects, so that a wrong order shows, and are
nested to depth three, where the stack, the accumulator and the previous accumulator are
all in use. A script needs each kind of definition once, used before and after it is made.
Two declared and two defined classes give chains of three, cycles, a class defined anew,
numbers taken from one another and gaps; `MaxSelector` is 3 so that the search for a
number meets the limit. Two declarations are enough for one to repeat, contradict or
overlap another, and a third temporary shows where the second ended. A class declared for
one script and defined in another, or in both, needs two sources, and so does one number for two. Five lines hold a
group with three clauses, or a definition before, inside and behind one; groups within
groups are there besides, up to nine lines. `MaxInput` cuts off texts that include
themselves for ever, and no text of the run gets there. Three characters hold every
pair of tokens and what is between them, and a carriage return with or without its line
feed. Of the class database, two runs suffice for one to come between any two steps of the
other, one of them holding numbers the other has read; limits of 3 and 2 make the search for
free numbers find gaps and fail.

**Restrictions.** Some runs leave out inputs on which the code is known to be wrong, so
that the rest can be checked; each is named in the module.

- `layout`: SCI 1.1, since for SCI 2 argument counts are laid out one byte too short.
- `peephole`: procedures that want a loaded and pushed constant, property or `self` still
  in the accumulator (`KeepsWhatItPushed`), and jumps to jumps in a circle (`JumpTo`). What
  is believed of the top of the stack is claimed only for procedures without counted
  variables, properties and `pprev` (`MisleadingOps`). Arrays with an index in the
  accumulator are only in `compiler`.
- `compiler`: under the optimizer, assignments of constants, `self` and properties whose
  value is used. No exit from inside an argument list or a switch, where the code leaves
  words on the stack, and none over more than one loop. Compound assignments are to places
  whose index is evaluated twice in the meaning too.
- `script`: `LoadsAnywhere` is not claimed for public objects, nor for variables without
  an initial value between others, where `collectFixups` reads a value that is not there
  (`Holes`).
- `environment`: supers and numbers are not claimed when a declared class lost its number
  to a new one (`SomeLost`).
- `names`: `PublicsAreDefinedHere` is about builds that end. A public class of another source
  with the same number, which is left out of the build, is its named exception; a public class
  that is only declared ends in `Crash`. Of bodies with sizes below zero `NamesHaveTheirOwnWords`
  claims only that parameters are told apart.
- `frontend`: that a write which fails is noticed is not claimed, since it is not; `WrittenInOrder`
  and `FirstSourceWins` say what is in the files nevertheless. `SelectedAsWritten` is not claimed where tokens were moved away (`Gone`), and
  `ProgramEnds` not where a condition is a bracket or a string (`Hangs`).
- `reading`: `ReadsBack` is not asked of jumps, counting and assignments, behind which the
  parser does not look (`NotLookedAt`). Texts with directives stop before the lists.
- `class_database`: the claims about numbers are those of `Cooperative` runs, which ask for
  the lock and do not die over a half written file; runs that do neither are there all the
  same. `TableMatchesDatabase` is about runs without errors; a run with errors writes the table
  too (`sc.cpp:201`), from what it has in memory. That a super comes before its subclasses is not claimed once a class right under RootObj
  has moved under another (`moved`).

**Fairness.** The specifications of the compiler that state liveness assume `WF_vars(Next)`:
one thread runs, nothing blocks it, and each action is a step of a loop it is in.
Termination of the loops is therefore a claim about the code only. `ClassDatabase` assumes
weak fairness of each run (`WF_vars(Run(p))`), which is what the scheduler of an operating
system gives; a crash is never forced. Weak fairness is enough for `EverybodyEnds` because
whoever waits for the lock only ever waits for a run that ends. Where no fairness is stated,
runs check for deadlock instead: in every state that is not an end, an item is processed,
refused or brings the compiler down, so no error is left without an answer. For `reading`,
`EveryStepTakes` says that each step takes input away, which together with the absence of
deadlocks is termination.

Every property has a mutant, a small plausible change of the modelled code that the run
refutes; they stand before the definition they replace, marked "Mutant".

## What is proved

With TLAPS, for every value of the constants under the named assumptions. The theorems are in
the `...Proofs` modules; most state a property that a run checks too.

**Induction.** The library's induction theorems take an operator as a parameter, which the
provers cannot instantiate. `Induction` states what is needed about sets instead: a nonempty
set of numbers has a least element (from the well-foundedness of the order), so that a set that
contains the beginning of an interval and with each number the next contains the interval
(`IntervalInduction`), and a table computed step by step exists and has the values its equation
says. Loops, folds and recursive functions of the models are proved about with these. Recursive
*operators* stay out of reach: a module that declares one cannot be proved about.

**`HunkLayoutProofs`**, for every set of programs of well-formed nodes
(`ProgramsAssumption`): `TypeCorrectness`, `ShortForGood` (a transfer that became short
stays so), `TightLayout` (offsets and sizes fit), `FixedPoint` (nothing is left to
shorten), `ShortDisplacements` (a short transfer's displacement is in -125..128),
`FaithfulEmission` (nodes are written where they were laid out, on SCI 1.1) and
`TransfersLandInSmallHunks`. None is inductive alone. A transfer is shortened by the
offsets of the previous pass while nodes in front of it have already shrunk; what is
proved of it must hold of offsets computed later. The invariant (`Invariance`) therefore
keeps `previous`, the offsets of the last complete pass, and says that no node has grown
and that no two nodes are farther apart now than they were then, so that near stays near.
The same argument gives `PassesRefineRelaxation`: what a pass shortens by old offsets is near
in the layout of the moment, so each step is one of `BranchRelaxation` or none. `LeastLayout`
says that the order does not matter: a set of transfers that is closed under the nearness test
contains everything any order shortens (`LeastInv`), so that where the passes end is the least
of them.

**`PeepholeProofs`**: `BeliefsAreTrue`, for every procedure the code generator can hand over
(`ProcsAssumption`: it ends in `ret`, branches lead to labels in it), of any length, and all
states it may be started in. That the beliefs are true now is not inductive: a pass edits
instructions before the cursor, on the strength of beliefs it had there. The invariant
(`PassInv`) says that a history can be told: a belief before every instruction up to the
cursor, each one following from the one before by the instruction between, unknown at labels,
the last ones being `accum` and `top`. Each edit leaves a list with such a history, and the list
stays a procedure. An execution then finds the history to be true, instruction by instruction
(`RunIsTrue`). Two conditions are named in the properties because the code needs them. An
access to an array is taken for one to the variable at its base (`IsPlain` leaves such
procedures out), and of counted variables, properties and `pprev` the pass believes things of
the stack that are false (`IsHonest`). That an accumulator which `ExecutionClobbersAccum` calls
clobbered is not read is proved by running the procedure twice, with different accumulators,
in lockstep (`InStep`) until it is set.

**`CodeGeneratorProofs`**, for every set of scripts as the semantic phase makes them
(`ScriptsAssumption`): `TypeCorrectness`, `ReferencesBound` (when a script is laid out,
every reference is bound to what its name stands for) and `ImplementsLateBinding` (every
step is a step of `LateBinding` or none). The invariant: the place of each reference used so far
is bound to what the reference was resolved to, or waits in the list of one that is open.
At the end no reference is open.

The same module proves what is in the files, word by word: `VariablesInitialized`,
`LookupsLeadThere` and `LoadsAtAnyAddress`. The argument has four layers.

1. *Lists.* `ContentsInv` says what each list of the generator holds of the calls made so far:
   a variable its first value, an object its own properties and methods in their order, the
   dispatch table each public at its number. It is inductive together with the invariant above.
2. *Sequences.* `FlattenSeq` puts sequences behind one another: there is a table `begin` of where
   each of them stands, each element of one is found behind its beginning, and there is nothing
   else (`IsFlat`, `Flattened`). From this come the leaves of both files, whose places are
   known relative to the object they belong to (`HeapHolds`, `HunkHolds`, `FileHolds`).
3. *Bytes.* Offsets increase from leaf to leaf (`StartsIncrease`), the words of a leaf are inside
   it, so no two words of a file are at one byte (`WordsWritten`), and what is read at a byte is
   what was written there (`FileWord`). A file is laid out two or three times with different
   fixup tables; a node of its body gets the same offset each time, as the table is behind it
   (`SetOffsetOf`), and no kind of node is in both files (`KindsApart`), so that what is written
   for a node is where it is in the file that is loaded (`OffsetIsPlace`). `FilesInv` says which
   layout each file was written with.
4. *Readers.* Each lookup is then followed through the places it reads. For `LoadsAtAnyAddress`
   two things are added: that a word is marked for a fixup exactly when it holds a place in the
   heap, by kinds of leaves (`BodyMarked`), and that the table has one entry for each marked word
   (`HasEntries`), which is the byte of that word, because no two leaves with marked words share
   a node (`OneMarkedLeaf`): the table finds a word by the offset of its node. An object among
   the publics has no offset at all (see Defects), and a variable without a value is marked or
   not by a value that is not there; the property is not claimed for these.

**`EnvironmentProofs`**, for all programs, standard selectors and limits:

- `SelectorAgreement`, the maps by name and by number agree in every state. A new selector is
  entered long before it has a number; the invariant adds that the list of those that wait
  holds each once and only selectors without a number, so that giving the first of them a
  number disturbs no other.
- `NewSelectorsFillTheGaps`: that list is the order of first uses, `nextSelector` is past no
  number that is free, and so the k-th that waits gets the k-th free number (`GapsInv`).
- `ClassesFromItems`: supers, numbers and property lists of all classes are those of their
  items, supers as long as no declared class has lost its number (`SomeLost`). `ClassInv` says for each phase what the tables hold, with a counter of the items each
  phase is through with (`Progress`): which items have their class, which classes their super,
  that no two classes of a layer share a name or a number, and that a list that is made was made
  of that of the super, which is made too and does not change any more. That a new class finds a
  number is a pigeonhole argument. The recursion of `ResolveProperties` needs no other measure
  than this: a list is made only when the super's is.
- `ObjectsOfTheirClass`, by `ObjInv`: objects are made when all lists are.

**`FrontendProofs`**, for all texts, include files, definitions and command lines:

- `NestedConditions`, a clause within one that is skipped is never taken. A frame alone does
  not know what is around it; the stack does. The invariant (`Inv`) says of any two frames that
  the inner one of a skipped outer one is triggered and does not produce, and, while the loop
  over a condition runs, that everything around its clause is taken and the clause itself has
  not been decided (`Undecided`): the answer may come many steps after the frame was made.
- `FilesInOrder` and `FirstOfNumber`: a script whose turn has not come has its files as they
  were, and one whose turn is over has its own in them, or what is left where writing failed.
  `FrontInv` relates `unwritten`, the numbers whose turn is not over, to what is in the two files
  of each, and `moduleEnvs` to the items of the sources, the first of which has the number.

**`ClassDatabaseProofs`**, for any number of runs, scripts, selectors, classes and limits:
`TypeCorrectness` (in particular, a class without an object never gets into the class file),
and where the lock locks (`HasFlock`) `MutualExclusion`, `NumbersStay`, `DatabaseStaysReadable`
and `TableIsOfDatabase` (of runs without errors). The invariants stand on one another. `WorkInv` says what a run has in
hand at each point of its way, and that a run with a class that was refused has an error and so
writes no database. `Locked` says that whoever is inside has the lock. `AgreeInv` is about the
one that is inside: a number in a committed script is the one in either file and in its memory;
memory and file differ only if the flags say so; and a file is torn only while somebody writes
it. Between the two files the numbers of a script are in memory only, and it is committed after
both: this is why a crash there does no harm. For `DatabaseStaysReadable` the same is said of
the tables a run has in memory: what it read was readable, each statement keeps it so, and the
selector file is rewritten before the class file that mentions new selectors. That a super
comes before its subclasses is claimed until a class under RootObj has moved (`moved`, see
Defects).

**`ModuleEnvironmentProofs`**, for all programs: `OneWordForAll` (a name means the same word of
script 0 wherever it means a global at all), `AgreeingDeclarations`, `PublicsAreHere` and
`OwnWords`. `OneWordForAll` goes by the cases of the lookup: in script 0 a local may stand before
a global only if it is the same word, and elsewhere a name that is both is refused. The rest
stands on `NamesInv`. `TablesInv` says that lookups by name or index find one entry where the
table sees to that, and `DeclInv` that the table of declared variables holds exactly the
declarations it has passed, which agree. For `PublicsAreHere` a fact about the beginning has to
survive until the end: `ClassesInv` says that a class with a reference is one that the source of
that reference defines, and that past their stage all definitions are in the table; `PublicsInv`
that a public was exactly one thing when it was entered, and the class table does not change any
more; and `CodeInv` that scripts are built in the order of their numbers, those before the one in
work having all their frames and entries. That exactly one definition has the name of a public
needs more than its table: two procedures of one name are taken, and only the frames, which do not
get past the second (`IsRebuilt`), tell that there was but one. `OwnWords` is about `WordsBefore`,
a sum by recursion over the temporaries, which is monotone as long as no size is below zero.

The assumptions on constants are stated and named in the modules (`ProgramsAssumption`,
`ProcsAssumption`, `ScriptsAssumption`, `SelectorAssumption`, `ClassAssumption`,
`CommandAssumption`, `NamesAssumption` and others); TLC evaluates each of them on the instance
of a run.

**Only model-checked.**

- Termination (`Termination`, `ProgramEnds`, `EverybodyEnds`), since liveness is beyond this
  prover.
- What is stated with recursive operators: `CompiledMeaning` and `StackIsBalanced` (the
  expression builder is one), and everything about reading (`TokensStandAlone`,
  `DirectivesFillLines`, `ReadAsWritten`, `ReadsBack`, `EveryStepTakes`), where the combinators
  of `Syntax` are interpreted by one.
- `SameMeaning`: that an edit which is right by what the pass believes leaves the outcome the
  same needs a simulation between the two procedures for each of the edits, and it holds only
  of procedures outside the restrictions below it. `BeliefsAreTrue` is the half of it that says
  the edits are made for true reasons.
- `SelectedAsWritten`: its reference definition, in `MCFrontend`, gives a whole text its meaning
  by recursion over what is left of it.

## What is not modelled

The listing, diagnostics, positions in the source and status objects: they carry text, and
what the models need of them is that the first error ends the compilation. Lines and columns
are there where a property is about them. Containers and views of `util`, but for the
forward references and the strings that are gone after a move. Of the legacy compiler, only
the class database: its scanner, parser, code generator and optimizer are the original of
what is modelled in its new form, and its comments are quoted where they say what the
language means. Of its scripts the model has the statements that give numbers, and of its
files those that are read again; `offsets`, `classes` and the vocabularies are only written.
The intrusive list of nodes is taken for a sequence, with `remove` as it is (`RemoveIt`,
`RemoveOp` in `Peephole`). Literal text is a value with a length, since odd lengths move what
follows. Numbers are in a range in which 16-bit words do not wrap, except in the width of
displacements. Options of the command line that only pass values on are left out.

## Defects

Found by runs that are kept as violations:

1. `(= y (= x 7))` stores a stale accumulator in `y` (`optimize.cpp:500`).
2. The dispatch entry of a public object is never relocated (`anode_impls.cpp:62`).
3. A name that is defined as names or texts can be replaced only once (`token_stream.hpp:24`).

Seen while modelling; where they would break a claim, they are excluded from it by name:

- A transfer forward by exactly 128 bytes is made short and lands 256 bytes too low
  (`anode_impls.cpp:34`); `TransfersLandOrWrap` says that nothing else goes wrong.
- For SCI 2, a call or send is written one byte longer than it is laid out (`target.cpp:26`).
- Two jumps that lead to each other make the optimizer loop for ever (`optimize.cpp:541`).
- `(break 2)` leaves one loop, and a level without a loop follows a null pointer
  (`expr_context.hpp:189`).
- A new class can take the number of a declared class, which is then dropped
  (`class_table.cpp:382`). Classes that are each other's super never end.
- A class right under RootObj may move under another class of a larger number; the next run
  then reads a class before its super (`parse_object.cpp:272`).
- Array sizes below zero are accepted: temporaries then overlap (`code_builder.cpp:71`), and a
  variable asks for words without end (`module_env.cpp:403`).
- A second procedure of one name is taken and later throws (`proc_table.cpp:67`).
- What stands behind a jump, a counting or an assignment in its list is dropped
  (`expr_parsers.cpp:500`).
- `#endif` without `#if` takes a frame from an empty stack; a condition that is a bracket or a
  string is evaluated for ever; a define that mentions itself is replaced for ever.
- With two sources of one script number, a class of the second can be a public of the first
  (`module_env.cpp:318`): its reference belongs to code that is never made, though it "_must not_
  be used in other codegen instances" (`class_table.hpp:51`).
- A class that is only declared, with the number of a script, can be a public of it; its
  `class_ref` is a null pointer (`code_builder.cpp:257`).
- Both files of a script are emptied before its listing is opened and it is assembled; when
  either throws (`scic.cpp:259`), the old files are gone.
- A write that fails is not noticed (`scic.cpp:104`): the file is cut off, the later scripts are
  written all the same, and the program ends with success.
- Scripts with one number are silently dropped but for the first (`module_env.cpp:501`).
- A named `&rest` is refused exactly when it names a parameter (`expr_builder.cpp:272`); the
  variable bits of `op_pTos` read "parameter"; `pTos` turned into a push leaves a stale belief;
  `iterator::remove` returns before it advances; a text as a property of a class throws; a
  compilation in which nobody uses `name` follows a null pointer; the limit on selectors is
  looked at only after a collision.

## Plan

Done, in this order: layout, optimizer, expressions, resource files, selectors and classes;
preprocessor and frontend, names, text and syntax, the class database, and the proofs listed
above. What could follow:

1. The intrusive list and its iterators as a module of their own, which `Peephole` refines.
2. `Reading` and `Preprocessor` as one: `Reading` stops at directives now, and the tokens of
   `Preprocessor` are given.
3. Proofs: a variant for the loop of the layout, as a safety property. `SameMeaning` for
   single edits.
4. The legacy expression parser and code generator, which say what the new ones have to do.
