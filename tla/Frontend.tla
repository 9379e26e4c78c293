------------------------------ MODULE Frontend ------------------------------
(***************************************************************************)
(* RunMain (frontend/scic.cpp): all files are read, the global includes    *)
(* are parsed as one text and then each source with the names that the     *)
(* globals have defined, every script is built, and only then the files of *)
(* one script after the other are written.  Of the syntax of items, what   *)
(* is left is which keywords there are and what (script# n) says; of their *)
(* compilation, whether there is an error and in which phase.              *)
(***************************************************************************)
EXTENDS Preprocessor

CONSTANTS
  ItemName,        (* the keywords of items                                 *)
  ScriptName,      (* script#, one of them                                  *)
  Misplaced,       (* an item that the tables of a script refuse            *)
  Uncompiled,      (* an item that BuildCode refuses                        *)
  Unassembled,     (* an item that Assemble throws for                      *)
  Rank,            (* where a number comes in the order of all of them      *)
  Commands,        (* what the command line asks for                        *)
  Before, Torn     (* a file as it was, and one with anything in it         *)

ASSUME CommandAssumption ==
  \A command \in Commands :
    /\ DOMAIN command = {"globals", "sources", "defs"}
    /\ command.globals \in Seq(Text) /\ command.sources \in Seq(Text)
    /\ command.defs \in [Name -> Text]
ASSUME ItemAssumption ==
  /\ ItemName \subseteq Name
  /\ Rank \in [Number -> Nat] /\ IsInjective(Rank)
  /\ {ScriptName, Misplaced, Uncompiled, Unassembled} \subseteq ItemName

VARIABLES
  command,
  stage,
  index,           (* the source being parsed, 0 for the globals            *)
  globalDefines,
  items,           (* the items of each source                              *)
  moduleEnvs,      (* which source is the script of a number                *)
  unwritten,       (* the numbers still to be written                       *)
  heap, hunk       (* the files: Before, Torn, Empty, or those of a source  *)

build == <<items, moduleEnvs>>
disk == <<unwritten, heap, hunk>>
vars == <<pvars, command, stage, index, globalDefines, build, disk>>

Empty == 0

Init ==
  /\ command \in Commands
  /\ ParserInit
  /\ stage = "read"
  /\ index = 0
  /\ globalDefines = NoDefines
  /\ items = <<>>
  /\ moduleEnvs = [number \in Number |-> None]
  /\ unwritten = {}
  /\ heap = [number \in Number |-> Before]
  /\ hunk = [number \in Number |-> Before]

Ended == {"done", "failed", "thrown", "crashed"}
Stop(how) == stage' = how /\ UNCHANGED <<pvars, command, index, globalDefines, build, disk>>

(* TokenizeFile of every file, and of every define of the command line.    *)
Readable ==
  /\ \A i \in DOMAIN command.globals : command.globals[i] \notin {None, Garbled}
  /\ \A i \in DOMAIN command.sources : command.sources[i] \notin {None, Garbled}
  /\ \A name \in Name : command.defs[name] # Garbled

ReadFiles ==
  /\ stage = "read"
  /\ \/ /\ Readable
        /\ stage' = "parse"
        /\ StartParse(FlattenSeq(command.globals), command.defs)
        /\ UNCHANGED <<command, index, globalDefines, build, disk>>
     \/ ~Readable /\ Stop("failed")

Parse ==
  /\ stage = "parse"
  /\ ParseStep
  /\ UNCHANGED <<command, stage, index, globalDefines, build, disk>>

ParseFails ==
  /\ stage = "parse" /\ pc \in {"failed", "crashed"}
  /\ Stop(pc)

(* ParseItems.                                                             *)
IsItem(expr) ==
  /\ Len(expr) >= 3
  /\ expr[2].kind = "ident" /\ expr[2].val \in ItemName
  /\ expr[2].val = ScriptName => Len(expr) = 4 /\ expr[3].kind = "number"
AreItems == \A i \in DOMAIN exprs : IsItem(exprs[i])

(* Mutant: one parser for all sources.                                     *)
SourceDefines_Shared == defines

(* Every source has a parser of its own.                                   *)
SourceDefines == IF index = 0 THEN defines ELSE globalDefines

ParseItems ==
  /\ stage = "parse" /\ pc = "done"
  /\ \/ /\ AreItems
        /\ items' = IF index = 0 THEN items ELSE Append(items, exprs)
        /\ globalDefines' = IF index = 0 THEN defines ELSE globalDefines
        /\ IF index < Len(command.sources)
             THEN /\ index' = index + 1
                  /\ StartParse(command.sources[index + 1], SourceDefines)
                  /\ UNCHANGED stage
             ELSE stage' = "environment" /\ UNCHANGED <<index, pvars>>
        /\ UNCHANGED <<command, moduleEnvs, disk>>
     \/ ~AreItems /\ Stop("failed")

-----------------------------------------------------------------------------
Has(source, name) == \E i \in DOMAIN items[source] : items[source][i][2].val = name
ScriptNums(source) == {i \in DOMAIN items[source] : items[source][i][2].val = ScriptName}
ScriptNum(source) == items[source][CHOOSE i \in ScriptNums(source) : TRUE][3].val

SourcesOf(number) == {source \in DOMAIN items : ScriptNum(source) = number}

(* Mutant: the last of several sources with a number replaces the others.  *)
ModuleEnv_Last(number) ==
  IF SourcesOf(number) = {} THEN None
  ELSE CHOOSE s \in SourcesOf(number) : \A t \in SourcesOf(number) : t <= s

(* emplace leaves the first one there.                                     *)
ModuleEnv(number) ==
  IF SourcesOf(number) = {} THEN None
  ELSE CHOOSE s \in SourcesOf(number) : \A t \in SourcesOf(number) : s <= t

(* BuildCompilationEnvironment.                                            *)
TablesBuild ==
  \A source \in DOMAIN items :
    (\E i \in DOMAIN items[source] : ScriptNums(source) = {i}) /\ ~Has(source, Misplaced)

BuildEnvironment ==
  /\ stage = "environment"
  /\ \/ /\ TablesBuild
        /\ moduleEnvs' = [number \in Number |-> ModuleEnv(number)]
        /\ stage' = "code"
        /\ UNCHANGED <<pvars, command, index, globalDefines, items, disk>>
     \/ ~TablesBuild /\ Stop("failed")

Scripts == {number \in Number : moduleEnvs[number] # None}

(* Mutant: a script is compiled when its turn to be written comes.         *)
CodeBuilds_First ==
  \E number \in Scripts : ~Has(moduleEnvs[number], Uncompiled)

CodeBuilds == \A number \in Scripts : ~Has(moduleEnvs[number], Uncompiled)

(* A text that was moved from has no characters to put into the heap.      *)
HasGone ==
  \E number \in Scripts : \E i \in DOMAIN items[moduleEnvs[number]] :
    \E token \in Range(items[moduleEnvs[number]][i]) : token.val = Gone

BuildCode ==
  /\ stage = "code"
  /\ \/ /\ CodeBuilds /\ ~HasGone
        /\ stage' = "open"
        /\ unwritten' = Scripts
        /\ UNCHANGED <<pvars, command, index, globalDefines, build, heap, hunk>>
     \/ ~CodeBuilds /\ Stop("failed")
     \/ HasGone /\ Stop("crashed")

-----------------------------------------------------------------------------
(* The map of scripts is gone through in the order of their numbers.       *)
Number1 == CHOOSE m \in unwritten : \A n \in unwritten : Rank[m] <= Rank[n]

(* CreateOutputFilesForScript empties both files, if it can.               *)

OpenHeap ==
  /\ stage = "open" /\ unwritten # {}
  /\ \/ /\ heap' = [heap EXCEPT ![Number1] = Empty]
        /\ stage' = "openHunk"
        /\ UNCHANGED <<pvars, command, index, globalDefines, build, unwritten, hunk>>
     \/ Stop("thrown")

OpenHunk ==
  /\ stage = "openHunk"
  /\ \/ /\ hunk' = [hunk EXCEPT ![Number1] = Empty]
        /\ stage' = "openListing"
        /\ UNCHANGED <<pvars, command, index, globalDefines, build, unwritten, heap>>
     \/ Stop("thrown")

(* FileTrunc of the listing, which is not kept track of any further.       *)
OpenListing ==
  /\ stage = "openListing"
  /\ \/ /\ stage' = "assemble"
        /\ UNCHANGED <<pvars, command, index, globalDefines, build, disk>>
     \/ Stop("thrown")

(* A file that is written: nobody looks at the state of its stream, so one *)
(* that could not be written, or only in part, counts as written too.      *)
PutInto(source) == {source, Torn}

(* Assemble throws for an item, or when the listing cannot be written, and *)
(* nothing catches it, so what is in the buffers of the files may be lost. *)
Assemble ==
  /\ stage = "assemble"
  /\ LET source == moduleEnvs[Number1] IN
     \/ /\ ~Has(source, Unassembled)
        /\ \E h \in PutInto(source) : heap' = [heap EXCEPT ![Number1] = h]
        /\ \E k \in PutInto(source) : hunk' = [hunk EXCEPT ![Number1] = k]
        /\ unwritten' = unwritten \ {Number1}
        /\ stage' = "open"
        /\ UNCHANGED <<pvars, command, index, globalDefines, build>>
     \/ /\ heap' = [heap EXCEPT ![Number1] = Torn]
        /\ hunk' = [hunk EXCEPT ![Number1] = Torn]
        /\ stage' = "thrown"
        /\ UNCHANGED <<pvars, command, index, globalDefines, build, unwritten>>

Finish == stage = "open" /\ unwritten = {} /\ Stop("done")

Build ==
  \/ BuildEnvironment \/ BuildCode
  \/ OpenHeap \/ OpenHunk \/ OpenListing \/ Assemble \/ Finish

Terminated == stage \in Ended /\ UNCHANGED vars

Next == ReadFiles \/ Parse \/ ParseFails \/ ParseItems \/ Build \/ Terminated

Spec == Init /\ [][Next]_vars /\ WF_vars(Next)

-----------------------------------------------------------------------------
(* Within a clause that is skipped no clause of an inner group is ever     *)
(* taken, whatever its condition (parser.cpp:215), and a clause is only    *)
(* taken in a group that remembers it.                                     *)
SkippedStaysSkipped ==
  \A i, j \in DOMAIN conds :
    /\ conds[i].producing => conds[i].triggered
    /\ i < j /\ ~conds[i].producing => conds[j].triggered /\ ~conds[j].producing

(* An error in any of the sources leaves all files as they were.  Once     *)
(* files are touched, it is in the order of the numbers, and a script      *)
(* whose turn is over has its own in each file, or what is left of it      *)
(* where writing failed: nobody notices that, the next scripts are written *)
(* and the program ends well (scic.cpp:104, 255).                          *)
WrittenInOrder ==
  LET touched(number) == heap[number] # Before \/ hunk[number] # Before
      written(number) == {heap[number], hunk[number]} \subseteq PutInto(moduleEnvs[number])
  IN /\ \A m, n \in Number :
          touched(n) /\ m \in Scripts /\ Rank[m] < Rank[n] => written(m)
     /\ \A n \in Number : touched(n) =>
          /\ \A source \in DOMAIN items :
               ~Has(source, Misplaced) /\ (moduleEnvs[ScriptNum(source)] = source =>
                                             ~Has(source, Uncompiled))
          /\ Len(items) = Len(command.sources)
          /\ n \in Scripts
     /\ stage = "done" => \A n \in Scripts : written(n)

(* What could be written of the files of a number is of the first source   *)
(* that has it; the others are left out without a word                     *)
(* (module_env.cpp:501).                                                   *)
FirstSourceWins ==
  stage = "done" =>
    \A source \in DOMAIN items : \A file \in {heap, hunk} :
      file[ScriptNum(source)] # Torn =>
        /\ file[ScriptNum(source)] <= source
        /\ ScriptNum(file[ScriptNum(source)]) = ScriptNum(source)

(* Replacing a name does not change what it stands for: "Any instances of  *)
(* a simple identifier with the given name will be substituted with the    *)
(* tokens provided." (parser.hpp:21)                                       *)
DefinitionsStay ==
  [][stage = "parse" /\ stage' = "parse" /\ index' = index =>
       \A name \in Name : defines[name] # None /\ pc # "close" => defines'[name] = defines[name]]_vars
=============================================================================
