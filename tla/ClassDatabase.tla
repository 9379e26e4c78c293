--------------------------- MODULE ClassDatabase ---------------------------
(***************************************************************************)
(* The class database of the legacy compiler sc (scic/legacy): the files   *)
(* "selector" and "classdef", which every run of sc reads before it        *)
(* compiles and rewrites after each script that brings something new.      *)
(* Compiled scripts know selectors and classes by number, so a number once *)
(* in use has to stay.  Several people compile in one directory; a file    *)
(* lock keeps their runs apart, unless they ask for no lock (-u).  A run   *)
(* may die at any point, and the operating system then drops its lock.     *)
(* A file that is being rewritten is Torn: whoever reads it finds it empty *)
(* or cut off, because what is written waits in a buffer.                  *)
(***************************************************************************)
EXTENDS Integers, Sequences, FiniteSets

CONSTANTS
  Proc,            (* runs of sc                                            *)
  Selector, Class, (* names                                                 *)
  Script,          (* scripts, each with its files .hep and .scr            *)
  Builtin,         (* the numbers of the selectors of RootObj               *)
  SelectorLimit,   (* MAXSELECTOR                                           *)
  ClassLimit,      (* MAXCLASSES                                            *)
  HasFlock,        (* whether FileLock locks: it does not on Windows        *)
  Commands,        (* what a run may be asked to compile, and how           *)
  Databases,       (* what the directory may hold at the beginning          *)
  RootObj, Nobody, None, Hollow, Torn

RootNum == -1
Numbers == 0 .. SelectorLimit - 1
ClassNumbers == 0 .. ClassLimit - 1
ClassRec == [num : ClassNumbers, super : {RootNum} \cup ClassNumbers,
             script : Script \cup {None}, own : SUBSET Selector]
SelectorMap == [Selector -> Numbers \cup {None}]
ClassMap == [Class -> ClassRec \cup {None}]
Statement ==
  [kind : {"send", "declare"}, name : Selector]
    \cup [kind : {"class"}, name : Class, super : Class \cup {RootObj}]
    \cup [kind : {"error"}]
File == [script : Script \cup {None}, body : Seq(Statement)]

ASSUME NamesAssumption ==
  /\ Nobody \notin Proc
  /\ RootObj \notin Class
  /\ Selector \cap Class = {}
  /\ None \notin Script /\ None \notin Int /\ None \notin ClassRec /\ None \notin Class
  /\ Hollow \notin ClassRec /\ Hollow # None
  /\ Torn \notin SelectorMap /\ Torn \notin ClassMap
  /\ HasFlock \in BOOLEAN

ASSUME NumbersAssumption ==
  /\ SelectorLimit \in Nat /\ ClassLimit \in Nat
  /\ DOMAIN Builtin \subseteq Selector
  /\ Builtin \in [DOMAIN Builtin -> Numbers]
  /\ \A m, n \in DOMAIN Builtin : Builtin[m] = Builtin[n] => m = n

ASSUME InputAssumption ==
  /\ Commands \subseteq [files : Seq(File), dontLock : BOOLEAN, abortIfLocked : BOOLEAN]
  /\ Databases \subseteq [selectors : SelectorMap, classes : ClassMap]
  /\ \A db \in Databases : \A name \in DOMAIN Builtin : db.selectors[name] = Builtin[name]

VARIABLES
  lock,            (* who holds the lock on the lock file                   *)
  selectorFile, classFile, classTable,
  output,          (* the numbers in the compiled script, by name           *)
  pc, dontLock, abortIfLocked,
  files,           (* the source files still to be compiled                 *)
  body,            (* what is left of the one being compiled                *)
  used,            (* the names its code uses                               *)
  curClass,        (* gCurObj                                               *)
  numbers,         (* the selectors in memory                               *)
  claimed,         (* selTbl, the numbers that are taken                    *)
  classes,         (* the classes in memory; Hollow is one without an object *)
  dangling,        (* RootObj's list of subclasses holds one that is gone   *)
  selectorAdded, classAdded,
  errors,          (* whether there were errors in this run                 *)
  committed,       (* scripts whose numbers are in the database (history)   *)
  lost,            (* a run died while it rewrote a file (history)          *)
  moved            (* a class under RootObj got another super (history)     *)

disk == <<selectorFile, classFile, classTable, output>>
memory == <<numbers, claimed, classes, dangling, selectorAdded, classAdded, errors>>
parser == <<files, body, used, curClass>>
flags == <<dontLock, abortIfLocked>>
history == <<committed, lost, moved>>
vars == <<lock, disk, pc, flags, parser, memory, history>>

NoNames == [name \in Selector |-> IF name \in DOMAIN Builtin THEN Builtin[name] ELSE None]
NoClasses == [class \in Class |-> None]
NoOutput == [name \in Selector \cup Class |-> None]

Init ==
  /\ lock = Nobody
  /\ \E db \in Databases : selectorFile = db.selectors /\ classFile = db.classes
  /\ classTable = [num \in ClassNumbers |-> None]
  /\ output = [script \in Script |-> NoOutput]
  /\ pc = [p \in Proc |-> "start"]
  /\ \E command \in [Proc -> Commands] :
       /\ dontLock = {p \in Proc : command[p].dontLock}
       /\ abortIfLocked = {p \in Proc : command[p].abortIfLocked}
       /\ files = [p \in Proc |-> command[p].files]
  /\ body = [p \in Proc |-> <<>>]
  /\ used = [p \in Proc |-> {}]
  /\ curClass = [p \in Proc |-> None]
  /\ numbers = [p \in Proc |-> NoNames]
  /\ claimed = [p \in Proc |-> {Builtin[name] : name \in DOMAIN Builtin}]
  /\ classes = [p \in Proc |-> NoClasses]
  /\ dangling = [p \in Proc |-> FALSE]
  /\ selectorAdded = [p \in Proc |-> TRUE]
  /\ classAdded = [p \in Proc |-> FALSE]
  /\ errors = [p \in Proc |-> FALSE]
  /\ committed = {}
  /\ lost = FALSE
  /\ moved = FALSE

-----------------------------------------------------------------------------
(* The lock.  flock is released when the process ends, however it ends.    *)
Ended == {"done", "failed", "crashed"}
Goto(p, label) == pc' = [pc EXCEPT ![p] = label]

(* Mutant: the lock stays behind when its run has ended.                   *)
Release_Never(p) == UNCHANGED lock

Release(p) == lock' = IF lock = p THEN Nobody ELSE lock

(* Mutant: somebody else's lock does not hinder.                           *)
CanLock_Always(p) == TRUE

CanLock(p) == HasFlock => lock = Nobody

LockFile(p) == lock' = IF HasFlock THEN p ELSE lock

Lock(p) ==
  /\ pc[p] = "start"
  /\ \/ /\ p \in dontLock
        /\ Goto(p, "readSelectors")
        /\ UNCHANGED lock
     \/ /\ p \notin dontLock /\ CanLock(p)
        /\ LockFile(p)
        /\ Goto(p, "readSelectors")
     \/ /\ p \notin dontLock /\ ~CanLock(p)
        /\ Goto(p, IF p \in abortIfLocked THEN "failed" ELSE "waiting")
        /\ UNCHANGED lock
  /\ UNCHANGED <<disk, flags, parser, memory, history>>

Retry(p) ==
  /\ pc[p] = "waiting" /\ CanLock(p)
  /\ LockFile(p)
  /\ Goto(p, "readSelectors")
  /\ UNCHANGED <<disk, flags, parser, memory, history>>

(* exit(3)                                                                 *)
Fatal(p) ==
  /\ Goto(p, "failed")
  /\ Release(p)
  /\ UNCHANGED <<disk, flags, parser, memory, history>>

(* An exception nobody catches, a null pointer, the power.                 *)
Writing == {"writeSelectors", "writeClasses"}

Crash(p) ==
  /\ pc[p] \notin Ended
  /\ Goto(p, "crashed")
  /\ Release(p)
  /\ lost' = (lost \/ pc[p] \in Writing)
  /\ UNCHANGED <<disk, flags, parser, memory, committed, moved>>

-----------------------------------------------------------------------------
(* Reading the database.                                                   *)

(* InitSelectors: a name of RootObj that is installed already gets the     *)
(* number of the file, but that number is not claimed.                     *)
InitSelectors(p, file) ==
  /\ numbers' = [numbers EXCEPT ![p] =
       [name \in Selector |-> IF file[name] # None THEN file[name] ELSE NoNames[name]]]
  /\ claimed' = [claimed EXCEPT ![p] = @ \cup
       {file[name] : name \in {n \in Selector \ DOMAIN Builtin : file[n] # None}}]
  /\ selectorAdded' = [selectorAdded EXCEPT ![p] = FALSE]

ReadSelectors(p) ==
  /\ pc[p] = "readSelectors"
  /\ \/ /\ selectorFile # Torn
        /\ InitSelectors(p, selectorFile)
        /\ Goto(p, "readClasses")
        /\ UNCHANGED <<lock, disk, flags, parser, classes, dangling, classAdded, errors, history>>
     \/ /\ selectorFile = Torn
        /\ Goto(p, "readClasses")
        /\ UNCHANGED <<lock, disk, flags, parser, memory, history>>
     \/ selectorFile = Torn /\ Fatal(p)

(* Classes are defined in the order of their numbers, and a super must be  *)
(* there by then.                                                          *)
Defined(map) == {class \in DOMAIN map : map[class] \in ClassRec}
SuperFound(file, class) ==
  \/ file[class].super = RootNum
  \/ \E other \in Defined(file) :
       file[other].num = file[class].super /\ file[other].num < file[class].num
Readable(file) == \A class \in Defined(file) : SuperFound(file, class)

Known(p) == {name \in Selector : numbers[p][name] # None}

(* DefineClass, for each class of the file; a selector that is not one is  *)
(* an error.                                                               *)
DefineClasses(p, file) ==
  /\ classes' = [classes EXCEPT ![p] =
       [class \in Class |-> IF class \in Defined(file)
                            THEN [file[class] EXCEPT !.own = @ \cap Known(p)]
                            ELSE None]]
  /\ errors' = [errors EXCEPT ![p] =
       \E class \in Defined(file) : ~(file[class].own \subseteq Known(p))]

ReadClasses(p) ==
  /\ pc[p] = "readClasses"
  /\ \/ /\ classFile # Torn /\ Readable(classFile)
        /\ DefineClasses(p, classFile)
        /\ Goto(p, "next")
        /\ UNCHANGED <<lock, disk, flags, parser, numbers, claimed, dangling,
                       selectorAdded, classAdded, history>>
     \/ classFile # Torn /\ ~Readable(classFile) /\ Fatal(p)
     \/ /\ classFile = Torn
        /\ Goto(p, "next")
        /\ UNCHANGED <<lock, disk, flags, parser, memory, history>>
     \/ classFile = Torn /\ Fatal(p)

-----------------------------------------------------------------------------
(* Compiling a script.                                                     *)
NextFile(p) ==
  /\ pc[p] = "next" /\ files[p] # <<>>
  /\ body' = [body EXCEPT ![p] = Head(files[p]).body]
  /\ used' = [used EXCEPT ![p] = {}]
  /\ curClass' = [curClass EXCEPT ![p] = None]
  /\ Goto(p, "parse")
  /\ UNCHANGED <<lock, disk, flags, files, memory, history>>

LeastFree(taken, all) ==
  CHOOSE n \in all \ taken : \A m \in all \ taken : n <= m

(* Mutant: a number beyond the largest in use is assumed to be free.       *)
NewSelectorNum_Count(p) == Cardinality(claimed[p])

NewSelectorNum(p) == LeastFree(claimed[p], Numbers)

IsSelector(p, name) == numbers[p][name] # None

(* Mutant: the file is not marked as out of date.                          *)
InstallSelector_Quiet(p, name) ==
  /\ numbers' = [numbers EXCEPT ![p][name] = NewSelectorNum(p)]
  /\ claimed' = [claimed EXCEPT ![p] = @ \cup {NewSelectorNum(p)}]
  /\ UNCHANGED selectorAdded

InstallSelector(p, name) ==
  /\ numbers' = [numbers EXCEPT ![p][name] = NewSelectorNum(p)]
  /\ claimed' = [claimed EXCEPT ![p] = @ \cup {NewSelectorNum(p)}]
  /\ selectorAdded' = [selectorAdded EXCEPT ![p] = TRUE]

(* A name that is not known becomes a selector.                            *)
UseSelector(p, name) ==
  /\ used' = [used EXCEPT ![p] = @ \cup {name}]
  /\ \/ IsSelector(p, name) /\ UNCHANGED <<numbers, claimed, selectorAdded>>
     \/ /\ ~IsSelector(p, name) /\ claimed[p] # Numbers
        /\ InstallSelector(p, name)

OutOfSelectors(p, name) == ~IsSelector(p, name) /\ claimed[p] = Numbers

Statements(p, kind) ==
  /\ pc[p] = "parse" /\ body[p] # <<>>
  /\ Head(body[p]).kind = kind

NextStatement(p) == body' = [body EXCEPT ![p] = Tail(@)]

(* GetSelector, in a send or a method.                                     *)
Send(p) ==
  /\ Statements(p, "send")
  /\ LET name == Head(body[p]).name IN
     \/ /\ UseSelector(p, name)
        /\ NextStatement(p)
        /\ UNCHANGED <<lock, disk, pc, flags, files, curClass, classes, dangling,
                       classAdded, errors, history>>
     \/ OutOfSelectors(p, name) /\ Fatal(p)

(* Declaration, of a property or method in the body of a class.  The body  *)
(* of a class that was refused is skipped.                                 *)
Declare(p) ==
  /\ Statements(p, "declare")
  /\ LET name == Head(body[p]).name
         class == curClass[p]
     IN \/ /\ class # None
           /\ UseSelector(p, name)
           /\ classes' = [classes EXCEPT ![p][class].own = @ \cup {name}]
           /\ NextStatement(p)
           /\ UNCHANGED <<lock, disk, pc, flags, files, curClass, dangling,
                          classAdded, errors, history>>
        \/ class # None /\ OutOfSelectors(p, name) /\ Fatal(p)
        \/ /\ class = None
           /\ NextStatement(p)
           /\ UNCHANGED <<lock, disk, pc, flags, files, used, curClass, memory, history>>

IsClass(p, class) == classes[p][class] \in ClassRec
TakenClasses(p) == {classes[p][class].num : class \in Defined(classes[p])}
GetClassNumber(p) == LeastFree(TakenClasses(p), ClassNumbers)
SuperNum(p, super) == IF super = RootObj THEN RootNum ELSE classes[p][super].num

(* RootNum is OBJECTNUM, which stands for a class that is not known yet:   *)
(* a class right under RootObj is made anew when it is defined again, and  *)
(* RootObj's list of subclasses keeps the old one.                         *)
IsRoot(p, class) == IsClass(p, class) /\ classes[p][class].super = RootNum

(* Mutant: the file of classes is not marked as out of date.               *)
InstallClass_Quiet(p, class, num, super) ==
  /\ classes' = [classes EXCEPT ![p][class] =
       [num |-> num, super |-> SuperNum(p, super),
        script |-> Head(files[p]).script, own |-> {}]]
  /\ curClass' = [curClass EXCEPT ![p] = class]
  /\ used' = [used EXCEPT ![p] = @ \cup ({class, super} \ {RootObj})]
  /\ moved' = (moved \/ (IsRoot(p, class) /\ super # RootObj))
  /\ NextStatement(p)
  /\ UNCHANGED <<lock, disk, pc, flags, files, numbers, claimed, selectorAdded, classAdded,
                 errors, committed, lost>>

(* The class is entered with its number; its selectors are those of its    *)
(* super, until the body declares more.                                    *)
InstallClass(p, class, num, super) ==
  /\ classes' = [classes EXCEPT ![p][class] =
       [num |-> num, super |-> SuperNum(p, super),
        script |-> Head(files[p]).script, own |-> {}]]
  /\ curClass' = [curClass EXCEPT ![p] = class]
  /\ used' = [used EXCEPT ![p] = @ \cup ({class, super} \ {RootObj})]
  /\ classAdded' = [classAdded EXCEPT ![p] = TRUE]
  /\ moved' = (moved \/ (IsRoot(p, class) /\ super # RootObj))
  /\ NextStatement(p)
  /\ UNCHANGED <<lock, disk, pc, flags, files, numbers, claimed, selectorAdded,
                 errors, committed, lost>>

NumberOf(p, class) == IF IsClass(p, class) THEN classes[p][class].num ELSE GetClassNumber(p)

NoNumberLeft(p, class) == ~IsClass(p, class) /\ TakenClasses(p) = ClassNumbers

SuperAllowed(p, class, super) ==
  IsClass(p, class) /\ ~IsRoot(p, class) => classes[p][class].super = SuperNum(p, super)

(* The body of a class without a super is skipped, and a new one has a     *)
(* symbol but no object.                                                   *)
RefuseClass(p, class) ==
  /\ errors' = [errors EXCEPT ![p] = TRUE]
  /\ classAdded' = [classAdded EXCEPT ![p] = TRUE]
  /\ curClass' = [curClass EXCEPT ![p] = None]
  /\ classes' = [classes EXCEPT ![p][class] =
       IF @ \in ClassRec THEN [@ EXCEPT !.own = {}] ELSE Hollow]
  /\ NextStatement(p)
  /\ UNCHANGED <<lock, disk, pc, flags, files, used, numbers, claimed, dangling,
                 selectorAdded, history>>

DoClass(p) ==
  /\ Statements(p, "class")
  /\ LET class == Head(body[p]).name
         super == Head(body[p]).super
         isSuper == super \in {RootObj} \cup Defined(classes[p])
     IN \/ /\ isSuper /\ SuperAllowed(p, class, super) /\ ~NoNumberLeft(p, class)
           /\ InstallClass(p, class, NumberOf(p, class), super)
           /\ dangling' = [dangling EXCEPT ![p] = @ \/ IsRoot(p, class)]
        \/ isSuper /\ ~(SuperAllowed(p, class, super) /\ ~NoNumberLeft(p, class)) /\ Fatal(p)
        \/ ~isSuper /\ super # class /\ classes[p][super] = None /\ RefuseClass(p, class)
        \/ ~isSuper /\ (classes[p][super] = None => super = class) /\ Crash(p)
        \/ super = class /\ IsRoot(p, class) /\ Crash(p)
        \/ super = RootObj /\ dangling[p] /\ SuperAllowed(p, class, super) /\ Crash(p)

Mistake(p) ==
  /\ Statements(p, "error")
  /\ errors' = [errors EXCEPT ![p] = TRUE]
  /\ NextStatement(p)
  /\ UNCHANGED <<lock, disk, pc, flags, files, used, curClass, numbers, claimed, classes,
                 dangling, selectorAdded, classAdded, history>>

-----------------------------------------------------------------------------
(* Writing the compiled script, and then the database.                     *)
ScriptOf(p) == Head(files[p]).script
FileDone(p) == files' = [files EXCEPT ![p] = Tail(@)]

(* OpenObjFiles deletes what was there.                                    *)
OpenObjFiles(p) ==
  /\ pc[p] = "parse" /\ body[p] = <<>> /\ ScriptOf(p) # None
  /\ output' = [output EXCEPT ![ScriptOf(p)] = NoOutput]
  /\ committed' = committed \ {ScriptOf(p)}
  /\ Goto(p, "assemble")
  /\ UNCHANGED <<lock, selectorFile, classFile, classTable, flags, parser, memory, lost, moved>>

NoScriptNumber(p) ==
  /\ pc[p] = "parse" /\ body[p] = <<>> /\ ScriptOf(p) = None
  /\ errors' = [errors EXCEPT ![p] = TRUE]
  /\ FileDone(p)
  /\ Goto(p, "next")
  /\ UNCHANGED <<lock, disk, flags, body, used, curClass, numbers, claimed, classes,
                 dangling, selectorAdded, classAdded, history>>

NumberIn(p, name) == IF name \in Selector THEN numbers[p][name] ELSE classes[p][name].num

(* The output is written whether there were errors or not, the database    *)
(* only if there were none so far.                                         *)
Assemble(p) ==
  /\ pc[p] = "assemble"
  /\ output' = [output EXCEPT ![ScriptOf(p)] =
       [name \in Selector \cup Class |-> IF name \in used[p] THEN NumberIn(p, name) ELSE None]]
  /\ \/ ~errors[p] /\ Goto(p, "update") /\ UNCHANGED files
     \/ errors[p] /\ Goto(p, "next") /\ FileDone(p)
  /\ UNCHANGED <<lock, selectorFile, classFile, classTable, flags, body, used, curClass,
                 memory, history>>

(* UpdateDataBase: fopen empties the file, and fclose writes the rest.     *)
OpenSelectorFile(p) ==
  /\ pc[p] = "update"
  /\ IF selectorAdded[p]
       THEN selectorFile' = Torn /\ Goto(p, "writeSelectors")
       ELSE selectorFile' = selectorFile /\ Goto(p, "updateClasses")
  /\ UNCHANGED <<lock, classFile, classTable, output, flags, parser, memory, history>>

WriteSelector(p) ==
  /\ pc[p] = "writeSelectors"
  /\ selectorFile' = numbers[p]
  /\ Goto(p, "updateClasses")
  /\ UNCHANGED <<lock, classFile, classTable, output, flags, parser, memory, history>>

EndUpdate(p) ==
  /\ selectorAdded' = [selectorAdded EXCEPT ![p] = FALSE]
  /\ classAdded' = [classAdded EXCEPT ![p] = FALSE]
  /\ committed' = committed \cup {ScriptOf(p)}
  /\ FileDone(p)
  /\ Goto(p, "next")
  /\ UNCHANGED <<lock, selectorFile, classTable, output, flags, body, used, curClass,
                 numbers, claimed, classes, dangling, errors, lost, moved>>

OpenClassFile(p) ==
  /\ pc[p] = "updateClasses" /\ classAdded[p]
  /\ classFile' = Torn
  /\ Goto(p, "writeClasses")
  /\ UNCHANGED <<lock, selectorFile, classTable, output, flags, parser, memory, history>>

NoNewClass(p) ==
  /\ pc[p] = "updateClasses" /\ ~classAdded[p]
  /\ UNCHANGED classFile
  /\ EndUpdate(p)

WriteClassDefs(p) ==
  /\ pc[p] = "writeClasses"
  /\ classFile' = classes[p]
  /\ EndUpdate(p)

(* WriteClassTbl: the script of each class, and nothing for other numbers. *)
(* A class without an object is a null pointer here.                       *)
WriteClassTbl(p) ==
  /\ pc[p] = "next" /\ files[p] = <<>>
  /\ \/ /\ \A class \in Class : classes[p][class] # Hollow
        /\ classTable' = [num \in ClassNumbers |->
             IF num \in TakenClasses(p)
             THEN classes[p][CHOOSE class \in Defined(classes[p]) :
                               classes[p][class].num = num].script
             ELSE None]
        /\ Goto(p, "unlock")
        /\ UNCHANGED <<lock, selectorFile, classFile, output, flags, parser, memory, history>>
     \/ (\E class \in Class : classes[p][class] = Hollow) /\ Crash(p)

Unlock(p) ==
  /\ pc[p] = "unlock"
  /\ Release(p)
  /\ Goto(p, "done")
  /\ UNCHANGED <<disk, flags, parser, memory, history>>

Compile(p) ==
  \/ NextFile(p) \/ Send(p) \/ Declare(p) \/ DoClass(p) \/ Mistake(p)
  \/ OpenObjFiles(p) \/ NoScriptNumber(p) \/ Assemble(p)

Update(p) ==
  \/ OpenSelectorFile(p) \/ WriteSelector(p)
  \/ OpenClassFile(p) \/ NoNewClass(p) \/ WriteClassDefs(p)

Run(p) ==
  \/ Lock(p) \/ Retry(p) \/ ReadSelectors(p) \/ ReadClasses(p)
  \/ Compile(p) \/ Update(p) \/ WriteClassTbl(p) \/ Unlock(p)

AllEnded == (\A p \in Proc : pc[p] \in Ended) /\ UNCHANGED vars

Next == (\E p \in Proc : Run(p) \/ Crash(p)) \/ AllEnded

(* Each run is scheduled; nobody has to crash.                             *)
Fairness == \A p \in Proc : WF_vars(Run(p))

Spec == Init /\ [][Next]_vars /\ Fairness

-----------------------------------------------------------------------------
Labels == {"start", "waiting", "readSelectors", "readClasses", "next", "parse", "assemble",
           "update", "updateClasses", "unlock"} \cup Writing \cup Ended

TypeOK ==
  /\ lock \in Proc \cup {Nobody}
  /\ selectorFile \in SelectorMap \cup {Torn}
  /\ classFile \in ClassMap \cup {Torn}
  /\ classTable \in [ClassNumbers -> Script \cup {None}]
  /\ output \in [Script -> [Selector \cup Class -> Numbers \cup ClassNumbers \cup {None}]]
  /\ pc \in [Proc -> Labels]
  /\ dontLock \subseteq Proc /\ abortIfLocked \subseteq Proc
  /\ files \in [Proc -> Seq(File)]
  /\ body \in [Proc -> Seq(Statement)]
  /\ used \in [Proc -> SUBSET (Selector \cup Class)]
  /\ curClass \in [Proc -> Class \cup {None}]
  /\ numbers \in [Proc -> SelectorMap]
  /\ claimed \in [Proc -> SUBSET Numbers]
  /\ classes \in [Proc -> [Class -> ClassRec \cup {None, Hollow}]]
  /\ dangling \in [Proc -> BOOLEAN]
  /\ selectorAdded \in [Proc -> BOOLEAN] /\ classAdded \in [Proc -> BOOLEAN]
  /\ errors \in [Proc -> BOOLEAN]
  /\ committed \subseteq Script
  /\ lost \in BOOLEAN /\ moved \in BOOLEAN

Inside(p) == pc[p] \notin {"start", "waiting"} \cup Ended

(* Whoever asks for the lock is alone with the database among all who ask  *)
(* for it (sc.cpp:172).                                                    *)
OneUpdater ==
  \A p, q \in Proc : Inside(p) /\ Inside(q) /\ {p, q} \cap dontLock = {} => p = q

(* Nobody goes without the lock, and nobody died over a half written file. *)
Cooperative == dontLock = {} /\ ~lost

(* A number that a compiled script was committed with is what the database *)
(* says for ever after, whichever run rewrites it: no later script means   *)
(* something else by it, and none that is recompiled gets another.         *)
NumbersAreKept ==
  Cooperative => \A script \in committed :
    /\ selectorFile # Torn => \A name \in Selector :
         output[script][name] # None => selectorFile[name] = output[script][name]
    /\ classFile # Torn => \A class \in Class :
         output[script][class] # None =>
           classFile[class] # None /\ classFile[class].num = output[script][class]

UniqueNumbers(map) ==
  \A m, n \in Selector : map[m] = map[n] /\ map[m] # None => m = n

UniqueClasses(map) ==
  \A c, d \in Defined(map) : map[c].num = map[d].num => c = d

SupersExist(map) ==
  \A class \in Defined(map) :
    \/ map[class].super = RootNum
    \/ \E other \in Defined(map) : map[other].num = map[class].super

OwnAreKnown(map, selectors) ==
  \A class \in Defined(map) : \A name \in map[class].own : selectors[name] # None

(* A class is given the first number that is free, and none is ever gone.  *)
NoGaps(map) ==
  \A class \in Defined(map) : \A num \in 0 .. map[class].num :
    \E other \in Defined(map) : map[other].num = num

(* The directory holds at first what a run of sc may have left there.      *)
ASSUME DatabasesAssumption ==
  \A db \in Databases :
    /\ UniqueNumbers(db.selectors)
    /\ Readable(db.classes) /\ UniqueClasses(db.classes) /\ NoGaps(db.classes)
    /\ OwnAreKnown(db.classes, db.selectors)

(* A database that is whole can be read by the next run: numbers are       *)
(* unique, supers are there, and come before their subclasses as long as   *)
(* no class under RootObj was moved under another, which may have a larger *)
(* number; and classes mention only selectors that have a number, even if  *)
(* a run died between the two files.                                       *)
DatabaseIsReadable ==
  Cooperative =>
    /\ selectorFile # Torn => UniqueNumbers(selectorFile)
    /\ classFile # Torn =>
         /\ UniqueClasses(classFile) /\ SupersExist(classFile)
         /\ moved \/ Readable(classFile)
    /\ selectorFile # Torn /\ classFile # Torn => OwnAreKnown(classFile, selectorFile)

(* The table of classes that a run without errors leaves behind has the    *)
(* script of every class of the database, and only of those.  A run with   *)
(* errors writes the table too (sc.cpp:201), from what it has in memory:   *)
(* nothing is claimed of that.                                             *)
TableMatchesDatabase ==
  [][\A p \in Proc :
       pc[p] = "next" /\ pc'[p] = "unlock" /\ Cooperative /\ ~errors[p] =>
         /\ \A class \in Defined(classFile) :
              classTable'[classFile[class].num] = classFile[class].script
         /\ \A num \in ClassNumbers : classTable'[num] # None =>
              \E class \in Defined(classFile) : classFile[class].num = num]_vars

(* Every run comes to an end, those that wait included.                    *)
EverybodyEnds == \A p \in Proc : <>(pc[p] \in Ended)
=============================================================================
