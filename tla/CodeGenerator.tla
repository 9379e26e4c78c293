--------------------------- MODULE CodeGenerator ---------------------------
(***************************************************************************)
(* How the two resource files of a script come about                       *)
(* (scic/codegen/code_generator.cpp): the heap, with the variables, the    *)
(* properties of the objects and the texts, and the hunk, with the         *)
(* dispatch table, the dictionaries of the objects and the code.           *)
(*                                                                         *)
(* The semantic phase makes its calls one after the other (script is the   *)
(* sequence of them, next the first not yet made); each appends nodes to   *)
(* one of the lists of the generator.  Then Assemble lays both files out   *)
(* and writes them, each with a table of the words in it that hold an      *)
(* address in the heap: the interpreter adds to them where it has put it.  *)
(*                                                                         *)
(* A node is named by its kind and the call that made it.  How branches    *)
(* and calls shrink is HunkLayout's; here they have their final length.    *)
(***************************************************************************)
EXTENDS Integers, SequencesExt, ForwardRef

CONSTANTS
  Scripts,       (* sequences of calls to the generator                    *)
  NoName,        (* the name of a call that needs none                     *)
  UnsetOffsets   (* what the offset of a node that has none may read as    *)

Kinds ==
  {"SetVar", "AddTextNode", "CreateObject", "CreateClass", "AppendProperty",
   "AppendPropTableProperty", "AppendMethodTableProperty", "AppendMethod",
   "CreateFunction", "AddOp", "AddLoadImmediate", "AddLoadOffsetTo", "AddProcCall",
   "AddPublic"}

(* The calls that make what a name stands for, and those that name it.     *)
Creates(call) == call.op \in {"CreateFunction", "CreateObject", "CreateClass"}
Refers(call) ==
  call.op \in {"AppendMethod", "AddLoadOffsetTo", "AddProcCall", "AddPublic"}

ObjectKinds == {"CreateObject", "CreateClass"}
PropKinds == {"AppendProperty", "AppendPropTableProperty", "AppendMethodTableProperty"}

Value == [type : {"int", "text"}, val : Int]
IsText(v) == v.type = "text"

(* Call i is about the object that call id made: it is the newest.         *)
Belongs(s, id, i) ==
  /\ id < i /\ s[id].op \in ObjectKinds
  /\ \A k \in (id + 1)..i : s[k].op \notin ObjectKinds

(* The semantic phase has looked all names up: what is named is made by    *)
(* one call of the script.                                                 *)
NamesAreFound(s) ==
  /\ \A i \in 1..Len(s) :
       /\ Creates(s[i]) \/ Refers(s[i]) => s[i].name \in Names
       /\ Refers(s[i]) =>
            \E k \in 1..Len(s) : Creates(s[k]) /\ s[k].name = s[i].name
  /\ \A i, k \in 1..Len(s) :
       Creates(s[i]) /\ Creates(s[k]) /\ s[i].name = s[k].name => i = k

(* A text that is used is added to the texts, before or after.             *)
NeedsText(call) ==
  \/ call.op \in {"SetVar", "AppendProperty"} /\ IsText(call.val)
  \/ call.op = "AddLoadImmediate"

TextsAreAdded(s) ==
  \A i \in 1..Len(s) :
    NeedsText(s[i]) => \E k \in 1..Len(s) : s[k].op = "AddTextNode" /\ s[k].val = s[i].val

(* A method is code, and an address that is loaded is that of an object.   *)
NamesAreOfTheirKind(s) ==
  \A i, k \in 1..Len(s) :
    Refers(s[i]) /\ Creates(s[k]) /\ s[k].name = s[i].name =>
      /\ s[i].op = "AppendMethod" => s[k].op = "CreateFunction"
      /\ s[i].op = "AddLoadOffsetTo" => s[k].op \in ObjectKinds

(* Properties and methods are those of an object.  Among the basic         *)
(* properties, which all objects have, are the two that lead to the        *)
(* dictionaries.                                                           *)
ObjectsAreWhole(s) ==
  /\ \A i \in 1..Len(s) :
       s[i].op \in PropKinds \cup {"AppendMethod"} => \E id \in 1..Len(s) : Belongs(s, id, i)
  /\ \A id \in 1..Len(s) : s[id].op \in ObjectKinds =>
       \A kind \in {"AppendPropTableProperty", "AppendMethodTableProperty"} :
         \E i \in 1..Len(s) : Belongs(s, id, i) /\ s[i].op = kind

(* No two publics have one number.                                         *)
PublicsAreUnique(s) ==
  \A i, k \in 1..Len(s) :
    s[i].op = "AddPublic" /\ s[k].op = "AddPublic" /\ s[i].num = s[k].num => i = k

IsScript(s) ==
  /\ \A i \in 1..Len(s) :
       /\ i \in Sites /\ i \in Nodes
       /\ s[i].op \in Kinds /\ s[i].num \in Nat /\ s[i].val \in Value
  /\ NamesAreFound(s) /\ NamesAreOfTheirKind(s)
  /\ TextsAreAdded(s) /\ ObjectsAreWhole(s) /\ PublicsAreUnique(s)

ASSUME ScriptsAssumption == \A s \in Scripts : s \in Seq(Range(s)) /\ IsScript(s)

VARIABLES
  script,      (* the calls the semantic phase makes                       *)
  next,        (* the call to be made                                      *)
  localVars,   (* the values of the local variables                        *)
  texts,       (* textList: the call that made each text                   *)
  objects,     (* the objects and classes, with their tables               *)
  code,        (* codeList: functions and their instructions               *)
  dispatches,  (* the dispatch table                                       *)
  offset,      (* the offset of every node that was given one              *)
  fixups,      (* fixups[f]: the fixup table of file f                     *)
  out,         (* out[f]: the words written to file f, and its length      *)
  phase        (* "building", "laid out", "heap written" or "done"         *)

listVars == <<localVars, texts, objects, code, dispatches>>
fileVars == <<offset, fixups, out>>
vars == <<script, next, listVars, refVars, fileVars, phase>>

Heap == 1
Hunk == 2

Hole == [type |-> "none", val |-> 0]
-----------------------------------------------------------------------------
Init ==
  /\ script \in Scripts
  /\ next = 1
  /\ localVars = <<>>
  /\ texts = <<>>
  /\ objects = <<>>
  /\ code = <<>>
  /\ dispatches = <<>>
  /\ InitRefs
  /\ offset = <<>>
  /\ fixups = <<<<>>, <<>>>>
  /\ out = <<[words |-> <<>>, length |-> 0], [words |-> <<>>, length |-> 0]>>
  /\ phase = "building"

This == script[next]

(* The semantic phase makes a call of one of these kinds.                  *)
Called(kinds) ==
  /\ phase = "building"
  /\ next <= Len(script)
  /\ This.op \in kinds
  /\ next' = next + 1
  /\ UNCHANGED <<script, fileVars, phase>>

(* A table with at least n entries.                                        *)
Grown(table, n, entry) ==
  table \o [i \in 1..(IF n > Len(table) THEN n - Len(table) ELSE 0) |-> entry]

(* Mutant: the last value given to a variable counts.                      *)
SetVar_Overwrite ==
  /\ Called({"SetVar"})
  /\ localVars' = [Grown(localVars, This.num + 1, Hole) EXCEPT ![This.num + 1] = This.val]
  /\ UNCHANGED <<texts, objects, code, dispatches, refVars>>

(* A variable that has a value keeps it; nobody looks at what SetVar       *)
(* returns.                                                                *)
SetVar ==
  /\ Called({"SetVar"})
  /\ localVars' =
       [Grown(localVars, This.num + 1, Hole) EXCEPT
          ![This.num + 1] = IF @ = Hole THEN This.val ELSE @]
  /\ UNCHANGED <<texts, objects, code, dispatches, refVars>>

(* Equal texts are one node.                                               *)
AddTextNode ==
  /\ Called({"AddTextNode"})
  /\ texts' = IF \E i \in 1..Len(texts) : script[texts[i]].val = This.val
              THEN texts ELSE Append(texts, next)
  /\ UNCHANGED <<localVars, objects, code, dispatches, refVars>>

(* CreateObject and CreateClass: a reference to an object is one to its    *)
(* properties.                                                             *)
CreateObject ==
  /\ Called(ObjectKinds)
  /\ Resolve(This.name, next)
  /\ objects' = Append(objects, [id |-> next, props |-> <<>>, methods |-> <<>>])
  /\ UNCHANGED <<localVars, texts, code, dispatches>>

Newest == Len(objects)

AppendProperty ==
  /\ Called(PropKinds)
  /\ objects' = [objects EXCEPT ![Newest].props = Append(@, next)]
  /\ UNCHANGED <<localVars, texts, code, dispatches, refVars>>

AppendMethod ==
  /\ Called({"AppendMethod"})
  /\ RegisterCallback(This.name, next)
  /\ objects' = [objects EXCEPT ![Newest].methods = Append(@, next)]
  /\ UNCHANGED <<localVars, texts, code, dispatches>>

CreateFunction ==
  /\ Called({"CreateFunction"})
  /\ Resolve(This.name, next)
  /\ code' = Append(code, next)
  /\ UNCHANGED <<localVars, texts, objects, dispatches>>

(* Instructions that need nothing but themselves, and the load of a text.  *)
AddOp ==
  /\ Called({"AddOp", "AddLoadImmediate"})
  /\ code' = Append(code, next)
  /\ UNCHANGED <<localVars, texts, objects, dispatches, refVars>>

(* AddLoadOffsetTo an object and AddProcCall.                              *)
AddReference ==
  /\ Called({"AddLoadOffsetTo", "AddProcCall"})
  /\ RegisterCallback(This.name, next)
  /\ code' = Append(code, next)
  /\ UNCHANGED <<localVars, texts, objects, dispatches>>

(* Mutant: the entries of the dispatch table follow each other.            *)
AddPublic_NoGaps ==
  /\ Called({"AddPublic"})
  /\ RegisterCallback(This.name, next)
  /\ dispatches' = Append(dispatches, next)
  /\ UNCHANGED <<localVars, texts, objects, code>>

AddPublic ==
  /\ Called({"AddPublic"})
  /\ RegisterCallback(This.name, next)
  /\ dispatches' = [Grown(dispatches, This.num + 1, 0) EXCEPT ![This.num + 1] = next]
  /\ UNCHANGED <<localVars, texts, objects, code>>

-----------------------------------------------------------------------------
(* The leaves of the two files: a node, its size, and the words in it: at  *)
(* which byte of it, the node whose offset is written, if any, and what is *)
(* added to that.                                                          *)
Node(kind, id) == <<kind, id>>
NoNode == Node("none", 0)

Leaf(node, size, words) == [node |-> node, size |-> size, words |-> words]
Word(rel, node, n) == [rel |-> rel, to |-> node, add |-> n]
Plain(kind, id, n) == Leaf(Node(kind, id), 2, <<Word(0, NoNode, n)>>)
Pointer(kind, id, node) == Leaf(Node(kind, id), 2, <<Word(0, node, 0)>>)
Mark(kind, id) == Leaf(Node(kind, id), 0, <<>>)

TextNode(v) ==
  Node("text", texts[CHOOSE i \in 1..Len(texts) : script[texts[i]].val = v])

(* What a reference points to: code in the hunk, or properties.            *)
TargetNode(site) ==
  IF site = 0 \/ target[site] = Unresolved THEN NoNode
  ELSE IF script[target[site]].op = "CreateFunction" THEN Node("code", target[site])
  ELSE Node("props", target[site])

LiteralWord(rel, v) ==
  IF IsText(v) THEN Word(rel, TextNode(v), 0) ELSE Word(rel, NoNode, v.val)

VarsLeaf ==
  Leaf(Node("vars", 0), 2 * (Len(localVars) + 1),
       <<Word(0, NoNode, Len(localVars))>>
       \o [i \in 1..Len(localVars) |-> LiteralWord(2 * i, localVars[i])])

PropLeaf(object, id) ==
  CASE script[id].op = "AppendPropTableProperty" ->
         Pointer("prop", id, Node("propDict", object.id))
    [] script[id].op = "AppendMethodTableProperty" ->
         Pointer("prop", id, Node("methDict", object.id))
    [] script[id].op = "AppendProperty" ->
         Leaf(Node("prop", id), 2, <<LiteralWord(0, script[id].val)>>)

Props(object) ==
  <<Mark("props", object.id)>>
  \o [i \in 1..Len(object.props) |-> PropLeaf(object, object.props[i])]

(* Only a class lists the selectors of its properties.                     *)
Dictionary(object) ==
  <<Mark("propDict", object.id)>>
  \o (IF script[object.id].op = "CreateClass"
      THEN [i \in 1..Len(object.props) |->
              Plain("selector", object.props[i], script[object.props[i]].num)]
      ELSE <<>>)
  \o <<Plain("methDict", object.id, Len(object.methods))>>
  \o FlattenSeq([i \in 1..Len(object.methods) |->
       LET id == object.methods[i]
       IN  <<Plain("selector", id, script[id].num), Pointer("method", id, TargetNode(id))>>])

DispatchTable ==
  Leaf(Node("dispatchTable", 0), 2 * (Len(dispatches) + 1),
       <<Word(0, NoNode, Len(dispatches))>>
       \o [i \in 1..Len(dispatches) |-> Word(2 * i, TargetNode(dispatches[i]), 0)])

(* A function begins with the link of its temporary variables, if any.  An *)
(* address to load follows the op; the displacement of a call is           *)
(* HunkLayout's.                                                           *)
CodeLeaf(id) ==
  CASE script[id].op = "CreateFunction" ->
         Leaf(Node("code", id), IF script[id].num > 0 THEN 2 ELSE 0, <<>>)
    [] script[id].op = "AddLoadOffsetTo" ->
         Leaf(Node("code", id), 3, <<Word(1, TargetNode(id), 0)>>)
    [] script[id].op = "AddLoadImmediate" ->
         Leaf(Node("code", id), 3, <<Word(1, TextNode(script[id].val), 0)>>)
    [] script[id].op = "AddProcCall" -> Leaf(Node("code", id), 3, <<>>)
    [] script[id].op = "AddOp" -> Leaf(Node("code", id), 1, <<>>)

Body(f) ==
  IF f = Heap
  THEN <<VarsLeaf>>
       \o FlattenSeq([i \in 1..Len(objects) |-> Props(objects[i])])
       \o <<Plain("terminator", Heap, 0)>>
       \o [i \in 1..Len(texts) |-> Leaf(Node("text", texts[i]), script[texts[i]].num + 1, <<>>)]
  ELSE <<Plain("heapAddress", Hunk, 0), Plain("farText", Hunk, 0), DispatchTable>>
       \o FlattenSeq([i \in 1..Len(objects) |-> Dictionary(objects[i])])
       \o [i \in 1..Len(code) |-> CodeLeaf(code[i])]

(* The tree of a FixupList.                                                *)
Leaves(f, table) ==
  <<Pointer("fixupOffset", f, Node("fixupTable", f))>>
  \o Body(f)
  \o <<Mark("padding", f), Plain("fixupTable", f, Len(table))>>
  \o [i \in 1..Len(table) |->
        Leaf(Node("fixup", f), 2, <<Word(0, table[i].node, table[i].rel)>>)]

-----------------------------------------------------------------------------
(* setOffset of a leaf: the padding rounds up to a word.                   *)
EndOf(leaf, ofs) ==
  IF leaf.node[1] = "padding" THEN ofs + (ofs % 2) ELSE ofs + leaf.size

Starts(leaves) ==
  LET start[i \in 1..Len(leaves)] ==
        IF i = 1 THEN 0 ELSE EndOf(leaves[i - 1], start[i - 1])
  IN  start

(* The entries of the dispatch table get no offset: ANDispTable does not   *)
(* pass setOffset on to them.                                              *)
SetOffset(f, table) ==
  LET leaves == Leaves(f, table)
      start == Starts(leaves)
  IN  [node \in {leaves[i].node : i \in 1..Len(leaves)} |->
         start[CHOOSE i \in 1..Len(leaves) : leaves[i].node = node]]

(* A node that had an offset has its new one.                              *)
Over(new, old) ==
  [node \in DOMAIN new \cup DOMAIN old |->
     IF node \in DOMAIN new THEN new[node] ELSE old[node]]

HeapNodes == LET body == Body(Heap) IN {body[i].node : i \in 1..Len(body)}

(* heapList->contains                                                      *)
IsInHeap(node) == node \in HeapNodes

Fixup(node, rel) == [node |-> node, rel |-> rel]

(* Mutant: a property that points anywhere is fixed up.                    *)
NeedsFixup_Always(leaf, word) == word.to # NoNode /\ leaf.node[1] # "method"

(* Texts among the variables and addresses that are loaded always need to  *)
(* be fixed up; what a property points to may be in the hunk.              *)
NeedsFixup(leaf, word) ==
  \/ leaf.node[1] = "vars" /\ word.to # NoNode
  \/ leaf.node[1] = "code"
  \/ leaf.node[1] = "prop" /\ IsInHeap(word.to)

FixupsOfLeaf(leaf) ==
  IF leaf.node[1] = "dispatchTable"
  THEN FlattenSeq([i \in 1..Len(dispatches) |->
         IF IsInHeap(TargetNode(dispatches[i]))
         THEN <<Fixup(Node("dispatch", dispatches[i]), 0)>> ELSE <<>>])
  ELSE FlattenSeq([k \in 1..Len(leaf.words) |->
         IF NeedsFixup(leaf, leaf.words[k])
         THEN <<Fixup(leaf.node, leaf.words[k].rel)>> ELSE <<>>])

CollectFixups(f) ==
  LET body == Body(f) IN FlattenSeq([i \in 1..Len(body) |-> FixupsOfLeaf(body[i])])

(* emit: word after word, at the byte the file has grown to.  A node that  *)
(* was given no offset has whatever is there.                              *)
Written(f, table, offsets, unset) ==
  LET leaves == Leaves(f, table)
      start == Starts(leaves)
      WordOf(leaf, at, w) ==
        [node |-> leaf.node, at |-> at + w.rel, to |-> w.to,
         value |-> w.add + (IF w.to = NoNode THEN 0
                            ELSE IF w.to \in DOMAIN offsets THEN offsets[w.to]
                            ELSE unset)]
  IN  [words |-> FlattenSeq([i \in 1..Len(leaves) |->
                   [k \in 1..Len(leaves[i].words) |->
                      WordOf(leaves[i], start[i], leaves[i].words[k])]]),
       length |-> EndOf(leaves[Len(leaves)], start[Len(leaves)])]

(* Assemble, to the first byte it writes.                                  *)
LayOut ==
  /\ phase = "building"
  /\ next > Len(script)
  /\ offset' = Over(SetOffset(Heap, <<>>), SetOffset(Hunk, <<>>))
  /\ phase' = "laid out"
  /\ UNCHANGED <<script, next, listVars, refVars, fixups, out>>

(* FixupList::emit of a file.  A variable without a value may be taken for *)
(* a text: what kind of value it has is read all the same.                 *)
Emit(f, guessed, unset) ==
  LET table == CollectFixups(f) \o guessed
      offsets == Over(SetOffset(f, table), offset)
  IN  /\ fixups' = [fixups EXCEPT ![f] = table]
      /\ offset' = offsets
      /\ out' = [out EXCEPT ![f] = Written(f, table, offsets, unset)]
      /\ UNCHANGED <<script, next, listVars, refVars>>

Holes == {i \in 1..Len(localVars) : localVars[i] = Hole}

EmitHeap ==
  /\ phase = "laid out"
  /\ \E holes \in SUBSET Holes :
       Emit(Heap, [i \in 1..Cardinality(holes) |->
              Fixup(Node("vars", 0), 2 * SetToSortSeq(holes, <)[i])], 0)
  /\ phase' = "heap written"

EmitHunk ==
  /\ phase = "heap written"
  /\ \E unset \in UnsetOffsets : Emit(Hunk, <<>>, unset)
  /\ phase' = "done"

Next ==
  \/ SetVar \/ AddTextNode
  \/ CreateObject \/ AppendProperty \/ AppendMethod
  \/ CreateFunction \/ AddOp \/ AddReference
  \/ AddPublic
  \/ LayOut \/ EmitHeap \/ EmitHunk

Spec == Init /\ [][Next]_vars

-----------------------------------------------------------------------------
(* Type invariant: the lists of the generator hold calls already made.     *)
TypeOK ==
  /\ next \in 1..(Len(script) + 1)
  /\ texts \in Seq(1..(next - 1))
  /\ code \in Seq(1..(next - 1))
  /\ dispatches \in Seq(0..(next - 1))
  /\ RefsTypeOK
  /\ phase \in {"building", "laid out", "heap written", "done"}

(* What the name in a call stands for: the call that makes it.             *)
MeantIn(calls) ==
  [i \in Sites |->
     IF i \in 1..Len(calls) /\ Refers(calls[i])
     THEN CHOOSE k \in 1..Len(calls) :
            Creates(calls[k]) /\ calls[k].name = calls[i].name
     ELSE Unresolved]

Meant == MeantIn(script)

Binding == INSTANCE LateBinding WITH meant <- Meant, bound <- target, Unbound <- Unresolved

(* Every reference is bound to what its name stands for, once, and never   *)
(* to anything else, whether it was used before that was made or after.    *)
BindsLate == Binding!Spec

(* When Assemble starts every reference is bound: nothing that setOffset,  *)
(* collectFixups or emit does follows a target that is not there.          *)
AllBound ==
  phase # "building" =>
    \A i \in 1..Len(script) : Refers(script[i]) => target[i] = Meant[i]

=============================================================================
