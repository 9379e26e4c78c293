---------------------------- MODULE LoadedScript ----------------------------
(***************************************************************************)
(* What the interpreter makes of the two files of a script: it reads words *)
(* at places it knows or has read before, and adds the address of the heap *)
(* to the words in the fixup tables.                                       *)
(***************************************************************************)
EXTENDS CodeGenerator, FiniteSets

(* Where a node is in the file that holds it.                              *)
Place(node) ==
  LET f == IF IsInHeap(node) THEN Heap ELSE Hunk
      leaves == Leaves(f, fixups[f])
  IN  Starts(leaves)[CHOOSE i \in 1..Len(leaves) : leaves[i].node = node]

WordAt(f, at) ==
  LET words == out[f].words
  IN  words[CHOOSE i \in 1..Len(words) : words[i].at = at].value

(* The first word of a file leads to its fixup table.                      *)
Table(f) == WordAt(f, 0)
Entries(f) == [i \in 1..WordAt(f, Table(f)) |-> WordAt(f, Table(f) + 2 * i)]

IsOfTable(w) == w.node[1] \in {"fixupOffset", "fixupTable", "fixup"}

(* How often the loader adds the address of the heap to the word at at.    *)
Additions(f, at) ==
  LET entries == Entries(f)
  IN  Cardinality({i \in 1..Len(entries) : entries[i] = at})

PointsToHeap(w) == w.to # NoNode /\ IsInHeap(w.to)

NamesPublicObject ==
  \E i \in 1..Len(dispatches) : IsInHeap(TargetNode(dispatches[i]))

(* Wherever the heap is put, once the loader has added its address to the  *)
(* words in the tables, every word that means a thing of the heap holds    *)
(* its address, every word that means a thing of the hunk its offset, and  *)
(* all others are what they were (FixupList::emit; the exceptions are in   *)
(* PublicObjectsRelocated and in variables without a value).               *)
LoadsAnywhere ==
  phase = "done" /\ ~NamesPublicObject /\ Holes = {} =>
    \A f \in {Heap, Hunk} :
      /\ Table(f) % 2 = 0
      /\ out[f].length = Table(f) + 2 * (Len(Entries(f)) + 1)
      /\ \A i \in 1..Len(out[f].words) :
           LET w == out[f].words[i]
           IN  ~IsOfTable(w) =>
                 /\ w.value = (IF w.to = NoNode THEN w.value ELSE Place(w.to))
                 /\ Additions(f, w.at) = (IF PointsToHeap(w) THEN 1 ELSE 0)
      /\ \A i \in 1..Len(Entries(f)) :
           \E k \in 1..Len(out[f].words) : out[f].words[k].at = Entries(f)[i]

(* The comment on ANDispatch::collectFixups: "If the destination of this   *)
(* dispatch entry is in the heap (i.e. an object rather than code), it     *)
(* must be fixed up."                                                      *)
PublicObjectsRelocated ==
  phase = "done" =>
    \A i \in 1..Len(dispatches) :
      IsInHeap(TargetNode(dispatches[i])) =>
        Additions(Hunk, Place(Node("dispatchTable", 0)) + 2 * i) = 1

(* A local variable starts with the value of the first definition that     *)
(* covers it, or with 0, whatever the order and overlap of definitions.    *)
VariablesStartAsDeclared ==
  phase = "done" =>
    \A n \in 0..(Len(localVars) - 1) :
      LET given == {i \in 1..Len(script) : script[i].op = "SetVar" /\ script[i].num = n}
          word == WordAt(Heap, 4 + 2 * n)
      IN  IF given = {} THEN word = 0
          ELSE LET v == script[CHOOSE i \in given : \A k \in given : i <= k].val
               IN  word = (IF IsText(v) THEN Place(TextNode(v)) ELSE v.val)

(* The calls that give the object made by call id its properties and its   *)
(* methods, among the first n.                                             *)
CallsUpTo(s, n, id, kinds) ==
  FlattenSeq([i \in 1..n |->
    IF Belongs(s, id, i) /\ s[i].op \in kinds THEN <<i>> ELSE <<>>])
CallsOf(id, kinds) == CallsUpTo(script, Len(script), id, kinds)
PropCallsOf(id) == CallsOf(id, PropKinds)
MethodCallsOf(id) == CallsOf(id, {"AppendMethod"})

ValueOfProp(id, kind) ==
  LET calls == PropCallsOf(id)
  IN  WordAt(Heap, Place(Node("props", id)) +
        2 * ((CHOOSE i \in 1..Len(calls) : script[calls[i]].op = kind) - 1))

(* The way of a message: from the properties of an object the interpreter  *)
(* finds the number of its methods, and behind it for each its selector    *)
(* and its code; and from those of a class the selectors of its            *)
(* properties, in their order.                                             *)
MessagesAreFound ==
  phase = "done" =>
    \A id \in {i \in 1..Len(script) : script[i].op \in ObjectKinds} :
      LET methods == MethodCallsOf(id)
          props == PropCallsOf(id)
          dict == ValueOfProp(id, "AppendMethodTableProperty")
          selectors == ValueOfProp(id, "AppendPropTableProperty")
      IN  /\ WordAt(Hunk, dict) = Len(methods)
          /\ \A i \in 1..Len(methods) :
               /\ WordAt(Hunk, dict + 4 * i - 2) = script[methods[i]].num
               /\ WordAt(Hunk, dict + 4 * i) = Place(Node("code", Meant[methods[i]]))
          /\ script[id].op = "CreateClass" =>
               \A i \in 1..Len(props) :
                 WordAt(Hunk, selectors + 2 * i - 2) = script[props[i]].num

(* Another script calls a procedure by its number in the dispatch table,   *)
(* which is at byte 6 of the hunk.                                         *)
PublicsAreFound ==
  phase = "done" =>
    \A i \in 1..Len(script) :
      script[i].op = "AddPublic" =>
        /\ script[i].num < WordAt(Hunk, 6)
        /\ script[Meant[i]].op = "CreateFunction" =>
             WordAt(Hunk, 8 + 2 * script[i].num) = Place(Node("code", Meant[i]))

(* What an interpreter looks up in the files, by number or by selector, is *)
(* where it looks for it.                                                  *)
LookupsSucceed == MessagesAreFound /\ PublicsAreFound

=============================================================================
