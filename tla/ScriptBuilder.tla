--------------------------- MODULE ScriptBuilder ---------------------------
(***************************************************************************)
(* The calls the semantic phase makes to the code generator for one script *)
(* (BuildModuleEnvironment in scic/sem/module_env.cpp, then BuildCode in   *)
(* scic/sem/code_builder.cpp), for a script in which names are found and   *)
(* tables are built without an error.                                      *)
(***************************************************************************)
EXTENDS Integers, SequencesExt

CONSTANT NoName

(* Values, and the definitions of a script.                                *)
Number(n) == [type |-> "int", val |-> n]
Text(length) == [type |-> "text", val |-> length]

Local(index, values) == [index |-> index, values |-> values]
Prop(kind, value) == [kind |-> kind, value |-> value]
Proc(name, temps, body) == [kind |-> "proc", name |-> name, temps |-> temps, body |-> body]
Class(name, props, methods) ==
  [kind |-> "class", name |-> name, props |-> props, methods |-> methods]
Object(name, props, methods) ==
  [kind |-> "object", name |-> name, props |-> props, methods |-> methods]
Public(index, name) == [index |-> index, name |-> name]

Call(op, name, num, val) == [op |-> op, name |-> name, num |-> num, val |-> val]

AddText(v) == Call("AddTextNode", NoName, v.val, v)

-----------------------------------------------------------------------------
(* The tables are built first, and with them the texts that are values of  *)
(* properties and of variables.  The class table takes no text; the name   *)
(* of a class is added when the class is built.                            *)
TextsAmong(values) ==
  LET texts == SelectSeq(values, LAMBDA v : v.type = "text")
  IN  [i \in 1..Len(texts) |-> AddText(texts[i])]

PropTexts(item) == TextsAmong([i \in 1..Len(item.props) |-> item.props[i].value])

ItemsOf(m, kind) == SelectSeq(m.items, LAMBDA item : item.kind = kind)

TableCalls(m) ==
  LET objects == ItemsOf(m, "object")
  IN  FlattenSeq([i \in 1..Len(objects) |-> PropTexts(objects[i])])
      \o FlattenSeq([i \in 1..Len(m.vars) |-> TextsAmong(m.vars[i].values)])

VarCalls(m) ==
  FlattenSeq([i \in 1..Len(m.vars) |->
    [k \in 1..Len(m.vars[i].values) |->
       Call("SetVar", NoName, m.vars[i].index + k - 1, m.vars[i].values[k])]])

(* A text in an expression is added where it is loaded.                    *)
InstructionCalls(i) ==
  IF i.op = "AddLoadImmediate" THEN <<AddText(i.val), i>> ELSE <<i>>

BuildGenericProcedure(name, temps, body) ==
  <<Call("CreateFunction", name, temps, Number(0))>>
  \o FlattenSeq([i \in 1..Len(body) |-> InstructionCalls(body[i])])
  \o <<Call("AddOp", NoName, 0, Number(0))>>

(* The selector of a property is told by its place here.                   *)
PropCalls(prop, selector) ==
  CASE prop.kind = "propDict" ->
         <<Call("AppendPropTableProperty", NoName, selector, Number(0))>>
    [] prop.kind = "methDict" ->
         <<Call("AppendMethodTableProperty", NoName, selector, Number(0))>>
    [] prop.kind = "className" ->
         <<AddText(prop.value), Call("AppendProperty", NoName, selector, prop.value)>>
    [] prop.kind = "value" ->
         <<Call("AppendProperty", NoName, selector, prop.value)>>

BuildObject(item) ==
  <<Call(IF item.kind = "class" THEN "CreateClass" ELSE "CreateObject",
         item.name, 0, Number(0))>>
  \o FlattenSeq([i \in 1..Len(item.props) |-> PropCalls(item.props[i], i)])
  \o FlattenSeq([i \in 1..Len(item.methods) |->
       <<Call("AppendMethod", item.methods[i].name, i, Number(0))>>
       \o BuildGenericProcedure(item.methods[i].name, item.methods[i].temps,
                                item.methods[i].body)])

BuildItem(item) ==
  IF item.kind = "proc"
  THEN BuildGenericProcedure(item.name, item.temps, item.body)
  ELSE BuildObject(item)

PublicCalls(m) ==
  [i \in 1..Len(m.publics) |->
     Call("AddPublic", m.publics[i].name, m.publics[i].index, Number(0))]

(* The whole script, in the order of its source.                           *)
BuildCode(m) ==
  TableCalls(m) \o VarCalls(m)
  \o FlattenSeq([i \in 1..Len(m.items) |-> BuildItem(m.items[i])])
  \o PublicCalls(m)

=============================================================================
