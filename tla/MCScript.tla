------------------------------ MODULE MCScript ------------------------------
(***************************************************************************)
(* Small scripts with every kind of definition, in every order, through    *)
(* the code generator.                                                     *)
(***************************************************************************)
EXTENDS LoadedScript

B == INSTANCE ScriptBuilder

a == B!Text(1)
b == B!Text(2)

Op == B!Call("AddOp", NoName, 0, B!Number(0))
LoadOf(name) == B!Call("AddLoadOffsetTo", name, 0, B!Number(0))
LoadText(v) == B!Call("AddLoadImmediate", NoName, 0, v)
CallOf(name) == B!Call("AddProcCall", name, 0, B!Number(0))

Bodies ==
  {<<>>, <<Op>>, <<LoadOf("o"), CallOf("p")>>, <<LoadText(a), Op>>, <<CallOf("q"), LoadText(b)>>}

Dicts == <<B!Prop("propDict", B!Number(0)), B!Prop("methDict", B!Number(0))>>

Procs == {B!Proc("p", Len(body), body) : body \in Bodies}
OtherProcs == {B!Proc("q", 0, <<LoadOf("o")>>)}
Methods(name) == {<<>>} \cup {<<[name |-> name, temps |-> 0, body |-> body]>> :
                                body \in {<<CallOf("p"), LoadOf("o")>>, <<LoadText(a)>>}}
Objects == {B!Object("o", Dicts \o <<B!Prop("value", v)>>, methods) :
              v \in {B!Number(7), a}, methods \in Methods("o m")}
Classes == {B!Class("c", <<B!Prop("className", b)>> \o Dicts, methods) :
              methods \in Methods("c m")}

ItemLists ==
  LET sets == Procs \X OtherProcs \X Objects \X Classes
  IN  {<<s[1], s[2], s[3], s[4]>> : s \in sets}
      \cup {<<s[3], s[1], s[2]>> : s \in sets}
      \cup {<<s[4], s[3], s[2], s[1]>> : s \in sets}

Locals ==
  {<<>>, <<B!Local(0, <<a, B!Number(5)>>)>>,
   <<B!Local(0, <<B!Number(1), B!Number(2)>>), B!Local(1, <<B!Number(3), b>>)>>}

PublicLists ==
  {<<>>, <<B!Public(0, "p")>>, <<B!Public(2, "p"), B!Public(0, "q")>>}

MCModules ==
  {[vars |-> locals, items |-> items, publics |-> publics] :
     locals \in Locals, items \in ItemLists, publics \in PublicLists}

(* With objects among the publics, and with variables nobody gave a value. *)
PublicObjects ==
  {[vars |-> <<>>, items |-> items, publics |-> <<B!Public(1, "o")>>] : items \in ItemLists}

Uninitialized ==
  {[vars |-> <<B!Local(2, <<a>>)>>, items |-> items, publics |-> <<>>] : items \in ItemLists}

MCScripts == {B!BuildCode(m) : m \in MCModules \cup Uninitialized}
PublicObjectScripts == {B!BuildCode(m) : m \in PublicObjects}

MCNames == {"p", "q", "o", "c", "o m", "c m"}
MCCalls == 1..40

=============================================================================
