-------------------------- MODULE MCClassDatabase --------------------------
(* Two runs of sc over the same directory.                                 *)
EXTENDS ClassDatabase, TLC

CONSTANTS p1, p2, x, y, z, id, A, B, C, s1, s2

MCProc == {p1, p2}
MCSelector == {x, y, z, id}
MCClass == {A, B, C}
MCScript == {s1, s2}
MCBuiltin == id :> 1

SendOf(name) == [kind |-> "send", name |-> name]
DeclareOf(name) == [kind |-> "declare", name |-> name]
ClassOf(name, super) == [kind |-> "class", name |-> name, super |-> super]
AnError == [kind |-> "error"]
FileOf(script, statements) == [script |-> script, body |-> statements]

UsesX == FileOf(s1, <<SendOf(x)>>)
UsesYThenX == FileOf(s2, <<SendOf(y), SendOf(x), SendOf(id)>>)
UsesTooMany == FileOf(s2, <<SendOf(y), SendOf(x), SendOf(z)>>)
DefinesA == FileOf(s1, <<ClassOf(A, RootObj), DeclareOf(y)>>)
DefinesB == FileOf(s2, <<ClassOf(B, A), DeclareOf(x), SendOf(y)>>)
DefinesAC == FileOf(s2, <<ClassOf(A, RootObj), ClassOf(C, RootObj)>>)
MovesA == FileOf(s2, <<ClassOf(A, RootObj), ClassOf(C, RootObj), ClassOf(A, C)>>)
HasError == FileOf(s2, <<SendOf(y), AnError>>)
HasNoNumber == FileOf(None, <<SendOf(y)>>)

Sources ==
  {<<f>> : f \in {UsesX, UsesYThenX, DefinesA, DefinesB, HasNoNumber,
                  UsesTooMany}}
    \cup {<<DefinesA, DefinesB>>, <<HasError, UsesX>>, <<DefinesA, DefinesA>>, <<DefinesAC>>, <<MovesA>>}

Command(source, unlocked, abort) ==
  [files |-> source, dontLock |-> unlocked, abortIfLocked |-> abort]
MCCommands ==
  {Command(source, FALSE, FALSE) : source \in Sources}
    \cup {Command(<<UsesX>>, FALSE, TRUE), Command(<<UsesX>>, TRUE, FALSE)}

EmptyDatabase == [selectors |-> NoNames, classes |-> NoClasses]
(* x is there, with a gap below it, and A.                                 *)
OldDatabase ==
  [selectors |-> [NoNames EXCEPT ![x] = 2],
   classes |-> [NoClasses EXCEPT ![A] = [num |-> 0, super |-> RootNum, script |-> s1, own |-> {x}]]]
MCDatabases == {EmptyDatabase, OldDatabase}
=============================================================================
