---------------------------- MODULE ExpandInputs ----------------------------
(***************************************************************************)
(* What Expand is checked with: aliases that use their arguments in all    *)
(* ways, that begin with aliases, or with themselves; variables that stand *)
(* for aliases, for references and for several commands; functions of      *)
(* functions; and lines with one to three of their words.                  *)
(***************************************************************************)
EXTENDS Sequences, FiniteSets, TLC

CONSTANT NULL

W(w) == [t |-> "text", word |-> w, pre |-> ""]
Star(w) == [t |-> "text", word |-> w, pre |-> "*"]
At(w) == [t |-> "text", word |-> w, pre |-> "@"]
Sep == [t |-> "sep"]
Ask == [t |-> "ask"]
V(n) == [t |-> "var", name |-> n]
P(n) == [t |-> "percent", name |-> n]
A(n) == [t |-> "arg", n |-> n]
T(n) == [t |-> "tail", n |-> n]
C == [t |-> "count"]
F(n, a) == [t |-> "function", name |-> n, args |-> a]
Q(s) == [t |-> "quoted", of |-> s]

aliases ==
  "copy" :> <<Star("copy"), A(2), A(1)>> @@ "twice" :> <<W("echo"), A(1), Sep, W("echo"), A(1)>>
  @@ "all" :> <<W("copy"), T(2)>> @@ "many" :> <<W("echo"), C, Q(<<A(1)>>)>> @@ "self" :> <<W("self"), A(1)>>
  @@ "here" :> <<V("dir")>> @@ "rev" :> <<W("echo"), F("REVERSE", <<A(1), V("b"), A(2)>>)>> @@ "d" :> <<W("d2")>>
  @@ "d2" :> <<Ask, At("d3"), A(3)>> @@ "d3" :> <<A(0)>>
values ==
  "b" :> <<W("x")>> @@ "dir" :> <<W("copy"), W("y")>> @@ "two" :> <<V("b"), V("b")>> @@ "cut" :> <<V("b"), Sep, V("b")>>
  @@ "loop" :> <<V("loop2")>> @@ "loop2" :> <<V("loop")>> @@ "grow" :> <<V("grow2"), W("z")>> @@ "grow2" :> <<V("grow")>>
  @@ "path" :> <<W("c"), V("path")>> @@ "fn" :> <<F("user", <<V("b"), W("w")>>)>>
functions ==
  "user" :> <<A(2), A(1), V("b")>> @@ "deep" :> <<F("deep", <<F("deep", <<A(1)>>)>>)>> @@ "empty" :> <<A(9)>>
  @@ "tails" :> <<T(1), W("u"), A(0)>>

World(args, fors, calls) ==
  [aliases |-> aliases, values |-> values, functions |-> functions, fors |-> fors, gosub |-> "b" :> <<W("local")>>,
   args |-> args, offset |-> 0, noalias |-> FALSE, novars |-> FALSE, nonested |-> FALSE, nonestedalias |-> FALSE,
   calls |-> calls]
Call(line, recurse) == [line |-> line, recurse |-> recurse]
AtPrompt(calls) == [World(NULL, <<>>, calls) EXCEPT !.gosub = <<>>]
InFile(calls) == [World(<<W("file"), V("b"), W("p"), W("q")>>, "f" :> <<W("m"), V("two")>>, calls) EXCEPT !.offset = 1]

Aliases == {W(w) : w \in DOMAIN aliases}
Others == {V(n) : n \in DOMAIN values} \cup {V("none"), P("b"), P("f"), V("f"), A(1), A(3), T(2), C}
Calls == {F(n, a) : n \in {"REVERSE", "ALIAS", "user", "tails", "empty"},
                    a \in {<<W("copy")>>, <<W("v"), W("w")>>, <<V("two"), W("v")>>, <<F("user", <<V("b"), A(1)>>), W("s")>>}}
         \cup {F("deep", <<W("v")>>), F("deep", <<V("b")>>), F("ALIAS", <<W("twice")>>), F("REVERSE", <<Q(<<V("b")>>), W("t")>>)}
Lines ==
  {<<a>> \o s : a \in Aliases \cup {Star("copy"), At("copy"), W("echo")},
                s \in {<<>>, <<W("1")>>, <<V("two"), W("2"), W("3"), W("4")>>, <<W("1"), W("2"), Sep, V("b")>>,
                       <<P("b"), Q(<<V("b")>>), V("b")>>}}
  \cup {<<w>> : w \in Others \cup Calls} \cup {<<Ask, w, V("b"), W("1")>> : w \in Aliases}
  \cup {<<v, w>> : v \in Others \cup Calls, w \in {W("copy"), V("two"), F("user", <<V("b")>>)}}
  \cup {<<W("echo"), v, W("e"), w>> : v \in Others \cup Calls, w \in {V("two"), Sep, V("cut")}}

\* After a line that was nested too deeply a command expands its own argument.
Again == <<Call(<<F("deep", <<V("b")>>)>>, 0), Call(<<W("echo"), F("deep", <<V("b")>>)>>, 1)>>

MCWorks ==
  {AtPrompt(<<Call(l, 0)>>) : l \in Lines} \cup {InFile(<<Call(l, 0)>>) : l \in Lines}
  \cup {InFile(<<Call(<<W("echo"), w>>, 1)>>) : w \in Others \cup Calls}
  \cup {AtPrompt(Again)}
  \cup {[InFile(<<Call(<<a, V("two"), W("1")>>, 0)>>)
         EXCEPT !.noalias = na, !.novars = nv, !.nonested = nn, !.nonestedalias = ns] :
          a \in Aliases \cup {V("dir"), Star("copy")}, na \in BOOLEAN, nv \in BOOLEAN, nn \in BOOLEAN, ns \in BOOLEAN}
=============================================================================
