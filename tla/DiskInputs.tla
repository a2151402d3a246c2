----------------------------- MODULE DiskInputs -----------------------------
(***************************************************************************)
(* What TLC searches for, and where: all wildcards of up to three          *)
(* characters, then lists, brackets, attributes, ranges and exclusions.    *)
(* With long names "?" is left out, as it does not stand for a "." there.  *)
(***************************************************************************)
EXTENDS Integers, Sequences, FiniteSets

En(n, a, d, t, s) == [name |-> n, attrib |-> a, date |-> d, time |-> t, size |-> s]
Short == <<En(<<".">>, {"D"}, 1, 1, 0), En(<<".", ".">>, {"D"}, 1, 1, 0), En(<<"a">>, {}, 1, 0, 3),
           En(<<"b", "a", ".", "b">>, {"A"}, 3, 5, 2), En(<<"a", "b">>, {"D"}, 2, 3, 0),
           En(<<"a", "b", ".", "a", "b">>, {"R", "H"}, 4, 6, 1), En(<<"b", ".", "a", "b">>, {"H"}, 4, 7, 4),
           En(<<"a", ".", "b">>, {"A", "R"}, 2, 2, 5), En(<<"a", "c", "b">>, {"A", "S"}, 5, 4, 6)>>
Long == Short \o <<En(<<"a", ".", "b", ".", "a">>, {"A"}, 3, 4, 2), En(<<".", "a">>, {}, 3, 4, 2),
                   En(<<"a", "b", ".", "b", ".", "b">>, {"A"}, 3, 4, 2)>>
Any == {"H", "S", "D"}
Ask(names) == [lfn |-> FALSE, arg |-> names, mode |-> Any, letters |-> <<>>, flags |-> {}, exclude |-> <<>>,
             ranges |-> <<>>, list |-> <<>>]
Patterns(chars) == {s \in UNION {[1 .. n -> chars] : n \in 1 .. 3} :
                      /\ s \notin {<<".">>, <<".", ".">>}
                      /\ s # <<".", ".", ".">>}
OneDot(s) == (\A i \in 1 .. Len(s) - 1 : <<s[i], s[i + 1]>> # <<"*", "?">>) /\ Cardinality({i \in 1 .. Len(s) : s[i] = "."}) <= 1
Brackets == {<<"[", "a", "c", "]", "*">>, <<"*", "[", "!", "a", "]">>, <<"a", "[", "b", "]">>, <<"[", "!", "b", "]", "[", "c", "]", "b">>}
All == <<"*", ".", "*">>
Lists == {<<"a", "*", ";", "*", ".", "b">>, <<"a", ";", "a", "b", ";", "c">>, <<"[", "b", "]", "*", ".", "*", ";", "a", "b", ".", "*">>,
          <<"c", ";", "*", "b", ".", "b">>}
Att(sign, letter) == [sign |-> sign, letter |-> letter]
Attributes == {<<Att("", "A"), Att("-", "R")>>, <<Att("+", "H"), Att("+", "D"), Att("-", "S")>>, <<Att("+", "N")>>, <<Att("", "N")>>,
               <<Att("-", "A"), Att("", "A")>>, <<Att("", "R"), Att("-", "R"), Att("+", "A")>>}
P(sign, n) == [sign |-> sign, n |-> n, time |-> 0 - 1]
No == P("none", 0)
R(kind, a, b) == [kind |-> kind, a |-> a, b |-> b]
Dt(n, t) == [sign |-> "", n |-> n, time |-> t]
Ranges == {<<R("D", P("-", 2), No)>>, <<R("D", P("+", 1), No)>>, <<R("D", P("", 2), P("", 4))>>, <<R("D", P("", 4), P("", 2))>>, <<R("D", P("", 4), P("-", 2))>>,
           <<R("D", P("", 2), P("+", 1))>>, <<R("D", Dt(3, 5), Dt(4, 6))>>, <<R("D", Dt(4, 6), Dt(2, 3))>>,
           <<R("T", P("-", 3), No)>>, <<R("T", P("+", 7), No)>>, <<R("T", P("", 3), P("", 6))>>, <<R("T", P("", 6), P("", 2))>>, <<R("T", P("", 6), P("+", 3))>>, <<R("T", P("", 2), P("-", 3))>>,
           <<R("S", P("", 2), No)>>, <<R("S", P("", 4), P("", 2))>>, <<R("S", P("", 4), P("-", 2)), R("T", P("-", 1), P("+", 4)), R("D", P("-", 1), P("+", 2))>>, <<R("S", P("", 1), P("+", 2))>>}
Searches ==
  {Ask(p) : p \in {q \in Patterns({"a", "b", "*", "?", "."}) : OneDot(q)} \cup Brackets \cup Lists}
  \cup {[Ask(p) EXCEPT !.lfn = TRUE] : p \in Patterns({"a", "b", "*", "."}) \cup Brackets \cup Lists}
  \cup {[Ask(All) EXCEPT !.letters = l, !.flags = {"byatts", "nodots"}] : l \in Attributes}
  \cup {[Ask(All) EXCEPT !.ranges = r, !.flags = {"range"}, !.lfn = l] : r \in Ranges, l \in BOOLEAN}
  \cup {[Ask(All) EXCEPT !.mode = m, !.flags = f, !.exclude = <<<<"a", "*", ".", "*">>, <<"[", "!", "a", "]", ".", "?", "b">>>>] :
          m \in {{}, {"D"}, Any}, f \in {{"exclude", "nodots"}, {"exclude", "onlydirs"}, {"nodots"}, {"close"}}}
  \cup {[Ask(<<"@">>) EXCEPT !.list = l] : l \in {<<<<"a">>, <<"b", ".", "a">>, <<>>, <<"c">>>>, <<>>, <<<<"c">>>>}}
Folders == [long |-> Long, short |-> Short]

(***************************************************************************)
(* What Descriptions is checked with: two directories, the first with long *)
(* names, and files of up to four lines, of two blocks.                    *)
(***************************************************************************)
L(n, t) == [name |-> n, text |-> t]
Dir(lfn, files, lines) == [lfn |-> lfn, files |-> files, lines |-> lines]
MCDirectories ==
  {<<Dir(TRUE, <<"a", "bb", "long">>, l), Dir(FALSE, <<"a">>, m)>> :
     l \in {<<L("a", "x"), L("gone", "x"), L("bb", "yy"), L("long", "x")>>, <<L("long", "yy"), L("bb", "x"), L("a", "x")>>,
            <<L("bb", "x"), L("a", "x"), L("bb", "yy")>>, <<>>},
     m \in {<<>>, <<L("gone", "x"), L("long", "x"), L("a", "yy")>>}}
Width == [a |-> 1, bb |-> 2, new |-> 3, gone |-> 4, long |-> 4]
MCLineSize(l) == Width[l.name] + (IF l.text = "yy" THEN 2 ELSE 1) + 1
=============================================================================
