----------------------------- MODULE EvalInputs -----------------------------
(***************************************************************************)
(* What Eval is checked with: all operators with numbers that are whole or *)
(* not, in groups of two and three, with signs and parentheses, and        *)
(* sequences of tokens that are no expressions.                            *)
(***************************************************************************)
EXTENDS Integers, Sequences

N(n) == [t |-> "number", n |-> n]
Hex(n) == [t |-> "hex", n |-> n]
O(op) == [t |-> "op", op |-> op]
Bad == [t |-> "bad"]

All == {"AND", "OR", "XOR", "+", "-", "*", "/", "\\", "MOD", "**"}
Some == {"XOR", "-", "/", "MOD", "**"}
Numbers == {N(n) : n \in {0, 100, 200, 250, 300, 30000}}
Few == {N(200), N(300), N(50)}
Signed == {<<O("-"), N(200)>>, <<O("+"), N(300)>>, <<O("-"), O("("), N(100), O("-"), N(300), O(")")>>, <<Hex(1000)>>}

Pairs == {<<a, O(o), b>> : a \in Numbers, o \in All, b \in Numbers \ {N(30000)}} \cup {<<a, O(o), N(30000)>> : a \in Numbers, o \in All \ {"**"}}
Triples == {<<a, O(o), b, O(p), c>> : a \in Few, o \in All, b \in Few, p \in All, c \in Few}
Longer == {<<N(300), O(o), N(200), O(p), N(100), O(q), N(200)>> : o \in All, p \in All, q \in All}
Grouped == {<<O("("), a, O(o), b, O(")"), O(p), c>> : a \in Few, o \in Some, b \in Few, p \in Some, c \in Few}
           \cup {<<a, O(o), O("("), b, O(p), c, O(")")>> : a \in Few, o \in Some, b \in Few, p \in Some, c \in Few}
WithSigns == {s \o <<O(o)>> \o t : s \in Signed, o \in All, t \in Signed}
Wild == {Bad, N(200), Hex(300), O("("), O(")"), O("-"), O("*")}
Mistakes == {<<>>} \cup {<<a>> : a \in Wild} \cup {<<a, b>> : a \in Wild, b \in Wild} \cup {<<a, b, c>> : a \in Wild, b \in Wild, c \in Wild}
            \cup {<<O("("), a, b, c, d>> : a \in Wild, b \in Wild, c \in Wild, d \in {O(")"), N(200)}}

MCExpressions ==
  {[tokens |-> e, min |-> 0, max |-> 2] : e \in Pairs \cup Triples \cup Longer \cup Grouped \cup WithSigns \cup Mistakes}
  \cup {[tokens |-> e, min |-> m, max |-> x] : e \in Pairs, m \in 0 .. 3, x \in 0 .. 1}
=============================================================================
