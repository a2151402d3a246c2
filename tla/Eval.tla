-------------------------------- MODULE Eval --------------------------------
(***************************************************************************)
(* @EVAL: evaluate() reads an expression with one function for each level  *)
(* of precedence, which share the current token, and computes with signed  *)
(* decimal numbers of fixed size.                                          *)
(*                                                                         *)
(* A number is its sign and its digits, [sign, n], with n in units of the  *)
(* last decimal place; the sign of a number nobody set is 0.  An           *)
(* expression is a sequence of tokens [t, op, n]: "number", "hex", "op",   *)
(* and "bad" for characters that are none of these.                        *)
(***************************************************************************)
EXTENDS Integers, Sequences, FiniteSetsExt, Bitwise

CONSTANTS
  Expressions,        \* [tokens, min, max]: max and min are the places to show
  Integer, Decimal    \* SIZE_INTEGER, SIZE_DECIMAL: how many digits there are

VARIABLES expr, value    \* value: [sign, n, places], [error] or [none]

vars == <<expr, value>>

None == [none |-> TRUE]
Error(e) == [error |-> e]
Init == expr \in Expressions /\ value = None

Unit == 10 ^ Decimal
Limit == 10 ^ (Integer + Decimal)
Zero == [sign |-> "0", n |-> 0]
Whole(x) == [x EXCEPT !.n = @ - (@ % Unit)]

-----------------------------------------------------------------------------
(***************************************************************************)
(* The arithmetic.  A result has n = Limit when it does not fit.           *)
(***************************************************************************)
Fits(x) == x.n < Limit
Overflow == [sign |-> "+", n |-> Limit]
Opposite(sign) == IF sign = "-" THEN "+" ELSE "-"
Capped(sign, n) == IF n < Limit THEN [sign |-> sign, n |-> n] ELSE Overflow

\* Numbers with the same sign are added, others subtracted.
add_bcd(x, y) ==
  IF x.sign = y.sign THEN Capped(x.sign, x.n + y.n)
  ELSE IF x.n >= y.n THEN [sign |-> "+", n |-> x.n - y.n] ELSE [sign |-> "-", n |-> y.n - x.n]
Added(r, h) == IF r.sign # h.sign /\ r.sign = "-" THEN add_bcd(h, r) ELSE add_bcd(r, h)

ProductSign(x, y) == IF x.sign = y.sign THEN "+" ELSE "-"
multiply_bcd(x, y) == Capped(ProductSign(x, y), (x.n * y.n + Unit \div 2) \div Unit)
divide_bcd(x, y) ==
  IF y.n = 0 THEN Overflow
  ELSE Capped(ProductSign(x, y), ((x.n * Unit * 10) \div y.n + 5) \div 10)

\* The exponent is what atoi() makes of the digits before the decimal point.
Power(r, h) ==
  LET e == h.n \div Unit
      power[i \in 1 .. e] ==
        IF i = 1 THEN r
        ELSE LET p == power[i - 1] IN IF Fits(p) THEN multiply_bcd(p, r) ELSE Overflow
  IN IF e = 0 THEN [r EXCEPT !.n = Unit] ELSE power[e]

\* The remainder has the sign of the dividend; when it is not that of the divisor,
\* the divisor is added.
Modulo(r, h) ==
  LET rest == [sign |-> IF r.sign = "-" THEN "-" ELSE "+", n |-> r.n % h.n]
  IN IF h.n = 0 THEN Overflow ELSE IF rest.sign # h.sign THEN Added(rest, h) ELSE rest

\* AND, OR and XOR work on longs (32 bits; here numbers stay small enough).
Long(x) == IF x.sign = "-" THEN 2 ^ 16 - x.n \div Unit ELSE x.n \div Unit
Signed(l) == IF l < 2 ^ 15 THEN [sign |-> "+", n |-> l * Unit] ELSE [sign |-> "-", n |-> (2 ^ 16 - l) * Unit]
Bits(op, a, b) == CASE op = "AND" -> a & b [] op = "OR" -> a | b [] op = "XOR" -> a ^^ b

arith(op, r, h) ==
  CASE op \in {"AND", "OR", "XOR"} -> Signed(Bits(op, Long(r), Long(h)))
    [] op = "+" -> Added(r, h)
    [] op = "-" -> Added(r, [h EXCEPT !.sign = Opposite(@)])
    [] op = "*" -> multiply_bcd(r, h)
    [] op = "/" -> divide_bcd(r, h)
    [] op = "\\" -> (IF Fits(divide_bcd(r, h)) THEN Whole(divide_bcd(r, h)) ELSE Overflow)
    [] op = "MOD" -> Modulo(Whole(r), Whole(h))
    [] op = "**" -> Power(r, h)

-----------------------------------------------------------------------------
(***************************************************************************)
(* The parser: s has the position at, the type of the token, the last      *)
(* operator delim, the result r and the error, if any.                     *)
(***************************************************************************)
Tokens == expr.tokens
Token(s) == Tokens[s.at]

\* After a number delim still is what it was before.
get_token(s) ==
  IF s.at >= Len(Tokens) THEN [s EXCEPT !.at = Len(Tokens) + 1, !.type = "none", !.delim = "AND"]
  ELSE LET w == Tokens[s.at + 1]
       IN [s EXCEPT !.at = @ + 1, !.type = w.t,
                    !.delim = CASE w.t = "op" -> w.op [] w.t = "bad" -> "AND" [] OTHER -> @]

Operators == <<{"AND", "OR", "XOR"}, {"+", "-"}, {"*", "**", "/", "\\", "MOD"}, {"**"}>>
Ok(s) == s.error = ""
IsOp(s, ops) == Ok(s) /\ s.type = "op" /\ s.delim \in ops
Failed(s, e) == [s EXCEPT !.error = e]

\* After an operand there is an operator, another number, which ends the
\* expression, or its end.
Checked(s) ==
  IF Ok(s) /\ (s.type = "bad" \/ (s.type = "hex" /\ s.at < Len(Tokens))) THEN Failed(s, "syntax") ELSE s

Applied(s, op, h) ==
  IF ~Ok(h) THEN h
  ELSE IF op = "**" /\ h.r.sign = "-" /\ h.r.n >= Unit THEN Failed(h, "syntax")
  ELSE LET r == arith(op, s.r, h.r)
       IN IF Fits(r) THEN [h EXCEPT !.r = r] ELSE Failed(h, "overflow")

RECURSIVE Level(_, _), Loop(_, _), Operand(_), Signs(_)

\* Mutant: an operator takes all that follows it on its level.
LoopRight(n, s) ==
  IF IsOp(s, Operators[n + 1])
  THEN Applied(s, s.delim, Level(n, get_token([s EXCEPT !.r = Zero])))
  ELSE s

Loop(n, s) ==
  IF IsOp(s, Operators[n + 1])
  THEN Loop(n, Applied(s, s.delim, Level(n + 1, get_token([s EXCEPT !.r = Zero]))))
  ELSE s

Level(n, s) == IF n = 4 THEN Signs(s) ELSE Loop(n, Level(n + 1, s))

\* One sign in front of an operand.
Signs(s) ==
  IF ~IsOp(s, {"+", "-"}) THEN Operand(s)
  ELSE LET t == Operand(get_token(s))
       IN [t EXCEPT !.r.sign = IF s.delim = "+" THEN "+" ELSE Opposite(@)]

Operand(s) ==
  CASE IsOp(s, {"("}) ->
         (LET t == Level(0, get_token(s))
          IN IF Ok(t) /\ t.delim # ")" THEN Failed(t, "parentheses")
             ELSE IF Ok(t) THEN Checked(get_token(t)) ELSE t)
    [] s.type \in {"number", "hex"} ->
         (IF Token(s).n >= Limit THEN Failed(s, "overflow")
          ELSE Checked(get_token([s EXCEPT !.r = [sign |-> "+", n |-> Token(s).n]])))
    [] OTHER -> Checked(s)

-----------------------------------------------------------------------------
(***************************************************************************)
(* The result, rounded to max places, without the zeros behind min.        *)
(***************************************************************************)
Precision == [min |-> IF expr.min > Decimal THEN Decimal ELSE expr.min,
              max |-> Max({Min({expr.max, Decimal}), Min({expr.min, Decimal})})]
Rounded(x, max) == LET u == 10 ^ (Decimal - max) IN IF u = 1 THEN x.n ELSE ((x.n + u \div 2) \div u) * u

\* The fewest places that show n, but at least min.
Places(n, min, max) == Min({p \in min .. max : p = max \/ n % 10 ^ (Decimal - p) = 0})

Evaluate ==
  /\ value = None
  /\ LET s == Level(0, get_token([at |-> 0, type |-> "none", delim |-> "AND", r |-> Zero, error |-> ""]))
         n == Rounded(s.r, Precision.max)
         places == Places(n, Precision.min, Precision.max)
     IN value' = CASE Tokens = <<>> -> Error("no expression")
                   [] Tokens # <<>> /\ ~Ok(s) -> Error(s.error)
                   [] OTHER -> [sign |-> IF s.r.sign = "-" /\ (n # 0 \/ places > 0) THEN "-" ELSE "+",
                                n |-> n, places |-> places]
  /\ UNCHANGED expr

Next == Evaluate
Spec == Init /\ [][Next]_vars

-----------------------------------------------------------------------------
(***************************************************************************)
(* What an expression means: its last operator of the lowest precedence,   *)
(* outside parentheses, is applied to the values of what is left and right *)
(* of it.  Values are integers, in units of the last place.                *)
(***************************************************************************)
Is(w, ops) == w.t = "op" /\ w.op \in ops
Depth(e, i) == Cardinality({j \in 1 .. i : Is(e[j], {"("})}) - Cardinality({j \in 1 .. i : Is(e[j], {")"})})
Splits(e, ops) == {i \in 2 .. Len(e) - 1 : /\ Is(e[i], ops) /\ Depth(e, i) = 0
                                            /\ (e[i - 1].t \in {"number", "hex"} \/ Is(e[i - 1], {")"}))}
Abs(n) == IF n < 0 THEN -n ELSE n
Half(n, d) == (IF (n < 0) = (d < 0) THEN 1 ELSE -1) * ((2 * Abs(n) + Abs(d)) \div (2 * Abs(d)))
Part(n) == (IF n < 0 THEN -1 ELSE 1) * (Abs(n) \div Unit)

Precedence == <<{"AND", "OR", "XOR"}, {"+", "-"}, {"*", "/", "\\", "MOD"}, {"**"}>>

RECURSIVE WellFormed(_), Meaning(_), Regular(_)
Level0(e) == {l \in 1 .. 4 : Splits(e, Precedence[l]) # {}}
Split(e) == Max(Splits(e, Precedence[Min(Level0(e))]))
Left(e) == SubSeq(e, 1, Split(e) - 1)
Right(e) == SubSeq(e, Split(e) + 1, Len(e))
Inside(e) == SubSeq(e, 2, Len(e) - 1)
WellFormed(e) ==
  \/ Len(e) = 1 /\ e[1].t \in {"number", "hex"} /\ e[1].n < Limit
  \/ Level0(e) # {} /\ WellFormed(Left(e)) /\ WellFormed(Right(e))
  \/ Level0(e) = {} /\ Len(e) >= 2 /\ Is(e[1], {"+", "-"}) /\ ~Is(e[2], {"+", "-"}) /\ WellFormed(Tail(e))
  \/ Level0(e) = {} /\ Len(e) >= 3 /\ Is(e[1], {"("}) /\ Is(e[Len(e)], {")"}) /\ WellFormed(Inside(e))
       /\ \A i \in 1 .. Len(e) - 1 : Depth(e, i) > 0
Meaning(e) ==
  CASE Level0(e) # {} ->
         (LET a == Meaning(Left(e))
              b == Meaning(Right(e))
              op == e[Split(e)].op
          IN CASE op = "+" -> a + b [] op = "-" -> a - b
               [] op = "*" -> Half(a * b, Unit) [] op = "/" -> Half(a * Unit, b)
               [] op = "\\" -> (IF (a < 0) = (b < 0) THEN 1 ELSE -1) * (Abs(a) \div Abs(b)) * Unit
               [] op = "MOD" -> (IF b > 0 THEN Part(a) % Part(b) ELSE -((-Part(a)) % (-Part(b)))) * Unit
               [] op = "**" -> (IF Part(b) = 0 THEN 1 ELSE Part(a) ^ Part(b)) * Unit
               [] OTHER -> LET l == Bits(op, Part(a) % 2 ^ 16, Part(b) % 2 ^ 16)
                           IN (IF l < 2 ^ 15 THEN l ELSE l - 2 ^ 16) * Unit)
    [] Level0(e) = {} /\ Len(e) = 1 -> e[1].n
    [] Level0(e) = {} /\ Is(e[1], {"+"}) -> Meaning(Tail(e))
    [] Level0(e) = {} /\ Is(e[1], {"-"}) -> -Meaning(Tail(e))
    [] OTHER -> Meaning(Inside(e))

\* What evaluate() gets wrong: + in front of a negative value makes it positive, a
\* multiple MOD a number of the other sign is that number, a negative number ** 0 is
\* -1, an integer quotient may have been rounded up; powers are those of integers.
Regular(e) ==
  CASE Level0(e) # {} ->
         /\ Regular(Left(e)) /\ Regular(Right(e))
         /\ LET a == Meaning(Left(e))
                b == Meaning(Right(e))
                op == e[Split(e)].op
            IN /\ op = "MOD" => Part(b) # 0 /\ (Part(a) % Abs(Part(b)) = 0 => (a < 0) = (b < 0))
               /\ op = "**" => Part(a) * Unit = a /\ b >= 0 /\ (Part(b) = 0 => a >= 0)
               /\ op \in {"/", "\\"} => b # 0
               /\ op = "\\" => Part(Half(a * Unit, b)) = Part((Abs(a) * Unit) \div Abs(b)) * (IF (a < 0) = (b < 0) THEN 1 ELSE -1)
    [] Level0(e) = {} /\ Len(e) = 1 -> TRUE
    [] Level0(e) = {} /\ Is(e[1], {"+"}) -> Regular(Tail(e)) /\ Meaning(Tail(e)) >= 0
    [] Level0(e) = {} /\ Is(e[1], {"-"}) -> Regular(Tail(e))
    [] OTHER -> Regular(Inside(e))

\* An expression has the value that the documented precedence gives it, rounded, or
\* is too large for its digits; nothing that parses is a syntax error.
EvaluatesRight ==
  value # None /\ WellFormed(Tokens) =>
    IF "error" \in DOMAIN value THEN value.error \in {"overflow", "syntax"} /\ (value.error = "syntax" => ~Regular(Tokens))
    ELSE Regular(Tokens) =>
           LET v == Meaning(Tokens)
           IN /\ value.n = Rounded([n |-> Abs(v)], Precision.max)
              /\ value.n # 0 => (value.sign = "-") = (v < 0)
=============================================================================
