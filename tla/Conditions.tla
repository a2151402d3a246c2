----------------------------- MODULE Conditions -----------------------------
(***************************************************************************)
(* IF and IFF, and the tests of DO and CASE: TestCondition().  It goes     *)
(* through the line once, even if it knows the result already, because IFF *)
(* needs to know where the command begins; what is still to be done with   *)
(* the next test is kept in three variables.                               *)
(***************************************************************************)
EXTENDS Integers, Sequences

CONSTANTS
  Commands,     \* the lines: [name, terms, then, group, else, rest]
  NoXor         \* what fXOR is when no .XOR. is in progress

Tests == [kind : STRING, not : BOOLEAN, holds : BOOLEAN, bad : BOOLEAN, order : Int, relation : STRING]

ASSUME ConditionsAssumption ==
  /\ NoXor \notin {0, 1, 0 - 1, 0 - 2}
  /\ \A c \in Commands :
       /\ c.terms \in Seq([op : {"if", "and", "or", "xor"}, test : Tests])
       /\ \A i \in 1 .. Len(c.terms) : c.terms[i].op = "if" <=> i = 1

VARIABLES
  cmd,                 \* the line
  nArgument,           \* how many tests were made,
  nCondition,          \* the result of them, -1 when it was a mistake,
  fOR, fAND, fXOR,     \* and what to do with the next one
  result,              \* what TestCondition() returned: "none" yet, "true", ...
  ran, rc              \* what __if() has executed and returned

vars == <<cmd, nArgument, nCondition, fOR, fAND, fXOR, result, ran, rc>>

USAGE == 0 - 1
Values == {0, 1, USAGE, 0 - 2}

\* The ^ of C on these values: the signs and the lowest bits are combined.
Xor(a, b) ==
  LET odd(x) == x \in {1, 0 - 1}
  IN  IF (a < 0) # (b < 0) THEN IF odd(a) # odd(b) THEN 0 - 1 ELSE 0 - 2
      ELSE IF odd(a) # odd(b) THEN 1 ELSE 0

Bit(b) == IF b THEN 1 ELSE 0

Init ==
  /\ cmd \in Commands /\ nArgument = 0 /\ nCondition = 0
  /\ fOR = 0 /\ fAND = 0 /\ fXOR = NoXor
  /\ result = "none" /\ ran = "none" /\ rc = "none"

-----------------------------------------------------------------------------
(***************************************************************************)
(* A test.                                                                 *)
(***************************************************************************)
\* EQ, GT and the others, on the result of a comparison.
Relates(r, order) == CASE r = "EQ" -> order = 0
                       [] r = "NE" -> order # 0
                       [] r = "GT" -> order > 0
                       [] r = "GE" -> order >= 0
                       [] r = "LT" -> order < 0
                       [] r = "LE" -> order <= 0
                       [] OTHER -> FALSE

Relations == {"EQ", "NE", "GT", "GE", "LT", "LE"}

\* IF ERRORLEVEL n is IF ERRORLEVEL GE n.
Relation(t) == IF t.kind = "errorlevel" /\ t.relation = "" THEN "GE" ELSE t.relation

Compares(t) == t.kind \in {"errorlevel", "string"}

\* What ends the scan: an argument that is missing, or no relation.
Mistaken(t) == t.kind # "group" /\ (t.bad \/ (Compares(t) /\ Relation(t) \notin Relations))

\* A group is a line of its own: what TestCondition() returns for it is taken
\* as it is, also when it has a mistake.
Tested(t) == IF t.kind = "group" /\ t.bad THEN USAGE
             ELSE Bit(IF Compares(t) THEN Relates(Relation(t), t.order) ELSE t.holds)

Negated(t) == Xor(Tested(t), Bit(t.not))

AfterOr(c) == IF fOR # 0 THEN 1 ELSE c
AfterXor(c) == IF fXOR # NoXor THEN Xor(c, fXOR) ELSE c
AfterAnd(c) == IF fAND # 0 THEN 0 ELSE c

Outcome(c) == CASE c = USAGE -> "usage"
                [] c = 0 -> "false"
                [] OTHER -> "true"

-----------------------------------------------------------------------------
(***************************************************************************)
(* TestCondition().                                                        *)
(***************************************************************************)
More == result = "none" /\ nArgument < Len(cmd.terms)
Term == cmd.terms[nArgument + 1]
Operator == cmd.terms[nArgument + 2].op

\* The condition after the next test.
Condition == AfterAnd(AfterXor(AfterOr(Negated(Term.test))))

Bad ==
  /\ More /\ Mistaken(Term.test)
  /\ result' = "usage"
  /\ UNCHANGED <<cmd, nArgument, nCondition, fOR, fAND, fXOR, ran, rc>>

\* Mutant: .OR. does not end an .AND. that was false.
CombineKeepsAnd ==
  /\ More /\ ~Mistaken(Term.test) /\ nArgument + 1 < Len(cmd.terms)
  /\ nArgument' = nArgument + 1 /\ nCondition' = Condition
  /\ \/ Operator = "or" /\ fOR' = Condition /\ fAND' = fAND /\ fXOR' = 0
     \/ Operator = "xor" /\ fXOR' = Condition /\ fAND' = 0 /\ fOR' = 0
     \/ Operator = "and" /\ fAND' = Bit(Condition = 0) /\ fOR' = 0 /\ fXOR' = 0
  /\ UNCHANGED <<cmd, result, ran, rc>>

Combine ==
  /\ More /\ ~Mistaken(Term.test) /\ nArgument + 1 < Len(cmd.terms)
  /\ nArgument' = nArgument + 1 /\ nCondition' = Condition
  /\ \/ Operator = "or" /\ fOR' = Condition /\ fAND' = 0 /\ fXOR' = 0
     \/ Operator = "xor" /\ fXOR' = Condition /\ fAND' = 0 /\ fOR' = 0
     \/ Operator = "and" /\ fAND' = Bit(Condition = 0) /\ fOR' = 0 /\ fXOR' = 0
  /\ UNCHANGED <<cmd, result, ran, rc>>

\* The last test. IF and IFF need a command behind it.
LastTest ==
  /\ More /\ ~Mistaken(Term.test) /\ nArgument + 1 = Len(cmd.terms)
  /\ nArgument' = nArgument + 1 /\ nCondition' = Condition
  /\ fOR' = 0 /\ fXOR' = NoXor /\ UNCHANGED fAND
  /\ result' = IF cmd.rest = "" /\ cmd.name \in {"IF", "IFF"} THEN "usage" ELSE Outcome(Condition)
  /\ UNCHANGED <<cmd, ran, rc>>

-----------------------------------------------------------------------------
(***************************************************************************)
(* __if(): what a condition decides.                                       *)
(***************************************************************************)
Decided == result # "none" /\ ran = "none" /\ rc = "none" /\ cmd.name \in {"IF", "IFF"}
Unchanged == UNCHANGED <<cmd, nArgument, nCondition, fOR, fAND, fXOR, result>>

IfUsage == Decided /\ result = "usage" /\ rc' = "usage" /\ UNCHANGED ran /\ Unchanged

\* IFF ... THEN with nothing behind it (its flags are those of module Flags).
IffThen ==
  /\ Decided /\ result # "usage" /\ cmd.name = "IFF" /\ cmd.then /\ cmd.rest = "THEN"
  /\ rc' = "0x666" /\ UNCHANGED ran /\ Unchanged

\* "IF test (a) ELSE (b)": a or b is the command, and it is always executed.
IfElse == cmd.group /\ cmd.else /\ ran' = IF result = "true" THEN "group" ELSE "else"

IfPlain == ~(cmd.group /\ cmd.else) /\ result = "true" /\ ran' = "line"

IfRuns ==
  /\ Decided /\ result # "usage" /\ ~(cmd.name = "IFF" /\ cmd.then /\ cmd.rest = "THEN")
  /\ IfElse \/ IfPlain
  /\ rc' = "command" /\ Unchanged

IfRunsNot ==
  /\ Decided /\ result = "false" /\ ~(cmd.name = "IFF" /\ cmd.then /\ cmd.rest = "THEN")
  /\ ~(cmd.group /\ cmd.else)
  /\ rc' = (IF cmd.name = "IFF" THEN "0x666" ELSE "ERROR_EXIT") /\ UNCHANGED ran /\ Unchanged

Next == Bad \/ Combine \/ LastTest \/ IfUsage \/ IffThen \/ IfRuns \/ IfRunsNot

Spec == Init /\ [][Next]_vars

-----------------------------------------------------------------------------
(***************************************************************************)
(* Properties.                                                             *)
(***************************************************************************)
\* What a test may be: with NOT the contrary. A group with a mistake may be
\* either, since NOT and .XOR. make something of it.
TruthOf(t) == IF Mistaken(t) THEN {}
              ELSE IF t.kind = "group" /\ t.bad THEN BOOLEAN ELSE {(Tested(t) = 1) # t.not}
Line == [i \in 1 .. Len(cmd.terms) |-> [op |-> cmd.terms[i].op, truth |-> TruthOf(cmd.terms[i].test)]]
Complete == ~(cmd.rest = "" /\ cmd.name \in {"IF", "IFF"})

\* "Test conditions are always scanned from left to right -- there is no
\* implied order of precedence" (4DOS.TXT): the three variables amount to that.
Abstract == INSTANCE LeftToRight WITH
              terms <- Line, complete <- Complete, n <- nArgument, value <- nCondition # 0
ScannedLeftToRight == Abstract!Spec
=============================================================================
