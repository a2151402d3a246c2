------------------------- MODULE Conditions_proofs --------------------------
(***************************************************************************)
(* TestCondition() scans its tests from left to right, for every line.     *)
(***************************************************************************)
EXTENDS Conditions, SequenceTheorems, TLAPS

Positions == 0 .. Len(cmd.terms)

\* A test so far was a group with a mistake.
Doubt(k) == \E i \in 1 .. k : Line[i].truth = BOOLEAN

TypeInv ==
  /\ cmd \in Commands /\ nArgument \in Positions /\ nCondition \in Values
  /\ fOR \in Values /\ fAND \in {0, 1} /\ fXOR \in Values \cup {NoXor}

\* The three variables say what the condition was and which operator follows.
Pending ==
  /\ Term.op = "if" => nArgument = 0 /\ fOR = 0 /\ fAND = 0 /\ fXOR = NoXor
  /\ Term.op = "or" => fOR = nCondition /\ fAND = 0 /\ fXOR = 0
  /\ Term.op = "and" => fOR = 0 /\ fAND = Bit(nCondition = 0) /\ fXOR = 0
  /\ Term.op = "xor" => fOR = 0 /\ fAND = 0 /\ fXOR = nCondition

\* A condition is negative only after a group with a mistake.
Signs == nCondition < 0 => Doubt(nArgument)

IInv == TypeInv /\ (More => Pending) /\ Signs

-----------------------------------------------------------------------------
(* The ^ of C on the values of a condition. *)
LEMMA XorValues ==
  ASSUME NEW a \in Values, NEW b \in Values
  PROVE  /\ Xor(a, b) \in Values
         /\ Xor(a, 0) = a
         /\ a \in {0, 1} /\ b \in {0, 1} => Xor(a, b) \in {0, 1} /\ (Xor(a, b) # 0 <=> (a # 0) # (b # 0))
BY SMT DEF Xor, Values, USAGE

(* What a test gives is what the abstract specification lets it be. *)
LEMMA TestValue ==
  ASSUME NEW t \in Tests, ~Mistaken(t)
  PROVE  /\ Negated(t) \in Values
         /\ \/ Negated(t) \in {0, 1} /\ TruthOf(t) = {Negated(t) # 0}
            \/ Negated(t) < 0 /\ TruthOf(t) = BOOLEAN
<1> DEFINE g == t.kind = "group" /\ t.bad
<1>0. t.not \in BOOLEAN /\ t.bad \in BOOLEAN /\ t.holds \in BOOLEAN
  BY DEF Tests
<1>1. CASE g
  <2>1. Tested(t) = USAGE
    BY <1>1 DEF Tested
  <2>2. Negated(t) \in {0 - 1, 0 - 2}
    BY <1>0, <2>1, SMT DEF Negated, Xor, Bit, USAGE
  <2>3. TruthOf(t) = BOOLEAN
    BY <1>0, <1>1, SMT DEF TruthOf
  <2> QED BY <2>2, <2>3, SMT DEF Values, USAGE
<1>2. CASE ~g
  <2>1. Tested(t) \in {0, 1}
    BY <1>0, <1>2, SMT DEF Tested, Bit
  <2>2. Negated(t) \in {0, 1} /\ ((Negated(t) # 0) = ((Tested(t) = 1) # t.not))
    BY <1>0, <2>1, SMT DEF Negated, Xor, Bit
  <2>3. TruthOf(t) = {(Tested(t) = 1) # t.not}
    BY <1>0, <1>2, SMT DEF TruthOf
  <2> QED BY <2>2, <2>3, SMT DEF Values
<1> QED BY <1>1, <1>2

(* The records of a line. *)
LEMMA Terms ==
  ASSUME cmd \in Commands
  PROVE  /\ Len(cmd.terms) \in Nat
         /\ \A i \in 1 .. Len(cmd.terms) :
              /\ cmd.terms[i].test \in Tests
              /\ cmd.terms[i].op \in {"if", "and", "or", "xor"}
              /\ cmd.terms[i].op = "if" <=> i = 1
              /\ Line[i].op = cmd.terms[i].op
              /\ Line[i].truth = TruthOf(cmd.terms[i].test)
         /\ Len(Line) = Len(cmd.terms)
<1>1. cmd.terms \in Seq([op : {"if", "and", "or", "xor"}, test : Tests])
  BY ConditionsAssumption
<1>2. Len(cmd.terms) \in Nat
  BY <1>1, SMT
<1>3. \A i \in 1 .. Len(cmd.terms) : cmd.terms[i] \in [op : {"if", "and", "or", "xor"}, test : Tests]
  BY <1>1, ElementOfSeq
<1>4. \A i \in 1 .. Len(cmd.terms) : cmd.terms[i].op = "if" <=> i = 1
  BY ConditionsAssumption
<1>5. Len(Line) = Len(cmd.terms)
  BY <1>2, SMT DEF Line
<1>6. \A i \in 1 .. Len(cmd.terms) : Line[i] = [op |-> cmd.terms[i].op, truth |-> TruthOf(cmd.terms[i].test)]
  BY DEF Line
<1> SUFFICES ASSUME NEW i \in 1 .. Len(cmd.terms)
             PROVE  /\ cmd.terms[i].test \in Tests
                    /\ cmd.terms[i].op \in {"if", "and", "or", "xor"}
                    /\ Line[i].op = cmd.terms[i].op
                    /\ Line[i].truth = TruthOf(cmd.terms[i].test)
  BY <1>2, <1>4, <1>5
<1> DEFINE e == cmd.terms[i]
<1>7. e \in [op : {"if", "and", "or", "xor"}, test : Tests]
  BY <1>3
<1>8. Line[i] = [op |-> e.op, truth |-> TruthOf(e.test)]
  BY <1>6
<1> HIDE DEF e
<1>9. e.op \in {"if", "and", "or", "xor"} /\ e.test \in Tests
  BY <1>7
<1>10. Line[i].op = e.op /\ Line[i].truth = TruthOf(e.test)
  BY <1>8
<1> QED BY <1>9, <1>10 DEF e

-----------------------------------------------------------------------------
(* One turn of the loop: the condition is what the operator makes of the   *)
(* condition so far and the test.                                          *)
LEMMA Turn ==
  ASSUME IInv, More, ~Mistaken(Term.test)
  PROVE  /\ Condition \in Values
         /\ Condition < 0 => Doubt(nArgument + 1)
         /\ \/ \E b \in TruthOf(Term.test) :
                 (Condition # 0) = Abstract!Combined(Term.op, nCondition # 0, b)
            \/ /\ TruthOf(Term.test) # {} /\ Doubt(nArgument) /\ Term.op = "xor"
<1> DEFINE c == Negated(Term.test)
           k == nArgument + 1
<1>1. k \in 1 .. Len(cmd.terms) /\ nArgument \in Nat /\ Len(cmd.terms) \in Nat
  BY Terms, SMT DEF IInv, TypeInv, Positions, More
<1>2. /\ Term.test \in Tests /\ Term.op \in {"if", "and", "or", "xor"}
      /\ Line[k].truth = TruthOf(Term.test)
  BY <1>1, Terms DEF IInv, TypeInv, Term
<1>3. /\ c \in Values
      /\ \/ c \in {0, 1} /\ TruthOf(Term.test) = {c # 0}
         \/ c < 0 /\ TruthOf(Term.test) = BOOLEAN
  BY <1>2, TestValue
<1>4. c < 0 => Doubt(k)
  <2> SUFFICES ASSUME c < 0 PROVE Doubt(k)
    OBVIOUS
  <2>1. TruthOf(Term.test) = BOOLEAN
    BY <1>3, SMT
  <2>2. Line[k].truth = BOOLEAN
    BY <2>1, <1>2
  <2>3. k \in 1 .. k
    BY <1>1, SMT
  <2> QED BY <2>2, <2>3 DEF Doubt
<1>5. Doubt(nArgument) => Doubt(k)
  <2>1. 1 .. nArgument \subseteq 1 .. k
    BY <1>1, SMT
  <2> QED BY <2>1 DEF Doubt
<1>6. Pending /\ nCondition \in Values /\ (nCondition < 0 => Doubt(nArgument))
  BY DEF IInv, TypeInv, Signs
<1>7. (c # 0) \in TruthOf(Term.test)
  BY <1>3
<1>8. TruthOf(Term.test) # {}
  BY <1>7
<1>9. NoXor \notin Values
  BY ConditionsAssumption DEF Values, USAGE
<1> HIDE DEF c
<1>10. Condition = AfterAnd(AfterXor(AfterOr(c)))
  BY DEF Condition, c
<1>11. CASE Term.op = "if"
  <2>1. Condition = c
    BY <1>6, <1>10, <1>11, SMT DEF Pending, AfterAnd, AfterXor, AfterOr
  <2>2. Abstract!Combined(Term.op, nCondition # 0, c # 0) = (c # 0)
    BY <1>11 DEF Abstract!Combined
  <2> QED BY <1>3, <1>4, <1>7, <2>1, <2>2
<1>12. CASE Term.op = "or"
  <2>1. Condition = IF nCondition # 0 THEN Xor(1, 0) ELSE Xor(c, 0)
    BY <1>6, <1>9, <1>10, <1>12, SMT DEF Pending, AfterAnd, AfterXor, AfterOr, Values, USAGE
  <2>2. Condition = IF nCondition # 0 THEN 1 ELSE c
    BY <1>3, <2>1, XorValues, 1 \in Values, 0 \in Values DEF Values
  <2>3. Abstract!Combined(Term.op, nCondition # 0, c # 0) = (nCondition # 0 \/ c # 0)
    BY <1>12 DEF Abstract!Combined
  <2>4. (Condition # 0) = (nCondition # 0 \/ c # 0)
    BY <2>2, SMT
  <2>5. Condition \in Values /\ (Condition < 0 => c < 0)
    BY <1>3, <2>2, SMT DEF Values, USAGE
  <2> QED BY <1>4, <1>7, <2>3, <2>4, <2>5
<1>13. CASE Term.op = "and"
  <2>1. Condition = IF nCondition = 0 THEN 0 ELSE Xor(c, 0)
    BY <1>6, <1>9, <1>10, <1>13, SMT DEF Pending, AfterAnd, AfterXor, AfterOr, Bit, Values, USAGE
  <2>2. Condition = IF nCondition = 0 THEN 0 ELSE c
    BY <1>3, <2>1, XorValues, 0 \in Values DEF Values
  <2>3. Abstract!Combined(Term.op, nCondition # 0, c # 0) = (nCondition # 0 /\ c # 0)
    BY <1>13 DEF Abstract!Combined
  <2>4. (Condition # 0) = (nCondition # 0 /\ c # 0)
    BY <2>2, SMT
  <2>5. Condition \in Values /\ (Condition < 0 => c < 0)
    BY <1>3, <2>2, SMT DEF Values, USAGE
  <2> QED BY <1>4, <1>7, <2>3, <2>4, <2>5
<1>14. CASE Term.op = "xor"
  <2>1. Condition = Xor(c, nCondition)
    BY <1>6, <1>9, <1>10, <1>14, SMT DEF Pending, AfterAnd, AfterXor, AfterOr, Values, USAGE
  <2>2. Condition \in Values
    BY <1>3, <1>6, <2>1, XorValues
  <2>3. CASE nCondition \in {0, 1} /\ c \in {0, 1}
    <3>1. Condition \in {0, 1} /\ ((Condition # 0) = ((c # 0) # (nCondition # 0)))
      BY <1>3, <1>6, <2>1, <2>3, XorValues
    <3>2. Abstract!Combined(Term.op, nCondition # 0, c # 0) = ((nCondition # 0) # (c # 0))
      BY <1>14 DEF Abstract!Combined
    <3>3. ~(Condition < 0)
      BY <3>1, SMT
    <3>4. (Condition # 0) = Abstract!Combined(Term.op, nCondition # 0, c # 0)
      BY <3>1, <3>2
    <3> QED BY <1>7, <2>2, <3>3, <3>4
  <2>4. CASE nCondition < 0
    BY <1>5, <1>6, <1>8, <1>14, <2>2, <2>4
  <2>5. CASE c < 0
    <3>1. TruthOf(Term.test) = BOOLEAN
      BY <1>3, <2>5, SMT
    <3> DEFINE b == (Condition # 0) # (nCondition # 0)
    <3>2. Abstract!Combined(Term.op, nCondition # 0, b) = ((nCondition # 0) # b)
      BY <1>14 DEF Abstract!Combined
    <3>3. (Condition # 0) = ((nCondition # 0) # b)
      OBVIOUS
    <3>4. b \in TruthOf(Term.test)
      BY <3>1
    <3> QED BY <1>4, <2>2, <2>5, <3>2, <3>3, <3>4
  <2> QED BY <1>3, <1>6, <2>3, <2>4, <2>5, SMT DEF Values, USAGE
<1> QED BY <1>2, <1>11, <1>12, <1>13, <1>14

-----------------------------------------------------------------------------
(***************************************************************************)
(* The invariant, and the refinement.                                      *)
(***************************************************************************)
LEMMA InitInv == Init => IInv
<1> SUFFICES ASSUME Init PROVE IInv
  OBVIOUS
<1> USE DEF Init
<1>1. Len(cmd.terms) \in Nat /\ \A i \in 1 .. Len(cmd.terms) : cmd.terms[i].op = "if" <=> i = 1
  BY Terms
<1>2. TypeInv
  BY <1>1, SMT DEF TypeInv, Positions, Values
<1>3. More => Term.op = "if"
  BY <1>1, SMT DEF More, Term
<1>4. More => Pending
  BY <1>3 DEF Pending
<1>5. Signs
  BY SMT DEF Signs
<1> QED BY <1>2, <1>4, <1>5 DEF IInv

\* What a turn leaves to be done with the next test.
LEMMA CombineInv == IInv /\ Combine => IInv'
<1> SUFFICES ASSUME IInv, Combine PROVE IInv'
  OBVIOUS
<1>1. /\ cmd' = cmd /\ result' = result /\ nArgument' = nArgument + 1 /\ nCondition' = Condition
      /\ More /\ ~Mistaken(Term.test) /\ nArgument + 1 < Len(cmd.terms)
  BY DEF Combine
<1>2. /\ Len(cmd.terms) \in Nat /\ nArgument \in Nat /\ cmd \in Commands
      /\ \A i \in 1 .. Len(cmd.terms) : cmd.terms[i].op = "if" <=> i = 1
  BY Terms, SMT DEF IInv, TypeInv, Positions
<1>3. Condition \in Values /\ (Condition < 0 => Doubt(nArgument + 1))
  BY <1>1, Turn
<1>4. Term' = cmd.terms[nArgument + 2] /\ Term'.op = Operator
  <2>1. nArgument + 1 + 1 = nArgument + 2
    BY <1>2, SMT
  <2> QED BY <1>1, <2>1 DEF Term, Operator
<1>5. Operator # "if"
  <2>1. nArgument + 2 \in 1 .. Len(cmd.terms) /\ nArgument + 2 # 1
    BY <1>1, <1>2, SMT
  <2> QED BY <1>2, <2>1 DEF Operator
<1>6. \/ Operator = "or" /\ fOR' = Condition /\ fAND' = 0 /\ fXOR' = 0
      \/ Operator = "xor" /\ fXOR' = Condition /\ fAND' = 0 /\ fOR' = 0
      \/ Operator = "and" /\ fAND' = Bit(Condition = 0) /\ fOR' = 0 /\ fXOR' = 0
  BY DEF Combine
<1>7. Pending'
  BY <1>1, <1>4, <1>5, <1>6 DEF Pending
<1>8. TypeInv'
  <2>1. nArgument' \in Positions'
    BY <1>1, <1>2, SMT DEF Positions
  <2>2. 0 \in Values /\ 0 \in {0, 1} /\ Bit(Condition = 0) \in {0, 1}
    BY DEF Values, Bit
  <2> QED BY <1>1, <1>2, <1>3, <1>6, <2>1, <2>2 DEF TypeInv
<1>9. Signs'
  <2>1. Line' = Line
    BY <1>1 DEF Line
  <2> QED BY <1>1, <1>3, <2>1 DEF Signs, Doubt
<1> QED BY <1>7, <1>8, <1>9 DEF IInv

LEMMA LastInv == IInv /\ LastTest => IInv'
<1> SUFFICES ASSUME IInv, LastTest PROVE IInv'
  OBVIOUS
<1>1. /\ cmd' = cmd /\ nArgument' = nArgument + 1 /\ nCondition' = Condition
      /\ More /\ ~Mistaken(Term.test) /\ nArgument + 1 = Len(cmd.terms)
      /\ fOR' = 0 /\ fXOR' = NoXor /\ fAND' = fAND
  BY DEF LastTest
<1>2. Len(cmd.terms) \in Nat /\ nArgument \in Nat /\ cmd \in Commands /\ fAND \in {0, 1}
  BY Terms, SMT DEF IInv, TypeInv, Positions
<1>3. Condition \in Values /\ (Condition < 0 => Doubt(nArgument + 1))
  BY <1>1, Turn
<1>4. ~More'
  <2>1. ~(nArgument' < Len(cmd'.terms))
    BY <1>1, <1>2, SMT
  <2> QED BY <2>1 DEF More
<1>5. TypeInv'
  <2>1. nArgument' \in Positions'
    BY <1>1, <1>2, SMT DEF Positions
  <2>2. 0 \in Values
    BY DEF Values
  <2> QED BY <1>1, <1>2, <1>3, <2>1, <2>2 DEF TypeInv
<1>6. Signs'
  <2>1. Line' = Line
    BY <1>1 DEF Line
  <2> QED BY <1>1, <1>3, <2>1 DEF Signs, Doubt
<1> QED BY <1>4, <1>5, <1>6 DEF IInv

\* __if() leaves the scan alone.
Decides == IfUsage \/ IffThen \/ IfRuns \/ IfRunsNot

LEMMA DecidesInv == IInv /\ (Decides \/ UNCHANGED vars) => IInv' /\ UNCHANGED <<cmd, nArgument, nCondition, result>>
<1> SUFFICES ASSUME IInv, Decides \/ UNCHANGED vars
             PROVE  IInv' /\ UNCHANGED <<cmd, nArgument, nCondition, result>>
  OBVIOUS
<1>1. UNCHANGED <<cmd, nArgument, nCondition, fOR, fAND, fXOR, result>>
  BY DEF Decides, IfUsage, IffThen, IfRuns, IfRunsNot, Unchanged, vars
<1>2. Line' = Line
  BY <1>1 DEF Line
<1> QED BY <1>1, <1>2 DEF IInv, TypeInv, Positions, More, Pending, Term, Signs, Doubt

LEMMA NextInv == IInv /\ [Next]_vars => IInv'
<1> SUFFICES ASSUME IInv, [Next]_vars PROVE IInv'
  OBVIOUS
<1>1. CASE Bad
  <2>1. UNCHANGED <<cmd, nArgument, nCondition, fOR, fAND, fXOR>> /\ result' = "usage"
    BY <1>1 DEF Bad
  <2>2. ~More'
    BY <2>1 DEF More
  <2>3. Line' = Line
    BY <2>1 DEF Line
  <2> QED BY <2>1, <2>2, <2>3 DEF IInv, TypeInv, Positions, Signs, Doubt
<1>2. CASE Combine
  BY <1>2, CombineInv
<1>3. CASE LastTest
  BY <1>3, LastInv
<1>4. CASE Decides \/ UNCHANGED vars
  BY <1>4, DecidesInv
<1> QED BY <1>1, <1>2, <1>3, <1>4 DEF Next, Decides

-----------------------------------------------------------------------------
LEMMA InitRefines == Init => Abstract!Init
<1>1. ~(0 # 0)
  OBVIOUS
<1> QED BY <1>1 DEF Init, Abstract!Init

LEMMA NextRefines == IInv /\ [Next]_vars => [Abstract!Next]_<<Line, Complete, nArgument, nCondition # 0, result>>
<1> SUFFICES ASSUME IInv, [Next]_vars
             PROVE  [Abstract!Next]_<<Line, Complete, nArgument, nCondition # 0, result>>
  OBVIOUS
<1>1. ASSUME UNCHANGED cmd PROVE UNCHANGED <<Line, Complete>>
  BY <1>1 DEF Line, Complete
<1>2. /\ cmd \in Commands /\ nArgument \in Nat /\ Len(cmd.terms) \in Nat /\ Len(Line) = Len(cmd.terms)
      /\ More => /\ nArgument + 1 \in 1 .. Len(cmd.terms)
                 /\ Line[nArgument + 1].op = Term.op
                 /\ Line[nArgument + 1].truth = TruthOf(Term.test)
  BY Terms, SMT DEF IInv, TypeInv, Positions, More, Term
<1>3. CASE Bad
  <2>1. TruthOf(Term.test) = {}
    BY <1>3 DEF Bad, TruthOf
  <2>2. Abstract!Usage
    BY <1>1, <1>2, <1>3, <2>1 DEF Bad, More, Abstract!Usage
  <2> QED BY <2>2 DEF Abstract!Next
<1>4. CASE Combine \/ LastTest
  <2>1. /\ More /\ ~Mistaken(Term.test) /\ nArgument' = nArgument + 1 /\ nCondition' = Condition
        /\ cmd' = cmd /\ result = "none" /\ nArgument < Len(cmd.terms)
    BY <1>4 DEF Combine, LastTest, More
  <2>2. /\ Condition \in Values
        /\ Condition < 0 => Doubt(nArgument + 1)
        /\ \/ \E b \in TruthOf(Term.test) :
                (Condition # 0) = Abstract!Combined(Term.op, nCondition # 0, b)
           \/ TruthOf(Term.test) # {} /\ Doubt(nArgument) /\ Term.op = "xor"
    BY <2>1, Turn
  <2>3. \/ \E b \in Line[nArgument + 1].truth :
             (Condition # 0) = Abstract!Combined(Line[nArgument + 1].op, nCondition # 0, b)
        \/ /\ Line[nArgument + 1].truth # {} /\ Abstract!Doubtful(nArgument)
           /\ Line[nArgument + 1].op = "xor" /\ (Condition # 0) \in BOOLEAN
    BY <1>2, <2>1, <2>2 DEF Doubt, Abstract!Doubtful
  <2>4. CASE Combine
    <3>1. nArgument + 1 < Len(Line) /\ result' = "none"
      BY <1>2, <2>1, <2>4 DEF Combine
    <3>2. Abstract!Test
      BY <1>1, <1>2, <2>1, <2>3, <3>1 DEF Abstract!Test
    <3> QED BY <3>2 DEF Abstract!Next
  <2>5. CASE LastTest
    <3>1. nArgument + 1 = Len(Line)
      BY <1>2, <2>5 DEF LastTest
    <3>2. result' = IF ~Complete THEN "usage" ELSE Outcome(Condition)
      BY <2>5 DEF LastTest, Complete
    <3>3. Outcome(Condition) = "usage" => Abstract!Doubtful(nArgument + 1)
      <4>1. Outcome(Condition) = "usage" => Condition < 0
        BY <2>2, SMT DEF Outcome, USAGE, Values
      <4> QED BY <2>2, <4>1 DEF Doubt, Abstract!Doubtful
    <3>4. Outcome(Condition) # "usage" => Outcome(Condition) = Abstract!Of(Condition # 0)
      BY <2>2, SMT DEF Outcome, USAGE, Values, Abstract!Of
    <3>5. \/ Complete /\ result' = Abstract!Of(Condition # 0)
          \/ (~Complete \/ Abstract!Doubtful(nArgument + 1)) /\ result' = "usage"
      BY <3>2, <3>3, <3>4
    <3>6. Abstract!Test
      BY <1>1, <1>2, <2>1, <2>3, <3>1, <3>5 DEF Abstract!Test
    <3> QED BY <3>6 DEF Abstract!Next
  <2> QED BY <1>4, <2>4, <2>5
<1>5. CASE Decides \/ UNCHANGED vars
  BY <1>1, <1>5, DecidesInv
<1> QED BY <1>3, <1>4, <1>5 DEF Next, Decides

\* TestCondition() implements the scan from left to right of LeftToRight, for
\* every line: "there is no implied order of precedence" (4DOS.TXT).
THEOREM LeftToRightScan == Spec => ScannedLeftToRight
<1>1. Spec => []IInv
  BY InitInv, NextInv, PTL DEF Spec
<1> QED BY <1>1, InitRefines, NextRefines, PTL DEF Spec, ScannedLeftToRight, Abstract!Spec
=============================================================================
