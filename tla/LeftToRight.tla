---------------------------- MODULE LeftToRight -----------------------------
(***************************************************************************)
(* What the documentation promises of combined tests: they are scanned     *)
(* from left to right, without any precedence, and each operator combines  *)
(* what was found so far with the next test.                               *)
(***************************************************************************)
EXTENDS Integers, Sequences

VARIABLES terms,    \* the line: a sequence of [op, truth], where truth is
                    \* what the test may be: {TRUE}, {FALSE}, either of them
                    \* for a doubtful one, or {} when it is not a test at all
          complete, \* and whether it has all that must follow the tests
          n,        \* how many tests were made,
          value,    \* what they amount to,
          result    \* and what it all is: "none" yet, "true", "false" or "usage"

Combined(op, a, b) == CASE op = "and" -> a /\ b
                        [] op = "or" -> a \/ b
                        [] op = "xor" -> a # b
                        [] op = "if" -> b

Of(b) == IF b THEN "true" ELSE "false"

Init == n = 0 /\ value = FALSE /\ result = "none"

\* One of the first k tests is doubtful: .XOR. with it may be anything.
Doubtful(k) == \E i \in 1 .. k : terms[i].truth = BOOLEAN

Test ==
  /\ result = "none" /\ n < Len(terms) /\ n' = n + 1
  /\ \/ \E b \in terms[n + 1].truth : value' = Combined(terms[n + 1].op, value, b)
     \/ terms[n + 1].truth # {} /\ Doubtful(n) /\ terms[n + 1].op = "xor" /\ value' \in BOOLEAN
  /\ \/ n + 1 < Len(terms) /\ result' = "none"
     \/ n + 1 = Len(terms) /\ complete /\ result' = Of(value')
     \/ n + 1 = Len(terms) /\ (~complete \/ Doubtful(n + 1)) /\ result' = "usage"
  /\ UNCHANGED <<terms, complete>>

\* What should be a test is none.
Usage ==
  /\ result = "none" /\ n < Len(terms) /\ terms[n + 1].truth = {}
  /\ result' = "usage" /\ UNCHANGED <<terms, complete, n, value>>

Next == Test \/ Usage

Spec == Init /\ [][Next]_<<terms, complete, n, value, result>>
=============================================================================
