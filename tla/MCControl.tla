----------------------------- MODULE MCControl ------------------------------
(***************************************************************************)
(* TLC runs the commands that decide what a batch file does next: IF and   *)
(* IFF (Conditions), SWITCH (Switch) and FOR (For); and                    *)
(* what is done to the line of a command: the expansion of aliases and     *)
(* variables (Expand) and @EVAL (Eval); and compressed batch files         *)
(* (Compression).  "job" says which one a behaviour is about; the others   *)
(* stay as they are.                                                       *)
(***************************************************************************)
EXTENDS Conditions, For

VARIABLES job, file, line, reading, pszTest, nNestingLevel, executed,
          work, calls, text, aliasing, frames, nRecursiveLoop, outcome, expr, value,
          task, phase, pos, pending, freq, header, half, buffer, total, out, memory, btm

-----------------------------------------------------------------------------
(***************************************************************************)
(* IF and IFF: all lines of up to three tests, with the operators between  *)
(* them, and all comparisons.                                              *)
(***************************************************************************)
Holds(kind, not, holds, bad) ==
  [kind |-> kind, not |-> not, holds |-> holds, bad |-> bad, order |-> 0, relation |-> ""]
Compare(kind, order, relation) ==
  [kind |-> kind, not |-> FALSE, holds |-> FALSE, bad |-> FALSE, order |-> order, relation |-> relation]

Simple == {Holds("exist", n, h, FALSE) : n \in BOOLEAN, h \in BOOLEAN}
          \cup {Holds("group", n, FALSE, TRUE) : n \in BOOLEAN}
          \cup {Holds("group", FALSE, TRUE, FALSE), Holds("exist", FALSE, TRUE, TRUE)}
Compared == {Compare(k, o, r) : k \in {"string", "errorlevel"}, o \in {-1, 0, 1},
                                r \in Relations \cup {"", "XX"}}
Operators == {"and", "or", "xor"}
With(op, t) == [op |-> op, test |-> t]
TestLines == {<<With("if", a)>> : a \in Simple \cup Compared}
         \cup {<<With("if", a), With(o, b)>> : a \in Simple, b \in Simple, o \in Operators}
         \cup {<<With("if", a), With(o, b), With(p, c)>> :
                 a \in Simple, b \in Simple, c \in Simple, o \in Operators, p \in Operators}

MCCommands ==
  {[name |-> "DO", terms |-> l, then |-> FALSE, group |-> FALSE, else |-> FALSE, rest |-> ""] : l \in TestLines}
  \cup {[name |-> name, terms |-> <<With("if", a)>>, then |-> then, group |-> group, else |-> else, rest |-> r] :
          name \in {"IF", "IFF"}, a \in Simple, then \in BOOLEAN, group \in BOOLEAN, else \in BOOLEAN,
          r \in {"", "THEN", "text"}}

NoCommand == [name |-> "IF", terms |-> <<>>, then |-> FALSE, group |-> FALSE, else |-> FALSE, rest |-> ""]
NoIf == /\ cmd = NoCommand /\ nArgument = 0 /\ nCondition = 0 /\ fOR = 0 /\ fAND = 0 /\ fXOR = NoXor
        /\ result = "none" /\ ran = "none"
ifVars == <<cmd, nArgument, nCondition, fOR, fAND, fXOR, result, ran>>

-----------------------------------------------------------------------------
(***************************************************************************)
(* SWITCH, with SWITCHes in its first and last branches.                   *)
(***************************************************************************)
Cmd == [op |-> "command", arg |-> 0, values |-> {}]
Sw(a) == [op |-> "switch", arg |-> a, values |-> {}]
Ca(v) == [op |-> "case", arg |-> 0, values |-> v]
De == [op |-> "default", arg |-> 0, values |-> {}]
En == [op |-> "endswitch", arg |-> 0, values |-> {}]
Inner(a, v) == <<Sw(a), Ca(v), Cmd, De, Cmd, En>>

MCPrograms ==
  {<<Sw(v), Cmd, Ca(s)>> \o p \o <<Ca({1, 2}), Cmd>> \o d \o e \o <<Cmd>> :
     v \in 1 .. 3, s \in {{1}, {2}},
     p \in {<<Cmd>>, <<Cmd>> \o Inner(1, {2}) \o Inner(2, {2})} \cup {Inner(a, t) : a \in 1 .. 2, t \in {{1}, {1, 2}}},
     d \in {<<>>, <<De, Cmd>>, <<De>> \o Inner(1, {1})}, e \in {<<En>>, <<>>}}

S == INSTANCE Switch WITH Programs <- MCPrograms

NoSwitch == /\ file = <<>> /\ line = 0 /\ reading = "command" /\ pszTest = 0
            /\ nNestingLevel = 0 /\ executed = <<>>
switchVars == <<file, line, reading, pszTest, nNestingLevel, executed>>

-----------------------------------------------------------------------------
(***************************************************************************)
(* FOR.                                                                    *)
(***************************************************************************)
AText(w) == [type |-> "text", word |-> <<w>>]
ASlash(w, left) == [type |-> "slash", word |-> <<w>>, left |-> left]
AWild(names) == [type |-> "wild", names |-> names]
AFile(lines) == [type |-> "file", lines |-> lines]
AString(words) == [type |-> "string", words |-> words]
Token(from, to, star) == [from |-> from, to |-> to, star |-> star]

Set(var, args, body) ==
  [kind |-> "set", var |-> var, args |-> args, tokens |-> <<>>, skip |-> 0, nodots |-> FALSE,
   first |-> 0, step |-> 0, last |-> 0, body |-> body]
Step(first, step, last, body) ==
  [Set(1, <<>>, body) EXCEPT !.kind = "step", !.first = first, !.step = step, !.last = last]
SetOfFiles(kind, var, args, tokens, skip) ==
  [Set(var, args, NULL) EXCEPT !.kind = kind, !.tokens = tokens, !.skip = skip]

First == <<Token(1, 1, FALSE)>>
Tokens == {First, <<Token(2, 3, FALSE)>>, <<Token(1, 1, FALSE), Token(3, 3, FALSE)>>, <<Token(2, 2, TRUE)>>,
           <<Token(1, 1, FALSE), Token(0, 0, FALSE)>>, <<Token(1, 2, TRUE)>>, <<Token(0, 0, FALSE)>>,
           <<Token(2, 2, FALSE), Token(3, 1, FALSE)>>}
Sets == {<<AText("a"), AWild(<<".", "x", "y">>), ASlash("s", <<"t", "u">>)>>,
         <<ASlash("s", NULL), AFile(<<<<"p", "q">>, <<>>, <<"r">>>>), AText("z")>>,
         <<AWild(<<>>), AText("q")>>,
         <<AFile(<<>>), AWild(<<"x">>)>>}
FileSets ==
  {SetOfFiles(k, 1, <<AFile(<<<<"a", "b", "c">>, <<"d">>, <<>>, <<"e", "f">>>>)>>, t, s) :
     k \in {"fileset", "command"}, t \in Tokens, s \in 0 .. 2}
  \cup {SetOfFiles("fileset", 1, a, t, 0) : t \in Tokens,
          a \in {<<AString(<<"a", "b", "c">>), AFile(<<<<"d">>>>), AString(<<>>)>>,
                 <<AText("a"), AString(<<"g", "h">>)>>}}
Inside == {Set(2, <<AWild(<<"x", "y">>), AText("a")>>, NULL), SetOfFiles("fileset", 2, <<AFile(<<<<"d", "e">>>>)>>, First, 0),
           SetOfFiles("command", 2, <<AFile(<<<<"d">>>>)>>, First, 0),
           SetOfFiles("command", 2, <<AFile(<<<<"d">>>>)>>, <<Token(1, 1, FALSE), Token(2, 1, FALSE)>>, 0)}

MCLoops == {Set(1, a, b) : a \in Sets, b \in Inside \cup {NULL}}
           \cup {[Set(1, a, NULL) EXCEPT !.nodots = TRUE] : a \in Sets}
           \cup {Step(1, 1, 3, NULL), Step(3, -2, 0, NULL), Step(1, 2, 4, NULL), Step(2, 1, 1, NULL)}
           \cup {Step(1, 1, 2, b) : b \in Inside} \cup Inside \cup FileSets

NoFor == /\ stack = <<>> /\ env = [v \in 1 .. 4 |-> NULL] /\ open = 0 /\ searches = 0 /\ temps = 0
         /\ jumped = FALSE /\ fException = FALSE /\ breaks = 1 /\ failed = FALSE /\ misused = 0 /\ seen = <<>> /\ returned = "none"

-----------------------------------------------------------------------------
(***************************************************************************)
(* Aliases and variables.                                                  *)
(***************************************************************************)
XI == INSTANCE ExpandInputs
X == INSTANCE Expand WITH Works <- XI!MCWorks, Size <- 24

NoExpand == /\ work = NULL /\ calls = 0 /\ text = <<>> /\ aliasing = NULL /\ frames = <<>>
            /\ nRecursiveLoop = 0 /\ outcome = "none"
expandVars == <<work, calls, text, aliasing, frames, nRecursiveLoop, outcome>>

-----------------------------------------------------------------------------
(***************************************************************************)
(* Expressions, with numbers of three digits and two places.               *)
(***************************************************************************)
EI == INSTANCE EvalInputs
V == INSTANCE Eval WITH Expressions <- EI!MCExpressions, Integer <- 3, Decimal <- 2

NoEval == expr = NULL /\ value = NULL
evalVars == <<expr, value>>

-----------------------------------------------------------------------------
(***************************************************************************)
(* Compressed batch files, with nibbles of three values.                   *)
(***************************************************************************)
CI == INSTANCE CompressionInputs
C == INSTANCE Compression WITH Tasks <- CI!MCWorks, Base <- 3, DataMax <- 2, InputMax <- 16, FileMax <- 14

NoCompression == /\ task = NULL /\ phase = "none" /\ pos = 0 /\ pending = <<>> /\ freq = <<>> /\ header = NULL
                 /\ half = <<>> /\ buffer = <<>> /\ total = NULL /\ out = NULL /\ memory = {} /\ btm = NULL
compressionVars == <<task, phase, pos, pending, freq, header, half, buffer, total, out, memory, btm>>

-----------------------------------------------------------------------------
ControlInit == \/ job = "if" /\ Init /\ NoSwitch /\ NoFor /\ NoExpand /\ NoEval /\ NoCompression
               \/ job = "switch" /\ S!Init /\ NoIf /\ NoFor /\ NoExpand /\ NoEval /\ NoCompression
               \/ job = "for" /\ ForInit /\ NoIf /\ NoSwitch /\ NoExpand /\ NoEval /\ NoCompression /\ rc = "none"
               \/ job = "expand" /\ X!Init /\ NoIf /\ NoSwitch /\ NoFor /\ NoEval /\ NoCompression /\ rc = "none"
               \/ job = "eval" /\ V!Init /\ NoIf /\ NoSwitch /\ NoFor /\ NoExpand /\ NoCompression /\ rc = "none"
               \/ job = "compress" /\ C!Init /\ NoIf /\ NoSwitch /\ NoFor /\ NoExpand /\ NoEval /\ rc = "none"

ForStep == job = "for" /\ ForNext /\ UNCHANGED <<ifVars, switchVars, expandVars, evalVars, compressionVars, rc>>
ExpandStep == job = "expand" /\ X!Next /\ UNCHANGED <<ifVars, switchVars, forVars, evalVars, compressionVars, rc>>
ControlNext == /\ UNCHANGED job
               /\ \/ job = "if" /\ Next /\ UNCHANGED <<switchVars, forVars, expandVars, evalVars, compressionVars>>
                  \/ job = "switch" /\ S!Next /\ UNCHANGED <<ifVars, forVars, expandVars, evalVars, compressionVars>>
                  \/ ForStep \/ ExpandStep
                  \/ job = "eval" /\ V!Next /\ UNCHANGED <<ifVars, switchVars, forVars, expandVars, compressionVars, rc>>
                  \/ job = "compress" /\ C!Next /\ UNCHANGED <<ifVars, switchVars, forVars, expandVars, evalVars, rc>>

allVars == <<ifVars, switchVars, forVars, expandVars, evalVars, compressionVars, job, rc>>
ControlSpec == /\ ControlInit /\ [][ControlNext]_allVars
               /\ WF_allVars((ForStep \/ ExpandStep) /\ UNCHANGED job)

\* SWITCH executes the branch that it chooses, and nothing else.
RunsChosen == S!RunsChosen

\* Each reference of a command line is replaced by what it stands for, functions
\* at most ten deep for command().
ExpandsAll == job = "expand" => X!ExpandsAll /\ X!NotDeeper

\* An expression has the value that the documented precedence gives it.
EvaluatesRight == job = "eval" => V!EvaluatesRight

\* A compressed batch file is run as it was written, or not at all.
WholeOrRefused == job = "compress" => C!WholeOrRefused

\* A FOR ends, and so does the expansion of a command line.
Ends == (job = "for" => ForEnds) /\ (job = "expand" => X!ExpandEnds)
=============================================================================
