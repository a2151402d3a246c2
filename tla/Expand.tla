------------------------------- MODULE Expand -------------------------------
(***************************************************************************)
(* The expansion of a command line: alias_expand() replaces the alias that *)
(* its first command begins with, var_expand() the variables, arguments    *)
(* and functions of its first command, in place and from left to right.    *)
(*                                                                         *)
(* A line is a sequence of words; a reference is a word of its own, and    *)
(* what it stands for is again a sequence of words, with references.  A    *)
(* step is one alias, or one turn of the loop of var_expand().             *)
(***************************************************************************)
EXTENDS Integers, SequencesExt, FiniteSetsExt

CONSTANTS
  Works,        \* what there is, and the lines that are expanded one after another
  Size,         \* how many words a line can have (CMDBUFSIZ, MAXLINESIZ)
  NULL

(***************************************************************************)
(* A word is a record with field t:                                        *)
(*   "text"    word          a word; pre is "", "*" or "@" in front of it  *)
(*   "sep"                   ^ or |, the end of the first command          *)
(*   "ask"                   ? in front of a command                       *)
(*   "var"     name          %name                                         *)
(*   "percent" name          %%name                                        *)
(*   "arg"     n             %n                                            *)
(*   "tail"    n             %n&                                           *)
(*   "count"                 %#                                            *)
(*   "function" name, args   %@name[args]                                  *)
(*   "quoted"  of            text in back quotes                           *)
(*                                                                         *)
(* A work has the aliases and functions (name -> line), values, fors and   *)
(* gosub (the variables of the environment, of FOR and of GOSUB), args     *)
(* (those of the batch file, args[1] its name, or NULL), offset (SHIFT),   *)
(* the flags noalias, novars, nonested, nonestedalias, and calls: the      *)
(* lines, with recurse = 0 for command() and 1 for the commands that       *)
(* expand their arguments themselves.                                      *)
(***************************************************************************)
Text(w) == [t |-> "text", word |-> w, pre |-> ""]
References == {"var", "percent", "arg", "tail", "count", "function"}
IsReference(w) == w.t \in References

VARIABLES
  work,
  calls,          \* how many calls have been made
  text,           \* the line of the call
  aliasing,       \* the activation of alias_expand(): [from, loops], or NULL
  frames,         \* those of var_expand(), the innermost last
  nRecursiveLoop, \* its static variable
  outcome         \* "none", "done" or the error of the last call

vars == <<work, calls, text, aliasing, frames, nRecursiveLoop, outcome>>

Init == /\ work \in Works /\ calls = 0 /\ text = <<>> /\ aliasing = NULL /\ frames = <<>>
        /\ nRecursiveLoop = 0 /\ outcome = "none"

Frame(line, recurse) == [line |-> line, pos |-> 1, old |-> 0, loops |-> 0, recurse |-> recurse]
Call == work.calls[calls]
Running == aliasing # NULL \/ frames # <<>>
Top == Len(frames)
Cur == frames[Top]

\* The end of the first command.
End(line) == Min({Len(line) + 1} \cup {i \in DOMAIN line : line[i].t = "sep"})

\* Everything stops with an error. Each activation that called itself counts its
\* call out, the innermost one's error having set nRecursiveLoop to n.
Fail(e, n) == /\ outcome' = e /\ frames' = <<>> /\ aliasing' = NULL /\ text' = <<>>
              /\ nRecursiveLoop' = n - (IF frames = <<>> THEN 0 ELSE Top - 1)
              /\ UNCHANGED <<work, calls>>

-----------------------------------------------------------------------------
(***************************************************************************)
(* Aliases.                                                                *)
(***************************************************************************)
\* command() expands the alias, then the variables; a command that expands its
\* own arguments only the variables.
Begin ==
  /\ ~Running /\ calls < Len(work.calls)
  /\ calls' = calls + 1 /\ outcome' = "none"
  /\ LET c == work.calls[calls + 1]
     IN IF c.recurse = 0
        THEN text' = c.line /\ aliasing' = [from |-> 1, loops |-> 0] /\ UNCHANGED <<frames, nRecursiveLoop>>
        ELSE text' = <<>> /\ frames' = <<Frame(c.line, 1)>> /\ UNCHANGED <<aliasing, nRecursiveLoop>>
  /\ UNCHANGED work

\* Arguments: ntharg() with 0 for the command itself.
Nth(line, n) == IF n + 1 <= Len(line) THEN <<line[n + 1]>> ELSE <<>>
From(line, n) == SubSeq(line, n + 1, Len(line))

\* An alias, or a function, with its arguments; references in back quotes are
\* left alone.
RECURSIVE Substitute(_, _)
Substitute(value, command) ==
  IF value = <<>> THEN <<>>
  ELSE LET w == Head(value)
           one == CASE w.t = "arg" -> Nth(command, w.n)
                    [] w.t = "tail" -> From(command, w.n)
                    [] w.t = "count" -> <<Text(ToString(Len(command) - 1))>>
                    [] w.t = "function" -> <<[w EXCEPT !.args = Substitute(w.args, command)]>>
                    [] OTHER -> <<w>>
       IN one \o Substitute(Tail(value), command)

\* The highest argument that the alias uses; all of them when it uses a tail.
RECURSIVE nVarsExist(_)
nVarsExist(value) ==
  Max({0} \cup {LET w == value[i]
                IN CASE w.t = "arg" -> w.n [] w.t = "tail" -> 255
                     [] w.t = "function" -> nVarsExist(w.args) [] OTHER -> 0 : i \in DOMAIN value})

\* The line with its alias replaced, up to the highest argument that is used.
Replaced(line, from, value) ==
  LET end == End(line)
      command == SubSeq(line, from, end - 1)
      n == nVarsExist(value)
      next == Min({end, from + 1 + n})
  IN SubSeq(line, 1, from - 1) \o Substitute(value, command) \o SubSeq(line, next, Len(line))

\* The line, and where its command begins after "?".
Line == IF frames = <<>> THEN text ELSE Cur.line
Start == IF aliasing.from <= Len(Line) /\ Line[aliasing.from].t = "ask" THEN aliasing.from + 1 ELSE aliasing.from
First == IF Start <= Len(Line) THEN Line[Start] ELSE NULL
Aliased == /\ ~work.noalias /\ First # NULL /\ First.t = "text" /\ First.pre # "*"
           /\ First.word \in DOMAIN work.aliases

\* alias_expand() returns: to command(), which expands the variables, or to
\* var_expand(), which goes on where it was - behind the value when nested
\* variables are disabled.
AliasReturns(line) ==
  /\ aliasing' = NULL
  /\ IF frames = <<>>
     THEN text' = <<>> /\ frames' = <<Frame(line, 0)>>
          /\ nRecursiveLoop' = IF work.novars THEN nRecursiveLoop ELSE 0
     ELSE frames' = [frames EXCEPT ![Top].line = line] /\ UNCHANGED <<text, nRecursiveLoop>>
  /\ UNCHANGED <<work, calls, outcome>>

NoAlias ==
  /\ aliasing # NULL /\ ~Aliased
  /\ AliasReturns(IF First # NULL /\ First.t = "text" /\ First.pre = "*" /\ ~work.noalias
                  THEN [Line EXCEPT ![Start].pre = ""] ELSE Line)

\* Mutant: the aliases are not counted.
AliasUncounted == aliasing' = [from |-> Start, loops |-> 0]

AliasNext == aliasing' = [from |-> Start, loops |-> aliasing.loops + 1]

Alias ==
  /\ aliasing # NULL /\ Aliased
  /\ LET value == work.aliases[First.word]
         line == Replaced(Line, Start, value)
     IN CASE aliasing.loops > 16 -> Fail("alias loop", nRecursiveLoop)
          [] aliasing.loops <= 16 /\ Len(line) > Size -> Fail("too long", nRecursiveLoop)
          [] aliasing.loops <= 16 /\ Len(line) <= Size /\ work.nonestedalias -> AliasReturns(line)
          [] OTHER -> /\ AliasNext
                      /\ IF frames = <<>> THEN text' = line /\ UNCHANGED frames
                         ELSE frames' = [frames EXCEPT ![Top].line = line] /\ UNCHANGED text
                      /\ UNCHANGED <<work, calls, nRecursiveLoop, outcome>>

-----------------------------------------------------------------------------
(***************************************************************************)
(* Variables.                                                              *)
(***************************************************************************)
\* Where the next reference of the first command is, or NULL.
Reference ==
  LET r == {i \in Cur.pos .. End(Cur.line) - 1 : IsReference(Cur.line[i])}
  IN IF work.novars \/ r = {} THEN NULL ELSE Min(r)
Expanding == aliasing = NULL /\ frames # <<>>
Word == Cur.line[Reference]

\* The same position is given 16 turns.
SameAgain == IF Reference = Cur.old THEN Cur.loops + 1 ELSE 0
Turn == Expanding /\ Reference # NULL /\ SameAgain <= 16

\* A variable that contains itself, as PATH does, is left as it is.
ContainsItself(name, value) == [t |-> "var", name |-> name] \in ToSet(value)

\* What a variable stands for: FOR, GOSUB, and the environment.
Value(name) ==
  CASE name \in DOMAIN work.fors -> work.fors[name]
    [] name \notin DOMAIN work.fors /\ name \in DOMAIN work.gosub -> work.gosub[name]
    [] name \notin DOMAIN work.fors \cup DOMAIN work.gosub /\ name \in DOMAIN work.values -> work.values[name]
    [] OTHER -> NULL
Kludge(w) == /\ w.t = "var"
             /\ w.name \in DOMAIN work.values \ (DOMAIN work.fors \cup DOMAIN work.gosub)
             /\ ContainsItself(w.name, work.values[w.name])

\* The arguments of the batch file after SHIFT. At the prompt there are none.
BatchArg(w) ==
  IF work.args = NULL THEN NULL
  ELSE LET shifted == SubSeq(work.args, work.offset + 1, Len(work.args))
       IN CASE w.t = "arg" -> (IF w.n < Len(shifted) THEN <<shifted[w.n + 1]>> ELSE NULL)
            [] w.t = "tail" -> From(shifted, w.n)
            [] OTHER -> <<Text(ToString(IF shifted = <<>> THEN 0 ELSE Len(shifted) - 1))>>

\* A line with the word at r replaced.
Spliced(line, r, value) == SubSeq(line, 1, r - 1) \o value \o SubSeq(line, r + 1, Len(line))

\* Mutant: what was inserted is not looked at again.
OnwardPast(f, r, value, skip) == r + Len(value)

\* Where var_expand() goes on: at the words that it inserted.
Onward(f, r, value, skip) == IF skip \/ work.nonested THEN r + Len(value) ELSE r

\* The reference at r of the last of fs is replaced by value (NULL: removed). An alias
\* that this made of the first word is expanded, too.
Insert(fs, r, value, skip) ==
  LET f == fs[Len(fs)]
      words == IF value = NULL THEN <<>> ELSE value
      line == Spliced(f.line, r, words)
  IN IF Len(line) > Size /\ value # NULL THEN Fail("too long", nRecursiveLoop)
     ELSE /\ frames' = [fs EXCEPT ![Len(fs)] =
               [f EXCEPT !.line = line, !.old = r, !.loops = IF r = f.old THEN @ + 1 ELSE 0,
                         !.pos = IF value = NULL THEN r ELSE Onward(f, r, words, skip)]]
          /\ aliasing' = IF value # NULL /\ f.recurse = 0 /\ r = 1 /\ line # <<>>
                         THEN [from |-> 1, loops |-> 0] ELSE NULL
          /\ nRecursiveLoop' = nRecursiveLoop - (Top - Len(fs))
          /\ UNCHANGED <<work, calls, text, outcome>>

Returns(line) == /\ frames' = <<>> /\ outcome' = "done" /\ text' = line
                 /\ UNCHANGED <<work, calls, aliasing, nRecursiveLoop>>

Variable ==
  /\ Turn /\ Word.t = "var"
  /\ IF Cur.recurse = 0 /\ Kludge(Word)
     THEN Returns(Spliced(Cur.line, Reference, work.values[Word.name]))
     ELSE Insert(frames, Reference, Value(Word.name), FALSE)

\* %% stands for %, unless a FOR variable follows.
Percent ==
  /\ Turn /\ Word.t = "percent"
  /\ IF Word.name \in DOMAIN work.fors
     THEN Insert(frames, Reference, work.fors[Word.name], FALSE)
     ELSE Insert(frames, Reference, <<Text("%" \o Word.name)>>, TRUE)

Argument ==
  /\ Turn /\ Word.t \in {"arg", "tail", "count"}
  /\ Insert(frames, Reference, BatchArg(Word), FALSE)

-----------------------------------------------------------------------------
(***************************************************************************)
(* Functions.  Their arguments are expanded first, by var_expand() again.  *)
(* @REVERSE stands for those whose value is expanded again, @ALIAS for     *)
(* those whose value is not.                                               *)
(***************************************************************************)
Nested(args) == \E i \in DOMAIN args : IsReference(args[i]) \/ args[i].t = "quoted"
Result(name, args) ==
  CASE name = "REVERSE" -> Reverse(args)
    [] name = "ALIAS" /\ args # <<>> /\ args[1].t = "text" /\ args[1].word \in DOMAIN work.aliases
         -> work.aliases[args[1].word]
    [] name \in DOMAIN work.functions -> Substitute(work.functions[name], <<Text(name)>> \o args)
    [] OTHER -> <<>>
Function ==
  /\ Turn /\ Word.t = "function" /\ ~Nested(Word.args)
  /\ Insert(frames, Reference, Result(Word.name, Word.args), Word.name = "ALIAS")

Deeper == /\ frames' = Append(frames, Frame(Word.args, 1)) /\ nRecursiveLoop' = nRecursiveLoop + 1
          /\ UNCHANGED <<work, calls, text, aliasing, outcome>>

NestedFunction ==
  /\ Turn /\ Word.t = "function" /\ Nested(Word.args)
  /\ IF nRecursiveLoop + 1 > 10 THEN Fail("variable loop", 0) ELSE Deeper

\* Back in the caller, whose function now has its arguments.
Back ==
  /\ Expanding /\ Reference = NULL /\ Top > 1
  /\ LET caller == frames[Top - 1]
         r == Min({i \in caller.pos .. Len(caller.line) : IsReference(caller.line[i])})
         name == caller.line[r].name
     IN Insert(Front(frames), r, Result(name, Cur.line), name = "ALIAS")

Loop == Expanding /\ Reference # NULL /\ SameAgain > 16 /\ Fail("variable loop", nRecursiveLoop)
Done == Expanding /\ Reference = NULL /\ Top = 1 /\ Returns(Cur.line)

Next == Begin \/ NoAlias \/ Alias \/ Variable \/ Percent \/ Argument \/ Function \/ NestedFunction \/ Back
        \/ Loop \/ Done

Spec == Init /\ [][Next]_vars /\ WF_vars(Next)

-----------------------------------------------------------------------------
(***************************************************************************)
(* What a line stands for, word by word: each reference is replaced by     *)
(* what its value stands for, and the first word by its alias.             *)
(***************************************************************************)
RECURSIVE Unaliased(_, _), Meaning(_, _, _)
Unaliased(line, from) ==
  LET s == IF from <= Len(line) /\ line[from].t = "ask" THEN from + 1 ELSE from
      w == IF s <= Len(line) THEN line[s] ELSE [t |-> "none"]
  IN CASE w.t = "text" /\ w.pre = "*" -> [line EXCEPT ![s].pre = ""]
       [] w.t = "text" /\ w.pre # "*" /\ w.word \in DOMAIN work.aliases
            -> Unaliased(Replaced(line, s, work.aliases[w.word]), s)
       [] OTHER -> line

Meaning(line, first, recurse) ==
  IF line = <<>> \/ line[1].t = "sep" THEN line
  ELSE LET w == Head(line)
           value == CASE w.t \in {"var"} -> Value(w.name)
                      [] w.t = "percent" /\ w.name \in DOMAIN work.fors -> work.fors[w.name]
                      [] w.t \in {"arg", "tail", "count"} -> BatchArg(w)
                      [] w.t = "function" -> Result(w.name, IF Nested(w.args) THEN Meaning(w.args, TRUE, 1) ELSE w.args)
                      [] OTHER -> NULL
           all == (IF value = NULL THEN <<>> ELSE value) \o Tail(line)
           new == IF first /\ value # NULL /\ recurse = 0 THEN Unaliased(all, 1) ELSE all
           kept == IF value = NULL THEN 0 ELSE Len(value)
       IN CASE ~IsReference(w) -> <<w>> \o Meaning(Tail(line), FALSE, recurse)
            [] w.t = "percent" /\ w.name \notin DOMAIN work.fors
                 -> <<Text("%" \o w.name)>> \o Meaning(Tail(line), FALSE, recurse)
            [] recurse = 0 /\ Kludge(w) -> all
            [] w.t = "function" /\ w.name = "ALIAS"
                 -> IF \E i \in 1 .. Min({kept, Len(new)}) : new[i].t = "sep" THEN new
                    ELSE SubSeq(new, 1, kept) \o Meaning(SubSeq(new, kept + 1, Len(new)), first /\ kept = 0, recurse)
            [] OTHER -> Meaning(new, first, recurse)

\* A line whose expansion succeeds becomes what it stands for: alias_expand() and
\* var_expand() rewrite it in place, from one position to the next, and leave no
\* reference behind, skip none, and expand none twice.
ExpandsAll ==
  outcome = "done" /\ ~work.noalias /\ ~work.novars /\ ~work.nonested /\ ~work.nonestedalias
    => text = Meaning(IF Call.recurse = 0 THEN Unaliased(Call.line, 1) ELSE Call.line, TRUE, Call.recurse)

\* The expansion of every line comes to an end, whatever refers to itself.
ExpandEnds == \A n \in 1 .. 2 : calls = n ~> calls # n \/ ~Running

\* The arguments of functions are expanded by var_expand() itself, at most ten deep,
\* on behalf of command().
NotDeeper == frames # <<>> /\ frames[1].recurse = 0 => Top <= 11
=============================================================================
