-------------------------------- MODULE For ---------------------------------
(***************************************************************************)
(* FOR: For_Cmd() over the members of a set (text, "/xyz", wildcards, the  *)
(* lines of @file), with /L over numbers and with /F over the words of     *)
(* lines, of files, of a string, or of what a command displays; and FORs   *)
(* as the commands of FORs.                                                *)
(*                                                                         *)
(* A step is a turn of its inner loop, up to the next DOS call.  Variables *)
(* are letters, numbered; FOR /F uses the letters after its own.           *)
(***************************************************************************)
EXTENDS Integers, SequencesExt, FiniteSetsExt

CONSTANTS
  Loops,        \* the commands: [kind, var, args, tokens, skip, nodots, first, step, last, body]
  Letters,      \* how many variables there are
  Breaks,       \* how many times ^C is pressed: 0 or 1
  NULL

\* The command of a FOR may be a FOR; what 'command' displays is one file.
LoopsOK ==
  /\ Letters \in Nat /\ Breaks \in Nat
  /\ \A l \in Loops : /\ l.body # NULL => l.body \in Loops
                      /\ l.kind = "command" => Len(l.args) = 1
ASSUME LoopsAssumption == LoopsOK

\* The tokens are [from, to, star]: "1", "2-4", "3*", or "*" (from = 0).  One
\* that ends before it begins stands for all that are refused.
Rest == 9999

VARIABLES
  stack,        \* the activations of For_Cmd()
  env,          \* the variables: [1 .. Letters -> a word or NULL]
  open,         \* how many handles,
  searches,     \* searches
  temps,        \* and temporary files there are
  jumped,       \* lOffset is -1: a GOTO, QUIT or CANCEL was executed
  fException,
  breaks,       \* how many more times ^C can be pressed
  failed,       \* a file could not be opened
  misused,      \* how many activations ended with a usage error
  seen,         \* what the variables of the outer FOR were for each command
  returned            \* what it returned, or "none"

forVars == <<stack, env, open, searches, temps, jumped, fException, breaks, failed, misused, seen, returned>>
files == <<open, searches, temps>>
rest == <<jumped, breaks, fException, failed, misused, seen, returned>>

NewFrame(l) ==
  [loop |-> l, at |-> "begin", argc |-> 1, args |-> l.args, source |-> NULL, found |-> 0,
   hFH |-> FALSE, lines |-> <<>>, skip |-> l.skip, number |-> l.first, fDelete |-> FALSE,
   used |-> {}, nReturn |-> "0"]

ForInit ==
  /\ \E l \in Loops : stack = <<NewFrame(l)>>
  /\ env = [v \in 1 .. Letters |-> NULL] /\ open = 0 /\ searches = 0 /\ temps = 0
  /\ jumped = FALSE /\ fException = FALSE /\ breaks = Breaks
  /\ failed = FALSE /\ misused = 0 /\ seen = <<>> /\ returned = "none"

Cur == stack[Len(stack)]
At(p) == stack # <<>> /\ Cur.at = p
Put(f) == stack' = [stack EXCEPT ![Len(stack)] = f]
Is(k) == Cur.loop.kind = k
Leave(f, r) == Put([f EXCEPT !.at = "bye", !.nReturn = r])
Return(r) ==
  IF Len(stack) = 1 THEN stack' = <<>> /\ returned' = r
  ELSE stack' = [Front(stack) EXCEPT ![Len(stack) - 1].nReturn = r] /\ UNCHANGED returned
NextMember(f) == Put([f EXCEPT !.at = "arg", !.argc = @ + 1])

-----------------------------------------------------------------------------
(***************************************************************************)
(* The set.                                                                *)
(***************************************************************************)
\* FOR /F of 'command': its output goes to a temporary file. ^C in it is seen
\* by the loop.
Begin ==
  /\ At("begin")
  /\ IF Is("command") THEN /\ temps' = temps + 1
                           /\ \/ UNCHANGED <<breaks, fException>>
                              \/ breaks > 0 /\ breaks' = breaks - 1 /\ fException' = TRUE
     ELSE UNCHANGED <<temps, breaks, fException>>
  /\ Put([Cur EXCEPT !.at = "arg", !.fDelete = Is("command")])
  /\ UNCHANGED <<env, open, searches, jumped, failed, misused, seen, returned>>

\* The next member: with /L always another number.
Member ==
  /\ At("arg") /\ (Is("step") \/ Cur.argc <= Len(Cur.args))
  /\ Put([Cur EXCEPT !.at = "loop", !.found = 0,
                     !.source = IF Is("step") THEN [type |-> "text", word |-> <<Cur.number>>]
                                ELSE Cur.args[Cur.argc]])
  /\ UNCHANGED <<env, files, rest>>

NoMember ==
  /\ At("arg") /\ ~Is("step") /\ Cur.argc > Len(Cur.args)
  /\ Leave(Cur, Cur.nReturn) /\ UNCHANGED <<env, files, rest>>

\* The end of the inner loop: the temporary file is deleted.
Over(f) == /\ NextMember([f EXCEPT !.fDelete = FALSE])
           /\ temps' = IF f.fDelete THEN temps - 1 ELSE temps

-----------------------------------------------------------------------------
(***************************************************************************)
(* A turn of the inner loop.                                               *)
(***************************************************************************)
\* Mutant: the search is not closed when the loop is left.
StopsOpen ==
  /\ At("loop") /\ (fException \/ Cur.nReturn = "ABORT_LINE" \/ jumped)
  /\ Leave(Cur, IF fException THEN "CTRLC" ELSE Cur.nReturn)
  /\ UNCHANGED <<env, files, rest>>

\* ^C, or the command has ended the line or the file.
Stops ==
  /\ At("loop") /\ (fException \/ Cur.nReturn = "ABORT_LINE" \/ jumped)
  /\ searches' = searches - (IF Cur.found > 0 THEN 1 ELSE 0)
  /\ Leave(Cur, IF fException THEN "CTRLC" ELSE Cur.nReturn)
  /\ UNCHANGED <<env, open, temps, rest>>

Turn == At("loop") /\ ~fException /\ Cur.nReturn # "ABORT_LINE" /\ ~jumped

\* The last turn has used up the member.
UsedUp == /\ Turn /\ Cur.source = NULL
          /\ Over(Cur) /\ UNCHANGED <<env, open, searches, rest>>

FileSet == Is("fileset") \/ Is("command")
Source(t) == Turn /\ Cur.source # NULL /\ Cur.source.type = t

\* A variable is its words; an empty one is none.
Value(w) == IF w = <<>> THEN NULL ELSE w

\* The variable is set; with /L the number is tested.
SetVariable(v) == env' = [env EXCEPT ![Cur.loop.var] = Value(v)]
Passed == IF Cur.loop.step >= 0 THEN Cur.number > Cur.loop.last ELSE Cur.number < Cur.loop.last

Text ==
  /\ Source("text") /\ ~FileSet
  /\ SetVariable(Cur.source.word)
  /\ IF Is("step") /\ Passed THEN Leave(Cur, Cur.nReturn)
     ELSE Put([Cur EXCEPT !.at = "exec", !.source = NULL, !.number = @ + Cur.loop.step])
  /\ UNCHANGED <<files, rest>>

\* "/xyz" is x, and then yz, which takes its place in the set.
Slash ==
  /\ Source("slash") /\ ~FileSet
  /\ SetVariable(Cur.source.word)
  /\ Put([Cur EXCEPT !.at = "exec", !.source = NULL, !.argc = @ - 1,
            !.args = IF Cur.source.left = NULL THEN RemoveAt(@, Cur.argc)
                     ELSE ReplaceAt(@, Cur.argc, [type |-> "text", word |-> Cur.source.left])])
  /\ UNCHANGED <<files, rest>>

\* The next file that matches, if there is one. The dot names are left out
\* after they were found. With /F the name is found, and not used.
Find ==
  /\ Source("wild")
  /\ IF Cur.found = Len(Cur.source.names)
     THEN /\ searches' = searches - (IF Cur.found > 0 THEN 1 ELSE 0)
          /\ Over(Cur) /\ UNCHANGED env
     ELSE LET n == Cur.source.names[Cur.found + 1]
          IN  /\ searches' = searches + (IF Cur.found = 0 THEN 1 ELSE 0)
              /\ IF n = "." /\ Cur.loop.nodots THEN Put([Cur EXCEPT !.found = @ + 1]) /\ UNCHANGED env
                 ELSE /\ Put([Cur EXCEPT !.found = @ + 1, !.at = "exec"])
                      /\ IF FileSet THEN UNCHANGED env ELSE SetVariable(<<n>>)
              /\ UNCHANGED temps
  /\ UNCHANGED <<open, rest>>

\* A file, @file without /F.
Open ==
  /\ (Source("file") \/ Source("backq")) /\ ~Cur.hFH
  /\ \/ /\ open' = open + 1
        /\ Put([Cur EXCEPT !.hFH = TRUE, !.lines = Cur.source.lines])
        /\ UNCHANGED failed
     \/ Leave(Cur, "error") /\ failed' = TRUE /\ UNCHANGED open
  /\ UNCHANGED <<env, searches, temps, jumped, breaks, fException, misused, seen, returned>>

EndOfFile ==
  /\ (Source("file") \/ Source("backq")) /\ Cur.hFH /\ Cur.lines = <<>>
  /\ open' = open - 1
  /\ Over([Cur EXCEPT !.hFH = FALSE]) /\ UNCHANGED <<env, searches, rest>>

\* A line is skipped, or empty; the skipped ones are counted once for all files.
LineRead == (Source("file") \/ Source("backq")) /\ Cur.hFH /\ Cur.lines # <<>>
FileLine == Head(Cur.lines)
Read == [Cur EXCEPT !.lines = Tail(@)]

LinePasses ==
  /\ LineRead
  /\ \/ Cur.skip > 0 /\ Put([Read EXCEPT !.skip = @ - 1])
     \/ Cur.skip = 0 /\ FileSet /\ FileLine = <<>> /\ Put(Read)
  /\ UNCHANGED <<env, files, rest>>

LineIsValue ==
  /\ LineRead /\ Cur.skip = 0 /\ ~FileSet
  /\ SetVariable(FileLine)
  /\ Put([Read EXCEPT !.at = "exec"]) /\ UNCHANGED <<files, rest>>

-----------------------------------------------------------------------------
(***************************************************************************)
(* FOR /F: the words of a line.                                            *)
(***************************************************************************)
\* The words that a token stands for, and what "*" behind it adds: the words
\* after its first one.  [word, last] of each; m is the highest word so far.
\* "*" alone is taken for both: the rest, and the rest but its first word.
Parts(t, m) == IF t.from = 0 THEN <<[word |-> m + 1, last |-> Rest], [word |-> m + 2, last |-> Rest]>>
               ELSE [i \in 1 .. t.to - t.from + 1 |-> [word |-> t.from + i - 1, last |-> t.from + i - 1]]
                    \o IF t.star THEN <<[word |-> t.from + 1, last |-> Rest]>> ELSE <<>>

AllParts(tokens) ==
  FoldLeft(LAMBDA ps, t : ps \o Parts(t, IF ps = <<>> THEN 0 ELSE Last(ps).word), <<>>, tokens)

\* GetToken(): the words from the first to the last one, or nothing.
GetToken(line, p) == SubSeq(line, p.word, IF p.last > Len(line) THEN Len(line) ELSE p.last)

Wrong(t) == t.from # 0 /\ t.to < t.from
Refused(l) == \E i \in DOMAIN l.tokens : Wrong(l.tokens[i])
\* The tokens in front of the first that is refused.
Accepted(l) == IF Refused(l) THEN SubSeq(l.tokens, 1, SelectInSeq(l.tokens, Wrong) - 1) ELSE l.tokens

\* Mutant: a token that the line does not have leaves its variable as it was.
GivenKept(line, f) ==
  [v \in 1 .. Letters |->
     LET i == v - f.loop.var + 1
         ps == AllParts(Accepted(f.loop))
     IN  IF i \in 1 .. Len(ps) /\ GetToken(line, ps[i]) # <<>> THEN GetToken(line, ps[i]) ELSE env[v]]

Given(line, f) ==
  [v \in 1 .. Letters |->
     LET i == v - f.loop.var + 1
         ps == AllParts(Accepted(f.loop))
     IN  IF i \in 1 .. Len(ps) THEN Value(GetToken(line, ps[i])) ELSE env[v]]

Uses(f) == {v \in 1 .. Letters : v - f.loop.var + 1 \in 1 .. Len(AllParts(Accepted(f.loop)))}

LineHasWords ==
  /\ LineRead /\ Cur.skip = 0 /\ FileSet /\ FileLine # <<>> /\ ~Refused(Cur.loop)
  /\ env' = Given(FileLine, Cur)
  /\ Put([Read EXCEPT !.at = "exec", !.used = @ \cup Uses(Cur)]) /\ UNCHANGED <<files, rest>>

\* A string in quotes is one line; anything else is no file.
String ==
  /\ Source("string") /\ FileSet /\ (Cur.source.words = <<>> \/ ~Refused(Cur.loop))
  /\ IF Cur.source.words = <<>> THEN Put([Cur EXCEPT !.source = NULL]) /\ UNCHANGED env
     ELSE /\ env' = Given(Cur.source.words, Cur)
          /\ Put([Cur EXCEPT !.source = NULL, !.at = "exec", !.used = @ \cup Uses(Cur)])
  /\ UNCHANGED <<files, rest>>

\* A token is refused when the first line is there: the variables of those in
\* front of it are set, and For_Cmd() returns at once, not by for_bye.
Misused ==
  /\ Turn /\ FileSet /\ Refused(Cur.loop)
  /\ \/ LineRead /\ Cur.skip = 0 /\ FileLine # <<>> /\ env' = Given(FileLine, Cur)
     \/ Source("string") /\ Cur.source.words # <<>> /\ env' = Given(Cur.source.words, Cur)
  /\ misused' = misused + 1 /\ Return("usage")
  /\ UNCHANGED <<files, jumped, breaks, fException, failed, seen>>

NoFile == Source("text") /\ FileSet /\ Over(Cur) /\ UNCHANGED <<env, open, searches, rest>>

-----------------------------------------------------------------------------
(***************************************************************************)
(* The command, and the end.                                               *)
(***************************************************************************)
Sees == seen' = IF Len(stack) = 1 THEN Append(seen, env) ELSE seen

\* command(): it does something or fails, ends the line or the batch file, or
\* ^C ends it.
Exec ==
  /\ At("exec") /\ Cur.loop.body = NULL
  /\ \/ Put([Cur EXCEPT !.at = "loop", !.nReturn = "0"]) /\ UNCHANGED <<jumped, fException, breaks>>
     \/ Put([Cur EXCEPT !.at = "loop", !.nReturn = "ABORT_LINE"]) /\ UNCHANGED <<jumped, fException, breaks>>
     \/ Put([Cur EXCEPT !.at = "loop", !.nReturn = "0"]) /\ jumped' = TRUE /\ UNCHANGED <<fException, breaks>>
     \/ /\ breaks > 0 /\ breaks' = breaks - 1 /\ fException' = TRUE /\ UNCHANGED jumped
        /\ Put([Cur EXCEPT !.at = "loop", !.nReturn = "CTRLC"])
  /\ Sees /\ UNCHANGED <<env, files, failed, misused, returned>>

ExecFor ==
  /\ At("exec") /\ Cur.loop.body # NULL
  /\ stack' = Append(Front(stack) \o <<[Cur EXCEPT !.at = "loop"]>>, NewFrame(Cur.loop.body))
  /\ Sees /\ UNCHANGED <<env, files, jumped, breaks, fException, failed, misused, returned>>

\* ^C in a DOS call of For_Cmd() itself jumps to its own setjmp(): while the
\* first name is looked for nobody knows of the search.
Interrupt ==
  /\ breaks > 0 /\ breaks' = breaks - 1 /\ Turn
  /\ \/ Source("file") /\ UNCHANGED searches
     \/ Source("wild") /\ Cur.found = 0 /\ searches' \in {searches, searches + 1}
     \/ Source("wild") /\ Cur.found > 0 /\ searches' = searches - 1
  /\ fException' = TRUE /\ Leave(Cur, "CTRLC")
  /\ UNCHANGED <<env, open, temps, jumped, failed, misused, seen, returned>>

\* for_bye: the file is closed, and the variables are deleted.
Bye ==
  /\ At("bye")
  /\ open' = open - (IF Cur.hFH THEN 1 ELSE 0)
  /\ env' = [v \in 1 .. Letters |-> IF v = Cur.loop.var \/ v \in Cur.used THEN NULL ELSE env[v]]
  /\ Return(Cur.nReturn)
  /\ UNCHANGED <<searches, temps, jumped, breaks, fException, failed, misused, seen>>

ForNext ==
  \/ Begin \/ Member \/ NoMember \/ Stops \/ UsedUp \/ Text \/ Slash \/ Find \/ Open \/ EndOfFile
  \/ LinePasses \/ LineIsValue \/ LineHasWords \/ String \/ Misused \/ NoFile \/ Exec \/ ExecFor \/ Interrupt \/ Bye

ForSpec == ForInit /\ [][ForNext]_forVars /\ WF_forVars(ForNext)

-----------------------------------------------------------------------------
(***************************************************************************)
(* Properties.                                                             *)
(***************************************************************************)
\* However a FOR ends, its searches are closed, with no ^C in the search for a
\* first name, and its files: of the FORs whose tokens were refused one at most
\* stays open for each.  Without such a usage error its variables are gone, and
\* so is the temporary file of a FOR /F of 'command', unless a GOTO, ^C or a file
\* that could not be opened ended it.
NothingLeft ==
  stack = <<>> =>
    /\ open \in 0 .. misused
    /\ misused = 0 => \A v \in 1 .. Letters : env[v] = NULL
    /\ breaks = Breaks => searches = 0
    /\ returned = "0" /\ ~jumped /\ ~failed /\ misused = 0 => temps = 0

\* The members of a set one by one, as the documentation has them.
Members(a) == CASE a.type = "text" -> <<a.word>>
                [] a.type = "slash" -> <<a.word>> \o IF a.left = NULL THEN <<>> ELSE <<a.left>>
                [] a.type = "wild" -> [i \in 1 .. Len(a.names) |-> <<a.names[i]>>]
                [] a.type = "file" -> a.lines
Dotless(l, s) == SelectSeq(s, LAMBDA n : ~(l.nodots /\ n = <<".">>))
Numbers(l) == IF l.step > 0 THEN {n \in l.first .. l.last : (n - l.first) % l.step = 0}
              ELSE {n \in l.last .. l.first : (l.first - n) % (0 - l.step) = 0}
Expected(l) == IF l.kind = "step" THEN LET ns == SetToSortSeq(Numbers(l), LAMBDA x, y : IF l.step > 0 THEN x < y ELSE y < x)
                                     IN  [i \in 1 .. Len(ns) |-> <<ns[i]>>]
               ELSE Dotless(l, FlattenSeq([i \in 1 .. Len(l.args) |-> Members(l.args[i])]))
Lines(l) == LET all == FlattenSeq([i \in 1 .. Len(l.args) |->
                         CASE l.args[i].type = "string" -> <<l.args[i].words>>
                           [] l.args[i].type \in {"file", "backq"} -> l.args[i].lines
                           [] OTHER -> <<>>])
            IN  SelectSeq(SubSeq(all, l.skip + 1, Len(all)), LAMBDA w : w # <<>>)

\* The command sees each of the members, numbers or lines once and in order,
\* and nothing of an earlier line, as far as the FOR gets, and as long as no
\* usage error in it leaves variables behind.
Words_(l, line) == [v \in 1 .. Letters |->
                      LET i == v - l.var + 1
                          ps == AllParts(Accepted(l))
                      IN  IF i \in 1 .. Len(ps) THEN Value(GetToken(line, ps[i])) ELSE NULL]
Views(l) == IF l.kind \in {"fileset", "command"} THEN [i \in 1 .. Len(Lines(l)) |-> Words_(l, Lines(l)[i])]
            ELSE [i \in 1 .. Len(Expected(l)) |-> [v \in 1 .. Letters |-> IF v = l.var THEN Value(Expected(l)[i]) ELSE NULL]]
Outer == stack[1].loop
SeesEach == stack # <<>> /\ misused = 0 =>
                            /\ IsPrefix(seen, Views(Outer))
                            /\ Len(stack) = 1 /\ Cur.at = "bye" /\ Cur.nReturn = "0" /\ ~jumped => seen = Views(Outer)

\* Every FOR ends when its commands do (and /L has a step that is not zero).
ForEnds == <>(returned # "none")
=============================================================================
