------------------------------ MODULE MCBatch ------------------------------
(***************************************************************************)
(* Batch files for TLC: what is on the disk in each run of Batch.          *)
(***************************************************************************)
EXTENDS Batch, TLC

CONSTANTS A, B      \* two batch files

L(op, arg, n) == [if |-> FALSE, op |-> op, arg |-> arg, n |-> n]
If(line)      == [line EXCEPT !.if = TRUE]

Cmd         == L("cmd", NULL, 0)
Goto(x)     == L("goto", x, 0)
GotoI(x)    == L("goto", x, 1)
Gosub(x)    == L("gosub", x, 0)
Label(x)    == L("label", x, 0)
LabelV(x)   == L("labelv", x, 0)
Return      == L("return", NULL, 0)
Quit        == L("quit", NULL, 0)
Cancel      == L("cancel", NULL, 0)
Iff         == L("iff", NULL, 0)
Else        == L("else", NULL, 0)
ElseIff     == L("elseiff", NULL, 0)
EndIff      == L("endiff", NULL, 0)
Repeat(n)   == L("do", "repeat", n)
Do(type)    == L("do", type, 0)
EndDo       == L("enddo", NULL, 0)
Leave       == L("leave", NULL, 0)
Iterate     == L("iterate", NULL, 0)
Call(f)     == L("call", f, 0)
Run(f)      == L("run", f, 0)
OnBreak(c)  == L("onbreak", c, 0)
OnError(c)  == L("onerror", c, 0)
OnErrorMsg(c) == L("onerrormsg", c, 0)

Disk(a, b) == (A :> a) @@ (B :> b)

Plain == {Cmd, Return, Quit, Cancel, Iff, Else, ElseIff, EndIff, EndDo, Leave, Iterate}
Jumps == {Goto(x) : x \in {"s", "t", "gone", "EOF"}} \cup {GotoI("s"), GotoI("t")}
           \cup {Gosub(x) : x \in {"s", "t", "gone", "EOF"}}
Marks == {Label(x) : x \in {"s", "t"}} \cup {LabelV(x) : x \in {"s", "t"}}
Loops == {Repeat(n) : n \in 0 .. 2} \cup {Do(t) : t \in {"forever", "while", "until", "in"}}
Files2 == {Call(f) : f \in {A, B}} \cup {Run(f) : f \in {A, B}}
Handled == Plain \cup Jumps \cup Files2
Handlers == {OnBreak(c) : c \in Handled \cup {NULL}} \cup {OnError(c) : c \in Handled \cup {NULL}}
              \cup {OnErrorMsg(c) : c \in Handled \cup {NULL}}
Unconditional == Plain \cup Jumps \cup Marks \cup Loops \cup Files2 \cup Handlers

AllLines == Unconditional \cup {If(l) : l \in Unconditional}

\* Subroutines: nested, with and without arguments, left by RETURN, by end of
\* file, by QUIT and by CANCEL, and called again from a CALLed file.
SubScripts ==
  { Disk(<<Gosub("s"), Call(B), Cmd, Quit, LabelV("s"), If(Gosub("t")), Cmd, Return,
           Label("t"), If(Cancel), If(Quit), Return>>,
         <<If(Gosub("t")), Quit, LabelV("t"), Cmd, leave>>) :
      leave \in {Return, Quit, Cancel, Cmd} }

\* Loops of every type, with every way out of them, around an IFF.
LoopScripts ==
  { Disk(<<loop, Iff, If(exit), ElseIff, exit, Else, Iterate, EndIff, EndDo, Cmd,
           If(Goto("EOF")), Label("s"), Return>>,
         <<>>) :
      loop \in Loops, exit \in {Leave, Iterate, Quit, Cmd, Goto("s"), Gosub("s"), GotoI("s")} }

\* IFFs and DOs nested deeper than the bit fields count, live and skipped.
DeepScripts ==
  { Disk(a, <<>>) : a \in
      { <<Iff, Iff, Iff, Iff, EndIff, EndIff, EndIff, EndIff>>,
        <<Repeat(1), Repeat(1), Repeat(1), Repeat(1), EndDo, EndDo, EndDo, EndDo>>,
        <<Repeat(0), Repeat(1), Repeat(1), Repeat(1), Repeat(1), EndDo, EndDo, EndDo, EndDo, EndDo>> } }

\* Handlers for ^C and errors that run, jump, call, return, quit or do nothing.
HandlerScripts ==
  { Disk(<<on, Cmd, If(Gosub("s")), Do("until"), Cmd, EndDo, Call(B), Quit,
           LabelV("s"), If(Gosub("s")), Return, Label("t")>>,
         <<OnError(NULL), If(Goto("gone")), Cmd>>) :
      on \in {OnBreak(c) : c \in {Cmd, Goto("t"), Gosub("s"), Return, Quit, Leave, NULL}}
               \cup {OnError(c) : c \in {Cmd, Goto("gone"), Gosub("s"), Cancel, NULL}}
               \cup {OnErrorMsg(c) : c \in {Goto("t"), Call(B), Iterate}} }

\* CALL and chaining, from the top level, a loop and a subroutine, up to the
\* nesting limit and beyond.
NestScripts ==
  { Disk(<<If(Call(A)), Do("while"), If(Run(B)), Call(B), EndDo, Cmd>>,
         <<If(next), Iff, Call(A), Else, Cancel, EndIff, If(Quit)>>) :
      next \in {Run(A), Run(B), Call(B)} }

\* Recursion that ends only when the C stack is full.
OverflowScripts ==
  { Disk(<<If(on), Label("s"), again, Goto("s")>>, <<Call(A), Do("forever"), Call(B), EndDo>>) :
      on    \in {OnError(Cancel), OnBreak(Goto("s"))},
      again \in {Call(A), Gosub("s"), Call(B)} }

\* A .BTM file run with and without CALL, from the top of a file, a loop and a
\* subroutine.
LoadScripts ==
  { Disk(<<If(Run(B)), Gosub("s"), Do("forever"), If(Run(B)), Leave, EndDo, If(Call(B)), Quit,
           Label("s"), OnErrorMsg(Cmd), If(Run(B)), Call(B), Return>>,
         <<If(Call(A)), Cmd, If(Goto("gone"))>>) }

BreakScripts == HandlerScripts \cup LoadScripts

\* Every way to begin a file with three of these lines, before an end for the
\* loop, the IFF and the subroutine they may have opened.
ShortLines == { Iff, Else, ElseIff, Do("until"), Repeat(0), EndDo, Iterate, Leave,
                Goto("s"), GotoI("s"), Gosub("s"), Gosub("EOF"), Return, If(Quit),
                Label("s"), Call(B), Run(B) }
ShortScripts ==
  { Disk(<<x, y, z, EndDo, EndIff, Return>>, <<Gosub("s"), Label("s"), Return>>) :
      x \in ShortLines, y \in ShortLines, z \in ShortLines }

AllScripts == SubScripts \cup LoopScripts \cup DeepScripts \cup NestScripts
                \cup OverflowScripts \cup ShortScripts

-----------------------------------------------------------------------------
(***************************************************************************)
(* What the on-line help promises, and the batch file that shows that the  *)
(* processor does not keep it: the README says how.                        *)
(***************************************************************************)
\* 4DOS.TXT, RETURN: "When a RETURN command is encountered the subroutine
\* terminates" -- at least when no DO is active.
ReturnEndsSubroutine ==
  [][Runs("return") /\ pc' = "ret" /\ flags.do = 0 => Top.fn = "Gosub"]_vars

ReturnAfterGoto == {Disk(<<Gosub("s"), Quit, Label("s"), Repeat(1), Repeat(1), Goto("t"),
                           EndDo, EndDo, Label("t"), Return, Cmd>>, <<>>)}
=============================================================================
