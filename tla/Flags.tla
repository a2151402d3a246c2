------------------------------- MODULE Flags -------------------------------
(***************************************************************************)
(* The IFF / DO state of the command processor: the bit fields of          *)
(* cv.f.flag, and what iff_parsing(), do_parsing() and the IFF command     *)
(* itself do to them.  Pure operators, shared by the modules that run      *)
(* them (IffDo, Batch).                                                    *)
(***************************************************************************)
EXTENDS Naturals

CONSTANT FlagMod       \* how many values a nesting counter has: 16, in 4 bits

ASSUME FlagModAssumption == FlagMod \in Nat \ {0}

\* Mutant: the counters are plain ints.
UnboundedBump(x) == x + 1

\* ++ and -- of an unsigned bit field wrap.
Bump(x) == (x + 1) % FlagMod
Drop(x) == (x + FlagMod - 1) % FlagMod

\* _else is a whole byte, and only ever holds these three values.
NotWaiting   == 0
WaitForElse  == 1
WaitForEndiff == 128

ElseStates == {NotWaiting, WaitForElse, WaitForEndiff}

FlagSet == [ else     : ElseStates,
             iff      : 0 .. FlagMod - 1,
             endiff   : 0 .. FlagMod - 1,
             do       : 0 .. FlagMod - 1,
             do_end   : 0 .. FlagMod - 1,
             do_leave : 0 .. FlagMod - 1 ]

\* cv.f.lFlags = 0L
NoFlags == [ else |-> NotWaiting, iff |-> 0, endiff |-> 0,
             do |-> 0, do_end |-> 0, do_leave |-> 0 ]

SkippingDo(f)  == f.do_end # 0 \/ f.do_leave # 0
SkippingIff(f) == f.else # NotWaiting \/ f.endiff # 0

(***************************************************************************)
(* iff_parsing( command name ): the flags it leaves.                       *)
(***************************************************************************)
IffParsed(f, op) ==
  IF f.iff = 0 \/ SkippingDo(f) THEN f
  ELSE CASE op = "endiff" ->
              IF f.endiff = 0
                THEN [f EXCEPT !.iff = Drop(@), !.else = NotWaiting]
                ELSE [f EXCEPT !.endiff = Drop(@)]
         [] op = "iff" ->
              IF f.else # NotWaiting THEN [f EXCEPT !.endiff = Bump(@)] ELSE f
         [] op \in {"else", "elseiff"} /\ f.endiff = 0 ->
              IF f.else = WaitForElse
                THEN [f EXCEPT !.else = NotWaiting,
                               !.iff  = IF op = "elseiff" THEN Drop(@) ELSE @]
                ELSE [f EXCEPT !.else = WaitForEndiff]
         [] OTHER -> f

\* ... and whether it told command() to skip this command.
IffSkips(f, op) ==
  /\ f.iff # 0 /\ ~SkippingDo(f)
  /\ op = "endiff" \/ SkippingIff(IffParsed(f, op))

(***************************************************************************)
(* do_parsing( command name ), called when iff_parsing() returned 0.       *)
(***************************************************************************)
DoParsed(f, op) ==
  IF f.do = 0 THEN f
  ELSE CASE op = "enddo" ->
              IF f.do_end = 0 THEN f ELSE [f EXCEPT !.do_end = Drop(@)]
         [] op = "do" /\ SkippingDo(f) ->
              [f EXCEPT !.do_end = Bump(@)]
         [] op = "leave" /\ ~SkippingDo(f) ->
              [f EXCEPT !.do_leave = Bump(@)]
         [] OTHER -> f

\* do_parsing() returned BATCH_RETURN: this BatchCLI() goes back to Do_Cmd().
EndsDoBody(f, op) ==
  /\ f.do # 0
  /\ \/ op = "enddo" /\ f.do_end = 0
     \/ op = "iterate" /\ ~SkippingDo(f)

\* do_parsing() returned non-zero otherwise: command() skips the command.
DoSkips(f, op) ==
  /\ f.do # 0
  /\ op = "enddo" \/ SkippingDo(DoParsed(f, op))

\* __if() for IFF ... THEN: one level deeper, and waiting for the ELSE when
\* the condition is false.
IffExecuted(f, cond) ==
  [f EXCEPT !.iff  = Bump(@),
            !.else = IF cond THEN @ ELSE WaitForElse]

\* What is left of the command once iff_parsing() has rewritten the line: an
\* ELSEIFF whose turn has come is an IFF, an ELSE is nothing.
Rewritten(op) == CASE op = "elseiff" -> "iff" [] op = "else" -> "none" [] OTHER -> op
=============================================================================
