---------------------------- MODULE Batch_proofs ----------------------------
(***************************************************************************)
(* Proofs about the batch processor, for every value of the constants: the *)
(* invariant IInv below is inductive, and what follows from it.            *)
(***************************************************************************)
EXTENDS Batch, FiniteSetTheorems, WellFoundedInduction, TLAPS

\* Where the processor is tells how deep the C stack is, whether a frame is
\* open and whether there is a line to work on.
PcOK ==
  /\ pc = "prompt" <=> depth = 0
  /\ pc = "do" => bn >= 0 /\ Top.fn = "Do"
  /\ pc = "wild" => bn < 0
  /\ InCommand => /\ bn >= 0 /\ Frame.lOffset >= 0
                  /\ cmd \in Lines /\ fException = {}

\* An error is pending only in the loop that will handle it.
ErrorOK == ON_ERROR \in fException =>
             pc = "cli" /\ HasErrorHandler /\ Frame.lOffset >= 0

\* The open frames are those of real files.
NamesOK == \A b \in 0 .. bn : bframe[b].pszBatchName \in Files

\* The first call is that of Batch(). A DO is active only right under Do_Cmd(),
\* and was when an activation saved its flags only if Do_Cmd() made the call.
CallsOK ==
        /\ depth > 0 => act[1].fn = "Batch"
        /\ flags.do # 0 => depth > 0 /\ Top.fn = "Do"
        /\ \A i \in 1 .. depth :
             act[i].flags.do # 0 => i > 1 /\ act[i - 1].fn = "Do"

\* There are never more open frames than activations of Batch(); as many,
\* unless a load failed.
CountOK == LET n == Cardinality(BatchActs)
           IN  bn + 1 <= n /\ (LoadFails \/ bn + 1 = n)

IInv == TypeOK /\ PcOK /\ ErrorOK /\ NamesOK /\ CallsOK /\ CountOK
-----------------------------------------------------------------------------
(* The flags. *)

LEMMA BumpType == \A x \in 0 .. FlagMod - 1 : Bump(x) \in 0 .. FlagMod - 1
BY FlagModAssumption DEF Bump

LEMMA DropType == \A x \in 0 .. FlagMod - 1 : Drop(x) \in 0 .. FlagMod - 1
BY FlagModAssumption DEF Drop

LEMMA NoFlagsType == NoFlags \in FlagSet /\ NoFlags.do = 0
BY FlagModAssumption DEF NoFlags, FlagSet, ElseStates, NotWaiting

LEMMA IffParsedType ==
  ASSUME NEW f \in FlagSet, NEW op
  PROVE  IffParsed(f, op) \in FlagSet /\ IffParsed(f, op).do = f.do
BY BumpType, DropType DEF IffParsed, FlagSet, ElseStates, NotWaiting, WaitForElse, WaitForEndiff

LEMMA DoParsedType ==
  ASSUME NEW f \in FlagSet, NEW op
  PROVE  DoParsed(f, op) \in FlagSet /\ DoParsed(f, op).do = f.do
BY BumpType, DropType DEF DoParsed, FlagSet

LEMMA IffExecutedType ==
  ASSUME NEW f \in FlagSet, NEW cond \in BOOLEAN
  PROVE  IffExecuted(f, cond) \in FlagSet /\ IffExecuted(f, cond).do = f.do
BY BumpType DEF IffExecuted, FlagSet, ElseStates, WaitForElse
-----------------------------------------------------------------------------
(* Labels. *)

LEMMA LeastElement ==
  ASSUME NEW S \in SUBSET Nat, S # {}
  PROVE  \E x \in S : \A y \in S : x <= y
<1> DEFINE Less == {ss \in Nat \X Nat : ss[1] < ss[2]}
<1>1. IsWellFoundedOn(Less, Nat)
  BY NatLessThanWellFounded, Zenon DEF OpToRel
<1>2. \E x \in S : \A y \in S : ~(<<y, x>> \in Less)
  <2>. HIDE DEF Less
  <2>. QED BY <1>1, WFMin
<1>3. PICK x \in S : \A y \in S : ~(<<y, x>> \in Less)
  <2>. HIDE DEF Less
  <2>. QED BY <1>2
<1>4. ASSUME NEW y \in S PROVE x <= y
  <2>1. y < x => <<y, x>> \in Less
    OBVIOUS
  <2>2. <<y, x>> \notin Less
    BY <1>3
  <2>. HIDE DEF Less
  <2>. QED BY <2>1, <2>2
<1>. QED BY <1>4

LEMMA EofType ==
  ASSUME TypeOK, bn >= 0, Frame.pszBatchName \in Files
  PROVE  Eof \in Nat
BY DEF TypeOK, Eof, Body

LEMMA LabelAtType ==
  ASSUME TypeOK, bn >= 0, Frame.pszBatchName \in Files, NEW name
  PROVE  LabelAt(name) \in Nat
<1> DEFINE body == Body(Frame.pszBatchName)
           hits == {j \in 1 .. Len(body) : body[j].op \in {"label", "labelv"} /\ body[j].arg = name}
<1>1. CASE hits = {}
  BY <1>1, EofType DEF LabelAt
<1>2. CASE hits # {}
  <2>1. hits \subseteq Nat
    BY EofType DEF Eof
  <2>2. \E j \in hits : \A k \in hits : j <= k
    <3>. HIDE DEF hits
    <3>. QED BY <1>2, <2>1, LeastElement
  <2>. QED BY <1>2, <2>1, <2>2 DEF LabelAt
<1>. QED BY <1>1, <1>2
-----------------------------------------------------------------------------
(* Frames. *)

\* A step that leaves the C stack alone, and gives no open frame to another file.
SameStack == UNCHANGED <<bn, act, depth>>
SameNames == \A b \in 0 .. bn : bframe'[b].pszBatchName = bframe[b].pszBatchName

LEMMA FrameType ==
  ASSUME TypeOK, bn >= 0
  PROVE  Frame \in FrameSet
BY DEF TypeOK, FramesType, Frame

LEMMA NewFrameType ==
  ASSUME NEW f \in Files \cup {NULL}
  PROVE  NewFrame(f) \in FrameSet /\ NewFrame(f).pszBatchName = f
BY LimitsAssumption DEF NewFrame, FrameSet, UIntMod

LEMMA SeekType ==
  ASSUME NEW fr \in FrameSet, NEW off \in Nat \cup {-1}, NEW line \in Nat
  PROVE  /\ Seek(fr, off, line) \in FrameSet
         /\ Seek(fr, off, line).lOffset = off
         /\ Seek(fr, off, line).pszBatchName = fr.pszBatchName
         /\ Seek(fr, off, line).pszOnError = fr.pszOnError
         /\ Seek(fr, off, line).pszOnErrorMsg = fr.pszOnErrorMsg
         /\ Seek(fr, off, line).uGosubStack = fr.uGosubStack
         /\ Seek(fr, off, line).pszGosubArgs = fr.pszGosubArgs
         /\ Seek(fr, off, line).nGosubOffset = fr.nGosubOffset
BY DEF Seek, FrameSet

\* The frame in use, and no other, is changed.
LEMMA FrameUpdate ==
  ASSUME TypeOK, bn >= 0, NEW fr \in FrameSet, fr.pszBatchName = Frame.pszBatchName,
         bframe' = [bframe EXCEPT ![bn] = fr], bn' = bn
  PROVE  /\ bframe' \in [0 .. MAXBATCH - 1 -> FrameSet]
         /\ SameNames
         /\ Frame' = fr
         /\ \A b \in 0 .. bn - 1 : bframe'[b] = bframe[b]
BY DEF TypeOK, FramesType, Frame, SameNames
-----------------------------------------------------------------------------
(* Steps that leave the C stack alone. *)

LEMMA SameStackStep ==
  ASSUME IInv, SameStack, TypeOK', PcOK', ErrorOK', SameNames,
         flags'.do \in {0, flags.do}
  PROVE  IInv'
<1>1. NamesOK'
  BY DEF IInv, TypeOK, FramesType, NamesOK, SameStack, SameNames
<1>2. CallsOK'
  BY DEF IInv, CallsOK, SameStack, Top
<1>3. CountOK'
  BY DEF IInv, CountOK, BatchActs, SameStack
<1>. QED BY <1>1, <1>2, <1>3 DEF IInv

LEMMA TypeStep ==
  ASSUME TypeOK, SameStack, OutsideType', PointType', gosubEnv' \in {gosubEnv, Undone},
         bframe' \in [0 .. MAXBATCH - 1 -> FrameSet]
  PROVE  TypeOK'
BY DEF TypeOK, FramesType, StackType, SameStack, Undone

\* A command is over, without or with an error.
LEMMA NextLineStep ==
  ASSUME IInv, InCommand, SameStack, Next_line, OutsideType',
         bframe' \in [0 .. MAXBATCH - 1 -> FrameSet], SameNames, gosubEnv' \in {gosubEnv, Undone},
         flags' \in FlagSet, flags'.do \in {0, flags.do},
         fException' \subseteq ExceptionBits,
         ON_ERROR \in fException' => HasErrorHandler' /\ Frame'.lOffset >= 0
  PROVE  IInv'
<1>1. PointType'
  BY DEF PointType, Next_line
<1>2. TypeOK'
  BY <1>1, TypeStep DEF IInv
<1>3. PcOK'
  BY DEF IInv, PcOK, InCommand, Next_line, SameStack
<1>4. ErrorOK'
  BY DEF ErrorOK, Next_line
<1>. QED BY <1>2, <1>3, <1>4, SameStackStep

LEMMA FailStep ==
  ASSUME IInv, InCommand, SameStack, Fail, OutsideType',
         bframe' \in [0 .. MAXBATCH - 1 -> FrameSet], SameNames, gosubEnv' \in {gosubEnv, Undone},
         flags' \in FlagSet, flags'.do \in {0, flags.do},
         Frame'.pszOnError = Frame.pszOnError, Frame'.pszOnErrorMsg = Frame.pszOnErrorMsg,
         Frame'.lOffset >= 0
  PROVE  IInv'
<1>1. fException' \subseteq ExceptionBits
  BY DEF Fail, Raised, ExceptionBits, IInv, TypeOK, PointType
<1>2. ON_ERROR \in fException' => HasErrorHandler'
  BY DEF Fail, Raised, HasErrorHandler, IInv, PcOK, SameStack
<1>. QED BY <1>1, <1>2, NextLineStep DEF Fail

\* RETURN, GOTO, ENDDO: the BatchCLI() ends.
LEMMA BatchReturnStep ==
  ASSUME IInv, InCommand, SameStack, BatchReturn, OutsideType',
         bframe' \in [0 .. MAXBATCH - 1 -> FrameSet], SameNames, gosubEnv' \in {gosubEnv, Undone},
         flags' \in FlagSet, flags'.do \in {0, flags.do}, fException' = {}
  PROVE  IInv'
<1>1. PointType'
  BY DEF PointType, BatchReturn
<1>2. TypeOK'
  BY <1>1, TypeStep DEF IInv
<1>3. PcOK'
  BY DEF IInv, PcOK, InCommand, BatchReturn, SameStack
<1>4. ErrorOK'
  BY DEF ErrorOK
<1>. QED BY <1>2, <1>3, <1>4, SameStackStep

LEMMA CommandFacts ==
  ASSUME IInv, InCommand
  PROVE  /\ bn \in 0 .. MAXBATCH - 1 /\ depth > 0
         /\ cmd \in Lines /\ fException = {}
         /\ Frame \in FrameSet /\ Frame.lOffset >= 0 /\ Frame.pszBatchName \in Files
         /\ Eof \in Nat
         /\ flags \in FlagSet
         /\ Parsed \in FlagSet /\ Parsed.do = flags.do
         /\ bframe \in [0 .. MAXBATCH - 1 -> FrameSet]
<1>1. bn \in 0 .. MAXBATCH - 1 /\ flags \in FlagSet /\ bframe \in [0 .. MAXBATCH - 1 -> FrameSet]
  BY DEF IInv, TypeOK, FramesType, PcOK, PointType
<1>2. cmd \in Lines /\ fException = {} /\ Frame.lOffset >= 0 /\ depth > 0
  BY DEF IInv, PcOK, InCommand, TypeOK, StackType
<1>3. Frame \in FrameSet /\ Frame.pszBatchName \in Files
  BY <1>1, FrameType DEF IInv, NamesOK, Frame
<1>4. Eof \in Nat
  BY <1>1, <1>3, EofType DEF IInv
<1>5. Parsed \in FlagSet /\ Parsed.do = flags.do
  BY <1>1, IffParsedType DEF Parsed
<1>. QED BY <1>1, <1>2, <1>3, <1>4, <1>5

\* Only IFF and nothing at all can be what is left of another word.
LEMMA RunsOp ==
  ASSUME NEW op, Runs(op), op \notin {"iff", "none"}
  PROVE  cmd.op = op /\ ~cmd.if /\ InCommand
BY Zenon DEF Runs, Op, Rewritten, Execs, Live

LEMMA RunsInCommand ==
  ASSUME NEW op, Runs(op)
  PROVE  InCommand
BY DEF Runs, Execs, Live

LEMMA OutsideSame ==
  ASSUME IInv, UNCHANGED outside
  PROVE  OutsideType'
BY DEF IInv, TypeOK, OutsideType, outside

LEMMA InterruptType ==
  ASSUME IInv, Interrupt
  PROVE  OutsideType' /\ fException' \subseteq ExceptionBits
BY SwitchesAssumption DEF IInv, TypeOK, OutsideType, PointType, Interrupt, ExceptionBits

LEMMA FramesSame ==
  ASSUME IInv, UNCHANGED <<bn, bframe>>
  PROVE  /\ bframe' \in [0 .. MAXBATCH - 1 -> FrameSet]
         /\ SameNames
         /\ Frame' = Frame /\ HasErrorHandler' = HasErrorHandler
BY DEF IInv, TypeOK, FramesType, SameNames, Frame, HasErrorHandler

LEMMA RaisedType ==
  ASSUME IInv, InCommand
  PROVE  /\ Raised \subseteq ExceptionBits
         /\ ON_ERROR \in Raised => HasErrorHandler
BY CommandFacts DEF Raised, ExceptionBits

\* Commands that only change the flags, or nothing.
LEMMA QuietStep ==
  ASSUME IInv, InCommand, Next_line,
         UNCHANGED <<outside, bn, bframe, gosubEnv, cstack>>,
         fException' = {},
         flags' \in FlagSet, flags'.do \in {0, flags.do}
  PROVE  IInv'
<1>1. SameStack /\ OutsideType' /\ gosubEnv' = gosubEnv
  BY OutsideSame DEF SameStack, cstack
<1>2. bframe' \in [0 .. MAXBATCH - 1 -> FrameSet] /\ SameNames
  BY FramesSame
<1>. QED BY <1>1, <1>2, NextLineStep

LEMMA QuietFailStep ==
  ASSUME IInv, InCommand, Fail,
         UNCHANGED <<outside, bn, bframe, gosubEnv, cstack>>,
         flags' \in FlagSet, flags'.do \in {0, flags.do}
  PROVE  IInv'
<1>1. SameStack /\ OutsideType' /\ gosubEnv' = gosubEnv
  BY OutsideSame DEF SameStack, cstack
<1>2. bframe' \in [0 .. MAXBATCH - 1 -> FrameSet] /\ SameNames /\ Frame' = Frame
  BY FramesSame
<1>. QED BY <1>1, <1>2, CommandFacts, FailStep

LEMMA FlagCommands ==
  ASSUME IInv, \/ CmdLabel \/ CmdStackOverflow \/ CmdSkip \/ CmdEndDo
               \/ CmdIff \/ CmdElse \/ CmdUsage \/ CmdUnknown
  PROVE  IInv'
<1>1. CASE CmdLabel
  BY <1>1, CommandFacts, QuietStep DEF CmdLabel
<1>2. CASE CmdStackOverflow
  <2>1. InCommand /\ Next_line /\ SameStack /\ OutsideType' /\ gosubEnv' = gosubEnv
    BY <1>2, OutsideSame DEF CmdStackOverflow, SameStack, cstack
  <2>2. /\ bframe' \in [0 .. MAXBATCH - 1 -> FrameSet] /\ SameNames
        /\ Frame' = Frame /\ HasErrorHandler' = HasErrorHandler
    BY <1>2, FramesSame DEF CmdStackOverflow
  <2>3. flags' = flags /\ fException' \subseteq ExceptionBits /\ ON_ERROR # OVERFLOW
    BY <1>2, <2>1, CommandFacts, RaisedType DEF CmdStackOverflow, ExceptionBits, ON_ERROR, OVERFLOW
  <2>4. ON_ERROR \in fException' => HasErrorHandler
    BY <1>2, <2>1, <2>3, CommandFacts DEF CmdStackOverflow
  <2>. QED BY <2>1, <2>2, <2>3, <2>4, CommandFacts, NextLineStep
<1>3. CASE CmdSkip
  BY <1>3, CommandFacts, DoParsedType, QuietStep DEF CmdSkip
<1>4. CASE CmdEndDo
  <2>1. InCommand /\ BatchReturn /\ SameStack /\ OutsideType' /\ gosubEnv' = gosubEnv
    BY <1>4, OutsideSame DEF CmdEndDo, Live, SameStack, cstack
  <2>2. bframe' \in [0 .. MAXBATCH - 1 -> FrameSet] /\ SameNames
    BY <1>4, FramesSame DEF CmdEndDo
  <2>. QED BY <1>4, <2>1, <2>2, CommandFacts, BatchReturnStep DEF CmdEndDo
<1>5. CASE CmdIff
  BY <1>5, RunsInCommand, CommandFacts, IffExecutedType, QuietStep DEF CmdIff
<1>6. CASE CmdElse
  BY <1>6, RunsInCommand, CommandFacts, QuietStep DEF CmdElse
<1>7. CASE CmdUsage
  <2>1. InCommand
    BY <1>7, RunsInCommand DEF CmdUsage, Execs, Live
  <2>. QED BY <1>7, <2>1, CommandFacts, QuietFailStep DEF CmdUsage
<1>8. CASE CmdUnknown
  <2>1. InCommand
    BY <1>8, RunsInCommand DEF CmdUnknown
  <2>. QED BY <1>8, <2>1, CommandFacts, QuietFailStep DEF CmdUnknown
<1>. QED BY <1>1, <1>2, <1>3, <1>4, <1>5, <1>6, <1>7, <1>8
-----------------------------------------------------------------------------
(* Jumps and the other commands that leave the C stack alone. *)

LEMMA LeftAtType ==
  ASSUME IInv, InCommand, NEW off \in Nat, NEW line \in Nat
  PROVE  /\ LeftAt(off, line) \in FrameSet
         /\ LeftAt(off, line).lOffset = off
         /\ LeftAt(off, line).pszBatchName = Frame.pszBatchName
         /\ LeftAt(off, line).pszOnError = Frame.pszOnError
         /\ LeftAt(off, line).pszOnErrorMsg = Frame.pszOnErrorMsg
<1> DEFINE fr == Seek(Frame, off, line)
           b  == fr.pszGosubArgs /\ cmd.op = "goto"
<1>1. /\ fr \in FrameSet /\ fr.lOffset = off
      /\ fr.pszBatchName = Frame.pszBatchName
      /\ fr.pszOnError = Frame.pszOnError /\ fr.pszOnErrorMsg = Frame.pszOnErrorMsg
  <2>1. Frame \in FrameSet
    BY CommandFacts
  <2>2. off \in Nat \cup {-1}
    OBVIOUS
  <2>. QED BY <2>1, <2>2, SeekType
<1>2. LeftAt(off, line) = [fr EXCEPT !.pszGosubArgs = b]
  BY DEF LeftAt
<1>3. b \in BOOLEAN
  OBVIOUS
<1> HIDE DEF fr, b
<1>. QED BY <1>1, <1>2, <1>3 DEF FrameSet

\* goto_label() fails, one way or the other.
LEMMA LeftAtStep ==
  ASSUME IInv, InCommand, NEW off \in Nat, NEW line \in Nat,
         bframe' = [bframe EXCEPT ![bn] = LeftAt(off, line)], bn' = bn
  PROVE  /\ bframe' \in [0 .. MAXBATCH - 1 -> FrameSet] /\ SameNames
         /\ Frame'.pszOnError = Frame.pszOnError /\ Frame'.pszOnErrorMsg = Frame.pszOnErrorMsg
         /\ Frame'.lOffset >= 0
         /\ HasErrorHandler' = HasErrorHandler
<1>1. Frame' = LeftAt(off, line) /\ SameNames /\ bframe' \in [0 .. MAXBATCH - 1 -> FrameSet]
  <2>1. TypeOK /\ bn >= 0
    BY CommandFacts DEF IInv
  <2>2. LeftAt(off, line) \in FrameSet /\ LeftAt(off, line).pszBatchName = Frame.pszBatchName
    BY LeftAtType
  <2>. QED BY <2>1, <2>2, FrameUpdate
<1>2. Frame'.lOffset = off
  BY <1>1, LeftAtType
<1>3. Frame'.pszOnError = Frame.pszOnError /\ Frame'.pszOnErrorMsg = Frame.pszOnErrorMsg
  BY <1>1, LeftAtType
<1>. QED BY <1>1, <1>2, <1>3 DEF HasErrorHandler

LEMMA FailedJumps ==
  ASSUME IInv, CmdNoLabel \/ CmdJumpMissing \/ CmdJumpBroken \/ CmdGosubTooDeep
  PROVE  IInv'
<1>1. CASE CmdNoLabel
  <2>1. InCommand /\ SameStack /\ OutsideType' /\ UNCHANGED <<bn, flags, gosubEnv>> /\ Fail
    BY <1>1, RunsInCommand, OutsideSame DEF CmdNoLabel, SameStack, cstack
  <2>2. Eof \in Nat /\ flags \in FlagSet
    BY <2>1, CommandFacts
  <2>3. /\ bframe' \in [0 .. MAXBATCH - 1 -> FrameSet] /\ SameNames
        /\ Frame'.pszOnError = Frame.pszOnError /\ Frame'.pszOnErrorMsg = Frame.pszOnErrorMsg
        /\ Frame'.lOffset >= 0
    BY <1>1, <2>1, <2>2, LeftAtStep DEF CmdNoLabel
  <2>. QED BY <2>1, <2>2, <2>3, FailStep
<1>2. CASE CmdJumpMissing
  <2>1. /\ InCommand /\ SameStack /\ OutsideType' /\ UNCHANGED <<bn, flags, gosubEnv>>
        /\ fException' = Raised
    BY <1>2, RunsInCommand, OutsideSame DEF CmdJumpMissing, SameStack, cstack
  <2>2. /\ Frame.lOffset \in Nat /\ Frame.uBatchLine \in Nat
        /\ bframe' = [bframe EXCEPT ![bn] = LeftAt(Frame.lOffset, Frame.uBatchLine)]
    BY <1>2, <2>1, CommandFacts DEF CmdJumpMissing, FrameSet
  <2>3. CASE Next_line
    <3>1. Fail
      BY <2>1, <2>3 DEF Fail
    <3>. QED BY <3>1, <2>1, <2>2, CommandFacts, LeftAtStep, FailStep
  <2>4. CASE BatchReturn /\ ~HasErrorHandler
    <3>1. fException' = {}
      BY <2>1, <2>4, CommandFacts DEF Raised
    <3>. QED BY <3>1, <2>1, <2>2, <2>4, CommandFacts, LeftAtStep, BatchReturnStep
  <2>. QED BY <1>2, <2>3, <2>4 DEF CmdJumpMissing
<1>3. CASE CmdJumpBroken
  <2>1. InCommand /\ SameStack /\ UNCHANGED <<bn, flags, gosubEnv>> /\ Interrupt /\ Next_line
    BY <1>3, RunsInCommand DEF CmdJumpBroken, SameStack, cstack
  <2>2. LabelAt(cmd.arg) \in Nat
    BY <2>1, CommandFacts, LabelAtType DEF IInv
  <2>3. PICK off \in Nat, line \in Nat :
          bframe' = [bframe EXCEPT ![bn] = LeftAt(off, line)]
    <3>1. PICK off \in 0 .. LabelAt(cmd.arg) : \E line \in {off, off - 1} \cap Nat :
            bframe' = [bframe EXCEPT ![bn] = LeftAt(off, line)]
      BY <1>3 DEF CmdJumpBroken
    <3>2. off \in Nat
      BY <2>2
    <3>. QED BY <3>1, <3>2
  <2>4. OutsideType' /\ fException' = {CTRLC}
    BY <2>1, CommandFacts, InterruptType DEF Interrupt
  <2>5. ON_ERROR \notin fException' /\ fException' \subseteq ExceptionBits
    BY <2>4 DEF ON_ERROR, CTRLC, ExceptionBits
  <2>. QED BY <2>1, <2>3, <2>4, <2>5, CommandFacts, LeftAtStep, NextLineStep
<1>4. CASE CmdGosubTooDeep
  <2>1. InCommand /\ SameStack /\ OutsideType' /\ UNCHANGED <<bn, flags, gosubEnv>> /\ Fail
    BY <1>4, RunsInCommand, OutsideSame DEF CmdGosubTooDeep, SameStack, cstack
  <2>2. LabelAt(cmd.arg) \in Nat
    BY <2>1, CommandFacts, LabelAtType DEF IInv
  <2>3. /\ bframe' \in [0 .. MAXBATCH - 1 -> FrameSet] /\ SameNames
        /\ Frame'.pszOnError = Frame.pszOnError /\ Frame'.pszOnErrorMsg = Frame.pszOnErrorMsg
        /\ Frame'.lOffset >= 0
    BY <1>4, <2>1, <2>2, LeftAtStep DEF CmdGosubTooDeep
  <2>. QED BY <2>1, <2>3, CommandFacts, FailStep
<1>. QED BY <1>1, <1>2, <1>3, <1>4

\* A frame that keeps its file and its handlers, at the same place.
LEMMA FrameStep ==
  ASSUME IInv, bn >= 0, NEW fr \in FrameSet, fr.pszBatchName = Frame.pszBatchName,
         bframe' = [bframe EXCEPT ![bn] = fr], bn' = bn
  PROVE  /\ bframe' \in [0 .. MAXBATCH - 1 -> FrameSet] /\ SameNames
         /\ Frame' = fr
BY FrameUpdate DEF IInv

LEMMA CmdOnStep ==
  ASSUME IInv, CmdOn
  PROVE  IInv'
<1> DEFINE fr == CASE cmd.op = "onbreak" -> [Frame EXCEPT !.pszOnBreak = cmd.arg]
                   [] cmd.op = "onerror" -> [Frame EXCEPT !.pszOnError = cmd.arg]
                   [] OTHER              -> [Frame EXCEPT !.pszOnErrorMsg = cmd.arg]
<1>1. InCommand /\ cmd.op \in {"onbreak", "onerror", "onerrormsg"}
  <2>1. PICK op \in {"onbreak", "onerror", "onerrormsg"} : Runs(op)
    BY DEF CmdOn
  <2>. QED BY <2>1, RunsOp
<1>2. cmd.arg \in Lines \cup {NULL}
  BY <1>1, CommandFacts, LinesAssumption
<1>3. fr \in FrameSet /\ fr.pszBatchName = Frame.pszBatchName
  BY <1>1, <1>2, CommandFacts DEF FrameSet
<1>4. bframe' = [bframe EXCEPT ![bn] = fr]
  BY DEF CmdOn, Frame
<1>5. bframe' \in [0 .. MAXBATCH - 1 -> FrameSet] /\ SameNames
  <2> HIDE DEF fr
  <2>1. bn >= 0 /\ bn' = bn
    BY <1>1, CommandFacts DEF CmdOn
  <2>. QED BY <2>1, <1>3, <1>4, FrameStep
<1>6. /\ SameStack /\ OutsideType' /\ Next_line /\ UNCHANGED <<flags, gosubEnv>>
      /\ fException' = {}
  BY <1>1, CommandFacts, OutsideSame DEF CmdOn, SameStack, cstack
<1>. QED BY <1>1, <1>5, <1>6, CommandFacts, NextLineStep

LEMMA CmdGotoStep ==
  ASSUME IInv, CmdGoto
  PROVE  IInv'
<1> DEFINE at == LabelAt(cmd.arg)
           fr == Seek(Frame, at, at)
<1>1. InCommand /\ bn >= 0 /\ bn' = bn
  BY RunsInCommand, CommandFacts DEF CmdGoto
<1>2. at \in Nat
  BY <1>1, CommandFacts, LabelAtType DEF IInv
<1>3. fr \in FrameSet /\ fr.pszBatchName = Frame.pszBatchName
  <2>1. at \in Nat \cup {-1} /\ Frame \in FrameSet
    BY <1>1, <1>2, CommandFacts
  <2>. QED BY <2>1, <1>2, SeekType
<1>4. bframe' = [bframe EXCEPT ![bn] = fr]
  BY DEF CmdGoto, Frame
<1>5. bframe' \in [0 .. MAXBATCH - 1 -> FrameSet] /\ SameNames
  <2> HIDE DEF fr
  <2>. QED BY <1>1, <1>3, <1>4, FrameStep
<1>6. /\ SameStack /\ OutsideType' /\ UNCHANGED gosubEnv
      /\ fException' = {}
  BY <1>1, CommandFacts, OutsideSame DEF CmdGoto, SameStack, cstack
<1>7. flags' \in FlagSet /\ flags'.do \in {0, flags.do}
  BY <1>1, CommandFacts, NoFlagsType DEF CmdGoto
<1>8. CASE Next_line
  BY <1>1, <1>5, <1>6, <1>7, <1>8, NextLineStep
<1>9. CASE BatchReturn
  BY <1>1, <1>5, <1>6, <1>7, <1>9, BatchReturnStep
<1>. QED BY <1>8, <1>9 DEF CmdGoto

LEMMA CmdReturnStep ==
  ASSUME IInv, CmdReturn
  PROVE  IInv'
<1> DEFINE fr == [Frame EXCEPT !.nGosubOffset = @ - 1]
<1>1. /\ InCommand /\ bn >= 0 /\ bn' = bn /\ SameStack /\ OutsideType'
      /\ UNCHANGED <<flags, gosubEnv>> /\ flags \in FlagSet
  BY RunsInCommand, CommandFacts, OutsideSame DEF CmdReturn, SameStack, cstack
<1>2. CASE Frame.nGosubOffset <= 0
  BY <1>1, <1>2, CommandFacts, QuietFailStep DEF CmdReturn
<1>3. CASE ~(Frame.nGosubOffset <= 0)
  <2>1. bframe' = [bframe EXCEPT ![bn] = fr] /\ BatchReturn /\ fException' = fException
    BY <1>3 DEF CmdReturn, Frame
  <2>2. fr \in FrameSet /\ fr.pszBatchName = Frame.pszBatchName
    <3>1. ASSUME NEW f \in FrameSet, NEW n \in -INT_MAX - 1 .. INT_MAX
          PROVE  /\ [f EXCEPT !.nGosubOffset = n] \in FrameSet
                 /\ [f EXCEPT !.nGosubOffset = n].pszBatchName = f.pszBatchName
      BY DEF FrameSet
    <3>2. Frame \in FrameSet /\ Frame.nGosubOffset \in -INT_MAX - 1 .. INT_MAX
      BY <1>1, CommandFacts DEF FrameSet
    <3>3. Frame.nGosubOffset - 1 \in -INT_MAX - 1 .. INT_MAX
      BY <1>3, <3>2, LimitsAssumption
    <3>. QED BY <3>1, <3>2, <3>3
  <2>3. bframe' \in [0 .. MAXBATCH - 1 -> FrameSet] /\ SameNames
    <3> HIDE DEF fr
    <3>. QED BY <1>1, <2>1, <2>2, FrameStep
  <2>4. fException' = {}
    BY <1>1, <2>1, CommandFacts
  <2>. QED BY <1>1, <2>1, <2>3, <2>4, BatchReturnStep
<1>. QED BY <1>2, <1>3

\* QUIT, CANCEL, and A to a ^C: some frames are cancelled, no other field changes.
LEMMA CancelledFrames ==
  ASSUME IInv, bn' = bn, NEW P \in SUBSET (0 .. MAXBATCH - 1),
         bframe' = [b \in DOMAIN bframe |->
                      IF b \in P THEN [bframe[b] EXCEPT !.lOffset = -1] ELSE bframe[b]]
  PROVE  bframe' \in [0 .. MAXBATCH - 1 -> FrameSet] /\ SameNames
<1>1. ASSUME NEW fr \in FrameSet
      PROVE  /\ [fr EXCEPT !.lOffset = -1] \in FrameSet
             /\ [fr EXCEPT !.lOffset = -1].pszBatchName = fr.pszBatchName
  BY DEF FrameSet
<1>2. bframe \in [0 .. MAXBATCH - 1 -> FrameSet] /\ bn \in -1 .. MAXBATCH - 1
  BY DEF IInv, TypeOK, FramesType
<1>3. ASSUME NEW b \in 0 .. MAXBATCH - 1
      PROVE  bframe'[b] \in FrameSet /\ bframe'[b].pszBatchName = bframe[b].pszBatchName
  BY <1>1, <1>2
<1>4. bframe' \in [0 .. MAXBATCH - 1 -> FrameSet]
  BY <1>2, <1>3
<1>5. SameNames
  BY <1>2, <1>3, LimitsAssumption DEF SameNames
<1>. QED BY <1>4, <1>5

LEMMA CmdQuitStep ==
  ASSUME IInv, CmdQuit
  PROVE  IInv'
<1> DEFINE P == {b \in 0 .. MAXBATCH - 1 : b = bn \/ (b < bn /\ cmd.op = "cancel")}
<1>1. /\ InCommand /\ bn' = bn /\ SameStack /\ OutsideType' /\ Next_line
      /\ UNCHANGED flags /\ gosubEnv' = Undone /\ fException' = fException
  BY RunsInCommand, OutsideSame DEF CmdQuit, SameStack, cstack
<1>2. bframe' = [b \in DOMAIN bframe |->
                   IF b \in P THEN [bframe[b] EXCEPT !.lOffset = -1] ELSE bframe[b]]
  <2>1. DOMAIN bframe = 0 .. MAXBATCH - 1
    BY <1>1, CommandFacts
  <2>. QED BY <2>1, Zenon DEF CmdQuit
<1>3. bframe' \in [0 .. MAXBATCH - 1 -> FrameSet] /\ SameNames
  <2>1. P \in SUBSET (0 .. MAXBATCH - 1)
    OBVIOUS
  <2> HIDE DEF P
  <2>. QED BY <1>1, <1>2, <2>1, CancelledFrames
<1>. QED BY <1>1, <1>3, CommandFacts, NextLineStep

LEMMA PlainCommands ==
  ASSUME IInv, CmdIf \/ CmdBreak \/ CmdExternal
  PROVE  IInv'
<1>1. CASE CmdIf
  <2>1. /\ InCommand /\ SameStack /\ OutsideType' /\ fException' = {}
        /\ UNCHANGED <<outside, bn, bframe, flags, fException, gosubEnv, cstack>>
    BY <1>1, CommandFacts, OutsideSame DEF CmdIf, Execs, Live, SameStack, cstack
  <2>2. /\ bframe' \in [0 .. MAXBATCH - 1 -> FrameSet] /\ SameNames /\ Frame' = Frame
    BY <2>1, FramesSame
  <2>3. CASE Next_line
    BY <2>1, <2>3, CommandFacts, QuietStep
  <2>4. CASE cmd' = AfterIf(cmd) /\ UNCHANGED <<pc, ret>>
    <3>1. cmd' \in Lines
      BY <2>1, <2>4, CommandFacts, LinesAssumption
    <3>2. PointType'
      BY <2>1, <2>4, <3>1 DEF IInv, TypeOK, PointType
    <3>3. TypeOK'
      BY <2>1, <2>2, <3>2, TypeStep DEF IInv
    <3>4. PcOK'
      BY <2>1, <2>2, <2>4, <3>1, CommandFacts DEF IInv, PcOK, InCommand, SameStack
    <3>5. ErrorOK'
      BY <2>1 DEF ErrorOK
    <3>. QED BY <2>1, <2>2, <3>3, <3>4, <3>5, SameStackStep
  <2>. QED BY <1>1, <2>3, <2>4 DEF CmdIf
<1>2. CASE CmdBreak
  <2>1. /\ InCommand /\ SameStack /\ Interrupt /\ Next_line
        /\ flags' \in FlagSet /\ flags'.do \in {0, flags.do} /\ UNCHANGED <<bn, bframe, gosubEnv>>
    BY <1>2, CommandFacts DEF CmdBreak, SameStack, cstack
  <2>2. bframe' \in [0 .. MAXBATCH - 1 -> FrameSet] /\ SameNames
    BY <2>1, FramesSame
  <2>3. fException' = {CTRLC} /\ OutsideType' /\ fException' \subseteq ExceptionBits
    BY <2>1, CommandFacts, InterruptType DEF Interrupt
  <2>4. ON_ERROR \notin fException'
    BY <2>3 DEF ON_ERROR, CTRLC
  <2>. QED BY <2>1, <2>2, <2>3, <2>4, NextLineStep
<1>3. CASE CmdExternal
  <2>1. /\ InCommand /\ SameStack /\ Next_line
        /\ UNCHANGED <<script, breaks, bn, bframe, flags, gosubEnv>>
        /\ flags \in FlagSet
    BY <1>3, RunsInCommand, CommandFacts DEF CmdExternal, SameStack, cstack
  <2>2. deleted' \subseteq Files
    BY <1>3 DEF CmdExternal, IInv, TypeOK, OutsideType
  <2>3. OutsideType'
    BY <2>1, <2>2 DEF IInv, TypeOK, OutsideType
  <2>4. bframe' \in [0 .. MAXBATCH - 1 -> FrameSet] /\ SameNames /\ Frame' = Frame
        /\ HasErrorHandler' = HasErrorHandler
    BY <2>1, FramesSame
  <2>5. fException' \in {fException, Raised}
    BY <1>3 DEF CmdExternal
  <2>6. fException' \subseteq ExceptionBits /\ (ON_ERROR \in fException' => HasErrorHandler)
    BY <2>1, <2>5, CommandFacts, RaisedType
  <2>. QED BY <2>1, <2>3, <2>4, <2>6, CommandFacts, NextLineStep
<1>. QED BY <1>1, <1>2, <1>3
-----------------------------------------------------------------------------
(* The loop of BatchCLI(). *)

LEMMA LoopFacts ==
  ASSUME IInv, AtLoop
  PROVE  /\ bn \in 0 .. MAXBATCH - 1 /\ depth > 0
         /\ flags \in FlagSet /\ fException \subseteq ExceptionBits
         /\ Frame \in FrameSet /\ Frame.pszBatchName \in Files
         /\ Eof \in Nat
<1>1. bn \in 0 .. MAXBATCH - 1 /\ flags \in FlagSet /\ fException \subseteq ExceptionBits
  BY DEF IInv, TypeOK, FramesType, PointType, AtLoop
<1>2. depth > 0
  BY DEF IInv, PcOK, AtLoop, TypeOK, StackType
<1>3. Frame \in FrameSet /\ Frame.pszBatchName \in Files
  BY <1>1, FrameType DEF IInv, NamesOK, Frame
<1>. QED BY <1>1, <1>2, <1>3, EofType DEF IInv

\* The frames, the flags and the exception are left alone.
LEMMA StillStep ==
  ASSUME IInv, UNCHANGED <<outside, bn, bframe, flags, fException, gosubEnv, cstack>>,
         PointType', PcOK', ErrorOK'
  PROVE  IInv'
<1>1. SameStack /\ OutsideType' /\ flags' = flags /\ gosubEnv' = gosubEnv
  BY OutsideSame DEF SameStack, cstack
<1>2. bframe' \in [0 .. MAXBATCH - 1 -> FrameSet] /\ SameNames
  BY FramesSame
<1>3. TypeOK'
  BY <1>1, <1>2, TypeStep DEF IInv
<1>. QED BY <1>1, <1>2, <1>3, SameStackStep

LEMMA LoopEnds ==
  ASSUME IInv, CLIFinished \/ CLIEof \/ CLINoFrame \/ ReturnNoFrame
  PROVE  IInv'
<1>1. UNCHANGED <<outside, bn, bframe, flags, fException, gosubEnv, cstack, cmd>>
  BY DEF CLIFinished, CLIEof, CLINoFrame, ReturnNoFrame
<1>2. /\ pc \in {"cli", "ret"} /\ pc' \in {"ret", "wild"} /\ ret' \in {"0", NULL}
      /\ pc' = "wild" => bn < 0
      /\ ON_ERROR \notin fException
  <2>1. CASE CLIFinished
    BY <2>1, LoopFacts DEF CLIFinished, AtLoop, CLIRet, IInv, ErrorOK, FrameSet
  <2>2. CASE CLIEof
    BY <2>2 DEF CLIEof, AtLoop, CLIRet
  <2>3. CASE CLINoFrame
    BY <2>3 DEF CLINoFrame, CLIRet, IInv, ErrorOK, HasErrorHandler, TypeOK, FramesType
  <2>4. CASE ReturnNoFrame
    BY <2>4 DEF ReturnNoFrame, IInv, ErrorOK
  <2>. QED BY <2>1, <2>2, <2>3, <2>4
<1>3. PointType'
  BY <1>1, <1>2 DEF IInv, TypeOK, PointType
<1>4. PcOK'
  BY <1>1, <1>2 DEF IInv, PcOK, InCommand, cstack
<1>5. ErrorOK'
  BY <1>1, <1>2 DEF ErrorOK
<1>. QED BY <1>1, <1>3, <1>4, <1>5, StillStep

\* BatchCLI() runs an ON ERROR, ON ERRORMSG or ON BREAK command.
LEMMA HandlerStep ==
  ASSUME IInv, CLIOnError \/ CLIOnBreak
  PROVE  IInv'
<1>1. /\ AtLoop /\ Frame.lOffset >= 0
      /\ UNCHANGED <<outside, bn, bframe, flags, gosubEnv, cstack, ret>>
      /\ fException' = {} /\ pc' = "handler"
  BY DEF CLIOnError, CLIOnBreak, Handling
<1>2. cmd' \in Lines
  <2>1. CASE CLIOnError
    <3>1. HasErrorHandler
      BY <2>1 DEF CLIOnError, IInv, ErrorOK
    <3>. QED BY <1>1, <2>1, <3>1, LoopFacts DEF CLIOnError, HasErrorHandler, FrameSet
  <2>2. CASE CLIOnBreak
    BY <1>1, <2>2, LoopFacts DEF CLIOnBreak, FrameSet
  <2>. QED BY <2>1, <2>2
<1>3. SameStack /\ OutsideType' /\ flags' = flags /\ gosubEnv' = gosubEnv
  BY <1>1, OutsideSame DEF SameStack, cstack
<1>4. bframe' \in [0 .. MAXBATCH - 1 -> FrameSet] /\ SameNames /\ Frame' = Frame
  BY <1>1, FramesSame
<1>5. PointType'
  BY <1>1, <1>2 DEF IInv, TypeOK, PointType
<1>6. TypeOK'
  BY <1>3, <1>4, <1>5, TypeStep DEF IInv
<1>7. PcOK'
  BY <1>1, <1>2, <1>3, <1>4, LoopFacts DEF IInv, PcOK, InCommand, SameStack
<1>8. ErrorOK'
  BY <1>1 DEF ErrorOK
<1>. QED BY <1>3, <1>4, <1>6, <1>7, <1>8, SameStackStep

\* Y and A to a ^C, and a stack overflow.
LEMMA CancelStep ==
  ASSUME IInv, CLIAnswerYes \/ CLICancelAll
  PROVE  IInv'
<1>1. /\ AtLoop /\ SameStack /\ OutsideType' /\ UNCHANGED <<gosubEnv, cmd>>
      /\ fException' \in {{}, {CTRLC}} /\ flags' = NoFlags
      /\ pc' = "ret" /\ ret' = "CTRLC"
  BY OutsideSame DEF CLIAnswerYes, CLICancelAll, Handling, CLIRet, SameStack, cstack
<1>2. bframe' \in [0 .. MAXBATCH - 1 -> FrameSet] /\ SameNames
  <2>1. DOMAIN bframe = 0 .. MAXBATCH - 1 /\ bn' = bn /\ bn \in 0 .. MAXBATCH - 1
    BY <1>1, LoopFacts DEF IInv, TypeOK, FramesType, SameStack
  <2>2. CASE CLIAnswerYes
    <3> DEFINE P == {bn}
    <3>1. bframe' = [b \in DOMAIN bframe |->
                       IF b \in P THEN [bframe[b] EXCEPT !.lOffset = -1] ELSE bframe[b]]
      BY <2>1, <2>2 DEF CLIAnswerYes
    <3>2. P \in SUBSET (0 .. MAXBATCH - 1)
      BY <2>1
    <3> HIDE DEF P
    <3>. QED BY <2>1, <3>1, <3>2, CancelledFrames
  <2>3. CASE CLICancelAll
    <3> DEFINE P == {b \in 0 .. MAXBATCH - 1 : b <= bn}
    <3>1. bframe' = [b \in DOMAIN bframe |->
                       IF b \in P THEN [bframe[b] EXCEPT !.lOffset = -1] ELSE bframe[b]]
      BY <2>1, <2>3, Zenon DEF CLICancelAll, CancelsAlso
    <3>2. P \in SUBSET (0 .. MAXBATCH - 1)
      OBVIOUS
    <3> HIDE DEF P
    <3>. QED BY <2>1, <3>1, <3>2, CancelledFrames
  <2>. QED BY <2>2, <2>3
<1>3. flags' \in FlagSet /\ flags'.do = 0
  BY <1>1, NoFlagsType
<1>4. PointType'
  BY <1>1, <1>3 DEF IInv, TypeOK, PointType, ExceptionBits
<1>5. TypeOK'
  BY <1>1, <1>2, <1>4, TypeStep DEF IInv
<1>6. PcOK'
  BY <1>1, LoopFacts DEF PcOK, InCommand, SameStack
<1>7. ErrorOK'
  BY <1>1 DEF ErrorOK, ON_ERROR, CTRLC
<1>. QED BY <1>1, <1>2, <1>3, <1>5, <1>6, <1>7, SameStackStep

\* The loop goes on: N to a ^C, ^C while a line is read, a missing file.
LEMMA LoopGoesOn ==
  ASSUME IInv, CLIAnswerNo \/ CLIBreak \/ CLIMissing
  PROVE  IInv'
<1>1. /\ AtLoop /\ SameStack /\ OutsideType' /\ UNCHANGED <<flags, gosubEnv, cmd>>
      /\ pc' \in {"cli", "ret"} /\ ret' \in {ret, "0"} /\ Frame.lOffset >= 0
  <2>1. CASE CLIAnswerNo
    BY <2>1, OutsideSame DEF CLIAnswerNo, Handling, AtLoop, SameStack, cstack
  <2>2. CASE CLIBreak
    BY <2>2, InterruptType DEF CLIBreak, AtLoop, SameStack, cstack
  <2>3. CASE CLIMissing
    BY <2>3, OutsideSame DEF CLIMissing, AtLoop, CLIRet, SameStack, cstack
  <2>. QED BY <2>1, <2>2, <2>3
<1>2. /\ fException' \subseteq ExceptionBits
      /\ ON_ERROR \in fException' => pc' = "cli" /\ HasErrorHandler /\ bframe' = bframe
  <2>1. CASE CLIAnswerNo
    BY <2>1 DEF CLIAnswerNo
  <2>2. CASE CLIBreak
    BY <2>2, InterruptType DEF CLIBreak, Interrupt, ON_ERROR, CTRLC
  <2>3. CASE CLIMissing
    BY <2>3 DEF CLIMissing, Raised, ExceptionBits, AtLoop
  <2>. QED BY <2>1, <2>2, <2>3
<1>3. bframe' \in [0 .. MAXBATCH - 1 -> FrameSet] /\ SameNames
  <2>1. CASE bframe' = bframe
    BY <1>1, <2>1, FramesSame DEF SameStack
  <2>2. CASE bframe' # bframe
    <3> DEFINE fr == Seek(Frame, Frame.lOffset + 1, Frame.uBatchLine)
    <3>1. bframe' = [bframe EXCEPT ![bn] = fr]
      BY <2>2 DEF CLIBreak, CLIAnswerNo, CLIMissing, Seek, Frame
    <3>2. fr \in FrameSet /\ fr.pszBatchName = Frame.pszBatchName
      <4>1. Frame \in FrameSet
        BY <1>1, LoopFacts
      <4>2. Frame.lOffset + 1 \in Nat \cup {-1} /\ Frame.uBatchLine \in Nat
        BY <1>1, <4>1 DEF FrameSet
      <4>. QED BY <4>1, <4>2, SeekType
    <3>3. bn >= 0 /\ bn' = bn
      BY <1>1, LoopFacts DEF SameStack
    <3> HIDE DEF fr
    <3>. QED BY <3>1, <3>2, <3>3, FrameStep
  <2>. QED BY <2>1, <2>2
<1>4. PointType'
  BY <1>1, <1>2 DEF IInv, TypeOK, PointType
<1>5. TypeOK'
  BY <1>1, <1>3, <1>4, TypeStep DEF IInv
<1>6. PcOK'
  BY <1>1, LoopFacts DEF PcOK, InCommand, SameStack
<1>7. ErrorOK'
  BY <1>1, <1>2 DEF ErrorOK, HasErrorHandler, Frame, SameStack
<1>. QED BY <1>1, <1>3, <1>5, <1>6, <1>7, SameStackStep

LEMMA CLIReadStep ==
  ASSUME IInv, CLIRead
  PROVE  IInv'
<1> DEFINE fr == Seek(Frame, Frame.lOffset + 1, Frame.uBatchLine + 1)
<1>1. /\ AtLoop /\ SameStack /\ OutsideType' /\ UNCHANGED <<flags, gosubEnv, fException, ret>>
      /\ pc' = "cmd" /\ fException = {}
      /\ Frame.lOffset >= 0 /\ Frame.lOffset < Eof
      /\ cmd' = Body(Frame.pszBatchName)[Frame.lOffset + 1]
  BY OutsideSame DEF CLIRead, SameStack, cstack
<1>2. Frame \in FrameSet /\ Frame.lOffset \in Nat /\ Frame.uBatchLine \in Nat
  BY <1>1, LoopFacts DEF FrameSet
<1>3. cmd' \in Lines
  <2>1. Body(Frame.pszBatchName) \in Seq(Lines)
    BY <1>1, LoopFacts DEF Body, IInv, TypeOK, OutsideType
  <2>. QED BY <1>1, <1>2, <2>1 DEF Eof
<1>4. fr \in FrameSet /\ fr.pszBatchName = Frame.pszBatchName /\ fr.lOffset = Frame.lOffset + 1
  <2>1. Frame.lOffset + 1 \in Nat \cup {-1} /\ Frame.uBatchLine + 1 \in Nat
    BY <1>2
  <2>. QED BY <1>2, <2>1, SeekType
<1>5. bframe' = [bframe EXCEPT ![bn] = fr]
  BY DEF CLIRead, Frame
<1>6. bframe' \in [0 .. MAXBATCH - 1 -> FrameSet] /\ SameNames /\ Frame' = fr
  <2>1. bn >= 0 /\ bn' = bn
    BY <1>1, LoopFacts DEF SameStack
  <2> HIDE DEF fr
  <2>. QED BY <2>1, <1>4, <1>5, FrameStep
<1>7. PointType'
  BY <1>1, <1>3 DEF IInv, TypeOK, PointType
<1>8. TypeOK'
  BY <1>1, <1>6, <1>7, TypeStep DEF IInv
<1>9. Frame'.lOffset >= 0
  BY <1>2, <1>4, <1>6
<1>10. PcOK'
  BY <1>1, <1>3, <1>9, LoopFacts DEF PcOK, InCommand, SameStack
<1>11. ErrorOK'
  BY <1>1 DEF ErrorOK
<1>. QED BY <1>1, <1>6, <1>8, <1>10, <1>11, SameStackStep

\* ^C while a file is closed, and the Do_Cmd() loop.
LEMMA QuietSteps ==
  ASSUME IInv, CLIBreakClosing \/ DoReturnedNext \/ PromptRestores
  PROVE  IInv'
<1>1. CASE CLIBreakClosing
  <2>1. /\ SameStack /\ OutsideType' /\ fException' \subseteq ExceptionBits
        /\ UNCHANGED <<bn, bframe, flags, gosubEnv, pc, cmd>> /\ pc = "ret" /\ ret' = "CTRLC"
    BY <1>1, InterruptType DEF CLIBreakClosing, SameStack, cstack
  <2>2. ON_ERROR \notin fException'
    BY <1>1 DEF CLIBreakClosing, Interrupt, IInv, ErrorOK, ON_ERROR, CTRLC
  <2>3. bframe' \in [0 .. MAXBATCH - 1 -> FrameSet] /\ SameNames
    BY <2>1, FramesSame
  <2>4. PointType'
    BY <2>1 DEF IInv, TypeOK, PointType
  <2>5. TypeOK'
    BY <2>1, <2>3, <2>4, TypeStep DEF IInv
  <2>6. PcOK' /\ ErrorOK'
    BY <2>1, <2>2 DEF IInv, PcOK, ErrorOK, InCommand, SameStack
  <2>. QED BY <2>1, <2>3, <2>5, <2>6, SameStackStep
<1>2. CASE DoReturnedNext
  <2>1. /\ UNCHANGED <<outside, bn, bframe, flags, fException, gosubEnv, cstack, cmd>>
        /\ pc = "ret" /\ pc' = "do" /\ ret' = NULL /\ bn >= 0 /\ Top.fn = "Do"
    BY <1>2 DEF DoReturnedNext, DoReturning
  <2>2. PointType'
    BY <2>1 DEF IInv, TypeOK, PointType
  <2>3. PcOK'
    BY <2>1 DEF IInv, PcOK, InCommand, Top, cstack
  <2>4. ErrorOK'
    BY <2>1 DEF IInv, ErrorOK
  <2>. QED BY <2>1, <2>2, <2>3, <2>4, StillStep
<1>3. CASE PromptRestores
  <2>1. /\ SameStack /\ OutsideType'
        /\ UNCHANGED <<bn, bframe, flags, fException, gosubEnv, pc, cmd, ret>>
    BY <1>3 DEF PromptRestores, IInv, TypeOK, OutsideType, SameStack, cstack
  <2>2. bframe' \in [0 .. MAXBATCH - 1 -> FrameSet] /\ SameNames
    BY <2>1, FramesSame
  <2>3. PointType'
    BY <2>1 DEF IInv, TypeOK, PointType
  <2>4. TypeOK'
    BY <2>1, <2>2, <2>3, TypeStep DEF IInv
  <2>5. PcOK' /\ ErrorOK'
    BY <2>1 DEF IInv, PcOK, ErrorOK, InCommand, SameStack, Top, Frame, HasErrorHandler
  <2>. QED BY <2>1, <2>2, <2>4, <2>5, SameStackStep
<1>. QED BY <1>1, <1>2, <1>3
-----------------------------------------------------------------------------
(* Calls and returns. *)

LEMMA NoActType == NoAct \in ActSet
BY NoFlagsType DEF NoAct, ActSet

LEMMA NewActType ==
  ASSUME flags \in FlagSet, NEW fn \in {"Batch", "Gosub", "Do"}
  PROVE  NewAct(fn) \in ActSet /\ NewAct(fn).fn = fn /\ NewAct(fn).flags = flags
BY DEF NewAct, ActSet

LEMMA BatchActsFinite ==
  ASSUME StackType
  PROVE  IsFiniteSet(BatchActs) /\ Cardinality(BatchActs) \in Nat
<1>1. IsFiniteSet(1 .. depth)
  BY FS_Interval DEF StackType
<1>2. BatchActs \in SUBSET (1 .. depth)
  BY DEF BatchActs
<1>. QED BY <1>1, <1>2, FS_Subset, FS_CardinalityType

LEMMA PushCount ==
  ASSUME StackType, depth < StackLimit, NEW a \in ActSet, Push(a)
  PROVE  /\ StackType' /\ Top' = a
         /\ \A i \in 1 .. depth : act'[i] = act[i]
         /\ a.fn = "Batch" => Cardinality(BatchActs') = Cardinality(BatchActs) + 1
         /\ a.fn # "Batch" => Cardinality(BatchActs') = Cardinality(BatchActs)
<1>1. StackType' /\ Top' = a /\ \A i \in 1 .. depth : act'[i] = act[i]
  BY LimitsAssumption DEF StackType, Push, Top
<1>2. CASE a.fn = "Batch"
  <2>1. BatchActs' = BatchActs \cup {depth + 1} /\ depth + 1 \notin BatchActs
    BY <1>1, <1>2 DEF BatchActs, Push, StackType, Top
  <2>. QED BY <1>1, <1>2, <2>1, BatchActsFinite, FS_AddElement
<1>3. CASE a.fn # "Batch"
  <2>1. BatchActs' = BatchActs
    BY <1>1, <1>3 DEF BatchActs, Push, StackType, Top
  <2>. QED BY <1>1, <1>3, <2>1
<1>. QED BY <1>2, <1>3

LEMMA PopCount ==
  ASSUME StackType, depth > 0, Pop
  PROVE  /\ StackType'
         /\ \A i \in 1 .. depth - 1 : act'[i] = act[i]
         /\ Top.fn = "Batch" => /\ Cardinality(BatchActs) > 0
                                /\ Cardinality(BatchActs') = Cardinality(BatchActs) - 1
         /\ Top.fn # "Batch" => Cardinality(BatchActs') = Cardinality(BatchActs)
<1>1. StackType' /\ \A i \in 1 .. depth - 1 : act'[i] = act[i]
  <2>1. act' = [act EXCEPT ![depth] = NoAct] /\ depth' = depth - 1 /\ NoAct \in ActSet
    BY NoActType DEF Pop
  <2>2. depth \in 1 .. StackLimit /\ act \in [1 .. StackLimit -> ActSet]
    BY DEF StackType
  <2>3. depth' \in 0 .. StackLimit
    BY <2>1, <2>2, LimitsAssumption
  <2>4. act' \in [1 .. StackLimit -> ActSet]
    BY <2>1, <2>2
  <2>5. \A i \in 1 .. depth - 1 : act'[i] = act[i]
    BY <2>1, <2>2
  <2>. QED BY <2>3, <2>4, <2>5 DEF StackType
<1>2. CASE Top.fn = "Batch"
  <2>1. BatchActs' = BatchActs \ {depth} /\ depth \in BatchActs
    BY <1>1, <1>2 DEF BatchActs, Pop, StackType, Top
  <2>2. Cardinality(BatchActs') = Cardinality(BatchActs) - 1
    BY <2>1, BatchActsFinite, FS_RemoveElement
  <2>3. Cardinality(BatchActs) # 0
    BY <2>1, BatchActsFinite, FS_EmptySet
  <2>. QED BY <1>1, <1>2, <2>2, <2>3, BatchActsFinite
<1>3. CASE Top.fn # "Batch"
  <2>1. BatchActs' = BatchActs
    BY <1>1, <1>3 DEF BatchActs, Pop, StackType, Top
  <2>. QED BY <1>1, <1>3, <2>1
<1>. QED BY <1>2, <1>3

LEMMA PushStep ==
  ASSUME IInv, depth < StackLimit, NEW a \in ActSet, Push(a),
         depth = 0 => a.fn = "Batch",
         a.flags.do = flags.do, flags'.do # 0 => a.fn = "Do",
         bn' = IF a.fn = "Batch" THEN bn + 1 ELSE bn,
         OutsideType', FramesType', PointType', PcOK', ErrorOK', NamesOK'
  PROVE  IInv'
<1>1. /\ StackType' /\ Top' = a
      /\ \A i \in 1 .. depth : act'[i] = act[i]
      /\ a.fn = "Batch" => Cardinality(BatchActs') = Cardinality(BatchActs) + 1
      /\ a.fn # "Batch" => Cardinality(BatchActs') = Cardinality(BatchActs)
  BY PushCount DEF IInv, TypeOK
<1>2. TypeOK'
  BY <1>1 DEF TypeOK
<1>3. CallsOK'
  <2>1. flags'.do # 0 => depth' > 0 /\ Top'.fn = "Do"
    BY <1>1 DEF Push, IInv, TypeOK, StackType
  <2>2. ASSUME NEW i \in 1 .. depth', act'[i].flags.do # 0
        PROVE  i > 1 /\ act'[i - 1].fn = "Do"
    <3>1. CASE i \in 1 .. depth
      BY <1>1, <2>2, <3>1 DEF IInv, CallsOK, TypeOK, StackType
    <3>2. CASE i = depth + 1
      <4>1. act'[i] = a
        BY <1>1, <3>2 DEF Push, Top
      <4>2. depth > 0 /\ Top.fn = "Do"
        BY <2>2, <4>1 DEF IInv, CallsOK
      <4>. QED BY <1>1, <3>2, <4>2 DEF Top, IInv, TypeOK, StackType
    <3>. QED BY <2>2, <3>1, <3>2 DEF Push, IInv, TypeOK, StackType
  <2>3. act'[1].fn = "Batch"
    BY <1>1 DEF IInv, CallsOK, TypeOK, StackType, Top, Push
  <2>. QED BY <2>1, <2>2, <2>3 DEF CallsOK
<1>4. CountOK'
  <2>1. Cardinality(BatchActs) \in Nat /\ bn \in Int
    BY BatchActsFinite DEF IInv, TypeOK, FramesType
  <2>. QED BY <1>1, <2>1 DEF IInv, CountOK
<1>. QED BY <1>2, <1>3, <1>4 DEF IInv

LEMMA PopStep ==
  ASSUME IInv, depth > 0, Pop,
         flags'.do \in {0, Top.flags.do},
         bn' = IF Top.fn = "Batch" /\ bn >= 0 THEN bn - 1 ELSE bn,
         OutsideType', FramesType', PointType', PcOK', ErrorOK', NamesOK'
  PROVE  IInv'
<1>1. /\ StackType'
      /\ \A i \in 1 .. depth - 1 : act'[i] = act[i]
      /\ Top.fn = "Batch" => /\ Cardinality(BatchActs) > 0
                             /\ Cardinality(BatchActs') = Cardinality(BatchActs) - 1
      /\ Top.fn # "Batch" => Cardinality(BatchActs') = Cardinality(BatchActs)
  BY PopCount DEF IInv, TypeOK
<1>2. TypeOK'
  BY <1>1 DEF TypeOK
<1>3. CallsOK'
  BY <1>1 DEF IInv, CallsOK, Pop, Top, TypeOK, StackType
<1>4. CountOK'
  <2>1. Cardinality(BatchActs) \in Nat /\ bn \in -1 .. MAXBATCH - 1
    BY BatchActsFinite DEF IInv, TypeOK, FramesType
  <2>. QED BY <1>1, <2>1 DEF IInv, CountOK
<1>. QED BY <1>2, <1>3, <1>4 DEF IInv
-----------------------------------------------------------------------------
(* DO. *)

\* A DO ends, by whichever exit.
LEMMA DoFinishedStep ==
  ASSUME IInv, bn >= 0, bn' = bn, depth > 0, Top.fn = "Do", DoFinished,
         UNCHANGED <<gosubEnv, cmd>>, OutsideType',
         bframe' \in [0 .. MAXBATCH - 1 -> FrameSet], SameNames,
         flags' \in FlagSet, flags'.do \in {0, Top.flags.do},
         fException' \subseteq ExceptionBits,
         ON_ERROR \in fException' => HasErrorHandler' /\ Frame'.lOffset >= 0
  PROVE  IInv'
<1>0. depth > 1
  BY DEF IInv, CallsOK, TypeOK, StackType, Top
<1>1. FramesType' /\ NamesOK'
  BY DEF IInv, TypeOK, FramesType, NamesOK, SameNames
<1>2. PointType'
  BY DEF DoFinished, IInv, TypeOK, PointType
<1>3. PcOK'
  BY <1>0 DEF DoFinished, Pop, PcOK, InCommand, IInv, TypeOK, StackType
<1>4. ErrorOK'
  BY DEF DoFinished, ErrorOK
<1>. QED BY <1>1, <1>2, <1>3, <1>4, PopStep DEF DoFinished

LEMMA CmdDoStep ==
  ASSUME IInv, CmdDo
  PROVE  IInv'
<1> DEFINE entered == [Parsed EXCEPT !.do = Bump(@)]
           a == [NewAct("Do") EXCEPT !.name = Frame.pszBatchName,
                                     !.lOffset = Frame.lOffset,
                                     !.uBatchLine = Frame.uBatchLine,
                                     !.flags = Parsed,
                                     !.current = entered,
                                     !.type = cmd.arg,
                                     !.n = cmd.n]
<1>1. InCommand /\ cmd.op = "do" /\ depth < StackLimit
  BY RunsOp, LimitsAssumption DEF CmdDo, Runs, Execs, Live, StackFull, IInv, TypeOK, StackType
<1>2. /\ Push(a) /\ flags' = entered /\ OutsideType' /\ bn' = bn
      /\ UNCHANGED <<bframe, fException, gosubEnv>>
      /\ pc' = "do" /\ cmd' = NULL /\ ret' = NULL
  BY OutsideSame DEF CmdDo
<1>3. entered \in FlagSet
  <2>1. ASSUME NEW f \in FlagSet PROVE [f EXCEPT !.do = Bump(@)] \in FlagSet
    BY BumpType DEF FlagSet
  <2>. QED BY <1>1, <2>1, CommandFacts
<1>4. a \in ActSet /\ a.fn = "Do" /\ a.flags = Parsed
  <2>1. /\ cmd.arg \in LoopTypes /\ cmd.n \in Nat
        /\ Frame.pszBatchName \in Files /\ Frame.lOffset \in Nat /\ Frame.uBatchLine \in Nat
        /\ Parsed \in FlagSet /\ flags \in FlagSet
    BY <1>1, CommandFacts, LinesAssumption DEF FrameSet
  <2> HIDE DEF entered
  <2>. QED BY <1>3, <2>1 DEF NewAct, ActSet
<1> HIDE DEF a, entered
<1>5. FramesType' /\ NamesOK'
  BY <1>2 DEF IInv, TypeOK, FramesType, NamesOK
<1>6. PointType'
  BY <1>2, <1>3 DEF IInv, TypeOK, PointType
<1>7. Top' = a /\ depth' > 0
  <2>1. StackType /\ a \in ActSet /\ Push(a)
    BY <1>2, <1>4 DEF IInv, TypeOK
  <2>2. Top' = a
    BY <1>1, <2>1, PushCount
  <2>3. depth' > 0
    BY <2>1 DEF Push, StackType
  <2>. QED BY <2>2, <2>3
<1>8. PcOK'
  BY <1>1, <1>2, <1>4, <1>7, CommandFacts DEF PcOK, InCommand
<1>9. ErrorOK'
  BY <1>1, <1>2, CommandFacts DEF ErrorOK
<1>10. a.flags.do = flags.do
  BY <1>1, <1>4, CommandFacts
<1>11. bn' = IF a.fn = "Batch" THEN bn + 1 ELSE bn
  BY <1>2, <1>4
<1>12. depth = 0 => a.fn = "Batch"
  BY <1>1, CommandFacts
<1>. QED BY <1>1, <1>2, <1>4, <1>5, <1>6, <1>8, <1>9, <1>10, <1>11, <1>12, PushStep

LEMMA DoFacts ==
  ASSUME IInv, AtDo \/ DoReturning
  PROVE  /\ bn \in 0 .. MAXBATCH - 1 /\ depth > 0
         /\ Top \in ActSet /\ Top.fn = "Do"
         /\ Frame \in FrameSet /\ Rewound(Frame) \in FrameSet
         /\ Rewound(Frame).pszBatchName = Frame.pszBatchName
         /\ Rewound(Frame).pszOnError = Frame.pszOnError
         /\ Rewound(Frame).pszOnErrorMsg = Frame.pszOnErrorMsg
         /\ Rewound(Frame).lOffset >= 0
         /\ flags \in FlagSet
         /\ fException \subseteq ExceptionBits /\ ON_ERROR \notin fException
<1>1. /\ bn \in 0 .. MAXBATCH - 1 /\ flags \in FlagSet
      /\ fException \subseteq ExceptionBits /\ ON_ERROR \notin fException
  BY DEF IInv, TypeOK, FramesType, PointType, ErrorOK, AtDo, DoReturning
<1>2. Frame \in FrameSet
  BY <1>1, FrameType DEF IInv
<1>3. depth > 0 /\ Top \in ActSet /\ Top.fn = "Do"
  BY DEF IInv, PcOK, TypeOK, StackType, AtDo, DoReturning, Top
<1>4. Top.lOffset \in Nat /\ Top.uBatchLine \in Nat
  BY <1>3 DEF ActSet
<1>5. /\ Rewound(Frame) \in FrameSet
      /\ Rewound(Frame).pszBatchName = Frame.pszBatchName
      /\ Rewound(Frame).pszOnError = Frame.pszOnError
      /\ Rewound(Frame).pszOnErrorMsg = Frame.pszOnErrorMsg
      /\ Rewound(Frame).lOffset = Top.lOffset
  <2>1. Top.lOffset \in Nat \cup {-1}
    BY <1>4
  <2>. QED BY <1>2, <1>4, <2>1, SeekType DEF Rewound
<1>6. Rewound(Frame).lOffset >= 0
  BY <1>4, <1>5
<1>. QED BY <1>1, <1>2, <1>3, <1>5, <1>6

LEMMA DoFlagsType ==
  ASSUME IInv, AtDo \/ DoReturning
  PROVE  /\ Top.flags \in FlagSet /\ Top.current \in FlagSet
         /\ DoFlags \in FlagSet /\ DoFlags.do \in {0, Top.flags.do}
<1>1. Top \in ActSet /\ flags \in FlagSet
  BY DoFacts
<1>2. Top.flags \in FlagSet /\ Top.current \in FlagSet
  BY <1>1 DEF ActSet
<1>. QED BY <1>1, <1>2 DEF DoFlags

LEMMA DoExits ==
  ASSUME IInv, \/ DoBreak \/ DoError \/ DoReturnedCancelled
               \/ DoReturnedGone \/ DoReturnedError
  PROVE  IInv'
<1>1. /\ AtDo \/ DoReturning
      /\ DoFinished /\ UNCHANGED <<bn, gosubEnv, cmd>>
  BY DEF DoBreak, DoError, DoReturnedCancelled, DoReturnedGone, DoReturnedError
<1>2. OutsideType' /\ fException' \subseteq ExceptionBits
  <2>1. Raised \subseteq ExceptionBits
    BY <1>1, DoFacts DEF Raised, ExceptionBits
  <2>. QED BY <1>1, <2>1, DoFacts, OutsideSame, InterruptType
           DEF DoBreak, DoError, DoReturnedCancelled, DoReturnedGone, DoReturnedError
<1>3. flags' \in FlagSet /\ flags'.do \in {0, Top.flags.do}
  <2>1. CASE DoBreak \/ DoReturnedCancelled
    BY <1>1, <2>1, DoFlagsType DEF DoBreak, DoReturnedCancelled
  <2>2. CASE DoError
    BY <1>1, <2>2, DoFlagsType DEF DoError
  <2>3. CASE DoReturnedGone
    BY <1>1, <2>3, DoFacts DEF DoReturnedGone
  <2>4. CASE DoReturnedError
    BY <1>1, <2>4, DoFlagsType DEF DoReturnedError
  <2>. QED BY <2>1, <2>2, <2>3, <2>4
<1>4. /\ bframe' \in [0 .. MAXBATCH - 1 -> FrameSet] /\ SameNames
      /\ ON_ERROR \in fException' => HasErrorHandler' /\ Frame'.lOffset >= 0
  <2>1. CASE DoBreak \/ DoReturnedGone
    BY <1>1, <2>1, DoFacts, FramesSame DEF DoBreak, DoReturnedGone
  <2>2. CASE DoError
    <3>1. bframe' = [bframe EXCEPT ![bn] = Rewound(Frame)]
      BY <2>2 DEF DoError, Frame
    <3>2. bframe' \in [0 .. MAXBATCH - 1 -> FrameSet] /\ SameNames /\ Frame' = Rewound(Frame)
      <4>1. bn >= 0
        BY <1>1, DoFacts
      <4>. QED BY <1>1, <3>1, <4>1, DoFacts, FrameStep
    <3>3. ON_ERROR \in fException' => HasErrorHandler
      BY <1>1, <2>2, DoFacts DEF DoError, Raised, Interrupt, ON_ERROR, CTRLC
    <3>4. Frame'.lOffset >= 0 /\ HasErrorHandler' = HasErrorHandler
      BY <1>1, <3>2, DoFacts DEF HasErrorHandler
    <3>. QED BY <3>2, <3>3, <3>4
  <2>3. CASE DoReturnedCancelled
    <3> DEFINE P == {bn}
    <3>1. bframe' = [b \in DOMAIN bframe |->
                       IF b \in P THEN [bframe[b] EXCEPT !.lOffset = -1] ELSE bframe[b]]
      BY <2>3 DEF DoReturnedCancelled
    <3>2. P \in SUBSET (0 .. MAXBATCH - 1)
      BY <1>1, DoFacts
    <3>3. fException' = fException
      BY <2>3 DEF DoReturnedCancelled
    <3> HIDE DEF P
    <3>. QED BY <1>1, <3>1, <3>2, <3>3, DoFacts, CancelledFrames
  <2>4. CASE DoReturnedError
    <3>1. /\ bframe' \in [0 .. MAXBATCH - 1 -> FrameSet] /\ SameNames
          /\ Frame' = Frame /\ HasErrorHandler' = HasErrorHandler
      BY <2>4, FramesSame DEF DoReturnedError
    <3>2. ON_ERROR \in fException' => HasErrorHandler
      BY <1>1, <2>4, DoFacts DEF DoReturnedError, Raised, Interrupt, ON_ERROR, CTRLC
    <3>3. Frame.lOffset # -1
      BY <2>4 DEF DoReturnedError, DoCancelled
    <3>4. Frame.lOffset >= 0
      BY <1>1, <3>3, DoFacts DEF FrameSet
    <3>. QED BY <3>1, <3>2, <3>4
  <2>. QED BY <2>1, <2>2, <2>3, <2>4
<1>5. bn >= 0 /\ depth > 0 /\ Top.fn = "Do"
  BY <1>1, DoFacts
<1>. QED BY <1>1, <1>2, <1>3, <1>4, <1>5, DoFinishedStep

\* Do_Cmd() runs the body once more, or looks for its end.
LEMMA DoLoops ==
  ASSUME IInv, DoIterate \/ DoReturnedUntil
  PROVE  IInv'
<1>1. /\ AtDo \/ DoReturning
      /\ OutsideType' /\ CallBatchCLI /\ UNCHANGED <<bn, gosubEnv, depth>>
      /\ bframe' = [bframe EXCEPT ![bn] = Rewound(Frame)]
  BY OutsideSame DEF DoIterate, DoReturnedUntil, Frame
<1>2. flags' \in FlagSet
  <2>1. ASSUME NEW f \in FlagSet PROVE [f EXCEPT !.do_leave = Bump(@)] \in FlagSet
    BY BumpType DEF FlagSet
  <2>2. Top.current \in FlagSet /\ flags \in FlagSet
    BY <1>1, DoFlagsType, DoFacts
  <2>. QED BY <2>1, <2>2 DEF DoIterate, DoReturnedUntil
<1>3. bframe' \in [0 .. MAXBATCH - 1 -> FrameSet] /\ SameNames
  <2>1. bn >= 0
    BY <1>1, DoFacts
  <2>. QED BY <1>1, <2>1, DoFacts, FrameStep
<1>4. PICK a \in ActSet : /\ act' = [act EXCEPT ![depth] = a]
                          /\ a.fn = Top.fn /\ a.flags = Top.flags
  <2>1. CASE DoIterate
    <3>1. ASSUME NEW t \in ActSet, NEW n \in Nat
          PROVE  /\ [t EXCEPT !.n = n] \in ActSet
                 /\ [t EXCEPT !.n = n].fn = t.fn /\ [t EXCEPT !.n = n].flags = t.flags
      BY DEF ActSet
    <3> DEFINE n == IF Top.n > 0 THEN Top.n - 1 ELSE Top.n
    <3>2. n \in Nat
      BY <1>1, DoFacts DEF ActSet
    <3>3. act' = [act EXCEPT ![depth] = [Top EXCEPT !.n = n]]
      BY <2>1 DEF DoIterate, Top
    <3> HIDE DEF n
    <3>. QED BY <1>1, <3>1, <3>2, <3>3, DoFacts
  <2>2. CASE DoReturnedUntil
    <3>1. ASSUME NEW t \in ActSet
          PROVE  /\ [t EXCEPT !.leaving = TRUE] \in ActSet
                 /\ [t EXCEPT !.leaving = TRUE].fn = t.fn
                 /\ [t EXCEPT !.leaving = TRUE].flags = t.flags
      BY DEF ActSet
    <3>2. act' = [act EXCEPT ![depth] = [Top EXCEPT !.leaving = TRUE]]
      BY <2>2 DEF DoReturnedUntil, Top
    <3>. QED BY <1>1, <3>1, <3>2, DoFacts
  <2>. QED BY <2>1, <2>2 DEF DoIterate, DoReturnedUntil
<1>5. depth \in 1 .. StackLimit /\ act \in [1 .. StackLimit -> ActSet]
  BY <1>1, DoFacts DEF IInv, TypeOK, StackType
<1>6. StackType' /\ \A i \in 1 .. depth : act'[i].fn = act[i].fn /\ act'[i].flags = act[i].flags
  <2>1. act' \in [1 .. StackLimit -> ActSet]
    BY <1>4, <1>5
  <2>2. depth' \in 0 .. StackLimit
    BY <1>1, <1>5
  <2>3. ASSUME NEW i \in 1 .. depth
        PROVE  act'[i].fn = act[i].fn /\ act'[i].flags = act[i].flags
    <3>1. CASE i = depth
      BY <1>4, <1>5, <3>1 DEF Top
    <3>2. CASE i # depth
      BY <1>4, <1>5, <3>2
    <3>. QED BY <3>1, <3>2
  <2>. QED BY <2>1, <2>2, <2>3 DEF StackType
<1>7. FramesType' /\ NamesOK' /\ PointType'
  BY <1>1, <1>2, <1>3 DEF IInv, TypeOK, FramesType, NamesOK, SameNames, CallBatchCLI, PointType
<1>8. TypeOK'
  BY <1>1, <1>6, <1>7 DEF TypeOK
<1>9. PcOK' /\ ErrorOK'
  BY <1>1, <1>5 DEF PcOK, ErrorOK, InCommand, CallBatchCLI
<1>10. CallsOK'
  <2>1. Top'.fn = "Do"
    BY <1>1, <1>5, <1>6, DoFacts DEF Top
  <2>. QED BY <1>1, <1>5, <1>6, <2>1 DEF IInv, CallsOK
<1>11. CountOK'
  <2>1. BatchActs' = BatchActs
    BY <1>1, <1>6 DEF BatchActs
  <2>. QED BY <1>1, <2>1 DEF IInv, CountOK
<1>. QED BY <1>7, <1>8, <1>9, <1>10, <1>11 DEF IInv
-----------------------------------------------------------------------------
(* GOSUB. *)

LEMMA EnteredType ==
  ASSUME IInv, InCommand, NEW at \in Nat, NEW args \in BOOLEAN,
         args => Frame.uGosubStack <= GosubArgs
  PROVE  /\ Entered(at, args) \in FrameSet
         /\ Entered(at, args).pszBatchName = Frame.pszBatchName
<1> DEFINE f == Seek(Frame, at, at)
           u == IF args THEN f.uGosubStack + 1 ELSE f.uGosubStack
           n == Increment(f.nGosubOffset)
<1>1. /\ Frame \in FrameSet /\ Frame.uGosubStack \in 0 .. UIntMod - 1
      /\ Frame.nGosubOffset \in -INT_MAX - 1 .. INT_MAX
  BY CommandFacts DEF FrameSet
<1>2. /\ f \in FrameSet /\ f.pszBatchName = Frame.pszBatchName
      /\ f.uGosubStack = Frame.uGosubStack /\ f.nGosubOffset = Frame.nGosubOffset
  <2>1. at \in Nat \cup {-1}
    OBVIOUS
  <2>. QED BY <1>1, <2>1, SeekType
<1>3. u \in 0 .. UIntMod - 1
  <2> HIDE DEF f
  <2>. QED BY <1>1, <1>2, LimitsAssumption DEF UIntMod
<1>4. n \in -INT_MAX - 1 .. INT_MAX
  <2> HIDE DEF f
  <2>. QED BY <1>1, <1>2, LimitsAssumption DEF Increment
<1>5. Entered(at, args) = [f EXCEPT !.pszGosubArgs = args, !.uGosubStack = u, !.nGosubOffset = n]
  BY DEF Entered
<1> HIDE DEF f, u, n
<1>. QED BY <1>2, <1>3, <1>4, <1>5 DEF FrameSet

LEMMA GosubCallType ==
  ASSUME IInv, InCommand
  PROVE  GosubCall \in ActSet /\ GosubCall.fn = "Gosub" /\ GosubCall.flags = flags
<1>1. /\ Frame.lOffset \in Nat /\ Frame.uBatchLine \in Nat /\ Frame.pszGosubArgs \in BOOLEAN
      /\ Frame.pszBatchName \in Files /\ flags \in FlagSet
  BY CommandFacts DEF FrameSet
<1>. QED BY <1>1 DEF GosubCall, NewAct, ActSet

LEMMA CmdGosubStep ==
  ASSUME IInv, CmdGosub
  PROVE  IInv'
<1> DEFINE args  == TakesArgs(cmd.arg)
           level == Frame.uGosubStack + 1
           fr    == Entered(LabelAt(cmd.arg), args)
<1>1. InCommand /\ depth < StackLimit
  BY RunsInCommand, LimitsAssumption DEF CmdGosub, Runs, Execs, Live, StackFull, IInv, TypeOK, StackType
<1>2. /\ Push(GosubCall) /\ flags' = NoFlags /\ OutsideType' /\ bn' = bn /\ CallBatchCLI
      /\ gosubEnv' = IF args THEN [gosubEnv EXCEPT ![level] = bn] ELSE gosubEnv
      /\ bframe' = [bframe EXCEPT ![bn] = fr]
      /\ args => Frame.uGosubStack <= GosubArgs
  BY OutsideSame DEF CmdGosub, FreshFlags
<1>3. fr \in FrameSet /\ fr.pszBatchName = Frame.pszBatchName
  <2>1. args \in BOOLEAN
    BY DEF TakesArgs, Found
  <2>2. LabelAt(cmd.arg) \in Nat
    BY <1>1, CommandFacts, LabelAtType DEF IInv
  <2> HIDE DEF args
  <2>. QED BY <1>1, <1>2, <2>1, <2>2, EnteredType
<1> HIDE DEF fr, args
<1>4. gosubEnv' \in [Levels -> 0 .. MAXBATCH - 1 \cup {NULL}]
  <2>1. args => level \in Levels
    <3>1. Frame.uGosubStack \in 0 .. UIntMod - 1
      BY <1>1, CommandFacts DEF FrameSet
    <3>. QED BY <1>2, <3>1, LimitsAssumption DEF Levels, UIntMod
  <2>2. gosubEnv \in [Levels -> 0 .. MAXBATCH - 1 \cup {NULL}] /\ bn \in 0 .. MAXBATCH - 1
    BY <1>1, CommandFacts DEF IInv, TypeOK, FramesType
  <2> HIDE DEF level
  <2>. QED BY <1>2, <2>1, <2>2
<1>5. bframe' \in [0 .. MAXBATCH - 1 -> FrameSet] /\ SameNames
  <2>1. bn >= 0
    BY <1>1, CommandFacts
  <2>. QED BY <1>2, <1>3, <2>1, FrameStep
<1>6. FramesType' /\ NamesOK'
  BY <1>2, <1>4, <1>5 DEF IInv, TypeOK, FramesType, NamesOK, SameNames
<1>7. PointType'
  BY <1>2, NoFlagsType DEF CallBatchCLI, PointType
<1>8. PcOK' /\ ErrorOK'
  BY <1>2 DEF CallBatchCLI, PcOK, ErrorOK, InCommand, Push, IInv, TypeOK, StackType
<1>9. flags'.do = 0 /\ depth > 0
  BY <1>1, <1>2, NoFlagsType, CommandFacts
<1>10. /\ GosubCall \in ActSet /\ GosubCall.flags.do = flags.do
       /\ bn' = IF GosubCall.fn = "Batch" THEN bn + 1 ELSE bn
  BY <1>1, <1>2, GosubCallType
<1>. QED BY <1>1, <1>2, <1>6, <1>7, <1>8, <1>9, <1>10, PushStep

LEMMA GosubReturnedStep ==
  ASSUME IInv, GosubReturned
  PROVE  IInv'
<1> DEFINE moved == CASE GosubCancelled -> [Frame EXCEPT !.lOffset = -1]
                      [] GosubResumes   -> Rewound(Frame)
                      [] OTHER          -> Frame
           u  == IF Frame.pszGosubArgs THEN (moved.uGosubStack + UIntMod - 1) % UIntMod
                                       ELSE moved.uGosubStack
           fr == [moved EXCEPT !.uGosubStack = u, !.pszGosubArgs = Top.args]
<1>1. /\ bn \in 0 .. MAXBATCH - 1 /\ bn' = bn /\ pc = "ret" /\ Top.fn = "Gosub"
      /\ OutsideType' /\ UNCHANGED <<fException, cmd>> /\ gosubEnv' = Undone
      /\ Pop /\ pc' = "cli" /\ ret' = NULL
  BY OutsideSame DEF GosubReturned, IInv, TypeOK, FramesType
<1>2. depth \in 1 .. StackLimit /\ Top \in ActSet /\ depth > 1
  BY <1>1 DEF IInv, PcOK, CallsOK, TypeOK, StackType, Top
<1>3. Frame \in FrameSet /\ flags \in FlagSet
  BY <1>1, FrameType DEF IInv, TypeOK, PointType
<1>4. moved \in FrameSet /\ moved.pszBatchName = Frame.pszBatchName
  <2>1. /\ [Frame EXCEPT !.lOffset = -1] \in FrameSet
        /\ [Frame EXCEPT !.lOffset = -1].pszBatchName = Frame.pszBatchName
    BY <1>3 DEF FrameSet
  <2>2. Rewound(Frame) \in FrameSet /\ Rewound(Frame).pszBatchName = Frame.pszBatchName
    <3>1. Top.lOffset \in Nat \cup {-1} /\ Top.uBatchLine \in Nat
      BY <1>2 DEF ActSet
    <3>. QED BY <1>3, <3>1, SeekType DEF Rewound
  <2>. QED BY <1>3, <2>1, <2>2
<1>5. bframe' = [bframe EXCEPT ![bn] = fr]
  BY DEF GosubReturned
<1> HIDE DEF moved
<1>6. u \in 0 .. UIntMod - 1
  <2>1. moved.uGosubStack \in 0 .. UIntMod - 1
    BY <1>4 DEF FrameSet
  <2>. QED BY <2>1 DEF UIntMod
<1> HIDE DEF u
<1>7. fr \in FrameSet /\ fr.pszBatchName = Frame.pszBatchName
  <2>1. ASSUME NEW f \in FrameSet, NEW n \in 0 .. UIntMod - 1, NEW g \in BOOLEAN
        PROVE  /\ [f EXCEPT !.uGosubStack = n, !.pszGosubArgs = g] \in FrameSet
               /\ [f EXCEPT !.uGosubStack = n, !.pszGosubArgs = g].pszBatchName = f.pszBatchName
    BY DEF FrameSet
  <2>2. Top.args \in BOOLEAN /\ moved \in FrameSet
    BY <1>2, <1>4 DEF ActSet
  <2>3. /\ [moved EXCEPT !.uGosubStack = u, !.pszGosubArgs = Top.args] \in FrameSet
        /\ [moved EXCEPT !.uGosubStack = u, !.pszGosubArgs = Top.args].pszBatchName
             = moved.pszBatchName
    BY <1>6, <2>1, <2>2, Zenon
  <2>. QED BY <1>4, <2>3, Zenon
<1> HIDE DEF fr
<1>8. bframe' \in [0 .. MAXBATCH - 1 -> FrameSet] /\ SameNames
  <2>1. bn >= 0
    BY <1>1
  <2>. QED BY <1>1, <1>5, <1>7, <2>1, FrameStep
<1>9. FramesType' /\ NamesOK'
  BY <1>1, <1>8 DEF IInv, TypeOK, FramesType, NamesOK, SameNames, Undone
<1>10. flags' \in FlagSet /\ flags'.do \in {0, Top.flags.do}
  <2>1. Top.flags \in FlagSet
    BY <1>2 DEF ActSet
  <2>2. flags.do = 0
    BY <1>1 DEF IInv, CallsOK
  <2>. QED BY <1>3, <2>1, <2>2 DEF GosubReturned
<1>11. PointType'
  BY <1>1, <1>10 DEF IInv, TypeOK, PointType
<1>12. PcOK'
  BY <1>1, <1>2 DEF PcOK, InCommand, Pop
<1>13. ErrorOK'
  BY <1>1 DEF IInv, ErrorOK
<1>14. bn' = IF Top.fn = "Batch" /\ bn >= 0 THEN bn - 1 ELSE bn
  BY <1>1
<1>. QED BY <1>1, <1>2, <1>9, <1>10, <1>11, <1>12, <1>13, <1>14, PopStep
-----------------------------------------------------------------------------
(* Batch(). *)

\* No frame is open at the prompt.
LEMMA AtPrompt ==
  ASSUME IInv, pc = "prompt"
  PROVE  bn = -1 /\ depth = 0
<1>1. depth = 0
  BY DEF IInv, PcOK
<1>2. BatchActs = {}
  BY <1>1 DEF BatchActs
<1>3. Cardinality(BatchActs) = 0
  BY <1>2, FS_EmptySet
<1>. QED BY <1>1, <1>3 DEF IInv, CountOK, TypeOK, FramesType

LEMMA ChainStep ==
  ASSUME IInv, InCommand, NEW f \in Files, NEW call \in BOOLEAN, Chains(call),
         BatchStarts(f, call), gosubEnv' = gosubEnv
  PROVE  IInv'
<1>1. /\ bn \in 0 .. MAXBATCH - 1 /\ Base(call) + 1 = bn /\ bn' = bn
      /\ bframe' = [bframe EXCEPT ![bn] = NewFrame(f)]
  <2>1. bn \in 0 .. MAXBATCH - 1
    BY CommandFacts
  <2>2. Base(call) + 1 = bn
    BY <2>1 DEF Base, Exited
  <2>. QED BY <2>1, <2>2 DEF BatchStarts
<1>2. /\ Next_line /\ flags' = NoFlags /\ OutsideType' /\ UNCHANGED <<act, depth, fException>>
  BY OutsideSame DEF BatchStarts, FreshFlags, cstack
<1>3. FramesType' /\ NamesOK'
  <2>1. NewFrame(f) \in FrameSet /\ NewFrame(f).pszBatchName = f
    BY NewFrameType
  <2>. QED BY <1>1, <2>1 DEF IInv, TypeOK, FramesType, NamesOK
<1>4. PointType' /\ StackType'
  BY <1>2, NoFlagsType DEF IInv, TypeOK, PointType, StackType, Next_line
<1>5. PcOK' /\ ErrorOK'
  BY <1>1, <1>2, CommandFacts DEF PcOK, ErrorOK, InCommand, Next_line
<1>6. CallsOK'
  BY <1>2, NoFlagsType DEF IInv, CallsOK
<1>7. CountOK'
  BY <1>1, <1>2 DEF IInv, CountOK, BatchActs
<1>. QED BY <1>2, <1>3, <1>4, <1>5, <1>6, <1>7 DEF IInv, TypeOK

LEMMA CallStep ==
  ASSUME IInv, depth < StackLimit, NEW f \in Files, NEW call \in BOOLEAN, ~Chains(call),
         BatchStarts(f, call), gosubEnv' = gosubEnv
  PROVE  IInv'
<1> DEFINE a == NewAct("Batch")
<1>1. /\ bn \in -1 .. MAXBATCH - 2 /\ bn' = bn + 1
      /\ bframe' = [bframe EXCEPT ![bn + 1] = NewFrame(f)]
  BY LimitsAssumption DEF BatchStarts, NestingFull, Base, IInv, TypeOK, FramesType
<1>2. /\ Push(a) /\ CallBatchCLI /\ flags' = NoFlags /\ OutsideType'
  BY OutsideSame DEF BatchStarts, FreshFlags
<1>3. a \in ActSet /\ a.fn = "Batch" /\ a.flags = flags
  BY NewActType DEF IInv, TypeOK, PointType
<1> HIDE DEF a
<1>4. FramesType' /\ NamesOK'
  <2>1. NewFrame(f) \in FrameSet /\ NewFrame(f).pszBatchName = f
    BY NewFrameType
  <2> DEFINE fr == NewFrame(f)
             b1 == bn + 1
  <2>2. /\ b1 \in 0 .. MAXBATCH - 1
        /\ bframe \in [0 .. MAXBATCH - 1 -> FrameSet]
        /\ \A b \in 0 .. b1 : b # b1 => b \in 0 .. bn /\ b \in 0 .. MAXBATCH - 1
    BY <1>1, LimitsAssumption DEF IInv, TypeOK, FramesType
  <2>3. bn' = b1 /\ bframe' = [bframe EXCEPT ![b1] = fr] /\ fr \in FrameSet /\ fr.pszBatchName = f
    BY <1>1, <2>1
  <2> HIDE DEF fr, b1
  <2>4. bframe' \in [0 .. MAXBATCH - 1 -> FrameSet] /\ bn' \in -1 .. MAXBATCH - 1
    BY <2>2, <2>3
  <2>5. NamesOK'
    BY <2>2, <2>3 DEF IInv, NamesOK
  <2>. QED BY <2>4, <2>5 DEF IInv, TypeOK, FramesType
<1>5. PointType'
  BY <1>2, NoFlagsType DEF CallBatchCLI, PointType
<1>6. PcOK' /\ ErrorOK'
  BY <1>2 DEF CallBatchCLI, PcOK, ErrorOK, InCommand, Push, IInv, TypeOK, StackType
<1>7. bn' = IF a.fn = "Batch" THEN bn + 1 ELSE bn
  BY <1>1, <1>3
<1>8. a.flags.do = flags.do /\ flags'.do = 0
  BY <1>2, <1>3, NoFlagsType
<1>. QED BY <1>2, <1>3, <1>4, <1>5, <1>6, <1>7, <1>8, PushStep

LEMMA LoadFailsStep ==
  ASSUME IInv, pc = "prompt" \/ InCommand, NEW f \in Files, NEW call \in BOOLEAN,
         BatchLoadFails(f, call), gosubEnv' = gosubEnv
  PROVE  IInv'
<1> DEFINE b1 == Base(call) + 1
<1>1. /\ b1 \in 0 .. MAXBATCH - 1 /\ b1 - 1 <= bn /\ bn' = b1 - 1
      /\ bframe' = [bframe EXCEPT ![b1] = NoFrame]
  BY LimitsAssumption
     DEF BatchLoadFails, NestingFull, Base, Exited, Chains, Without, IInv, TypeOK, FramesType
<1> HIDE DEF b1
<1>2. /\ UNCHANGED <<flags, act, depth>> /\ LoadFails
      /\ cmd' = NULL /\ ret' = NULL
      /\ pc' = IF depth = 0 THEN "prompt" ELSE "cli"
  BY DEF BatchLoadFails, cstack
<1>3. /\ OutsideType' /\ fException' \subseteq ExceptionBits /\ ON_ERROR \notin fException'
  <2>1. CASE depth = 0
    BY <2>1, OutsideSame DEF BatchLoadFails
  <2>2. CASE depth # 0
    <3>1. InCommand
      BY <2>2, AtPrompt
    <3>2. fException = {}
      BY <3>1, CommandFacts
    <3>. QED BY <2>2, <3>2, OutsideSame, InterruptType
             DEF BatchLoadFails, Interrupt, ON_ERROR, CTRLC, ExceptionBits
  <2>. QED BY <2>1, <2>2
<1>4. FramesType' /\ NamesOK'
  <2>1. NoFrame \in FrameSet
    BY NewFrameType DEF NoFrame
  <2>2. /\ bframe' \in [0 .. MAXBATCH - 1 -> FrameSet] /\ bn' \in -1 .. MAXBATCH - 1
        /\ \A b \in 0 .. bn' : b \in 0 .. bn /\ bframe'[b] = bframe[b]
    BY <1>1, <2>1, LimitsAssumption DEF IInv, TypeOK, FramesType
  <2>. QED BY <1>1, <2>2 DEF IInv, TypeOK, FramesType, NamesOK
<1>5. PointType' /\ StackType'
  BY <1>2, <1>3 DEF IInv, TypeOK, PointType, StackType
<1>6. PcOK' /\ ErrorOK'
  BY <1>2, <1>3 DEF PcOK, ErrorOK, InCommand
<1>7. CallsOK'
  BY <1>2 DEF IInv, CallsOK, Top
<1>8. CountOK'
  <2>1. BatchActs' = BatchActs /\ Cardinality(BatchActs) \in Nat
    BY <1>2, BatchActsFinite DEF BatchActs, IInv, TypeOK
  <2>2. bn \in Int
    BY DEF IInv, TypeOK, FramesType
  <2>. QED BY <1>1, <1>2, <2>1, <2>2 DEF IInv, CountOK
<1>. QED BY <1>3, <1>4, <1>5, <1>6, <1>7, <1>8 DEF IInv, TypeOK

LEMMA PromptStep ==
  ASSUME IInv, Prompt
  PROVE  IInv'
<1>1. PICK f \in Files : Batch(f, FALSE)
  BY DEF Prompt
<1>2. pc = "prompt" /\ gosubEnv' = gosubEnv /\ bn = -1 /\ depth = 0
  BY AtPrompt DEF Prompt
<1>3. depth < StackLimit /\ ~Chains(FALSE) /\ ~NestingFull
  BY <1>2, LimitsAssumption DEF Chains, NestingFull
<1>4. CASE BatchStarts(f, FALSE)
  BY <1>2, <1>3, <1>4, CallStep
<1>5. CASE BatchLoadFails(f, FALSE)
  BY <1>2, <1>5, LoadFailsStep
<1>. QED BY <1>1, <1>3, <1>4, <1>5 DEF Batch, BatchTooDeep

LEMMA CmdBatchStep ==
  ASSUME IInv, CmdBatch
  PROVE  IInv'
<1> DEFINE call == cmd.op = "call"
<1>1. InCommand /\ cmd.op \in {"call", "run"} /\ depth < StackLimit
  <2>1. PICK op \in {"call", "run"} : Runs(op)
    BY DEF CmdBatch
  <2>2. InCommand /\ cmd.op = op
    BY <2>1, RunsOp
  <2>. QED BY <2>1, <2>2, LimitsAssumption
           DEF Runs, Execs, Live, StackFull, IInv, TypeOK, StackType
<1>2. cmd.arg \in Files
  BY <1>1, CommandFacts, LinesAssumption
<1>3. Batch(cmd.arg, call) /\ gosubEnv' = gosubEnv /\ call \in BOOLEAN
  BY DEF CmdBatch
<1> HIDE DEF call
<1>4. CASE BatchTooDeep
  BY <1>1, <1>3, <1>4, CommandFacts, QuietFailStep DEF BatchTooDeep
<1>5. CASE BatchStarts(cmd.arg, call)
  BY <1>1, <1>2, <1>3, <1>5, ChainStep, CallStep
<1>6. CASE BatchLoadFails(cmd.arg, call)
  BY <1>1, <1>2, <1>3, <1>6, LoadFailsStep
<1>. QED BY <1>3, <1>4, <1>5, <1>6 DEF Batch

LEMMA BatchReturnedStep ==
  ASSUME IInv, BatchReturned
  PROVE  IInv'
<1>1. /\ pc = "ret" /\ Top.fn = "Batch" /\ Pop /\ flags' = Top.flags
      /\ OutsideType' /\ UNCHANGED <<gosubEnv, cmd>> /\ ret' = NULL
      /\ bn' = IF bn < 0 THEN bn ELSE bn - 1
      /\ bframe' = IF bn < 0 THEN bframe ELSE [bframe EXCEPT ![bn] = NoFrame]
      /\ pc' = IF depth = 1 THEN "prompt" ELSE "cli"
      /\ fException' \in {{}, fException}
  BY OutsideSame DEF BatchReturned, Exited, Without
<1>2. depth \in 1 .. StackLimit /\ Top \in ActSet
  BY <1>1 DEF IInv, PcOK, TypeOK, StackType, Top
<1>3. Top.flags \in FlagSet
  BY <1>2 DEF ActSet
<1>4. FramesType' /\ NamesOK'
  <2>1. NoFrame \in FrameSet
    BY NewFrameType DEF NoFrame
  <2>2. /\ bframe' \in [0 .. MAXBATCH - 1 -> FrameSet] /\ bn' \in -1 .. MAXBATCH - 1
        /\ \A b \in 0 .. bn' : b \in 0 .. bn /\ bframe'[b] = bframe[b]
    BY <1>1, <2>1, LimitsAssumption DEF IInv, TypeOK, FramesType
  <2>. QED BY <1>1, <2>2 DEF IInv, TypeOK, FramesType, NamesOK
<1>5. PointType'
  BY <1>1, <1>3 DEF IInv, TypeOK, PointType
<1>6. PcOK'
  BY <1>1, <1>2 DEF PcOK, InCommand, Pop
<1>7. ErrorOK'
  BY <1>1 DEF IInv, ErrorOK
<1>8. bn' = IF Top.fn = "Batch" /\ bn >= 0 THEN bn - 1 ELSE bn
  BY <1>1 DEF IInv, TypeOK, FramesType
<1>. QED BY <1>1, <1>2, <1>4, <1>5, <1>6, <1>7, <1>8, PopStep

LEMMA EmptyStack ==
  ASSUME depth' = 0
  PROVE  Cardinality(BatchActs') = 0
<1>1. BatchActs' = {}
  BY DEF BatchActs
<1>. QED BY <1>1, FS_EmptySet

LEMMA RebootStep ==
  ASSUME IInv, Reboot
  PROVE  IInv'
<1>1. OutsideType'
  BY OutsideSame DEF Reboot
<1>2. FramesType'
  <2>1. NoFrame \in FrameSet
    BY NewFrameType DEF NoFrame
  <2>. QED BY <2>1, LimitsAssumption DEF Reboot, IInv, TypeOK, FramesType
<1>3. StackType'
  BY NoActType, LimitsAssumption DEF Reboot, IInv, TypeOK, StackType
<1>4. PointType'
  BY NoFlagsType DEF Reboot, PointType
<1>5. PcOK' /\ ErrorOK' /\ NamesOK'
  BY DEF Reboot, PcOK, ErrorOK, NamesOK, InCommand
<1>6. CallsOK'
  BY NoFlagsType DEF Reboot, CallsOK
<1>7. CountOK'
  BY EmptyStack DEF Reboot, CountOK
<1>. QED BY <1>1, <1>2, <1>3, <1>4, <1>5, <1>6, <1>7 DEF IInv, TypeOK
-----------------------------------------------------------------------------
(* The invariant. *)

LEMMA InitStep == Init => IInv
<1> SUFFICES ASSUME Init PROVE IInv
  OBVIOUS
<1>1. OutsideType
  BY ScriptsAssumption, SwitchesAssumption DEF Init, OutsideType
<1>2. FramesType
  <2>1. NoFrame \in FrameSet
    BY NewFrameType DEF NoFrame
  <2>. QED BY <2>1, LimitsAssumption DEF Init, FramesType
<1>3. StackType
  BY NoActType, LimitsAssumption DEF Init, StackType
<1>4. PointType
  BY NoFlagsType DEF Init, PointType
<1>5. PcOK /\ ErrorOK /\ NamesOK
  BY DEF Init, PcOK, ErrorOK, NamesOK, InCommand
<1>6. CallsOK
  BY NoFlagsType DEF Init, CallsOK
<1>7. CountOK
  <2>1. BatchActs = {}
    BY DEF Init, BatchActs
  <2>2. Cardinality(BatchActs) = 0
    BY <2>1, FS_EmptySet
  <2>. QED BY <2>2 DEF Init, CountOK
<1>. QED BY <1>1, <1>2, <1>3, <1>4, <1>5, <1>6, <1>7 DEF IInv, TypeOK

LEMMA BatchCLIStep == IInv /\ BatchCLI => IInv'
BY LoopEnds, HandlerStep, CancelStep, LoopGoesOn, CLIReadStep, QuietSteps DEF BatchCLI

LEMMA CommandStep == IInv /\ Command => IInv'
BY FlagCommands, FailedJumps, PlainCommands, CmdOnStep, CmdGotoStep, CmdReturnStep,
   CmdQuitStep, CmdDoStep, CmdGosubStep, CmdBatchStep DEF Command

LEMMA StutterStep ==
  ASSUME IInv, UNCHANGED vars
  PROVE  IInv'
<1>1. TypeOK'
  BY DEF vars, IInv, TypeOK, OutsideType, FramesType, StackType, PointType
<1>2. PcOK' /\ ErrorOK' /\ NamesOK'
  BY DEF vars, IInv, PcOK, ErrorOK, NamesOK, InCommand, Top, Frame, HasErrorHandler
<1>3. CallsOK' /\ CountOK'
  BY DEF vars, IInv, CallsOK, CountOK, BatchActs, Top
<1>. QED BY <1>1, <1>2, <1>3 DEF IInv

LEMMA NextStep == IInv /\ [Next]_vars => IInv'
<1> SUFFICES ASSUME IInv, [Next]_vars PROVE IInv'
  OBVIOUS
<1>1. CASE Prompt
  BY <1>1, PromptStep
<1>2. CASE PromptRestores
  BY <1>2, QuietSteps
<1>3. CASE BatchCLI
  BY <1>3, BatchCLIStep
<1>4. CASE Command
  BY <1>4, CommandStep
<1>5. CASE DoBreak \/ DoError
  BY <1>5, DoExits
<1>6. CASE DoIterate
  BY <1>6, DoLoops
<1>7. CASE DoReturned
  BY <1>7, DoExits, DoLoops, QuietSteps DEF DoReturned
<1>8. CASE GosubReturned
  BY <1>8, GosubReturnedStep
<1>9. CASE BatchReturned
  BY <1>9, BatchReturnedStep
<1>10. CASE Reboot
  BY <1>10, RebootStep
<1>11. CASE UNCHANGED vars
  BY <1>11, StutterStep
<1>. QED BY <1>1, <1>2, <1>3, <1>4, <1>5, <1>6, <1>7, <1>8, <1>9, <1>10, <1>11
        DEF Next, Processor

\* Whatever the files hold and whenever ^C is pressed, the shell only ever
\* reaches states in which IInv holds.
THEOREM Invariant == Spec => []IInv
BY InitStep, NextStep, PTL DEF Spec

\* TypeOK: cv.bn stays within bframe[], the nesting counters within their bit
\* fields, the recursion of command() within the stack CheckFreeStack() leaves,
\* uGosubStack within the prefix characters of its variables.
THEOREM TypeCorrect == Spec => []TypeOK
<1>1. IInv => TypeOK
  BY DEF IInv
<1>. QED BY <1>1, Invariant, PTL

\* EndDoHasLoop: the BATCH_RETURN that do_parsing() answers to ENDDO or ITERATE
\* always goes to a Do_Cmd(), through GOSUB, CALL, GOTO, ^C and errors.
THEOREM EndDoReturnsToLoop == Spec => []EndDoHasLoop
<1>1. IInv => EndDoHasLoop
  BY DEF IInv, CallsOK, EndDoHasLoop
<1>. QED BY <1>1, Invariant, PTL

\* HandlerDefined: when BatchCLI() finds BREAK_ON_ERROR it finds an ON ERROR or
\* ON ERRORMSG command too, in the frame that is then the current one.
THEOREM HandlerIsDefined == Spec => []HandlerDefined
<1>1. IInv => HandlerDefined
  BY DEF IInv, ErrorOK, HandlerDefined, HasErrorHandler
<1>. QED BY <1>1, Invariant, PTL

\* FrameBalance: if LoadBTM() never fails, ExitBatchFile() is called once for
\* every frame Batch() opened, and cv.bn counts the active Batch() calls.
THEOREM FramesBalance == ASSUME LoadFails = FALSE PROVE Spec => []FrameBalance
<1>1. IInv => FrameBalance
  BY DEF IInv, CountOK, FrameBalance
<1>. QED BY <1>1, Invariant, PTL
-----------------------------------------------------------------------------
(* What a step may do to the open frames. *)

FramesStep == StaysQuit /\ CallersKept

LEMMA Untouched ==
  ASSUME IInv, UNCHANGED <<bn, bframe>>
  PROVE  FramesStep
BY DEF FramesStep, StaysQuit, CallersKept, IInv, TypeOK, FramesType

\* Only the frame in use is changed, and it is not moved once it has been QUIT.
LEMMA OnlyCurrent ==
  ASSUME IInv, bn >= 0, bn' = bn, NEW fr, bframe' = [bframe EXCEPT ![bn] = fr],
         Frame.lOffset # -1 \/ fr.lOffset = -1
  PROVE  FramesStep
<1>1. /\ bn \in 0 .. MAXBATCH - 1
      /\ \A b \in 0 .. bn : b # bn => bframe'[b] = bframe[b]
      /\ bframe'[bn] = fr
  BY DEF IInv, TypeOK, FramesType
<1>2. StaysQuit
  BY <1>1 DEF StaysQuit, Frame
<1>3. CallersKept
  BY <1>1 DEF CallersKept
<1>. QED BY <1>2, <1>3 DEF FramesStep

LEMMA OnlyCancelled ==
  ASSUME IInv, bn' = bn, NEW P,
         bframe' = [b \in DOMAIN bframe |->
                      IF b \in P THEN [bframe[b] EXCEPT !.lOffset = -1] ELSE bframe[b]]
  PROVE  FramesStep
<1>1. /\ bn \in -1 .. MAXBATCH - 1
      /\ \A b \in 0 .. MAXBATCH - 1 : bframe[b] \in FrameSet
      /\ \A b \in 0 .. MAXBATCH - 1 :
           bframe'[b] = IF b \in P THEN [bframe[b] EXCEPT !.lOffset = -1] ELSE bframe[b]
  BY DEF IInv, TypeOK, FramesType
<1>2. ASSUME NEW f \in FrameSet PROVE [f EXCEPT !.lOffset = -1].lOffset = -1
  BY DEF FrameSet
<1>3. \A b \in 0 .. bn : b \in 0 .. MAXBATCH - 1
  BY <1>1, LimitsAssumption
<1>4. StaysQuit
  BY <1>1, <1>2, <1>3 DEF StaysQuit
<1>5. CallersKept
  <2>1. ASSUME NEW b \in 0 .. bn - 1
        PROVE  b <= bn' /\ b \in 0 .. MAXBATCH - 1
    BY <1>1, LimitsAssumption
  <2>2. ASSUME NEW b \in 0 .. bn - 1
        PROVE  bframe'[b] \in {bframe[b], [bframe[b] EXCEPT !.lOffset = -1]}
    BY <1>1, <2>1, Zenon
  <2>. QED BY <2>1, <2>2 DEF CallersKept
<1>. QED BY <1>4, <1>5 DEF FramesStep

LEMMA QuietFrames ==
  ASSUME IInv,
         \/ PromptRestores \/ CLIFinished \/ CLIOnError \/ CLIOnBreak \/ CLIAnswerNo
         \/ CLIBreakClosing \/ CLIMissing \/ CLIEof \/ CLINoFrame \/ ReturnNoFrame
         \/ CmdLabel \/ CmdStackOverflow \/ CmdSkip \/ CmdEndDo \/ CmdIf \/ CmdIff
         \/ CmdUsage \/ CmdElse \/ CmdBreak \/ CmdUnknown \/ CmdExternal \/ CmdDo
         \/ BatchTooDeep \/ DoBreak \/ DoReturnedGone \/ DoReturnedNext
         \/ DoReturnedError \/ UNCHANGED vars
  PROVE  FramesStep
<1>1. UNCHANGED <<bn, bframe>>
  BY DEF PromptRestores, CLIFinished, CLIOnError, CLIOnBreak, CLIAnswerNo,
         CLIBreakClosing, CLIMissing, CLIEof, CLINoFrame, ReturnNoFrame,
         CmdLabel, CmdStackOverflow, CmdSkip, CmdEndDo, CmdIf, CmdIff,
         CmdUsage, CmdElse, CmdBreak, CmdUnknown, CmdExternal, CmdDo,
         BatchTooDeep, DoBreak, DoReturnedGone, DoReturnedNext,
         DoReturnedError, vars
<1>. QED BY <1>1, Untouched

\* A command runs only in a file that has not been QUIT.
LEMMA CommandFrames ==
  ASSUME IInv,
         \/ CmdOn \/ CmdGoto \/ CmdNoLabel \/ CmdJumpMissing \/ CmdJumpBroken
         \/ CmdGosub \/ CmdGosubTooDeep \/ CmdReturn
  PROVE  FramesStep
<1>1. InCommand /\ bn' = bn
  BY RunsInCommand DEF CmdOn, CmdGoto, CmdNoLabel, CmdJumpMissing, CmdJumpBroken,
                       CmdGosub, CmdGosubTooDeep, CmdReturn
<1>2. bn >= 0 /\ Frame.lOffset # -1
  BY <1>1, CommandFacts
<1>3. bframe' = bframe \/ \E fr : bframe' = [bframe EXCEPT ![bn] = fr]
  BY DEF CmdOn, CmdGoto, CmdNoLabel, CmdJumpMissing, CmdJumpBroken,
         CmdGosub, CmdGosubTooDeep, CmdReturn
<1>. QED BY <1>1, <1>2, <1>3, Untouched, OnlyCurrent

\* Nor does a line get read in any other.
LEMMA LoopFrames ==
  ASSUME IInv, CLIRead \/ CLIBreak
  PROVE  FramesStep
<1>1. bn >= 0 /\ bn' = bn /\ Frame.lOffset # -1
  BY DEF CLIRead, CLIBreak, AtLoop
<1>2. bframe' = bframe \/ \E fr : bframe' = [bframe EXCEPT ![bn] = fr]
  BY DEF CLIRead, CLIBreak
<1>. QED BY <1>1, <1>2, Untouched, OnlyCurrent

LEMMA CancelFrames ==
  ASSUME IInv, CLIAnswerYes \/ CLICancelAll \/ CmdQuit \/ DoReturnedCancelled
  PROVE  FramesStep
<1>1. CASE CLIAnswerYes \/ DoReturnedCancelled
  <2>1. /\ bn' = bn /\ bframe' = [bframe EXCEPT ![bn].lOffset = -1] /\ bn >= 0
    BY <1>1 DEF CLIAnswerYes, DoReturnedCancelled, DoReturning, Handling, AtLoop
  <2>2. bframe' = [bframe EXCEPT ![bn] = [Frame EXCEPT !.lOffset = -1]]
    BY <2>1 DEF Frame
  <2>3. [Frame EXCEPT !.lOffset = -1].lOffset = -1
    BY <2>1, FrameType DEF IInv, FrameSet
  <2>. QED BY <2>1, <2>2, <2>3, OnlyCurrent
<1>2. CASE CLICancelAll
  <2> DEFINE P == {b \in DOMAIN bframe : CancelsAlso(b)}
  <2>1. bframe' = [b \in DOMAIN bframe |->
                     IF b \in P THEN [bframe[b] EXCEPT !.lOffset = -1] ELSE bframe[b]]
    BY <1>2, Zenon DEF CLICancelAll
  <2>2. bn' = bn
    BY <1>2 DEF CLICancelAll
  <2> HIDE DEF P
  <2>. QED BY <2>1, <2>2, OnlyCancelled
<1>3. CASE CmdQuit
  <2> DEFINE P == {b \in DOMAIN bframe : b = bn \/ (b < bn /\ cmd.op = "cancel")}
  <2>1. bframe' = [b \in DOMAIN bframe |->
                     IF b \in P THEN [bframe[b] EXCEPT !.lOffset = -1] ELSE bframe[b]]
    BY <1>3, Zenon DEF CmdQuit
  <2>2. bn' = bn
    BY <1>3 DEF CmdQuit
  <2> HIDE DEF P
  <2>. QED BY <2>1, <2>2, OnlyCancelled
<1>. QED BY <1>1, <1>2, <1>3

\* Do_Cmd() rewinds only a file that has gone on from the DO, or was not QUIT.
LEMMA DoFrames ==
  ASSUME IInv, DoIterate \/ DoError \/ DoReturnedUntil
  PROVE  FramesStep
<1>1. /\ AtDo \/ DoReturning
      /\ bn' = bn /\ bframe' = [bframe EXCEPT ![bn] = Rewound(Frame)]
  BY DEF DoIterate, DoError, DoReturnedUntil, Frame
<1>2. bn >= 0 /\ Top.lOffset \in Nat /\ Frame.lOffset \in Nat \cup {-1}
  BY <1>1, DoFacts DEF ActSet, FrameSet
<1>3. Frame.lOffset # -1
  <2>1. CASE DoIterate \/ DoError
    <3>1. ~(Frame.lOffset < Top.lOffset)
      BY <2>1 DEF DoIterate, DoError, DoOver
    <3>. QED BY <1>2, <3>1
  <2>2. CASE DoReturnedUntil
    BY <2>2 DEF DoReturnedUntil, DoCancelled
  <2>. QED BY <2>1, <2>2
<1>. QED BY <1>1, <1>2, <1>3, OnlyCurrent

\* Gosub_Cmd() likewise.
LEMMA GosubFrames ==
  ASSUME IInv, GosubReturned
  PROVE  FramesStep
<1> DEFINE moved == CASE GosubCancelled -> [Frame EXCEPT !.lOffset = -1]
                      [] GosubResumes   -> Rewound(Frame)
                      [] OTHER          -> Frame
           fr == [moved EXCEPT !.uGosubStack = IF Frame.pszGosubArgs
                                                 THEN (@ + UIntMod - 1) % UIntMod ELSE @,
                               !.pszGosubArgs = Top.args]
<1>1. bn >= 0 /\ bn' = bn /\ bframe' = [bframe EXCEPT ![bn] = fr]
  BY DEF GosubReturned
<1>2. Frame \in FrameSet
  BY <1>1, FrameType DEF IInv
<1>3. CASE Frame.lOffset = -1
  <2>1. moved \in FrameSet /\ moved.lOffset = -1
    <3>1. [Frame EXCEPT !.lOffset = -1] \in FrameSet
          /\ [Frame EXCEPT !.lOffset = -1].lOffset = -1
      BY <1>2 DEF FrameSet
    <3>2. ~GosubResumes
      BY <1>3 DEF GosubResumes
    <3>. QED BY <1>2, <1>3, <3>1, <3>2
  <2> HIDE DEF moved
  <2>2. fr.lOffset = -1
    BY <2>1 DEF FrameSet
  <2> HIDE DEF fr
  <2>. QED BY <1>1, <2>2, OnlyCurrent
<1>4. CASE Frame.lOffset # -1
  <2> HIDE DEF fr
  <2>. QED BY <1>1, <1>4, OnlyCurrent
<1>. QED BY <1>3, <1>4

LEMMA BatchFrames ==
  ASSUME IInv, pc = "prompt" \/ InCommand, NEW f, NEW call \in BOOLEAN,
         BatchStarts(f, call) \/ BatchLoadFails(f, call)
  PROVE  FramesStep
<1>1. bn \in -1 .. MAXBATCH - 1 /\ bframe \in [0 .. MAXBATCH - 1 -> FrameSet]
  BY DEF IInv, TypeOK, FramesType
<1>2. bn >= 0 => Frame.lOffset # -1
  BY <1>1, AtPrompt, CommandFacts
<1>3. PICK b1 \in {bn, bn + 1} :
        /\ \E fr : bframe' = [bframe EXCEPT ![b1] = fr]
        /\ bn' \in {b1, b1 - 1} /\ (b1 = bn => bn >= 0)
  <2> DEFINE next == Base(call) + 1
  <2>1. next \in {bn, bn + 1} /\ (next = bn => bn >= 0) /\ Base(call) = next - 1
    BY <1>1 DEF Base, Exited, Chains
  <2>2. /\ bn' \in {next, next - 1}
        /\ \E fr : bframe' = [bframe EXCEPT ![next] = fr]
    <3>1. CASE BatchStarts(f, call)
      <4>1. bn' = next /\ bframe' = [bframe EXCEPT ![next] = NewFrame(f)]
        BY <3>1 DEF BatchStarts
      <4>. QED BY <4>1
    <3>2. CASE BatchLoadFails(f, call)
      <4>1. bn' = Base(call) /\ bframe' = [bframe EXCEPT ![next] = NoFrame]
        BY <3>2 DEF BatchLoadFails, Without
      <4> HIDE DEF next
      <4>. QED BY <2>1, <4>1
    <3>. QED BY <3>1, <3>2
  <2> HIDE DEF next
  <2>. QED BY <2>1, <2>2, Zenon
<1>4. \A b \in 0 .. bn : b # b1 => bframe'[b] = bframe[b]
  BY <1>1, <1>3, LimitsAssumption
<1>5. StaysQuit
  BY <1>1, <1>2, <1>3, <1>4 DEF StaysQuit, Frame
<1>6. CallersKept
  BY <1>1, <1>3, <1>4 DEF CallersKept
<1>. QED BY <1>5, <1>6 DEF FramesStep

LEMMA ReturnFrames ==
  ASSUME IInv, BatchReturned
  PROVE  FramesStep
<1>1. bn \in -1 .. MAXBATCH - 1 /\ bframe \in [0 .. MAXBATCH - 1 -> FrameSet]
  BY DEF IInv, TypeOK, FramesType
<1>2. CASE bn < 0
  BY <1>1, <1>2, Untouched DEF BatchReturned, Exited
<1>3. CASE bn >= 0
  <2>1. bn' = bn - 1 /\ bframe' = [bframe EXCEPT ![bn] = NoFrame]
    BY <1>1, <1>3 DEF BatchReturned, Exited, Without
  <2>2. \A b \in 0 .. bn - 1 : bframe'[b] = bframe[b]
    BY <1>1, <1>3, <2>1, LimitsAssumption
  <2>3. StaysQuit
    BY <1>1, <1>3, <2>1, <2>2 DEF StaysQuit
  <2>4. CallersKept
    BY <1>1, <1>3, <2>1, <2>2 DEF CallersKept
  <2>. QED BY <2>3, <2>4 DEF FramesStep
<1>. QED BY <1>1, <1>2, <1>3

LEMMA RebootFrames ==
  ASSUME IInv, Reboot
  PROVE  FramesStep
<1>1. bn = -1
  BY DEF Reboot, IInv, PcOK, TypeOK, FramesType
<1>. QED BY <1>1 DEF FramesStep, StaysQuit, CallersKept

LEMMA NextFrames == IInv /\ [Next]_vars => FramesStep
<1> SUFFICES ASSUME IInv, [Next]_vars PROVE FramesStep
  OBVIOUS
<1>1. CASE Prompt
  <2>1. PICK f : Batch(f, FALSE)
    BY <1>1 DEF Prompt
  <2>. QED BY <1>1, <2>1, BatchFrames, QuietFrames DEF Prompt, Batch
<1>2. CASE BatchCLI
  BY <1>2, QuietFrames, LoopFrames, CancelFrames DEF BatchCLI
<1>3. CASE CmdBatch
  <2>1. InCommand
    BY <1>3, RunsInCommand DEF CmdBatch
  <2>2. Batch(cmd.arg, cmd.op = "call")
    BY <1>3 DEF CmdBatch
  <2>. QED BY <2>1, <2>2, BatchFrames, QuietFrames DEF Batch
<1>4. CASE Command
  BY <1>3, <1>4, QuietFrames, CommandFrames, CancelFrames DEF Command
<1>5. CASE DoBreak \/ DoIterate \/ DoError \/ DoReturned
  BY <1>5, QuietFrames, DoFrames, CancelFrames DEF DoReturned
<1>6. CASE PromptRestores \/ UNCHANGED vars
  BY <1>6, QuietFrames
<1>. QED BY <1>1, <1>2, <1>4, <1>5, <1>6, GosubFrames, ReturnFrames, RebootFrames
         DEF Next, Processor

\* QuitIsFinal: QUIT, CANCEL and a cancelled batch job set lOffset to -1, and
\* Gosub_Cmd(), Do_Cmd() and the ON commands, which all move the file they find
\* in the frame, never move that one.
THEOREM QuitStays == Spec => QuitIsFinal
<1>1. IInv /\ [Next]_vars => [StaysQuit]_vars
  BY NextFrames DEF FramesStep
<1>. QED BY <1>1, Invariant, PTL DEF Spec, QuitIsFinal

\* CallerIsSuspended: what a CALLed file does -- chaining to others, jumping,
\* failing to load, ending -- leaves the frames under it open, and as they were
\* unless they were cancelled.
THEOREM CallersWait == Spec => CallerIsSuspended
<1>1. IInv /\ [Next]_vars => [CallersKept]_vars
  BY NextFrames DEF FramesStep
<1>. QED BY <1>1, Invariant, PTL DEF Spec, CallerIsSuspended
-----------------------------------------------------------------------------
(* How far the line number of a frame may be behind its position. *)

\* x is a frame, or an activation that saved the position of one.
Behind(x, k) == x.lOffset - x.uBatchLine \in 0 .. k

FramesBehind(frames, n, k) ==
  \A b \in 0 .. n : frames[b].lOffset >= 0 => Behind(frames[b], k)
ActsBehind(acts, n, k) == \A i \in 1 .. n : Behind(acts[i], k)

\* Each ^C may lose the count of one line: the position moves in getline() and
\* goto_label() before the line is counted.
LinesBehind == FramesBehind(bframe, bn, Breaks - breaks)

LinesOK == LinesBehind /\ ActsBehind(act, depth, Breaks - breaks)

\* ^C is pressed once in a step, or not at all.
LEMMA BreaksStep ==
  ASSUME IInv, [Next]_vars
  PROVE  breaks' \in {breaks, breaks - 1} /\ breaks \in 0 .. Breaks /\ breaks' \in 0 .. Breaks
<1>1. breaks \in 0 .. Breaks /\ breaks' \in 0 .. Breaks
  BY NextStep DEF IInv, TypeOK, OutsideType
<1>2. breaks' \in {breaks, breaks - 1}
  BY DEF Next, vars, outside, Interrupt, Prompt, PromptRestores, Batch, BatchTooDeep,
         BatchStarts, BatchLoadFails, Processor, Reboot, BatchReturned, GosubReturned,
         BatchCLI, CLIFinished, CLIOnError, CLIOnBreak, CLIAnswerNo, CLIAnswerYes,
         CLICancelAll, CLIBreak, CLIBreakClosing, CLIMissing, CLIEof, CLIRead,
         CLINoFrame, ReturnNoFrame, Command, CmdLabel, CmdStackOverflow, CmdSkip,
         CmdEndDo, CmdIf, CmdIff, CmdUsage, CmdElse, CmdBreak, CmdUnknown, CmdExternal,
         CmdBatch, CmdOn, CmdGoto, CmdNoLabel, CmdJumpMissing, CmdJumpBroken, CmdGosub,
         CmdGosubTooDeep, CmdReturn, CmdQuit, CmdDo, DoBreak, DoIterate, DoError,
         DoReturned, DoReturnedCancelled, DoReturnedGone, DoReturnedNext,
         DoReturnedUntil, DoReturnedError
<1>. QED BY <1>1, <1>2

\* What is at most j lines behind is at most k behind, for a larger k.
LEMMA BehindGrows ==
  ASSUME NEW j \in Nat, NEW k \in Nat, j <= k
  PROVE  /\ \A x : Behind(x, j) => Behind(x, k)
         /\ FramesBehind(bframe, bn, j) => FramesBehind(bframe, bn, k)
         /\ ActsBehind(act, depth, j) => ActsBehind(act, depth, k)
<1>1. \A x : Behind(x, j) => Behind(x, k)
  BY DEF Behind
<1>. QED BY <1>1 DEF FramesBehind, ActsBehind

\* A frame is what changes, if anything.
LEMMA FrameBehind ==
  ASSUME IInv, bn >= 0, bn' = bn, NEW k \in Nat, FramesBehind(bframe, bn, k),
         NEW fr, bframe' = [bframe EXCEPT ![bn] = fr], fr.lOffset >= 0 => Behind(fr, k)
  PROVE  FramesBehind(bframe', bn', k)
<1>1. /\ bn \in 0 .. MAXBATCH - 1
      /\ \A b \in 0 .. bn : b # bn => bframe'[b] = bframe[b]
      /\ bframe'[bn] = fr
  BY DEF IInv, TypeOK, FramesType
<1>. QED BY <1>1 DEF FramesBehind, Behind

LEMMA CancelledBehind ==
  ASSUME IInv, bn' = bn, NEW k \in Nat, FramesBehind(bframe, bn, k), NEW P,
         bframe' = [b \in DOMAIN bframe |->
                      IF b \in P THEN [bframe[b] EXCEPT !.lOffset = -1] ELSE bframe[b]]
  PROVE  FramesBehind(bframe', bn', k)
<1>1. /\ bn \in -1 .. MAXBATCH - 1
      /\ \A b \in 0 .. MAXBATCH - 1 : bframe[b] \in FrameSet
      /\ \A b \in 0 .. MAXBATCH - 1 :
           bframe'[b] = IF b \in P THEN [bframe[b] EXCEPT !.lOffset = -1] ELSE bframe[b]
  BY DEF IInv, TypeOK, FramesType
<1>2. ASSUME NEW f \in FrameSet PROVE [f EXCEPT !.lOffset = -1].lOffset = -1
  BY DEF FrameSet
<1>3. \A b \in 0 .. bn : b \in 0 .. MAXBATCH - 1
  BY <1>1, LimitsAssumption
<1>4. \A b \in 0 .. bn : bframe'[b].lOffset = -1 \/ bframe'[b] = bframe[b]
  BY <1>1, <1>2, <1>3
<1>5. ASSUME NEW b \in 0 .. bn, bframe'[b].lOffset >= 0
      PROVE  bframe'[b] = bframe[b]
  <2>1. bframe'[b].lOffset # -1
    BY ONLY <1>5
  <2>. QED BY <1>4, <2>1, Zenon
<1>. QED BY <1>5 DEF FramesBehind, Behind

\* The C stack: an activation saves the position of the frame in use, and keeps it.
LEMMA ActsKept ==
  ASSUME IInv, NEW k \in Nat, ActsBehind(act, depth, k),
         \/ UNCHANGED cstack
         \/ Pop /\ depth > 0
         \/ \E n : depth' = depth /\ act' = [act EXCEPT ![depth].n = n]
         \/ depth' = depth /\ act' = [act EXCEPT ![depth].leaving = TRUE]
         \/ depth' = 0
  PROVE  ActsBehind(act', depth', k)
<1>1. depth \in 0 .. StackLimit /\ act \in [1 .. StackLimit -> ActSet]
  BY DEF IInv, TypeOK, StackType
<1>2. CASE UNCHANGED cstack
  BY <1>2 DEF cstack, ActsBehind, Behind
<1>3. CASE Pop /\ depth > 0
  BY <1>1, <1>3 DEF Pop, ActsBehind, Behind
<1>4. CASE \E n : depth' = depth /\ act' = [act EXCEPT ![depth].n = n]
  <2>1. PICK n : depth' = depth /\ act' = [act EXCEPT ![depth].n = n]
    BY <1>4
  <2>2. ASSUME NEW i \in 1 .. depth
        PROVE  act'[i].lOffset = act[i].lOffset /\ act'[i].uBatchLine = act[i].uBatchLine
    BY <1>1, <2>1 DEF ActSet
  <2>. QED BY <2>1, <2>2 DEF ActsBehind, Behind
<1>5. CASE depth' = depth /\ act' = [act EXCEPT ![depth].leaving = TRUE]
  <2>1. ASSUME NEW i \in 1 .. depth
        PROVE  act'[i].lOffset = act[i].lOffset /\ act'[i].uBatchLine = act[i].uBatchLine
    BY <1>1, <1>5 DEF ActSet
  <2>. QED BY <1>5, <2>1 DEF ActsBehind, Behind
<1>6. CASE depth' = 0
  BY <1>6 DEF ActsBehind
<1>. QED BY <1>2, <1>3, <1>4, <1>5, <1>6

LEMMA ActPushed ==
  ASSUME IInv, NEW k \in Nat, ActsBehind(act, depth, k), depth < StackLimit,
         NEW a \in ActSet, Push(a), Behind(a, k)
  PROVE  ActsBehind(act', depth', k)
<1>1. Top' = a /\ \A i \in 1 .. depth : act'[i] = act[i]
  BY PushCount DEF IInv, TypeOK
<1>2. depth \in Nat /\ depth' = depth + 1
  BY DEF IInv, TypeOK, StackType, Push
<1>. QED BY <1>1, <1>2 DEF ActsBehind, Behind, Top

\* The stack is the same, is popped, or an activation of DO goes on.
LEMMA StackKept ==
  ASSUME IInv, NEW k \in Nat, ActsBehind(act, depth, k), [Next]_vars,
         ~CmdDo, ~CmdGosub, ~\E f, call : BatchStarts(f, call)
  PROVE  ActsBehind(act', depth', k)
<1>1. CASE \/ PromptRestores \/ CLIFinished \/ CLIOnError \/ CLIOnBreak \/ CLIAnswerNo
           \/ CLIAnswerYes \/ CLICancelAll \/ CLIBreak \/ CLIBreakClosing \/ CLIMissing
           \/ CLIEof \/ CLIRead \/ CLINoFrame \/ ReturnNoFrame \/ CmdLabel
           \/ CmdStackOverflow \/ CmdSkip \/ CmdEndDo \/ CmdIf \/ CmdIff \/ CmdUsage
           \/ CmdElse \/ CmdBreak \/ CmdUnknown \/ CmdExternal \/ CmdOn \/ CmdGoto
           \/ CmdNoLabel \/ CmdJumpMissing \/ CmdJumpBroken \/ CmdGosubTooDeep
           \/ CmdReturn \/ CmdQuit \/ DoReturnedNext \/ BatchTooDeep
           \/ (\E f, call : BatchLoadFails(f, call)) \/ UNCHANGED vars
  <2>1. UNCHANGED cstack
    BY <1>1 DEF PromptRestores, CLIFinished, CLIOnError, CLIOnBreak, CLIAnswerNo,
           CLIAnswerYes, CLICancelAll, CLIBreak, CLIBreakClosing, CLIMissing,
           CLIEof, CLIRead, CLINoFrame, ReturnNoFrame, CmdLabel,
           CmdStackOverflow, CmdSkip, CmdEndDo, CmdIf, CmdIff, CmdUsage,
           CmdElse, CmdBreak, CmdUnknown, CmdExternal, CmdOn, CmdGoto,
           CmdNoLabel, CmdJumpMissing, CmdJumpBroken, CmdGosubTooDeep,
           CmdReturn, CmdQuit, DoReturnedNext, BatchTooDeep, BatchLoadFails, vars, cstack
  <2>. QED BY <2>1, ActsKept
<1>2. CASE \/ BatchReturned \/ GosubReturned \/ DoBreak \/ DoError \/ DoReturnedCancelled
           \/ DoReturnedGone \/ DoReturnedError
  <2>1. Pop
    BY <1>2 DEF BatchReturned, GosubReturned, DoBreak, DoError, DoReturnedCancelled,
                DoReturnedGone, DoReturnedError, DoFinished
  <2>2. depth > 0
    <3>1. pc \in {"ret", "do"}
      BY <1>2 DEF BatchReturned, GosubReturned, DoBreak, DoError, DoReturnedCancelled,
                  DoReturnedGone, DoReturnedError, DoReturning, AtDo
    <3>. QED BY <3>1 DEF IInv, PcOK, TypeOK, StackType
  <2>. QED BY <2>1, <2>2, ActsKept
<1>3. CASE DoIterate \/ DoReturnedUntil
  BY <1>3, ActsKept DEF DoIterate, DoReturnedUntil
<1>4. CASE Reboot
  BY <1>4, ActsKept DEF Reboot
<1>. QED BY <1>1, <1>2, <1>3, <1>4
         DEF Next, Prompt, Batch, Processor, BatchCLI, Command, CmdBatch, DoReturned

LEMMA StackGrows ==
  ASSUME IInv, NEW k \in Nat, LinesOK, k = Breaks - breaks, [Next]_vars,
         CmdDo \/ CmdGosub \/ \E f, call : BatchStarts(f, call)
  PROVE  ActsBehind(act', depth', k)
<1>0. ActsBehind(act, depth, k) /\ FramesBehind(bframe, bn, k)
  BY DEF LinesOK, LinesBehind
<1>1. CASE CmdGosub
  <2>1. InCommand /\ depth < StackLimit
    BY <1>1, RunsInCommand, LimitsAssumption
       DEF CmdGosub, Runs, Execs, Live, StackFull, IInv, TypeOK, StackType
  <2>2. Behind(Frame, k)
    BY <1>0, <2>1, CommandFacts DEF FramesBehind, Frame
  <2>3. GosubCall.lOffset = Frame.lOffset /\ GosubCall.uBatchLine = Frame.uBatchLine
    BY DEF GosubCall, NewAct
  <2>. QED BY <1>0, <1>1, <2>1, <2>2, <2>3, GosubCallType, ActPushed DEF CmdGosub, Behind
<1>2. CASE CmdDo
  <2> DEFINE a == [NewAct("Do") EXCEPT !.name = Frame.pszBatchName,
                                       !.lOffset = Frame.lOffset,
                                       !.uBatchLine = Frame.uBatchLine,
                                       !.flags = Parsed,
                                       !.current = [Parsed EXCEPT !.do = Bump(@)],
                                       !.type = cmd.arg,
                                       !.n = cmd.n]
  <2>1. InCommand /\ depth < StackLimit /\ Push(a)
    BY <1>2, RunsInCommand, LimitsAssumption
       DEF CmdDo, Runs, Execs, Live, StackFull, IInv, TypeOK, StackType
  <2>2. Behind(Frame, k)
    BY <1>0, <2>1, CommandFacts DEF FramesBehind, Frame
  <2>3. a.lOffset = Frame.lOffset /\ a.uBatchLine = Frame.uBatchLine
    BY DEF NewAct
  <2> HIDE DEF a
  <2>4. a \in ActSet
    <3>1. StackType'
      BY NextStep DEF IInv, TypeOK
    <3>2. act'[depth + 1] = a /\ depth' = depth + 1
      <4>1. depth + 1 \in 1 .. StackLimit /\ act \in [1 .. StackLimit -> ActSet]
        BY <2>1, LimitsAssumption DEF IInv, TypeOK, StackType
      <4>. QED BY <2>1, <4>1 DEF Push
    <3>. QED BY <2>1, <3>1, <3>2 DEF StackType, IInv, TypeOK
  <2>. QED BY <1>0, <2>1, <2>2, <2>3, <2>4, ActPushed DEF Behind
<1>3. CASE \E f, call : BatchStarts(f, call)
  <2>1. PICK f, call : BatchStarts(f, call)
    BY <1>3
  <2>2. CASE Chains(call)
    BY <1>0, <2>1, <2>2, ActsKept DEF BatchStarts
  <2>3. CASE ~Chains(call)
    <3>1. Push(NewAct("Batch"))
      BY <2>1, <2>3 DEF BatchStarts
    <3>2. NewAct("Batch") \in ActSet /\ Behind(NewAct("Batch"), k)
      <4>1. NewAct("Batch") \in ActSet
        BY NewActType DEF IInv, TypeOK, PointType
      <4>. QED BY <4>1 DEF Behind, NewAct
    <3>3. depth < StackLimit
      BY <3>1, NextStep, LimitsAssumption DEF Push, IInv, TypeOK, StackType
    <3>. QED BY <1>0, <3>1, <3>2, <3>3, ActPushed
  <2>. QED BY <2>2, <2>3
<1>. QED BY <1>1, <1>2, <1>3

\* getline() counts the line it has read, unless ^C comes in between; a label
\* found is counted up to; GOSUB and DO put back what they saved.
LEMMA ReadBehind ==
  ASSUME IInv, NEW k \in Nat, FramesBehind(bframe, bn, k),
         \/ CLIRead
         \/ CLIBreak /\ FramesBehind(bframe, bn, k - 1) /\ k > 0
  PROVE  FramesBehind(bframe', bn', k)
<1>1. bn >= 0 /\ bn \in 0 .. MAXBATCH - 1 /\ bn' = bn /\ Frame \in FrameSet /\ Frame.lOffset >= 0
  BY FrameType DEF CLIRead, CLIBreak, AtLoop, IInv, TypeOK, FramesType
<1>2. /\ Frame.lOffset \in Nat /\ Frame.uBatchLine \in Nat
      /\ Frame.lOffset - Frame.uBatchLine \in 0 .. k
  BY <1>1 DEF FrameSet, FramesBehind, Behind, Frame
<1>3. CASE CLIRead
  <2> DEFINE fr == Seek(Frame, Frame.lOffset + 1, Frame.uBatchLine + 1)
  <2>1. bframe' = [bframe EXCEPT ![bn] = fr]
    BY <1>3 DEF CLIRead, Frame
  <2>2. fr.lOffset = Frame.lOffset + 1 /\ fr.uBatchLine = Frame.uBatchLine + 1
    BY <1>1 DEF Seek, FrameSet
  <2> HIDE DEF fr
  <2>3. Behind(fr, k)
    BY <1>2, <2>2 DEF Behind
  <2>. QED BY <1>1, <2>1, <2>3, FrameBehind
<1>4. CASE CLIBreak /\ FramesBehind(bframe, bn, k - 1) /\ k > 0 /\ bframe' # bframe
  <2> DEFINE fr == [Frame EXCEPT !.lOffset = @ + 1]
  <2>1. bframe' = [bframe EXCEPT ![bn] = fr]
    BY <1>4 DEF CLIBreak, Frame
  <2>2. fr.lOffset = Frame.lOffset + 1 /\ fr.uBatchLine = Frame.uBatchLine
    BY <1>1 DEF FrameSet
  <2>3. Frame.lOffset - Frame.uBatchLine \in 0 .. k - 1 /\ k > 0
    BY <1>1, <1>4 DEF FramesBehind, Behind, Frame
  <2> HIDE DEF fr
  <2>4. Behind(fr, k)
    BY <1>2, <2>2, <2>3 DEF Behind
  <2>. QED BY <1>1, <2>1, <2>4, FrameBehind
<1>5. CASE UNCHANGED <<bn, bframe>>
  BY <1>5 DEF FramesBehind, Behind
<1>. QED BY <1>1, <1>3, <1>4, <1>5

LEMMA LeftAtLine ==
  ASSUME IInv, InCommand, NEW off \in Nat, NEW line \in Nat
  PROVE  LeftAt(off, line).lOffset = off /\ LeftAt(off, line).uBatchLine = line
<1>1. Seek(Frame, off, line).lOffset = off /\ Seek(Frame, off, line).uBatchLine = line
  BY CommandFacts DEF Seek, FrameSet
<1>. QED BY <1>1 DEF LeftAt

\* A GOTO or GOSUB that fails stops at the end, or where it was.
LEMMA FailedJumpsBehind ==
  ASSUME IInv, NEW k \in Nat, FramesBehind(bframe, bn, k),
         \/ CmdNoLabel \/ CmdJumpMissing \/ CmdGosubTooDeep
         \/ CmdJumpBroken /\ k > 0
  PROVE  FramesBehind(bframe', bn', k)
<1>1. InCommand /\ bn' = bn
  BY RunsInCommand DEF CmdNoLabel, CmdJumpMissing, CmdGosubTooDeep, CmdJumpBroken
<1>2. /\ bn >= 0 /\ bn \in 0 .. MAXBATCH - 1 /\ Eof \in Nat /\ Frame \in FrameSet
      /\ Frame.lOffset \in Nat /\ Frame.uBatchLine \in Nat /\ LabelAt(cmd.arg) \in Nat
  BY <1>1, CommandFacts, LabelAtType DEF IInv, FrameSet
<1>3. Frame.lOffset - Frame.uBatchLine \in 0 .. k
  BY <1>2 DEF FramesBehind, Behind, Frame
<1>4. PICK off \in Nat, line \in Nat :
        bframe' = [bframe EXCEPT ![bn] = LeftAt(off, line)] /\ off - line \in 0 .. k
  <2>0. Eof - Eof \in 0 .. k /\ LabelAt(cmd.arg) - LabelAt(cmd.arg) \in 0 .. k
    BY <1>2
  <2>1. CASE CmdNoLabel
    BY <1>2, <2>0, <2>1, Zenon DEF CmdNoLabel
  <2>2. CASE CmdJumpMissing
    BY <1>2, <1>3, <2>2, Zenon DEF CmdJumpMissing
  <2>3. CASE CmdGosubTooDeep
    BY <1>2, <2>0, <2>3, Zenon DEF CmdGosubTooDeep
  <2>4. CASE CmdJumpBroken /\ k > 0
    <3>1. PICK off \in 0 .. LabelAt(cmd.arg) : \E line \in {off, off - 1} \cap Nat :
            bframe' = [bframe EXCEPT ![bn] = LeftAt(off, line)]
      BY <2>4 DEF CmdJumpBroken
    <3>2. PICK line \in {off, off - 1} \cap Nat :
            bframe' = [bframe EXCEPT ![bn] = LeftAt(off, line)]
      BY <3>1
    <3>3. off \in Nat /\ line \in Nat /\ off - line \in 0 .. k
      BY <1>2, <2>4
    <3>. QED BY <3>2, <3>3, Zenon
  <2>. QED BY <2>1, <2>2, <2>3, <2>4
<1>5. Behind(LeftAt(off, line), k)
  BY <1>1, <1>4, LeftAtLine DEF Behind
<1>. QED BY <1>1, <1>2, <1>4, <1>5, FrameBehind

\* One that succeeds stands behind the label.
LEMMA JumpsBehind ==
  ASSUME IInv, NEW k \in Nat, FramesBehind(bframe, bn, k), CmdGoto \/ CmdGosub
  PROVE  FramesBehind(bframe', bn', k)
<1> DEFINE at == LabelAt(cmd.arg)
           to == Seek(Frame, at, at)
<1>1. InCommand /\ bn' = bn
  BY RunsInCommand DEF CmdGoto, CmdGosub
<1>2. bn >= 0 /\ bn \in 0 .. MAXBATCH - 1 /\ Frame \in FrameSet /\ at \in Nat
  BY <1>1, CommandFacts, LabelAtType DEF IInv
<1>3. to.lOffset = at /\ to.uBatchLine = at
  BY <1>2 DEF Seek, FrameSet
<1>4. Behind(to, k)
  BY <1>2, <1>3 DEF Behind
<1>5. CASE CmdGoto
  <2>1. bframe' = [bframe EXCEPT ![bn] = to]
    BY <1>5 DEF CmdGoto, Frame
  <2> HIDE DEF to
  <2>. QED BY <1>1, <1>2, <1>4, <2>1, FrameBehind
<1>6. CASE CmdGosub
  <2> DEFINE fr == Entered(at, TakesArgs(cmd.arg))
  <2>1. bframe' = [bframe EXCEPT ![bn] = fr]
    BY <1>6 DEF CmdGosub
  <2>2. fr.lOffset = to.lOffset /\ fr.uBatchLine = to.uBatchLine
    BY DEF Entered
  <2> HIDE DEF fr, to
  <2>3. Behind(fr, k)
    BY <1>4, <2>2 DEF Behind
  <2>. QED BY <1>1, <1>2, <2>1, <2>3, FrameBehind
<1>. QED BY <1>5, <1>6

\* Do_Cmd() and Gosub_Cmd() go back to what they saved.
LEMMA RewoundBehind ==
  ASSUME IInv, NEW k \in Nat, FramesBehind(bframe, bn, k), ActsBehind(act, depth, k),
         DoIterate \/ DoError \/ DoReturnedUntil \/ GosubReturned
  PROVE  FramesBehind(bframe', bn', k)
<1>1. bn >= 0 /\ bn \in 0 .. MAXBATCH - 1 /\ bn' = bn /\ depth \in 1 .. StackLimit
  <2>1. pc # "prompt" /\ bn >= 0 /\ bn' = bn
    BY DEF DoIterate, DoError, DoReturnedUntil, GosubReturned, AtDo, DoReturning
  <2>2. depth # 0 /\ depth \in 0 .. StackLimit /\ bn \in -1 .. MAXBATCH - 1
    BY <2>1 DEF IInv, PcOK, TypeOK, FramesType, StackType
  <2>. QED BY <2>1, <2>2, LimitsAssumption
<1>2. Frame \in FrameSet /\ Top \in ActSet /\ Behind(Top, k)
  BY <1>1, FrameType DEF IInv, TypeOK, StackType, Top, ActsBehind
<1>3. Frame.lOffset >= 0 => Behind(Frame, k)
  BY <1>1 DEF FramesBehind, Frame
<1>4. Rewound(Frame).lOffset = Top.lOffset /\ Rewound(Frame).uBatchLine = Top.uBatchLine
  BY <1>2 DEF Rewound, Seek, FrameSet
<1>5. Behind(Rewound(Frame), k)
  BY <1>2, <1>4 DEF Behind
<1>6. CASE DoIterate \/ DoError \/ DoReturnedUntil
  <2>1. bframe' = [bframe EXCEPT ![bn] = Rewound(Frame)]
    BY <1>6 DEF DoIterate, DoError, DoReturnedUntil, Frame
  <2>. QED BY <1>1, <1>5, <2>1, FrameBehind
<1>7. CASE GosubReturned
  <2> DEFINE moved == CASE GosubCancelled -> [Frame EXCEPT !.lOffset = -1]
                        [] GosubResumes   -> Rewound(Frame)
                        [] OTHER          -> Frame
             fr == [moved EXCEPT !.uGosubStack = IF Frame.pszGosubArgs
                                                   THEN (@ + UIntMod - 1) % UIntMod ELSE @,
                                 !.pszGosubArgs = Top.args]
  <2>1. bframe' = [bframe EXCEPT ![bn] = fr]
    BY <1>7 DEF GosubReturned
  <2>2. moved.lOffset >= 0 => Behind(moved, k)
    <3>1. [Frame EXCEPT !.lOffset = -1].lOffset = -1
      BY <1>2 DEF FrameSet
    <3>2. moved \in {[Frame EXCEPT !.lOffset = -1], Rewound(Frame), Frame}
      BY Zenon
    <3>3. ~(-1 >= 0)
      OBVIOUS
    <3> HIDE DEF moved
    <3>. QED BY <1>3, <1>5, <3>1, <3>2, <3>3, Zenon
  <2> HIDE DEF moved
  <2>3. fr.lOffset = moved.lOffset /\ fr.uBatchLine = moved.uBatchLine
    OBVIOUS
  <2> HIDE DEF fr
  <2>4. fr.lOffset >= 0 => Behind(fr, k)
    BY <2>2, <2>3 DEF Behind
  <2>. QED BY <1>1, <2>1, <2>4, FrameBehind
<1>. QED BY <1>6, <1>7

\* QUIT, CANCEL, RETURN, ON and the answers to ^C do not move a file forward.
LEMMA PlainBehind ==
  ASSUME IInv, NEW k \in Nat, FramesBehind(bframe, bn, k),
         \/ CLIAnswerYes \/ CLICancelAll \/ CmdQuit \/ DoReturnedCancelled
         \/ CmdReturn \/ CmdOn
  PROVE  FramesBehind(bframe', bn', k)
<1>1. CASE CLIAnswerYes \/ DoReturnedCancelled
  <2>1. /\ bn' = bn /\ bframe' = [bframe EXCEPT ![bn].lOffset = -1] /\ bn >= 0
    BY <1>1 DEF CLIAnswerYes, DoReturnedCancelled, DoReturning, Handling, AtLoop
  <2>2. bframe' = [bframe EXCEPT ![bn] = [Frame EXCEPT !.lOffset = -1]]
    BY <2>1 DEF Frame
  <2>3. [Frame EXCEPT !.lOffset = -1].lOffset = -1
    BY <2>1, FrameType DEF IInv, FrameSet
  <2>4. [Frame EXCEPT !.lOffset = -1].lOffset >= 0 => Behind([Frame EXCEPT !.lOffset = -1], k)
    BY <2>3
  <2>. QED BY <2>1, <2>2, <2>4, FrameBehind, Zenon
<1>2. CASE CLICancelAll
  <2> DEFINE P == {b \in DOMAIN bframe : CancelsAlso(b)}
  <2>1. bframe' = [b \in DOMAIN bframe |->
                     IF b \in P THEN [bframe[b] EXCEPT !.lOffset = -1] ELSE bframe[b]]
    BY <1>2, Zenon DEF CLICancelAll
  <2>2. bn' = bn
    BY <1>2 DEF CLICancelAll
  <2> HIDE DEF P
  <2>. QED BY <2>1, <2>2, CancelledBehind
<1>3. CASE CmdQuit
  <2> DEFINE P == {b \in DOMAIN bframe : b = bn \/ (b < bn /\ cmd.op = "cancel")}
  <2>1. bframe' = [b \in DOMAIN bframe |->
                     IF b \in P THEN [bframe[b] EXCEPT !.lOffset = -1] ELSE bframe[b]]
    BY <1>3, Zenon DEF CmdQuit
  <2>2. bn' = bn
    BY <1>3 DEF CmdQuit
  <2> HIDE DEF P
  <2>. QED BY <2>1, <2>2, CancelledBehind
<1>4. CASE CmdReturn \/ CmdOn
  <2>1. InCommand /\ bn' = bn
    BY <1>4, RunsInCommand DEF CmdReturn, CmdOn
  <2>2. bn >= 0 /\ bn \in 0 .. MAXBATCH - 1 /\ Frame \in FrameSet
    BY <2>1, CommandFacts
  <2>3. PICK fr : /\ bframe' = [bframe EXCEPT ![bn] = fr]
                  /\ fr.lOffset = Frame.lOffset /\ fr.uBatchLine = Frame.uBatchLine
    <3>1. CASE CmdOn
      <4> DEFINE fr == CASE cmd.op = "onbreak" -> [Frame EXCEPT !.pszOnBreak = cmd.arg]
                         [] cmd.op = "onerror" -> [Frame EXCEPT !.pszOnError = cmd.arg]
                         [] OTHER              -> [Frame EXCEPT !.pszOnErrorMsg = cmd.arg]
      <4>1. bframe' = [bframe EXCEPT ![bn] = fr]
        BY <3>1 DEF CmdOn, Frame
      <4>2. fr \in {[Frame EXCEPT !.pszOnBreak = cmd.arg], [Frame EXCEPT !.pszOnError = cmd.arg],
                    [Frame EXCEPT !.pszOnErrorMsg = cmd.arg]}
        BY Zenon
      <4> HIDE DEF fr
      <4>. QED BY <2>2, <4>1, <4>2 DEF FrameSet
    <3>2. CASE CmdReturn /\ bframe' = bframe
      BY <2>2, <3>2 DEF Frame, IInv, TypeOK, FramesType
    <3>3. CASE CmdReturn /\ bframe' # bframe
      BY <2>2, <3>3 DEF CmdReturn, Frame, FrameSet
    <3>. QED BY <1>4, <3>1, <3>2, <3>3
  <2>4. fr.lOffset >= 0 => Behind(fr, k)
    BY <2>2, <2>3 DEF FramesBehind, Behind, Frame
  <2>. QED BY <2>1, <2>2, <2>3, <2>4, FrameBehind
<1>. QED BY <1>1, <1>2, <1>3, <1>4

\* A new frame begins at line 0, and closing one leaves the others as they are.
LEMMA OpenedBehind ==
  ASSUME IInv, NEW k \in Nat, FramesBehind(bframe, bn, k), NEW f, NEW call,
         BatchStarts(f, call) \/ BatchLoadFails(f, call) \/ BatchReturned
  PROVE  FramesBehind(bframe', bn', k)
<1> DEFINE next == Base(call) + 1
<1>1. bn \in -1 .. MAXBATCH - 1 /\ bframe \in [0 .. MAXBATCH - 1 -> FrameSet]
  BY DEF IInv, TypeOK, FramesType
<1>2. Base(call) \in -1 .. bn /\ Exited \in -1 .. bn
  BY <1>1, LimitsAssumption DEF Base, Exited, Chains
<1>3. CASE BatchStarts(f, call)
  <2>1. /\ bn' = next /\ bframe' = [bframe EXCEPT ![next] = NewFrame(f)]
        /\ ~NestingFull
    BY <1>3 DEF BatchStarts
  <2>2. next \in 0 .. MAXBATCH - 1 /\ Base(call) = next - 1
    BY <1>1, <1>2, <2>1, LimitsAssumption DEF NestingFull
  <2>3. NewFrame(f).lOffset = 0 /\ NewFrame(f).uBatchLine = 0
    BY DEF NewFrame
  <2> HIDE DEF next
  <2>4. ASSUME NEW b \in 0 .. bn', bframe'[b].lOffset >= 0
        PROVE  Behind(bframe'[b], k)
    <3>1. CASE b = next
      <4>1. bframe'[b] = NewFrame(f)
        BY <1>1, <2>1, <2>2, <3>1
      <4>. QED BY <2>3, <4>1 DEF Behind
    <3>2. CASE b # next
      <4>1. bframe'[b] = bframe[b] /\ b \in 0 .. bn
        BY <1>1, <1>2, <2>1, <2>2, <3>2
      <4>. QED BY <2>4, <4>1 DEF FramesBehind
    <3>. QED BY <3>1, <3>2
  <2>. QED BY <2>4 DEF FramesBehind
<1>4. CASE BatchLoadFails(f, call)
  <2>1. /\ bn' = Base(call) /\ bframe' = [bframe EXCEPT ![next] = NoFrame]
    BY <1>4 DEF BatchLoadFails, Without
  <2>2. \A b \in 0 .. bn' : b \in 0 .. bn /\ bframe'[b] = bframe[b]
    BY <1>1, <1>2, <2>1, LimitsAssumption
  <2>. QED BY <2>2 DEF FramesBehind
<1>5. CASE BatchReturned
  <2>1. /\ bn' = Exited
        /\ bframe' = IF bn < 0 THEN bframe ELSE [bframe EXCEPT ![bn] = NoFrame]
    BY <1>5 DEF BatchReturned, Without
  <2>2. \A b \in 0 .. bn' : b \in 0 .. bn /\ bframe'[b] = bframe[b]
    BY <1>1, <2>1, LimitsAssumption DEF Exited
  <2>. QED BY <2>2 DEF FramesBehind
<1>. QED BY <1>3, <1>4, <1>5

LEMMA StillBehind ==
  ASSUME IInv, NEW k \in Nat, FramesBehind(bframe, bn, k),
         \/ PromptRestores \/ CLIFinished \/ CLIOnError \/ CLIOnBreak \/ CLIAnswerNo
         \/ CLIBreakClosing \/ CLIMissing \/ CLIEof \/ CLINoFrame \/ ReturnNoFrame
         \/ CmdLabel \/ CmdStackOverflow \/ CmdSkip \/ CmdEndDo \/ CmdIf \/ CmdIff
         \/ CmdUsage \/ CmdElse \/ CmdBreak \/ CmdUnknown \/ CmdExternal \/ CmdDo
         \/ BatchTooDeep \/ DoBreak \/ DoReturnedGone \/ DoReturnedNext
         \/ DoReturnedError \/ Reboot \/ UNCHANGED vars
  PROVE  FramesBehind(bframe', bn', k)
<1>1. CASE Reboot
  BY <1>1 DEF Reboot, FramesBehind
<1>2. CASE ~Reboot
  <2>1. UNCHANGED <<bn, bframe>>
    BY <1>2 DEF PromptRestores, CLIFinished, CLIOnError, CLIOnBreak, CLIAnswerNo,
           CLIBreakClosing, CLIMissing, CLIEof, CLINoFrame, ReturnNoFrame,
           CmdLabel, CmdStackOverflow, CmdSkip, CmdEndDo, CmdIf, CmdIff,
           CmdUsage, CmdElse, CmdBreak, CmdUnknown, CmdExternal, CmdDo,
           BatchTooDeep, DoBreak, DoReturnedGone, DoReturnedNext,
           DoReturnedError, vars
  <2>. QED BY <2>1
<1>. QED BY <1>1, <1>2

LEMMA BreakCounts ==
  ASSUME IInv, CLIBreak \/ CmdJumpBroken
  PROVE  breaks' = breaks - 1
BY DEF CLIBreak, CmdJumpBroken, Interrupt

LEMMA FramesStayBehind ==
  ASSUME IInv, LinesOK, [Next]_vars, NEW k \in Nat, k = Breaks - breaks'
  PROVE  FramesBehind(bframe', bn', k)
<1>1. PICK j \in Nat : j = Breaks - breaks /\ j <= k /\ (breaks' = breaks - 1 => j = k - 1 /\ k > 0)
  BY BreaksStep, SwitchesAssumption
<1>2. FramesBehind(bframe, bn, j) /\ ActsBehind(act, depth, j)
  BY <1>1 DEF LinesOK, LinesBehind
<1>3. FramesBehind(bframe, bn, k) /\ ActsBehind(act, depth, k)
  BY <1>1, <1>2, BehindGrows
<1>4. CASE CLIBreak \/ CmdJumpBroken
  <2>1. FramesBehind(bframe, bn, k - 1) /\ k > 0
    BY <1>1, <1>2, <1>4, BreakCounts
  <2>. QED BY <1>3, <1>4, <2>1, ReadBehind, FailedJumpsBehind
<1>5. CASE CLIRead \/ CmdNoLabel \/ CmdJumpMissing \/ CmdGosubTooDeep
  BY <1>3, <1>5, ReadBehind, FailedJumpsBehind
<1>6. CASE CmdGoto \/ CmdGosub
  BY <1>3, <1>6, JumpsBehind
<1>7. CASE DoIterate \/ DoError \/ DoReturnedUntil \/ GosubReturned
  BY <1>3, <1>7, RewoundBehind
<1>8. CASE \/ CLIAnswerYes \/ CLICancelAll \/ CmdQuit \/ DoReturnedCancelled
           \/ CmdReturn \/ CmdOn
  BY <1>3, <1>8, PlainBehind
<1>9. CASE (\E f, call : BatchStarts(f, call) \/ BatchLoadFails(f, call)) \/ BatchReturned
  BY <1>3, <1>9, OpenedBehind
<1>10. CASE \/ PromptRestores \/ CLIFinished \/ CLIOnError \/ CLIOnBreak \/ CLIAnswerNo
            \/ CLIBreakClosing \/ CLIMissing \/ CLIEof \/ CLINoFrame \/ ReturnNoFrame
            \/ CmdLabel \/ CmdStackOverflow \/ CmdSkip \/ CmdEndDo \/ CmdIf \/ CmdIff
            \/ CmdUsage \/ CmdElse \/ CmdBreak \/ CmdUnknown \/ CmdExternal \/ CmdDo
            \/ BatchTooDeep \/ DoBreak \/ DoReturnedGone \/ DoReturnedNext
            \/ DoReturnedError \/ Reboot \/ UNCHANGED vars
  BY <1>3, <1>10, StillBehind
<1>. QED BY <1>4, <1>5, <1>6, <1>7, <1>8, <1>9, <1>10
         DEF Next, Prompt, Batch, Processor, BatchCLI, Command, CmdBatch, DoReturned

LEMMA LinesStep ==
  ASSUME IInv, LinesOK, [Next]_vars
  PROVE  LinesOK'
<1>1. PICK j \in Nat, k \in Nat : j = Breaks - breaks /\ k = Breaks - breaks' /\ j <= k
  BY BreaksStep, SwitchesAssumption
<1>2. FramesBehind(bframe', bn', k)
  BY <1>1, FramesStayBehind
<1>3. ActsBehind(act, depth, k)
  BY <1>1, BehindGrows DEF LinesOK
<1>4. ActsBehind(act', depth', k)
  <2>1. CASE CmdDo \/ CmdGosub \/ \E f, call : BatchStarts(f, call)
    <3>1. breaks' = breaks
      BY <2>1 DEF CmdDo, CmdGosub, BatchStarts, outside
    <3>. QED BY <1>1, <2>1, <3>1, StackGrows
  <2>2. CASE ~(CmdDo \/ CmdGosub \/ \E f, call : BatchStarts(f, call))
    BY <1>3, <2>2, StackKept
  <2>. QED BY <2>1, <2>2
<1>. QED BY <1>1, <1>2, <1>4 DEF LinesOK, LinesBehind

\* LinesBehind: the line number that an error message shows never runs ahead of
\* the position in the file, and falls behind it by no more lines than ^C was
\* pressed; GOSUB, DO, GOTO, CALL and chaining carry the two along together.
THEOREM LinesFallBehind == Spec => []LinesBehind
<1>1. Init => LinesOK
  BY SwitchesAssumption DEF Init, LinesOK, LinesBehind, FramesBehind, ActsBehind
<1>2. IInv /\ LinesOK /\ [Next]_vars => LinesOK'
  BY LinesStep
<1>3. LinesOK => LinesBehind
  BY DEF LinesOK
<1>. QED BY <1>1, <1>2, <1>3, Invariant, PTL DEF Spec

\* LineAgrees: when ^C is never pressed the line number is that of the line
\* being executed, in every open file.
THEOREM LinesAgree == ASSUME Breaks = 0 PROVE Spec => []LineAgrees
<1>1. IInv /\ LinesBehind => LineAgrees
  <2> SUFFICES ASSUME IInv, LinesBehind, NEW b \in 0 .. bn, bframe[b].lOffset >= 0
               PROVE  bframe[b].uBatchLine = bframe[b].lOffset
    BY DEF LineAgrees
  <2>1. breaks = 0
    BY DEF IInv, TypeOK, OutsideType
  <2>2. bframe[b].lOffset - bframe[b].uBatchLine \in 0 .. 0
    BY <2>1 DEF LinesBehind, FramesBehind, Behind
  <2>3. b \in 0 .. MAXBATCH - 1 /\ bframe[b] \in FrameSet
    BY LimitsAssumption DEF IInv, TypeOK, FramesType
  <2>. QED BY <2>2, <2>3 DEF FrameSet
<1>. QED BY <1>1, LinesFallBehind, Invariant, PTL
=============================================================================
