------------------------------- MODULE Batch -------------------------------
(***************************************************************************)
(* The batch processor of the shell: Batch(), BatchCLI() and the commands  *)
(* that move control inside and between batch files (GOSUB, RETURN, GOTO,  *)
(* DO, IFF, QUIT, CANCEL, CALL, ON), with ^C, errors and stack overflow.   *)
(*                                                                         *)
(* The program is one thread, but a recursive one: GOSUB, DO and CALL each *)
(* run a new BatchCLI() loop on the C stack, over frames (bframe[cv.bn])   *)
(* and flags (cv.f) that are global.  act[1..depth] is that C stack, the   *)
(* activations of Batch(), Gosub_Cmd() and Do_Cmd() with the locals they   *)
(* saved; the innermost one has a BatchCLI() running.  pc says where it is.*)
(*                                                                         *)
(* A batch file is a sequence of commands, one per line, and an offset in  *)
(* it is a number of lines.  The conditions of IF, IFF, WHILE and UNTIL,   *)
(* what an external command does, and ^C are the environment's choice.     *)
(***************************************************************************)
EXTENDS Flags, Integers, Sequences, FiniteSets

CONSTANTS
  Files,        \* names of batch files
  BTM,          \* those loaded whole into memory by LoadBTM()
  Lines,        \* the commands a line of a batch file can hold
  Scripts,      \* what may be on the disk: functions from Files to Seq(Lines)
  MAXBATCH,     \* how many frames bframe[] has
  GosubArgs,    \* the bound goto_label() compares uGosubStack with: 22
  INT_MAX,      \* largest int: 32767
  StackLimit,   \* activations the C stack has room for
  LoadFails,    \* whether LoadBTM() may run out of memory
  Breaks,       \* how many times ^C is pressed, at most
  NULL

\* What follows the condition on an IF line.
AfterIf(l) == [if |-> FALSE, op |-> l.op, arg |-> l.arg, n |-> l.n]

\* DO n, DO FOREVER, DO WHILE, DO UNTIL and DO x IN.
LoopTypes == {"repeat", "forever", "while", "until", "in"}
UIntMod   == 2 ^ 16      \* an unsigned int

ASSUME FilesAssumption == BTM \subseteq Files
\* A line is [if, op, arg, n]: if says that it starts with IF condition.
ASSUME LinesAssumption ==
  \A l \in Lines :
    /\ l.if \in BOOLEAN /\ l.op \in STRING /\ l.n \in Nat
    /\ AfterIf(l) \in Lines
    /\ l.op \in {"onbreak", "onerror", "onerrormsg"} => l.arg \in Lines \cup {NULL}
    /\ l.op \in {"call", "run"} => l.arg \in Files
    /\ l.op = "do" => l.arg \in LoopTypes
ASSUME ScriptsAssumption == Scripts \subseteq [Files -> Seq(Lines)]
ASSUME LimitsAssumption == /\ MAXBATCH \in Nat \ {0}
                           /\ GosubArgs \in 0 .. UIntMod - 2
                           /\ INT_MAX \in Nat \ {0}
                           /\ StackLimit \in Nat \ {0}
ASSUME SwitchesAssumption == LoadFails \in BOOLEAN /\ Breaks \in Nat

VARIABLES
  script,       \* the batch files on the disk
  deleted,      \* the ones that have been deleted since
  breaks,       \* how many more times ^C can be pressed
  bn,           \* cv.bn: index of the frame in use, -1 at the prompt
  bframe,       \* the batch frames
  flags,        \* cv.f.flag
  fException,   \* cv.fException
  gosubEnv,     \* who owns the environment variables of GOSUB level l
  act, depth,   \* the C stack
  pc,           \* where the innermost BatchCLI() is
  cmd,          \* the line command() is working on
  ret           \* what BatchCLI() returned

outside == <<script, deleted, breaks>>
cstack  == <<act, depth>>
vars    == <<script, deleted, breaks, bn, bframe, flags, fException, gosubEnv,
            act, depth, pc, cmd, ret>>

ON_ERROR == "BREAK_ON_ERROR"
OVERFLOW == "BREAK_STACK_OVERFLOW"
CTRLC    == "CTRLC"
ExceptionBits == {ON_ERROR, OVERFLOW, CTRLC}

Levels == 1 .. GosubArgs + 1

\* int++ on two's complement ints.
Increment(x) == IF x = INT_MAX THEN -INT_MAX - 1 ELSE x + 1
-----------------------------------------------------------------------------
(* Frames and activations. *)

\* memset( &bframe[cv.bn], 0, ... ), then the name.
NewFrame(f) ==
  [ pszBatchName |-> f, lOffset |-> 0, uBatchLine |-> 0,
    nGosubOffset |-> 0, pszGosubArgs |-> FALSE, uGosubStack |-> 0,
    pszOnBreak |-> NULL, pszOnError |-> NULL, pszOnErrorMsg |-> NULL ]

NoFrame == NewFrame(NULL)

\* An activation: its function, the offset and line to come back to, the flags
\* to come back with, and what else the function keeps in locals. name is an
\* observer: the batch file whose line made the call.
NewAct(fn) ==
  [ fn |-> fn, name |-> NULL, lOffset |-> 0, uBatchLine |-> 0,
    flags |-> flags, current |-> flags, args |-> FALSE,
    type |-> NULL, n |-> 0, leaving |-> FALSE ]

NoAct == [ fn |-> NULL, name |-> NULL, lOffset |-> 0, uBatchLine |-> 0,
           flags |-> NoFlags, current |-> NoFlags, args |-> FALSE,
           type |-> NULL, n |-> 0, leaving |-> FALSE ]

Frame == bframe[bn]
Top   == act[depth]
Body(f) == script[f]
Eof   == Len(Body(Frame.pszBatchName))

Push(a) == /\ depth' = depth + 1
           /\ act' = [act EXCEPT ![depth + 1] = a]

Pop == /\ depth' = depth - 1
       /\ act' = [act EXCEPT ![depth] = NoAct]

\* The lines of a frame other than the position are left alone.
Seek(fr, off, line) == [fr EXCEPT !.lOffset = off, !.uBatchLine = line]

Init ==
  /\ script \in Scripts
  /\ deleted = {}
  /\ breaks = Breaks
  /\ bn = -1
  /\ bframe = [b \in 0 .. MAXBATCH - 1 |-> NoFrame]
  /\ flags = NoFlags
  /\ fException = {}
  /\ gosubEnv = [l \in Levels |-> NULL]
  /\ act = [i \in 1 .. StackLimit |-> NoAct]
  /\ depth = 0
  /\ pc = "prompt"
  /\ cmd = NULL
  /\ ret = NULL
-----------------------------------------------------------------------------
(* error(): with an ON ERROR or ON ERRORMSG command in the current frame it *)
(* longjmps, and the command() that was running returns; without one the    *)
(* command fails and returns an error code.  Both end in BatchCLI()'s loop. *)

\* Mutant: any batch file is taken to have one.
AssumedErrorHandler == bn >= 0

HasErrorHandler == bn >= 0 /\ (Frame.pszOnError # NULL \/ Frame.pszOnErrorMsg # NULL)

Raised == IF HasErrorHandler THEN fException \cup {ON_ERROR} ELSE fException

\* BreakHandler() is called, in the middle of a DOS call: it sets cv.fException
\* and longjmps to the last setjmp().
Interrupt == /\ breaks > 0
             /\ breaks' = breaks - 1
             /\ fException' = fException \cup {CTRLC}
             /\ UNCHANGED <<script, deleted>>

Next_line == pc' = "cli" /\ cmd' = NULL /\ ret' = NULL

Fail == /\ fException' = Raised
        /\ Next_line

\* command() returned BATCH_RETURN: the loop of this BatchCLI() ends.
BatchReturn == pc' = "ret" /\ ret' = "0" /\ cmd' = NULL

\* BatchCLI() is called: its loop starts by clearing cv.fException.
CallBatchCLI == pc' = "cli" /\ fException' = {} /\ cmd' = NULL /\ ret' = NULL

\* open_batch_file(): a .BTM file in memory is always there.
Opens == Frame.pszBatchName \in BTM \/ Frame.pszBatchName \notin deleted
-----------------------------------------------------------------------------
(* Batch() and ExitBatchFile() *)

\* ExitBatchFile() leaves dead contents in the frame; here they are erased.
Without(frames, b) == [frames EXCEPT ![b] = NoFrame]

\* cv.bn-- in ExitBatchFile()
Exited == IF bn < 0 THEN bn ELSE bn - 1

\* Mutant: the first batch file does not count as CALLed.
ChainsAnyway(call) == ~call

\* A batch file run without CALL from inside another ends that one first; the
\* first file counts as CALLed.
Chains(call) == ~call /\ bn >= 0

\* Mutant: a chain ends every open file.
BaseOfAll(call) == IF Chains(call) THEN -1 ELSE bn

Base(call) == IF Chains(call) THEN Exited ELSE bn

\* Mutant: the flags are left as they are.
StaleFlags == flags

\* The DO and IFF flags a batch file or a subroutine starts with.
FreshFlags == NoFlags

NestingFull == bn >= MAXBATCH - 1

\* Batch(): too deep.
BatchTooDeep ==
  /\ NestingFull
  /\ Fail
  /\ UNCHANGED <<outside, bn, bframe, flags, cstack>>

\* Batch(): a new frame, and a BatchCLI() for it unless it replaced the old
\* one in a BatchCLI() that is running.
BatchStarts(f, call) ==
  /\ ~NestingFull
  /\ bn' = Base(call) + 1
  /\ bframe' = [bframe EXCEPT ![Base(call) + 1] = NewFrame(f)]
  /\ flags' = FreshFlags
  /\ IF Chains(call)
       THEN Next_line /\ UNCHANGED <<cstack, fException>>
       ELSE Push(NewAct("Batch")) /\ CallBatchCLI
  /\ UNCHANGED outside

\* Batch(): LoadBTM() fails, or is interrupted; ExitBatchFile() and give up.
\* In a chain the old file's frame is gone already, and cv.bn one too low.
BatchLoadFails(f, call) ==
  /\ ~NestingFull
  /\ f \in BTM /\ LoadFails
  /\ bn' = Base(call)
  /\ bframe' = Without(bframe, Base(call) + 1)
  /\ IF depth = 0
       THEN pc' = "prompt" /\ fException' = {} /\ UNCHANGED outside
       ELSE pc' = "cli" /\ (Interrupt \/ UNCHANGED <<outside, fException>>)
  /\ cmd' = NULL /\ ret' = NULL
  /\ UNCHANGED <<flags, cstack>>

Batch(f, call) == \/ BatchTooDeep
                  \/ BatchStarts(f, call)
                  \/ BatchLoadFails(f, call)

\* main(): a batch file is named at the prompt.
Prompt ==
  /\ pc = "prompt"
  /\ \E f \in Files \ deleted : Batch(f, FALSE)
  /\ UNCHANGED gosubEnv

\* ... or a deleted batch file is written again.
PromptRestores ==
  /\ pc = "prompt" /\ deleted # {}
  /\ deleted' = {}
  /\ UNCHANGED <<script, breaks, bn, bframe, flags, fException, gosubEnv, cstack, pc, cmd, ret>>

\* Batch(), once its BatchCLI() is over: ExitBatchFile(), and back to the
\* caller's BatchCLI() or to the prompt, where main() clears cv.fException.
BatchReturned ==
  /\ pc = "ret" /\ Top.fn = "Batch"
  /\ bn' = Exited
  /\ bframe' = (IF bn < 0 THEN bframe ELSE Without(bframe, bn))
  /\ flags' = Top.flags
  /\ Pop
  /\ IF depth = 1 THEN pc' = "prompt" /\ fException' = {}
                  ELSE pc' = "cli" /\ UNCHANGED fException
  /\ ret' = NULL
  /\ UNCHANGED <<outside, gosubEnv, cmd>>
-----------------------------------------------------------------------------
(* BatchCLI(): one turn of its loop. *)

AtLoop == pc = "cli" /\ bn >= 0
Handling == AtLoop /\ Frame.lOffset >= 0 /\ fException # {}

CLIRet(code) == pc' = "ret" /\ ret' = code

\* The loop condition: QUIT, CANCEL or a cancelled batch job.
CLIFinished ==
  /\ AtLoop /\ Frame.lOffset < 0
  /\ CLIRet("0")
  /\ UNCHANGED <<outside, bn, bframe, flags, fException, gosubEnv, cstack, cmd>>

\* An error with ON ERROR or ON ERRORMSG in force: run that command.
CLIOnError ==
  /\ Handling /\ OVERFLOW \notin fException /\ ON_ERROR \in fException
  /\ fException' = {}
  /\ cmd' = (IF Frame.pszOnError # NULL THEN Frame.pszOnError ELSE Frame.pszOnErrorMsg)
  /\ pc' = "handler"
  /\ UNCHANGED <<outside, bn, bframe, flags, gosubEnv, cstack, ret>>

\* ^C with ON BREAK in force: run that command.
CLIOnBreak ==
  /\ Handling /\ fException = {CTRLC}
  /\ Frame.pszOnBreak # NULL
  /\ fException' = {}
  /\ cmd' = Frame.pszOnBreak
  /\ pc' = "handler"
  /\ UNCHANGED <<outside, bn, bframe, flags, gosubEnv, cstack, ret>>

\* "Cancel batch job? (Y/N/A)" is asked, and N answered.
CLIAnswerNo ==
  /\ Handling /\ fException = {CTRLC} /\ Frame.pszOnBreak = NULL
  /\ fException' = {}
  /\ UNCHANGED <<outside, bn, bframe, flags, gosubEnv, cstack, pc, cmd, ret>>

\* Y: cancel the current batch file.
CLIAnswerYes ==
  /\ Handling /\ fException = {CTRLC} /\ Frame.pszOnBreak = NULL
  /\ fException' = {}
  /\ bframe' = [bframe EXCEPT ![bn].lOffset = -1]
  /\ flags' = NoFlags
  /\ CLIRet("CTRLC")
  /\ UNCHANGED <<outside, bn, gosubEnv, cstack, cmd>>

\* Mutant: only the current one.
CancelsCurrent(b) == b = bn

\* The frames A cancels: the current one, and every one below it.
CancelsAlso(b) == b <= bn

\* A, or the answer a stack overflow gives by itself: cancel them all.
CLICancelAll ==
  /\ Handling
  /\ \/ OVERFLOW \in fException
     \/ fException = {CTRLC} /\ Frame.pszOnBreak = NULL
  /\ fException' = {CTRLC}
  /\ bframe' = [b \in DOMAIN bframe |->
                  IF CancelsAlso(b) THEN [bframe[b] EXCEPT !.lOffset = -1] ELSE bframe[b]]
  /\ flags' = NoFlags
  /\ CLIRet("CTRLC")
  /\ UNCHANGED <<outside, bn, gosubEnv, cstack, cmd>>

\* BreakHandler() longjmps out of any DOS call, and getline() and goto_label()
\* make one after each line of a file they read from the disk.
ReadsDisk == Opens /\ Frame.pszBatchName \notin BTM

\* ^C while the next line is read: before getline() moves the position, or in
\* its _lseek(), after that and before BatchCLI() counts the line.
CLIBreak ==
  /\ AtLoop /\ Frame.lOffset >= 0 /\ fException = {}
  /\ Interrupt
  /\ \/ UNCHANGED bframe
     \/ /\ ReadsDisk /\ Frame.lOffset < Eof
        /\ bframe' = [bframe EXCEPT ![bn].lOffset = @ + 1]
  /\ UNCHANGED <<bn, flags, gosubEnv, cstack, pc, cmd, ret>>

\* ^C while the file is closed, on the way out of BatchCLI().
CLIBreakClosing ==
  /\ pc = "ret" /\ bn >= 0 /\ ret = "0" /\ ReadsDisk
  /\ Interrupt
  /\ ret' = "CTRLC"
  /\ UNCHANGED <<bn, bframe, flags, gosubEnv, cstack, pc, cmd>>

\* open_batch_file() fails: the file has been deleted; error() may longjmp
\* into this very loop.
CLIMissing ==
  /\ AtLoop /\ Frame.lOffset >= 0 /\ fException = {}
  /\ ~Opens
  /\ fException' = Raised
  /\ IF HasErrorHandler THEN UNCHANGED <<pc, ret>> ELSE CLIRet("0")
  /\ UNCHANGED <<outside, bn, bframe, flags, gosubEnv, cstack, cmd>>

\* getline() returned 0: end of file.
CLIEof ==
  /\ AtLoop /\ Frame.lOffset >= 0 /\ fException = {}
  /\ Opens /\ Frame.lOffset >= Eof
  /\ CLIRet("0")
  /\ UNCHANGED <<outside, bn, bframe, flags, fException, gosubEnv, cstack, cmd>>

\* getline() returned a line.
CLIRead ==
  /\ AtLoop /\ Frame.lOffset >= 0 /\ fException = {}
  /\ Opens /\ Frame.lOffset < Eof
  /\ cmd' = Body(Frame.pszBatchName)[Frame.lOffset + 1]
  /\ bframe' = [bframe EXCEPT ![bn] = Seek(@, @.lOffset + 1, @.uBatchLine + 1)]
  /\ pc' = "cmd"
  /\ UNCHANGED <<outside, bn, flags, fException, gosubEnv, cstack, ret>>

\* cv.bn fell to -1 with a BatchCLI() still running: it tests bframe[-1],
\* memory that is not a frame.
CLINoFrame ==
  /\ pc = "cli" /\ bn < 0
  /\ \/ CLIRet("0")
     \/ pc' = "wild" /\ ret' = NULL
  /\ UNCHANGED <<outside, bn, bframe, flags, fException, gosubEnv, cstack, cmd>>

\* ... and a GOSUB or DO that comes back to it writes there.
ReturnNoFrame ==
  /\ pc = "ret" /\ bn < 0 /\ Top.fn # "Batch"
  /\ pc' = "wild" /\ ret' = NULL
  /\ UNCHANGED <<outside, bn, bframe, flags, fException, gosubEnv, cstack, cmd>>

BatchCLI ==
  \/ CLIFinished \/ CLIOnError \/ CLIOnBreak \/ CLIAnswerNo \/ CLIAnswerYes
  \/ CLICancelAll \/ CLIBreak \/ CLIBreakClosing \/ CLIMissing \/ CLIEof \/ CLIRead
  \/ CLINoFrame \/ ReturnNoFrame
-----------------------------------------------------------------------------
(* command(): parse the line, then execute it. *)

InCommand == pc \in {"cmd", "handler"}
StackFull == depth >= StackLimit

\* What the parsers look at: the first word of the line.
Word == IF cmd.if THEN "if" ELSE cmd.op

IsLabel == cmd.op \in {"label", "labelv"} /\ ~cmd.if

Skipped == IffSkips(flags, Word)
Parsed  == IffParsed(flags, Word)
Live    == InCommand /\ ~IsLabel /\ ~StackFull /\ ~Skipped
Execs   == Live /\ ~EndsDoBody(Parsed, Word) /\ ~DoSkips(Parsed, Word)

\* What is executed, on the flags the parsers left.
Op     == IF Parsed # flags THEN Rewritten(cmd.op) ELSE cmd.op
Runs(op) == Execs /\ ~cmd.if /\ Op = op

\* A label line is nothing to command(), whatever the flags say.
CmdLabel ==
  /\ InCommand /\ IsLabel
  /\ Next_line
  /\ UNCHANGED <<outside, bn, bframe, flags, fException, gosubEnv, cstack>>

\* CheckFreeStack() fails; error() comes before the overflow is flagged.
CmdStackOverflow ==
  /\ InCommand /\ ~IsLabel /\ StackFull
  /\ fException' = (IF HasErrorHandler THEN Raised ELSE fException \cup {OVERFLOW})
  /\ Next_line
  /\ UNCHANGED <<outside, bn, bframe, flags, gosubEnv, cstack>>

\* iff_parsing() or do_parsing() says to skip the command.
CmdSkip ==
  /\ InCommand /\ ~IsLabel /\ ~StackFull
  /\ \/ Skipped /\ flags' = Parsed
     \/ /\ ~Skipped /\ ~EndsDoBody(Parsed, Word)
        /\ DoSkips(Parsed, Word)
        /\ flags' = DoParsed(Parsed, Word)
  /\ Next_line
  /\ UNCHANGED <<outside, bn, bframe, fException, gosubEnv, cstack>>

\* ENDDO or ITERATE: back to the Do_Cmd() of this BatchCLI() -- or to
\* whichever activation it belongs to.
CmdEndDo ==
  /\ Live /\ EndsDoBody(Parsed, Word)
  /\ flags' = Parsed
  /\ BatchReturn
  /\ UNCHANGED <<outside, bn, bframe, fException, gosubEnv, cstack>>

\* IF condition command: command() again, on the rest of the line.
CmdIf ==
  /\ Execs /\ cmd.if
  /\ \/ cmd' = AfterIf(cmd) /\ UNCHANGED <<pc, ret>>
     \/ Next_line
  /\ UNCHANGED <<outside, bn, bframe, flags, fException, gosubEnv, cstack>>

CmdIff ==
  /\ Runs("iff")
  /\ \E cond \in BOOLEAN : flags' = IffExecuted(Parsed, cond)
  /\ Next_line
  /\ UNCHANGED <<outside, bn, bframe, fException, gosubEnv, cstack>>

\* IF, IFF and DO with arguments that expand to something they cannot take; what
\* ELSEIFF did to the flags stays.
CmdUsage ==
  /\ \/ Execs /\ cmd.if
     \/ Runs("iff")
     \/ Runs("do") /\ cmd.arg \in {"repeat", "in"}
  /\ flags' = Parsed
  /\ Fail
  /\ UNCHANGED <<outside, bn, bframe, gosubEnv, cstack>>

\* An ELSE whose turn has come: nothing is left of the line.
CmdElse ==
  /\ Runs("none")
  /\ flags' = Parsed
  /\ Next_line
  /\ UNCHANGED <<outside, bn, bframe, fException, gosubEnv, cstack>>

\* A word that is a command only inside an IFF or a DO, or the name of a batch
\* file that is gone.
CmdUnknown ==
  /\ \/ \E op \in {"else", "elseiff", "endiff", "enddo", "leave", "iterate"} : Runs(op)
     \/ \E op \in {"call", "run"} : Runs(op) /\ cmd.arg \in deleted
  /\ Fail
  /\ UNCHANGED <<outside, bn, bframe, flags, gosubEnv, cstack>>

\* ^C in any command before it has done anything, or once ELSE or ELSEIFF has
\* been dealt with.
CmdBreak ==
  /\ InCommand /\ ~IsLabel
  /\ Interrupt
  /\ flags' \in {flags, IF Execs THEN Parsed ELSE flags}
  /\ Next_line
  /\ UNCHANGED <<bn, bframe, gosubEnv, cstack>>

\* An external command: it succeeds, deletes a batch file, or fails.
CmdExternal ==
  /\ Runs("cmd")
  /\ \/ UNCHANGED <<fException, deleted>>
     \/ \E f \in Files : deleted' = deleted \cup {f} /\ UNCHANGED fException
     \/ fException' = Raised /\ UNCHANGED deleted
  /\ Next_line
  /\ UNCHANGED <<script, breaks, bn, bframe, flags, gosubEnv, cstack>>

\* CALL file, and a batch file run without it.
CmdBatch ==
  /\ \E op \in {"call", "run"} : Runs(op) /\ cmd.arg \notin deleted
  /\ Batch(cmd.arg, cmd.op = "call")
  /\ UNCHANGED gosubEnv

CmdOn ==
  /\ \E op \in {"onbreak", "onerror", "onerrormsg"} : Runs(op)
  /\ bframe' = [bframe EXCEPT ![bn] =
       CASE cmd.op = "onbreak" -> [@ EXCEPT !.pszOnBreak = cmd.arg]
         [] cmd.op = "onerror" -> [@ EXCEPT !.pszOnError = cmd.arg]
         [] OTHER              -> [@ EXCEPT !.pszOnErrorMsg = cmd.arg] ]
  /\ Next_line
  /\ UNCHANGED <<outside, bn, flags, fException, gosubEnv, cstack>>
-----------------------------------------------------------------------------
(* GOTO, GOSUB, RETURN, QUIT, CANCEL *)

\* goto_label(): where the label stands, or end of file.
LabelAt(name) ==
  LET body == Body(Frame.pszBatchName)
      hits == {j \in 1 .. Len(body) :
                 body[j].op \in {"label", "labelv"} /\ body[j].arg = name}
  IN  IF hits = {} THEN Eof ELSE CHOOSE j \in hits : \A k \in hits : j <= k

Found(name) == \E j \in 1 .. Eof : /\ Body(Frame.pszBatchName)[j].op \in {"label", "labelv"}
                                   /\ Body(Frame.pszBatchName)[j].arg = name

\* It returns 0 as well for a label EOF that does not exist.
Reaches(name) == Found(name) \/ name = "EOF"

\* GOTO [/I] label: the label is found. n = 1 is /I.
CmdGoto ==
  /\ Runs("goto") /\ Opens /\ Reaches(cmd.arg)
  /\ LET at == LabelAt(cmd.arg)
     IN  bframe' = [bframe EXCEPT ![bn] = Seek(@, at, at)]
  /\ IF cmd.n = 1 THEN UNCHANGED flags ELSE flags' = NoFlags
  /\ IF cmd.n # 1 /\ flags.do # 0 THEN BatchReturn ELSE Next_line
  /\ UNCHANGED <<outside, bn, fException, gosubEnv, cstack>>

\* goto_label() fails, or is interrupted: the frame as it is left. GOSUB had
\* cleared pszGosubArgs before.
LeftAt(off, line) ==
  [Seek(Frame, off, line) EXCEPT !.pszGosubArgs = @ /\ cmd.op = "goto"]

\* GOTO or GOSUB: no such label. The file has been read to its end.
CmdNoLabel ==
  /\ Runs("goto") \/ Runs("gosub")
  /\ Opens /\ ~Reaches(cmd.arg)
  /\ bframe' = [bframe EXCEPT ![bn] = LeftAt(Eof, Eof)]
  /\ Fail
  /\ UNCHANGED <<outside, bn, flags, gosubEnv, cstack>>

\* GOTO or GOSUB in an ON command, after the file was deleted.
CmdJumpMissing ==
  /\ Runs("goto") \/ Runs("gosub")
  /\ ~Opens
  /\ bframe' = [bframe EXCEPT ![bn] = LeftAt(Frame.lOffset, Frame.uBatchLine)]
  /\ fException' = Raised
  /\ IF HasErrorHandler \/ cmd.op = "goto" THEN Next_line ELSE BatchReturn
  /\ UNCHANGED <<outside, bn, flags, gosubEnv, cstack>>

\* ^C while goto_label() reads the file from its beginning: it is left where the
\* search was, before or after the line just read was counted.
CmdJumpBroken ==
  /\ Runs("goto") \/ Runs("gosub")
  /\ ReadsDisk
  /\ \E off \in 0 .. LabelAt(cmd.arg) : \E line \in {off, off - 1} \cap Nat :
       bframe' = [bframe EXCEPT ![bn] = LeftAt(off, line)]
  /\ Interrupt
  /\ Next_line
  /\ UNCHANGED <<bn, flags, gosubEnv, cstack>>

\* The label line names variables for the arguments.
TakesArgs(name) == Found(name) /\ Body(Frame.pszBatchName)[LabelAt(name)].op = "labelv"

\* The frame once Gosub_Cmd() and goto_label() have entered the subroutine.
Entered(at, args) ==
  [Seek(Frame, at, at) EXCEPT !.pszGosubArgs = args,
                              !.uGosubStack  = IF args THEN @ + 1 ELSE @,
                              !.nGosubOffset = Increment(@)]

GosubCall == [NewAct("Gosub") EXCEPT !.name = Frame.pszBatchName,
                                     !.lOffset = Frame.lOffset,
                                     !.uBatchLine = Frame.uBatchLine,
                                     !.args = Frame.pszGosubArgs]

\* GOSUB label: save where we are, and run the subroutine in a BatchCLI().
CmdGosub ==
  /\ Runs("gosub") /\ Opens /\ Reaches(cmd.arg)
  /\ TakesArgs(cmd.arg) => Frame.uGosubStack <= GosubArgs
  /\ bframe' = [bframe EXCEPT ![bn] = Entered(LabelAt(cmd.arg), TakesArgs(cmd.arg))]
  /\ gosubEnv' = IF TakesArgs(cmd.arg)
                   THEN [gosubEnv EXCEPT ![Frame.uGosubStack + 1] = bn] ELSE gosubEnv
  /\ Push(GosubCall)
  /\ flags' = FreshFlags
  /\ CallBatchCLI
  /\ UNCHANGED <<outside, bn>>

\* GOSUB with arguments, too many of them active: goto_label() fails with the
\* file already positioned at the label.
CmdGosubTooDeep ==
  /\ Runs("gosub") /\ Opens /\ Reaches(cmd.arg)
  /\ TakesArgs(cmd.arg) /\ Frame.uGosubStack > GosubArgs
  /\ bframe' = [bframe EXCEPT ![bn] = LeftAt(LabelAt(cmd.arg), LabelAt(cmd.arg))]
  /\ Fail
  /\ UNCHANGED <<outside, bn, flags, gosubEnv, cstack>>

\* Mutant: the prefix character of the next level.
UndoneNext == [l \in Levels |-> IF Frame.pszGosubArgs /\ l = Frame.uGosubStack + 1
                                  THEN NULL ELSE gosubEnv[l]]

\* UndoGosubVariables(): delete the variables of the current level.
Undone == [l \in Levels |-> IF Frame.pszGosubArgs /\ l = Frame.uGosubStack
                              THEN NULL ELSE gosubEnv[l]]

\* Mutant: the line number is not restored.
RewoundOffset(fr) == [fr EXCEPT !.lOffset = Top.lOffset]

\* Back to where the innermost GOSUB or DO was, in offset and in line number.
Rewound(fr) == Seek(fr, Top.lOffset, Top.uBatchLine)

\* Gosub_Cmd(), once its BatchCLI() is over: the batch file goes on unless it
\* was cancelled, or QUIT, meanwhile.
GosubCancelled == ret = "CTRLC" \/ fException # {}

\* Mutant: whether the file was QUIT is not looked at.
GosubResumesAlways == ~GosubCancelled

GosubResumes == ~GosubCancelled /\ Frame.lOffset >= 0

GosubReturned ==
  /\ pc = "ret" /\ Top.fn = "Gosub" /\ bn >= 0
  /\ LET moved == CASE GosubCancelled -> [Frame EXCEPT !.lOffset = -1]
                    [] GosubResumes   -> Rewound(Frame)
                    [] OTHER          -> Frame
     IN  bframe' = [bframe EXCEPT ![bn] =
              [moved EXCEPT !.uGosubStack = IF Frame.pszGosubArgs
                                              THEN (@ + UIntMod - 1) % UIntMod ELSE @,
                            !.pszGosubArgs = Top.args]]
  /\ flags' = IF GosubResumes THEN Top.flags ELSE flags
  /\ gosubEnv' = Undone
  /\ Pop
  /\ pc' = "cli" /\ ret' = NULL
  /\ UNCHANGED <<outside, bn, fException, cmd>>

CmdReturn ==
  /\ Runs("return")
  /\ IF Frame.nGosubOffset <= 0
       THEN Fail /\ UNCHANGED bframe
       ELSE /\ bframe' = [bframe EXCEPT ![bn].nGosubOffset = @ - 1]
            /\ BatchReturn /\ UNCHANGED fException
  /\ UNCHANGED <<outside, bn, flags, gosubEnv, cstack>>

\* __quit(): QUIT ends the current file, CANCEL all of them.
CmdQuit ==
  /\ Runs("quit") \/ Runs("cancel")
  /\ bframe' = [b \in DOMAIN bframe |->
       IF b = bn \/ (b < bn /\ cmd.op = "cancel")
         THEN [bframe[b] EXCEPT !.lOffset = -1] ELSE bframe[b]]
  /\ gosubEnv' = Undone
  /\ Next_line
  /\ UNCHANGED <<outside, bn, flags, fException, cstack>>
-----------------------------------------------------------------------------
(* DO *)

\* Do_Cmd() up to its loop.
CmdDo ==
  /\ Runs("do")
  /\ LET entered == [Parsed EXCEPT !.do = Bump(@)]
     IN  /\ Push([NewAct("Do") EXCEPT !.name = Frame.pszBatchName,
                                      !.lOffset = Frame.lOffset,
                                      !.uBatchLine = Frame.uBatchLine,
                                      !.flags = Parsed,
                                      !.current = entered,
                                      !.type = cmd.arg,
                                      !.n = cmd.n])
         /\ flags' = entered
  /\ pc' = "do" /\ cmd' = NULL /\ ret' = NULL
  /\ UNCHANGED <<outside, bn, bframe, fException, gosubEnv>>

AtDo == pc = "do" /\ bn >= 0

\* The tests that end the loop at its top.
DoOver == \/ fException # {} \/ flags.do = 0 \/ flags.do_leave # 0
          \/ Frame.lOffset < Top.lOffset

\* "restore previous DO state (if _do == 0, we've had a GOTO)"
DoFlags == IF flags.do # 0 THEN Top.flags ELSE flags

DoFinished == Pop /\ pc' = "cli" /\ ret' = NULL

\* Do_Cmd() breaks out of its loop.
DoBreak ==
  /\ AtDo /\ DoOver
  /\ flags' = DoFlags
  /\ DoFinished
  /\ UNCHANGED <<outside, bn, bframe, fException, gosubEnv, cmd>>

\* WhileTest(): false while whole loops are being ignored.
WhileTest(f) == IF f.do_end # 0 THEN {FALSE} ELSE BOOLEAN

\* Whether another iteration is due; when not, _do_leave makes the parser look
\* for the ENDDO.
DoMore(more) == CASE Top.type = "repeat" -> more = (Top.n > 0)
                  [] Top.type = "while"  -> more \in WhileTest(Top.current)
                  [] Top.type = "in"     -> more \in BOOLEAN
                  [] OTHER               -> more

\* Do_Cmd() rewinds to the line after the DO and runs the body.
DoIterate ==
  /\ AtDo /\ ~DoOver
  /\ \E more \in BOOLEAN :
       /\ DoMore(more)
       /\ flags' = IF more THEN Top.current
                           ELSE [Top.current EXCEPT !.do_leave = Bump(@)]
  /\ bframe' = [bframe EXCEPT ![bn] = Rewound(@)]
  /\ act' = [act EXCEPT ![depth].n = IF @ > 0 THEN @ - 1 ELSE @]
  /\ CallBatchCLI
  /\ UNCHANGED <<outside, bn, gosubEnv, depth>>

\* The expression of a WHILE is bad, or the file of an IN cannot be opened and
\* an ON ERROR command is in force (without one, IN just leaves the loop); or
\* ^C in either.
DoError ==
  /\ AtDo /\ ~DoOver
  /\ \/ /\ Top.type = "while" \/ (Top.type = "in" /\ HasErrorHandler)
        /\ fException' = Raised /\ UNCHANGED outside
     \/ Top.type \in {"while", "in"} /\ Interrupt
  /\ bframe' = [bframe EXCEPT ![bn] = Rewound(@)]
  /\ flags' = IF Top.current.do # 0 THEN Top.flags ELSE Top.current
  /\ DoFinished
  /\ UNCHANGED <<bn, gosubEnv, cmd>>

\* Do_Cmd(), once the body's BatchCLI() is over.
DoReturning == pc = "ret" /\ Top.fn = "Do" /\ bn >= 0

\* Mutant: a QUIT inside the loop is not noticed.
DoInterrupted == ret = "CTRLC" \/ fException # {}

DoCancelled == ret = "CTRLC" \/ fException # {} \/ Frame.lOffset = -1

\* The batch file was cancelled: pass it on.
DoReturnedCancelled ==
  /\ DoReturning /\ ~Top.leaving /\ DoCancelled
  /\ bframe' = [bframe EXCEPT ![bn].lOffset = -1]
  /\ flags' = DoFlags
  /\ DoFinished
  /\ UNCHANGED <<outside, bn, fException, gosubEnv, cmd>>

\* A GOTO or a chained batch file ended the loop.
DoReturnedGone ==
  /\ DoReturning /\ ~Top.leaving /\ ~DoCancelled /\ flags.do = 0
  /\ DoFinished
  /\ UNCHANGED <<outside, bn, bframe, flags, fException, gosubEnv, cmd>>

\* Otherwise on to the top of the loop, for UNTIL if its condition is false.
DoReturnedNext ==
  /\ DoReturning
  /\ \/ Top.leaving
     \/ ~DoCancelled /\ flags.do # 0 /\ (Top.type = "until" => FALSE \in WhileTest(flags))
  /\ pc' = "do" /\ ret' = NULL
  /\ UNCHANGED <<outside, bn, bframe, flags, fException, gosubEnv, cstack, cmd>>

\* UNTIL is satisfied: one more BatchCLI() over the body, just to find ENDDO.
DoReturnedUntil ==
  /\ DoReturning /\ ~Top.leaving /\ ~DoCancelled /\ flags.do # 0
  /\ Top.type = "until" /\ TRUE \in WhileTest(flags)
  /\ flags' = [flags EXCEPT !.do_leave = Bump(@)]
  /\ bframe' = [bframe EXCEPT ![bn] = Rewound(@)]
  /\ act' = [act EXCEPT ![depth].leaving = TRUE]
  /\ CallBatchCLI
  /\ UNCHANGED <<outside, bn, gosubEnv, depth>>

\* UNTIL cannot be evaluated, or is interrupted.
DoReturnedError ==
  /\ DoReturning /\ ~Top.leaving /\ ~DoCancelled /\ flags.do # 0
  /\ Top.type = "until" /\ flags.do_end = 0
  /\ Interrupt \/ (fException' = Raised /\ UNCHANGED outside)
  /\ flags' = Top.flags
  /\ DoFinished
  /\ UNCHANGED <<bn, bframe, gosubEnv, cmd>>

DoReturned == \/ DoReturnedCancelled \/ DoReturnedGone \/ DoReturnedNext
              \/ DoReturnedUntil \/ DoReturnedError
-----------------------------------------------------------------------------
Command ==
  \/ CmdLabel \/ CmdStackOverflow \/ CmdSkip \/ CmdEndDo \/ CmdIf \/ CmdIff \/ CmdUsage
  \/ CmdElse \/ CmdBreak \/ CmdUnknown \/ CmdExternal \/ CmdBatch \/ CmdOn \/ CmdGoto
  \/ CmdNoLabel \/ CmdJumpMissing \/ CmdJumpBroken \/ CmdGosub \/ CmdGosubTooDeep \/ CmdReturn
  \/ CmdQuit \/ CmdDo

\* The machine is restarted after it ran wild.
Reboot ==
  /\ pc = "wild"
  /\ UNCHANGED outside
  /\ bn' = -1
  /\ bframe' = [b \in DOMAIN bframe |-> NoFrame]
  /\ flags' = NoFlags
  /\ fException' = {}
  /\ gosubEnv' = [l \in Levels |-> NULL]
  /\ act' = [i \in DOMAIN act |-> NoAct]
  /\ depth' = 0
  /\ pc' = "prompt"
  /\ cmd' = NULL
  /\ ret' = NULL

Processor == BatchCLI \/ Command \/ DoBreak \/ DoIterate \/ DoError
             \/ DoReturned \/ GosubReturned \/ BatchReturned

Next == Prompt \/ PromptRestores \/ Processor \/ Reboot

Spec == Init /\ [][Next]_vars

\* The program keeps running; nobody has to type anything at the prompt.
FairSpec == Spec /\ WF_vars(Processor)
-----------------------------------------------------------------------------
(* What has to hold. *)

FrameSet == [ pszBatchName  : Files \cup {NULL},
              lOffset       : Nat \cup {-1},
              uBatchLine    : Nat,
              nGosubOffset  : -INT_MAX - 1 .. INT_MAX,
              pszGosubArgs  : BOOLEAN,
              uGosubStack   : 0 .. UIntMod - 1,
              pszOnBreak    : Lines \cup {NULL},
              pszOnError    : Lines \cup {NULL},
              pszOnErrorMsg : Lines \cup {NULL} ]

ActSet == [ fn : {"Batch", "Gosub", "Do", NULL}, name : Files \cup {NULL},
            lOffset : Nat, uBatchLine : Nat,
            flags : FlagSet, current : FlagSet, args : BOOLEAN,
            type : LoopTypes \cup {NULL},
            n : Nat, leaving : BOOLEAN ]

OutsideType == /\ script \in [Files -> Seq(Lines)]
               /\ deleted \subseteq Files
               /\ breaks \in 0 .. Breaks

FramesType == /\ bn \in -1 .. MAXBATCH - 1
              /\ bframe \in [0 .. MAXBATCH - 1 -> FrameSet]
              /\ gosubEnv \in [Levels -> 0 .. MAXBATCH - 1 \cup {NULL}]

StackType == /\ depth \in 0 .. StackLimit
             /\ act \in [1 .. StackLimit -> ActSet]

PointType == /\ flags \in FlagSet
             /\ fException \subseteq ExceptionBits
             /\ pc \in {"prompt", "cli", "cmd", "handler", "do", "ret", "wild"}
             /\ cmd \in Lines \cup {NULL}
             /\ ret \in {"0", "CTRLC", NULL}

\* Every variable of the processor keeps its type: the frame index stays
\* within bframe[], the bit fields within their width, the stack in its room.
TypeOK == OutsideType /\ FramesType /\ StackType /\ PointType

\* The activations of Batch(), each of which will close one frame.
BatchActs == {i \in 1 .. depth : act[i].fn = "Batch"}

\* Every open frame has one Batch() on the C stack that will close it, and
\* every such Batch() has a frame: CALL, chaining, ^C, QUIT and errors keep
\* the recursion of Batch() and cv.bn in step.
FrameBalance == bn + 1 = Cardinality(BatchActs)

\* Whenever the parser believes it is inside a DO, the BatchCLI() that runs is
\* one that Do_Cmd() called: an ENDDO or ITERATE returns to its loop, and never
\* ends a subroutine or a batch file.
EndDoHasLoop == flags.do # 0 /\ depth > 0 => Top.fn = "Do"

\* The line number in an error message is that of the line being executed, in
\* every open file, after any mix of loops, subroutines and jumps.
LineAgrees == \A b \in 0 .. bn :
                bframe[b].lOffset >= 0 => bframe[b].uBatchLine = bframe[b].lOffset

\* An error is only ever left pending for a frame that has a command to run:
\* BatchCLI() copies it without looking whether it is NULL.
HandlerDefined ==
  ON_ERROR \in fException /\ pc = "cli" =>
    bn >= 0 /\ {Frame.pszOnError, Frame.pszOnErrorMsg} # {NULL}

\* GOSUB variables live no longer than the batch job: none is left in the
\* environment at the prompt, however the subroutines were left.
NoVariablesLeft == pc = "prompt" => \A l \in Levels : gosubEnv[l] = NULL

\* A file that was QUIT or cancelled reads no more lines: nothing that unwinds
\* after that (GOSUB, DO, a handler) moves it back.
StaysQuit == \A b \in 0 .. bn :
               bframe[b].lOffset = -1 /\ b <= bn' => bframe'[b].lOffset = -1

QuitIsFinal == [][StaysQuit]_vars

\* While a CALLed file runs, its callers stay open and untouched; all it can do
\* to them is cancel them.
CallersKept == \A b \in 0 .. bn - 1 :
                 /\ b <= bn'
                 /\ bframe'[b] \in {bframe[b], [bframe[b] EXCEPT !.lOffset = -1]}

CallerIsSuspended == [][CallersKept]_vars

\* Once every file is cancelled, or the C stack is full, the processor finds
\* its way back to the prompt.
AllCancelled == bn >= 0 /\ \A b \in 0 .. bn : bframe[b].lOffset = -1
CancelEnds == (AllCancelled \/ OVERFLOW \in fException) ~> (pc = "prompt")
=============================================================================
