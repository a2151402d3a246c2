---------------------------- MODULE Redirection ----------------------------
(***************************************************************************)
(* One command line: the stages that ^, |, |&, && and || separate, and the *)
(* DOS handles that command(), redir(), open_pipe(), unredir() and         *)
(* killpipes() move about while they run.                                  *)
(*                                                                         *)
(* cmds is the C stack: the activation of command() for the line, and one  *)
(* for each command group (...) running inside it, with its REDIR_IO.      *)
(* Every DOS call is a step, because ^C can be noticed in any of them: the *)
(* calls that code without a branch makes are queued in todo.  What the    *)
(* commands do, and which DOS calls fail, is the environment's choice.     *)
(***************************************************************************)
EXTENDS Integers, Sequences, FiniteSets

CONSTANTS
  Lines,        \* the command lines: sequences of stages [op, io, sep]
  Groups,       \* what can be between the ( ) of a command group
  MaxFD,        \* how many handles the process has
  Pipes,        \* the names UniqueFileName() can make up
  Breaks,       \* how many times ^C is pressed, at most
  NULL

STDIN == 0
STDOUT == 1
STDERR == 2
Std == {STDIN, STDOUT, STDERR}
Handles == 0 .. MaxFD - 1

PipeSeps == {"|", "|&"}
CondSeps == {"&&", "||"}

\* What a redirection redirects.
Targets == [ x \in {"<", ">", ">&", ">&>"} |->
               CASE x = "<" -> {STDIN} [] x = ">" -> {STDOUT}
                 [] x = ">&" -> {STDOUT, STDERR} [] x = ">&>" -> {STDERR} ]

Stages == [op : {"cmd", "group", "iff", "else", "endiff"},
           io : Seq(DOMAIN Targets),
           sep : {"", "^"} \cup PipeSeps \cup CondSeps]

ASSUME LinesAssumption ==
  \A l \in Lines \cup Groups :
    l \in Seq(Stages) /\ \A i \in DOMAIN l : l[i].sep = "" <=> i = Len(l)
ASSUME HandlesAssumption == MaxFD \in Nat /\ Std \subseteq Handles
ASSUME BreaksAssumption == Breaks \in Nat
ASSUME NullAssumption == NULL \notin {"in", "out", "err", "file"} \cup Pipes
ASSUME PipesAssumption == Pipes \cap {"in", "out", "err", "file"} = {}

VARIABLES
  fd,           \* the handle table: the file each handle is open on, or NULL
  disk,         \* the pipe files that exist
  cmds,         \* the activations of command()
  iff,          \* cv.f: "none", or an IFF that executes ("true") or that
                \* waits for its ELSE ("else") or ENDIFF ("endiff")
  signals,      \* whether the ^C handler is enabled
  fException,   \* whether cv.fException is set
  breaks        \* how many more times ^C can be pressed

vars == <<fd, disk, cmds, iff, signals, fException, breaks>>
flow == <<iff, signals, fException, breaks>>

-----------------------------------------------------------------------------
(***************************************************************************)
(* Handles.                                                                *)
(***************************************************************************)
Free == {h \in Handles : fd[h] = NULL}
IsOpen(h) == h \in Handles /\ fd[h] # NULL

\* A handle for a new file: the lowest that is free, or -1.
NewHandle == IF Free = {} THEN -1 ELSE CHOOSE h \in Free : \A g \in Free : h <= g
Dup(h) == IF IsOpen(h) THEN NewHandle ELSE -1

With(h, file) == IF h \in Handles THEN [fd EXCEPT ![h] = file] ELSE fd
Closed(h) == With(h, NULL)

\* The calls that can be queued: f says which, h and to on what handles.
Call(f, h) == [f |-> f, h |-> h, to |-> h]
Call2(f, h, to) == [f |-> f, h |-> h, to |-> to]

\* dup_handle(old, new), whose last call is close.
DupHandle(old, new, close) ==
  (IF STDIN \in {old, new} THEN <<>> ELSE <<Call("spare", new), Call("unspare", new)>>)
    \o <<Call2("move", old, new), close>>

-----------------------------------------------------------------------------
(***************************************************************************)
(* Activations of command().                                               *)
(***************************************************************************)
NewCmd(l) ==
  [line |-> l, k |-> 1, n |-> 1, at |-> "top", then |-> NULL, todo |-> <<>>,
   empty |-> FALSE, ret |-> "0", file |-> NULL, spare |-> -1,
   naStd |-> [i \in Std |-> 0], fPipeOpen |-> FALSE, fIsPiped |-> FALSE,
   pszOutPipe |-> NULL, pszInPipe |-> NULL, entry |-> fd]

Cur == cmds[Len(cmds)]
Put(c) == cmds' = [cmds EXCEPT ![Len(cmds)] = c]
At(p) == Cur.at = p /\ Cur.todo = <<>>

Stage == Cur.line[Cur.k]
Op == IF Cur.empty THEN "empty" ELSE Stage.op
Sep == Stage.sep

\* redir() is not called for IFF, nor for what ELSE leaves of its command.
IO == IF Op \in {"cmd", "group"} THEN Stage.io ELSE <<>>

\* The loop of unredir(): calls that give every saved handle its place back.
Restores(c) ==
  LET back(i) == IF c.naStd[i] = 0 THEN <<>>
                 ELSE DupHandle(c.naStd[i], i, Call("restored", i))
  IN  back(STDIN) \o back(STDOUT) \o back(STDERR)

Unredir(c, then) == [c EXCEPT !.at = "unredir", !.then = then, !.todo = Restores(c)]

\* Mutant: the pipe is still taken for open.
BreakPiped(c) == Unredir(c, "kill")

\* break out of the loop of command().
Break(c) == Unredir([c EXCEPT !.fPipeOpen = FALSE], "kill")
Fails(c) == Break([c EXCEPT !.ret = "error"])
Aborts(c) == Break([c EXCEPT !.ret = "ctrlc"])

\* error(): with an ON ERROR it longjmps, but both ways lead out of the loop.
Error == fException' \in {fException, TRUE} /\ UNCHANGED <<iff, signals, breaks>>

\* The stage after the next command separator.
AfterSep(l, k) ==
  LET seps == {i \in k .. Len(l) : l[i].sep = "^"}
  IN  IF seps = {} THEN Len(l) + 1 ELSE 1 + (CHOOSE i \in seps : \A j \in seps : i <= j)

\* Where a line goes on after stage k returned r: && and || may pass over one
\* command or more, and stop before the ^ or | that ends the last of them.
PassesOver(sep, r) == (sep = "&&" /\ r # "0") \/ (sep = "||" /\ r = "0")
After(l, k, r) ==
  LET last == CHOOSE j \in k .. Len(l) :
                /\ \A i \in k .. j - 1 : PassesOver(l[i].sep, r) /\ l[i + 1].sep \in CondSeps
                /\ ~(PassesOver(l[j].sep, r) /\ l[j + 1].sep \in CondSeps)
      over == PassesOver(l[last].sep, r)
  IN  [k |-> IF over /\ last + 1 = Len(l) THEN last + 2 ELSE last + 1,
       empty |-> over /\ last + 1 < Len(l)]

\* After the command of a stage: conditionals, then unredir().
Executed(c, r) ==
  LET next == After(c.line, c.k, r)
  IN  Unredir([c EXCEPT !.ret = r, !.k = next.k, !.empty = next.empty], "top")

Init ==
  /\ fd = [h \in Handles |-> CASE h = STDIN -> "in" [] h = STDOUT -> "out"
                               [] h = STDERR -> "err" [] OTHER -> NULL]
  /\ disk = {}
  /\ \E l \in Lines : cmds = <<NewCmd(l)>>
  /\ iff = "none" /\ signals = TRUE /\ fException = FALSE /\ breaks = Breaks

-----------------------------------------------------------------------------
(***************************************************************************)
(* The DOS calls of the queue.                                             *)
(***************************************************************************)
Calling(f) == Cur.todo # <<>> /\ Head(Cur.todo).f = f
Arg == Head(Cur.todo)
Did == [Cur EXCEPT !.todo = Tail(@)]

\* naStd[h] = _dup(h)
CallSave ==
  /\ Calling("save")
  /\ Put([Did EXCEPT !.naStd[Arg.h] = Dup(Arg.h)])
  /\ fd' = With(Dup(Arg.h), fd[Arg.h])
  /\ UNCHANGED <<disk, flow>>

\* dup_handle() makes NetWare flush the file by closing a copy of its handle.
CallSpare ==
  /\ Calling("spare")
  /\ Put([Did EXCEPT !.spare = Dup(Arg.h)])
  /\ fd' = With(Dup(Arg.h), fd[Arg.h])
  /\ UNCHANGED <<disk, flow>>

CallUnspare ==
  /\ Calling("unspare")
  /\ Put(Did) /\ fd' = Closed(Cur.spare)
  /\ UNCHANGED <<disk, flow>>

\* _dup2(), which dup_handle() follows with _close() of the target if it fails.
CallDup2 ==
  /\ Calling("dup2") \/ Calling("move")
  /\ IF IsOpen(Arg.h)
       THEN Put(Did) /\ fd' = With(Arg.to, fd[Arg.h])
       ELSE /\ Put([Did EXCEPT !.todo = IF Calling("move")
                                          THEN <<Call("close", Arg.to)>> \o @ ELSE @])
            /\ UNCHANGED fd
  /\ UNCHANGED <<disk, flow>>

CallClose ==
  /\ Calling("close")
  /\ Put(Did) /\ fd' = Closed(Arg.h)
  /\ UNCHANGED <<disk, flow>>

\* The _close() at the end of dup_handle() in unredir(), and naStd[h] = 0.
CallRestored ==
  /\ Calling("restored")
  /\ Put([Did EXCEPT !.naStd[Arg.h] = 0])
  /\ fd' = Closed(Cur.naStd[Arg.h])
  /\ UNCHANGED <<disk, flow>>

DosCall == CallSave \/ CallSpare \/ CallUnspare \/ CallDup2 \/ CallClose \/ CallRestored

-----------------------------------------------------------------------------
(***************************************************************************)
(* command(): the top of its loop, up to the redirection.                  *)
(***************************************************************************)
\* The stage is left out: the IFF is waiting, or this is its ELSE or ENDIFF.
\* Without an IFF they are unknown commands.  (Nested IFFs: see Flags.)
Skips == iff # "none" /\ IF Op = "else" THEN iff # "else"
                                        ELSE iff # "true" \/ Op = "endiff"

TopEnd ==
  /\ At("top")
  /\ Cur.ret = "abort" \/ Cur.k > Len(Cur.line)
  /\ Put(Break(Cur))
  /\ signals' = TRUE
  /\ UNCHANGED <<fd, disk, iff, fException, breaks>>

\* cv.fException, which is tested here too, is only set on the way out of the loop.
Ready == At("top") /\ Cur.ret # "abort" /\ Cur.k <= Len(Cur.line)

\* Alias or variable expansion fails, quotes do not match, or it is a REM.
TopFails ==
  /\ Ready /\ ~Skips /\ Op # "empty"
  /\ Put(Fails(Cur))
  /\ signals' = TRUE /\ fException' \in BOOLEAN
  /\ UNCHANGED <<fd, disk, iff, breaks>>

TopSkip ==
  /\ Ready /\ Skips
  /\ Put([Cur EXCEPT !.k = AfterSep(Cur.line, Cur.k), !.empty = FALSE])
  /\ iff' = (CASE Op = "endiff" -> "none" [] Op = "else" -> "endiff" [] OTHER -> iff)
  /\ signals' = TRUE
  /\ UNCHANGED <<fd, disk, fException, breaks>>

TopStart ==
  /\ Ready /\ ~Skips
  /\ Put([Cur EXCEPT !.at = IF Sep \in PipeSeps THEN "pipe" ELSE "redir",
                     !.n = 1, !.ret = "0"])
  /\ iff' = IF Op = "else" /\ iff = "else" THEN "true" ELSE iff
  /\ signals' = TRUE
  /\ UNCHANGED <<fd, disk, fException, breaks>>

-----------------------------------------------------------------------------
(***************************************************************************)
(* open_pipe().                                                            *)
(***************************************************************************)
\* Mutant: the name of the file need not be a new one.
CreatePipeAnyName ==
  /\ At("pipe") /\ Free # {}
  /\ \E p \in Pipes :
       disk' = disk \cup {p} /\ Put([Cur EXCEPT !.at = "openpipe", !.file = p])
  /\ UNCHANGED <<fd, flow>>

\* UniqueFileName() makes an empty file, for which it needs a handle.
CreatePipe ==
  /\ At("pipe") /\ Free # {}
  /\ \E p \in Pipes \ disk :
       disk' = disk \cup {p} /\ Put([Cur EXCEPT !.at = "openpipe", !.file = p])
  /\ UNCHANGED <<fd, flow>>

CreatePipeFails ==
  /\ At("pipe")
  /\ Put(Fails(Cur))
  /\ Error /\ UNCHANGED <<fd, disk>>

\* redirect->naStd[STDOUT] is assigned whatever it held before.
OpenPipe ==
  /\ At("openpipe") /\ Free # {}
  /\ fd' = With(NewHandle, Cur.file)
  /\ Put([Cur EXCEPT !.at = "redir", !.pszOutPipe = Cur.file,
                     !.fPipeOpen = TRUE, !.fIsPiped = TRUE,
                     !.todo = <<Call("save", STDOUT)>>
                                \o DupHandle(NewHandle, STDOUT, Call("close", NewHandle))
                                \o IF Sep = "|&" THEN <<Call("save", STDERR),
                                                        Call2("dup2", STDOUT, STDERR)>>
                                   ELSE <<>>])
  /\ UNCHANGED <<disk, flow>>

OpenPipeFails ==
  /\ At("openpipe")
  /\ disk' = disk \ {Cur.file}
  /\ Put(Fails(Cur))
  /\ Error /\ UNCHANGED fd

-----------------------------------------------------------------------------
(***************************************************************************)
(* redir(), one redirection at a time.                                     *)
(***************************************************************************)
More == At("redir") /\ Cur.n <= Len(IO)
Redirected == Targets[IO[Cur.n]]
Assigned == {i \in Redirected : Cur.naStd[i] # 0}

RedirDone ==
  /\ At("redir") /\ Cur.n > Len(IO)
  /\ Put([Cur EXCEPT !.at = "run"])
  /\ UNCHANGED <<fd, disk, flow>>

\* mkfname() rejects the name of the file.
RedirBadName ==
  /\ More
  /\ Put(Fails(Cur))
  /\ Error /\ UNCHANGED <<fd, disk>>

\* The calls that save the handles in s, in the order of the loop.
Saves(s) == (IF STDIN \in s THEN <<Call("save", STDIN)>> ELSE <<>>)
              \o (IF STDOUT \in s THEN <<Call("save", STDOUT)>> ELSE <<>>)
              \o (IF STDERR \in s THEN <<Call("save", STDERR)>> ELSE <<>>)
Closes(s) == (IF STDIN \in s THEN <<Call("close", STDIN)>> ELSE <<>>)
               \o (IF STDOUT \in s THEN <<Call("close", STDOUT)>> ELSE <<>>)
               \o (IF STDERR \in s THEN <<Call("close", STDERR)>> ELSE <<>>)

\* The handle is already redirected; those before it have been saved by then.
RedirAssigned ==
  /\ More /\ Assigned # {}
  /\ LET before == {i \in Redirected : \A j \in Assigned : i < j}
     IN  Put([Cur EXCEPT !.at = "failed", !.todo = Saves(before)])
  /\ UNCHANGED <<fd, disk, flow>>

RedirSave ==
  /\ More /\ Assigned = {}
  /\ Put([Cur EXCEPT !.at = "open", !.todo = Saves(Redirected) \o Closes(Redirected)])
  /\ UNCHANGED <<fd, disk, flow>>

RedirOpen ==
  /\ At("open") /\ Free # {}
  /\ fd' = With(NewHandle, "file")
  /\ Put([Cur EXCEPT !.at = "redir", !.n = @ + 1,
                     !.todo = IF Redirected = {STDOUT, STDERR}
                                THEN <<Call2("dup2", NewHandle, STDERR)>> ELSE <<>>])
  /\ UNCHANGED <<disk, flow>>

\* An output file that does not open is undone at once, so that the message
\* can be seen; an input file is left to the unredir() of command().
RedirOpenFails ==
  /\ At("open")
  /\ Put(IF Redirected = {STDIN} THEN [Cur EXCEPT !.at = "failed"]
                                 ELSE Unredir(Cur, "failed"))
  /\ UNCHANGED <<fd, disk, flow>>

RedirFailed ==
  /\ At("failed")
  /\ Put(Fails(Cur))
  /\ Error /\ UNCHANGED <<fd, disk>>

-----------------------------------------------------------------------------
(***************************************************************************)
(* ProcessCommands().                                                      *)
(***************************************************************************)
\* A command returns 0, an error, or a value that ends the line; so does an
\* IFF whose condition is true, or that is not well formed.
Run ==
  /\ At("run") /\ Op # "group"
  /\ \E r \in (IF Op = "empty" \/ (Op = "else" /\ iff = "true") THEN {"0"}
               ELSE {"0", "error", "abort"}) :
       Put(Executed(Cur, r))
  /\ iff' \in (IF Op = "iff" THEN {iff, "true"} ELSE {iff})
  /\ UNCHANGED <<fd, disk, signals, fException, breaks>>

\* It reports an error with ON ERROR set: BreakOut() to the top of the loop.
RunRaises ==
  /\ At("run") /\ Op \notin {"group", "empty"}
  /\ Put(Aborts(Cur)) /\ fException' = TRUE
  /\ UNCHANGED <<fd, disk, iff, signals, breaks>>

\* IFF is false, or nothing follows its THEN: __if() returns 0x666 and the
\* line goes on with the redirection as it is.  Without THEN it does not nest.
RunIff ==
  /\ At("run") /\ Op = "iff"
  /\ Put([Cur EXCEPT !.at = "top", !.k = @ + 1])
  /\ iff' \in {iff, "true", "else"}
  /\ UNCHANGED <<fd, disk, signals, fException, breaks>>

\* A group, or the command of an IFF, is run by an activation of its own.
RunGroup ==
  /\ At("run") /\ Op \in {"group", "iff"}
  /\ \E l \in Groups :
       cmds' = Append([cmds EXCEPT ![Len(cmds)].at = "ran"], NewCmd(l))
  /\ iff' = IF Op = "iff" THEN "true" ELSE iff
  /\ UNCHANGED <<fd, disk, signals, fException, breaks>>

\* The activation of a group returns.
Return ==
  /\ At("done") /\ Len(cmds) > 1
  /\ LET caller == cmds[Len(cmds) - 1]
     IN  cmds' = Append(SubSeq(cmds, 1, Len(cmds) - 2),
                        IF fException THEN Aborts(caller) ELSE Executed(caller, Cur.ret))
  /\ UNCHANGED <<fd, disk, flow>>

-----------------------------------------------------------------------------
(***************************************************************************)
(* unredir() after its loop, and killpipes().                              *)
(***************************************************************************)
UnredirDone ==
  /\ At("unredir") /\ ~Cur.fPipeOpen
  /\ Put([Cur EXCEPT !.at = Cur.then])
  /\ UNCHANGED <<fd, disk, flow>>

\* The input of the stage that has ended is deleted; its output is the next.
UnredirNext ==
  /\ At("unredir") /\ Cur.fPipeOpen
  /\ disk' = disk \ {Cur.pszInPipe}
  /\ Put([Cur EXCEPT !.at = "openin", !.pszInPipe = Cur.pszOutPipe])
  /\ UNCHANGED <<fd, flow>>

UnredirOpen ==
  /\ At("openin") /\ Free # {} /\ Cur.pszInPipe \in disk
  /\ fd' = With(NewHandle, Cur.pszInPipe)
  /\ Put([Cur EXCEPT !.at = Cur.then, !.fPipeOpen = FALSE,
                     !.todo = <<Call("save", STDIN)>>
                                \o DupHandle(NewHandle, STDIN, Call("close", NewHandle))])
  /\ UNCHANGED <<disk, flow>>

\* error() returns, and the next stage runs, unless ON ERROR is set.
UnredirOpenFails ==
  /\ At("openin")
  /\ \/ /\ Put([Cur EXCEPT !.at = Cur.then, !.fPipeOpen = FALSE])
        /\ UNCHANGED fException
     \/ Put(Aborts(Cur)) /\ fException' = TRUE
  /\ UNCHANGED <<fd, disk, iff, signals, breaks>>

\* fIsPiped is cleared before the DOS call that deletes the file.
Kill ==
  /\ At("kill")
  /\ Put([Cur EXCEPT !.at = IF Cur.fIsPiped THEN "remove" ELSE "done",
                     !.fIsPiped = FALSE])
  /\ UNCHANGED <<fd, disk, flow>>

Remove ==
  /\ At("remove")
  /\ disk' = disk \ {Cur.pszInPipe}
  /\ Put([Cur EXCEPT !.at = "done"])
  /\ UNCHANGED <<fd, flow>>

-----------------------------------------------------------------------------
(***************************************************************************)
(* ^C: DOS notices it on entry to a call, BreakHandler() disables the      *)
(* signals and longjmps to the last setjmp() of the innermost command().   *)
(***************************************************************************)
InDos == \/ Cur.todo # <<>>
         \/ Cur.at \in {"pipe", "openpipe", "open", "run", "openin", "remove"}
         \/ Cur.at = "unredir" /\ Cur.fPipeOpen /\ Cur.pszInPipe # NULL

Interrupt ==
  /\ breaks > 0 /\ signals /\ InDos
  /\ breaks' = breaks - 1 /\ signals' = FALSE /\ fException' = TRUE
  /\ iff' \in {iff, "none"}
  /\ Put(Aborts(Cur))
  /\ UNCHANGED <<fd, disk>>

\* main() reads the next line.
Prompt ==
  /\ At("done") /\ Len(cmds) = 1
  /\ \E l \in Lines : cmds' = <<NewCmd(l)>>
  /\ iff' = "none" /\ signals' = TRUE /\ fException' = FALSE
  /\ UNCHANGED <<fd, disk, breaks>>

Command ==
  \/ TopEnd \/ TopFails \/ TopSkip \/ TopStart
  \/ CreatePipe \/ CreatePipeFails \/ OpenPipe \/ OpenPipeFails
  \/ RedirDone \/ RedirBadName \/ RedirAssigned \/ RedirSave
  \/ RedirOpen \/ RedirOpenFails \/ RedirFailed
  \/ Run \/ RunRaises \/ RunIff \/ RunGroup \/ Return
  \/ UnredirDone \/ UnredirNext \/ UnredirOpen \/ UnredirOpenFails
  \/ Kill \/ Remove

Next == DosCall \/ Command \/ Interrupt \/ Prompt

Spec == Init /\ [][Next]_vars

-----------------------------------------------------------------------------
(***************************************************************************)
(* Properties.                                                             *)
(***************************************************************************)
\* Redirection takes effect for a command only: when a line or a group ends,
\* in whatever way, the standard handles are what they were when it began,
\* and unless ^C was pressed between two calls no other handle is lost.
HandlesRestored ==
  At("done") =>
    /\ \A i \in Std : fd[i] = Cur.entry[i]
    /\ breaks = Breaks => fd = Cur.entry

\* While a stage runs, its output goes to the pipe that was opened for it and
\* its input comes from the pipe of the stage before, and these are two files;
\* no pipe file is deleted while a standard handle is open on it.
PipesFlow ==
  /\ At("run") =>
       /\ Cur.fPipeOpen => /\ fd[STDOUT] = Cur.pszOutPipe
                           /\ Sep = "|&" => fd[STDERR] = Cur.pszOutPipe
                           /\ Cur.pszOutPipe # Cur.pszInPipe
       /\ Cur.naStd[STDIN] # 0 /\ (\A i \in DOMAIN IO : IO[i] # "<") =>
            fd[STDIN] = Cur.pszInPipe
  /\ \A i \in Std : fd[i] \in Pipes => fd[i] \in disk
=============================================================================
