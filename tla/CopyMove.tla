------------------------------ MODULE CopyMove ------------------------------
(***************************************************************************)
(* COPY and MOVE: Copy_Cmd() and Mv_Cmd(), their recursive workers _copy() *)
(* and _mv(), and FileCopy(), which both use.                              *)
(*                                                                         *)
(* A step is what happens between two DOS calls, because ^C is noticed on  *)
(* entry to one: BreakHandler() longjmps to cv.env, the one jmp_buf of the *)
(* program, which every level of these commands sets again and again.      *)
(* Which DOS calls fail and what the user answers is the environment's     *)
(* choice.  Devices, CLIP: and the file descriptions are left out.         *)
(***************************************************************************)
EXTENDS Integers, SequencesExt

CONSTANTS
  Commands,     \* the commands: [op, opts, args, type, dir, name, plus, same]
  Disks,        \* the file systems to start from: [Paths -> file or NULL]
  Dirs,         \* all directories there can be: sequences of names
  Names,        \* the names of files
  Units,        \* what files are made of, characters or blocks
  Buf,          \* the size of FileCopy()'s buffer
  Rooms,        \* how much room the disk of the target may have
  Breaks,       \* how many times ^C is pressed, at most
  Contents,     \* what whole files contain,
  Valuable,     \* those that must not be lost,
  ReadOnly,     \* and those of read-only files
  NULL

\* A directory and a file name.  The name "*" is the wildcard of a target.
Paths == [dir : Dirs, name : Names]

Attributes == {"R", "H", "A"}
FileRecords == [data : Seq(Units), time : Nat, attr : SUBSET Attributes]
Types == {"", "A", "B"}
ArgRecords == [dir : Dirs, names : SUBSET Names, type : Types, whole : BOOLEAN, full : BOOLEAN]

\* What activations can be.
Returns == {"0", "err", "CTRLC"}
TopPlaces == {"setup", "args", "work", "returned", "finish", "done"}
WorkerPlaces == {"entry", "find", "check", "ask", "op", "copy", "copied", "next", "rename", "clear", "again",
                 "remove", "moved", "dirs", "subbed", "rmdir"}
CopyPlaces == {"start", "in", "out", "seek", "read", "write", "time", "bye", "attr", "exit"}
Tops == [at : TopPlaces, arg : Nat \ {0}, nReturn : Returns, files : Nat, offset : Nat,
         tname : Names \cup {"*"}, lost : Nat]
Workers == [src : Dirs, tgt : Seq(STRING), at : WorkerPlaces, seen : (SUBSET Names) \cup (SUBSET Dirs), hdir : BOOLEAN,
            name : Names \cup {NULL}, attr : SUBSET Attributes, time : Nat, next : BOOLEAN,
            nReturn : Returns]
Copies == [at : CopyPlaces, offset : Nat, pos : Nat, read : Nat, chunk : Seq(Units), fEoF : BOOLEAN,
           in : BOOLEAN, out : BOOLEAN, nReturn : Returns]

ASSUME CopyMoveAssumption ==
  /\ Buf \in Nat \ {0} /\ Rooms \subseteq Nat /\ Breaks \in Nat
  /\ {"zero", "junk", "^Z"} \subseteq Units
  /\ Dirs \subseteq Seq(STRING) /\ "*" \notin Names /\ NULL \notin Names \cup FileRecords \cup Copies
  /\ \A d \in Disks : d \in [Paths -> FileRecords \cup {NULL}]
  /\ \A d \in Disks : \A p \in Paths : d[p] # NULL => d[p].data \in Contents
  /\ \A c \in Commands :
       /\ c.op \in {"COPY", "MOVE"} /\ c.opts \subseteq STRING
       /\ c.args \in Seq(ArgRecords) \ {<<>>} /\ c.type \in Types
       /\ c.dir \in Dirs /\ c.name \in Names \cup {"*"} /\ c.plus \in BOOLEAN

VARIABLES
  fs,           \* the files: [data, time, attr], or NULL
  dirs,         \* the directories that exist
  room,         \* how many more units fit on the disk
  verify,       \* the VERIFY flag of DOS
  cmd,          \* the command: one of Commands
  flags,        \* what changes of Copy.fOptions and fFlags, or Move.fFlags
  top,          \* Copy_Cmd() or Mv_Cmd(): [at, arg, nReturn, files, offset, tname,
                \* lost: how many searches nobody will close]
  stack,        \* the activations of _copy() or _mv()
  fc,           \* the activation of FileCopy(), or NULL
  env,          \* cv.env: the activation that did the last setjmp()
  signals,      \* whether the ^C handler is enabled
  fException,   \* whether cv.fException is set
  fDiskFull,
  breaks,       \* how many more times ^C can be pressed
  unset         \* whether attributes were to be set, and could not

vars == <<fs, dirs, room, verify, cmd, flags, top, stack, fc, env, signals,
          fException, fDiskFull, breaks, unset>>
disk == <<fs, dirs, room>>
fixed == <<cmd, verify, fException, fDiskFull, breaks>>
rest == <<fixed, unset>>

Opt(o) == o \in cmd.opts
Path(d, n) == [dir |-> d, name |-> n]
Exists(p) == p \in Paths /\ fs[p] # NULL
Below(d) == {x \in Dirs : Len(x) >= Len(d) /\ SubSeq(x, 1, Len(d)) = d}
SubDirs(d) == {x \in dirs \cap Below(d) : Len(x) = Len(d) + 1}

\* SetFileMode(): whether it fails is not looked at.
SetAttr(p, a) == IF Exists(p) THEN [fs EXCEPT ![p].attr = a] ELSE fs
AttrSet(p, a) == \E f \in {fs, SetAttr(p, a)} : fs' = f /\ unset' = (unset \/ f # SetAttr(p, a))
NoAttr == UNCHANGED <<fs, unset>>

Length(p) == IF Exists(p) THEN Len(fs[p].data) ELSE 0

-----------------------------------------------------------------------------
(***************************************************************************)
(* Activations, and what longjmp() finds.                                  *)
(***************************************************************************)
\* A worker: the directories it goes from and to, and the file it has found.
NewFrame(s, t) ==
  [src |-> s, tgt |-> t, at |-> "entry", seen |-> {}, hdir |-> FALSE,
   name |-> NULL, attr |-> {}, time |-> 0, next |-> FALSE, nReturn |-> "0"]

Cur == stack[Len(stack)]
Working(p) == stack # <<>> /\ fc = NULL /\ Cur.at = p
Put(f) == stack' = [stack EXCEPT ![Len(stack)] = f]
Go(p) == Put([Cur EXCEPT !.at = p])

Source == Path(Cur.src, Cur.name)
\* wildname(): the name of the target, made from that of the source.
Target == Path(Cur.tgt, IF top.tname = "*" THEN Cur.name ELSE top.tname)

CommandEnv == [of |-> "command"]
TopEnv == [of |-> "top"]
FileCopyEnv == [of |-> "FileCopy"]

\* restores: the code behind this setjmp() resets the attributes of the source.
FrameEnv(restores) == [of |-> "worker", src |-> Cur.src, restores |-> restores]

\* The activation that did the last setjmp() has not returned since.
Alive(e) == CASE e.of = "command" -> TRUE
              [] e.of = "top" -> top.at # "done"
              [] e.of = "FileCopy" -> fc # NULL
              [] e.of = "worker" -> \E i \in DOMAIN stack : stack[i].src = e.src

\* The last of the workers s goes on where it called the next one.
Resumed(s, r) == [s EXCEPT ![Len(s)] = [s[Len(s)] EXCEPT !.at = "subbed", !.nReturn = r]]

\* A worker returns r, to the worker that called it or to the command.
Return(r) ==
  LET left == Front(stack)
  IN  \/ left = <<>> /\ stack' = <<>> /\ top' = [top EXCEPT !.at = "returned", !.nReturn = r]
      \/ left # <<>> /\ stack' = Resumed(left, r) /\ top' = top

Init ==
  /\ fs \in Disks /\ room \in Rooms
  /\ dirs = {d \in Dirs : \E p \in Paths : p.dir \in Below(d) /\ fs[p] # NULL}
  /\ verify = FALSE /\ cmd \in Commands /\ flags = {"CREATE"}
  /\ top = [at |-> "setup", arg |-> 1, nReturn |-> "0", files |-> 0,
            offset |-> 0, tname |-> cmd.name, lost |-> 0]
  /\ stack = <<>> /\ fc = NULL /\ env = CommandEnv
  /\ signals = TRUE /\ fException = FALSE /\ fDiskFull = FALSE /\ breaks = Breaks /\ unset = FALSE

-----------------------------------------------------------------------------
(***************************************************************************)
(* Copy_Cmd() and Mv_Cmd().                                                *)
(***************************************************************************)
Copying == cmd.op = "COPY"
Moving == cmd.op = "MOVE"
AtTop(p) == top.at = p
TopStep == UNCHANGED <<disk, rest, flags, stack, fc, env, signals>>

\* Wrong switches, no arguments, or a target that cannot be: nothing is done.
Refuse ==
  /\ AtTop("setup")
  /\ top' = [top EXCEPT !.at = "done", !.nReturn = "err"]
  /\ TopStep

\* VERIFY is switched on; COPY does its first setjmp() then, MOVE does none.
Setup ==
  /\ AtTop("setup")
  /\ verify' = (verify \/ Opt("V"))
  /\ top' = [top EXCEPT !.at = "args"]
  /\ env' = IF Copying THEN TopEnv ELSE env
  /\ flags' = flags \cup (cmd.opts \cap {"P", "R"}) \cup (IF cmd.plus THEN {"APPEND"} ELSE {})
  /\ UNCHANGED <<disk, cmd, fException, fDiskFull, breaks, unset, stack, fc, signals>>

MoreArgs == AtTop("args") /\ top.arg <= Len(cmd.args)
Arg == cmd.args[top.arg]

\* mkfname() does not accept an argument: COPY breaks with what it returned last.
BadName ==
  /\ MoreArgs
  /\ top' = [top EXCEPT !.at = "finish", !.nReturn = IF Moving THEN "err" ELSE @]
  /\ TopStep

\* A target below the source.
Infinite == Opt("S") /\ cmd.dir \in Below(Arg.dir)

\* It is refused, by COPY without the clean up at the end.
RefuseInfinite ==
  /\ MoreArgs /\ Infinite
  /\ top' = [top EXCEPT !.at = IF Copying THEN "done" ELSE "finish", !.nReturn = "err"]
  /\ TopStep

\* MOVE of a directory to a new name beside it is tried as a rename.
RenameDir ==
  /\ MoreArgs /\ Moving /\ Arg.whole
  /\ cmd.dir \notin dirs /\ Len(cmd.dir) = Len(Arg.dir)
  /\ LET From(d) == Arg.dir \o SubSeq(d, Len(cmd.dir) + 1, Len(d))
     IN  /\ fs' = [p \in Paths |-> IF p.dir \in Below(Arg.dir) THEN NULL
                                   ELSE IF p.dir \notin Below(cmd.dir) THEN fs[p]
                                   ELSE IF Exists(Path(From(p.dir), p.name))
                                     THEN fs[Path(From(p.dir), p.name)] ELSE NULL]
         /\ dirs' = {d \in Dirs : IF d \in Below(cmd.dir) THEN From(d) \in dirs
                                  ELSE d \in dirs /\ d \notin Below(Arg.dir)}
  /\ top' = [top EXCEPT !.arg = @ + 1, !.files = @ + 1]
  /\ UNCHANGED <<room, rest, flags, stack, fc, env, signals>>

StartArg ==
  /\ MoreArgs /\ ~Infinite
  /\ top' = [top EXCEPT !.at = "work"]
  /\ stack' = <<NewFrame(Arg.dir, cmd.dir)>>
  /\ UNCHANGED <<disk, rest, flags, fc, env, signals>>

\* The worker has returned: setjmp(), and on to the next argument.  COPY has
\* held the signals before that, and enables them.
Returned ==
  /\ AtTop("returned")
  /\ LET stops == top.nReturn = "CTRLC" \/ (Copying /\ fException)
     IN  top' = [top EXCEPT !.at = IF stops THEN "finish" ELSE "args",
                            !.arg = IF stops THEN @ ELSE @ + 1,
                            !.nReturn = IF ~stops THEN @ ELSE IF fDiskFull THEN "err" ELSE "CTRLC"]
  /\ env' = TopEnv /\ signals' = (signals \/ Copying)
  /\ UNCHANGED <<disk, rest, flags, stack, fc>>

ArgsDone ==
  /\ AtTop("args") /\ top.arg > Len(cmd.args)
  /\ top' = [top EXCEPT !.at = "finish"]
  /\ TopStep

\* The original VERIFY flag (it was off) is set again.
Finish ==
  /\ AtTop("finish")
  /\ verify' = (verify /\ ~Opt("V"))
  /\ top' = [top EXCEPT !.at = "done", !.nReturn = IF top.files # 0 THEN @ ELSE "err"]
  /\ UNCHANGED <<disk, cmd, fException, fDiskFull, breaks, unset, flags, stack, fc, env, signals>>

Command == Refuse \/ Setup \/ BadName \/ RefuseInfinite \/ RenameDir \/ StartArg
             \/ Returned \/ ArgsDone \/ Finish

-----------------------------------------------------------------------------
(***************************************************************************)
(* _copy() and _mv(): the target directory and the loop over the files.    *)
(***************************************************************************)
\* MOVE begins with a setjmp(), COPY enables the signals.
Entered == /\ env' = IF Moving THEN FrameEnv(FALSE) ELSE env
           /\ signals' = (signals \/ Copying)

NeedsDir == /\ Opt("S") \/ (Moving /\ Opt("D"))
            /\ ~(Copying /\ Opt("N")) /\ ~(Moving /\ Cur.tgt \in dirs)

Enter ==
  /\ Working("entry") /\ (NeedsDir => Cur.tgt \in Dirs)
  /\ Go("find") /\ Entered
  /\ dirs' = IF NeedsDir THEN dirs \cup {Cur.tgt} ELSE dirs
  /\ UNCHANGED <<fs, room, rest, flags, top, fc>>

\* The directory of the target cannot be made.
EnterFails ==
  /\ Working("entry") /\ NeedsDir /\ Cur.tgt \notin dirs
  /\ Return("err") /\ Entered
  /\ UNCHANGED <<disk, rest, flags, fc>>

Hidden(p) == "H" \in fs[p].attr /\ ~Opt("H")
Unseen == {n \in cmd.args[top.arg].names \ Cur.seen :
             Exists(Path(Cur.src, n)) /\ ~Hidden(Path(Cur.src, n))}

\* find_file() returns a file, and the worker does a setjmp().
Find ==
  /\ Working("find")
  /\ \E n \in Unseen :
       LET file == fs[Path(Cur.src, n)]
       IN  Put([Cur EXCEPT !.at = "check", !.seen = @ \cup {n}, !.hdir = TRUE, !.name = n,
                           !.attr = file.attr, !.time = file.time, !.next = Cur.seen # {}])
  /\ env' = FrameEnv(FALSE)
  /\ flags' = flags \ {"EXISTS"}
  /\ UNCHANGED <<disk, rest, top, fc, signals>>

\* It closes the search when there are no more, and enables the signals.
FindEnds ==
  /\ Working("find") /\ Unseen = {}
  /\ Put([Cur EXCEPT !.at = "dirs", !.seen = {}, !.hdir = FALSE])
  /\ signals' = TRUE
  /\ UNCHANGED <<disk, rest, flags, top, fc, env>>

\* MOVE refuses to move a second file to a target without wildcards.
Destructive == Moving /\ Cur.next /\ top.tname # "*"

\* /M, /O, /U and /C: the file is not one to copy.
Skips == \/ Opt("M") /\ "A" \notin Cur.attr
         \/ Opt("O") /\ Exists(Target)
         \/ (Opt("U") \/ Opt("C")) /\ Exists(Target) /\ fs[Target].time >= Cur.time
         \/ Opt("C") /\ ~Exists(Target)

\* Appending: the target is the first argument, given with its full path.
IsFirstArg == cmd.args[1].full /\ Arg.dir = cmd.args[1].dir /\ cmd.args[1].names = {Cur.name}

CheckSkips ==
  /\ Working("check") /\ ~Destructive /\ Skips
  /\ Go("find")
  /\ UNCHANGED <<disk, rest, flags, top, fc, env, signals>>

\* MOVE ends with an error.
CheckRefuses ==
  /\ Working("check") /\ Moving
  /\ Destructive \/ (~Skips /\ Source = Target)
  /\ Return("err")
  /\ UNCHANGED <<disk, rest, flags, fc, env, signals>>

\* Appending a file to itself: it is passed over, with an error if it is not
\* the first that was named.
CheckSame ==
  /\ Working("check") /\ Copying /\ ~Skips /\ Source = Target /\ "APPEND" \in flags
  /\ Put([Cur EXCEPT !.at = "next",
                     !.nReturn = IF "CREATE" \notin flags /\ ~IsFirstArg THEN "err" ELSE @])
  /\ UNCHANGED <<disk, rest, flags, top, fc, env, signals>>

CheckOK ==
  /\ Working("check") /\ ~Destructive /\ ~Skips
  /\ Source = Target => Copying /\ "APPEND" \notin flags
  /\ LET asks == "R" \in flags /\ Exists(Target) /\ (Moving \/ "CREATE" \in flags)
     IN  /\ flags' = IF asks THEN flags \cup {"EXISTS"} ELSE flags
         /\ Go(IF asks \/ "P" \in flags THEN "ask" ELSE "op")
  /\ UNCHANGED <<disk, rest, top, fc, env, signals>>

\* QueryInputChar(): Yes, All or Rest, No, Escape.
Ask ==
  /\ Working("ask")
  /\ \/ Go("op") /\ UNCHANGED flags
     \/ Go("op") /\ flags' = flags \ {"P", "R"}
     \/ Go("find") /\ UNCHANGED flags
     \/ Put([Cur EXCEPT !.at = "dirs", !.seen = {}, !.hdir = FALSE]) /\ UNCHANGED flags
  /\ UNCHANGED <<disk, rest, top, fc, env, signals>>

\* /N: nothing.  /Z: a read-only target is made writable.  MOVE makes the
\* source writable, since Netware does not rename it otherwise.
Prepare ==
  /\ Working("op")
  /\ IF Opt("N") THEN Go(IF Copying THEN "next" ELSE "find") /\ NoAttr
     ELSE /\ Go(IF Copying \/ ~cmd.same THEN "copy" ELSE "rename")
          /\ LET target == IF Opt("Z") THEN SetAttr(Target, {}) ELSE fs
                 Both(f) == IF Moving /\ "R" \in Cur.attr
                              THEN [f EXCEPT ![Source].attr = Cur.attr \ {"R"}] ELSE f
             IN  fs' \in {fs, target, Both(fs), Both(target)} /\ unset' = (unset \/ fs' # Both(target))
  /\ UNCHANGED <<dirs, room, fixed, flags, top, fc, env, signals>>

\* ESC, the end of the loop and the next file.
Files == Enter \/ EnterFails \/ Find \/ FindEnds \/ CheckSkips \/ CheckRefuses
           \/ CheckSame \/ CheckOK \/ Ask \/ Prepare
-----------------------------------------------------------------------------
(***************************************************************************)
(* _copy() after FileCopy().                                               *)
(***************************************************************************)
\* The search is closed; ^C stays disabled.
CopyAborted ==
  /\ Working("copied") /\ Cur.nReturn = "CTRLC"
  /\ Return("CTRLC")
  /\ IF Moving THEN AttrSet(Source, Cur.attr) ELSE NoAttr
  /\ UNCHANGED <<dirs, room, fixed, flags, fc, env, signals>>

\* setjmp(); /X clears the archive attribute of what was copied.
Copied ==
  /\ Working("copied") /\ Copying /\ Cur.nReturn # "CTRLC"
  /\ top' = IF Cur.nReturn = "0" THEN [top EXCEPT !.files = @ + 1] ELSE top
  /\ IF Cur.nReturn = "0" /\ Opt("X") THEN AttrSet(Source, Cur.attr \ {"A"}) ELSE NoAttr
  /\ Go("next") /\ env' = FrameEnv(FALSE)
  /\ UNCHANGED <<dirs, room, fixed, flags, fc, signals>>

\* The label next_copy: to a name without wildcards the next files are appended.
Next_copy ==
  /\ Working("next")
  /\ LET appends == top.tname # "*" \/ "APPEND" \in flags
     IN  flags' = IF appends THEN (flags \ {"CREATE"}) \cup {"APPEND"} ELSE flags
  /\ top' = IF top.tname = "*" /\ "APPEND" \in flags THEN [top EXCEPT !.tname = Target.name] ELSE top
  /\ Go("find") /\ signals' = TRUE
  /\ UNCHANGED <<disk, rest, fc, env>>

-----------------------------------------------------------------------------
(***************************************************************************)
(* _mv(): rename, or copy and remove.                                      *)
(***************************************************************************)
Rename ==
  /\ Working("rename") /\ ~Exists(Target) /\ Target.dir \in dirs
  /\ fs' = [fs EXCEPT ![Target] = fs[Source], ![Source] = NULL]
  /\ Put([Cur EXCEPT !.at = "moved", !.nReturn = "0"])
  /\ UNCHANGED <<dirs, room, rest, flags, top, fc, env, signals>>

RenameFails ==
  /\ Working("rename")
  /\ Go("clear")
  /\ UNCHANGED <<disk, rest, flags, top, fc, env, signals>>

\* The target is deleted, if that can be done.
ClearTarget ==
  /\ Working("clear")
  /\ \/ UNCHANGED <<fs, room>>
     \/ /\ Exists(Target) /\ "R" \notin fs[Target].attr
        /\ fs' = [fs EXCEPT ![Target] = NULL] /\ room' = room + Length(Target)
  /\ Go("again")
  /\ UNCHANGED <<dirs, rest, flags, top, fc, env, signals>>

RenameAgain ==
  /\ Working("again")
  /\ \/ /\ ~Exists(Target) /\ Target.dir \in dirs
        /\ fs' = [fs EXCEPT ![Target] = fs[Source], ![Source] = NULL]
        /\ Put([Cur EXCEPT !.at = "moved", !.nReturn = "0"])
     \/ Go("copy") /\ UNCHANGED fs
  /\ UNCHANGED <<dirs, room, rest, flags, top, fc, env, signals>>

\* setjmp(), and FileCopy() has disabled the signals.
CopyFailed ==
  /\ Working("copied") /\ Moving /\ Cur.nReturn = "err"
  /\ AttrSet(Source, Cur.attr)
  /\ Go("find") /\ env' = FrameEnv(TRUE) /\ signals' = TRUE
  /\ UNCHANGED <<dirs, room, fixed, flags, top, fc>>

\* The original loses its attributes and, with /W, its contents.
CopyMoved ==
  /\ Working("copied") /\ Moving /\ Cur.nReturn = "0"
  /\ LET clear == IF Cur.attr \cap {"R", "H"} # {} THEN SetAttr(Source, {}) ELSE fs
     IN  \E a \in {fs, clear} :
           /\ unset' = (unset \/ a # clear)
           /\ \/ /\ Go("remove") /\ (Opt("W") => "R" \notin a[Source].attr)
                 /\ fs' = IF Opt("W") THEN [a EXCEPT ![Source].data = [i \in DOMAIN @ |-> "zero"]] ELSE a
              \/ Opt("W") /\ Go("moved") /\ fs' = a
  /\ env' = FrameEnv(TRUE) /\ signals' = TRUE
  /\ UNCHANGED <<dirs, room, fixed, flags, top, fc>>

\* It is removed; when that fails, there is a message and the move counts.
RemoveSource ==
  /\ Working("remove")
  /\ \/ "R" \notin fs[Source].attr /\ fs' = [fs EXCEPT ![Source] = NULL]
     \/ UNCHANGED fs
  /\ Go("moved")
  /\ UNCHANGED <<dirs, room, rest, flags, top, fc, env, signals>>

\* A read-only source gives its attributes to the target, if they can be set.
Moved ==
  /\ Working("moved")
  /\ IF "R" \in Cur.attr THEN AttrSet(Target, Cur.attr) ELSE NoAttr
  /\ top' = [top EXCEPT !.files = @ + 1]
  /\ Go("find")
  /\ UNCHANGED <<dirs, room, fixed, flags, fc, env, signals>>

AfterFile == CopyAborted \/ Copied \/ Next_copy \/ Rename \/ RenameFails \/ ClearTarget
               \/ RenameAgain \/ CopyFailed \/ CopyMoved \/ RemoveSource \/ Moved

-----------------------------------------------------------------------------
(***************************************************************************)
(* FileCopy().                                                             *)
(***************************************************************************)
InFC(p) == fc # NULL /\ fc.at = p

\* The types of source and target: what only one side has holds for both.
Ascii == Arg.type = "A" \/ (Arg.type = "" /\ cmd.type = "A")
AsciiTarget == cmd.type = "A" \/ (cmd.type = "" /\ Arg.type = "A")
Create == Moving \/ "CREATE" \in flags
TextEnd(s) == IF \E i \in DOMAIN s : s[i] = "^Z"
                THEN CHOOSE i \in 0 .. Len(s) - 1 :
                       s[i + 1] = "^Z" /\ \A j \in 1 .. i : s[j] # "^Z"
                ELSE Len(s)

CallFileCopy ==
  /\ Working("copy")
  /\ fc' = [at |-> "start", offset |-> IF Moving THEN 0 ELSE top.offset, pos |-> 0, read |-> 0,
            chunk |-> <<>>, fEoF |-> FALSE, in |-> FALSE, out |-> FALSE, nReturn |-> "0"]
  /\ UNCHANGED <<disk, rest, flags, top, stack, env, signals>>

FCStep == UNCHANGED <<dirs, rest, flags, top, stack, signals>>
Bye(r) == fc' = [fc EXCEPT !.at = "bye", !.nReturn = r]

\* The names are the same, or there is no memory.
FCRefuses ==
  /\ InFC("start")
  /\ fc' = [fc EXCEPT !.at = "exit", !.nReturn = "err"]
  /\ UNCHANGED <<fs, room, env>> /\ FCStep

FCStarts ==
  /\ InFC("start") /\ Source # Target
  /\ fc' = [fc EXCEPT !.at = "in"] /\ env' = FileCopyEnv
  /\ UNCHANGED <<fs, room>> /\ FCStep

FCIn ==
  /\ InFC("in")
  /\ fc' = [fc EXCEPT !.at = "out", !.in = TRUE]
  /\ UNCHANGED <<fs, room, env>> /\ FCStep

\* Any call can fail, and so does opening a target that is read-only, has no
\* directory or, to append, does not exist.
FCFails ==
  /\ fc # NULL /\ fc.at \in {"in", "out", "seek", "read", "write"}
  /\ Bye("err")
  /\ UNCHANGED <<fs, room, env>> /\ FCStep

Writable == Target.dir \in dirs /\ (Exists(Target) => "R" \notin fs[Target].attr)

FCCreates ==
  /\ InFC("out") /\ Create /\ Writable
  /\ fs' = [fs EXCEPT ![Target] = [data |-> <<>>, time |-> 0, attr |-> {}]]
  /\ room' = room + Length(Target)
  /\ fc' = [fc EXCEPT !.at = "read", !.out = TRUE]
  /\ UNCHANGED env /\ FCStep

FCOpens ==
  /\ InFC("out") /\ ~Create /\ Writable /\ Exists(Target)
  /\ fc' = [fc EXCEPT !.at = "seek", !.out = TRUE]
  /\ UNCHANGED <<fs, room, env>> /\ FCStep

\* To append: where the last file ended, or at the end of the target, which
\* for a text is before the ^Z.
FCSeeks ==
  /\ InFC("seek")
  /\ LET end == IF fc.offset # 0 THEN fc.offset
                ELSE IF Arg.type = "B" THEN Length(Target) ELSE TextEnd(fs[Target].data)
     IN  fc' = [fc EXCEPT !.at = "read", !.offset = end, !.pos = end]
  /\ UNCHANGED <<fs, room, env>> /\ FCStep

FCReads ==
  /\ InFC("read")
  /\ LET data == fs[Source].data
         got == SubSeq(data, fc.read + 1, IF fc.read + Buf < Len(data) THEN fc.read + Buf ELSE Len(data))
         kept == IF Ascii THEN SubSeq(got, 1, TextEnd(got)) ELSE got
     IN  fc' = [fc EXCEPT !.at = "write", !.chunk = kept, !.read = @ + Len(got),
                          !.fEoF = kept = <<>> \/ Len(kept) < Len(got),
                          !.offset = @ + Len(kept)]
  /\ UNCHANGED <<fs, room, env>> /\ FCStep

\* The file s with new written at pos; DOS truncates it for a write of nothing.
\* Behind its end, where a failed append has left pos, is what was on the disk.
Written(s, pos, new) ==
  [i \in 1 .. (IF new # <<>> /\ pos + Len(new) < Len(s) THEN Len(s) ELSE pos + Len(new)) |->
     IF i \in pos + 1 .. pos + Len(new) THEN new[i - pos]
     ELSE IF i \in DOMAIN s THEN s[i] ELSE "junk"]

\* Mutant: a write that did not fit is taken for complete.
ShortWriteOK(n) == FALSE
ShortWrite(n) == n # Len(fc.chunk)

\* There is room for a ^Z at that place.
EndFits(end) == end < Length(Target) + room

\* What fits is written, and with it the ^Z of a text that ends here.
FCWrites ==
  /\ InFC("write")
  /\ LET old == Length(Target)
         fits == old + room - fc.pos
         n == IF Len(fc.chunk) <= fits THEN Len(fc.chunk) ELSE IF fits > 0 THEN fits ELSE 0
         ends == AsciiTarget /\ (fc.fEoF \/ Len(fc.chunk) < Buf)
         some == IF fits < 0 THEN fs[Target].data
                 ELSE Written(fs[Target].data, fc.pos, SubSeq(fc.chunk, 1, n))
         new == IF ends /\ EndFits(fc.pos + n) THEN Written(some, fc.pos + n, <<"^Z">>) ELSE some
     IN  /\ fs' = [fs EXCEPT ![Target].data = new]
         /\ room' = room + old - Len(new)
         /\ fDiskFull' = (fDiskFull \/ ShortWrite(n))
         /\ IF ShortWrite(n) THEN Bye("CTRLC")
            ELSE fc' = [fc EXCEPT !.at = IF fc.fEoF \/ ends THEN "time" ELSE "read", !.pos = @ + n]
  /\ UNCHANGED <<dirs, cmd, verify, fException, breaks, unset, flags, top, stack, env, signals>>

\* A file that was not appended to gets the time of its source.
FCTime ==
  /\ InFC("time")
  /\ fs' = IF Create /\ "APPEND" \notin flags THEN [fs EXCEPT ![Target].time = fs[Source].time] ELSE fs
  /\ Bye("0")
  /\ UNCHANGED <<room, env>> /\ FCStep

\* The label filebye: the memory is freed and the source closed.
FCCloses ==
  /\ InFC("bye")
  /\ fc' = [fc EXCEPT !.at = IF fc.out THEN "attr" ELSE "exit", !.in = FALSE]
  /\ UNCHANGED <<fs, room, env>> /\ FCStep

\* Mutant: a target that was not written completely stays.
FCKeeps ==
  /\ InFC("attr")
  /\ fs' = SetAttr(Target, {"A"})
  /\ fc' = [fc EXCEPT !.at = "exit"]
  /\ UNCHANGED <<room, env>> /\ FCStep

\* Then the target: deleted after an error, unless it was being appended to.
FCRemoves ==
  /\ InFC("attr") /\ fc.nReturn # "0" /\ Create
  /\ fs' = [fs EXCEPT ![Target] = NULL]
  /\ room' = room + Length(Target)
  /\ fc' = [fc EXCEPT !.at = "exit"]
  /\ UNCHANGED env /\ FCStep

\* It gets the attributes of the source, to which the archive bit is added;
\* read-only only when moving.
FCSetsMode ==
  /\ InFC("attr") /\ ~(fc.nReturn # "0" /\ Create)
  /\ AttrSet(Target, {"A"} \cup IF Create THEN fs[Source].attr \ (IF Moving \/ Opt("K") THEN {} ELSE {"R"})
                                           ELSE {})
  /\ fc' = [fc EXCEPT !.at = "exit"]
  /\ UNCHANGED <<room, env>> /\ UNCHANGED <<dirs, fixed, flags, top, stack, signals>>

\* The label FileCopyExit: the signals are held.
FCExit ==
  /\ InFC("exit")
  /\ fc' = NULL /\ signals' = FALSE
  /\ Put([Cur EXCEPT !.at = "copied", !.nReturn = fc.nReturn])
  /\ top' = IF Copying THEN [top EXCEPT !.offset = fc.offset] ELSE top
  /\ UNCHANGED <<disk, rest, flags, env>>

FileCopy == CallFileCopy \/ FCRefuses \/ FCStarts \/ FCIn \/ FCFails \/ FCCreates \/ FCOpens
              \/ FCSeeks \/ FCReads \/ FCWrites \/ FCTime \/ FCCloses \/ FCRemoves \/ FCSetsMode \/ FCExit

-----------------------------------------------------------------------------
(***************************************************************************)
(* The loop over the subdirectories.                                       *)
(***************************************************************************)
LeftDirs == IF Opt("S") THEN SubDirs(Cur.src) \ Cur.seen ELSE {}

Descend ==
  /\ Working("dirs")
  /\ \E d \in LeftDirs :
       stack' = Append([stack EXCEPT ![Len(stack)] = [Cur EXCEPT !.seen = @ \cup {d}, !.hdir = TRUE]],
                       NewFrame(d, Append(Cur.tgt, d[Len(d)])))
  /\ UNCHANGED <<disk, rest, flags, top, fc, env, signals>>

\* Mutant: the worker trusts cv.env to be its own still.
AscendInto ==
  /\ Working("subbed") /\ UNCHANGED env
  /\ IF fException \/ (Moving /\ Cur.nReturn = "CTRLC") THEN Return("CTRLC")
     ELSE /\ UNCHANGED top
          /\ IF Moving /\ Cur.nReturn # "0" THEN Put([Cur EXCEPT !.at = "rmdir", !.hdir = FALSE])
             ELSE Go("dirs")
  /\ UNCHANGED <<disk, rest, flags, fc, signals>>

\* The worker for a subdirectory has returned: setjmp().  COPY looks at
\* cv.fException only, MOVE at what was returned too.
Ascend ==
  /\ Working("subbed") /\ env' = FrameEnv(FALSE)
  /\ IF fException \/ (Moving /\ Cur.nReturn = "CTRLC") THEN Return("CTRLC")
     ELSE /\ UNCHANGED top
          /\ IF Moving /\ Cur.nReturn # "0" THEN Put([Cur EXCEPT !.at = "rmdir", !.hdir = FALSE])
             ELSE Go("dirs")
  /\ UNCHANGED <<disk, rest, flags, fc, signals>>

DirsDone ==
  /\ Working("dirs") /\ LeftDirs = {}
  /\ IF Moving /\ Opt("S") THEN Put([Cur EXCEPT !.at = "rmdir", !.hdir = FALSE]) /\ UNCHANGED top
     ELSE Return(Cur.nReturn)
  /\ signals' = (signals \/ Opt("S"))
  /\ UNCHANGED <<disk, rest, flags, fc, env>>

\* MOVE /S removes the directory it has emptied.
RemoveDir ==
  /\ Working("rmdir")
  /\ LET empty == SubDirs(Cur.src) = {} /\ \A n \in Names : ~Exists(Path(Cur.src, n))
     IN  dirs' = IF empty /\ ~Opt("N") THEN dirs \ {Cur.src} ELSE dirs
  /\ Return(Cur.nReturn)
  /\ UNCHANGED <<fs, room, rest, flags, fc, env, signals>>

Tree == Descend \/ Ascend \/ DirsDone \/ RemoveDir

-----------------------------------------------------------------------------
(***************************************************************************)
(* ^C (or an error with ON ERROR set): longjmp() to what cv.env says.      *)
(***************************************************************************)
InDos ==
  IF fc # NULL THEN fc.at \notin {"start", "exit"}
  ELSE IF stack # <<>> THEN Cur.at \notin {"check", "copied", "next", "subbed"}
  ELSE top.at \in {"setup", "args", "finish"}

Lost(i) == top.lost + Cardinality({j \in i .. Len(stack) : stack[j].hdir})

\* The worker that did the setjmp() closes its search and returns.
Aborted(i) ==
  /\ \/ /\ i = 1 /\ stack' = <<>>
        /\ top' = [top EXCEPT !.at = "returned", !.nReturn = "CTRLC", !.lost = Lost(2)]
     \/ /\ i > 1 /\ stack' = Resumed(SubSeq(stack, 1, i - 1), "CTRLC")
        /\ top' = [top EXCEPT !.lost = Lost(i + 1)]
  /\ IF env.restores THEN AttrSet(Path(stack[i].src, stack[i].name), stack[i].attr) ELSE NoAttr

Interrupt ==
  /\ breaks > 0 /\ signals /\ InDos /\ Alive(env)
  /\ breaks' = breaks - 1 /\ signals' = FALSE /\ fException' = TRUE
  /\ CASE env.of = "command" ->
            stack' = <<>> /\ fc' = NULL /\ NoAttr
              /\ top' = [top EXCEPT !.at = "done", !.nReturn = "CTRLC", !.lost = Lost(1)]
       [] env.of = "top" ->
            stack' = <<>> /\ fc' = NULL /\ NoAttr
              /\ top' = [top EXCEPT !.at = "finish", !.lost = Lost(1),
                                     !.nReturn = IF fDiskFull THEN "err" ELSE "CTRLC"]
       [] env.of = "FileCopy" -> Bye("CTRLC") /\ UNCHANGED <<stack, top, fs, unset>>
       [] env.of = "worker" ->
            fc' = NULL /\ \E i \in DOMAIN stack : stack[i].src = env.src /\ Aborted(i)
  /\ UNCHANGED <<dirs, room, cmd, verify, fDiskFull, flags, env>>

Next == Command \/ Files \/ AfterFile \/ FileCopy \/ Tree \/ Interrupt

Spec == Init /\ [][Next]_vars

-----------------------------------------------------------------------------
(***************************************************************************)
(* Properties.                                                             *)
(***************************************************************************)
\* The types of the disk and of all activations.
Envs == {CommandEnv, TopEnv, FileCopyEnv} \cup [of : {"worker"}, src : Dirs, restores : BOOLEAN]

StateOK ==
  /\ fs \in [Paths -> FileRecords \cup {NULL}] /\ dirs \subseteq Dirs /\ room \in Nat
  /\ cmd \in Commands /\ verify \in BOOLEAN /\ flags \subseteq {"CREATE", "APPEND", "EXISTS", "P", "R"}
  /\ top \in Tops /\ stack \in Seq(Workers) /\ fc \in Copies \cup {NULL} /\ env \in Envs
  /\ signals \in BOOLEAN /\ fException \in BOOLEAN /\ fDiskFull \in BOOLEAN /\ breaks \in 0 .. Breaks
TypeOK == StateOK /\ unset \in BOOLEAN

\* ^C never longjmps into a function that has returned: whenever it can be
\* noticed, the activation that did the last setjmp() is still there.
EnvAlive == signals /\ InDos => Alive(env)

Binary == cmd.type # "A" /\ \A i \in DOMAIN cmd.args : cmd.args[i].type # "A"
Whole(file) == file.data \in Contents \/ "zero" \in ToSet(file.data)

\* A command that creates its targets leaves no file with a part of what was
\* to be copied into it: every file is as it was, or complete, or not there,
\* when it ends, by itself, on a full disk or after ^C.
NoPartialTarget ==
  AtTop("done") /\ Binary /\ ~cmd.plus /\ cmd.name = "*" =>
    \A p \in Paths : Exists(p) => Whole(fs[p])

\* The text that an ASCII file, or the whole that a binary file, contributes.
Part(i, s) == IF cmd.args[i].type = "A" THEN SubSeq(s, 1, TextEnd(s)) ELSE s
ArgFile(i) == Path(cmd.args[i].dir, CHOOSE n \in cmd.args[i].names : TRUE)
Into == Path(cmd.dir, cmd.name)
Others == SelectSeq([i \in DOMAIN cmd.args |-> i], LAMBDA i : ArgFile(i) # Into)
Joined == FoldLeft(LAMBDA s, i : s \o Part(i, fs[ArgFile(i)].data), <<>>, Others)
\* The text that was in the target, when it is the first of the sources.
Kept == {<<>>} \cup {Part(1, c) : c \in {x \in Contents : ArgFile(1) = Into}}

\* COPY a+b c, or a+b a: when every source was copied, the target holds their
\* contents in the order of the command, and a text ends there with one ^Z, or
\* with none when it has filled the disk.
AppendsAll ==
  AtTop("done") /\ Copying /\ cmd.plus /\ cmd.name # "*" /\ top.files = Len(Others) =>
    LET text == cmd.args[Len(cmd.args)].type = "A"
        Ends(own) == {own \o Joined \o IF text THEN <<"^Z">> ELSE <<>>}
                       \cup IF room = 0 THEN {own \o Joined} ELSE {}
    IN  fs[Into].data \in UNION {Ends(own) : own \in Kept}

Holders(c) == {p \in Paths : Exists(p) /\ IsPrefix(c, fs[p].data)}

\* A read-only file that was moved, or could not be moved, is still read-only
\* (^C between the calls that clear and set the attribute loses it, and so does
\* the second of them when it fails, which MOVE does not notice).
StaysReadOnly ==
  AtTop("done") /\ Moving /\ breaks = Breaks /\ ~unset =>
    \A c \in ReadOnly : \A p \in Paths : Holders(c) = {p} => "R" \in fs[p].attr

\* MOVE closes every directory search it has opened, also after ^C.
SearchesClosed == Moving => top.lost = 0

\* Whatever fails, and whenever ^C is pressed, no contents are lost: what is
\* moved or copied is removed from one place when it is complete in another.
Safe == INSTANCE Transfer WITH Places <- Paths, where <- [c \in Valuable |-> Holders(c)]
SafeTransfer == Safe!Spec

=============================================================================
