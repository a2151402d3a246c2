---------------------------- MODULE FileCommands ----------------------------
(***************************************************************************)
(* DEL, REN, ATTRIB and TOUCH: the commands over their arguments, and the  *)
(* workers _del(), _attrib() and _touch() (and the loop of Ren_Cmd()) over *)
(* the files of a directory and, with /S, the directories below it.        *)
(*                                                                         *)
(* A step is what happens between two DOS calls, as in CopyMove.  Which    *)
(* calls fail and what the user answers is up to the environment.          *)
(***************************************************************************)
EXTENDS Integers, SequencesExt

CONSTANTS
  Commands,     \* the commands: [op, opts, args, dir, name, clock]
  Disks,        \* the file systems to start from: [Paths -> file or NULL]
  Dirs, Names,  \* all directories (sequences of names), and names of files
  Breaks,       \* how many times ^C is pressed: 0 or 1
  Garbage,      \* what an uninitialised date can be
  NULL

Paths == [dir : Dirs, name : Names]

VARIABLES
  fs,           \* the files: [attr, date, time, data], or NULL
  dirs,         \* the directories that exist
  cmd,          \* the command
  query,        \* DEL_QUERY, REN_QUERY: cleared by the answer "all"
  top,          \* XXX_Cmd(): [at, arg, nReturn, files]
  stack,        \* the activations of the worker
  clock,        \* TOUCH's sysDateTime: <<date, time>>, one for all levels
  env,          \* cv.env: who did the last setjmp(): a worker (its directory),
                \* XXX_Cmd() (AtCommand), or nobody in this command (<<>>)
  breaks,       \* how many more times ^C can be pressed
  lost,         \* how many searches were left open for good
  was,          \* the files when the command began,
  unset,        \* those whose attributes TOUCH could not read, or not give back,
  failed        \* and what went wrong: "error", or "no" (refused, made, interrupted)

vars == <<fs, dirs, cmd, query, top, stack, clock, env, breaks, lost, was, unset, failed>>
disk == <<fs, dirs>>
rest == <<cmd, breaks, was, unset>>
fixed == <<cmd, breaks, was>>

AtCommand == <<"command">>

Opt(o) == o \in cmd.opts
Is(op) == cmd.op = op
Path(d, n) == [dir |-> d, name |-> n]
Exists(p) == p \in Paths /\ fs[p] # NULL
Below(d) == {x \in Dirs : IsPrefix(d, x)}
SubDirs(d) == {x \in dirs \cap Below(d) : Len(x) = Len(d) + 1}
Listing(d) == {n \in Names : Exists(Path(d, n))}
SetMode(p, a) == [fs EXCEPT ![p].attr = a]

-----------------------------------------------------------------------------
(***************************************************************************)
(* Activations of the workers.                                             *)
(***************************************************************************)
\* A search that goes on in a directory may or may not find the names that
\* came into it later: first is what was there when it began.
NewFrame(d) == [dir |-> d, at |-> "entry", first |-> Listing(d), seen |-> {}, open |-> FALSE,
                name |-> NULL, attr |-> {}, uAttribute |-> {}, nReturn |-> "0"]

Cur == stack[Len(stack)]
Working(p) == stack # <<>> /\ Cur.at = p
Put(f) == stack' = [stack EXCEPT ![Len(stack)] = f]
Go(p) == Put([Cur EXCEPT !.at = p])
Target == Path(Cur.dir, Cur.name)

\* A worker returns r to the one that called it, or to the command.
Return(r) ==
  LET n == Len(stack) - 1
  IN  /\ stack' = [i \in 1 .. n |-> IF i = n THEN [stack[i] EXCEPT !.at = "subbed", !.nReturn = r]
                                    ELSE stack[i]]
      /\ top' = IF n = 0 THEN [top EXCEPT !.at = "returned", !.rc = r] ELSE top

\* What has failed for a file goes on with the next; the worker remembers it.
Fail == /\ failed' = failed \cup {"error"}
        /\ Put([Cur EXCEPT !.at = "find", !.nReturn = "err"])

Init ==
  /\ cmd \in Commands /\ fs \in Disks
  /\ dirs = {d \in Dirs : \E p \in Paths : p.dir \in Below(d) /\ fs[p] # NULL}
  /\ query = Opt("P") /\ top = [at |-> "args", arg |-> 1, nReturn |-> "0", rc |-> "0", files |-> 0]
  /\ stack = <<>> /\ clock = cmd.clock /\ env = <<>> /\ breaks = Breaks
  /\ lost = 0 /\ was = fs /\ unset = {} /\ failed = {}

-----------------------------------------------------------------------------
(***************************************************************************)
(* The arguments.                                                          *)
(***************************************************************************)
TopStep == UNCHANGED <<disk, rest, query, clock, env, lost>>
Arg == cmd.args[top.arg]
MoreArgs == top.at = "args" /\ top.arg <= Len(cmd.args)
NextArg == top' = [top EXCEPT !.arg = @ + 1]

\* ATTRIB: the + and - arguments that hold for a file name are those before it,
\* or all of them when it is the last name.
IsFile(i) == cmd.args[i].op = "file"
Switches == SubSeq(cmd.args, 1, IF \E i \in top.arg + 1 .. Len(cmd.args) : IsFile(i)
                                  THEN top.arg ELSE Len(cmd.args))

AndMask == {"R", "H", "A"} \ UNION {s.bits : s \in {t \in ToSet(Switches) : t.op = "-"}}
OrMask == FoldLeft(LAMBDA a, s : CASE s.op = "+" -> a \cup s.bits
                                   [] s.op = "-" -> a \ s.bits
                                   [] s.op = "file" -> a, {}, Switches)

PassSwitch ==
  /\ MoreArgs /\ ~IsFile(top.arg)
  /\ NextArg /\ UNCHANGED <<stack, failed>> /\ TopStep

\* mkfname() fails: REN goes on with the next name, DEL and ATTRIB end.  TOUCH
\* does not look at it.
BadName ==
  /\ MoreArgs /\ IsFile(top.arg) /\ ~Is("TOUCH")
  /\ top' = IF Is("REN") THEN [top EXCEPT !.arg = @ + 1] ELSE [top EXCEPT !.at = "done", !.nReturn = "err"]
  /\ failed' = failed \cup {"error"} /\ UNCHANGED stack /\ TopStep

\* DEL /D wants directories.
NotADir ==
  /\ MoreArgs /\ Is("DEL") /\ Opt("D")
  /\ top' = [top EXCEPT !.arg = @ + 1, !.nReturn = "err"]
  /\ failed' = failed \cup {"error"} /\ UNCHANGED stack /\ TopStep

\* "Are you sure (Y/N)?" before a whole directory is deleted.
Confirms == Is("DEL") /\ Arg.names = Names /\ ~query /\ ~Opt("Y")

Refused ==
  /\ MoreArgs /\ IsFile(top.arg) /\ Confirms
  /\ NextArg /\ failed' = failed \cup {"no"} /\ UNCHANGED stack /\ TopStep

Start ==
  /\ MoreArgs /\ IsFile(top.arg)
  /\ top' = [top EXCEPT !.at = "work"]
  /\ stack' = <<NewFrame(Arg.dir)>>
  /\ UNCHANGED failed /\ TopStep

\* DEL remembers that an argument failed; ATTRIB and TOUCH return what the
\* last one did; REN has one worker for all.
Sticky == Is("DEL") \/ Is("REN")
Returned ==
  /\ top.at = "returned"
  /\ LET stops == top.rc = "CTRLC"
     IN  top' = [top EXCEPT !.at = IF stops THEN "end" ELSE "args", !.arg = IF stops THEN @ ELSE @ + 1,
                            !.nReturn = IF Sticky /\ top.rc = "0" THEN @ ELSE top.rc]
  /\ env' = AtCommand
  /\ UNCHANGED <<stack, failed, disk, rest, query, clock, lost>>

End ==
  /\ top.at = "end" \/ (top.at = "args" /\ ~MoreArgs)
  /\ top' = [top EXCEPT !.at = "done",
                        !.nReturn = IF Sticky /\ top.files = 0 THEN "err" ELSE @]
  /\ UNCHANGED <<stack, failed>> /\ TopStep

Command == PassSwitch \/ BadName \/ NotADir \/ Refused \/ Start \/ Returned \/ End

-----------------------------------------------------------------------------
(***************************************************************************)
(* The loop over the files.                                                *)
(***************************************************************************)
Step == UNCHANGED <<rest, query, top, clock, lost>>

\* _del() and _touch() begin with a setjmp(), the others do it after find_file().
Enter ==
  /\ Working("entry")
  /\ Go("find") /\ env' = IF Is("DEL") \/ Is("TOUCH") THEN Cur.dir ELSE env
  /\ UNCHANGED <<disk, failed>> /\ Step

SeesHidden == Opt("H") \/ Opt("Z") \/ Is("ATTRIB") \/ Is("TOUCH")
Unseen == {n \in (Listing(Cur.dir) \cap Arg.names) \ Cur.seen :
             "H" \in fs[Path(Cur.dir, n)].attr => SeesHidden}

Find ==
  /\ Working("find")
  /\ \E n \in Unseen :
       Put([Cur EXCEPT !.at = "op", !.open = TRUE, !.seen = @ \cup {n}, !.name = n,
                       !.attr = fs[Path(Cur.dir, n)].attr])
  /\ env' = Cur.dir
  /\ UNCHANGED <<disk, failed>> /\ Step

\* find_file() closes the search at the end.
FindEnds ==
  /\ Working("find") /\ Unseen \cap Cur.first = {}
  /\ ~(Is("TOUCH") /\ Cur.seen = {})
  /\ Put([Cur EXCEPT !.at = "dirs", !.open = FALSE, !.seen = {}])
  /\ UNCHANGED <<disk, env, failed>> /\ Step

\* QueryInputChar(): yes, all, no, escape.
Ask ==
  /\ Working("op") /\ query
  /\ \/ Go("do") /\ query' = query
     \/ Go("do") /\ query' = FALSE
     \/ Go("find") /\ query' = query
     \/ Put([Cur EXCEPT !.at = "dirs", !.open = FALSE, !.seen = {}]) /\ query' = query
  /\ failed' = failed \cup {"no"}
  /\ UNCHANGED <<disk, rest, top, clock, env, lost>>

NoQuery ==
  /\ Working("op") /\ ~query
  /\ Go("do")
  /\ UNCHANGED <<disk, env, failed>> /\ Step

\* wildname(), and a target that is a directory takes the name of the source.
NewName == Path(cmd.dir, IF cmd.name = "*" THEN Cur.name ELSE cmd.name)

\* /N: everything but the doing; REN says when the target is there.
Nothing ==
  /\ Working("do") /\ Opt("N")
  /\ IF Is("REN") /\ Exists(NewName) THEN Fail ELSE Go("find") /\ UNCHANGED failed
  /\ UNCHANGED <<disk, env>> /\ Step

Files == Enter \/ Find \/ FindEnds \/ Ask \/ NoQuery \/ Nothing
Doing(op, p) == Is(op) /\ Working(p) /\ ~Opt("N")

-----------------------------------------------------------------------------
(***************************************************************************)
(* DEL.                                                                    *)
(***************************************************************************)
\* /W /Z: the attributes are cleared, if they can be, so that the file can be
\* opened.
DelBegins ==
  /\ Doing("DEL", "do")
  /\ Go(IF Opt("W") THEN "wipe" ELSE "remove")
  /\ fs' \in {fs} \cup IF Opt("W") /\ Opt("Z") THEN {SetMode(Target, {})} ELSE {}
  /\ UNCHANGED <<dirs, env, failed>> /\ Step

Wipe ==
  /\ Doing("DEL", "wipe")
  /\ \/ /\ "R" \notin fs[Target].attr /\ fs' = [fs EXCEPT ![Target].data = "zero"]
        /\ Go("remove") /\ UNCHANGED failed
     \/ Fail /\ UNCHANGED fs
  /\ UNCHANGED <<dirs, env>> /\ Step

Removes ==
  /\ fs' = [fs EXCEPT ![Target] = NULL]
  /\ top' = [top EXCEPT !.files = @ + 1]
  /\ Go("find") /\ UNCHANGED failed

Erase ==
  /\ Doing("DEL", "remove")
  /\ \/ "R" \notin fs[Target].attr /\ Removes
     \/ /\ IF Opt("Z") THEN Go("zap") /\ UNCHANGED failed ELSE Fail
        /\ UNCHANGED <<fs, top>>
  /\ UNCHANGED <<dirs, rest, query, clock, env, lost>>

\* /Z: once more, without attributes; when even these cannot be set, it failed.
Zap ==
  /\ Doing("DEL", "zap")
  /\ \/ fs' = SetMode(Target, {}) /\ Go("again") /\ UNCHANGED failed
     \/ Fail /\ UNCHANGED fs
  /\ UNCHANGED <<dirs, env>> /\ Step

RemoveAgain ==
  /\ Doing("DEL", "again")
  /\ Removes \/ (Fail /\ UNCHANGED <<fs, top>>)
  /\ UNCHANGED <<dirs, rest, query, clock, env, lost>>

Empty == SubDirs(Cur.dir) = {} /\ Listing(Cur.dir) = {}

\* /X: the directory is removed when it is empty and not the root; otherwise,
\* or when that fails, there is a message, but nothing is returned.
RemoveDir ==
  /\ Working("rmdir")
  /\ \E removes \in {FALSE, Opt("X") /\ ~Opt("N") /\ Len(Cur.dir) > 1 /\ Empty} :
         /\ dirs' = IF removes THEN dirs \ {Cur.dir} ELSE dirs
         /\ fs' = IF removes THEN [p \in Paths |-> IF p.dir = Cur.dir THEN NULL ELSE fs[p]] ELSE fs
  /\ Return(Cur.nReturn)
  /\ UNCHANGED <<rest, query, clock, env, lost, failed>>

Delete == DelBegins \/ Wipe \/ Erase \/ Zap \/ RemoveAgain

-----------------------------------------------------------------------------
(***************************************************************************)
(* ATTRIB and TOUCH.                                                       *)
(***************************************************************************)
Attrib ==
  /\ Doing("ATTRIB", "do")
  /\ LET new == (Cur.attr \cap AndMask) \cup OrMask
     IN  \/ fs' = SetMode(Target, new) /\ Go("find") /\ UNCHANGED failed
         \/ new # Cur.attr /\ Fail /\ UNCHANGED fs
  /\ UNCHANGED <<dirs, env>> /\ Step

\* A file that is not there is created with /C; its date is then read from a
\* search that has found nothing.
TouchCreates ==
  /\ Is("TOUCH") /\ Working("find") /\ Unseen = {} /\ Cur.seen = {} /\ Opt("C") /\ ~Opt("N")
  /\ \E n \in Arg.names :
       /\ fs' = [fs EXCEPT ![Path(Cur.dir, n)] = [attr |-> {"A"}, date |-> 0, time |-> 0, data |-> "empty"]]
       /\ Put([Cur EXCEPT !.at = "created", !.name = n, !.seen = {n}])
  /\ failed' = failed \cup {"no"} /\ UNCHANGED <<dirs, env>> /\ Step

TouchMissing ==
  /\ Is("TOUCH") /\ Working("find") /\ Unseen = {} /\ Cur.seen = {}
  /\ IF Opt("N") THEN Go("dirs") /\ UNCHANGED failed
     ELSE failed' = failed \cup {"error"} /\ Put([Cur EXCEPT !.at = "dirs", !.nReturn = "err"])
  /\ UNCHANGED <<disk, env>> /\ Step

\* Mutant: the first file's date is kept for all.
KeptOnce(d, t) == IF Cur.seen = {Cur.name} THEN <<d, t>> ELSE clock

\* /D and /T without a value: those of the file are kept.
Kept(d, t) == <<IF Opt("keepdate") THEN d ELSE clock[1], IF Opt("keeptime") THEN t ELSE clock[2]>>

TouchBegins ==
  /\ \/ Doing("TOUCH", "do") /\ clock' = Kept(fs[Target].date, fs[Target].time)
     \/ Working("created") /\ \E d \in Garbage, t \in Garbage : clock' = Kept(d, t)
  /\ Go(IF Opt("F") THEN "force" ELSE "set")
  /\ UNCHANGED <<disk, rest, query, top, env, lost, failed>>

\* /F: the read-only attribute is taken away and given back.  When it cannot be
\* read, that of the last file is taken for it; none of the calls is looked at.
TouchForces ==
  /\ Working("force")
  /\ \E a \in {fs[Target].attr, Cur.uAttribute} :
       /\ fs' \in {fs, SetMode(Target, a \ {"R"})}
       /\ Put([Cur EXCEPT !.at = "set", !.uAttribute = a])
       /\ unset' = IF a = fs[Target].attr THEN unset ELSE unset \cup {Target}
  /\ UNCHANGED <<dirs, env, failed, fixed, query, top, clock, lost>>

TouchSets ==
  /\ Working("set")
  /\ LET next == IF Opt("F") THEN "restore" ELSE "find"
     IN  \/ /\ "R" \notin fs[Target].attr
            /\ fs' = [fs EXCEPT ![Target].date = clock[1], ![Target].time = clock[2]]
            /\ Go(next) /\ UNCHANGED failed
         \/ Put([Cur EXCEPT !.at = next, !.nReturn = "err"]) /\ failed' = failed \cup {"error"} /\ UNCHANGED fs
  /\ UNCHANGED <<dirs, env>> /\ Step

TouchRestores ==
  /\ Working("restore")
  /\ LET old == SetMode(Target, Cur.uAttribute)
     IN  fs' \in {fs, old} /\ unset' = IF fs' = old THEN unset ELSE unset \cup {Target}
  /\ Go("find")
  /\ UNCHANGED <<dirs, env, failed, fixed, query, top, clock, lost>>

Touch == TouchCreates \/ TouchMissing \/ TouchBegins \/ TouchForces \/ TouchSets \/ TouchRestores

-----------------------------------------------------------------------------
(***************************************************************************)
(* REN.                                                                    *)
(***************************************************************************)
\* mkfname() fails inside the loop: Ren_Cmd() returns at once.
RenBadName ==
  /\ Doing("REN", "do")
  /\ top' = [top EXCEPT !.at = "done", !.nReturn = "err"]
  /\ stack' = <<>> /\ lost' = lost + 1 /\ failed' = failed \cup {"error"}
  /\ UNCHANGED <<disk, rest, query, clock, env>>

Rename ==
  /\ Doing("REN", "do")
  /\ \/ /\ ~Exists(NewName) /\ NewName.dir \in dirs
        /\ fs' = [fs EXCEPT ![NewName] = fs[Target], ![Target] = NULL]
        /\ top' = [top EXCEPT !.files = @ + 1]
        /\ Go("find") /\ UNCHANGED failed
     \/ Fail /\ UNCHANGED <<fs, top>>
  /\ UNCHANGED <<dirs, rest, query, clock, env, lost>>

-----------------------------------------------------------------------------
(***************************************************************************)
(* The loop over the subdirectories.                                       *)
(***************************************************************************)
Recurses == Opt("S") /\ ~Is("REN")

LeftDirs == IF Recurses THEN SubDirs(Cur.dir) \ Cur.seen ELSE {}

Descend ==
  /\ Working("dirs")
  /\ \E d \in LeftDirs :
       stack' = Append([stack EXCEPT ![Len(stack)].seen = @ \cup {d}, ![Len(stack)].open = TRUE],
                       NewFrame(d))
  /\ UNCHANGED <<disk, env, failed>> /\ Step

\* The worker for a subdirectory has returned: setjmp().  What it returned
\* replaces what was returned before.
Ascend ==
  /\ Working("subbed")
  /\ env' = Cur.dir
  /\ IF Cur.nReturn = "CTRLC" THEN Return("CTRLC") ELSE Go("dirs") /\ UNCHANGED top
  /\ UNCHANGED <<disk, rest, query, clock, lost, failed>>

DirsDone ==
  /\ Working("dirs") /\ LeftDirs = {}
  /\ IF Is("DEL") THEN Put([Cur EXCEPT !.at = "rmdir", !.open = FALSE]) /\ UNCHANGED top
     ELSE Return(Cur.nReturn)
  /\ UNCHANGED <<disk, rest, query, clock, env, lost, failed>>

Tree == Descend \/ Ascend \/ DirsDone \/ RemoveDir

-----------------------------------------------------------------------------
\* ^C in a DOS call: longjmp() to the worker that did the last setjmp(), which
\* closes its search and returns.  The searches of those above it stay open.
\* Before there was one, ^C ends the command; XXX_Cmd()'s own setjmp() makes it
\* stop, and ATTRIB and TOUCH then return what the last argument gave.
InDos == IF stack = <<>> THEN top.at = "args" ELSE Cur.at \notin {"entry", "subbed"}

Lost(i) == lost + Cardinality({j \in i .. Len(stack) : stack[j].open})

Interrupt ==
  /\ breaks > 0 /\ InDos
  /\ breaks' = breaks - 1 /\ failed' = failed \cup {"no"}
  /\ IF \E i \in DOMAIN stack : stack[i].dir = env
       THEN \E i \in DOMAIN stack :
              /\ stack[i].dir = env /\ lost' = Lost(i + 1)
              /\ IF i = 1
                   THEN stack' = <<>> /\ top' = [top EXCEPT !.at = "returned", !.rc = "CTRLC"]
                   ELSE /\ UNCHANGED top
                        /\ stack' = [j \in 1 .. i - 1 |->
                             IF j = i - 1 THEN [stack[j] EXCEPT !.at = "subbed", !.nReturn = "CTRLC"]
                             ELSE stack[j]]
       ELSE /\ stack' = <<>> /\ lost' = Lost(1)
            /\ top' = [top EXCEPT !.at = IF env = AtCommand THEN "end" ELSE "done",
                                  !.nReturn = IF env = AtCommand /\ ~Sticky THEN @ ELSE "CTRLC"]
  /\ UNCHANGED <<disk, cmd, was, unset, query, clock, env>>

Next == Command \/ Files \/ Delete \/ Attrib \/ Touch \/ RenBadName \/ Rename \/ Tree \/ Interrupt

Spec == Init /\ [][Next]_vars

-----------------------------------------------------------------------------
(***************************************************************************)
(* Properties.                                                             *)
(***************************************************************************)
Done == top.at = "done"

\* What DEL, ATTRIB and TOUCH work on: the files of the argument, here or below.
Covered(a) == {p \in Paths : /\ was[p] # NULL /\ p.name \in a.names
                             /\ p.dir \in (IF Recurses THEN Below(a.dir) ELSE {a.dir})
                             /\ "H" \in was[p].attr => SeesHidden}
Wanted(p) ==
  CASE Is("DEL") -> NULL
    [] Is("ATTRIB") -> [was[p] EXCEPT !.attr = (@ \cap AndMask) \cup OrMask]
    [] Is("TOUCH") -> [was[p] EXCEPT !.date = IF Opt("keepdate") THEN @ ELSE cmd.clock[1],
                                     !.time = IF Opt("keeptime") THEN @ ELSE cmd.clock[2]]

FileArgs == SelectSeq(cmd.args, LAMBDA a : a.op = "file")

\* When nothing failed, DEL, ATTRIB and TOUCH have done what they were told to
\* every file of the argument, at every depth, and have touched no other; but
\* nobody is told of attributes that TOUCH /F could not read or give back.
DoneAsTold ==
  Done /\ failed = {} /\ ~Is("REN") /\ ~Opt("N") /\ Len(FileArgs) = 1 =>
    \A p \in Paths :
      LET wanted == IF p \in Covered(FileArgs[1]) THEN Wanted(p) ELSE was[p]
      IN  wanted = IF p \in unset THEN [fs[p] EXCEPT !.attr = wanted.attr] ELSE fs[p]

\* TOUCH leaves the attributes of every file as they were, also when the date
\* could not be set: but ^C between taking read-only away and giving it back, and
\* a call for that very file that failed.
AttributesKept ==
  Done /\ Is("TOUCH") /\ breaks = Breaks =>
    \A p \in Paths \ unset : was[p] # NULL => fs[p].attr = was[p].attr

\* A file that was not deleted is lost all the same only with /W; no file
\* disappears without being counted, and REN loses none.
NothingLost ==
  Done /\ (Is("DEL") => ~Opt("W")) =>
    LET Files_(f) == Cardinality({p \in Paths : f[p] # NULL /\ f[p].data = "text"})
    IN  Files_(fs) = Files_(was) - (IF Is("DEL") THEN top.files ELSE 0)

\* A command on one directory fails when one of its files did, whatever came
\* after it (DEL and REN also when no file was found).
ErrorsReturned ==
  Done /\ "error" \in failed /\ ~Opt("S") /\ Len(FileArgs) = 1 => top.nReturn # "0"

\* However they end, DEL and TOUCH have closed every search they opened.
SearchesClosed == Is("DEL") \/ Is("TOUCH") => lost = 0

\* Types, and no two activations are for the same directory.
TypeOK ==
  /\ fs \in [Paths -> {NULL} \cup [attr : SUBSET {"R", "H", "A"}, date : Nat, time : Nat, data : {"text", "zero", "empty"}]]
  /\ \A p \in Paths : fs[p] # NULL => p.dir \in dirs
  /\ \A i \in DOMAIN stack : /\ stack[i].dir \in dirs /\ Len(stack[i].dir) = Len(Arg.dir) + i - 1
                             /\ i > 1 => IsPrefix(stack[i - 1].dir, stack[i].dir)
  /\ lost \in Nat /\ unset \subseteq Paths /\ failed \subseteq {"error", "no"}
=============================================================================
