------------------------------- MODULE Prefix -------------------------------
(***************************************************************************)
(* GLOBAL and EXCEPT (SYSCMDS.C): commands that run another command, in    *)
(* every directory of a tree, or with some files hidden.  The other        *)
(* command may fail, be interrupted, leave the batch file's place, and     *)
(* remove directories or change to one.                                    *)
(***************************************************************************)
EXTENDS Integers, SequencesExt

CONSTANTS
  Lines,        \* the commands: [op, opts], op "GLOBAL" or "EXCEPT"
  Below,        \* the directories, sequences of names; the shortest is current
  HiddenDirs,   \* those that are hidden
  Files,        \* the files on EXCEPT's list, in the current directory,
  Rooted,       \* and those that it names with drive and directory
  Breaks        \* how many times ^C is pressed, at most

Top == CHOOSE d \in Below : \A x \in Below : IsPrefix(d, x)

\* Directories are a tree: each but the top one is in another.
ASSUME PrefixAssumption ==
  /\ Below \subseteq Seq(UNION {Range(d) : d \in Below})
  /\ \E d \in Below : \A x \in Below : IsPrefix(d, x)
  /\ \A d \in Below \ {Top} : Front(d) \in Below

Elsewhere == <<>>

VARIABLES
  line,         \* the command
  at,           \* where Global_Cmd() or Except_Cmd() is
  disk,         \* the directories that exist
  cwd,          \* the current directory of the drive where the command began
  away,         \* has the shell gone to another drive?
  stack,        \* the activations of _global()
  mask,         \* does the path that all of them share end with a wildcard?
  jumped,       \* the batch file has gone elsewhere: lOffset changed
  exception,    \* cv.fException
  rc,
  hidden,       \* the files that are hidden
  todo,         \* the files that the loop at hand has still to come to
  breaks,
  visited,      \* directories that had their turn: the command ran or was refused,
  gone,         \* and those that were removed, or where it could not be run
  stuck         \* files whose attributes could not be set

prefixVars == <<line, at, disk, cwd, away, stack, mask, jumped, exception, rc, hidden, todo, breaks,
          visited, gone, stuck>>
global == <<disk, away, stack, mask, jumped, visited, gone>>
except == <<hidden, todo, stuck>>

Opt(o) == o \in line.opts

PrefixInit ==
  /\ line \in Lines /\ at = "start" /\ disk = Below /\ cwd = Top /\ away = FALSE /\ stack = <<>>
  /\ mask = TRUE /\ jumped = FALSE /\ exception = FALSE /\ rc = "0"
  /\ hidden \in SUBSET Files /\ todo = {} /\ breaks = Breaks
  /\ visited = {} /\ gone = {} /\ stuck = {}

-----------------------------------------------------------------------------
(***************************************************************************)
(* _global()                                                               *)
(***************************************************************************)
Cur == stack[Len(stack)]
In(p) == stack # <<>> /\ Cur.at = p
NewFrame(d, prompt) == [dir |-> d, at |-> "enter", prompt |-> prompt, seen |-> {}, open |-> FALSE]
Put(f) == stack' = [stack EXCEPT ![Len(stack)] = f]

\* A value other than 0 ends the loop of the caller too.
Leave(r) ==
  LET n == Len(stack) - 1
      up == SubSeq(stack, 1, n)
  IN  /\ stack' = [i \in 1 .. n |->
                    IF i = n THEN [up[i] EXCEPT !.at = IF r = "0" THEN "find" ELSE "stop"] ELSE up[i]]
      /\ rc' = r
      /\ at' = IF n = 0 THEN "restore" ELSE at

GlobalStarts ==
  /\ at = "start" /\ line.op = "GLOBAL"
  /\ at' = "global" /\ stack' = <<NewFrame(Top, Opt("P"))>>
  /\ UNCHANGED <<line, away, disk, cwd, mask, jumped, exception, rc, breaks, visited, gone, except>>

\* chdir() to the directory fails: it is gone, or may not be entered.
GlobalCannotEnter ==
  /\ In("enter") /\ Len(stack) > 1
  /\ Leave(IF Opt("I") THEN "0" ELSE "err")
  /\ gone' = gone \cup {Cur.dir}
  /\ UNCHANGED <<line, away, disk, cwd, mask, jumped, exception, breaks, visited, except>>

GlobalEnters ==
  /\ In("enter") /\ Cur.dir \in disk
  /\ cwd' = Cur.dir
  /\ Put([Cur EXCEPT !.at = IF Cur.prompt THEN "ask" ELSE "command"])
  /\ UNCHANGED <<line, away, at, disk, mask, jumped, exception, rc, breaks, visited, gone, except>>

Answered(p) == [Cur EXCEPT !.at = "command", !.prompt = p]

\* The answers: yes, all (for this directory and those below), no, escape.
GlobalAsks ==
  /\ In("ask")
  /\ \/ /\ \E p \in BOOLEAN : Put(Answered(p))
        /\ UNCHANGED <<at, rc, visited>>
     \/ /\ Put([Cur EXCEPT !.at = "next"]) /\ visited' = visited \cup {Cur.dir}
        /\ UNCHANGED <<at, rc>>
     \/ Leave("err") /\ UNCHANGED visited
  /\ UNCHANGED <<line, away, disk, cwd, mask, jumped, exception, breaks, gone, except>>

\* command(): done, failed, gone elsewhere in the batch file, interrupted.
Results == {<<"0", FALSE, FALSE>>, <<"err", FALSE, FALSE>>, <<"0", TRUE, FALSE>>}
           \cup (IF breaks > 0 THEN {<<"CTRLC", FALSE, TRUE>>} ELSE {})

\* chdir() does not change the drive: when an earlier command has left it, this
\* one runs there.
GlobalCommand ==
  /\ In("command")
  /\ \E r \in Results, removed \in SUBSET {d \in disk : Cur.dir # d /\ Front(d) = Cur.dir} :
       /\ jumped' = r[2] /\ exception' = r[3] /\ breaks' = IF r[3] THEN breaks - 1 ELSE breaks
       /\ disk' = {d \in disk : \A x \in removed : ~IsPrefix(x, d)}
       /\ gone' = gone \cup {d \in disk : \E x \in removed : IsPrefix(x, d)}
                       \cup (IF away THEN {Cur.dir} ELSE {})
       /\ IF r[3] \/ (r[1] # "0" /\ ~Opt("I")) THEN Leave(r[1])
          ELSE Put([Cur EXCEPT !.at = "next"]) /\ UNCHANGED <<at, rc>>
  /\ visited' = visited \cup {Cur.dir}
  /\ cwd' \in {cwd, Elsewhere} /\ away' \in BOOLEAN
  /\ UNCHANGED <<line, mask, except>>

\* A GOTO, CANCEL or QUIT ends it; else the shared path is made a search for
\* the subdirectories.
GlobalNext ==
  /\ In("next")
  /\ IF jumped THEN Leave("0") /\ UNCHANGED mask
     ELSE Put([Cur EXCEPT !.at = "find"]) /\ mask' = TRUE /\ UNCHANGED <<at, rc>>
  /\ UNCHANGED <<line, away, disk, cwd, jumped, exception, breaks, visited, gone, except>>

\* find_file(): the next name, but none when the path has no wildcard.
Subdirectories ==
  IF Cur.open /\ ~mask THEN {}
  ELSE {d \in disk \ Cur.seen : /\ Len(d) = Len(Cur.dir) + 1 /\ IsPrefix(Cur.dir, d)
                                /\ d \in HiddenDirs => Opt("H")}

Goes(d) == [Cur EXCEPT !.seen = @ \cup {d}, !.open = TRUE]

GlobalFinds ==
  /\ In("find") /\ ~exception
  /\ \E d \in Subdirectories :
       /\ stack' = Append([stack EXCEPT ![Len(stack)] = Goes(d)], NewFrame(d, Cur.prompt))
       /\ mask' = FALSE
  /\ UNCHANGED <<line, away, at, disk, cwd, jumped, exception, rc, breaks, visited, gone, except>>

GlobalFindsNone ==
  /\ In("find") /\ (exception \/ Subdirectories = {})
  /\ Leave(IF exception THEN "CTRLC" ELSE "0")
  /\ UNCHANGED <<line, away, disk, cwd, mask, jumped, exception, breaks, visited, gone, except>>

\* The error of a subdirectory ends the loop; ^C does too, where it hits.
GlobalStops ==
  /\ In("stop") \/ (In("find") /\ breaks > 0)
  /\ IF In("stop") THEN Leave(rc) /\ UNCHANGED <<exception, breaks>>
     ELSE Leave("CTRLC") /\ exception' = TRUE /\ breaks' = breaks - 1
  /\ UNCHANGED <<line, away, disk, cwd, mask, jumped, visited, gone, except>>

\* Whether chdir() fails is not asked.
GlobalRestores ==
  /\ at = "restore" /\ line.op = "GLOBAL"
  /\ at' = "done"
  /\ \/ cwd' = Top /\ UNCHANGED gone
     \/ gone' = gone \cup {Top} /\ UNCHANGED cwd
  /\ UNCHANGED <<line, away, exception, rc, breaks, disk, stack, mask, jumped, visited, except>>

-----------------------------------------------------------------------------
(***************************************************************************)
(* Except_Cmd()                                                            *)
(***************************************************************************)
ExceptStep == UNCHANGED <<line, global>>

\* The files that are not hidden are found, and hidden.
ExceptStarts ==
  /\ at = "start" /\ line.op = "EXCEPT"
  /\ at' = "hide" /\ todo' = Files \ hidden
  /\ UNCHANGED <<cwd, exception, rc, hidden, breaks, stuck>> /\ ExceptStep

ExceptHides ==
  /\ at = "hide"
  /\ \E f \in todo : hidden' = hidden \cup {f} /\ todo' = todo \ {f}
  /\ UNCHANGED <<at, cwd, exception, rc, breaks, stuck>> /\ ExceptStep

\* The attributes cannot be read or set: the command is not run.
ExceptCannotHide ==
  /\ at = "hide" /\ todo # {}
  /\ rc' = "err" /\ at' = "unhide" /\ todo' = Files
  /\ UNCHANGED <<cwd, exception, hidden, breaks, stuck>> /\ ExceptStep

\* ^C: jumps to the setjmp() before the loop.
ExceptBreak ==
  /\ at = "hide" /\ breaks > 0
  /\ rc' = "CTRLC" /\ exception' = TRUE /\ breaks' = breaks - 1
  /\ at' = "unhide" /\ todo' = Files
  /\ UNCHANGED <<cwd, hidden, stuck>> /\ ExceptStep

\* The command; whatever it does to the files, they are looked for again.  It may
\* also change the directory.
ExceptCommand ==
  /\ at = "hide" /\ todo = {}
  /\ \E r \in Results :
       /\ rc' = r[1] /\ exception' = r[3] /\ breaks' = IF r[3] THEN breaks - 1 ELSE breaks
  /\ hidden' \in {hidden, {}}
  /\ at' = "unhide" /\ todo' = Files /\ cwd' \in {cwd, Elsewhere}
  /\ UNCHANGED stuck /\ ExceptStep

\* The files that the list still means: a name without a directory is looked for
\* in the one that is current now.
Meant == IF cwd = Top THEN Files ELSE Rooted

\* Mutant: only the files that are not hidden are found again.
UnhidesVisible ==
  /\ at = "unhide"
  /\ \E f \in todo : /\ todo' = todo \ {f}
                     /\ hidden' = hidden
  /\ UNCHANGED <<at, cwd, exception, rc, breaks, stuck>> /\ ExceptStep

ExceptUnhides ==
  /\ at = "unhide"
  /\ \E f \in todo : /\ todo' = todo \ {f}
                     /\ \/ f \in Meant /\ hidden' = hidden \ {f} /\ UNCHANGED stuck
                        \/ f \in Meant /\ stuck' = stuck \cup {f} /\ UNCHANGED hidden
                        \/ f \notin Meant /\ UNCHANGED <<hidden, stuck>>
  /\ UNCHANGED <<at, cwd, exception, rc, breaks>> /\ ExceptStep

\* ^C jumps to the setjmp() after the command: the files are unhidden from the
\* first one again.
ExceptAgain ==
  /\ at = "unhide" /\ breaks > 0
  /\ rc' = "CTRLC" /\ exception' = TRUE /\ breaks' = breaks - 1
  /\ todo' = Files
  /\ UNCHANGED <<at, cwd, hidden, stuck>> /\ ExceptStep

ExceptEnds ==
  /\ at = "unhide" /\ todo = {}
  /\ at' = "done"
  /\ UNCHANGED <<cwd, exception, rc, hidden, todo, breaks, stuck>> /\ ExceptStep

PrefixNext ==
  \/ GlobalStarts \/ GlobalCannotEnter \/ GlobalEnters \/ GlobalAsks \/ GlobalCommand
  \/ GlobalNext \/ GlobalFinds \/ GlobalFindsNone \/ GlobalStops \/ GlobalRestores
  \/ ExceptStarts \/ ExceptHides \/ ExceptCannotHide \/ ExceptBreak \/ ExceptCommand
  \/ ExceptUnhides \/ ExceptAgain \/ ExceptEnds

PrefixSpec == PrefixInit /\ [][PrefixNext]_prefixVars

-----------------------------------------------------------------------------
(***************************************************************************)
(* Properties.                                                             *)
(***************************************************************************)
Finished(op) == at = "done" /\ line.op = op
Told == {d \in Below : d \in HiddenDirs => Opt("H")}
Reachable(without) == {d \in Told : \A i \in 1 .. Len(d) : SubSeq(d, 1, i) \in Below =>
                                                             SubSeq(d, 1, i) \in Told \ without}

\* A GLOBAL that returns 0 and was not left by GOTO, CANCEL or QUIT has run its
\* command in every directory, unless one was removed or had changed the drive;
\* and however it ends, the drive has the directory that it began with, if that
\* can be entered.
GlobalVisits ==
  Finished("GLOBAL") =>
    /\ cwd = Top \/ Top \in gone
    /\ rc = "0" /\ ~jumped /\ gone = {} => Reachable({}) \subseteq visited

\* EXCEPT leaves none of its files hidden, wherever ^C or an error strikes,
\* unless the attributes of a file could not be set, or the command has changed the
\* directory and the list does not say where the file is.
NoneStaysHidden == Finished("EXCEPT") => hidden \cap Meant \subseteq stuck

\* Both commands put back what they changed, and GLOBAL misses no directory.
PrefixesReturn == GlobalVisits /\ NoneStaysHidden
=============================================================================
