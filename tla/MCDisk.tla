------------------------------- MODULE MCDisk -------------------------------
(***************************************************************************)
(* TLC runs the file commands: COPY and MOVE (CopyMove), DEL, REN, ATTRIB  *)
(* and TOUCH (FileCommands), DIR (Directory), the search for files they    *)
(* use (Search), the dates of its ranges (Calendar) and the descriptions   *)
(* of files (Descriptions).  "job" says what a behaviour is about; the      *)
(* variables of the others stay as they are.                               *)
(***************************************************************************)
EXTENDS CopyMove

VARIABLES job, tree, folders, order, query, worker, calls, clock, jmp, presses, leaked, before, lacking, went,
          line, argc, options, levels, uRecurse, totals, uDirRow, blocks, ctrlc, shown, figures, rc,
          call, wanted, fval, brackets, at, pattern, hdir, found, pc, today,
          start, present, ion, given, held, described

searchVars == <<call, wanted, fval, brackets, at, pattern, hdir, found, pc>>
descriptionVars == <<start, present, ion, given, held, described>>

dirVars == <<line, argc, options, levels, uRecurse, totals, uDirRow, blocks, ctrlc, shown, figures, rc>>
fileVars == <<tree, folders, order, query, worker, calls, clock, jmp, presses, leaked, before, lacking, went>>

-----------------------------------------------------------------------------
(***************************************************************************)
(* COPY and MOVE: the disks and the commands.                              *)
(***************************************************************************)
S == <<"s">>
SD == <<"s", "d">>
SE == <<"s", "e">>
T == <<"t">>
TD == <<"t", "d">>
MCDirs == {S, SD, SE, T, TD}
MCNames == {"a", "b", "c"}

\* "a" is longer than the buffer; "b" is read-only and has a ^Z in it.
A == <<"a1", "a2", "a3">>
B == <<"b1", "^Z", "b2">>
D == <<"d1", "d2">>
Old == <<"o1", "^Z">>
MCUnits == {"a1", "a2", "a3", "b1", "b2", "d1", "d2", "o1", "^Z", "zero", "junk"}
MCContents == {A, B, D, Old}
\* What was in the target may be overwritten.
MCValuable == {A, B, D}
MCReadOnly == {B}

File(data, time, attr) == [data |-> data, time |-> time, attr |-> attr]

\* The target directory is empty but for a "c", or has an older or a newer "a".
Disk(a) ==
  [p \in [dir : MCDirs, name : MCNames] |->
     CASE p = [dir |-> S, name |-> "a"] -> File(A, 2, {"A"})
       [] p = [dir |-> S, name |-> "b"] -> File(B, 1, {"R", "A"})
       [] p = [dir |-> SD, name |-> "b"] -> File(D, 1, {"H"})
       [] p = [dir |-> T, name |-> a] -> File(Old, IF a = "a" THEN 1 ELSE 2, {})
       [] OTHER -> NULL]
MCDisks == {Disk("a"), Disk("b"), Disk("c")}

Of(dir, names, type) ==
  [dir |-> dir, names |-> names, type |-> type, whole |-> FALSE, full |-> FALSE]
Command_(op, opts, args, dir, name) ==
  [op |-> op, opts |-> opts, args |-> args, type |-> "", dir |-> dir, name |-> name,
   plus |-> FALSE, same |-> FALSE]

All == {"a", "b", "c"}
MCCommands == {
  Command_("MOVE", {"S", "V", "H"}, <<Of(S, All, "")>>, T, "*"),
  [Command_("MOVE", {"S", "Z"}, <<Of(S, All, "")>>, T, "*") EXCEPT !.same = TRUE],
  [Command_("MOVE", {"R"}, <<Of(S, {"a"}, ""), Of(S, {"b"}, "")>>, T, "*") EXCEPT !.same = TRUE],
  Command_("MOVE", {"W", "D"}, <<Of(S, {"a", "b"}, "")>>, TD, "*"),
  [Command_("MOVE", {}, <<Of(S, {"a", "b"}, "")>>, T, "c") EXCEPT !.same = TRUE],
  Command_("MOVE", {}, <<Of(S, {"a", "b"}, "")>>, S, "b"),
  [Command_("MOVE", {"S"}, <<[Of(SD, All, "") EXCEPT !.whole = TRUE]>>, SE, "*") EXCEPT !.same = TRUE],
  Command_("COPY", {"S", "V", "H", "X"}, <<Of(S, All, "")>>, T, "*"),
  Command_("COPY", {"U", "M"}, <<Of(S, {"a"}, ""), Of(S, {"b"}, "")>>, T, "*"),
  Command_("COPY", {"C", "K", "P", "Z"}, <<Of(S, {"a", "b"}, "")>>, T, "*"),
  Command_("COPY", {"O", "R", "N"}, <<Of(S, {"a", "b"}, "")>>, T, "*"),
  Command_("COPY", {"S", "V"}, <<Of(S, All, "")>>, SD, "*"),
  Command_("COPY", {"R"}, <<Of(S, {"a", "b", "c"}, "")>>, S, "c"),
  [Command_("COPY", {}, <<Of(S, {"b"}, "A"), Of(S, {"a"}, "A")>>, T, "c") EXCEPT !.plus = TRUE],
  [Command_("COPY", {}, <<Of(S, {"a"}, "A"), Of(SD, {"b"}, "B")>>, T, "c") EXCEPT !.plus = TRUE],
  [Command_("COPY", {"H"}, <<Of(S, {"b"}, "B"), Of(SD, {"b"}, "A")>>, T, "c") EXCEPT !.plus = TRUE],
  [Command_("COPY", {"Z"}, <<[Of(T, {"b"}, "A") EXCEPT !.full = TRUE], Of(S, {"a"}, "A")>>, T, "b") EXCEPT !.plus = TRUE],
  [Command_("COPY", {}, <<Of(S, {"a"}, "A"), Of(S, {"b"}, "A")>>, T, "*") EXCEPT !.plus = TRUE]}

-----------------------------------------------------------------------------
(***************************************************************************)
(* The other commands.                                                     *)
(***************************************************************************)
SDE == <<"s", "d", "e">>
FileDirs == {S, SD, SDE, T}
Entry(attr, day) == [attr |-> attr, date |-> day, time |-> day, data |-> "text"]

FileDisks ==
  {[p \in [dir : FileDirs, name : MCNames] |->
     CASE p = [dir |-> S, name |-> "a"] -> Entry({"A"}, 1)
       [] p = [dir |-> S, name |-> "b"] -> Entry({"R", "A"}, 2)
       [] p = [dir |-> SD, name |-> "b"] -> Entry({"H"}, 3)
       [] p = [dir |-> SDE, name |-> "a"] -> Entry({}, 4)
       [] p = [dir |-> T, name |-> "b"] -> Entry({}, 5)
       [] OTHER -> NULL]}

Args(dir, names) == [op |-> "file", bits |-> {}, dir |-> dir, names |-> names]
Plus(bits) == [op |-> "+", bits |-> bits, dir |-> S, names |-> {}]
Minus(bits) == [op |-> "-", bits |-> bits, dir |-> S, names |-> {}]

Order(op, opts, args) ==
  [op |-> op, opts |-> opts, args |-> args, dir |-> T, name |-> "*", clock |-> <<8, 9>>]

FileOrders == {
  Order("DEL", {"S", "X", "Y"}, <<Args(S, All)>>),
  Order("DEL", {"S", "X", "Z", "W"}, <<Args(S, All)>>),
  Order("DEL", {"S", "X", "H", "Z", "Y"}, <<Args(SD, All), Args(S, {"a"})>>),
  Order("DEL", {"P"}, <<Args(S, All), Args(T, {"b"})>>),
  Order("DEL", {"D", "W"}, <<Args(S, {"a", "b"}), Args(T, {"b"})>>),
  Order("DEL", {"N", "Y"}, <<Args(S, All)>>),
  Order("REN", {}, <<Args(S, {"a", "b"})>>),
  Order("REN", {"P"}, <<Args(S, {"a"}), Args(SD, {"b"})>>),
  Order("REN", {"N"}, <<Args(S, {"a", "b"})>>),
  [Order("REN", {}, <<Args(S, {"a", "b"})>>) EXCEPT !.name = "c"],
  Order("ATTRIB", {"S"}, <<Plus({"R", "H"}), Minus({"R", "A"}), Args(S, All)>>),
  Order("ATTRIB", {}, <<Minus({"R"}), Args(S, {"b"}), Plus({"R"}), Args(SD, {"b"})>>),
  Order("ATTRIB", {}, <<Args(S, {"a", "b"}), Plus({"H"}), Minus({"A"})>>),
  Order("TOUCH", {"S", "F"}, <<Args(S, All)>>),
  Order("TOUCH", {"S", "keepdate"}, <<Args(S, All)>>),
  Order("TOUCH", {"C", "F", "keeptime"}, <<Args(T, {"a"}), Args(S, {"a", "b"})>>),
  Order("TOUCH", {"N"}, <<Args(T, {"a"}), Args(S, {"a"})>>)}

F == INSTANCE FileCommands WITH
       Commands <- FileOrders, Disks <- FileDisks, Dirs <- FileDirs, Names <- MCNames,
       Garbage <- {0, 7},
       fs <- tree, dirs <- folders, cmd <- order, top <- worker, stack <- calls,
       env <- jmp, breaks <- presses, lost <- leaked, was <- before, unset <- lacking, failed <- went

\* Names, dates, extensions and sizes are numbers; 0 is ".".
En(n, dir, size, date) ==
  [name |-> n, dir |-> dir, size |-> size, date |-> date, ext |-> n % 2, stem |-> n \div 2]
Dot == En(0, TRUE, 0, 1)
Listings == [d \in {<<>>, <<2>>, <<2, 5>>} |->
  CASE d = <<>> -> <<En(4, FALSE, 5, 1), En(1, FALSE, 6, 2), Dot, En(2, TRUE, 0, 3), En(3, FALSE, 5, 2),
                     En(6, FALSE, 0, 1), En(7, FALSE, 3, 4)>>
    [] d = <<2>> -> <<En(3, FALSE, 6, 2), Dot, En(5, TRUE, 0, 2), En(1, FALSE, 1, 1)>>
    [] OTHER -> <<Dot, En(9, FALSE, 6, 2)>>]
What(d) == [op |-> "file", dir |-> d]
Options(set) == [op |-> "switch", set |-> set]
Only(o) == [op |-> o]
Sorts == {<<>>, <<"u">>, <<"n">>, <<"-", "n">>, <<"s">>, <<"d", "-", "s">>, <<"r">>, <<"g", "e", "r">>,
          <<"-">>, <<"s", "u">>, <<"e", "-">>}
DirLines ==
  {<<Options([sort |-> s, columns |-> c, allocated |-> c = 2])>> : s \in Sorts, c \in {1, 2}}
  \cup {<<Options([vsort |-> TRUE, columns |-> c, page |-> p, nodots |-> n, allocated |-> g]), What(d)>> :
           c \in 1 .. 5, p \in BOOLEAN, n \in BOOLEAN, g \in BOOLEAN, d \in {<<>>, <<2>>}}
  \cup {<<Options([vsort |-> TRUE, columns |-> 3, recurse |-> TRUE, allocated |-> TRUE]), What(<<>>)>>}
  \cup {<<What(<<>>), Options([recurse |-> TRUE, summary |-> s, bare |-> b])>> :
           s \in {"none", "local", "global", "both"}, b \in BOOLEAN}
  \cup {<<What(<<2>>), Options([recurse |-> TRUE]), What(<<>>)>>,
        <<Options([recurse |-> TRUE]), What(<<2>>), What(<<>>), Options([nofooter |-> TRUE])>>,
        <<Options([recurse |-> TRUE, sort |-> <<"n">>]), Only("reset"), What(<<8>>), Only("bad")>>,
        <<What(<<2>>), Only("reset"), Options([summary |-> "global"]), What(<<2>>)>>}

Dir == INSTANCE Directory WITH
       Lines <- DirLines, Volume <- Listings, Word <- 8, Cluster <- 2, Rows <- 3, Breaks <- 1,
       args <- line, flags <- options, stack <- levels, tree <- totals, breaks <- ctrlc

I == INSTANCE DiskInputs
Look == INSTANCE Search WITH
          Searches <- I!Searches, Folders <- I!Folders, Today <- 3, Now <- 1, Minutes <- 8,
          MaxDate <- 9, MaxSize <- 9, arg <- wanted

\* All days from 1980 to 1984, around 2000 and at the end.
Cal == INSTANCE Calendar WITH day <- today, Days <- (0 .. 1900) \cup (6900 .. 7800) \cup (43400 .. 43827)

De == INSTANCE Descriptions WITH
        Directories <- I!MCDirectories, Long <- {"long"}, Texts <- {"", "x", "yy"}, LineSize <- I!MCLineSize,
        Block <- 9, MaxCommands <- 2,
        dirs <- start, files <- present, wanted <- given, commands <- described

\* The variables of the commands that a behaviour is not about.
NoFiles == /\ tree = [p \in F!Paths |-> NULL] /\ folders = {} /\ order = Order("DEL", {}, <<>>)
           /\ query = FALSE /\ worker = [at |-> "args", arg |-> 1, nReturn |-> "0", rc |-> "0", files |-> 0]
           /\ calls = <<>> /\ clock = <<>> /\ jmp = <<>> /\ presses = 0 /\ leaked = 0
           /\ before = tree /\ lacking = {} /\ went = {}

NoCopy == /\ fs = Disk("a") /\ dirs = MCDirs /\ room = 0 /\ cmd = Command_("COPY", {}, <<>>, T, "*")
          /\ flags = {} /\ verify = FALSE /\ signals = TRUE /\ fException = FALSE /\ fDiskFull = FALSE
          /\ breaks = 0 /\ unset = FALSE /\ stack = <<>> /\ fc = NULL /\ env = CommandEnv
          /\ top = [at |-> "args", arg |-> 1, nReturn |-> "0", files |-> 0, offset |-> 0, tname |-> NULL, lost |-> 0]

NoDir == /\ line = <<>> /\ argc = 0 /\ options = Dir!init_dir /\ levels = <<>> /\ uRecurse = 0
         /\ totals = Dir!NoTree /\ uDirRow = 0 /\ blocks = 0 /\ ctrlc = 0 /\ shown = <<>> /\ figures = <<>> /\ rc = "none"

NoSearch == /\ call = I!Ask(<<>>)
            /\ wanted = <<>> /\ fval = "first" /\ brackets = FALSE /\ at = 0
            /\ pattern = <<>> /\ hdir = FALSE /\ found = <<>> /\ pc = "caller"

NoDescriptions == start = <<>> /\ present = <<>> /\ ion = <<>> /\ given = <<>> /\ held = FALSE /\ described = 0

DiskInit == \/ job = "copy" /\ Init /\ NoFiles /\ NoDir /\ NoSearch /\ today = 0 /\ NoDescriptions
            \/ job = "files" /\ F!Init /\ NoCopy /\ NoDir /\ NoSearch /\ today = 0 /\ NoDescriptions
            \/ job = "dir" /\ Dir!Init /\ NoCopy /\ NoFiles /\ NoSearch /\ today = 0 /\ NoDescriptions
            \/ job = "search" /\ Look!Init /\ NoCopy /\ NoFiles /\ NoDir /\ today = 0 /\ NoDescriptions
            \/ job = "calendar" /\ Cal!Init /\ NoCopy /\ NoFiles /\ NoDir /\ NoSearch /\ NoDescriptions
            \/ job = "describe" /\ De!Init /\ NoCopy /\ NoFiles /\ NoDir /\ NoSearch /\ today = 0

DiskNext == /\ UNCHANGED job
            /\ \/ job = "copy" /\ Next /\ UNCHANGED <<fileVars, dirVars, searchVars, today, descriptionVars>>
               \/ job = "files" /\ F!Next /\ UNCHANGED <<vars, dirVars, searchVars, today, descriptionVars>>
               \/ job = "dir" /\ Dir!Next /\ UNCHANGED <<vars, fileVars, searchVars, today, descriptionVars>>
               \/ job = "search" /\ Look!Next /\ UNCHANGED <<vars, fileVars, dirVars, today, descriptionVars>>
               \/ job = "calendar" /\ Cal!Next /\ UNCHANGED <<vars, fileVars, dirVars, searchVars, descriptionVars>>
               \/ job = "describe" /\ De!Next /\ UNCHANGED <<vars, fileVars, dirVars, searchVars, today>>

DiskSpec == DiskInit /\ [][DiskNext]_<<vars, fileVars, dirVars, searchVars, today, descriptionVars, job>>

\* DEL, REN, ATTRIB and TOUCH do to every file what they were told and to no other file anything,
\* no file is lost uncounted, and a command on one directory returns what went wrong.  COPY a+b
\* appends all of each source, and what MOVE moves is read-only when it was.
DoneAsTold == /\ F!DoneAsTold /\ F!AttributesKept /\ F!NothingLost /\ F!ErrorsReturned
              /\ AppendsAll /\ StaysReadOnly

\* Whatever happens, MOVE, DEL and TOUCH close every search they have opened,
\* and DIR frees its memory.
NothingHeld == SearchesClosed /\ F!SearchesClosed /\ Dir!AllFreed

\* DIR displays each entry exactly once, in order, and its totals are right, also those of a branch.
ListsRight == job = "dir" => Dir!ListsEach /\ Dir!TotalsRight

\* Each file keeps the description that was given to it.
DescriptionsKept == job = "describe" => De!DescriptionsKept

\* A search finds all the files it is for, each once, and is closed; and the dates,
\* days and weeks of its ranges follow each other in the calendar.
FindsAll == (job = "search" => Look!FindsAll) /\ (job = "calendar" => Cal!DatesFollow)
=============================================================================
