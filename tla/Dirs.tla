-------------------------------- MODULE Dirs --------------------------------
(***************************************************************************)
(* The current directories, the directory stack (PUSHD, POPD), the history *)
(* of directories, and the database JPSTREE.IDX of the extended directory  *)
(* search (SYSCMDS.C).  A directory is <<drive, name, ...>>; the database  *)
(* is the sequence of its lines, NULL when there is no file.               *)
(***************************************************************************)
EXTENDS Integers, SequencesExt, FiniteSetsExt

CONSTANTS
  Order,        \* all directories there can be, in the order TREE lists them
  Hard,         \* the drives that CDD /S indexes: the hard disks
  Makes,        \* the directories that MD and RD are given
  Updates,      \* those that CDD /U and /D are given
  Args,         \* the arguments of CD: [drive (or NULL), rel, names]
  CdPath,       \* CDPATH
  FuzzyCD,      \* gpIniptr->FuzzyCD
  Begins(_, _), Holds(_, _),     \* of names: of file names, as strings
  Size,         \* of a directory: strlen() + 1
  QueueSize, HistorySize,           \* DIRSTACKSIZE, gpIniptr->DirHistorySize
  Starts,       \* what is there at first, and which commands are typed: [disk, index, cmds]
  MaxPushes, MaxLines,  \* bound the PUSHDs that are remembered, and the database
  NULL

\* What is assumed of them.
DirsAssumption == FuzzyCD \in 0 .. 3 /\ MaxPushes \in Nat

All == ToSet(Order)
Drives == {d[1] : d \in All}
Parent(d) == SubSeq(d, 1, Len(d) - 1)
GarbledLine == <<NULL>>

VARIABLES
  disk,         \* the directories that exist
  curs, drive,  \* the current directory of each drive; the current drive
  last,         \* szLastDirectory: like Args, or NULL
  queue,        \* gaPushdQueue
  history,      \* glpDirHistory
  index,        \* JPSTREE.IDX
  rc,           \* what the last command returned
  pushes,       \* the PUSHDs that no POPD has undone,
  unlisted,     \* the directories made by MD /N or taken out by CDD /D,
  missed,       \* those whose path begins like one that RD or CDD took out,
  made,         \* how the database came to be: "whole" by CDD /S; "part" when
                \* that, or a temporary file, was given up; "none": neither
  cmds          \* the commands that are typed

vars == <<disk, curs, drive, last, queue, history, index, rc, pushes, unlisted, missed, made, cmds>>
places == <<curs, drive, last, queue, history, pushes>>

Here == curs[drive]
Named(d) == [drive |-> d[1], rel |-> FALSE, names |-> Tail(d)]

Init ==
  /\ \E s \in Starts : disk = s.disk /\ index = s.index /\ cmds = s.cmds
  /\ curs = [d \in Drives |-> <<d>>] /\ drive = Order[1][1] /\ last = NULL
  /\ queue = <<>> /\ history = <<>> /\ rc = "0"
  /\ pushes = <<>> /\ unlisted = {} /\ missed = {} /\ made = IF index = NULL THEN "none" ELSE "whole"

-----------------------------------------------------------------------------
(***************************************************************************)
(* SaveDirectory().                                                        *)
(***************************************************************************)
Bytes(s) == FoldSeq(LAMBDA d, n : n + Size[d], 0, s)

\* The oldest entries leave until the new one fits.
Saved(s, d, size) ==
  LET k == Min({k \in 0 .. Len(s) : Bytes(SubSeq(s, k + 1, Len(s))) + Size[d] < size - 2})
  IN  Append(SubSeq(s, k + 1, Len(s)), d)

\* In the history, and there only, a directory is not saved twice.
Remembered(d) == Saved(SelectSeq(history, LAMBDA e : e # d), d, HistorySize)

-----------------------------------------------------------------------------
(***************************************************************************)
(* UpdateFuzzyTree().                                                      *)
(***************************************************************************)
\* As strings: does the line begin with the path?  "C:\foobar" begins with
\* "C:\foo".
BeginsWith(d, line) ==
  \/ IsPrefix(d, line)
  \/ /\ Len(d) > 1 /\ Len(line) >= Len(d) /\ IsPrefix(Parent(d), line)
     /\ Begins(d[Len(d)], line[Len(d)])

\* The line that is looked for, and the end of the run of lines after it that
\* are taken for its subdirectories.
LineOf(ix, P(_)) == SelectInSeq(ix, P)
RunEnd(ix, k, d) == Max({j \in k .. Len(ix) : \A i \in k + 1 .. j : BeginsWith(d, ix[i])})
Before(ix, k) == SubSeq(ix, 1, k - 1)
After(ix, k) == SubSeq(ix, k + 1, Len(ix))

\* Mutant: the subdirectories stay in the database.
DeletedOne(ix, d, temp) ==
  LET k == LineOf(ix, LAMBDA l : IsPrefix(d, l))
  IN  IF ix = NULL \/ k = 0 THEN ix ELSE Before(ix, k) \o After(ix, k)

\* What follows the run is kept in a temporary file: it is lost when that
\* cannot be opened.
Deleted(ix, d, temp) ==
  LET k == IF ix = NULL THEN 0 ELSE LineOf(ix, LAMBDA l : IsPrefix(d, l))
  IN  IF k = 0 THEN ix
      ELSE Before(ix, k) \o (IF temp THEN After(ix, RunEnd(ix, k, d)) ELSE <<>>)

\* A directory goes after its parent, or to the end; without the temporary
\* file it overwrites the lines that follow.  Without FuzzyCD the file is not
\* created.
Added(ix, d, temp) ==
  IF ix = NULL THEN {IF FuzzyCD = 0 THEN NULL ELSE <<d>>}
  ELSE LET k == LineOf(ix, LAMBDA l : l = Parent(d))
           rest == After(ix, k)
       IN  IF k = 0 THEN {Append(ix, d)}
           ELSE IF temp \/ rest = <<>> THEN {SubSeq(ix, 1, k) \o <<d>> \o rest}
           ELSE {SubSeq(ix, 1, k) \o <<d>> \o g \o After(rest, n) :
                 g \in {<<>>, <<GarbledLine>>}, n \in 1 .. Len(rest)}

\* CDD /U: the lines of a file replace those of the directory, or go to the end.
Replaced(ix, d, lines) ==
  LET k == IF ix = NULL THEN 0 ELSE LineOf(ix, LAMBDA l : l = d)
  IN  IF ix = NULL THEN (IF FuzzyCD = 0 THEN NULL ELSE lines)
      ELSE IF k = 0 THEN ix \o lines
      ELSE Before(ix, k) \o lines \o After(ix, RunEnd(ix, k, d))

\* MakeDirectory(), DestroyDirectory(): the database follows the disk.
Made(ix, d, temp) == Added(Deleted(ix, d, temp), d, temp)

\* TREE lists what is below a directory.
Tree(d) == SelectSeq(Order, LAMBDA x : x \in disk /\ IsPrefix(d, x))
Trees == FlattenSeq([i \in 1 .. Len(Order) |-> IF Len(Order[i]) = 1 /\ Order[i][1] \in Hard
                                               THEN Tree(Order[i]) ELSE <<>>])

-----------------------------------------------------------------------------
(***************************************************************************)
(* __cd().                                                                 *)
(***************************************************************************)
\* mkfname(): the full name of an argument.
Full(a) ==
  LET d == IF a.drive = NULL THEN drive ELSE a.drive
  IN  (IF a.rel THEN curs[d] ELSE <<d>>) \o a.names

\* What is tried, in order: the directory itself, then below those of CDPATH.
Tries(a) == <<Full(a)>> \o (IF a.rel /\ a.drive = NULL
                            THEN [i \in 1 .. Len(CdPath) |-> CdPath[i] \o a.names] ELSE <<>>)

\* wild_cmp() of the argument, with a * after it in the second pass and before
\* it as well in the third, with the name or the whole path of a line.
Like(n, m, pass) == CASE pass = 0 -> n = m
                      [] pass = 1 -> Begins(n, m)
                      [] pass = 2 -> Holds(n, m)

LikePath(p, q, pass) ==
  IF pass = 0 THEN p = q
  ELSE \E i \in 0 .. Len(q) : /\ pass = 1 => i = 0
                              /\ Len(p) > 0 => BeginsWith(<<NULL>> \o p, <<NULL>> \o SubSeq(q, i + 1, Len(q)))

Fits(a, line, pass) ==
  /\ line # GarbledLine
  /\ a.drive # NULL => a.drive = line[1]
  /\ IF Len(a.names) = 1 /\ a.rel THEN Len(line) > 1 /\ Like(a.names[1], line[Len(line)], pass)
     ELSE LikePath(a.names, Tail(line), pass)

\* The passes that are made; the first with a match is the last.
Passes == (0 .. FuzzyCD - 1) \ (IF FuzzyCD = 3 THEN {1} ELSE {})
MatchesIn(a, ix, pass) == {l \in ToSet(ix) : Fits(a, l, pass)}
Matches(a, ix) ==
  LET found == {p \in Passes : MatchesIn(a, ix, p) # {}}
  IN  IF found = {} THEN {} ELSE MatchesIn(a, ix, Min(found))

\* The outcomes of the search: where it goes, NULL for nowhere.  Several
\* matches are shown in a window, which may be left, or interrupted.
Found(a, ix) ==
  LET m == Matches(a, ix)
  IN  IF m = {} THEN {[to |-> NULL, rc |-> "err", ix |-> ix]}
      ELSE {[to |-> IF l \in disk THEN l ELSE NULL, rc |-> IF l \in disk THEN "0" ELSE "err", ix |-> ix] : l \in m}
           \cup (IF Cardinality(m) = 1 THEN {}
                 ELSE {[to |-> NULL, rc |-> "0", ix |-> ix], [to |-> NULL, rc |-> "CTRLC", ix |-> ix]})

\* A search without a database makes one first, unless ^C is pressed.
Searched(a) == IF index # NULL THEN Found(a, index)
               ELSE Found(a, Trees) \cup {[to |-> NULL, rc |-> "CTRLC", ix |-> SubSeq(Trees, 1, n)] :
                                          n \in 0 .. Len(Trees)}

Outcomes(a, nofuzzy) ==
  LET t == SelectSeq(Tries(a), LAMBDA d : d \in disk)
  IN  IF t # <<>> THEN {[to |-> t[1], rc |-> "0", ix |-> index]}
      ELSE IF FuzzyCD = 0 \/ nofuzzy THEN {[to |-> NULL, rc |-> "err", ix |-> index]}
      ELSE Searched(a)

\* The drive of szLastDirectory is cut off where the string stands.
Cut(a) == IF a = NULL THEN NULL ELSE [a EXCEPT !.drive = NULL]
Fuzzed(a, nofuzzy) == ToSet(Tries(a)) \cap disk = {} /\ FuzzyCD # 0 /\ ~nofuzzy

Landed(o, a, back, nofuzzy) ==
  /\ curs' = IF o.to = NULL THEN curs ELSE [curs EXCEPT ![o.to[1]] = o.to]
  /\ last' = IF o.to # NULL THEN Named(Here)
             ELSE IF back /\ Fuzzed(a, nofuzzy) THEN Cut(last) ELSE last

\* One call of __cd(): the directory is saved before it is known that there is
\* another one to go to.
ChangesTo(o, a, back, drives, nofuzzy) ==
  /\ o \in Outcomes(a, nofuzzy)
  /\ history' = Remembered(Here)
  /\ Landed(o, a, back, nofuzzy)
  /\ drive' = IF drives /\ o.to # NULL THEN o.to[1] ELSE drive
  /\ index' = o.ix
  /\ made' = IF o.ix = index THEN made ELSE IF o.ix = Trees THEN "whole" ELSE "part"
  /\ unlisted' = IF o.ix = index THEN unlisted ELSE {}
  /\ missed' = IF o.ix = index THEN missed ELSE {}
  /\ rc' = o.rc

CdCmd(a, cdd, nofuzzy) ==
  /\ \E o \in Outcomes(a, nofuzzy) : ChangesTo(o, a, FALSE, cdd, nofuzzy)
  /\ UNCHANGED <<disk, queue, pushes, cmds>>

\* CD -, CDD -
CdBack(cdd, nofuzzy) ==
  IF last = NULL THEN rc' = "0" /\ UNCHANGED <<disk, places, index, unlisted, missed, made, cmds>>
  ELSE /\ \E o \in Outcomes(last, nofuzzy) : ChangesTo(o, last, TRUE, cdd, nofuzzy)
       /\ UNCHANGED <<disk, queue, pushes, cmds>>

-----------------------------------------------------------------------------
(***************************************************************************)
(* PUSHD and POPD.                                                         *)
(***************************************************************************)
PushdHere ==
  /\ Len(pushes) < MaxPushes
  /\ queue' = Saved(queue, Here, QueueSize) /\ pushes' = Append(pushes, Here) /\ rc' = "0"
  /\ UNCHANGED <<disk, curs, drive, last, history, index, unlisted, missed, made, cmds>>

Pushd(a) ==
  /\ Len(pushes) < MaxPushes
  /\ \E o \in Outcomes(a, FALSE) :
       /\ ChangesTo(o, a, FALSE, TRUE, FALSE)
       /\ IF o.rc = "0" THEN queue' = Saved(queue, Here, QueueSize) /\ pushes' = Append(pushes, Here)
          ELSE UNCHANGED <<queue, pushes>>
  /\ UNCHANGED <<disk, cmds>>

\* The entry goes even if the directory is gone.
Popd ==
  /\ queue # <<>>
  /\ LET d == Named(Last(queue))
     IN  \E o \in Outcomes(d, FALSE) : ChangesTo(o, d, FALSE, TRUE, FALSE)
  /\ queue' = Front(queue) /\ pushes' = Front(pushes)
  /\ UNCHANGED <<disk, cmds>>

PopdAll ==
  /\ queue' = <<>> /\ pushes' = <<>> /\ rc' = "0"
  /\ UNCHANGED <<disk, curs, drive, last, history, index, unlisted, missed, made, cmds>>

-----------------------------------------------------------------------------
(***************************************************************************)
(* MD, RD and CDD /S /U /D.                                                *)
(***************************************************************************)
Unless(gone) == IF gone THEN "part" ELSE made

\* The directories that may go from the database although another one, d, is
\* what was taken out.
Namesakes(d) == {x \in disk : BeginsWith(d, x) /\ ~IsPrefix(d, x)}

\* MD /S makes the parents too; what is there already is passed over.
Missing(d, s) == IF s THEN SelectSeq([i \in 1 .. Len(d) - 1 |-> SubSeq(d, 1, i + 1)], LAMBDA x : x \notin disk)
                 ELSE IF d \notin disk /\ Parent(d) \in disk THEN <<d>> ELSE <<>>

\* The k directories that are made, one after the other (the next one fails).
MadeAll(ix, new, temp) ==
  FoldLeft(LAMBDA ixs, d : UNION {Made(x, d, temp) : x \in ixs}, {ix}, new)

MdCmd(d, s, n, k, temp) ==
  LET new == SubSeq(Missing(d, s), 1, k)
  IN  /\ k \in 0 .. Len(Missing(d, s))
      /\ disk' = disk \cup ToSet(new)
      /\ index' \in (IF n THEN {index} ELSE MadeAll(index, new, temp))
      /\ unlisted' = IF n THEN unlisted \cup ToSet(new) ELSE unlisted
      /\ made' = Unless(~temp /\ ~n /\ new # <<>>)
      /\ rc' = IF k = Len(Missing(d, s)) /\ k > 0 THEN "0" ELSE "err"
      /\ UNCHANGED <<places, missed, cmds>>

\* A directory that is not empty, or is the current one, cannot be removed.
RdCmd(d, temp) ==
  /\ IF d \in disk /\ Len(d) > 1 /\ curs[d[1]] # d /\ \A x \in disk : x = d \/ ~IsPrefix(d, x)
     THEN /\ disk' = disk \ {d} /\ index' = Deleted(index, d, temp) /\ rc' = "0"
          /\ unlisted' = unlisted \ {d} /\ missed' = (missed \ {d}) \cup Namesakes(d)
          /\ made' = Unless(~temp)
     ELSE rc' = "err" /\ UNCHANGED <<disk, index, unlisted, missed, made>>
  /\ UNCHANGED <<places, cmds>>

\* CDD /S: TREE writes a new database; ^C leaves a part of it.
CddBuild(n) ==
  /\ n \in 0 .. Len(Trees)
  /\ index' = SubSeq(Trees, 1, n)
  /\ rc' = IF n = Len(Trees) THEN "0" ELSE "CTRLC"
  /\ unlisted' = IF n = Len(Trees) THEN {} ELSE unlisted
  /\ missed' = IF n = Len(Trees) THEN {} ELSE missed
  /\ made' = IF n = Len(Trees) THEN "whole" ELSE "part"
  /\ UNCHANGED <<disk, places, cmds>>

\* CDD /U and /D: the old lines go first.  ^C in TREE leaves it at that.
CddUpdate(d, update, breaks, temp) ==
  /\ index' = IF update /\ ~breaks THEN Replaced(Deleted(index, d, temp), d, Tree(d))
              ELSE Deleted(index, d, temp)
  /\ rc' = IF breaks THEN "CTRLC" ELSE "0"
  /\ LET below == {x \in All : IsPrefix(d, x)}
         back == update /\ ~breaks
     IN  /\ unlisted' = IF back THEN unlisted \ below ELSE unlisted \cup (disk \cap below)
         /\ missed' = (IF back THEN missed \ below ELSE missed) \cup Namesakes(d)
  /\ made' = Unless(~temp)
  /\ UNCHANGED <<disk, places, cmds>>

\* A database that was damaged can grow without end.
Bounded == index # NULL => Len(index) <= MaxLines

Next ==
  \/ "CD" \in cmds /\ \E a \in Args, cdd, nofuzzy \in BOOLEAN : CdCmd(a, cdd, nofuzzy)
  \/ "CD" \in cmds /\ \E cdd, nofuzzy \in BOOLEAN : CdBack(cdd, nofuzzy)
  \/ "PUSHD" \in cmds /\ (PushdHere \/ Popd \/ PopdAll \/ \E a \in Args : Pushd(a))
  \/ "MD" \in cmds /\ Bounded /\ \E d \in Makes, s, n, temp \in BOOLEAN, k \in 0 .. 2 : MdCmd(d, s, n, k, temp)
  \/ "MD" \in cmds /\ \E d \in Makes, temp \in BOOLEAN : RdCmd(d, temp)
  \/ "MD" \in cmds /\ \E n \in 0 .. Len(Order) : CddBuild(n)
  \/ "MD" \in cmds /\ Bounded /\ \E d \in Updates, update, breaks, temp \in BOOLEAN : CddUpdate(d, update, breaks, temp)

Spec == Init /\ [][Next]_vars

-----------------------------------------------------------------------------
(***************************************************************************)
(* Properties.                                                             *)
(***************************************************************************)
\* The database has the directories of the hard disks, each of them once, but
\* for those that it was told not to have; whatever MD, RD and CDD /U and /D
\* were given, unless a temporary file could not be opened or TREE was
\* interrupted.  What may be missing is a directory C:\foobar once C:\foo was
\* removed, or listed anew: the lines after that of C:\foo are taken for its
\* subdirectories for as long as they begin with "C:\foo".
IndexFollows ==
  made = "whole" =>
    LET listed == {l \in ToSet(index) : l[1] \in Hard}
        there == {d \in disk : d[1] \in Hard} \ unlisted
    IN  IsInjective(index) /\ listed \subseteq there /\ there \ listed \subseteq missed

\* POPD goes back along the PUSHDs, in spite of those that failed and of what
\* the changes of directory between them did; only the oldest are forgotten.
StackIsRecent == IsSuffix(queue, pushes) /\ Bytes(queue) < QueueSize - 2

\* Both lists of directories are what the commands have made of them.
PlacesFollow == IndexFollows /\ StackIsRecent
=============================================================================
