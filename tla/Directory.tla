----------------------------- MODULE Directory ------------------------------
(***************************************************************************)
(* DIR: Dir_Cmd() over its arguments and switches, GetDirectory() for a    *)
(* directory and, with /S, those below it, SearchDirectory() with the heap *)
(* sort, the columns and pages of the display, and the totals, which are   *)
(* kept in two words each.                                                 *)
(*                                                                         *)
(* A step is what happens between two DOS calls.  Names, extensions, sizes *)
(* and dates are numbers, compared as files_cmp() compares them.           *)
(***************************************************************************)
EXTENDS Integers, SequencesExt, FiniteSetsExt

CONSTANTS
  Lines,        \* the command lines: sequences of [op, ...] (file or switch)
  Volume,         \* [directory -> sequence of entries]: directories are sequences of names
  Word,         \* what fits into half a total
  Cluster,      \* the cluster size, -1 when it is not known
  Rows,         \* the rows of a page
  Breaks,       \* how many times ^C is pressed
  NULL

AllDirs == DOMAIN Volume
Name(d, e) == Append(d, e.name)

VARIABLES
  args,         \* the command line
  argc,         \* how many of its arguments were read
  flags,        \* glDirFlags, uDirColumns, gszSortSequence, gnPageLength: the switches
  stack,        \* the activations of GetDirectory()
  uRecurse,
  tree,         \* ulTreeFiles, ulTreeDirs, ulTreeSize and ulTreeAlloc
  uDirRow,
  blocks,       \* how many arrays of entries there are
  breaks,       \* how many more times ^C can be pressed
  shown,        \* what was displayed: [dir, entry]
  figures,      \* and which totals: [dir, branch, ahead, files, dirs, size, alloc]
  rc            \* what DIR returned, or "none"

vars == <<args, argc, flags, stack, uRecurse, tree, uDirRow, blocks, breaks, shown, figures, rc>>

-----------------------------------------------------------------------------
(***************************************************************************)
(* Totals: <<high, low>>.                                                  *)
(***************************************************************************)
Zero == <<0, 0>>
Low(n) == n % Word
Add32To64(v, n) == LET low == Low(v[2] + n) IN <<IF low < v[2] THEN Low(v[1] + 1) ELSE v[1], low>>

Add64To64(v, a) ==
  LET low == Low(v[2] + a[2]) high == Low(v[1] + a[1]) IN <<IF low < v[2] THEN Low(high + 1) ELSE high, low>>
Subtract64From64(v, s) ==
  LET low == Low(v[2] - s[2]) high == Low(v[1] - s[1]) IN <<IF low > v[2] THEN Low(high - 1) ELSE high, low>>

\* The size rounded up to clusters, in one word.
Allocated(size) == LET c == Low(Cluster) IN Low((Low(size + c - 1) \div c) * c)

-----------------------------------------------------------------------------
(***************************************************************************)
(* The order of the entries.                                               *)
(***************************************************************************)
Sign(a, b) == IF a < b THEN 0 - 1 ELSE IF a > b THEN 1 ELSE 0
Bit(e) == IF e.dir THEN 1 ELSE 0

\* One letter of gszSortSequence. n: an extension alone makes no difference.
Field(letter, a, b) == CASE letter \in {"d", "t"} -> Sign(a.date, b.date)
                         [] letter = "e" -> Sign(a.ext, b.ext)
                         [] letter \in {"s", "z"} -> Sign(a.size, b.size)
                         [] letter = "n" -> Sign(a.stem, b.stem)
                         [] letter = "g" -> Bit(b) - Bit(a)
                         [] OTHER -> 0

\* The keys of the sort, each with its "-": [letter, back].
Keys(seq) ==
  LET Step(k, i) == IF seq[i] = "-" /\ i < Len(seq) THEN k
                    ELSE Append(k, [letter |-> seq[i], back |-> seq[i] = "-" \/ (i > 1 /\ seq[i - 1] = "-")])
  IN  FoldLeft(Step, <<>>, [i \in 1 .. Len(seq) |-> i])

Turned(back, n) == IF back THEN 0 - n ELSE n
Value(key, a, b) == Turned(key.back, Field(key.letter, a, b))

\* What the keys leave open: directories first, and by name, which a "-" before
\* the last key that was looked at turns round as well.
Rest(keys, a, b) == IF Bit(a) # Bit(b) THEN Bit(b) - Bit(a)
                    ELSE Turned(keys # <<>> /\ Last(keys).back, Sign(a.name, b.name))

\* The first key that tells, up to an "u", behind which all are equal.
Compared(keys, a, b) ==
  LET stop == {i \in DOMAIN keys : keys[i].letter = "u" \/ Value(keys[i], a, b) # 0}
  IN  IF stop = {} THEN Rest(keys, a, b) ELSE Value(keys[Min(stop)], a, b)

files_cmp(seq, a, b) == Turned("r" \in ToSet(seq), Compared(Keys(seq), a, b))

\* Mutant: the larger one of the two children is not looked for.
downHeapLeft(seq, base, k0, n) ==
  LET RECURSIVE Sift(_, _)
      Sift(b, k) ==
        IF k > n \div 2 THEN [b EXCEPT ![k] = base[k0]]
        ELSE IF files_cmp(seq, base[k0], b[2 * k]) >= 0 THEN [b EXCEPT ![k] = base[k0]]
             ELSE Sift([b EXCEPT ![k] = b[2 * k]], 2 * k)
  IN  Sift(base, k0)

\* An array from 0 to n; 0 is its own left child, and 1 is the right one.
Larger(seq, b, k, n) == IF 2 * k < n /\ files_cmp(seq, b[2 * k], b[2 * k + 1]) < 0 THEN 2 * k + 1 ELSE 2 * k
downHeap(seq, base, k0, n) ==
  LET RECURSIVE Sift(_, _), Into(_, _, _)
      Into(b, k, i) == IF files_cmp(seq, base[k0], b[i]) >= 0 THEN [b EXCEPT ![k] = base[k0]]
                       ELSE Sift([b EXCEPT ![k] = b[i]], i)
      Sift(b, k) == IF k > n \div 2 THEN [b EXCEPT ![k] = base[k0]] ELSE Into(b, k, Larger(seq, b, k, n))
  IN  Sift(base, k0)

\* "uEntries >> 1 - 1" is uEntries: the first loop begins behind the array, where
\* downHeap() changes nothing.
heapSort(seq, entries) ==
  LET n == Len(entries) - 1
      base == [k \in 0 .. n |-> entries[k + 1]]
      heap == FoldLeft(LAMBDA b, i : downHeap(seq, b, n - i, n), base, [i \in 1 .. n + 1 |-> i - 1])
      Swap(b, i) == LET j == n + 1 - i
                    IN  downHeap(seq, [b EXCEPT ![j] = b[0], ![0] = b[j]], 0, j - 1)
      sorted == FoldLeft(Swap, heap, [i \in 1 .. n |-> i])
  IN  [k \in 1 .. n + 1 |-> sorted[k - 1]]

-----------------------------------------------------------------------------
(***************************************************************************)
(* SearchDirectory().                                                      *)
(***************************************************************************)
Sorted(entries) == IF flags.sort # <<>> /\ flags.sort[1] = "u" THEN entries
                   ELSE IF entries = <<>> THEN <<>> ELSE heapSort(flags.sort, entries)

\* What DIR lists, and what /S goes into.
Dotted(e) == e.name = 0
Listing(d) == IF d \notin AllDirs THEN <<>>
              ELSE Sorted(SelectSeq(Volume[d], LAMBDA e : ~(Dotted(e) /\ (flags.nodots \/ flags.bare))))
Below(d) == IF d \notin AllDirs THEN <<>> ELSE Sorted(SelectSeq(Volume[d], LAMBDA e : e.dir /\ ~Dotted(e)))

-----------------------------------------------------------------------------
(***************************************************************************)
(* Dir_Cmd(): switches are for the files behind them, and for the last one *)
(* also those behind it.                                                   *)
(***************************************************************************)
init_dir == [columns |-> 1, sort |-> <<>>, page |-> FALSE, recurse |-> FALSE, vsort |-> FALSE,
             summary |-> "none", nofooter |-> FALSE, nodots |-> FALSE, bare |-> FALSE,
             allocated |-> FALSE]
NoTree == [files |-> 0, dirs |-> 0, size |-> Zero, alloc |-> Zero]

Init ==
  /\ args \in Lines /\ argc = 0 /\ flags = init_dir /\ stack = <<>>
  /\ uRecurse = 0 /\ tree = NoTree /\ uDirRow = 0 /\ blocks = 0 /\ breaks = Breaks
  /\ shown = <<>> /\ figures = <<>> /\ rc = "none"

Ready == stack = <<>> /\ rc = "none"
Arg == args[argc + 1]
Top == stack[Len(stack)]
Put(f) == stack' = [stack EXCEPT ![Len(stack)] = f]
globals == <<args, argc, flags>>
display == <<uDirRow, shown>>

NewFrame(d) == [dir |-> d, at |-> "search", files |-> <<>>, block |-> FALSE, n |-> 0, last |-> 0, offset |-> 0,
                rows |-> 0, uFiles |-> 0, uDirs |-> 0, size |-> Zero, alloc |-> Zero, saved |-> tree,
                subs |-> <<>>]

Switch ==
  /\ Ready /\ argc < Len(args) /\ Arg.op = "switch"
  /\ flags' = [k \in DOMAIN flags |-> IF k \in DOMAIN Arg.set THEN Arg.set[k] ELSE flags[k]]
  /\ argc' = argc + 1 /\ UNCHANGED <<args, stack, uRecurse, tree, display, blocks, breaks, figures, rc>>

\* /N sets everything back, the totals too.
SwitchN ==
  /\ Ready /\ argc < Len(args) /\ Arg.op = "reset"
  /\ flags' = init_dir /\ tree' = NoTree /\ uRecurse' = 0 /\ uDirRow' = 0
  /\ argc' = argc + 1 /\ UNCHANGED <<args, stack, shown, blocks, breaks, figures, rc>>

SwitchBad ==
  /\ Ready /\ argc < Len(args) /\ Arg.op = "bad"
  /\ rc' = "usage" /\ UNCHANGED <<globals, stack, uRecurse, tree, display, blocks, breaks, figures>>

\* The last file waits for the switches behind it; without one it is "*.*".
FilesBehind == \E i \in argc + 2 .. Len(args) : args[i].op = "file"
Waits ==
  /\ Ready /\ argc < Len(args) /\ Arg.op = "file" /\ ~FilesBehind
  /\ argc' = argc + 1 /\ UNCHANGED <<args, flags, stack, uRecurse, tree, display, blocks, breaks, figures, rc>>

LastFile == LET files == {i \in 1 .. Len(args) : args[i].op = "file"}
            IN  IF files = {} THEN <<>> ELSE args[Max(files)].dir

\* The directory, unless the drive cannot be read.
Show(d) == \/ stack' = <<NewFrame(d)>> /\ uRecurse' = uRecurse + 1
           \/ UNCHANGED <<stack, uRecurse>>
ShowsFile ==
  /\ Ready /\ argc < Len(args) /\ Arg.op = "file" /\ FilesBehind
  /\ Show(Arg.dir) /\ argc' = argc + 1
  /\ UNCHANGED <<args, flags, tree, display, blocks, breaks, figures, rc>>

ShowsLast ==
  /\ Ready /\ argc = Len(args) /\ Show(LastFile) /\ argc' = argc + 1
  /\ UNCHANGED <<args, flags, tree, display, blocks, breaks, figures, rc>>

Ends ==
  /\ Ready /\ argc > Len(args) /\ rc' = "0"
  /\ UNCHANGED <<globals, stack, uRecurse, tree, display, blocks, breaks, figures>>

-----------------------------------------------------------------------------
(***************************************************************************)
(* GetDirectory(): the list.                                               *)
(***************************************************************************)
At(p) == stack # <<>> /\ Top.at = p
Freed(f) == blocks - (IF f.block THEN 1 ELSE 0)

\* It returns: to the directory above, which stops when there was an error, or
\* to Dir_Cmd().
Returns(f, ok) ==
  IF Len(stack) = 1 THEN stack' = <<>> /\ blocks' = Freed(f)
  ELSE LET up == stack[Len(stack) - 1]
       IN  IF ok THEN stack' = [Front(stack) EXCEPT ![Len(stack) - 1].at = "next"] /\ blocks' = Freed(f)
           ELSE stack' = [Front(stack) EXCEPT ![Len(stack) - 1].at = "error"] /\ blocks' = Freed(f)

\* There may be no memory for the entries found.
Holds(found, frame) ==
  \/ /\ Put([frame EXCEPT !.block = found # <<>>])
     /\ blocks' = blocks + (IF found # <<>> THEN 1 ELSE 0) /\ UNCHANGED uRecurse
  \/ /\ found # <<>> /\ uRecurse' = uRecurse - 1 /\ Returns(Top, FALSE)

Found(found) == Holds(found, [Top EXCEPT !.at = "list", !.files = found])
Search ==
  /\ At("search") /\ Found(Listing(Top.dir))
  /\ UNCHANGED <<globals, tree, display, breaks, figures, rc>>

\* "Magic code": with /V the entries of a page go down its columns, of which
\* the last ones are shorter when they do not come out even.
Page(f) == IF f.n < f.last THEN f
           ELSE LET more == f.last + flags.columns * (Rows - uDirRow)
                    last == IF ~flags.page \/ more > Len(f.files) THEN Len(f.files) ELSE more
                IN  [f EXCEPT !.offset = f.last, !.last = last,
                              !.rows = (last - f.last + flags.columns - 1) \div flags.columns]

Vertical(f) ==
  LET i == f.n - f.offset
      k == i % flags.columns
      j == f.last % flags.columns
      at == (i \div flags.columns) + k * f.rows + f.offset
  IN  IF j # 0 /\ k > j THEN at - (k - j) ELSE at

\* A row is full: the page may be.
NextRow(rows) == LET r == uDirRow + rows IN IF flags.page /\ r = Rows THEN 0 ELSE r
EndOfRow(n) == flags.columns <= 1 \/ (n + 1) % flags.columns = 0

Counted(f, e) ==
  [f EXCEPT !.uDirs = @ + Bit(e), !.uFiles = @ + 1 - Bit(e),
            !.size = Add32To64(@, e.size),
            !.alloc = IF Cluster # 0 - 1 /\ e.size > 0 THEN Add32To64(@, Allocated(e.size)) ELSE @]

\* /G rounds the size of what it displays, which in columns is counted later.
Shows(f, i) == IF flags.allocated /\ flags.summary = "none"
               THEN [f EXCEPT !.files[i].size = Allocated(@)] ELSE f

List ==
  /\ At("list") /\ Top.n < Len(Top.files)
  /\ LET f == Counted(Top, Top.files[Top.n + 1])
         p == IF flags.vsort /\ flags.summary = "none" THEN Page(f) ELSE f
         i == 1 + IF flags.vsort THEN Vertical(p) ELSE Top.n
     IN  /\ Put([Shows(p, i) EXCEPT !.n = @ + 1])
         /\ IF flags.summary # "none" THEN UNCHANGED display
            ELSE /\ shown' = Append(shown, [dir |-> Top.dir, name |-> Top.files[i].name])
                 /\ uDirRow' = IF EndOfRow(Top.n) THEN NextRow(1) ELSE uDirRow
  /\ UNCHANGED <<globals, uRecurse, tree, blocks, breaks, figures, rc>>

\* The totals are added to those of the tree; those of the directory are shown
\* with a footer, unless it is empty and others are to come.
Figure(d, branch, files, dirs, size, alloc) ==
  [dir |-> d, branch |-> branch, ahead |-> flags.allocated /\ flags.vsort /\ flags.summary = "none",
   files |-> files, dirs |-> dirs, size |-> size, alloc |-> alloc]

ListEnds ==
  /\ At("list") /\ Top.n = Len(Top.files)
  /\ tree' = [files |-> tree.files + Top.uFiles, dirs |-> tree.dirs + Top.uDirs,
              size |-> Add64To64(tree.size, Top.size), alloc |-> Add64To64(tree.alloc, Top.alloc)]
  /\ flags' = [flags EXCEPT !.summary = IF @ = "global" /\ ~flags.recurse THEN "both" ELSE @]
  /\ figures' = (IF flags'.nofooter \/ flags'.summary = "global"
                    \/ (Top.uFiles + Top.uDirs = 0 /\ flags.recurse) THEN figures
                 ELSE Append(figures, Figure(Top.dir, FALSE, Top.uFiles, Top.uDirs, Top.size, Top.alloc)))
  /\ uDirRow' = (IF flags.columns > 1 /\ Top.n % flags.columns # 0 THEN NextRow(1) ELSE uDirRow)
  /\ blocks' = Freed(Top)
  /\ Put([Top EXCEPT !.at = IF flags.recurse THEN "below" ELSE "bye", !.files = <<>>, !.block = FALSE])
  /\ UNCHANGED <<args, argc, uRecurse, breaks, shown, rc>>

-----------------------------------------------------------------------------
(***************************************************************************)
(* The directories below.                                                  *)
(***************************************************************************)
FoundBelow(found) == Holds(found, [Top EXCEPT !.at = "next", !.subs = found])
SearchBelow ==
  /\ At("below") /\ FoundBelow(Below(Top.dir))
  /\ UNCHANGED <<globals, tree, display, breaks, figures, rc>>

Descend ==
  /\ At("next") /\ Top.subs # <<>>
  /\ stack' = Append([stack EXCEPT ![Len(stack)].subs = Tail(@)], NewFrame(Name(Top.dir, Head(Top.subs))))
  /\ uRecurse' = uRecurse + 1
  /\ UNCHANGED <<globals, tree, display, blocks, breaks, figures, rc>>

\* An error below ends it, and what counts the levels is not set back.
Fails ==
  /\ At("error") /\ Returns(Top, FALSE)
  /\ UNCHANGED <<globals, uRecurse, tree, display, breaks, figures, rc>>

\* The totals of the branch: what was added since it began.
More == tree.files + tree.dirs > Top.saved.files + Top.saved.dirs
Branch ==
  /\ At("next") /\ Top.subs = <<>>
  /\ figures' = (IF flags.nofooter \/ flags.summary = "local" \/ ~More
                    \/ (flags.summary = "global" /\ uRecurse > 1) THEN figures
                 ELSE Append(figures, Figure(Top.dir, TRUE, tree.files - Top.saved.files, tree.dirs - Top.saved.dirs,
                                             Subtract64From64(tree.size, Top.saved.size),
                                             Subtract64From64(tree.alloc, Top.saved.alloc))))
  /\ blocks' = Freed(Top)
  /\ Put([Top EXCEPT !.at = "bye", !.block = FALSE])
  /\ UNCHANGED <<globals, uRecurse, tree, display, breaks, rc>>

Bye ==
  /\ At("bye") /\ uRecurse' = uRecurse - 1 /\ Returns(Top, TRUE)
  /\ UNCHANGED <<globals, tree, display, breaks, figures, rc>>

\* Mutant: ^C frees only what the innermost directory has.
InterruptTop ==
  /\ stack # <<>> /\ breaks > 0 /\ breaks' = breaks - 1
  /\ stack' = <<>> /\ blocks' = Freed(Top) /\ rc' = "CTRLC"
  /\ UNCHANGED <<globals, uRecurse, tree, display, figures>>

\* ^C: each level frees what it has, and DIR ends.
Interrupt ==
  /\ stack # <<>> /\ breaks > 0 /\ breaks' = breaks - 1
  /\ stack' = <<>> /\ rc' = "CTRLC"
  /\ blocks' = blocks - Cardinality({i \in 1 .. Len(stack) : stack[i].block})
  /\ UNCHANGED <<globals, uRecurse, tree, display, figures>>

Next == \/ Switch \/ SwitchN \/ SwitchBad \/ Waits \/ ShowsFile \/ ShowsLast \/ Ends
        \/ Search \/ List \/ ListEnds \/ SearchBelow \/ Descend \/ Fails \/ Branch \/ Bye \/ Interrupt

Spec == Init /\ [][Next]_vars

-----------------------------------------------------------------------------
(***************************************************************************)
(* Properties.                                                             *)
(***************************************************************************)
Shown(d) == SelectSeq(shown, LAMBDA s : s.dir = d)
NamesShown(d) == LET s == Shown(d) IN [i \in 1 .. Len(s) |-> s[i].name]

\* When a directory was listed, each of its entries was displayed exactly once,
\* also in columns, on pages and in any order; and without /V in that order:
\* none of them comes before one that files_cmp() puts first.
ListsEach ==
  \A d \in AllDirs :
    At("list") /\ Top.dir = d /\ Top.n = Len(Top.files) /\ flags.summary = "none" =>
      LET all == NamesShown(d)
          names == SubSeq(all, Len(all) - Top.n + 1, Len(all))
          Entry(i) == CHOOSE e \in ToSet(Volume[d]) : e.name = names[i]
      IN  /\ IsInjective(names) /\ ToSet(names) = {Top.files[i].name : i \in 1 .. Top.n}
          /\ flags.vsort \/ flags.sort = <<"u">>
             \/ \A i, j \in 1 .. Top.n : i < j => files_cmp(flags.sort, Entry(i), Entry(j)) <= 0

\* The entries of a branch, or of a directory alone.
Total(n) == <<(n \div Word) % Word, n % Word>>
In(f) == {d \in AllDirs : IF f.branch THEN IsPrefix(f.dir, d) ELSE d = f.dir}
Entries(f) == UNION {{<<d, i>> : i \in {i \in 1 .. Len(Volume[d]) : ~(Dotted(Volume[d][i]) /\ (flags.nodots \/ flags.bare))}} : d \in In(f)}
Size(x) == Volume[x[1]][x[2]].size
Rounded(x) == ((Size(x) + Cluster - 1) \div Cluster) * Cluster

\* All totals are right, those of a branch too, whatever was listed before them.
\* But with /G in columns what is displayed before it is counted is counted with
\* its clusters: then the size shown is not less than that of the files, nor more
\* than what they take up.
TotalsRight ==
  \A i \in 1 .. Len(figures) :
    LET f == figures[i]
        dirs == {x \in Entries(f) : Volume[x[1]][x[2]].dir}
    IN  /\ f.dirs = Cardinality(dirs) /\ f.files = Cardinality(Entries(f) \ dirs)
        /\ LET size == MapThenSumSet(Size, Entries(f)) alloc == MapThenSumSet(Rounded, Entries(f))
           IN  /\ f.size \in {Total(n) : n \in size .. IF f.ahead THEN alloc ELSE size}
               /\ f.alloc = Total(alloc)

\* DIR frees everything, also after ^C and errors.
AllFreed == rc # "none" => blocks = 0
=============================================================================
