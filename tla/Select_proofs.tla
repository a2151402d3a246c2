--------------------------- MODULE Select_proofs ---------------------------
(***************************************************************************)
(* Proofs about SELECT: the screen shows the list and its marks, whatever  *)
(* keys move, scroll and mark; and the commands are run for the files that *)
(* are marked, each once, in the order of the marks.                       *)
(*                                                                         *)
(* A mark is a number that only says when a file was marked: "order" is a  *)
(* list that the program does not have.  The invariant relates the two:    *)
(* the numbers increase along the list, and are given to no other file.    *)
(***************************************************************************)
EXTENDS Select, SequenceTheorems, FiniteSetTheorems, WellFoundedInduction, TLAPS

Sel == [OnlyOne : BOOLEAN, uMarked : Nat, uMarkedFiles : Nat, uLength : Nat,
        nDirLine : Nat, nDirFirst : Nat, nDirLast : Nat]

\* Marks and the order in which they were given.
MarksRight(s, m, o) ==
  /\ m \in [Indices -> Nat]
  /\ o \in Seq(Indices)
  /\ \A i \in Indices : m[i] <= s.uMarked
  /\ \A i \in Indices : m[i] > 0 => \E k \in DOMAIN o : o[k] = i
  /\ \A k \in DOMAIN o : m[o[k]] > 0
  /\ \A j, k \in DOMAIN o : j < k => m[o[j]] < m[o[k]]

\* The position in the list, and what dirprint() has counted.
InPage(s) == s.nDirFirst <= s.nDirLine /\ s.nDirLine <= s.nDirFirst + Rows - 1 /\ s.nDirLine < uEntries
CountedRight(s, m) ==
  /\ s.nDirLast = LastShown(s)
  /\ s.uLength = IF selection.paren = "[" THEN Cardinality(Marked(m)) ELSE 0

\* Row r of the screen, with the current line l at most in inverse video.
RowRight(r, first, l, scr, m) ==
  IF first + r < uEntries
  THEN /\ scr[r].file = first + r
       /\ scr[r].marked = (m[first + r] > 0)
       /\ scr[r].inverse => first + r = l
  ELSE scr[r] = Empty
Screens == [0 .. Rows - 1 -> [file : Int, marked : BOOLEAN, inverse : BOOLEAN]]
RowsRight(first, l, scr, m) ==
  /\ scr \in Screens
  /\ \A r \in 0 .. Rows - 1 : RowRight(r, first, l, scr, m)
ScreenRight(s, scr, m) == RowsRight(s.nDirFirst, s.nDirLine, scr, m)

TypeInv ==
  /\ selection \in Selections /\ nArg \in 0 .. Len(selection.lists)
  /\ stage \in {"next", "show", "mark", "process", "end"}
  /\ stage \in {"show", "mark", "process"} => nArg > 0 /\ Entries # <<>>
  /\ sel \in Sel

MarkInv ==
  stage = "mark" =>
    /\ InPage(sel) /\ CountedRight(sel, marks) /\ ScreenRight(sel, rows, marks)
    /\ MarksRight(sel, marks, order)
    /\ ran = <<>>

\* The first c files of the order have got their command, or are on the command line.
Wanted == IF selection.paren = "(" THEN [i \in DOMAIN order |-> <<order[i]>>]
          ELSE IF order = <<>> THEN <<>> ELSE <<order>>
Done(c) ==
  /\ \A k \in DOMAIN order : k <= c <=> marks[order[k]] < n
  /\ IF selection.paren = "(" THEN cmdline = <<>> /\ ran = [i \in 1 .. c |-> <<order[i]>>]
     ELSE ran = <<>> /\ cmdline = SubSeq(order, 1, c)
ProcessInv ==
  stage = "process" =>
    /\ n \in Nat /\ n > 0
    /\ (sel.uMarked = 0 /\ order = <<>>) \/ MarksRight(sel, marks, order)
    /\ selection.paren = "[" => Len(order) < MaxLine
    /\ \E c \in 0 .. Len(order) : Done(c)

\* What was run is within the order, and all of it when the list is done.
RunInv ==
  /\ stage = "next" => ran = Wanted
  /\ stage = "end" => IsPrefix(ran, Wanted)
  /\ ran \in Seq(Seq(Nat))
  /\ \A i \in DOMAIN ran : Len(ran[i]) < MaxLine

IInv == TypeInv /\ MarkInv /\ ProcessInv /\ RunInv
-----------------------------------------------------------------------------
(***************************************************************************)
(* The list, and the number of its marks.                                  *)
(***************************************************************************)
\* Every set of natural numbers that is not empty has a least element.
LEMMA LeastElement ==
  ASSUME NEW T, T \subseteq Nat, T # {}
  PROVE  \E i \in T : \A j \in T : i <= j
<1> DEFINE R == {ss \in Nat \X Nat : ss[1] < ss[2]}
<1>1. IsWellFoundedOn(R, Nat) BY NatLessThanWellFounded, Zenon DEF OpToRel
<1>2. \E x \in T : \A y \in T : <<y, x>> \notin R BY <1>1, WFMin
<1>3. PICK i \in T : \A y \in T : <<y, i>> \notin R BY <1>2
<1>4. \A j \in T : i <= j
  <2> TAKE j \in T
  <2>1. j \in Nat /\ i \in Nat OBVIOUS
  <2>2. j < i => <<j, i>> \in R BY <2>1
  <2> QED BY <1>3, <2>1, <2>2
<1> QED BY <1>4

\* While a list is shown and worked on, it has entries.
InList == selection \in Selections /\ nArg \in 1 .. Len(selection.lists) /\ Entries # <<>>

LEMMA ListFacts ==
  ASSUME InList
  PROVE  /\ uEntries \in Nat /\ uEntries > 0
         /\ Indices = 0 .. uEntries - 1
         /\ \A i \in Indices : Entries[i + 1].dir \in BOOLEAN
         /\ selection.paren \in {"(", "["}
         /\ Rows \in Nat /\ Rows > 0
<1> DEFINE File == [name : Seq(Letters), dir : BOOLEAN]
<1>1. selection.lists \in Seq(Seq(File)) /\ selection.paren \in {"(", "["}
  BY SelectAssumption DEF InList
<1>2. Entries \in Seq(File) /\ Entries # <<>>
  <2> HIDE DEF File
  <2> QED BY <1>1 DEF InList, Entries
<1>3. uEntries \in Nat /\ uEntries > 0
  <2> HIDE DEF File
  <2> QED BY <1>2, EmptySeq DEF uEntries
<1>4. \A i \in 1 .. uEntries : Entries[i] \in File
  <2> HIDE DEF File
  <2> QED BY <1>2, ElementOfSeq DEF uEntries
<1>5. \A i \in Indices : Entries[i + 1].dir \in BOOLEAN
  <2> TAKE i \in Indices
  <2>1. i + 1 \in 1 .. uEntries BY <1>3 DEF Indices
  <2>2. Entries[i + 1] \in File BY <1>4, <2>1
  <2> QED BY <2>2
<1> QED BY <1>1, <1>3, <1>5, SelectAssumption DEF Indices

LEMMA SubsetsFinite ==
  ASSUME InList, NEW T \in SUBSET Indices
  PROVE  IsFiniteSet(T) /\ Cardinality(T) \in Nat
<1>1. IsFiniteSet(Indices) BY ListFacts, FS_Interval
<1> QED BY <1>1, FS_Subset, FS_CardinalityType

\* The files of the order are those that are marked, and they are as many.
LEMMA OrderIsMarked ==
  ASSUME InList, NEW s \in Sel, NEW m, NEW o, MarksRight(s, m, o)
  PROVE  /\ ToSet(o) = Marked(m)
         /\ Cardinality(Marked(m)) = Len(o)
<1>1. o \in Seq(Indices) /\ m \in [Indices -> Nat] BY DEF MarksRight
<1>2. Len(o) \in Nat /\ DOMAIN o = 1 .. Len(o) /\ o \in [1 .. Len(o) -> Indices] BY <1>1, LenProperties
<1>3. \A k \in 1 .. Len(o) : o[k] \in Marked(m) BY <1>1, <1>2 DEF MarksRight, Marked
<1>4. \A i \in Marked(m) : \E k \in 1 .. Len(o) : o[k] = i BY <1>2 DEF MarksRight, Marked
<1>5. ToSet(o) = Marked(m) BY <1>2, <1>3, <1>4 DEF ToSet
<1>6. \A j, k \in 1 .. Len(o) : o[j] = o[k] => j = k
  <2> SUFFICES ASSUME NEW j \in 1 .. Len(o), NEW k \in 1 .. Len(o), o[j] = o[k], j < k PROVE FALSE
    BY <1>2
  <2>1. m[o[j]] < m[o[k]] BY <1>2 DEF MarksRight
  <2>2. m[o[j]] \in Nat BY <1>1, <1>2
  <2> QED BY <2>1, <2>2
<1>7. o \in [1 .. Len(o) -> Marked(m)] BY <1>2, <1>3
<1>8. o \in Bijection(1 .. Len(o), Marked(m))
  BY <1>4, <1>6, <1>7 DEF Bijection, Injection, Surjection, IsInjective
<1>9. ExistsBijection(1 .. Len(o), Marked(m)) BY <1>8 DEF ExistsBijection
<1>10. Cardinality(Marked(m)) = Len(o) BY <1>2, <1>9, FS_CountingElements
<1> QED BY <1>5, <1>10

\* dirprint() counts right.
LEMMA CountsRight ==
  ASSUME InList, NEW s \in Sel, NEW m
  PROVE  /\ Counted(s, m) \in Sel
         /\ CountedRight(Counted(s, m), m)
         /\ Counted(s, m).uMarked = s.uMarked
         /\ Counted(s, m).nDirLine = s.nDirLine
         /\ Counted(s, m).nDirFirst = s.nDirFirst
         /\ Counted(s, m).OnlyOne = s.OnlyOne
<1>1. Marked(m) \in SUBSET Indices BY DEF Marked
<1>2. Cardinality(Marked(m)) \in Nat BY <1>1, SubsetsFinite
<1>3. LastShown(s) \in Nat BY ListFacts DEF LastShown, Sel
<1> QED BY <1>2, <1>3 DEF Counted, CountedRight, Sel, LastShown

-----------------------------------------------------------------------------
(***************************************************************************)
(* The screen.                                                             *)
(***************************************************************************)
\* What a row is, by its fields.
LEMMA RowMade ==
  ASSUME NEW i \in Int, NEW a \in BOOLEAN, NEW b \in BOOLEAN, NEW x, x = [file |-> i, marked |-> a, inverse |-> b]
  PROVE  x \in [file : Int, marked : BOOLEAN, inverse : BOOLEAN] /\ x.file = i /\ x.marked = a /\ x.inverse = b
OBVIOUS

\* A page that is printed is right.
LEMMA PageShown ==
  ASSUME InList, NEW s \in Sel, InPage(s), NEW m \in [Indices -> Nat]
  PROVE  RowsRight(s.nDirFirst, s.nDirLine, Page(s, m), m)
<1>1. /\ uEntries \in Nat /\ uEntries > 0 /\ Indices = 0 .. uEntries - 1 /\ Rows \in Nat /\ Rows > 0
      /\ s.nDirFirst \in Nat /\ s.nDirLine \in Nat
  BY ListFacts DEF Sel
<1>2. \A r \in 0 .. Rows - 1 : s.nDirFirst + r <= LastShown(s) <=> s.nDirFirst + r < uEntries
  <2> TAKE r \in 0 .. Rows - 1
  <2> DEFINE f == s.nDirFirst
             N == uEntries
  <2>1. f \in Nat /\ N \in Nat /\ Rows \in Nat /\ r \in 0 .. Rows - 1 BY <1>1
  <2>2. LastShown(s) = IF f + Rows - 1 >= N THEN N - 1 ELSE f + Rows - 1 BY DEF LastShown
  <2> HIDE DEF f, N
  <2> QED BY <2>1, <2>2 DEF f, N
<1>3. \A r \in 0 .. Rows - 1 :
        Page(s, m)[r] = IF s.nDirFirst + r < uEntries
                        THEN [file |-> s.nDirFirst + r, marked |-> m[s.nDirFirst + r] > 0,
                              inverse |-> s.nDirFirst + r = s.nDirLine]
                        ELSE Empty
  BY <1>2 DEF Page, Row
<1>4. Page(s, m) \in Screens
  <2>1. \A r \in 0 .. Rows - 1 : Page(s, m)[r] \in [file : Int, marked : BOOLEAN, inverse : BOOLEAN]
    <3> TAKE r \in 0 .. Rows - 1
    <3> DEFINE i == s.nDirFirst + r
               x == Page(s, m)[r]
    <3>1. i \in Int /\ (m[i] > 0) \in BOOLEAN /\ (i = s.nDirLine) \in BOOLEAN BY <1>1
    <3>2. x = IF i < uEntries THEN [file |-> i, marked |-> m[i] > 0, inverse |-> i = s.nDirLine] ELSE Empty
      BY <1>3
    <3> HIDE DEF x
    <3>3. i < uEntries => x \in [file : Int, marked : BOOLEAN, inverse : BOOLEAN]
      <4> SUFFICES ASSUME i < uEntries PROVE x \in [file : Int, marked : BOOLEAN, inverse : BOOLEAN] OBVIOUS
      <4> DEFINE a == m[i] > 0
                 b == i = s.nDirLine
      <4>1. i \in Int /\ a \in BOOLEAN /\ b \in BOOLEAN BY <3>1
      <4>2. x = [file |-> i, marked |-> a, inverse |-> b] BY <3>2
      <4> HIDE DEF a, b, i
      <4> QED BY <4>1, <4>2, RowMade
    <3>4. ~(i < uEntries) => x \in [file : Int, marked : BOOLEAN, inverse : BOOLEAN]
      <4>1. ~(i < uEntries) => x = [file |-> 0 - 1, marked |-> FALSE, inverse |-> FALSE] BY <3>2 DEF Empty
      <4>2. \A i0 \in Int : x = [file |-> i0, marked |-> FALSE, inverse |-> FALSE] =>
              x \in [file : Int, marked : BOOLEAN, inverse : BOOLEAN]
        BY RowMade
      <4>3. 0 - 1 \in Int OBVIOUS
      <4> QED BY <4>1, <4>2, <4>3
    <3>5. x \in [file : Int, marked : BOOLEAN, inverse : BOOLEAN] BY <3>3, <3>4
    <3> QED BY <3>5 DEF x
  <2>2. Page(s, m) = [r \in 0 .. Rows - 1 |-> Page(s, m)[r]] BY DEF Page
  <2> QED BY <2>1, <2>2 DEF Screens
<1>5. \A r \in 0 .. Rows - 1 : RowRight(r, s.nDirFirst, s.nDirLine, Page(s, m), m)
  <2> TAKE r \in 0 .. Rows - 1
  <2> DEFINE i == s.nDirFirst + r
  <2>1. CASE i < uEntries
    <3>1. Page(s, m)[r] = [file |-> i, marked |-> m[i] > 0, inverse |-> i = s.nDirLine] BY <1>3, <2>1
    <3>2. Page(s, m)[r].file = i /\ (Page(s, m)[r].marked = (m[i] > 0)) /\ (Page(s, m)[r].inverse => i = s.nDirLine)
      <4> DEFINE a == m[i] > 0
                 b == i = s.nDirLine
                 x == Page(s, m)[r]
      <4>1. i \in Int /\ a \in BOOLEAN /\ b \in BOOLEAN BY <1>1
      <4>2. x = [file |-> i, marked |-> a, inverse |-> b] BY <3>1
      <4> HIDE DEF a, b, x, i
      <4>3. x.file = i /\ x.marked = a /\ x.inverse = b BY <4>1, <4>2, RowMade
      <4> QED BY <4>3, Zenon DEF a, b, x, i
    <3> QED BY <2>1, <3>2 DEF RowRight
  <2>2. CASE ~(i < uEntries) BY <1>3, <2>2 DEF RowRight
  <2> QED BY <2>1, <2>2
<1> QED BY <1>4, <1>5 DEF RowsRight

\* Drawing the current line sets right a screen on which all other rows are right;
\* without inverse video, no row is in inverse video then.
NotInverse == 0 - 1
InInverse(s, inverse) == IF inverse THEN s.nDirLine ELSE NotInverse

LEMMA LineDrawn ==
  ASSUME InList, NEW s \in Sel, InPage(s), NEW m \in [Indices -> Nat],
         NEW scr \in Screens, NEW inverse \in BOOLEAN,
         \A r \in 0 .. Rows - 1 :
           r # s.nDirLine - s.nDirFirst => RowRight(r, s.nDirFirst, NotInverse, scr, m)
  PROVE  RowsRight(s.nDirFirst, InInverse(s, inverse), Line(scr, s, m, inverse), m)
<1>1. /\ uEntries \in Nat /\ uEntries > 0 /\ Indices = 0 .. uEntries - 1 /\ Rows \in Nat /\ Rows > 0
      /\ s.nDirFirst \in Nat /\ s.nDirLine \in Nat
  BY ListFacts DEF Sel
<1> DEFINE at == s.nDirLine - s.nDirFirst
           new == Line(scr, s, m, inverse)
           drawn == [file |-> s.nDirLine, marked |-> m[s.nDirLine] > 0, inverse |-> inverse]
<1>2. at \in 0 .. Rows - 1 /\ s.nDirLine \in Indices /\ s.nDirFirst + at = s.nDirLine
  <2> DEFINE f == s.nDirFirst
             l == s.nDirLine
             N == uEntries
  <2>1. f \in Nat /\ l \in Nat /\ N \in Nat /\ Rows \in Nat BY <1>1
  <2>2. f <= l /\ l <= f + Rows - 1 /\ l < N BY DEF InPage
  <2>3. Indices = 0 .. N - 1 BY <1>1
  <2> HIDE DEF f, l, N
  <2>4. l - f \in 0 .. Rows - 1 /\ l \in 0 .. N - 1 /\ f + (l - f) = l BY <2>1, <2>2
  <2> QED BY <2>3, <2>4 DEF f, l
<1>3. new = [scr EXCEPT ![at] = drawn] BY DEF Line, Row
<1>4. drawn \in [file : Int, marked : BOOLEAN, inverse : BOOLEAN] BY <1>1
<1>5. new \in Screens BY <1>2, <1>3, <1>4 DEF Screens
<1>6. new[at] = drawn /\ \A r \in 0 .. Rows - 1 : r # at => new[r] = scr[r]
  BY <1>2, <1>3 DEF Screens
<1>7. ASSUME NEW r \in 0 .. Rows - 1 PROVE RowRight(r, s.nDirFirst, InInverse(s, inverse), new, m)
  <2>1. CASE r = at BY <1>1, <1>2, <1>6, <2>1 DEF RowRight, InInverse, InPage
  <2>2. CASE r # at
    <3>1. new[r] = scr[r] BY <1>6, <2>2
    <3>2. RowRight(r, s.nDirFirst, NotInverse, scr, m) BY <2>2
    <3> HIDE DEF new
    <3> QED BY <1>1, <3>1, <3>2 DEF RowRight, InInverse, NotInverse
  <2> QED BY <2>1, <2>2
<1> QED BY <1>5, <1>7 DEF RowsRight

\* The other rows of a screen that is right stay right when the mark of the current file changes.
LEMMA OthersRight ==
  ASSUME InList, NEW s \in Sel, InPage(s), NEW scr, NEW m, ScreenRight(s, scr, m), NEW m1,
         \A i \in Indices : i # s.nDirLine => m1[i] = m[i]
  PROVE  \A r \in 0 .. Rows - 1 :
           r # s.nDirLine - s.nDirFirst => RowRight(r, s.nDirFirst, NotInverse, scr, m1)
<1>1. /\ uEntries \in Nat /\ Indices = 0 .. uEntries - 1 /\ Rows \in Nat
      /\ s.nDirFirst \in Nat /\ s.nDirLine \in Nat
  BY ListFacts DEF Sel
<1> SUFFICES ASSUME NEW r \in 0 .. Rows - 1, r # s.nDirLine - s.nDirFirst
             PROVE  RowRight(r, s.nDirFirst, NotInverse, scr, m1)
  OBVIOUS
<1>2. RowRight(r, s.nDirFirst, s.nDirLine, scr, m) /\ scr[r] \in [file : Int, marked : BOOLEAN, inverse : BOOLEAN]
  BY DEF ScreenRight, RowsRight, Screens
<1>3. s.nDirFirst + r # s.nDirLine BY <1>1
<1>4. s.nDirFirst + r < uEntries => m1[s.nDirFirst + r] = m[s.nDirFirst + r] BY <1>1, <1>3
<1> QED BY <1>2, <1>3, <1>4 DEF RowRight

\* A screen that is right without inverse video is right wherever the current line is.
LEMMA NoneInverse ==
  ASSUME InList, NEW first \in Nat, NEW l \in Nat, NEW scr, NEW m, RowsRight(first, NotInverse, scr, m)
  PROVE  RowsRight(first, l, scr, m)
<1> SUFFICES ASSUME NEW r \in 0 .. Rows - 1 PROVE RowRight(r, first, l, scr, m)
  BY DEF RowsRight
<1>1. RowRight(r, first, NotInverse, scr, m) BY DEF RowsRight
<1>2. first + r # NotInverse BY ListFacts DEF NotInverse
<1> QED BY <1>1, <1>2 DEF RowRight

\* Scrolling keeps all rows right but those that come into sight.
LEMMA Scrolled ==
  ASSUME InList, NEW first \in Nat, NEW by \in Int, first + by \in Nat, NEW scr, NEW m,
         RowsRight(first, NotInverse, scr, m)
  PROVE  /\ Scroll(scr, by) \in Screens
         /\ \A r \in 0 .. Rows - 1 :
              r + by \in 0 .. Rows - 1 => RowRight(r, first + by, NotInverse, Scroll(scr, by), m)
<1>1. Rows \in Nat /\ scr \in Screens BY ListFacts DEF RowsRight
<1>2. Empty \in [file : Int, marked : BOOLEAN, inverse : BOOLEAN] BY DEF Empty
<1>3. Scroll(scr, by) \in Screens BY <1>1, <1>2 DEF Scroll, Screens
<1>4. ASSUME NEW r \in 0 .. Rows - 1, r + by \in 0 .. Rows - 1
      PROVE  RowRight(r, first + by, NotInverse, Scroll(scr, by), m)
  <2>1. Scroll(scr, by)[r] = scr[r + by] BY <1>4 DEF Scroll
  <2>2. RowRight(r + by, first, NotInverse, scr, m) BY <1>4 DEF RowsRight
  <2>3. (first + by) + r = first + (r + by) BY <1>1
  <2> QED BY <2>1, <2>2, <2>3 DEF RowRight
<1> QED BY <1>3, <1>4

\* moveto(): the old line, the scrolling and the new line leave the screen right, when only the
\* current line can come into sight and only the mark of the old one has changed.
LEMMA MovedRight ==
  ASSUME InList, NEW s \in Sel, InPage(s), NEW scr, NEW m, ScreenRight(s, scr, m),
         NEW m1 \in [Indices -> Nat], \A i \in Indices : i # s.nDirLine => m1[i] = m[i],
         NEW t \in Sel, InPage(t),
         \A r \in 0 .. Rows - 1 :
           r + (t.nDirFirst - s.nDirFirst) \in 0 .. Rows - 1 \/ r = t.nDirLine - t.nDirFirst
  PROVE  ScreenRight(t, Line(Scroll(Line(scr, s, m1, FALSE), t.nDirFirst - s.nDirFirst), t, m1, TRUE), m1)
<1> DEFINE by == t.nDirFirst - s.nDirFirst
           one == Line(scr, s, m1, FALSE)
           two == Scroll(one, by)
<1>1. s.nDirFirst \in Nat /\ t.nDirFirst \in Nat /\ by \in Int /\ s.nDirFirst + by = t.nDirFirst BY DEF Sel
<1>2. scr \in Screens BY DEF ScreenRight, RowsRight
<1>3. RowsRight(s.nDirFirst, NotInverse, one, m1)
  <2>1. RowsRight(s.nDirFirst, InInverse(s, FALSE), one, m1) BY <1>2, OthersRight, LineDrawn
  <2> QED BY <2>1 DEF InInverse
<1> HIDE DEF one
<1>4. /\ two \in Screens
      /\ \A r \in 0 .. Rows - 1 : r + by \in 0 .. Rows - 1 => RowRight(r, t.nDirFirst, NotInverse, two, m1)
  <2> HIDE DEF by
  <2> QED BY <1>1, <1>3, Scrolled
<1>5. \A r \in 0 .. Rows - 1 : r # t.nDirLine - t.nDirFirst => RowRight(r, t.nDirFirst, NotInverse, two, m1)
  BY <1>4
<1> HIDE DEF two
<1>6. RowsRight(t.nDirFirst, InInverse(t, TRUE), Line(two, t, m1, TRUE), m1) BY <1>4, <1>5, LineDrawn
<1> QED BY <1>6 DEF InInverse, ScreenRight, two, one

-----------------------------------------------------------------------------
(***************************************************************************)
(* The marks.                                                              *)
(***************************************************************************)
\* A file that is marked comes last in the order, with the highest number.
LEMMA MarkAdded ==
  ASSUME InList, NEW s \in Sel, NEW m, NEW o, MarksRight(s, m, o), NEW i \in Indices, m[i] = 0,
         NEW t \in Sel, t.uMarked = s.uMarked + 1
  PROVE  MarksRight(t, [m EXCEPT ![i] = s.uMarked + 1], Append(o, i))
<1> DEFINE u == s.uMarked
           m1 == [m EXCEPT ![i] = u + 1]
           o1 == Append(o, i)
<1>1. u \in Nat /\ t.uMarked = u + 1 BY DEF Sel
<1>2. m \in [Indices -> Nat] /\ o \in Seq(Indices) BY DEF MarksRight
<1>3. Len(o) \in Nat /\ DOMAIN o = 1 .. Len(o) /\ \A k \in 1 .. Len(o) : o[k] \in Indices
  BY <1>2, LenProperties
<1>4. m1 \in [Indices -> Nat] /\ m1[i] = u + 1 /\ \A j \in Indices : j # i => m1[j] = m[j] BY <1>1, <1>2
<1>5. /\ o1 \in Seq(Indices) /\ Len(o1) = Len(o) + 1 /\ DOMAIN o1 = 1 .. Len(o) + 1
      /\ o1[Len(o) + 1] = i /\ \A k \in 1 .. Len(o) : o1[k] = o[k]
  BY <1>2, <1>3, AppendProperties
<1>6. \A j \in Indices : m[j] <= u /\ m[j] \in Nat BY <1>2 DEF MarksRight
<1>7. \A k \in 1 .. Len(o) : m[o[k]] > 0 /\ o[k] # i BY <1>3 DEF MarksRight
<1>8. \A k \in 1 .. Len(o) : m1[o1[k]] = m[o[k]] /\ m[o[k]] <= u /\ m[o[k]] \in Nat /\ m[o[k]] > 0
  BY <1>3, <1>4, <1>5, <1>6, <1>7
<1>9. m1[o1[Len(o) + 1]] = u + 1 BY <1>4, <1>5
<1> HIDE DEF m1, o1
<1>10. \A j \in Indices : m1[j] <= t.uMarked
  <2> TAKE j \in Indices
  <2>1. m1[j] = u + 1 \/ (m1[j] <= u /\ m1[j] \in Nat) BY <1>4, <1>6
  <2> HIDE DEF u
  <2> QED BY <1>1, <2>1
<1>11. \A j \in Indices : m1[j] > 0 => \E k \in DOMAIN o1 : o1[k] = j
  <2> SUFFICES ASSUME NEW j \in Indices, m1[j] > 0 PROVE \E k \in 1 .. Len(o) + 1 : o1[k] = j
    BY <1>5
  <2>1. CASE j = i BY <1>3, <1>5, <2>1
  <2>2. CASE j # i
    <3>1. PICK k \in 1 .. Len(o) : o[k] = j BY <1>3, <1>4, <2>2 DEF MarksRight
    <3> QED BY <1>3, <1>5, <3>1
  <2> QED BY <2>1, <2>2
<1>12. \A k \in DOMAIN o1 : m1[o1[k]] > 0
  <2> SUFFICES ASSUME NEW k \in 1 .. Len(o) + 1 PROVE m1[o1[k]] > 0 BY <1>5
  <2>1. k \in 1 .. Len(o) \/ k = Len(o) + 1 BY <1>3
  <2> QED BY <1>1, <1>8, <1>9, <2>1
<1>13. \A j, k \in DOMAIN o1 : j < k => m1[o1[j]] < m1[o1[k]]
  <2> SUFFICES ASSUME NEW j \in 1 .. Len(o) + 1, NEW k \in 1 .. Len(o) + 1, j < k PROVE m1[o1[j]] < m1[o1[k]]
    BY <1>5
  <2>1. j \in 1 .. Len(o) /\ (k \in 1 .. Len(o) \/ k = Len(o) + 1) BY <1>3
  <2>2. CASE k \in 1 .. Len(o)
    <3>1. m[o[j]] < m[o[k]] BY <1>3, <2>1, <2>2 DEF MarksRight
    <3> QED BY <1>8, <2>1, <2>2, <3>1
  <2>3. CASE k = Len(o) + 1
    <3>1. m1[o1[j]] <= u /\ m1[o1[j]] \in Nat /\ m1[o1[k]] = u + 1 BY <1>8, <1>9, <2>1, <2>3
    <3> HIDE DEF u
    <3> QED BY <1>1, <3>1
  <2> QED BY <2>1, <2>2, <2>3
<1>14. MarksRight(t, m1, o1) BY <1>4, <1>5, <1>10, <1>11, <1>12, <1>13 DEF MarksRight
<1> QED BY <1>14 DEF m1, o1

\* Taking an entry away: what comes after it moves up.
LEMMA EntryTaken ==
  ASSUME NEW S, NEW o \in Seq(S), NEW k \in 1 .. Len(o)
  PROVE  /\ RemoveAt(o, k) \in Seq(S) /\ Len(RemoveAt(o, k)) = Len(o) - 1
         /\ \A j \in 1 .. Len(o) - 1 : RemoveAt(o, k)[j] = IF j < k THEN o[j] ELSE o[j + 1]
<1>1. Len(o) \in Nat /\ k \in Nat /\ k >= 1 /\ k <= Len(o) /\ \A j \in 1 .. Len(o) : o[j] \in S BY LenProperties
<1> DEFINE a == SubSeq(o, 1, k - 1)
           b == SubSeq(o, k + 1, Len(o))
<1>2. a \in Seq(S) /\ Len(a) = k - 1 /\ \A j \in 1 .. k - 1 : a[j] = o[j]
  <2>1. \A j \in 1 .. k - 1 : o[j] \in S BY <1>1
  <2>2. /\ a \in Seq(S) /\ Len(a) = IF 1 <= k - 1 THEN k - 1 - 1 + 1 ELSE 0
        /\ \A j \in 1 .. k - 1 - 1 + 1 : a[j] = o[1 + j - 1]
    BY <1>1, <2>1, SubSeqProperties
  <2> HIDE DEF a
  <2> QED BY <1>1, <2>2
<1>3. b \in Seq(S) /\ Len(b) = Len(o) - k /\ \A j \in 1 .. Len(o) - k : b[j] = o[k + j]
  <2>1. \A j \in k + 1 .. Len(o) : o[j] \in S BY <1>1
  <2>2. /\ b \in Seq(S) /\ Len(b) = IF k + 1 <= Len(o) THEN Len(o) - (k + 1) + 1 ELSE 0
        /\ \A j \in 1 .. Len(o) - (k + 1) + 1 : b[j] = o[(k + 1) + j - 1]
    BY <1>1, <2>1, SubSeqProperties
  <2> HIDE DEF b
  <2> QED BY <1>1, <2>2
<1>4. RemoveAt(o, k) = a \o b BY DEF RemoveAt
<1> HIDE DEF a, b
<1>5. /\ a \o b \in Seq(S) /\ Len(a \o b) = Len(a) + Len(b)
      /\ \A j \in 1 .. Len(a) + Len(b) : (a \o b)[j] = IF j <= Len(a) THEN a[j] ELSE b[j - Len(a)]
  BY <1>2, <1>3, ConcatProperties
<1>6. ASSUME NEW j \in 1 .. Len(o) - 1 PROVE (a \o b)[j] = IF j < k THEN o[j] ELSE o[j + 1]
  <2>1. CASE j < k
    <3>1. j \in 1 .. Len(a) + Len(b) /\ j <= Len(a) /\ j \in 1 .. k - 1 BY <1>1, <1>2, <1>3, <2>1
    <3> QED BY <1>2, <1>5, <2>1, <3>1
  <2>2. CASE ~(j < k)
    <3>1. j \in 1 .. Len(a) + Len(b) /\ ~(j <= Len(a)) /\ j - (k - 1) \in 1 .. Len(o) - k BY <1>1, <1>2, <1>3, <2>2
    <3>2. (a \o b)[j] = b[j - (k - 1)] BY <1>2, <1>5, <3>1
    <3>3. b[j - (k - 1)] = o[k + (j - (k - 1))] BY <1>3, <3>1
    <3>4. k + (j - (k - 1)) = j + 1 BY <1>1
    <3> QED BY <2>2, <3>2, <3>3, <3>4
  <2> QED BY <2>1, <2>2
<1> QED BY <1>1, <1>2, <1>3, <1>4, <1>5, <1>6

\* A file that loses its mark leaves the order, in which the others stay as they are.
LEMMA MarkTaken ==
  ASSUME InList, NEW s \in Sel, NEW m, NEW o, MarksRight(s, m, o), NEW i \in Indices
  PROVE  MarksRight(s, [m EXCEPT ![i] = 0], Without(o, i))
<1> DEFINE m1 == [m EXCEPT ![i] = 0]
<1>1. m \in [Indices -> Nat] /\ o \in Seq(Indices) /\ s.uMarked \in Nat BY DEF MarksRight, Sel
<1>2. Len(o) \in Nat /\ DOMAIN o = 1 .. Len(o) /\ \A k \in 1 .. Len(o) : o[k] \in Indices
  BY <1>1, LenProperties
<1>3. m1 \in [Indices -> Nat] /\ m1[i] = 0 /\ \A j \in Indices : j # i => m1[j] = m[j] BY <1>1
<1> HIDE DEF m1
<1>4. \A j \in Indices : m1[j] <= s.uMarked
  <2> TAKE j \in Indices
  <2>1. CASE j = i BY <1>1, <1>3, <2>1
  <2>2. CASE j # i BY <1>3, <2>2 DEF MarksRight
  <2> QED BY <2>1, <2>2
<1>5. \A j, k \in 1 .. Len(o) : o[j] = o[k] => j = k
  <2> SUFFICES ASSUME NEW j \in 1 .. Len(o), NEW k \in 1 .. Len(o), o[j] = o[k], j < k PROVE FALSE
    BY <1>2
  <2>1. m[o[j]] < m[o[k]] BY <1>2 DEF MarksRight
  <2>2. m[o[j]] \in Nat BY <1>1, <1>2
  <2> QED BY <2>1, <2>2
<1>6. CASE i \notin ToSet(o)
  <2>1. Without(o, i) = o BY <1>6 DEF Without
  <2>2. \A k \in 1 .. Len(o) : o[k] # i BY <1>2, <1>6 DEF ToSet
  <2>3. \A k \in 1 .. Len(o) : m1[o[k]] = m[o[k]] BY <1>2, <1>3, <2>2
  <2>4. \A j \in Indices : m1[j] > 0 => \E k \in DOMAIN o : o[k] = j
    <3> TAKE j \in Indices
    <3>1. CASE j = i BY <1>3, <3>1
    <3>2. CASE j # i BY <1>3, <3>2 DEF MarksRight
    <3> QED BY <3>1, <3>2
  <2>5. (\A k \in DOMAIN o : m1[o[k]] > 0) /\ (\A j, k \in DOMAIN o : j < k => m1[o[j]] < m1[o[k]])
    BY <1>2, <2>3 DEF MarksRight
  <2>6. MarksRight(s, m1, o) BY <1>1, <1>3, <1>4, <2>4, <2>5 DEF MarksRight
  <2> QED BY <2>1, <2>6 DEF m1
<1>7. CASE i \in ToSet(o)
  <2> DEFINE c == CHOOSE k \in DOMAIN o : o[k] = i
             o1 == RemoveAt(o, c)
  <2>1. \E k \in DOMAIN o : o[k] = i BY <1>7 DEF ToSet
  <2>2. c \in 1 .. Len(o) /\ o[c] = i BY <1>2, <2>1
  <2>3. Without(o, i) = o1 BY <1>7 DEF Without
  <2> HIDE DEF c
  <2>4. /\ o1 \in Seq(Indices) /\ Len(o1) = Len(o) - 1
        /\ \A j \in 1 .. Len(o) - 1 : o1[j] = IF j < c THEN o[j] ELSE o[j + 1]
    BY <1>1, <2>2, EntryTaken
  <2> HIDE DEF o1
  <2>5. DOMAIN o1 = 1 .. Len(o) - 1 BY <2>4, LenProperties
  <2> DEFINE Old(j) == IF j < c THEN j ELSE j + 1
  <2>6. \A j \in 1 .. Len(o) - 1 : Old(j) \in 1 .. Len(o) /\ Old(j) # c /\ o1[j] = o[Old(j)]
    <3> TAKE j \in 1 .. Len(o) - 1
    <3>1. CASE j < c
      <4>1. o1[j] = o[j] BY <2>4, <3>1
      <4>2. Old(j) = j BY <3>1
      <4>3. j \in 1 .. Len(o) /\ j # c BY <1>2, <2>2, <3>1
      <4> HIDE DEF Old
      <4> QED BY <4>1, <4>2, <4>3
    <3>2. CASE ~(j < c) BY <1>2, <2>2, <2>4, <3>2
    <3> QED BY <3>1, <3>2
  <2>7. \A j, k \in 1 .. Len(o) - 1 : j < k => Old(j) < Old(k) BY <1>2, <2>2
  <2> HIDE DEF Old
  <2>8. \A j \in 1 .. Len(o) - 1 : o[Old(j)] # i /\ m1[o1[j]] = m[o[Old(j)]]
    BY <1>2, <1>3, <1>5, <2>2, <2>6
  <2>9. \A j \in Indices : m1[j] > 0 => \E k \in DOMAIN o1 : o1[k] = j
    <3> SUFFICES ASSUME NEW j \in Indices, m1[j] > 0 PROVE \E k \in 1 .. Len(o) - 1 : o1[k] = j BY <2>5
    <3>1. j # i BY <1>3
    <3>2. PICK k \in 1 .. Len(o) : o[k] = j BY <1>2, <1>3, <3>1 DEF MarksRight
    <3>3. k # c BY <2>2, <3>1, <3>2
    <3>4. CASE k < c
      <4>1. k \in 1 .. Len(o) - 1 BY <1>2, <2>2, <3>4
      <4> QED BY <2>4, <3>2, <3>4, <4>1
    <3>5. CASE k > c
      <4>1. k - 1 \in 1 .. Len(o) - 1 /\ ~(k - 1 < c) /\ k - 1 + 1 = k BY <1>2, <2>2, <3>5
      <4>2. o1[k - 1] = j BY <2>4, <3>2, <4>1
      <4> QED BY <4>1, <4>2
    <3> QED BY <2>2, <3>3, <3>4, <3>5
  <2>10. \A k \in DOMAIN o1 : m1[o1[k]] > 0 BY <1>2, <2>5, <2>6, <2>8 DEF MarksRight
  <2>11. \A j, k \in DOMAIN o1 : j < k => m1[o1[j]] < m1[o1[k]]
    <3> SUFFICES ASSUME NEW j \in 1 .. Len(o) - 1, NEW k \in 1 .. Len(o) - 1, j < k PROVE m1[o1[j]] < m1[o1[k]]
      BY <2>5
    <3>1. Old(j) \in DOMAIN o /\ Old(k) \in DOMAIN o /\ Old(j) < Old(k) BY <1>2, <2>6, <2>7
    <3>2. m[o[Old(j)]] < m[o[Old(k)]] BY <3>1 DEF MarksRight
    <3> QED BY <2>8, <3>2
  <2>12. MarksRight(s, m1, o1) BY <1>3, <1>4, <2>4, <2>9, <2>10, <2>11 DEF MarksRight
  <2> QED BY <2>3, <2>12 DEF m1
<1> QED BY <1>6, <1>7

\* "*": the files that it marks are numbered as they come in the list, and no number is left out.
LEMMA NumbersInOrder ==
  ASSUME InList
  PROVE  /\ Cardinality(Reversed) \in Nat
         /\ \A i \in Reversed : MarkedBefore(i) + 1 \in 1 .. Cardinality(Reversed)
         /\ \A k \in 1 .. Cardinality(Reversed) : \E i \in Reversed : MarkedBefore(i) = k - 1
         /\ \A i, j \in Reversed : MarkedBefore(i) = MarkedBefore(j) => i = j
<1> DEFINE N == Cardinality(Reversed)
           Under(i) == {j \in Reversed : j < i}
           f == [i \in Reversed |-> MarkedBefore(i) + 1]
<1>1. Reversed \in SUBSET Indices BY DEF Reversed
<1>2. Indices \subseteq Nat BY ListFacts
<1>3. N \in Nat /\ IsFiniteSet(Reversed) BY <1>1, SubsetsFinite
<1>4. \A i : Under(i) \in SUBSET Reversed BY DEF Reversed
<1>5. \A i : IsFiniteSet(Under(i)) /\ Cardinality(Under(i)) \in Nat BY <1>1, <1>4, SubsetsFinite
<1>6. \A i : MarkedBefore(i) = Cardinality(Under(i)) BY DEF MarkedBefore
<1>7. ASSUME NEW i \in Reversed, NEW T \in SUBSET Reversed, Under(i) \subseteq T, i \in T
      PROVE  MarkedBefore(i) + 1 <= Cardinality(T)
  <2>1. i \notin Under(i) BY <1>1, <1>2
  <2>2. Cardinality(Under(i) \cup {i}) = Cardinality(Under(i)) + 1
    BY <1>5, <2>1, FS_AddElement
  <2>3. Under(i) \cup {i} \in SUBSET T BY <1>7
  <2>4. IsFiniteSet(T) BY <1>3, FS_Subset
  <2>5. Cardinality(Under(i) \cup {i}) <= Cardinality(T) BY <2>3, <2>4, FS_Subset
  <2> QED BY <1>6, <2>2, <2>5
<1>8. \A i \in Reversed : MarkedBefore(i) \in Nat /\ MarkedBefore(i) + 1 <= N
  <2> TAKE i \in Reversed
  <2>1. Reversed \in SUBSET Reversed OBVIOUS
  <2>2. MarkedBefore(i) + 1 <= N BY <1>4, <1>7, <2>1
  <2> QED BY <1>5, <1>6, <2>2
<1>9. \A i, j \in Reversed : i < j => MarkedBefore(i) < MarkedBefore(j)
  <2> SUFFICES ASSUME NEW i \in Reversed, NEW j \in Reversed, i < j PROVE MarkedBefore(i) < MarkedBefore(j)
    OBVIOUS
  <2>1. Under(i) \subseteq Under(j) /\ i \in Under(j)
    <3>1. Reversed \subseteq Nat /\ i \in Nat /\ j \in Nat BY <1>1, <1>2
    <3>2. \A k \in Reversed : k < i => k < j BY <3>1
    <3> QED BY <3>2
  <2>2. MarkedBefore(i) + 1 <= Cardinality(Under(j)) BY <1>4, <1>7, <2>1
  <2> QED BY <1>6, <1>8, <2>2
<1>10. \A i, j \in Reversed : MarkedBefore(i) = MarkedBefore(j) => i = j
  <2> SUFFICES ASSUME NEW i \in Reversed, NEW j \in Reversed, MarkedBefore(i) = MarkedBefore(j) PROVE i = j
    OBVIOUS
  <2>1. i \in Nat /\ j \in Nat /\ MarkedBefore(i) \in Nat BY <1>1, <1>2, <1>8
  <2>2. ~(i < j) /\ ~(j < i) BY <1>9, <2>1
  <2> QED BY <2>1, <2>2
<1>11. \A i \in Reversed : MarkedBefore(i) + 1 \in 1 .. N BY <1>3, <1>8
<1>12. f \in Injection(Reversed, 1 .. N)
  <2>1. f \in [Reversed -> 1 .. N] BY <1>11
  <2>2. \A i, j \in Reversed : f[i] = f[j] => i = j
    <3> SUFFICES ASSUME NEW i \in Reversed, NEW j \in Reversed, f[i] = f[j] PROVE i = j OBVIOUS
    <3>1. MarkedBefore(i) + 1 = MarkedBefore(j) + 1 OBVIOUS
    <3>2. MarkedBefore(i) = MarkedBefore(j) BY <1>8, <3>1
    <3> QED BY <1>10, <3>2
  <2> QED BY <2>1, <2>2 DEF Injection, IsInjective
<1>13. IsFiniteSet(1 .. N) /\ Cardinality(1 .. N) = N BY <1>3, FS_Interval
<1>14. f \in Surjection(Reversed, 1 .. N) BY <1>12, <1>13, FS_Injection
<1>15. ASSUME NEW k \in 1 .. N PROVE \E i \in Reversed : MarkedBefore(i) = k - 1
  <2>1. PICK i \in Reversed : f[i] = k BY <1>14 DEF Surjection
  <2>2. MarkedBefore(i) + 1 = k BY <2>1
  <2>3. MarkedBefore(i) = k - 1 BY <1>3, <1>8, <2>2
  <2> QED BY <2>3
<1> QED BY <1>3, <1>10, <1>11, <1>15

LEMMA ReversedRight ==
  ASSUME InList, sel \in Sel, MarksRight(sel, marks, order),
         NEW t \in Sel, t.uMarked = sel.uMarked + Cardinality(Reversed)
  PROVE  MarksRight(t, ReverseAll, InOrder)
<1> DEFINE N == Cardinality(Reversed)
           u == sel.uMarked
<1>1. /\ N \in Nat
      /\ \A i \in Reversed : MarkedBefore(i) + 1 \in 1 .. N
      /\ \A k \in 1 .. N : \E i \in Reversed : MarkedBefore(i) = k - 1
  BY NumbersInOrder
<1>2. u \in Nat /\ t.uMarked = u + N BY DEF Sel
<1>3. Reversed \subseteq Indices BY DEF Reversed
<1>4. /\ \A i \in Indices : i \in Reversed => ReverseAll[i] = u + MarkedBefore(i) + 1
      /\ \A i \in Indices : i \notin Reversed => ReverseAll[i] = 0
  BY DEF ReverseAll
<1>5. \A i \in Reversed : MarkedBefore(i) \in Nat
  <2> TAKE i \in Reversed
  <2>1. MarkedBefore(i) = Cardinality({j \in Reversed : j < i}) BY DEF MarkedBefore
  <2>2. {j \in Reversed : j < i} \in SUBSET Indices BY <1>3
  <2> QED BY <2>1, <2>2, SubsetsFinite
<1>6. ASSUME NEW k \in 1 .. N
      PROVE  InOrder[k] \in Reversed /\ MarkedBefore(InOrder[k]) = k - 1
  <2>1. InOrder[k] = CHOOSE i \in Reversed : MarkedBefore(i) = k - 1 BY DEF InOrder
  <2> QED BY <1>1, <2>1
<1>7. InOrder = [k \in 1 .. N |-> InOrder[k]] /\ DOMAIN InOrder = 1 .. N BY DEF InOrder
<1>8. InOrder \in Seq(Indices)
  <2>1. \A k \in 1 .. N : InOrder[k] \in Indices BY <1>3, <1>6
  <2>2. [k \in 1 .. N |-> InOrder[k]] \in Seq(Indices) BY <1>1, <2>1, IsASeq
  <2> QED BY <1>7, <2>2
<1> HIDE DEF N, u
<1>9. \A i \in Indices : ReverseAll[i] \in Nat /\ ReverseAll[i] <= u + N
  <2> TAKE i \in Indices
  <2>1. CASE i \in Reversed BY <1>1, <1>2, <1>4, <1>5, <2>1
  <2>2. CASE i \notin Reversed BY <1>1, <1>2, <1>4, <2>2
  <2> QED BY <2>1, <2>2
<1>10. ReverseAll \in [Indices -> Nat]
  <2>1. ReverseAll = [i \in Indices |-> ReverseAll[i]] BY DEF ReverseAll
  <2> QED BY <1>9, <2>1
<1>11. \A k \in 1 .. N : ReverseAll[InOrder[k]] = u + k
  <2> TAKE k \in 1 .. N
  <2>1. InOrder[k] \in Reversed /\ MarkedBefore(InOrder[k]) = k - 1 BY <1>6
  <2>2. ReverseAll[InOrder[k]] = u + MarkedBefore(InOrder[k]) + 1 BY <1>3, <1>4, <2>1
  <2> QED BY <1>1, <1>2, <2>1, <2>2
<1>12. \A i \in Indices : ReverseAll[i] > 0 => \E k \in DOMAIN InOrder : InOrder[k] = i
  <2> SUFFICES ASSUME NEW i \in Indices, ReverseAll[i] > 0 PROVE \E k \in 1 .. N : InOrder[k] = i
    BY <1>7
  <2>1. i \in Reversed BY <1>4
  <2> DEFINE k == MarkedBefore(i) + 1
  <2>2. k \in 1 .. N /\ k - 1 = MarkedBefore(i) BY <1>1, <1>5, <2>1
  <2>3. InOrder[k] \in Reversed /\ MarkedBefore(InOrder[k]) = k - 1 BY <1>6, <2>2
  <2>4. InOrder[k] = i BY <2>1, <2>2, <2>3, NumbersInOrder
  <2> QED BY <2>2, <2>4
<1>13. \A k \in DOMAIN InOrder : ReverseAll[InOrder[k]] > 0 BY <1>1, <1>2, <1>7, <1>11
<1>14. \A j, k \in DOMAIN InOrder : j < k => ReverseAll[InOrder[j]] < ReverseAll[InOrder[k]]
  BY <1>1, <1>2, <1>7, <1>11
<1> QED BY <1>2, <1>8, <1>9, <1>10, <1>12, <1>13, <1>14 DEF MarksRight, N

-----------------------------------------------------------------------------
(***************************************************************************)
(* The keys.                                                               *)
(***************************************************************************)
\* What a key leaves is what the invariant asks of the marking.
LEMMA MarkKept ==
  ASSUME UNCHANGED <<selection, nArg>>, InPage(sel'), CountedRight(sel', marks'),
         ScreenRight(sel', rows', marks'), MarksRight(sel', marks', order'), ran' = <<>>
  PROVE  MarkInv'
<1>1. Entries' = Entries /\ uEntries' = uEntries /\ Indices' = Indices BY DEF Entries, uEntries, Indices
<1>2. InPage(sel)' BY <1>1 DEF InPage
<1>3. CountedRight(sel, marks)' BY <1>1 DEF CountedRight, LastShown, Marked
<1>4. ScreenRight(sel, rows, marks)' BY <1>1 DEF ScreenRight, RowsRight, RowRight
<1>5. MarksRight(sel, marks, order)' BY <1>1 DEF MarksRight
<1> QED BY <1>2, <1>3, <1>4, <1>5 DEF MarkInv

\* A key leaves the marking, when it keeps the screen, the counters and the marks right.
LEMMA Pressed ==
  ASSUME IInv, Press, sel' \in Sel, InPage(sel'), CountedRight(sel', marks'),
         ScreenRight(sel', rows', marks'), MarksRight(sel', marks', order')
  PROVE  IInv'
<1>1. /\ UNCHANGED <<selection, nArg, stage>> /\ stage = "mark" /\ UNCHANGED ran /\ ran = <<>>
  BY DEF IInv, MarkInv, Press
<1>2. TypeInv' BY <1>1 DEF IInv, TypeInv, Entries
<1>3. MarkInv' BY <1>1, MarkKept
<1>4. ProcessInv' /\ RunInv' BY <1>1 DEF ProcessInv, RunInv
<1> QED BY <1>2, <1>3, <1>4 DEF IInv

\* What holds while files are marked.
LEMMA Marking ==
  ASSUME IInv, stage = "mark"
  PROVE  /\ InList /\ sel \in Sel /\ InPage(sel) /\ CountedRight(sel, marks)
         /\ ScreenRight(sel, rows, marks) /\ MarksRight(sel, marks, order)
         /\ marks \in [Indices -> Nat]
<1>1. /\ selection \in Selections /\ nArg \in 0 .. Len(selection.lists) /\ nArg > 0 /\ Entries # <<>>
      /\ sel \in Sel
      /\ InPage(sel) /\ CountedRight(sel, marks) /\ ScreenRight(sel, rows, marks)
      /\ MarksRight(sel, marks, order)
  BY DEF IInv, TypeInv, MarkInv
<1>2. Len(selection.lists) \in Nat
  BY <1>1, SelectAssumption, LenProperties
<1>3. nArg \in 1 .. Len(selection.lists) BY <1>1, <1>2
<1> QED BY <1>1, <1>3 DEF InList, MarksRight

\* A position is all of a page that InPage() and ScreenRight() look at.
LEMMA SamePlace ==
  ASSUME NEW s \in Sel, NEW t \in Sel, t.nDirLine = s.nDirLine, t.nDirFirst = s.nDirFirst, NEW scr, NEW m
  PROVE  (InPage(s) <=> InPage(t)) /\ (ScreenRight(s, scr, m) <=> ScreenRight(t, scr, m))
BY DEF InPage, ScreenRight

\* Of the counters the marks only look at the highest number.
LEMMA SameMarks ==
  ASSUME NEW s \in Sel, NEW t \in Sel, t.uMarked = s.uMarked, NEW m, NEW o, MarksRight(s, m, o)
  PROVE  MarksRight(t, m, o)
BY DEF MarksRight

\* A line down or up stays in the list, and what comes into sight is the line moved to.
LEMMA DownInPage ==
  ASSUME InList, NEW s \in Sel, InPage(s), s.nDirLast = LastShown(s)
  PROVE  /\ Down(s) \in Sel /\ InPage(Down(s)) /\ Down(s).uMarked = s.uMarked
         /\ \A r \in 0 .. Rows - 1 :
              r + (Down(s).nDirFirst - s.nDirFirst) \in 0 .. Rows - 1 \/ r = Down(s).nDirLine - Down(s).nDirFirst
<1> DEFINE f == s.nDirFirst
           l == s.nDirLine
           N == uEntries
           moved == l + 1
           first == IF l + 1 > s.nDirLast THEN f + 1 ELSE f
<1>1. f \in Nat /\ l \in Nat /\ N \in Nat /\ Rows \in Nat /\ Rows > 0 BY ListFacts DEF Sel
<1>2. f <= l /\ l <= f + Rows - 1 /\ l < N BY DEF InPage
<1>3. s.nDirLast = IF f + Rows - 1 >= N THEN N - 1 ELSE f + Rows - 1 BY DEF LastShown
<1>4. CASE l >= N - 1
  <2>1. Down(s) = s BY <1>4 DEF Down
  <2>2. \A r \in 0 .. Rows - 1 : r + (s.nDirFirst - s.nDirFirst) \in 0 .. Rows - 1 BY <1>1
  <2> QED BY <2>1, <2>2
<1>5. CASE ~(l >= N - 1)
  <2>1. Down(s) = [s EXCEPT !.nDirLine = moved, !.nDirFirst = first] BY <1>5 DEF Down
  <2>2. first \in Nat /\ moved \in Nat BY <1>1
  <2>3. /\ Down(s) \in Sel /\ Down(s).uMarked = s.uMarked /\ Down(s).nDirLine = moved /\ Down(s).nDirFirst = first
    <3> HIDE DEF first, moved
    <3> QED BY <2>1, <2>2 DEF Sel
  <2>4. first = IF l + 1 > f + Rows - 1 THEN f + 1 ELSE f
    <3> DEFINE last == s.nDirLast
    <3>1. last = IF f + Rows - 1 >= N THEN N - 1 ELSE f + Rows - 1 BY <1>3
    <3>2. first = IF l + 1 > last THEN f + 1 ELSE f OBVIOUS
    <3>3. l + 1 <= N - 1 BY <1>1, <1>2, <1>5
    <3> HIDE DEF last, first, f, l, N
    <3> QED BY <1>1, <1>2, <3>1, <3>2, <3>3
  <2>5. first <= moved /\ moved <= first + Rows - 1 /\ moved < N
    <3>1. l + 1 < N BY <1>1, <1>2, <1>5
    <3> HIDE DEF first, f, l, N
    <3> QED BY <1>1, <1>2, <2>4, <3>1
  <2>6. \A r \in 0 .. Rows - 1 : r + (first - f) \in 0 .. Rows - 1 \/ r = moved - first
    <3> HIDE DEF first, f, l, N
    <3> TAKE r \in 0 .. Rows - 1
    <3>1. CASE l + 1 > f + Rows - 1
      <4>1. l = f + Rows - 1 /\ first = f + 1 BY <1>1, <1>2, <2>4, <3>1
      <4>2. first - f = 1 /\ moved - first = Rows - 1 BY <1>1, <4>1
      <4> QED BY <1>1, <4>2
    <3>2. CASE ~(l + 1 > f + Rows - 1)
      <4>1. first = f BY <2>4, <3>2
      <4>2. first - f = 0 BY <1>1, <4>1
      <4> QED BY <1>1, <4>2
    <3> QED BY <3>1, <3>2
  <2>7. InPage(Down(s)) BY <2>3, <2>5 DEF InPage
  <2> HIDE DEF first, moved
  <2> QED BY <2>3, <2>6, <2>7
<1> QED BY <1>4, <1>5

LEMMA UpInPage ==
  ASSUME InList, NEW s \in Sel, InPage(s)
  PROVE  /\ Up(s) \in Sel /\ InPage(Up(s)) /\ Up(s).uMarked = s.uMarked
         /\ \A r \in 0 .. Rows - 1 :
              r + (Up(s).nDirFirst - s.nDirFirst) \in 0 .. Rows - 1 \/ r = Up(s).nDirLine - Up(s).nDirFirst
<1> DEFINE f == s.nDirFirst
           l == s.nDirLine
           N == uEntries
           moved == l - 1
           first == IF l - 1 < f THEN f - 1 ELSE f
<1>1. f \in Nat /\ l \in Nat /\ N \in Nat /\ Rows \in Nat /\ Rows > 0 BY ListFacts DEF Sel
<1>2. f <= l /\ l <= f + Rows - 1 /\ l < N BY DEF InPage
<1>3. CASE l = 0
  <2>1. Up(s) = s BY <1>3 DEF Up
  <2>2. \A r \in 0 .. Rows - 1 : r + (s.nDirFirst - s.nDirFirst) \in 0 .. Rows - 1 BY <1>1
  <2> QED BY <2>1, <2>2
<1>4. CASE l # 0
  <2>1. Up(s) = [s EXCEPT !.nDirLine = moved, !.nDirFirst = first] BY <1>4 DEF Up
  <2>2. first \in Nat /\ moved \in Nat /\ first <= moved /\ moved <= first + Rows - 1 /\ moved < N
    <3> HIDE DEF f, l, N
    <3> QED BY <1>1, <1>2, <1>4
  <2>3. /\ Up(s) \in Sel /\ Up(s).uMarked = s.uMarked /\ Up(s).nDirLine = moved /\ Up(s).nDirFirst = first
    <3> HIDE DEF first, moved
    <3> QED BY <2>1, <2>2 DEF Sel
  <2>4. \A r \in 0 .. Rows - 1 : r + (first - f) \in 0 .. Rows - 1 \/ r = moved - first
    <3> HIDE DEF f, l, N
    <3> TAKE r \in 0 .. Rows - 1
    <3>1. CASE l - 1 < f
      <4>1. l = f /\ first = f - 1 BY <1>1, <1>2, <3>1
      <4>2. first - f = 0 - 1 /\ moved - first = 0 BY <1>1, <4>1
      <4> QED BY <1>1, <4>2
    <3>2. CASE ~(l - 1 < f)
      <4>1. first - f = 0 BY <1>1, <3>2
      <4> QED BY <1>1, <4>1
    <3> QED BY <3>1, <3>2
  <2>5. InPage(Up(s)) BY <2>2, <2>3 DEF InPage
  <2> HIDE DEF first, moved
  <2> QED BY <2>3, <2>4, <2>5
<1> QED BY <1>3, <1>4

\* Redrawing the page at a position in the list.
LEMMA RedrawRight ==
  ASSUME InList, NEW s \in Sel, InPage(s), NEW m, MarksRight(s, m, order'), Redraw(s, m)
  PROVE  /\ sel' \in Sel /\ InPage(sel') /\ CountedRight(sel', marks')
         /\ ScreenRight(sel', rows', marks') /\ MarksRight(sel', marks', order')
<1>2. sel' = Counted(s, m) /\ marks' = m /\ rows' = Page(s, m) BY DEF Redraw
<1>3. m \in [Indices -> Nat] BY DEF MarksRight
<1>4. ScreenRight(s, Page(s, m), m) BY <1>3, PageShown DEF ScreenRight
<1>5. /\ sel' \in Sel /\ CountedRight(sel', marks') /\ sel'.uMarked = s.uMarked
      /\ sel'.nDirLine = s.nDirLine /\ sel'.nDirFirst = s.nDirFirst
  BY <1>2, CountsRight
<1>6. InPage(sel') /\ ScreenRight(sel', rows', marks') BY <1>2, <1>4, <1>5, SamePlace
<1>7. MarksRight(sel', marks', order') BY <1>2, <1>5, SameMarks
<1> QED BY <1>5, <1>6, <1>7

LEMMA RedrawKeeps ==
  ASSUME IInv, Press, NEW s \in Sel, InPage(s), NEW m, MarksRight(s, m, order'), Redraw(s, m)
  PROVE  IInv'
<1>1. InList BY Marking DEF Press
<1> QED BY <1>1, RedrawRight, Pressed

\* Moving from the current line to another.
LEMMA MoveToKeeps ==
  ASSUME IInv, Press, NEW s \in Sel, s.nDirLine = sel.nDirLine, s.nDirFirst = sel.nDirFirst,
         NEW t \in Sel, InPage(t), t.uMarked = s.uMarked,
         \A r \in 0 .. Rows - 1 :
           r + (t.nDirFirst - s.nDirFirst) \in 0 .. Rows - 1 \/ r = t.nDirLine - t.nDirFirst,
         NEW m, \A i \in Indices : i # sel.nDirLine => m[i] = marks[i], MarksRight(s, m, order'),
         MoveTo(s, t, m)
  PROVE  IInv'
<1>1. InList /\ sel \in Sel /\ InPage(sel) /\ ScreenRight(sel, rows, marks) BY Marking DEF Press
<1>2. /\ sel' = Counted(t, m) /\ marks' = m
      /\ rows' = Line(Scroll(Line(rows, s, m, FALSE), t.nDirFirst - s.nDirFirst), t, m, TRUE)
  BY DEF MoveTo
<1>3. m \in [Indices -> Nat] BY DEF MarksRight
<1>4. InPage(s) /\ ScreenRight(s, rows, marks) BY <1>1, SamePlace
<1>5. ScreenRight(t, rows', m) BY <1>1, <1>2, <1>3, <1>4, MovedRight
<1>6. /\ sel' \in Sel /\ CountedRight(sel', marks') /\ sel'.uMarked = t.uMarked
      /\ sel'.nDirLine = t.nDirLine /\ sel'.nDirFirst = t.nDirFirst
  BY <1>1, <1>2, CountsRight
<1>7. InPage(sel') /\ ScreenRight(sel', rows', marks') BY <1>2, <1>5, <1>6, SamePlace
<1>8. MarksRight(sel', marks', order') BY <1>2, <1>6, SameMarks
<1> QED BY <1>6, <1>7, <1>8, Pressed

\* Marking a file, or taking its mark away.
LEMMA ToggledRight ==
  ASSUME InList, NEW s \in Sel, MarksRight(s, marks, order), NEW i \in Indices, NEW add \in BOOLEAN
  PROVE  /\ Toggled(s, i, add).s \in Sel
         /\ Toggled(s, i, add).s.nDirLine = s.nDirLine /\ Toggled(s, i, add).s.nDirFirst = s.nDirFirst
         /\ Toggled(s, i, add).s.nDirLast = s.nDirLast
         /\ MarksRight(Toggled(s, i, add).s, Toggled(s, i, add).m, Toggled(s, i, add).o)
         /\ \A j \in Indices : j # i => Toggled(s, i, add).m[j] = marks[j]
<1>1. marks \in [Indices -> Nat] /\ s.uMarked \in Nat BY DEF MarksRight, Sel
<1>2. CASE add /\ marks[i] = 0
  <2> DEFINE t == [s EXCEPT !.uMarked = s.uMarked + 1]
             m == [marks EXCEPT ![i] = s.uMarked + 1]
             o == Append(order, i)
  <2>1. Toggled(s, i, add) = [s |-> t, m |-> m, o |-> o] BY <1>2 DEF Toggled, NextMark
  <2>2. /\ t \in Sel /\ t.uMarked = s.uMarked + 1
        /\ t.nDirLine = s.nDirLine /\ t.nDirFirst = s.nDirFirst /\ t.nDirLast = s.nDirLast
    BY <1>1 DEF Sel
  <2>3. \A j \in Indices : j # i => m[j] = marks[j] BY <1>1
  <2> HIDE DEF t
  <2>4. MarksRight(t, m, o) BY <1>2, <2>2, MarkAdded
  <2> HIDE DEF m, o
  <2> QED BY <2>1, <2>2, <2>3, <2>4
<1>3. CASE ~(add /\ marks[i] = 0)
  <2> DEFINE m == [marks EXCEPT ![i] = 0]
             o == Without(order, i)
  <2>1. Toggled(s, i, add) = [s |-> s, m |-> m, o |-> o] BY <1>3 DEF Toggled
  <2>2. \A j \in Indices : j # i => m[j] = marks[j] BY <1>1
  <2>3. MarksRight(s, m, o) BY MarkTaken
  <2> HIDE DEF m, o
  <2> QED BY <2>1, <2>2, <2>3
<1> QED BY <1>2, <1>3

LEMMA ArrowKeeps == ASSUME IInv, Arrow PROVE IInv'
<1>1. Press /\ order' = order /\ (MoveTo(sel, Down(sel), marks) \/ MoveTo(sel, Up(sel), marks)) BY DEF Arrow
<1>2. /\ InList /\ sel \in Sel /\ InPage(sel) /\ sel.nDirLast = LastShown(sel) /\ MarksRight(sel, marks, order)
  BY <1>1, Marking DEF Press, CountedRight
<1>3. CASE MoveTo(sel, Down(sel), marks) BY <1>1, <1>2, <1>3, DownInPage, MoveToKeeps
<1>4. CASE MoveTo(sel, Up(sel), marks) BY <1>1, <1>2, <1>4, UpInPage, MoveToKeeps
<1> QED BY <1>1, <1>3, <1>4

LEMMA MarkKeyKeeps == ASSUME IInv, MarkKey PROVE IInv'
<1>1. PICK add \in BOOLEAN :
        /\ MoveTo(Toggled(sel, sel.nDirLine, add).s, Down(Toggled(sel, sel.nDirLine, add).s),
                  Toggled(sel, sel.nDirLine, add).m)
        /\ order' = Toggled(sel, sel.nDirLine, add).o
  BY DEF MarkKey
<1>2. Press BY DEF MarkKey
<1>3. /\ InList /\ sel \in Sel /\ InPage(sel) /\ sel.nDirLast = LastShown(sel) /\ MarksRight(sel, marks, order)
  BY <1>2, Marking DEF Press, CountedRight
<1>4. sel.nDirLine \in Indices BY <1>3, ListFacts DEF InPage, Sel
<1> DEFINE s == Toggled(sel, sel.nDirLine, add).s
           m == Toggled(sel, sel.nDirLine, add).m
           o == Toggled(sel, sel.nDirLine, add).o
<1>5. /\ s \in Sel /\ s.nDirLine = sel.nDirLine /\ s.nDirFirst = sel.nDirFirst /\ s.nDirLast = sel.nDirLast
      /\ MarksRight(s, m, o) /\ \A j \in Indices : j # sel.nDirLine => m[j] = marks[j]
  BY <1>3, <1>4, ToggledRight
<1>6. MoveTo(s, Down(s), m) /\ order' = o BY <1>1
<1> HIDE DEF s, m, o
<1>7. LastShown(s) = LastShown(sel) BY <1>5 DEF LastShown
<1>8. InPage(s) /\ s.nDirLast = LastShown(s) BY <1>3, <1>5, <1>7, SamePlace
<1> QED BY <1>2, <1>3, <1>5, <1>6, <1>8, DownInPage, MoveToKeeps

\* A position by its two numbers.
At(s, first, at) == [s EXCEPT !.nDirFirst = first, !.nDirLine = at]

LEMMA Placed ==
  ASSUME NEW s \in Sel, NEW first \in Nat, NEW at \in Nat,
         first <= at, at <= first + Rows - 1, at < uEntries
  PROVE  At(s, first, at) \in Sel /\ InPage(At(s, first, at)) /\ At(s, first, at).uMarked = s.uMarked
<1>1. /\ At(s, first, at) \in Sel /\ At(s, first, at).uMarked = s.uMarked
      /\ At(s, first, at).nDirFirst = first /\ At(s, first, at).nDirLine = at
  BY DEF Sel, At
<1> QED BY <1>1 DEF InPage

\* The positions of the keys for pages.
LEMMA PositionsInPage ==
  ASSUME InList, sel \in Sel, InPage(sel), NEW s \in {Home(sel), End(sel), PgDn(sel), PgUp(sel)}
  PROVE  s \in Sel /\ InPage(s) /\ s.uMarked = sel.uMarked
<1> DEFINE f == sel.nDirFirst
           l == sel.nDirLine
           N == uEntries
<1>1. f \in Nat /\ l \in Nat /\ N \in Nat /\ N > 0 /\ Rows \in Nat /\ Rows > 0 BY ListFacts DEF Sel
<1>2. f <= l /\ l <= f + Rows - 1 /\ l < N BY DEF InPage
<1>3. CASE s = Home(sel)
  <2>1. s = At(sel, 0, 0) BY <1>3 DEF Home, At, Sel
  <2>2. 0 \in Nat /\ 0 <= 0 + Rows - 1 /\ 0 < N BY <1>1
  <2> QED BY <2>1, <2>2, Placed
<1>4. CASE s = End(sel)
  <2> DEFINE first == NotBelow0(N - Rows)
  <2>1. s = At(sel, first, N - 1) BY <1>4 DEF End, At, Sel
  <2>2. first = IF N - Rows < 0 THEN 0 ELSE N - Rows BY DEF NotBelow0
  <2>3. first \in Nat /\ N - 1 \in Nat /\ first <= N - 1 /\ N - 1 <= first + Rows - 1 /\ N - 1 < N
    <3> HIDE DEF first, N
    <3> QED BY <1>1, <2>2
  <2> HIDE DEF first
  <2> QED BY <2>1, <2>3, Placed
<1>5. CASE s = PgDn(sel)
  <2> DEFINE first == IF f + Rows < N THEN f + Rows ELSE f
             at == IF l < first THEN first ELSE IF l + Rows >= N THEN N - 1 ELSE l
  <2>1. s = At(sel, first, at) BY <1>5 DEF PgDn, At, Sel
  <2>2. first \in Nat /\ at \in Nat /\ first <= at /\ at <= first + Rows - 1 /\ at < N
    <3> HIDE DEF f, l, N
    <3> QED BY <1>1, <1>2
  <2> HIDE DEF first, at
  <2> QED BY <2>1, <2>2, Placed
<1>6. CASE s = PgUp(sel)
  <2> DEFINE first == NotBelow0(f - Rows)
             at == IF l > first THEN first ELSE IF l - Rows < 0 THEN 0 ELSE l
  <2>1. s = At(sel, first, at) BY <1>6 DEF PgUp, At, Sel
  <2>2. first = IF f - Rows < 0 THEN 0 ELSE f - Rows BY DEF NotBelow0
  <2> HIDE DEF first
  <2>3. first \in Nat /\ first <= f /\ (first = 0 \/ first < f)
    <3> HIDE DEF f
    <3> QED BY <1>1, <2>2
  <2>4. at \in Nat /\ first <= at /\ at <= first + Rows - 1 /\ at < N
    <3> HIDE DEF f, l, N
    <3> QED BY <1>1, <1>2, <2>3
  <2> HIDE DEF at
  <2> QED BY <2>1, <2>3, <2>4, Placed
<1> QED BY <1>3, <1>4, <1>5, <1>6

LEMMA PageKeyKeeps == ASSUME IInv, PageKey PROVE IInv'
<1>1. PICK s \in {Home(sel), End(sel), PgDn(sel), PgUp(sel)} : Redraw(s, marks) BY DEF PageKey
<1>2. Press /\ order' = order BY DEF PageKey
<1>3. InList /\ sel \in Sel /\ InPage(sel) /\ MarksRight(sel, marks, order) BY <1>2, Marking DEF Press
<1>4. s \in Sel /\ InPage(s) /\ s.uMarked = sel.uMarked BY <1>3, PositionsInPage
<1>5. MarksRight(s, marks, order') BY <1>2, <1>3, <1>4, SameMarks
<1> QED BY <1>1, <1>2, <1>4, <1>5, RedrawKeeps

LEMMA ReverseMarksKeeps == ASSUME IInv, ReverseMarks PROVE IInv'
<1> DEFINE s == [sel EXCEPT !.uMarked = @ + Cardinality(Reversed)]
<1>1. Press /\ Redraw(s, ReverseAll) /\ order' = InOrder BY DEF ReverseMarks
<1>2. InList /\ sel \in Sel /\ InPage(sel) /\ MarksRight(sel, marks, order) BY <1>1, Marking DEF Press
<1>3. Cardinality(Reversed) \in Nat BY <1>2, NumbersInOrder
<1>4. /\ s \in Sel /\ s.uMarked = sel.uMarked + Cardinality(Reversed)
      /\ s.nDirLine = sel.nDirLine /\ s.nDirFirst = sel.nDirFirst
  BY <1>2, <1>3 DEF Sel
<1> HIDE DEF s
<1>5. InPage(s) BY <1>2, <1>4, SamePlace
<1>6. MarksRight(s, ReverseAll, order') BY <1>1, <1>2, <1>4, ReversedRight
<1> QED BY <1>1, <1>4, <1>5, <1>6, RedrawKeeps

\* Nothing is marked and the counter is 0.
LEMMA NoneMarked ==
  ASSUME InList, NEW s \in Sel
  PROVE  MarksRight(s, [i \in Indices |-> 0], <<>>)
<1>1. <<>> \in Seq(Indices) /\ DOMAIN <<>> = {} BY EmptySeq
<1>2. s.uMarked \in Nat BY DEF Sel
<1> QED BY <1>1, <1>2 DEF MarksRight

LEMMA UnmarkAllKeeps == ASSUME IInv, UnmarkAll PROVE IInv'
<1> DEFINE s == [sel EXCEPT !.uMarked = 0]
<1>1. Press /\ Redraw(s, [i \in Indices |-> 0]) /\ order' = <<>> BY DEF UnmarkAll
<1>2. InList /\ sel \in Sel /\ InPage(sel) BY <1>1, Marking DEF Press
<1>3. s \in Sel /\ s.nDirLine = sel.nDirLine /\ s.nDirFirst = sel.nDirFirst BY <1>2 DEF Sel
<1> HIDE DEF s
<1>4. InPage(s) BY <1>2, <1>3, SamePlace
<1>5. MarksRight(s, [i \in Indices |-> 0], order') BY <1>1, <1>2, <1>3, NoneMarked
<1> QED BY <1>1, <1>3, <1>4, <1>5, RedrawKeeps

LEMMA ListKeyKeeps == ASSUME IInv, ListKey PROVE IInv'
<1>1. Press /\ Redraw(sel, marks) /\ order' = order BY DEF ListKey
<1>2. sel \in Sel /\ InPage(sel) /\ MarksRight(sel, marks, order) BY <1>1, Marking DEF Press
<1> QED BY <1>1, <1>2, RedrawKeeps

\* The current line moves within the page: the old line and the new one are drawn.
LEMMA LineMoved ==
  ASSUME InList, sel \in Sel, InPage(sel), ScreenRight(sel, rows, marks), marks \in [Indices -> Nat],
         NEW s \in Sel, InPage(s), s.nDirFirst = sel.nDirFirst,
         NEW m \in [Indices -> Nat], \A i \in Indices : i # s.nDirLine => m[i] = marks[i]
  PROVE  /\ ScreenRight(s, Line(Line(rows, sel, marks, FALSE), s, m, TRUE), m)
         /\ ScreenRight(s, Line(rows, sel, marks, FALSE), marks)
<1> DEFINE old == Line(rows, sel, marks, FALSE)
<1>1. rows \in Screens BY DEF ScreenRight, RowsRight
<1>2. RowsRight(sel.nDirFirst, NotInverse, old, marks)
  <2>1. \A i \in Indices : i # sel.nDirLine => marks[i] = marks[i] OBVIOUS
  <2>2. \A r \in 0 .. Rows - 1 :
          r # sel.nDirLine - sel.nDirFirst => RowRight(r, sel.nDirFirst, NotInverse, rows, marks)
    BY <2>1, OthersRight
  <2>3. RowsRight(sel.nDirFirst, InInverse(sel, FALSE), old, marks) BY <1>1, <2>2, LineDrawn
  <2> QED BY <2>3 DEF InInverse
<1> HIDE DEF old
<1>3. s.nDirFirst \in Nat /\ s.nDirLine \in Nat BY DEF Sel
<1>4. ScreenRight(s, old, marks) BY <1>2, <1>3, NoneInverse DEF ScreenRight
<1>5. old \in Screens BY <1>2 DEF RowsRight
<1>6. \A r \in 0 .. Rows - 1 : r # s.nDirLine - s.nDirFirst => RowRight(r, s.nDirFirst, NotInverse, old, m)
  BY <1>4, OthersRight
<1>7. RowsRight(s.nDirFirst, InInverse(s, TRUE), Line(old, s, m, TRUE), m) BY <1>5, <1>6, LineDrawn
<1> QED BY <1>4, <1>7 DEF InInverse, ScreenRight, old

\* The current line at another place of the page.
Moved(s, i) == [s EXCEPT !.nDirLine = i]

LEMMA MovedInPage ==
  ASSUME InList, sel \in Sel, InPage(sel), MarksRight(sel, marks, order),
         NEW i \in Indices, sel.nDirFirst <= i, i <= sel.nDirFirst + Rows - 1
  PROVE  LET s == Moved(Counted(sel, marks), i)
         IN /\ s \in Sel /\ InPage(s) /\ s.nDirFirst = sel.nDirFirst /\ s.nDirLine = i
            /\ CountedRight(s, marks) /\ MarksRight(s, marks, order)
<1> DEFINE c == Counted(sel, marks)
           s == Moved(c, i)
<1>1. /\ c \in Sel /\ CountedRight(c, marks) /\ c.uMarked = sel.uMarked
      /\ c.nDirFirst = sel.nDirFirst
  BY CountsRight
<1>2. i \in Nat /\ i < uEntries BY ListFacts
<1> HIDE DEF c
<1>3. /\ s \in Sel /\ s.nDirLine = i /\ s.nDirFirst = sel.nDirFirst /\ s.uMarked = sel.uMarked
      /\ s.nDirLast = c.nDirLast /\ s.uLength = c.uLength
  BY <1>1, <1>2 DEF Sel, Moved
<1> HIDE DEF s
<1>4. InPage(s) BY <1>2, <1>3 DEF InPage
<1>5. CountedRight(s, marks) BY <1>1, <1>3 DEF CountedRight, LastShown
<1>6. MarksRight(s, marks, order) BY <1>3, SameMarks
<1> QED BY <1>3, <1>4, <1>5, <1>6 DEF s, c

LEMMA MouseKeeps == ASSUME IInv, Mouse PROVE IInv'
<1> DEFINE old == Line(rows, sel, marks, FALSE)
           At0(r) == IF sel.nDirFirst + r >= uEntries - 1 THEN uEntries - 1 ELSE sel.nDirFirst + r
           S0(r) == Moved(Counted(sel, marks), At0(r))
           T0(r) == Toggled(S0(r), At0(r), TRUE)
<1>1. PICK r \in 0 .. Rows - 1 :
        IF Refused(S0(r), At0(r))
        THEN sel' = S0(r) /\ rows' = old /\ UNCHANGED <<marks, order>>
        ELSE /\ sel' = Counted(T0(r).s, T0(r).m) /\ marks' = T0(r).m
             /\ rows' = Line(old, T0(r).s, T0(r).m, TRUE) /\ order' = T0(r).o
  BY DEF Mouse, Moved
<1> DEFINE i == At0(r)
           s == S0(r)
           t == T0(r)
<1>2. Press BY DEF Mouse
<1>3. /\ InList /\ sel \in Sel /\ InPage(sel) /\ ScreenRight(sel, rows, marks)
      /\ MarksRight(sel, marks, order) /\ marks \in [Indices -> Nat]
  BY <1>2, Marking DEF Press
<1>4. i \in Indices /\ sel.nDirFirst <= i /\ i <= sel.nDirFirst + Rows - 1
  <2> DEFINE f == sel.nDirFirst
             N == uEntries
  <2>1. f \in Nat /\ N \in Nat /\ N > 0 /\ Rows \in Nat /\ r \in 0 .. Rows - 1 /\ Indices = 0 .. N - 1
    BY <1>3, ListFacts DEF Sel
  <2>2. f < N
    <3> DEFINE l == sel.nDirLine
    <3>1. f <= l /\ l < N BY <1>3 DEF InPage
    <3>2. f \in Nat /\ l \in Nat /\ N \in Nat BY <1>3, <2>1 DEF Sel
    <3> HIDE DEF f, l, N
    <3> QED BY <3>1, <3>2
  <2>3. i = IF f + r >= N - 1 THEN N - 1 ELSE f + r OBVIOUS
  <2> HIDE DEF i, f, N
  <2>4. i \in 0 .. N - 1 /\ f <= i /\ i <= f + Rows - 1 BY <2>1, <2>2, <2>3
  <2> QED BY <2>1, <2>4 DEF f
<1> HIDE DEF At0
<1>5. /\ s \in Sel /\ InPage(s) /\ s.nDirFirst = sel.nDirFirst /\ s.nDirLine = i
      /\ CountedRight(s, marks) /\ MarksRight(s, marks, order)
  BY <1>3, <1>4, MovedInPage
<1> HIDE DEF S0
<1>6. CASE Refused(s, i)
  <2>1. sel' = s /\ rows' = old /\ marks' = marks /\ order' = order BY <1>1, <1>6
  <2>2. ScreenRight(s, old, marks) BY <1>3, <1>5, LineMoved
  <2> HIDE DEF s, old
  <2> QED BY <1>2, <1>5, <2>1, <2>2, Pressed
<1>7. CASE ~Refused(s, i)
  <2>1. sel' = Counted(t.s, t.m) /\ marks' = t.m /\ rows' = Line(old, t.s, t.m, TRUE) /\ order' = t.o
    BY <1>1, <1>7
  <2>2. /\ t.s \in Sel /\ t.s.nDirLine = s.nDirLine /\ t.s.nDirFirst = s.nDirFirst
        /\ MarksRight(t.s, t.m, t.o) /\ \A j \in Indices : j # i => t.m[j] = marks[j]
    BY <1>3, <1>4, <1>5, ToggledRight
  <2> HIDE DEF t, T0, s
  <2>3. t.m \in [Indices -> Nat] BY <2>2 DEF MarksRight
  <2>4. InPage(t.s) BY <1>5, <2>2, SamePlace
  <2>5. t.s.nDirFirst = sel.nDirFirst /\ t.s.nDirLine = i BY <1>5, <2>2
  <2>6. ScreenRight(t.s, rows', t.m) BY <1>3, <2>1, <2>2, <2>3, <2>4, <2>5, LineMoved
  <2>7. /\ sel' \in Sel /\ CountedRight(sel', marks') /\ sel'.uMarked = t.s.uMarked
        /\ sel'.nDirLine = t.s.nDirLine /\ sel'.nDirFirst = t.s.nDirFirst
    BY <1>3, <2>1, <2>2, CountsRight
  <2>8. InPage(sel') /\ ScreenRight(sel', rows', marks') BY <2>1, <2>2, <2>4, <2>6, <2>7, SamePlace
  <2>9. MarksRight(sel', marks', order') BY <2>1, <2>2, <2>7, SameMarks
  <2> QED BY <1>2, <2>7, <2>8, <2>9, Pressed
<1> QED BY <1>6, <1>7

\* The entry that a search finds is one of the list.
LEMMA FoundInList ==
  ASSUME InList, NEW str, Matching(str) # {}
  PROVE  Found(str) \in Indices
<1> DEFINE below == {i \in Matching(str) : i >= sel.nDirLine}
           T == IF below # {} THEN below ELSE Matching(str)
<1>1. Matching(str) \subseteq Indices BY DEF Matching
<1>2. T \subseteq Indices /\ T # {} BY <1>1
<1>3. T \subseteq Nat BY <1>2, ListFacts
<1>4. Found(str) = Least(T) BY DEF Found
<1> HIDE DEF T
<1>5. \E i \in T : \A j \in T : i <= j BY <1>2, <1>3, LeastElement
<1>6. Least(T) \in T BY <1>5 DEF Least
<1> QED BY <1>2, <1>4, <1>6

LEMMA GoToKeeps ==
  ASSUME IInv, Press, NEW i \in Indices, GoTo(i), order' = order
  PROVE  IInv'
<1>1. /\ InList /\ sel \in Sel /\ InPage(sel) /\ CountedRight(sel, marks) /\ ScreenRight(sel, rows, marks)
      /\ MarksRight(sel, marks, order) /\ marks \in [Indices -> Nat]
  BY Marking DEF Press
<1>2. /\ uEntries \in Nat /\ Rows \in Nat /\ Rows > 0 /\ i \in Nat /\ i < uEntries
      /\ sel.nDirFirst \in Nat
  BY <1>1, ListFacts DEF Sel
<1>3. CASE i \in sel.nDirFirst .. sel.nDirLast
  <2> DEFINE s == Moved(Counted(sel, marks), i)
  <2>1. sel' = s /\ rows' = Line(Line(rows, sel, marks, FALSE), s, marks, TRUE) /\ marks' = marks
    BY <1>3 DEF GoTo, Moved
  <2>2. sel.nDirFirst <= i /\ i <= sel.nDirFirst + Rows - 1
    <3> DEFINE f == sel.nDirFirst
               last == sel.nDirLast
               N == uEntries
    <3>1. last = IF f + Rows - 1 >= N THEN N - 1 ELSE f + Rows - 1 BY <1>1 DEF CountedRight, LastShown
    <3>2. f \in Nat /\ N \in Nat /\ Rows \in Nat /\ i \in Nat /\ i \in f .. last BY <1>2, <1>3
    <3> HIDE DEF f, last, N
    <3>3. f <= i /\ i <= f + Rows - 1 BY <3>1, <3>2
    <3> QED BY <3>3 DEF f
  <2>3. /\ s \in Sel /\ InPage(s) /\ s.nDirFirst = sel.nDirFirst /\ s.nDirLine = i
        /\ CountedRight(s, marks) /\ MarksRight(s, marks, order)
    BY <1>1, <2>2, MovedInPage
  <2> HIDE DEF s
  <2>4. \A j \in Indices : j # s.nDirLine => marks[j] = marks[j] OBVIOUS
  <2>5. ScreenRight(s, rows', marks) BY <1>1, <2>1, <2>3, <2>4, LineMoved
  <2> QED BY <2>1, <2>3, <2>5, Pressed
<1>4. CASE ~(i \in sel.nDirFirst .. sel.nDirLast)
  <2> DEFINE c == Counted(sel, marks)
             t == At(c, i, i)
  <2>1. c \in Sel /\ c.uMarked = sel.uMarked BY <1>1, CountsRight
  <2>2. [[c EXCEPT !.nDirLine = i] EXCEPT !.nDirFirst = i] = t
    <3> HIDE DEF c
    <3> QED BY <2>1 DEF At, Sel
  <2>3. Redraw(t, marks) BY <1>4, <2>2 DEF GoTo
  <2> HIDE DEF c
  <2>4. t \in Sel /\ InPage(t) /\ t.uMarked = c.uMarked
    <3>1. i <= i /\ i <= i + Rows - 1 BY <1>2
    <3> QED BY <1>2, <2>1, <3>1, Placed
  <2> HIDE DEF t
  <2>5. MarksRight(t, marks, order') BY <1>1, <2>1, <2>4, SameMarks
  <2> QED BY <2>3, <2>4, <2>5, RedrawKeeps
<1> QED BY <1>3, <1>4

LEMMA TypeKeeps == ASSUME IInv, Type PROVE IInv'
<1>1. Press /\ order' = order BY DEF Type
<1>2. /\ InList /\ sel \in Sel /\ InPage(sel) /\ CountedRight(sel, marks) /\ ScreenRight(sel, rows, marks)
      /\ MarksRight(sel, marks, order)
  BY <1>1, Marking DEF Press
<1>3. \/ \E str : Matching(str) # {} /\ GoTo(Found(str))
      \/ UNCHANGED <<sel, marks, rows>>
  BY DEF Type
<1>4. CASE \E str : Matching(str) # {} /\ GoTo(Found(str))
  BY <1>1, <1>2, <1>4, FoundInList, GoToKeeps
<1>5. CASE UNCHANGED <<sel, marks, rows>>
  BY <1>1, <1>2, <1>5, Pressed
<1> QED BY <1>3, <1>4, <1>5

-----------------------------------------------------------------------------
(***************************************************************************)
(* The end of the marking, and the commands.                               *)
(***************************************************************************)
\* The commands for the first c files of the order.
Runs(o, c) == [i \in 1 .. c |-> <<o[i]>>]

LEMMA RunsMade ==
  ASSUME NEW o \in Seq(Nat), NEW c \in 0 .. Len(o)
  PROVE  /\ Runs(o, c) \in Seq(Seq(Nat)) /\ Len(Runs(o, c)) = c
         /\ \A i \in 1 .. c : Runs(o, c)[i] = <<o[i]>> /\ Len(Runs(o, c)[i]) = 1
<1>1. Len(o) \in Nat /\ c \in Nat /\ \A i \in 1 .. c : o[i] \in Nat BY LenProperties
<1>2. \A i \in 1 .. c : <<o[i]>> \in Seq(Nat) /\ Len(<<o[i]>>) = 1 BY <1>1
<1>3. [i \in 1 .. c |-> <<o[i]>>] \in Seq(Seq(Nat)) BY <1>1, <1>2, IsASeq
<1>4. \A i \in 1 .. c : Runs(o, c)[i] = <<o[i]>> BY DEF Runs
<1>5. DOMAIN Runs(o, c) = 1 .. c BY DEF Runs
<1>6. Len(Runs(o, c)) = c BY <1>1, <1>3, <1>5, LenProperties DEF Runs
<1> QED BY <1>2, <1>3, <1>4, <1>6 DEF Runs

\* The command of the next file comes after the others, or the file on the end of the line.
LEMMA RunsGrow ==
  ASSUME NEW o \in Seq(Nat), NEW c \in Nat, c + 1 <= Len(o)
  PROVE  /\ Append(Runs(o, c), <<o[c + 1]>>) = Runs(o, c + 1)
         /\ Append(SubSeq(o, 1, c), o[c + 1]) = SubSeq(o, 1, c + 1)
<1>1. Len(o) \in Nat /\ \A i \in 1 .. Len(o) : o[i] \in Nat BY LenProperties
<1>2. c \in 0 .. Len(o) /\ c + 1 \in 0 .. Len(o) /\ c + 1 \in 1 .. Len(o) BY <1>1
<1>3. /\ Runs(o, c) \in Seq(Seq(Nat)) /\ Len(Runs(o, c)) = c
      /\ \A i \in 1 .. c : Runs(o, c)[i] = <<o[i]>>
      /\ Runs(o, c + 1) \in Seq(Seq(Nat)) /\ Len(Runs(o, c + 1)) = c + 1
      /\ \A i \in 1 .. c + 1 : Runs(o, c + 1)[i] = <<o[i]>>
  BY <1>2, RunsMade
<1> DEFINE e == <<o[c + 1]>>
           r == Append(Runs(o, c), e)
<1>4. e \in Seq(Nat) BY <1>1, <1>2
<1> HIDE DEF e
<1>5. r \in Seq(Seq(Nat)) /\ Len(r) = c + 1 /\ (\A i \in 1 .. c : r[i] = Runs(o, c)[i]) /\ r[c + 1] = e
  BY <1>3, <1>4, AppendProperties
<1> HIDE DEF r
<1>6. \A i \in 1 .. c + 1 : r[i] = Runs(o, c + 1)[i]
  <2> TAKE i \in 1 .. c + 1
  <2>1. i \in 1 .. c \/ i = c + 1 OBVIOUS
  <2> QED BY <1>3, <1>5, <2>1 DEF e
<1>7. r = Runs(o, c + 1) BY <1>3, <1>5, <1>6, SeqEqual
<1>8. SubSeq(o, 1, c + 1) = SubSeq(o, 1, c + 1 - 1) \o <<o[c + 1]>>
  <2>1. 1 \in 1 .. Len(o) /\ c + 1 \in 1 .. Len(o) BY <1>1, <1>2
  <2> QED BY <2>1, SubSeqRecursiveSecond
<1>9. SubSeq(o, 1, c) \in Seq(Nat)
  <2>1. \A i \in 1 .. c : o[i] \in Nat BY <1>1, <1>2
  <2> QED BY <2>1, SubSeqProperties
<1>10. Append(SubSeq(o, 1, c), o[c + 1]) = SubSeq(o, 1, c) \o <<o[c + 1]>> BY <1>1, <1>2, <1>9, AppendIsConcat
<1>11. c + 1 - 1 = c OBVIOUS
<1> QED BY <1>7, <1>8, <1>10, <1>11 DEF r, e

\* The commands that were run are the first of those that are wanted.
LEMMA RunsArePrefix ==
  ASSUME NEW o \in Seq(Nat), NEW c \in 0 .. Len(o)
  PROVE  IsPrefix(Runs(o, c), Runs(o, Len(o))) /\ IsPrefix(<<>>, Runs(o, Len(o)))
<1>1. Len(o) \in Nat /\ Len(o) \in 0 .. Len(o) BY LenProperties
<1> DEFINE a == Runs(o, c)
           b == Runs(o, Len(o))
<1>2. /\ a \in Seq(Seq(Nat)) /\ Len(a) = c /\ \A i \in 1 .. c : a[i] = <<o[i]>>
      /\ b \in Seq(Seq(Nat)) /\ Len(b) = Len(o) /\ \A i \in 1 .. Len(o) : b[i] = <<o[i]>>
  BY <1>1, RunsMade
<1> HIDE DEF a, b
<1>3. SubSeq(a, 1, Len(a)) = a BY <1>2, SubSeqFull
<1>4. \A i \in 1 .. c : b[i] \in Seq(Nat) BY <1>1, <1>2, ElementOfSeq
<1> DEFINE d == SubSeq(b, 1, c)
<1>5. /\ d \in Seq(Seq(Nat)) /\ Len(d) = IF 1 <= c THEN c - 1 + 1 ELSE 0
      /\ \A i \in 1 .. c - 1 + 1 : d[i] = b[1 + i - 1]
  BY <1>1, <1>2, <1>4, SubSeqProperties
<1> HIDE DEF d
<1>6. Len(d) = c /\ \A i \in 1 .. c : d[i] = a[i]
  <2>1. Len(d) = c BY <1>1, <1>5
  <2> SUFFICES ASSUME NEW i \in 1 .. c PROVE d[i] = a[i] BY <2>1
  <2>2. i \in 1 .. c - 1 + 1 /\ i \in 1 .. Len(o) /\ 1 + i - 1 = i BY <1>1
  <2>3. d[i] = b[1 + i - 1] BY <1>5, <2>2
  <2>4. d[i] = b[i] BY <2>2, <2>3
  <2> QED BY <1>2, <2>2, <2>4
<1>7. d = a BY <1>2, <1>5, <1>6, SeqEqual
<1>8. IsPrefix(a, b)
  <2>1. Len(a) <= Len(b) BY <1>1, <1>2
  <2>2. SubSeq(b, 1, Len(a)) = a BY <1>2, <1>7 DEF d
  <2> QED BY <1>3, <2>1, <2>2 DEF IsPrefix
<1>9. IsPrefix(<<>>, b)
  <2>1. SubSeq(<<>>, 1, 0) = <<>> /\ SubSeq(b, 1, 0) = <<>> BY SubSeqEmpty
  <2>2. Len(<<>>) = 0 BY EmptySeq
  <2> QED BY <1>1, <1>2, <2>1, <2>2 DEF IsPrefix
<1> QED BY <1>8, <1>9 DEF a, b

\* The end of the marking: the first mark is looked for, and nothing was run yet.
LEMMA FinishKeeps ==
  ASSUME IInv, stage = "mark", NEW s \in Sel, NEW m, NEW o, Finish(s, m, o),
         (s.uMarked = 0 /\ o = <<>>) \/ MarksRight(s, m, o),
         selection.paren = "[" /\ s.uLength < MaxLine => Len(o) < MaxLine
  PROVE  IInv'
<1>1. /\ stage' = "process" /\ marks' = m /\ n' = 1 /\ cmdline' = <<>>
      /\ UNCHANGED <<selection, nArg>> /\ ran' = <<>>
      /\ \/ sel' = [s EXCEPT !.uMarked = 0] /\ order' = <<>>
         \/ sel' = s /\ order' = o /\ ~(s.uLength >= MaxLine)
  BY DEF Finish, IInv, MarkInv
<1>2. selection \in Selections /\ nArg \in 0 .. Len(selection.lists) /\ nArg > 0 /\ Entries # <<>>
  BY DEF IInv, TypeInv
<1>3. Entries' = Entries /\ uEntries' = uEntries /\ Indices' = Indices BY <1>1 DEF Entries, uEntries, Indices
<1>4. sel' \in Sel BY <1>1 DEF Sel
<1>5. TypeInv' BY <1>1, <1>2, <1>3, <1>4 DEF TypeInv
<1>6. (sel'.uMarked = 0 /\ order' = <<>>) \/ MarksRight(sel', marks', order')
  <2>1. [s EXCEPT !.uMarked = 0].uMarked = 0 BY DEF Sel
  <2> QED BY <1>1, <2>1
<1>7. MarksRight(sel', marks', order') => MarksRight(sel, marks, order)' BY <1>3 DEF MarksRight
<1>8. Len(<<>>) = 0 /\ 0 \in Nat BY EmptySeq
<1>9. selection'.paren = "[" => Len(order') < MaxLine
  <2>1. MaxLine \in Nat /\ 0 < MaxLine BY SelectAssumption
  <2>2. ~(s.uLength >= MaxLine) => s.uLength < MaxLine BY <2>1 DEF Sel
  <2> QED BY <1>1, <1>8, <2>1, <2>2
<1>10. \A k \in DOMAIN order' : ~(k <= 0) /\ ~(marks'[order'[k]] < 1)
  <2>1. CASE order' = <<>>
    <3>1. DOMAIN <<>> = {} OBVIOUS
    <3> QED BY <2>1, <3>1
  <2>2. CASE order' # <<>>
    <3>1. MarksRight(s, m, o) /\ order' = o BY <1>1, <2>2
    <3>2. InList BY Marking
    <3>3. m \in [Indices -> Nat] /\ o \in Seq(Indices) BY <3>1 DEF MarksRight
    <3>4. DOMAIN o = 1 .. Len(o) /\ Len(o) \in Nat /\ \A k \in 1 .. Len(o) : o[k] \in Indices BY <3>3, LenProperties
    <3>5. \A k \in DOMAIN o : m[o[k]] > 0 /\ m[o[k]] \in Nat BY <3>1, <3>3, <3>4 DEF MarksRight
    <3> QED BY <1>1, <3>1, <3>4, <3>5
  <2> QED BY <2>1, <2>2
<1>11. SubSeq(order', 1, 0) = <<>> BY SubSeqEmpty
<1>12. [i \in 1 .. 0 |-> <<order'[i]>>] = <<>> OBVIOUS
<1>13. Done(0)' BY <1>1, <1>10, <1>11, <1>12 DEF Done
<1>14. 0 \in 0 .. Len(order')
  <2>1. Len(order') \in Nat
    <3>1. CASE order' = <<>> BY <1>8, <3>1
    <3>2. CASE order' # <<>>
      <4>1. MarksRight(s, m, o) /\ order' = o BY <1>1, <3>2
      <4> QED BY <4>1, LenProperties DEF MarksRight
    <3> QED BY <3>1, <3>2
  <2> QED BY <2>1
<1>15. ProcessInv' BY <1>1, <1>6, <1>7, <1>9, <1>13, <1>14 DEF ProcessInv
<1>16. MarkInv' BY <1>1 DEF MarkInv
<1>17. RunInv'
  <2>1. <<>> \in Seq(Seq(Nat)) /\ DOMAIN <<>> = {} BY EmptySeq
  <2> QED BY <1>1, <2>1 DEF RunInv
<1> QED BY <1>5, <1>15, <1>16, <1>17 DEF IInv

LEMMA ReturnKeeps == ASSUME IInv, Return PROVE IInv'
<1>1. stage = "mark" BY DEF Return
<1>2. /\ InList /\ sel \in Sel /\ InPage(sel) /\ CountedRight(sel, marks) /\ MarksRight(sel, marks, order)
      /\ marks \in [Indices -> Nat] /\ order \in Seq(Indices)
  BY <1>1, Marking DEF MarksRight
<1>3. MaxLine \in Nat /\ 1 < MaxLine BY SelectAssumption
<1>4. CASE sel.uMarked = 0
  <2> DEFINE at == sel.nDirLine
             s == [sel EXCEPT !.uMarked = 1]
             m == [marks EXCEPT ![at] = 1]
  <2>1. Finish(s, m, <<at>>) BY <1>4 DEF Return
  <2>2. \A i \in Indices : marks[i] <= 0 BY <1>2, <1>4 DEF MarksRight
  <2>3. \A i \in Indices : marks[i] = 0 BY <1>2, <2>2
  <2>4. order = <<>>
    <3>1. Len(order) \in Nat /\ DOMAIN order = 1 .. Len(order) /\ \A k \in 1 .. Len(order) : order[k] \in Indices
      BY <1>2, LenProperties
    <3>2. \A k \in DOMAIN order : marks[order[k]] > 0 BY <1>2 DEF MarksRight
    <3>3. Len(order) = 0 BY <2>3, <3>1, <3>2
    <3> QED BY <1>2, <3>3, EmptySeq
  <2>5. at \in Indices BY <1>2, ListFacts DEF InPage, Sel
  <2>6. s \in Sel /\ s.uMarked = sel.uMarked + 1
    <3>1. s \in Sel /\ s.uMarked = 1 BY <1>2 DEF Sel
    <3>2. sel.uMarked + 1 = 1 BY <1>4
    <3> HIDE DEF s
    <3> QED BY <3>1, <3>2
  <2>7. m = [marks EXCEPT ![at] = sel.uMarked + 1] BY <1>4
  <2>8. Append(order, at) = <<at>> BY <2>4
  <2> HIDE DEF s, at, m
  <2>9. MarksRight(s, m, <<at>>)
    <3>1. marks[at] = 0 BY <2>3, <2>5
    <3>2. MarksRight(s, [marks EXCEPT ![at] = sel.uMarked + 1], Append(order, at))
      BY <1>2, <2>5, <2>6, <3>1, MarkAdded
    <3> QED BY <2>7, <2>8, <3>2
  <2>10. Len(<<at>>) = 1 OBVIOUS
  <2> QED BY <1>1, <1>3, <2>1, <2>6, <2>9, <2>10, FinishKeeps
<1>5. CASE sel.uMarked # 0
  <2>1. Finish(sel, marks, order) BY <1>5 DEF Return
  <2>2. selection.paren = "[" => sel.uLength = Len(order) BY <1>2, OrderIsMarked DEF CountedRight
  <2> QED BY <1>1, <1>2, <2>1, <2>2, FinishKeeps
<1> QED BY <1>4, <1>5

LEMMA EscapeKeeps == ASSUME IInv, Escape PROVE IInv'
<1> DEFINE s == [sel EXCEPT !.uMarked = 0]
<1>1. stage = "mark" /\ Finish(s, marks, <<>>) BY DEF Escape
<1>2. sel \in Sel BY DEF IInv, TypeInv
<1>3. s \in Sel /\ s.uMarked = 0 BY <1>2 DEF Sel
<1>4. Len(<<>>) = 0 /\ MaxLine \in Nat /\ 0 < MaxLine BY EmptySeq, SelectAssumption
<1> HIDE DEF s
<1> QED BY <1>1, <1>3, <1>4, FinishKeeps

\* What holds while the marks are worked on.
LEMMA Processing ==
  ASSUME IInv, stage = "process"
  PROVE  /\ InList /\ sel \in Sel /\ n \in Nat /\ n > 0
         /\ order \in Seq(Indices) /\ order \in Seq(Nat)
         /\ (sel.uMarked = 0 /\ order = <<>>) \/ MarksRight(sel, marks, order)
         /\ selection.paren = "[" => Len(order) < MaxLine
         /\ \E c \in 0 .. Len(order) : Done(c)
<1>1. /\ selection \in Selections /\ nArg \in 0 .. Len(selection.lists) /\ nArg > 0 /\ Entries # <<>>
      /\ sel \in Sel /\ n \in Nat /\ n > 0
      /\ (sel.uMarked = 0 /\ order = <<>>) \/ MarksRight(sel, marks, order)
      /\ selection.paren = "[" => Len(order) < MaxLine
      /\ \E c \in 0 .. Len(order) : Done(c)
  BY DEF IInv, TypeInv, ProcessInv
<1>2. Len(selection.lists) \in Nat BY <1>1, SelectAssumption, LenProperties
<1>3. InList BY <1>1, <1>2 DEF InList
<1>4. order \in Seq(Indices) BY <1>1, EmptySeq DEF MarksRight
<1>5. Indices \subseteq Nat BY <1>3, ListFacts
<1>6. order \in Seq(Nat)
  <2>1. Len(order) \in Nat /\ order \in [1 .. Len(order) -> Indices] BY <1>4, LenProperties
  <2>2. \A k \in 1 .. Len(order) : order[k] \in Nat BY <1>5, <2>1
  <2>3. [k \in 1 .. Len(order) |-> order[k]] \in Seq(Nat) BY <2>1, <2>2, IsASeq
  <2> QED BY <2>1, <2>3
<1> QED BY <1>1, <1>3, <1>4, <1>6

\* Wanted by Runs().
LEMMA WantedRight ==
  ASSUME order \in Seq(Nat)
  PROVE  Wanted = IF selection.paren = "(" THEN Runs(order, Len(order))
                  ELSE IF order = <<>> THEN <<>> ELSE <<order>>
BY LenProperties DEF Wanted, Runs

\* The file with the mark that is looked for is the next of the order.
LEMMA NextIsFound ==
  ASSUME IInv, stage = "process", n <= sel.uMarked, NEW c \in 0 .. Len(order), Done(c), With(n) # {}
  PROVE  /\ c + 1 <= Len(order) /\ Least(With(n)) = order[c + 1]
         /\ \A k \in DOMAIN order : k <= c + 1 <=> marks[order[k]] < n + 1
<1>1. /\ InList /\ sel \in Sel /\ n \in Nat /\ n > 0 /\ order \in Seq(Indices)
      /\ (sel.uMarked = 0 /\ order = <<>>) \/ MarksRight(sel, marks, order)
  BY Processing
<1>2. MarksRight(sel, marks, order)
  <2>1. sel.uMarked \in Nat BY <1>1 DEF Sel
  <2>2. sel.uMarked # 0 BY <1>1, <2>1
  <2> QED BY <1>1, <2>2
<1>3. /\ Len(order) \in Nat /\ DOMAIN order = 1 .. Len(order) /\ marks \in [Indices -> Nat]
      /\ \A k \in 1 .. Len(order) : order[k] \in Indices /\ marks[order[k]] \in Nat
  BY <1>1, <1>2, LenProperties DEF MarksRight
<1>4. With(n) \subseteq Indices /\ With(n) \subseteq Nat BY <1>1, ListFacts DEF With
<1>5. \E i \in With(n) : \A j \in With(n) : i <= j BY <1>4, LeastElement
<1> DEFINE j == Least(With(n))
<1>6. j \in With(n) BY <1>5 DEF Least
<1> HIDE DEF j
<1>7. j \in Indices /\ marks[j] = n BY <1>6 DEF With
<1>8. PICK k \in 1 .. Len(order) : order[k] = j BY <1>1, <1>2, <1>3, <1>7 DEF MarksRight
<1>9. \A i \in 1 .. Len(order) : i <= c <=> marks[order[i]] < n BY <1>3 DEF Done
<1>10. \A i1, i2 \in 1 .. Len(order) : i1 < i2 => marks[order[i1]] < marks[order[i2]]
  BY <1>2, <1>3 DEF MarksRight
<1>11. marks[order[k]] = n BY <1>7, <1>8
<1>12. c + 1 <= k /\ c + 1 \in 1 .. Len(order) BY <1>1, <1>3, <1>9, <1>11
<1>13. k = c + 1
  <2>1. ~(c + 1 <= c) OBVIOUS
  <2>2. ~(marks[order[c + 1]] < n) BY <1>9, <1>12, <2>1
  <2>3. c + 1 < k => marks[order[c + 1]] < marks[order[k]] BY <1>10, <1>12
  <2>4. ~(c + 1 < k) BY <1>11, <2>2, <2>3
  <2> QED BY <1>3, <1>12, <2>4
<1>14. ASSUME NEW i \in 1 .. Len(order) PROVE i <= c + 1 <=> marks[order[i]] < n + 1
  <2> DEFINE mi == marks[order[i]]
  <2>1. mi \in Nat /\ (i <= c <=> mi < n) BY <1>3, <1>9
  <2>2. i = c + 1 => mi = n BY <1>11, <1>13
  <2>3. c + 1 < i => n < mi
    <3> SUFFICES ASSUME c + 1 < i PROVE n < mi OBVIOUS
    <3>1. marks[order[c + 1]] < marks[order[i]] BY <1>10, <1>12
    <3> QED BY <1>11, <1>13, <3>1
  <2> HIDE DEF mi
  <2>4. i <= c + 1 <=> mi < n + 1 BY <1>1, <1>3, <2>1, <2>2, <2>3
  <2> QED BY <2>4 DEF mi
<1> QED BY <1>3, <1>8, <1>12, <1>13, <1>14 DEF j

LEMMA ProcessSelectKeeps == ASSUME IInv, ProcessSelect PROVE IInv'
<1>1. /\ stage = "process" /\ n <= sel.uMarked /\ n' = n + 1
      /\ UNCHANGED <<selection, nArg, sel, marks, order>>
  BY DEF ProcessSelect
<1>2. /\ InList /\ sel \in Sel /\ n \in Nat /\ n > 0 /\ order \in Seq(Nat)
      /\ (sel.uMarked = 0 /\ order = <<>>) \/ MarksRight(sel, marks, order)
      /\ selection.paren = "[" => Len(order) < MaxLine
  BY <1>1, Processing
<1>3. PICK c \in 0 .. Len(order) : Done(c) BY <1>1, Processing
<1>4. Len(order) \in Nat /\ DOMAIN order = 1 .. Len(order) BY <1>2, LenProperties
<1>5. Entries' = Entries /\ uEntries' = uEntries /\ Indices' = Indices BY <1>1 DEF Entries, uEntries, Indices
<1>6. stage' \in {"process", "end"} BY <1>1 DEF ProcessSelect
<1>7. TypeInv' BY <1>1, <1>5, <1>6 DEF IInv, TypeInv
<1>8. MarkInv' BY <1>6 DEF MarkInv
<1>9. MarksRight(sel, marks, order) => MarksRight(sel, marks, order)' BY <1>1, <1>5 DEF MarksRight
<1>10. selection.paren = "(" \/ selection.paren = "[" BY <1>2, ListFacts
<1>11. \A d \in 0 .. Len(order) :
         selection.paren = "(" => /\ Runs(order, d) \in Seq(Seq(Nat))
                                  /\ \A i \in DOMAIN Runs(order, d) : Len(Runs(order, d)[i]) < MaxLine
  <2> TAKE d \in 0 .. Len(order)
  <2>1. DOMAIN Runs(order, d) = 1 .. d BY DEF Runs
  <2>2. /\ Runs(order, d) \in Seq(Seq(Nat))
        /\ \A i \in 1 .. d : Len(Runs(order, d)[i]) = 1
    BY <1>2, RunsMade
  <2>3. MaxLine > 1 BY SelectAssumption
  <2>4. \A i \in DOMAIN Runs(order, d) : Len(Runs(order, d)[i]) < MaxLine BY <2>1, <2>2, <2>3
  <2> QED BY <2>2, <2>4
<1>12. ASSUME NEW d \in 0 .. Len(order), Done(d)', stage' = "end" => selection.paren = "("
       PROVE  IInv'
  <2>1. ProcessInv' BY <1>1, <1>2, <1>9, <1>12 DEF ProcessInv
  <2>2. Wanted' = Wanted BY <1>1 DEF Wanted
  <2>3. CASE selection.paren = "("
    <3>1. ran' = Runs(order, d) BY <1>1, <1>12, <2>3 DEF Done, Runs
    <3>2. IsPrefix(ran', Wanted') BY <1>2, <2>2, <2>3, <3>1, WantedRight, RunsArePrefix
    <3>3. ran' \in Seq(Seq(Nat)) /\ \A i \in DOMAIN ran' : Len(ran'[i]) < MaxLine BY <1>11, <2>3, <3>1
    <3>4. RunInv' BY <1>6, <3>2, <3>3 DEF RunInv
    <3> QED BY <1>7, <1>8, <2>1, <3>4 DEF IInv
  <2>4. CASE selection.paren # "("
    <3>1. ran' = <<>> /\ stage' = "process" BY <1>1, <1>6, <1>12, <2>4 DEF Done
    <3>2. <<>> \in Seq(Seq(Nat)) /\ DOMAIN <<>> = {} BY EmptySeq
    <3>3. RunInv' BY <3>1, <3>2 DEF RunInv
    <3> QED BY <1>7, <1>8, <2>1, <3>3 DEF IInv
  <2> QED BY <2>3, <2>4
<1>13. CASE With(n) = {}
  <2>1. UNCHANGED <<cmdline, ran, stage>> BY <1>13 DEF ProcessSelect
  <2>2. \A k \in DOMAIN order : marks[order[k]] < n <=> marks[order[k]] < n + 1
    <3> SUFFICES ASSUME NEW k \in DOMAIN order PROVE marks[order[k]] < n <=> marks[order[k]] < n + 1 OBVIOUS
    <3>1. MarksRight(sel, marks, order) BY <1>2
    <3>2. order[k] \in Indices /\ marks[order[k]] \in Nat BY <1>4, <3>1, LenProperties DEF MarksRight
    <3>3. marks[order[k]] # n BY <1>13, <3>2 DEF With
    <3> QED BY <1>2, <3>2, <3>3
  <2>3. Done(c)' BY <1>1, <1>3, <2>1, <2>2 DEF Done
  <2> QED BY <1>1, <1>3, <1>12, <2>1, <2>3
<1>14. CASE With(n) # {}
  <2>1. /\ c + 1 <= Len(order) /\ Least(With(n)) = order[c + 1]
        /\ \A k \in DOMAIN order : k <= c + 1 <=> marks[order[k]] < n + 1
    BY <1>1, <1>3, <1>14, NextIsFound
  <2>2. c \in Nat /\ c + 1 \in 0 .. Len(order) BY <1>3, <1>4, <2>1
  <2>3. /\ Append(Runs(order, c), <<order[c + 1]>>) = Runs(order, c + 1)
        /\ Append(SubSeq(order, 1, c), order[c + 1]) = SubSeq(order, 1, c + 1)
    BY <1>2, <2>1, <2>2, RunsGrow
  <2>4. CASE selection.paren = "("
    <3>1. cmdline' = cmdline /\ ran' = Append(ran, <<order[c + 1]>>) BY <1>14, <2>1, <2>4 DEF ProcessSelect
    <3>2. cmdline = <<>> /\ ran = Runs(order, c) BY <1>3, <2>4 DEF Done, Runs
    <3>3. Done(c + 1)' BY <1>1, <2>1, <2>3, <2>4, <3>1, <3>2 DEF Done, Runs
    <3> QED BY <1>12, <2>2, <2>4, <3>3
  <2>5. CASE selection.paren = "["
    <3>1. cmdline' = Append(cmdline, order[c + 1]) /\ UNCHANGED <<ran, stage>> BY <1>14, <2>1, <2>5 DEF ProcessSelect
    <3>2. ran = <<>> /\ cmdline = SubSeq(order, 1, c) BY <1>3, <2>5 DEF Done
    <3>3. Done(c + 1)' BY <1>1, <2>1, <2>3, <2>5, <3>1, <3>2 DEF Done
    <3> QED BY <1>1, <1>12, <2>2, <3>1, <3>3
  <2> QED BY <1>10, <2>4, <2>5
<1> QED BY <1>13, <1>14

LEMMA AllProcessedKeeps == ASSUME IInv, AllProcessed PROVE IInv'
<1>1. /\ stage = "process" /\ n > sel.uMarked /\ stage' = "next"
      /\ ran' = (IF cmdline = <<>> THEN ran ELSE Append(ran, cmdline))
      /\ UNCHANGED <<selection, nArg, sel, order>>
  BY DEF AllProcessed
<1>2. /\ InList /\ sel \in Sel /\ n \in Nat /\ n > 0 /\ order \in Seq(Nat) /\ order \in Seq(Indices)
      /\ (sel.uMarked = 0 /\ order = <<>>) \/ MarksRight(sel, marks, order)
      /\ selection.paren = "[" => Len(order) < MaxLine
  BY <1>1, Processing
<1>3. PICK c \in 0 .. Len(order) : Done(c) BY <1>1, Processing
<1>4. Len(order) \in Nat /\ DOMAIN order = 1 .. Len(order) /\ \A k \in 1 .. Len(order) : order[k] \in Indices
  BY <1>2, LenProperties
<1>5. c = Len(order)
  <2>1. CASE order = <<>>
    <3>1. Len(order) = 0 BY <2>1, EmptySeq
    <3> QED BY <1>3, <3>1
  <2>2. CASE order # <<>>
    <3>1. MarksRight(sel, marks, order) BY <1>2, <2>2
    <3>2. Len(order) \in 1 .. Len(order) BY <1>2, <2>2, EmptySeq, <1>4
    <3> DEFINE last == marks[order[Len(order)]]
    <3>3. last \in Nat /\ last <= sel.uMarked /\ sel.uMarked \in Nat BY <1>2, <1>4, <3>1, <3>2 DEF MarksRight, Sel
    <3>4. last < n BY <1>1, <1>2, <3>3
    <3>5. Len(order) <= c BY <1>3, <1>4, <3>2, <3>4 DEF Done
    <3>6. Len(order) \in Nat /\ c \in 0 .. Len(order) BY <1>3, <1>4
    <3> QED BY <3>5, <3>6
  <2> QED BY <2>1, <2>2
<1>6. Entries' = Entries /\ TypeInv' BY <1>1 DEF IInv, TypeInv, Entries
<1>7. MarkInv' /\ ProcessInv' BY <1>1 DEF MarkInv, ProcessInv
<1>8. Wanted' = Wanted BY <1>1 DEF Wanted
<1>9. <<>> \in Seq(Seq(Nat)) /\ DOMAIN <<>> = {} BY EmptySeq
<1>10. ran' = Wanted /\ ran' \in Seq(Seq(Nat)) /\ \A i \in DOMAIN ran' : Len(ran'[i]) < MaxLine
  <2>1. CASE selection.paren = "("
    <3>1. ran' = Runs(order, Len(order)) BY <1>1, <1>3, <1>5, <2>1 DEF Done, Runs
    <3>2. ran' = Wanted BY <1>2, <2>1, <3>1, WantedRight
    <3>3. /\ Runs(order, Len(order)) \in Seq(Seq(Nat))
          /\ \A i \in 1 .. Len(order) : Len(Runs(order, Len(order))[i]) = 1
      BY <1>2, <1>3, <1>5, RunsMade
    <3>4. DOMAIN Runs(order, Len(order)) = 1 .. Len(order) BY DEF Runs
    <3>5. MaxLine > 1 BY SelectAssumption
    <3>6. \A i \in DOMAIN ran' : Len(ran'[i]) < MaxLine BY <3>1, <3>3, <3>4, <3>5
    <3> QED BY <3>1, <3>2, <3>3, <3>6
  <2>2. CASE selection.paren # "("
    <3>1. ran = <<>> /\ cmdline = SubSeq(order, 1, Len(order)) BY <1>3, <1>5, <2>2 DEF Done
    <3>2. cmdline = order BY <1>2, <3>1, SubSeqFull
    <3>3. ran' = IF order = <<>> THEN <<>> ELSE Append(<<>>, order) BY <1>1, <3>1, <3>2
    <3>4. Append(<<>>, order) = <<order>> OBVIOUS
    <3>5. ran' = Wanted BY <2>2, <3>3, <3>4 DEF Wanted
    <3>6. selection.paren = "[" BY <1>2, <2>2, ListFacts
    <3>7. <<order>> \in Seq(Seq(Nat)) /\ DOMAIN <<order>> = {1} /\ <<order>>[1] = order
      <4> DEFINE S == Seq(Nat)
      <4>1. order \in S BY <1>2
      <4> HIDE DEF S
      <4>2. <<order>> \in Seq(S) BY <4>1
      <4>3. DOMAIN <<order>> = {1} /\ <<order>>[1] = order OBVIOUS
      <4> QED BY <4>2, <4>3 DEF S
    <3>8. Len(order) < MaxLine BY <1>2, <3>6
    <3> QED BY <1>9, <3>3, <3>4, <3>5, <3>7, <3>8
  <2> QED BY <2>1, <2>2
<1>11. RunInv' BY <1>1, <1>8, <1>10 DEF RunInv
<1> QED BY <1>6, <1>7, <1>11 DEF IInv

LEMMA InterruptKeeps == ASSUME IInv, Interrupt PROVE IInv'
<1>1. stage = "mark" /\ stage' = "end" /\ UNCHANGED <<selection, nArg, sel, marks, rows, n, cmdline, ran, order>>
  BY DEF Interrupt
<1>2. ran = <<>> BY <1>1 DEF IInv, MarkInv
<1>3. MarksRight(sel, marks, order) BY <1>1 DEF IInv, MarkInv
<1>4. Entries' = Entries /\ TypeInv' BY <1>1 DEF IInv, TypeInv, Entries
<1>5. Len(order) \in Nat /\ order \in Seq(Indices) BY <1>3, LenProperties DEF MarksRight
<1>6. Indices \subseteq Nat BY <1>1, Marking, ListFacts
<1>7. order \in Seq(Nat)
  <2>1. order \in [1 .. Len(order) -> Indices] BY <1>5, LenProperties
  <2>2. \A k \in 1 .. Len(order) : order[k] \in Nat BY <1>6, <2>1
  <2>3. [k \in 1 .. Len(order) |-> order[k]] \in Seq(Nat) BY <1>5, <2>2, IsASeq
  <2> QED BY <2>1, <2>3
<1>8. IsPrefix(<<>>, Wanted)
  <2>1. 0 \in 0 .. Len(order) BY <1>5
  <2>2. IsPrefix(<<>>, Runs(order, Len(order))) BY <1>7, <2>1, RunsArePrefix
  <2>3. Len(<<>>) = 0 /\ Len(<<order>>) = 1 BY EmptySeq
  <2>4. SubSeq(<<>>, 1, 0) = <<>> /\ SubSeq(<<order>>, 1, 0) = <<>> BY SubSeqEmpty
  <2>5. IsPrefix(<<>>, <<>>) /\ IsPrefix(<<>>, <<order>>) BY <2>3, <2>4 DEF IsPrefix
  <2> QED BY <1>7, <2>2, <2>5, WantedRight
<1>9. RunInv' BY <1>1, <1>2, <1>8 DEF RunInv, IInv, Wanted
<1>10. MarkInv' /\ ProcessInv' BY <1>1 DEF MarkInv, ProcessInv
<1> QED BY <1>4, <1>9, <1>10 DEF IInv

LEMMA NextArgKeeps == ASSUME IInv, NextArg PROVE IInv'
<1>1. /\ stage = "next" /\ UNCHANGED <<selection, sel, ran, order>>
      /\ \/ nArg = Len(selection.lists) /\ stage' = "end" /\ nArg' = nArg
         \/ /\ nArg # Len(selection.lists) /\ nArg' = nArg + 1
            /\ \/ selection.lists[nArg + 1] = <<>> /\ stage' = "next"
               \/ selection.lists[nArg + 1] # <<>> /\ stage' = "show"
  BY DEF NextArg
<1>2. /\ selection \in Selections /\ nArg \in 0 .. Len(selection.lists) /\ sel \in Sel
      /\ ran = Wanted /\ ran \in Seq(Seq(Nat)) /\ \A i \in DOMAIN ran : Len(ran[i]) < MaxLine
  BY <1>1 DEF IInv, TypeInv, RunInv
<1>3. Len(selection.lists) \in Nat BY <1>2, SelectAssumption, LenProperties
<1>4. Entries' = selection.lists[nArg'] BY <1>1 DEF Entries
<1>5. nArg' \in 0 .. Len(selection.lists) BY <1>1, <1>2, <1>3
<1>6. stage' = "show" => nArg' > 0 /\ Entries' # <<>>
  <2> SUFFICES ASSUME stage' = "show" PROVE nArg' > 0 /\ Entries' # <<>> OBVIOUS
  <2>1. nArg' = nArg + 1 /\ selection.lists[nArg + 1] # <<>> BY <1>1
  <2> QED BY <1>2, <1>3, <1>4, <2>1
<1>7. stage' \in {"next", "show", "end"} BY <1>1
<1>8. TypeInv' BY <1>1, <1>2, <1>5, <1>6, <1>7 DEF TypeInv
<1>9. MarkInv' /\ ProcessInv' BY <1>7 DEF MarkInv, ProcessInv
<1>10. Wanted' = Wanted /\ ran' = ran BY <1>1 DEF Wanted
<1>11. IsPrefix(ran, ran)
  <2>1. Len(ran) <= Len(ran) BY <1>2, LenProperties
  <2> QED BY <2>1 DEF IsPrefix
<1>12. RunInv' BY <1>2, <1>7, <1>10, <1>11 DEF RunInv
<1> QED BY <1>8, <1>9, <1>12 DEF IInv

LEMMA ShowKeeps == ASSUME IInv, Show PROVE IInv'
<1> DEFINE s == [sel EXCEPT !.nDirLine = 0, !.nDirFirst = 0, !.uMarked = 0]
           m == [i \in Indices |-> 0]
<1>1. /\ stage = "show" /\ stage' = "mark" /\ Redraw(s, m) /\ ran' = <<>> /\ order' = <<>>
      /\ UNCHANGED <<selection, nArg>>
  BY DEF Show
<1>2. selection \in Selections /\ nArg \in 0 .. Len(selection.lists) /\ nArg > 0 /\ Entries # <<>> /\ sel \in Sel
  BY <1>1 DEF IInv, TypeInv
<1>3. Len(selection.lists) \in Nat BY <1>2, SelectAssumption, LenProperties
<1>4. InList BY <1>2, <1>3 DEF InList
<1>5. s \in Sel /\ s.nDirFirst = 0 /\ s.nDirLine = 0 BY <1>2 DEF Sel
<1> HIDE DEF s
<1>6. InPage(s)
  <2>1. uEntries \in Nat /\ uEntries > 0 /\ Rows \in Nat /\ Rows > 0 BY <1>4, ListFacts
  <2>2. 0 <= 0 /\ 0 <= 0 + Rows - 1 /\ 0 < uEntries BY <2>1
  <2> QED BY <1>5, <2>2 DEF InPage
<1>7. MarksRight(s, m, order') BY <1>1, <1>4, <1>5, NoneMarked
<1> HIDE DEF m
<1>8. /\ sel' \in Sel /\ InPage(sel') /\ CountedRight(sel', marks')
      /\ ScreenRight(sel', rows', marks') /\ MarksRight(sel', marks', order')
  BY <1>1, <1>4, <1>5, <1>6, <1>7, RedrawRight
<1>9. MarkInv' BY <1>1, <1>8, MarkKept
<1>10. Entries' = Entries BY <1>1 DEF Entries
<1>11. TypeInv' BY <1>1, <1>2, <1>8, <1>10 DEF TypeInv
<1>12. ProcessInv' BY <1>1 DEF ProcessInv
<1>13. <<>> \in Seq(Seq(Nat)) /\ DOMAIN <<>> = {} BY EmptySeq
<1>14. RunInv' BY <1>1, <1>13 DEF RunInv
<1> QED BY <1>9, <1>11, <1>12, <1>14 DEF IInv

-----------------------------------------------------------------------------
LEMMA InitRight == ASSUME Init PROVE IInv
<1>1. /\ selection \in Selections /\ nArg = 0 /\ sel = InitSelect /\ stage \in {"next", "end"}
      /\ ran = <<>> /\ order = <<>>
  BY DEF Init
<1>2. Len(selection.lists) \in Nat BY <1>1, SelectAssumption, LenProperties
<1>3. sel \in Sel
  <2> DEFINE one == \E i \in DOMAIN selection.options : selection.options[i] = "1"
  <2>1. one \in BOOLEAN OBVIOUS
  <2>2. sel = [OnlyOne |-> one, uMarked |-> 0, uMarkedFiles |-> 0, uLength |-> 0,
               nDirLine |-> 0, nDirFirst |-> 0, nDirLast |-> 0]
    BY <1>1 DEF InitSelect
  <2> HIDE DEF one
  <2> QED BY <2>1, <2>2 DEF Sel
<1>4. TypeInv BY <1>1, <1>2, <1>3 DEF TypeInv
<1>5. MarkInv /\ ProcessInv BY <1>1 DEF MarkInv, ProcessInv
<1>6. <<>> \in Seq(Seq(Nat)) /\ <<>> \in Seq(Nat) /\ DOMAIN <<>> = {} /\ Len(<<>>) = 0 BY EmptySeq
<1>7. Wanted = <<>> BY <1>1, <1>6 DEF Wanted
<1>8. IsPrefix(<<>>, <<>>) BY <1>6 DEF IsPrefix
<1>9. RunInv BY <1>1, <1>6, <1>7, <1>8 DEF RunInv
<1> QED BY <1>4, <1>5, <1>9 DEF IInv

\* The screen and the marks stay in step with the list, and the commands with the marks, whatever
\* keys the user presses in SELECT: the keys that move, scroll, mark, reverse and search, RETURN,
\* ESC and ^C (SELECTC.C, ProcessSelect() in SELECT.C).
THEOREM Invariant == Spec => []IInv
<1>1. ASSUME IInv, [Next]_vars PROVE IInv'
  <2>1. CASE UNCHANGED vars
    BY <1>1, <2>1 DEF vars, IInv, TypeInv, MarkInv, ProcessInv, RunInv, Done, Wanted, Entries, uEntries, Indices,
       InPage, CountedRight, LastShown, Marked, ScreenRight, RowsRight, RowRight, MarksRight
  <2>2. CASE Next
    BY <1>1, <2>2, NextArgKeeps, ShowKeeps, ArrowKeeps, MarkKeyKeeps, MouseKeeps, PageKeyKeeps, ReverseMarksKeeps,
       UnmarkAllKeeps, ListKeyKeeps, TypeKeeps, ReturnKeeps, EscapeKeeps, ProcessSelectKeeps, AllProcessedKeeps,
       InterruptKeeps DEF Next
  <2> QED BY <1>1, <2>1, <2>2
<1> QED BY <1>1, InitRight, PTL DEF Spec

\* The screen of SELECT shows the list: the current line is on it, each row shows the file and the
\* mark that belong there, and no other row is in inverse video (dirprint() and the keys of
\* SELECTC.C, which print only the lines that change).
THEOREM ScreenStaysRight == Spec => []ScreenShowsList
<1>1. ASSUME IInv PROVE ScreenShowsList
  <2> SUFFICES ASSUME stage = "mark"
               PROVE  /\ sel.nDirLine \in sel.nDirFirst .. sel.nDirLast /\ sel.nDirLast < uEntries
                      /\ \A r \in 0 .. Rows - 1 :
                           IF sel.nDirFirst + r < uEntries
                           THEN /\ rows[r].file = sel.nDirFirst + r
                                /\ rows[r].marked = (rows[r].file \in ToSet(order))
                                /\ rows[r].inverse => rows[r].file = sel.nDirLine
                           ELSE rows[r] = Empty
    BY DEF ScreenShowsList
  <2>1. /\ InList /\ sel \in Sel /\ InPage(sel) /\ CountedRight(sel, marks) /\ ScreenRight(sel, rows, marks)
        /\ MarksRight(sel, marks, order)
    BY <1>1, Marking
  <2> DEFINE f == sel.nDirFirst
             l == sel.nDirLine
             last == sel.nDirLast
             N == uEntries
  <2>2. f \in Nat /\ l \in Nat /\ N \in Nat /\ Rows \in Nat /\ Rows > 0 /\ Indices = 0 .. N - 1
    BY <2>1, ListFacts DEF Sel
  <2>3. f <= l /\ l <= f + Rows - 1 /\ l < N BY <2>1 DEF InPage
  <2>4. last = IF f + Rows - 1 >= N THEN N - 1 ELSE f + Rows - 1 BY <2>1 DEF CountedRight, LastShown
  <2>5. l \in f .. last /\ last < N
    <3> HIDE DEF f, l, last, N
    <3> QED BY <2>2, <2>3, <2>4
  <2>6. ASSUME NEW r \in 0 .. Rows - 1
        PROVE  IF f + r < N
               THEN /\ rows[r].file = f + r
                    /\ rows[r].marked = (rows[r].file \in ToSet(order))
                    /\ rows[r].inverse => rows[r].file = l
               ELSE rows[r] = Empty
    <3>1. RowRight(r, f, l, rows, marks) BY <2>1 DEF ScreenRight, RowsRight
    <3>2. CASE f + r < N
      <4>1. rows[r].file = f + r /\ (rows[r].marked = (marks[f + r] > 0)) /\ (rows[r].inverse => f + r = l)
        BY <3>1, <3>2 DEF RowRight
      <4>2. f + r \in Indices BY <2>2, <3>2
      <4>3. marks[f + r] > 0 <=> f + r \in ToSet(order) BY <2>1, <4>2, OrderIsMarked DEF Marked
      <4>4. rows[r].marked = (rows[r].file \in ToSet(order))
        <5> DEFINE a == marks[f + r] > 0
                   b == f + r \in ToSet(order)
        <5>1. a = b BY <4>3
        <5>2. rows[r].marked = a BY <4>1, Zenon
        <5>3. rows[r].file = f + r BY <4>1
        <5> HIDE DEF a
        <5>4. rows[r].marked = b BY <5>1, <5>2, Zenon
        <5> QED BY <5>3, <5>4, Zenon
      <4> QED BY <3>2, <4>1, <4>4
    <3>3. CASE ~(f + r < N) BY <3>1, <3>3 DEF RowRight
    <3> QED BY <3>2, <3>3
  <2> QED BY <2>5, <2>6
<1> QED BY <1>1, Invariant, PTL

\* SELECT runs one command for each marked file, or one for all of them, in the order in which they
\* were marked, also after marks were taken away and given again; ^C ends it with the first of them
\* run; ESC and a command line too long run nothing (ProcessSelect() in SELECT.C).
THEOREM CommandsInOrder == Spec => []MarkedInOrder
<1>1. ASSUME IInv PROVE MarkedInOrder
  <2>1. \A i \in DOMAIN ran : Len(ran[i]) < MaxLine BY <1>1 DEF IInv, RunInv
  <2>2. stage = "next" => ran = Wanted BY <1>1 DEF IInv, RunInv
  <2>3. stage = "end" => IsPrefix(ran, Wanted) BY <1>1 DEF IInv, RunInv
  <2>4. stage = "process" => IsPrefix(ran, Wanted)
    <3> SUFFICES ASSUME stage = "process" PROVE IsPrefix(ran, Wanted) OBVIOUS
    <3>1. order \in Seq(Nat) BY <1>1, Processing
    <3>2. PICK c \in 0 .. Len(order) : Done(c) BY <1>1, Processing
    <3>3. IsPrefix(Runs(order, c), Runs(order, Len(order))) BY <3>1, RunsArePrefix
    <3>4. CASE selection.paren = "("
      <4>1. ran = Runs(order, c) BY <3>2, <3>4 DEF Done, Runs
      <4> QED BY <3>1, <3>3, <3>4, <4>1, WantedRight
    <3>5. CASE selection.paren # "("
      <4>1. ran = <<>> BY <3>2, <3>5 DEF Done
      <4>2. Len(<<>>) = 0 /\ Len(<<order>>) = 1 BY EmptySeq
      <4>3. SubSeq(<<>>, 1, 0) = <<>> /\ SubSeq(<<order>>, 1, 0) = <<>> BY SubSeqEmpty
      <4>4. IsPrefix(<<>>, <<>>) /\ IsPrefix(<<>>, <<order>>) BY <4>2, <4>3 DEF IsPrefix
      <4> QED BY <3>5, <4>1, <4>4 DEF Wanted
    <3> QED BY <3>4, <3>5
  <2> QED BY <2>1, <2>2, <2>3, <2>4 DEF MarkedInOrder, Wanted
<1> QED BY <1>1, Invariant, PTL

=============================================================================
