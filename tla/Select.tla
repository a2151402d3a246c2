------------------------------- MODULE Select -------------------------------
(***************************************************************************)
(* SELECT (SELECT.C, SELECTC.C): the user marks files of a list that is    *)
(* longer than the screen; then a command is run for each marked file, or  *)
(* one command for all of them, in the order in which they were marked.    *)
(*                                                                         *)
(* A mark is a number: the counter of marks when the file was marked, 0    *)
(* for none.  The screen is printed a page or a line at a time and         *)
(* scrolled, so that it has to be kept in step with the list.              *)
(***************************************************************************)
EXTENDS Integers, FiniteSets, SequencesExt

CONSTANTS
  Selections,    \* [options, paren, lists]: the lists of [name, dir] are found by the arguments
  Rows,          \* rows of the screen below the header
  MaxLine,       \* files that make the command line too long
  MaxSearch,     \* size of szSearch
  Letters,       \* keys that search
  MaxPressed     \* bound: keys pressed in a list

\* A parenthesis or a bracket begins the list; a line has room for a name; there is a screen.
ASSUME SelectAssumption ==
  /\ \A s \in Selections : /\ s.paren \in {"(", "["}
                           /\ s.lists \in Seq(Seq([name : Seq(Letters), dir : BOOLEAN]))
  /\ Rows \in Nat /\ Rows > 0
  /\ MaxLine \in Nat /\ MaxLine > 1

VARIABLES
  selection, nArg, stage, reply,
  sel,              \* SELECT_ARGS
  marks,            \* sfiles[].uMarked
  rows,             \* the screen
  szSearch,
  n,                \* the mark that ProcessSelect() looks for
  cmdline, ran,     \* the files of the command line, and the commands run
  order,            \* the files that are marked, in the order of their marking
  pressed

vars == <<selection, nArg, stage, reply, sel, marks, rows, szSearch, n, cmdline, ran, order, pressed>>

\* /1 allows one mark; the other options change what is found and how it is shown.
DirOptions == {"A", "C", "D", "E", "H", "J", "L", "O", "T", "X", "Z"}
Usage == \E i \in DOMAIN selection.options : selection.options[i] \notin DirOptions \cup {"1"}
InitSelect == [OnlyOne |-> \E i \in DOMAIN selection.options : selection.options[i] = "1",
               uMarked |-> 0, uMarkedFiles |-> 0, uLength |-> 0, nDirLine |-> 0, nDirFirst |-> 0, nDirLast |-> 0]

Empty == [file |-> -1, marked |-> FALSE, inverse |-> FALSE]
Init ==
  /\ selection \in Selections
  /\ nArg = 0 /\ sel = InitSelect
  /\ IF Usage THEN stage = "end" /\ reply = "USAGE" ELSE stage = "next" /\ reply = "0"
  /\ marks = <<>> /\ rows = [r \in 0 .. Rows - 1 |-> Empty] /\ szSearch = <<>>
  /\ n = 1 /\ cmdline = <<>> /\ ran = <<>> /\ order = <<>> /\ pressed = 0

Entries == selection.lists[nArg]
uEntries == Len(Entries)
Indices == 0 .. uEntries - 1

-----------------------------------------------------------------------------
(***************************************************************************)
(* The screen.                                                             *)
(***************************************************************************)
LastShown(s) == IF s.nDirFirst + Rows - 1 >= uEntries THEN uEntries - 1 ELSE s.nDirFirst + Rows - 1

\* Every call of dirprint() counts the marks.
Marked(m) == {i \in Indices : m[i] > 0}
Counted(s, m) ==
  LET k == Cardinality(Marked(m))
  IN [s EXCEPT !.nDirLast = LastShown(s), !.uMarkedFiles = k, !.uLength = IF selection.paren = "[" THEN k ELSE 0]

Row(i, m, inverse) == [file |-> i, marked |-> m[i] > 0, inverse |-> inverse]
Page(s, m) == [r \in 0 .. Rows - 1 |-> LET i == s.nDirFirst + r
                                       IN IF i <= LastShown(s) THEN Row(i, m, i = s.nDirLine) ELSE Empty]
Line(scr, s, m, inverse) == [scr EXCEPT ![s.nDirLine - s.nDirFirst] = Row(s.nDirLine, m, inverse)]
Scroll(scr, by) == [r \in 0 .. Rows - 1 |-> IF r + by \in 0 .. Rows - 1 THEN scr[r + by] ELSE Empty]

\* The page is drawn again, with the marks m and the position s.
Redraw(s, m) == sel' = Counted(s, m) /\ marks' = m /\ rows' = Page(s, m)

NextArg ==
  /\ stage = "next"
  /\ IF nArg = Len(selection.lists)
     THEN stage' = "end" /\ UNCHANGED nArg
     ELSE nArg' = nArg + 1 /\ stage' = IF selection.lists[nArg + 1] = <<>> THEN "next" ELSE "show"
  /\ UNCHANGED <<selection, reply, sel, marks, rows, szSearch, n, cmdline, ran, order, pressed>>

\* The first page of the files that an argument has found.
Show ==
  /\ stage = "show" /\ stage' = "mark"
  /\ Redraw([sel EXCEPT !.nDirLine = 0, !.nDirFirst = 0, !.uMarked = 0], [i \in Indices |-> 0])
  /\ szSearch' = <<>> /\ ran' = <<>> /\ order' = <<>> /\ pressed' = 0
  /\ UNCHANGED <<selection, nArg, reply, n, cmdline>>

-----------------------------------------------------------------------------
(***************************************************************************)
(* Keys.                                                                   *)
(***************************************************************************)
Press ==
  /\ stage = "mark" /\ pressed < MaxPressed
  /\ pressed' = pressed + 1
  /\ UNCHANGED <<selection, nArg, stage, reply, n, cmdline, ran>>

\* Mutant: a mark is the number of the files that are marked.
NextMarkCounted(s) == s.uMarkedFiles + 1

NextMark(s) == s.uMarked + 1
Without(o, i) == IF i \in ToSet(o) THEN RemoveAt(o, CHOOSE k \in DOMAIN o : o[k] = i) ELSE o

\* "+" and SPACE mark a file or take its mark away; "-" takes it away.
Refused(s, i) == marks[i] = 0 /\ s.OnlyOne /\ s.uMarkedFiles > 0
Toggled(s, i, add) ==
  IF add /\ marks[i] = 0
  THEN [s |-> [s EXCEPT !.uMarked = NextMark(s)], m |-> [marks EXCEPT ![i] = NextMark(s)], o |-> Append(order, i)]
  ELSE [s |-> s, m |-> [marks EXCEPT ![i] = 0], o |-> Without(order, i)]

\* Mutant: the page does not scroll with the line below the last one.
DownStays(s) == IF s.nDirLine >= uEntries - 1 THEN s ELSE [s EXCEPT !.nDirLine = @ + 1]

Down(s) == IF s.nDirLine >= uEntries - 1 THEN s
           ELSE [s EXCEPT !.nDirLine = @ + 1,
                          !.nDirFirst = IF s.nDirLine + 1 > s.nDirLast THEN @ + 1 ELSE @]
Up(s) == IF s.nDirLine = 0 THEN s
         ELSE [s EXCEPT !.nDirLine = @ - 1, !.nDirFirst = IF s.nDirLine - 1 < @ THEN @ - 1 ELSE @]

\* The line is shown as it was, the screen scrolls, and the new line is shown in inverse video.
MoveTo(s, t, m) ==
  /\ sel' = Counted(t, m) /\ marks' = m
  /\ rows' = Line(Scroll(Line(rows, s, m, FALSE), t.nDirFirst - s.nDirFirst), t, m, TRUE)

Arrow == Press /\ (MoveTo(sel, Down(sel), marks) \/ MoveTo(sel, Up(sel), marks)) /\ UNCHANGED <<order, szSearch>>

MarkKey ==
  /\ Press
  /\ \E add \in BOOLEAN :
       /\ ~(add /\ Refused(sel, sel.nDirLine))
       /\ LET t == Toggled(sel, sel.nDirLine, add)
          IN MoveTo(t.s, Down(t.s), t.m) /\ order' = t.o
  /\ UNCHANGED szSearch

\* A click marks the file under it; when that is refused, its line is not shown as the current one.
Mouse ==
  /\ Press
  /\ \E r \in 0 .. Rows - 1 :
       LET old == Line(rows, sel, marks, FALSE)
           i == IF sel.nDirFirst + r >= uEntries - 1 THEN uEntries - 1 ELSE sel.nDirFirst + r
           s == [Counted(sel, marks) EXCEPT !.nDirLine = i]
           t == Toggled(s, i, TRUE)
       IN IF Refused(s, i)
          THEN sel' = s /\ rows' = old /\ UNCHANGED <<marks, order>>
          ELSE sel' = Counted(t.s, t.m) /\ marks' = t.m /\ rows' = Line(old, t.s, t.m, TRUE) /\ order' = t.o
  /\ UNCHANGED szSearch

NotBelow0(i) == IF i < 0 THEN 0 ELSE i
Home(s) == [s EXCEPT !.nDirLine = 0, !.nDirFirst = 0]
End(s) == [s EXCEPT !.nDirLine = uEntries - 1, !.nDirFirst = NotBelow0(uEntries - Rows)]
PgDn(s) ==
  LET first == IF s.nDirFirst + Rows < uEntries THEN s.nDirFirst + Rows ELSE s.nDirFirst
  IN [s EXCEPT !.nDirFirst = first,
               !.nDirLine = IF @ < first THEN first ELSE IF @ + Rows >= uEntries THEN uEntries - 1 ELSE @]
PgUp(s) ==
  LET first == NotBelow0(s.nDirFirst - Rows)
  IN [s EXCEPT !.nDirFirst = first,
               !.nDirLine = IF @ > first THEN first ELSE IF @ - Rows < 0 THEN 0 ELSE @]
PageKey == Press /\ (\E s \in {Home(sel), End(sel), PgDn(sel), PgUp(sel)} : Redraw(s, marks)) /\ UNCHANGED <<order, szSearch>>

\* The numbers of the marks that "*" sets go on in the order of the list; it marks no directories.
Reversed == {i \in Indices : marks[i] = 0 /\ ~Entries[i + 1].dir}
MarkedBefore(i) == Cardinality({j \in Reversed : j < i})
ReverseAll == [i \in Indices |-> IF i \in Reversed THEN sel.uMarked + MarkedBefore(i) + 1 ELSE 0]
InOrder == [k \in 1 .. Cardinality(Reversed) |-> CHOOSE i \in Reversed : MarkedBefore(i) = k - 1]
ReverseMarks ==
  /\ Press /\ ~sel.OnlyOne
  /\ Redraw([sel EXCEPT !.uMarked = @ + Cardinality(Reversed)], ReverseAll)
  /\ order' = InOrder /\ UNCHANGED szSearch
UnmarkAll ==
  /\ Press
  /\ Redraw([sel EXCEPT !.uMarked = 0], [i \in Indices |-> 0])
  /\ order' = <<>> /\ UNCHANGED szSearch

\* LIST takes the screen and the destination of ^C, and both are set again.
ListKey == Press /\ Redraw(sel, marks) /\ UNCHANGED <<order, szSearch>>

\* The first entry that begins with what was typed, from the current one on or else from the first.
Matching(str) == {i \in Indices : IsPrefix(str, Entries[i + 1].name)}
Least(S) == CHOOSE i \in S : \A j \in S : i <= j
Found(str) == LET below == {i \in Matching(str) : i >= sel.nDirLine}
              IN Least(IF below # {} THEN below ELSE Matching(str))
GoTo(i) ==
  LET s == [Counted(sel, marks) EXCEPT !.nDirLine = i]
      t == [s EXCEPT !.nDirFirst = i]
  IN IF i \in sel.nDirFirst .. sel.nDirLast
     THEN sel' = s /\ rows' = Line(Line(rows, sel, marks, FALSE), s, marks, TRUE) /\ UNCHANGED marks
     ELSE Redraw(t, marks)

\* What is not found is tried again as the first letter of another name.
Type ==
  /\ Press
  /\ \E c \in Letters :
       LET str == Append(IF Len(szSearch) >= MaxSearch THEN <<>> ELSE szSearch, c)
       IN IF Matching(str) # {} THEN szSearch' = str /\ GoTo(Found(str))
          ELSE IF Matching(<<c>>) # {} THEN szSearch' = <<c>> /\ GoTo(Found(<<c>>))
          ELSE szSearch' = <<>> /\ UNCHANGED <<sel, marks, rows>>
  /\ UNCHANGED order

-----------------------------------------------------------------------------
(***************************************************************************)
(* The end of the marking, and the commands.                               *)
(***************************************************************************)
\* RETURN marks the current file when the counter of marks is 0.
Finish(s, m, o) ==
  /\ stage' = "process" /\ marks' = m /\ n' = 1 /\ cmdline' = <<>> /\ UNCHANGED <<selection, nArg, reply, rows, szSearch, ran, pressed>>
  /\ IF s.uLength >= MaxLine
     THEN sel' = [s EXCEPT !.uMarked = 0] /\ order' = <<>>
     ELSE sel' = s /\ order' = o
Return ==
  /\ stage = "mark"
  /\ IF sel.uMarked = 0
     THEN Finish([sel EXCEPT !.uMarked = 1], [marks EXCEPT ![sel.nDirLine] = 1], <<sel.nDirLine>>)
     ELSE Finish(sel, marks, order)
Escape == stage = "mark" /\ Finish([sel EXCEPT !.uMarked = 0], marks, <<>>)

\* The list is searched for each mark, from the first to the last that was given.
With(i) == {j \in Indices : marks[j] = i}
ProcessSelect ==
  /\ stage = "process" /\ n <= sel.uMarked
  /\ n' = n + 1
  /\ IF With(n) = {} THEN UNCHANGED <<cmdline, ran, stage, reply>>
     ELSE IF selection.paren = "["
     THEN cmdline' = Append(cmdline, Least(With(n))) /\ UNCHANGED <<ran, stage, reply>>
     ELSE /\ ran' = Append(ran, <<Least(With(n))>>) /\ UNCHANGED cmdline
          /\ \/ UNCHANGED <<stage, reply>>
             \/ stage' = "end" /\ reply' = "CTRLC"
  /\ UNCHANGED <<selection, nArg, sel, marks, rows, szSearch, order, pressed>>

AllProcessed ==
  /\ stage = "process" /\ n > sel.uMarked
  /\ ran' = IF cmdline = <<>> THEN ran ELSE Append(ran, cmdline)
  /\ stage' = "next"
  /\ UNCHANGED <<selection, nArg, reply, sel, marks, rows, szSearch, n, cmdline, order, pressed>>

\* ^C while the user marks files.
Interrupt ==
  /\ stage = "mark" /\ stage' = "end" /\ reply' = "CTRLC"
  /\ UNCHANGED <<selection, nArg, sel, marks, rows, szSearch, n, cmdline, ran, order, pressed>>

Next == \/ NextArg \/ Show \/ Arrow \/ MarkKey \/ Mouse \/ PageKey \/ ReverseMarks \/ UnmarkAll \/ ListKey \/ Type
        \/ Return \/ Escape \/ ProcessSelect \/ AllProcessed \/ Interrupt

Spec == Init /\ [][Next]_vars

-----------------------------------------------------------------------------
\* The current file is on the screen, every row shows the file and the mark that belong there,
\* and no other line than the current one is in inverse video.
ScreenShowsList ==
  stage = "mark" =>
    /\ sel.nDirLine \in sel.nDirFirst .. sel.nDirLast /\ sel.nDirLast < uEntries
    /\ \A r \in 0 .. Rows - 1 :
         IF sel.nDirFirst + r < uEntries
         THEN /\ rows[r].file = sel.nDirFirst + r
              /\ rows[r].marked = (rows[r].file \in ToSet(order))
              /\ rows[r].inverse => rows[r].file = sel.nDirLine
         ELSE rows[r] = Empty

\* Each marked file gets its command once, or all of them one command, in the order in which
\* they were marked, also when marks were taken away; ESC and a line too long run nothing.
MarkedInOrder ==
  LET wanted == IF selection.paren = "(" THEN [i \in DOMAIN order |-> <<order[i]>>]
                ELSE IF order = <<>> THEN <<>> ELSE <<order>>
  IN nArg > 0 =>
       /\ stage \in {"process", "end"} => IsPrefix(ran, wanted)
       /\ stage = "next" /\ Entries # <<>> => ran = wanted
       /\ \A i \in DOMAIN ran : Len(ran[i]) < MaxLine
=============================================================================
