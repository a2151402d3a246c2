-------------------------------- MODULE List --------------------------------
(* LIST and FFIND (LISTC.C, LISTALL.C): a file seen through a window.       *)
(* The viewer keeps 64K of the file in a buffer of two halves.  Reading     *)
(* past either end slides the window by one half; a jump reloads it whole.  *)
(* The position on the screen is kept twice: as the offset of the first     *)
(* byte shown (lViewPtr) and as the number of its row (lCurrentLine), which *)
(* every key moves by its own arithmetic.  Rows end at the end of a line,   *)
(* at the right margin when lines are wrapped, or every 16 bytes in hex.    *)
(*                                                                          *)
(* The buffer, the hex row and the screen are scaled down by constants; a   *)
(* byte is a member of a small set, with LF, CR and TAB among its values.   *)
EXTENDS Integers, Sequences, FiniteSets

CONSTANTS
    Texts,          \* the files on the command line, each a sequence of bytes
    Half,           \* LFile.uBufferSize; the buffer holds two halves
    HexRow,         \* bytes in a row of the hex display, 16
    Columns,        \* right margin of wrapped lines
    MaxLine,        \* MAXLISTLINE
    NumberWidth,    \* columns a line number takes, 6
    TabSizes,       \* the tab sizes entered at the prompt of TAB
    ScreenRows,     \* nScreenRows
    Patterns,       \* the strings searched for
    Gotos,          \* the line numbers entered at the prompt of G
    RowBound        \* bound of the model: how far lCurrentLine may run off

VARIABLES
    shown,          \* the file on the screen, or 0 when LIST has ended
    nCurrent,       \* index of the file to show
    nStart,         \* index of the next file found
    gone,           \* the files DEL has removed
    w,              \* the window: buffer, file offset, current and end pointers
    v,              \* the view: lViewPtr, lCurrentLine and the display mode
    what,           \* szListFindWhat
    fSkip,          \* bListSkipLine
    saved,          \* what INS wrote last
    found           \* the last FFIND: the file, its switches, the lines reported

vars == <<shown, nCurrent, nStart, gone, w, v, what, fSkip, saved, found>>

Total == 2 * Half

EOF == "eof"

NONE == 0 - 1

(* The bytes of a file, and a view of them. *)
Size(f) == Len(Texts[f])

Lesser(a, b) == IF a < b THEN a ELSE b

(* How many of n bytes there are at the file offset. *)
Here(f, win, n) == Lesser(n, IF Size(f) > win.off THEN Size(f) - win.off ELSE 0)

ReadPart(f, win, at, n, k) ==
    [win EXCEPT
       !.buf = [i \in 0 .. Total - 1 |->
                  IF i \in at .. at + k - 1 THEN Texts[f][win.off + i - at + 1] ELSE @[i]],
       !.eof = IF Size(f) > win.off + k /\ k = n THEN NONE ELSE at + k]

(* Mutant: the end of the file is noted before the read is placed. *)
FileReadAtStart(f, win, at, n) ==
    [ReadPart(f, win, at, n, Here(f, win, n)) EXCEPT !.eof = IF @ = NONE THEN NONE ELSE @ - at]

(* ListFileRead: n bytes at the file offset go to position "at" of the       *)
(* buffer; lpEOF is set unless a full read leaves more of the file.          *)
ListFileRead(f, win, at, n) == ReadPart(f, win, at, n, Here(f, win, n))

(* GetPrevChar: at the top of the buffer the first half moves to the second  *)
(* and the block before it is read into the first.                           *)
Earlier(win) ==
    [win EXCEPT !.buf = [i \in 0 .. Total - 1 |-> IF i >= Half THEN @[i - Half] ELSE @[i]],
                !.off = @ - Half]

Before(now) == [c |-> now.buf[now.cur - 1], w |-> [now EXCEPT !.cur = @ - 1]]

GetPrevChar(f, win) ==
    IF win.cur = 0 /\ win.off = 0 THEN [c |-> EOF, w |-> win]
    ELSE Before(IF win.cur = 0
                THEN [ListFileRead(f, Earlier(win), 0, Half) EXCEPT !.cur = Half]
                ELSE win)

(* GetNextChar: at the end of the buffer the second half moves to the first  *)
(* and the next block is read into the second.                               *)
Later(win) ==
    [win EXCEPT !.buf = [i \in 0 .. Total - 1 |-> IF i < Half THEN @[i + Half] ELSE @[i]],
                !.off = @ + Total]

After(now) == [c |-> now.buf[now.cur], w |-> [now EXCEPT !.cur = @ + 1]]

GetNextChar(f, win) ==
    IF win.cur = win.eof THEN [c |-> EOF, w |-> win]
    ELSE After(IF win.cur >= Total
               THEN [ListFileRead(f, Later(win), Half, Half) EXCEPT !.off = @ - Half, !.cur = win.cur - Half]
               ELSE win)

(* ListSetCurrent: whole buffers are skipped until the offset lies in one.   *)
RECURSIVE Back(_, _), Forth(_, _)
Back(off, o) == IF o < off /\ off > 0
                THEN Back(IF off < Total THEN 0 ELSE off - Total, o)
                ELSE off

Forth(off, o) == IF o > off + Total THEN Forth(off + Total, o) ELSE off

SetCurrent(f, win, o, off) ==
    [(IF o < win.off \/ o > win.off + Total THEN ListFileRead(f, [win EXCEPT !.off = off], 0, Total)
      ELSE win) EXCEPT !.cur = o - off]

ListSetCurrent(f, win, o) ==
    SetCurrent(f, win, o, IF o < win.off THEN Back(win.off, o) ELSE Forth(win.off, o))

(* ListHome: the buffer is loaded from the start of the file, which is        *)
(* scanned for the character that ends its lines.                            *)
ListHome(f, win) ==
    ListFileRead(f, [win EXCEPT !.off = 0, !.cur = 0], 0, Total)

EoL(f) == IF \E i \in 1 .. Lesser(Size(f), Total) : Texts[f][i] = "lf" THEN "lf" ELSE "cr"

(* SetRightMargin. *)
RightMargin(mode) ==
    (IF mode.wrap THEN Columns ELSE MaxLine) - (IF mode.numbers THEN NumberWidth ELSE 0)

TabStop(mode, n) == ((n + mode.tab) \div mode.tab) * mode.tab

-----------------------------------------------------------------------------
(* Moving the view. *)

(* The end of the row that starts at the current pointer: its length and      *)
(* whether the file ended first.                                             *)
RECURSIVE RowEnd(_, _, _, _, _), RowChar(_, _, _, _, _)
RowChar(f, g, mode, n, len) ==
    CASE g.c = EOF -> [w |-> g.w, len |-> len, eof |-> TRUE]
      [] g.c = EoL(f) -> [w |-> g.w, len |-> len + 1, eof |-> FALSE]
      [] g.c # EoL(f) /\ n >= RightMargin(mode) /\ g.c \notin {"cr", EOF} ->
             [w |-> GetPrevChar(f, g.w).w, len |-> len, eof |-> FALSE]
      [] OTHER -> RowEnd(f, g.w, mode, IF g.c = "tab" THEN TabStop(mode, n) ELSE n + 1, len + 1)

RowEnd(f, win, mode, n, len) == RowChar(f, GetNextChar(f, win), mode, n, len)

(* A move that has come so far: [w, off, rows].                              *)
RECURSIVE Down(_, _, _, _), DownRow(_, _, _, _, _)
DownRow(f, m, mode, rows, r) ==
    IF r.eof THEN [m EXCEPT !.w = r.w, !.off = @ + r.len]
    ELSE Down(f, [w |-> r.w, off |-> m.off + r.len, rows |-> m.rows + 1], mode, rows)

Down(f, m, mode, rows) ==
    IF m.rows = rows THEN m ELSE DownRow(f, m, mode, rows, RowEnd(f, m.w, mode, 0, 0))

(* The way back, from the character read, to the end of the line before, and   *)
(* to the start of the line.                                                  *)
RECURSIVE LineBack(_, _)
LineBack(f, g) == IF g.c \in {EOF, EoL(f)} THEN g ELSE LineBack(f, GetPrevChar(f, g.w))

LineStart(f, back) == IF back.c = EOF THEN back.w ELSE GetNextChar(f, back.w).w

(* The start of the last row of the line between "from" and "end".            *)
RECURSIVE LastRow(_, _, _, _, _, _, _)
LastRow(f, win, mode, p, end, n, row) ==
    IF p >= end THEN row
    ELSE IF win.buf[p] = EoL(f) THEN LastRow(f, win, mode, p + 1, end, n, row)
    ELSE LET wraps == n >= RightMargin(mode) /\ p + 1 < end
             col   == IF wraps THEN 0 ELSE n
         IN LastRow(f, win, mode, p + 1, end,
                    IF win.buf[p] = "tab" THEN TabStop(mode, col) ELSE col + 1,
                    IF wraps THEN p ELSE row)

RECURSIVE Up(_, _, _, _), UpLine(_, _, _, _, _), UpTo(_, _, _, _, _)
UpTo(f, m, mode, rows, start) ==
    LET end == Lesser(m.w.cur + (IF start.off # m.w.off THEN Half ELSE 0), Total)
    IN Up(f, [w    |-> start,
              off  |-> m.off + LastRow(f, start, mode, start.cur, end, 0, start.cur) - end,
              rows |-> m.rows - 1], mode, rows)

UpLine(f, m, mode, rows, back) ==
    IF back.c = EOF /\ back.w.cur = m.w.cur THEN [m EXCEPT !.w = back.w]
    ELSE UpTo(f, m, mode, rows, LineStart(f, back))

Up(f, m, mode, rows) ==
    IF m.rows = rows THEN m
    ELSE UpLine(f, m, mode, rows, LineBack(f, GetPrevChar(f, GetPrevChar(f, m.w).w)))

(* MoveViewPtr: the distance in bytes to the row "rows" further, and how many *)
(* rows that really is when the top or the bottom of the file is in the way. *)
MoveHex(f, m, ptr, rows) ==
    LET to == ptr + rows * HexRow
    IN CASE (ptr = 0 /\ rows < 0) \/ (ptr = Size(f) /\ rows > 0) -> m
         [] to < 0 /\ ptr # 0 -> [m EXCEPT !.off = 0 - ptr, !.rows = 0 - (ptr \div HexRow)]
         [] to > Size(f) /\ ptr # Size(f) ->
                [m EXCEPT !.off = Size(f) - ptr, !.rows = (Size(f) - ptr) \div HexRow]
         [] OTHER -> [m EXCEPT !.off = rows * HexRow, !.rows = rows]

MoveFrom(f, m, mode, ptr, rows) ==
    IF mode.hex THEN MoveHex(f, m, ptr, rows)
    ELSE IF rows > 0 THEN Down(f, m, mode, rows)
    ELSE Up(f, m, mode, rows)

MoveViewPtr(f, win, mode, ptr, rows) ==
    MoveFrom(f, [w |-> ListSetCurrent(f, win, ptr), off |-> 0, rows |-> 0], mode, ptr, rows)

(* ListMoveLine moves by all the rows or not at all.                         *)
Moves(m, view, rows) ==
    [w  |-> m.w,
     v  |-> IF m.rows = rows THEN [view EXCEPT !.ptr = @ + m.off, !.line = @ + rows] ELSE view,
     ok |-> m.rows = rows]

ListMoveLine(f, win, view, rows) == Moves(MoveViewPtr(f, win, view, view.ptr, rows), view, rows)

Placed(win, view) == [w |-> win, v |-> view, ok |-> TRUE]

RECURSIVE LastLine(_, _), LinesUp(_, _, _)
LastLine(f, m) == IF m.ok THEN LastLine(f, ListMoveLine(f, m.w, m.v, 1)) ELSE m

LinesUp(f, m, n) == IF n = 0 \/ ~m.ok THEN m ELSE LinesUp(f, ListMoveLine(f, m.w, m.v, 0 - 1), n - 1)

(* ComputeLines: rows between two offsets, counted upwards.                   *)
RECURSIVE CountRows(_, _, _, _, _, _), CountChar(_, _, _, _, _, _)
CountChar(f, g, mode, left, n, rows) ==
    IF g.c = EOF THEN [w |-> g.w, rows |-> rows]
    ELSE IF g.c = "tab" THEN CountRows(f, g.w, mode, left - 1, TabStop(mode, n), rows)
    ELSE IF n + 1 >= RightMargin(mode) \/ g.c = EoL(f)
         THEN CountRows(f, g.w, mode, left - 1, 0, rows + 1)
         ELSE CountRows(f, g.w, mode, left - 1, n + 1, rows)

CountRows(f, win, mode, left, n, rows) ==
    IF left = 0 THEN [w |-> win, rows |-> rows]
    ELSE CountChar(f, GetNextChar(f, win), mode, left, n, rows)

Counted(f, at, mode, far) ==
    IF mode.hex THEN [w |-> at, rows |-> far \div HexRow] ELSE CountRows(f, at, mode, far, 0, 0)

ComputeLines(f, win, mode, old, new) ==
    LET low == Lesser(old, new)
    IN [Counted(f, ListSetCurrent(f, win, low), mode, old + new - 2 * low)
          EXCEPT !.rows = IF old > new THEN 0 - @ ELSE @]

(* DisplayLine and FormatLine read one row of the screen: the bytes of a row  *)
(* up to its end, CRs left out, or sixteen bytes in hex.                     *)
RECURSIVE FormatLine(_, _, _, _, _), FormatChar(_, _, _, _, _)
FormatChar(f, g, mode, i, len) ==
    CASE g.c = EOF -> [w |-> g.w, len |-> len]
      [] mode.hex /\ g.c # EOF ->
             IF i + 1 = HexRow THEN [w |-> g.w, len |-> len + 1]
             ELSE FormatLine(f, g.w, mode, i + 1, len + 1)
      [] ~mode.hex /\ g.c = EoL(f) -> [w |-> g.w, len |-> len + 1]
      [] ~mode.hex /\ g.c # EoL(f) /\ g.c = "cr" -> FormatLine(f, g.w, mode, i, len + 1)
      [] ~mode.hex /\ g.c \notin {EoL(f), "cr", EOF} /\ i >= RightMargin(mode) ->
             [w |-> GetPrevChar(f, g.w).w, len |-> len]
      [] OTHER -> FormatLine(f, g.w, mode,
                             IF g.c = "tab" THEN Lesser(TabStop(mode, i), RightMargin(mode)) ELSE i + 1,
                             len + 1)

FormatLine(f, win, mode, i, len) == FormatChar(f, GetNextChar(f, win), mode, i, len)

(* ListUpdateScreen: each row is read from where the one before it ended.     *)
RECURSIVE ShowRows(_, _, _, _, _), ShowBelow(_, _, _, _, _)
ShowBelow(f, l, mode, ptr, n) == ShowRows(f, l.w, mode, ptr + l.len, n - 1)

ShowRows(f, win, mode, ptr, n) ==
    IF n = 0 THEN win
    ELSE ShowBelow(f, FormatLine(f, ListSetCurrent(f, win, ptr), mode, 0, 0), mode, ptr, n)

ListUpdateScreen(f, win, view) == ShowRows(f, win, view, view.ptr, ScreenRows)

-----------------------------------------------------------------------------
(* Searching. *)

(* The inner loop of SearchFile: i bytes of the pattern have been matched.    *)
RECURSIVE Scan(_, _, _, _, _), ScanChar(_, _, _, _, _)
ScanChar(f, g, p, rev, i) ==
    CASE g.c = EOF -> [w |-> g.w, ok |-> FALSE]
      [] g.c # EOF /\ g.c # p[i + 1] ->
             Scan(f, [g.w EXCEPT !.cur = IF rev THEN @ + i ELSE @ - i], p, rev, 0)
      [] g.c = p[i + 1] /\ i + 1 = Len(p) -> [w |-> g.w, ok |-> TRUE]
      [] OTHER -> Scan(f, g.w, p, rev, i + 1)

Scan(f, win, p, rev, i) ==
    ScanChar(f, IF rev THEN GetPrevChar(f, win) ELSE GetNextChar(f, win), p, rev, i)

RECURSIVE MoveTimes(_, _, _)
MoveTimes(f, m, n) == IF n <= 0 THEN m ELSE MoveTimes(f, ListMoveLine(f, m.w, m.v, 1), n - 1)

(* What SearchFile does with a match at offset "hit": the view moves to the   *)
(* row that holds it, and the row number by the rows between.                *)
AtRow(f, m) == Placed(ListSetCurrent(f, m.w, m.v.ptr), m.v)

MatchLine(f, start, view, hit) ==
    LET line  == start.off + start.cur
        inner == ComputeLines(f, start, view, line, hit)
        past  == ComputeLines(f, inner.w, view, view.ptr, line)
    IN AtRow(f, MoveTimes(f, Placed(past.w, [view EXCEPT !.ptr = line, !.line = @ + past.rows]), inner.rows))

ShowMatch(f, win, view, hit) ==
    IF view.hex THEN Placed(win, [view EXCEPT !.ptr = hit - (hit % HexRow), !.line = hit \div HexRow])
    ELSE MatchLine(f, LineStart(f, LineBack(f, GetPrevChar(f, win))), view, hit)

Reversed(p) == [i \in 1 .. Len(p) |-> p[Len(p) + 1 - i]]

(* SearchFile, for a string without wildcards. *)
Match(f, s, view, len) ==
    IF s.ok THEN ShowMatch(f, s.w, view, s.w.off + s.w.cur - len)
    ELSE [w |-> s.w, v |-> view, ok |-> FALSE]

SearchFile(f, win, view, p, rev) ==
    Match(f, Scan(f, ListSetCurrent(f, win, view.ptr), IF rev THEN Reversed(p) ELSE p, rev, 0),
          view, IF rev THEN 0 ELSE Len(p))

-----------------------------------------------------------------------------
(* LIST: the keys of _list(). *)

Window == [off |-> 0, buf |-> [i \in 0 .. Total - 1 |-> "junk"], cur |-> 0, eof |-> NONE]

View == [ptr |-> 0, line |-> 0, hex |-> FALSE, wrap |-> FALSE, numbers |-> FALSE,
         tab |-> CHOOSE t \in TabSizes : TRUE]

AtTop(view) == [view EXCEPT !.ptr = 0, !.line = 0]

(* ListOpenFile. *)
Opened(f, win, view) == ListUpdateScreen(f, ListHome(f, win), AtTop(view))

Init == /\ shown = 1
        /\ nCurrent = 0
        /\ nStart = 0
        /\ gone = {}
        /\ v \in {[View EXCEPT !.hex = h, !.wrap = x] : h \in BOOLEAN, x \in BOOLEAN}
        /\ w = Opened(1, Window, v)
        /\ what \in Patterns
        /\ fSkip = FALSE
        /\ saved = <<>>
        /\ found = <<>>

Listing == shown # 0

Stays == UNCHANGED <<shown, nCurrent, nStart, gone>>

(* Rows that are counted wrong add up: lCurrentLine is followed so far only.  *)
Bounded(view) == view.line \in 0 - RowBound .. RowBound

(* A key that ends with the display rewritten. *)
Shows(m) ==
    /\ Bounded(m.v)
    /\ v' = m.v
    /\ w' = ListUpdateScreen(shown, m.w, m.v)
    /\ UNCHANGED saved
    /\ UNCHANGED found
    /\ Stays

(* UP and DOWN, which scroll one row; a row that cannot be reached honks. *)
Scrolls(m) == Bounded(m.v) /\ v' = m.v /\ w' = m.w /\ UNCHANGED <<saved, found>> /\ Stays

Line(n) ==
    /\ Listing
    /\ Scrolls(ListMoveLine(shown, w, v, n))
    /\ UNCHANGED <<what, fSkip>>

Home ==
    /\ Listing
    /\ Shows([w |-> ListHome(shown, w), v |-> AtTop(v)])
    /\ UNCHANGED <<what, fSkip>>

(* END goes to the last row, and on into PgUp. *)
Page(m) ==
    IF m.v.ptr = 0 THEN Scrolls(m)
    ELSE Shows(LinesUp(shown, Placed(m.w, m.v), ScreenRows - 1))

End ==
    /\ Listing
    /\ Page(LastLine(shown, Placed(w, v)))
    /\ UNCHANGED <<what, fSkip>>

PgUp ==
    /\ Listing
    /\ Page([w |-> w, v |-> v])
    /\ UNCHANGED <<what, fSkip>>

PgDn ==
    /\ Listing
    /\ Shows(ListMoveLine(shown, w, v, ScreenRows - 1))
    /\ UNCHANGED <<what, fSkip>>

(* TAB: the tab size is changed, and nothing recalculated. *)
Tab ==
    /\ Listing
    /\ \E t \in TabSizes : Shows([w |-> w, v |-> [v EXCEPT !.tab = t]])
    /\ UNCHANGED <<what, fSkip>>

(* A move from the top of the file, or from where it is.                      *)
Jump(m, base) == Shows([w |-> m.w, v |-> [base EXCEPT !.ptr = @ + m.off, !.line = @ + m.rows]])

GotoRows(n) == IF ~v.hex THEN n ELSE IF n < 0 THEN 0 - ((0 - n) \div HexRow) ELSE n \div HexRow

(* G: to the line, or in hex to the offset; negative numbers are relative.    *)
Goto ==
    /\ Listing
    /\ \E n \in Gotos :
          LET base == IF GotoRows(n) >= 0 THEN AtTop(v) ELSE v
          IN Jump(MoveViewPtr(shown, w, v, base.ptr, GotoRows(n)), base)
    /\ UNCHANGED <<what, fSkip>>

(* W, and L while lines are wrapped: both numbers are computed again.         *)
WrapRecalc(view) ==
    LET c == ComputeLines(shown, w, view, 0, view.ptr)
    IN Jump(MoveViewPtr(shown, c.w, view, 0, c.rows), AtTop(view))

Wrap ==
    /\ Listing
    /\ WrapRecalc([v EXCEPT !.wrap = ~@])
    /\ UNCHANGED <<what, fSkip>>

LineNumbers ==
    /\ Listing
    /\ LET view == [v EXCEPT !.numbers = ~@]
       IN IF v.wrap THEN WrapRecalc(view) ELSE Shows([w |-> w, v |-> view])
    /\ UNCHANGED <<what, fSkip>>

Recount(m) ==
    LET c == ComputeLines(shown, m.w, m.v, 0, m.v.ptr)
    IN Shows([w |-> c.w, v |-> [m.v EXCEPT !.line = c.rows]])

InHex == [v EXCEPT !.hex = TRUE, !.ptr = @ - (@ % HexRow)]

(* Mutant: out of hex the offset stays in the middle of a line. *)
HexStays ==
    /\ Listing
    /\ Recount([w |-> w, v |-> IF v.hex THEN [v EXCEPT !.hex = FALSE] ELSE InHex])
    /\ UNCHANGED <<what, fSkip>>

(* X: in hex the row starts at a multiple of its width; out of hex the start   *)
(* of a line is found by going one row down and one up.                       *)
OutOfHex(down) == ListMoveLine(shown, down.w, down.v, 0 - 1)

Hex ==
    /\ Listing
    /\ Recount(IF v.hex THEN OutOfHex(ListMoveLine(shown, w, [v EXCEPT !.hex = FALSE], 1))
               ELSE [w |-> w, v |-> InHex])
    /\ UNCHANGED <<what, fSkip>>

(* F, N, ^F and ^N: a failed search restores the position.  A search skips the  *)
(* first row when one has been made before.                                    *)
Lands(s) == Shows(IF s.ok THEN s ELSE [w |-> ListSetCurrent(shown, s.w, v.ptr), v |-> v])

SearchFrom(at, p, rev) == Lands(SearchFile(shown, at.w, at.v, p, rev))

Search(p, rev, skip) ==
    SearchFrom(IF ~rev /\ skip THEN ListMoveLine(shown, w, v, 1) ELSE Placed(w, v), p, rev)

Find ==
    /\ Listing
    /\ \E p \in Patterns, rev \in BOOLEAN : Search(p, rev, FALSE) /\ what' = p
    /\ fSkip' = TRUE

FindNext ==
    /\ Listing
    /\ \E rev \in BOOLEAN : Search(what, rev, fSkip)
    /\ fSkip' = TRUE
    /\ UNCHANGED what

(* P: the file or the page is formatted row by row; the position is restored. *)
RECURSIVE PrintRows(_, _, _, _)
PrintRows(f, l, mode, n) ==
    IF l.len = 0 \/ n = 0 THEN l.w ELSE PrintRows(f, FormatLine(f, l.w, mode, 0, 0), mode, n - 1)

PrintFile ==
    /\ Listing
    /\ \E page \in BOOLEAN :
          LET at == ListSetCurrent(shown, w, IF page THEN v.ptr ELSE 0)
              p  == PrintRows(shown, FormatLine(shown, at, v, 0, 0), v,
                              IF page THEN ScreenRows ELSE Size(shown))
          IN w' = ListSetCurrent(shown, p, v.ptr)
    /\ UNCHANGED <<v, what, fSkip, saved, found>>
    /\ Stays

(* INS: everything from the start of the file to its end goes to another file. *)
RECURSIVE Rest(_, _, _)
Rest(f, g, text) ==
    IF g.c = EOF THEN [w |-> g.w, text |-> text] ELSE Rest(f, GetNextChar(f, g.w), Append(text, g.c))

Saves(r) ==
    /\ saved' = [file |-> shown, text |-> r.text]
    /\ w' = ListUpdateScreen(shown, ListSetCurrent(shown, r.w, v.ptr), v)

Save ==
    /\ Listing
    /\ Saves(Rest(shown, GetNextChar(shown, ListSetCurrent(shown, w, 0)), <<>>))
    /\ UNCHANGED <<v, what, fSkip, found>>
    /\ Stays

-----------------------------------------------------------------------------
(* The file loop of List_Cmd. *)

TextFiles == DOMAIN Texts

(* At the end the buffer is freed; the next command starts with new switches. *)
Shown(f) ==
    /\ shown' = f
    /\ IF f = 0 THEN w' = Window /\ v' = [View EXCEPT !.tab = v.tab]
       ELSE v' = AtTop(v) /\ w' = Opened(f, w, v)
    /\ UNCHANGED <<what, fSkip, found>>
    /\ saved' = <<>>

(* FIND_NEXT: the next file of the search still there. *)
Following(g, f) ==
    LET later == {n \in TextFiles : n > f /\ n \notin g}
    IN IF later = {} THEN 0 ELSE CHOOSE n \in later : \A m \in later : n <= m

NextFile ==
    /\ Listing
    /\ nCurrent' = nCurrent + 1
    /\ nStart' = nStart + 1
    /\ Shown(Following(gone, shown))
    /\ UNCHANGED gone

(* ^PgUp restarts the search and skips the files before the one wanted.       *)
RECURSIVE Skipping(_, _, _)
Skipping(g, f, n) == IF n = 0 \/ f = 0 THEN f ELSE Skipping(g, Following(g, f), n - 1)

PreviousFile ==
    /\ Listing
    /\ nCurrent > 0
    /\ nCurrent' = nCurrent - 1
    /\ nStart' = nCurrent - 1
    /\ Shown(Skipping(gone, Following(gone, 0), nCurrent - 1))
    /\ UNCHANGED gone

(* DEL removes the file on the screen and goes to the next. *)
Del ==
    /\ Listing
    /\ gone' = gone \cup {shown}
    /\ nCurrent' = nCurrent + 1
    /\ nStart' = nStart + 1
    /\ Shown(Following(gone, shown))

(* ESC, or ^C. *)
Escape ==
    /\ Listing
    /\ Shown(0)
    /\ UNCHANGED <<nCurrent, nStart, gone>>

-----------------------------------------------------------------------------
(* FFIND "text" /V: every line with the text is reported, from the start of the *)
(* file or, with /R, from its end.                                             *)
RECURSIVE Report(_, _, _, _, _), ReportNext(_, _, _, _, _)
ReportNext(f, next, p, rev, lines) ==
    IF ~next.ok THEN lines
    ELSE Report(f, SearchFile(f, ListSetCurrent(f, next.w, next.v.ptr), next.v, p, rev), p, rev, lines)

Report(f, s, p, rev, lines) ==
    IF ~s.ok THEN lines
    ELSE ReportNext(f, IF rev THEN s ELSE ListMoveLine(f, s.w, s.v, 1), p, rev, Append(lines, s.v.line))

Reported(f, start, p, rev) == Report(f, SearchFile(f, start.w, start.v, p, rev), p, rev, <<>>)

Ffind ==
    /\ ~Listing
    /\ \E f \in TextFiles \ gone, p \in Patterns, rev \in BOOLEAN :
          LET top == Placed(ListHome(f, Window), View)
          IN found' = [file |-> f, what |-> p, rev |-> rev,
                       lines |-> Reported(f, IF rev THEN LastLine(f, top) ELSE top, p, rev)]
    /\ UNCHANGED <<shown, nCurrent, nStart, gone, w, v, what, fSkip, saved>>

(* After the last command. *)
Prompt ==
    /\ ~Listing
    /\ UNCHANGED vars

Next == \/ Line(1) \/ Line(0 - 1)
        \/ Home \/ End \/ PgUp \/ PgDn
        \/ Tab \/ Goto \/ Wrap \/ LineNumbers \/ Hex
        \/ Find \/ FindNext \/ PrintFile \/ Save
        \/ NextFile \/ PreviousFile \/ Del \/ Escape
        \/ Ffind \/ Prompt

Spec == Init /\ [][Next]_vars

-----------------------------------------------------------------------------
(* Properties. *)

(* The buffer is a window on the file (LISTALL.C:1539-1586): every byte of it  *)
(* before the end of the data is the byte of the file at its offset, and the   *)
(* end of the file is where the pointer lpEOF says, however the window got     *)
(* there.                                                                     *)
WindowIsFile ==
    Listing =>
        LET last == IF w.eof = NONE THEN Total ELSE w.eof
        IN /\ w.off + last <= Size(shown)
           /\ w.eof # NONE => w.off + last = Size(shown)
           /\ \A i \in 0 .. last - 1 : w.buf[i] = Texts[shown][w.off + i + 1]

(* The test of GetNextChar for the end of the file ("already at file end?",    *)
(* LISTALL.C:1567) is right: the data in the buffer, up to lpEOF or, when it is *)
(* not set, to the end of the buffer, end with the file or before.             *)
EndIsMarked ==
    Listing => w.off + (IF w.eof = NONE THEN Total ELSE w.eof) <= Size(shown)

(* Texts whose rows the code does not count as it shows them: a line as long   *)
(* as the margin is one row for MoveViewPtr (LISTALL.C:1098-1104) and two for   *)
(* ComputeLines (964-968), and the row that the end of the file ends is left    *)
(* by G, which goes on to the end, but not counted (1117-1120).                 *)
LinesOf(f) ==
    LET ends == {i \in 1 .. Size(f) : Texts[f][i] = EoL(f)}
    IN [i \in 1 .. Size(f) |-> Cardinality({e \in ends : e < i})]

Lengths(f) ==
    LET lines == LinesOf(f)
    IN {Cardinality({i \in 1 .. Size(f) : lines[i] = n}) - 1 : n \in {lines[i] : i \in 1 .. Size(f)}}

Fills(f, mode) == \E n \in Lengths(f) : n > 0 /\ n % RightMargin(mode) = 0

Ended(f) == Size(f) > 0 => Texts[f][Size(f)] = EoL(f)

(* The number of the row on top of the screen (lCurrentLine) is that of the    *)
(* row at the offset of the screen (lViewPtr), after any sequence of moves,    *)
(* searches, jumps and changes of the display: walking that many rows down     *)
(* from the start of the file leads to that offset.  In the texts above it is   *)
(* another number, but the screen still begins with a row.  In hex the rows     *)
(* are counted from the start of the file or, after a jump behind it, its end.  *)
RowIsLine ==
    Listing =>
        LET Row(n) == MoveViewPtr(shown, ListHome(shown, w), v, 0, n).off
        IN IF v.hex
             THEN /\ v.line = v.ptr \div HexRow
                  /\ v.ptr % HexRow = 0 \/ (Size(shown) - v.ptr) % HexRow = 0
             ELSE /\ \E n \in 0 .. Size(shown) : v.ptr = Row(n)
                  /\ Ended(shown) /\ ~Fills(shown, v) => v.line >= 0 /\ v.ptr = Row(v.line)

(* What INS writes (LISTC.C:899-957) is the whole file, wherever the window    *)
(* was, and FFIND (LISTALL.C:529-594) reports each line that holds the text     *)
(* once and by its number, in the order of the search.  FFIND /R begins above   *)
(* a last line that is not ended, and does not search it (522-526).             *)
Holds(f, p) ==
    {LinesOf(f)[i] : i \in {j \in 1 .. Size(f) + 1 - Len(p) :
                               SubSeq(Texts[f], j, j + Len(p) - 1) = p}}

Unsearched(f, rev) == IF rev /\ ~Ended(f) THEN {LinesOf(f)[Size(f)]} ELSE {}

ReadsAll ==
    /\ saved # <<>> => saved.text = Texts[saved.file]
    /\ found # <<>> =>
          /\ {found.lines[i] : i \in DOMAIN found.lines} =
                Holds(found.file, found.what) \ Unsearched(found.file, found.rev)
          /\ \A i \in 2 .. Len(found.lines) :
                IF found.rev THEN found.lines[i] < found.lines[i - 1]
                ELSE found.lines[i - 1] < found.lines[i]

(* While nothing has been deleted, going back and forth shows the files in     *)
(* their order: the file on the screen is the one with the index nCurrent.     *)
FilesInOrder == Listing /\ gone = {} => shown = nCurrent + 1

=============================================================================
