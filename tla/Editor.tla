------------------------------- MODULE Editor -------------------------------
(***************************************************************************)
(* The command line: egets(), which edits it, and the history list, which  *)
(* addhist() and HISTORY write and egets() reads and writes.               *)
(*                                                                         *)
(* The history is one block of memory: entries that end with a NUL, and a  *)
(* NUL after the last.  glpHptr points into it, not always at the begin-   *)
(* ning of an entry.  A step is a key.  The screen, the case of letters,   *)
(* quotes around names and the password fields are left out.               *)
(***************************************************************************)
EXTENDS Integers, SequencesExt, FiniteSetsExt

CONSTANTS
  KeySets,      \* sets of keys that are used together
  Text,         \* the characters that can be typed
  White, Punct, \* those that are blanks, and those that are punctuation
  MaxLine,      \* nMaxLength
  MaxKeys,      \* how many keys are pressed, at most
  HistorySize, HistMin, HistDups, HistCopy, HistMove, HistWrap,     \* from 4DOS.INI
  Aliases,      \* key aliases: a function from keys to [keys, silent]
  Lines,        \* what the clipboard, HISTORY /A and alias expansion give
  DirHistory,   \* the directories of the ^PgUp popup
  Files,        \* the files of the current directory: [name, type, attrib]
  Completion,   \* FileCompletion: a sequence of [cmd, types]
  NULL

VARIABLES
  line, cur,    \* the line, and how many of its characters are left of the cursor
  mark,         \* <<start, end>> of the marked block, or NULL
  insert,       \* gnEditMode
  loop,         \* the loop that egets() is in: [in, ...]
  pending,      \* pszKeys: the rest of a key alias
  silent,       \* fExecuteNow
  mem,          \* the block of the history list
  glpHptr,      \* an index of mem, or NULL
  adding,       \* the command that addhist() is adding, or NULL
  keys, presses,
  entered       \* all lines that were given to addhist()

vars == <<line, cur, mark, insert, loop, pending, silent, mem, glpHptr, adding, keys, presses, entered>>
input == <<insert, pending, silent, adding, entered>>

-----------------------------------------------------------------------------
(***************************************************************************)
(* The history list.                                                       *)
(***************************************************************************)
NUL == ""

Strlen(m, p) == Min({q \in p .. Len(m) : m[q] = NUL}) - p
Str(m, p) == SubSeq(m, p, p + Strlen(m, p) - 1)

next_env(m, p) == IF Strlen(m, p) = 0 THEN p ELSE p + Strlen(m, p) + 1

end_of_env(m) == Min({q \in 1 .. Len(m) : m[q] = NUL /\ (q = 1 \/ m[q - 1] = NUL)})

Begins(m) == {q \in 1 .. end_of_env(m) - 1 : q = 1 \/ m[q - 1] = NUL}
Entries(m) == {Str(m, q) : q \in Begins(m)}

\* memmove() within the block.
Moved(m, to, from, n) ==
  [i \in 1 .. Len(m) |-> IF i \in to .. to + n - 1 THEN m[from + i - to] ELSE m[i]]
Cut(m, p) == Moved(m, p, next_env(m, p), Len(m) + 1 - next_env(m, p))

prev_hist(m, p) ==
  LET q == IF p = NULL THEN end_of_env(m) ELSE IF p > 1 THEN p
           ELSE IF HistWrap THEN end_of_env(m) ELSE 1
  IN IF q = 1 THEN 1
     ELSE Max({r \in 1 .. q - 1 : r = 1 \/ m[r - 1] = NUL})

next_hist(m, p) ==
  IF p = NULL THEN IF HistWrap THEN 1 ELSE NULL
  ELSE IF m[next_env(m, p)] # NUL THEN next_env(m, p)
  ELSE IF HistWrap THEN 1
  ELSE Max({r \in 1 .. p : r = 1 \/ m[r - 1] = NUL})

Skipspace(s) ==
  LET first == SelectInSeq(s, LAMBDA c : c \notin White)
  IN IF first = 0 THEN <<>> ELSE SubSeq(s, first, Len(s))

Saved(s) ==
  /\ s # <<>> /\ s[1] # "@" /\ ~IsPrefix(<<"*", "@">>, s)
  /\ Len(s) >= HistMin /\ Len(s) + 2 <= HistorySize

\* Duplicates are deleted while the list is walked: the entry that follows one
\* is stepped over.
RECURSIVE Deduped(_, _, _)
Deduped(m, s, p) ==
  IF m[p] = NUL THEN m
  ELSE LET c == IF Str(m, p) = s THEN Cut(m, p) ELSE m IN Deduped(c, s, next_env(c, p))

RoomFor(s) == Len(s) + end_of_env(mem) - 1 + 4 < HistorySize

\* Mutant: the NUL after the last entry is not written.
AppendedOpen(m, s) ==
  LET last == end_of_env(m)
  IN [i \in 1 .. Len(m) |-> IF i \in last .. last + Len(s) - 1 THEN s[i - last + 1]
                            ELSE IF i = last + Len(s) THEN NUL ELSE m[i]]

Appended(m, s) ==
  LET last == end_of_env(m)
  IN [i \in 1 .. Len(m) |-> IF i \in last .. last + Len(s) - 1 THEN s[i - last + 1]
                            ELSE IF i \in {last + Len(s), last + Len(s) + 1} THEN NUL ELSE m[i]]

\* addhist(text) up to its loop, with m for the list: only if the line is not an
\* unmodified entry.
AddHist(text, pointer, m) ==
  LET s == Skipspace(text)
  IN /\ entered' = entered \cup {s}
     /\ glpHptr' = pointer
     /\ IF pointer # NULL \/ ~Saved(s) \/ (HistDups = 1 /\ s \in Entries(m))
        THEN adding' = NULL /\ mem' = m
        ELSE adding' = s /\ mem' = IF HistDups = 2 THEN Deduped(m, s, 1) ELSE m

\* The oldest entries go until there is room for the new one.
AddDrops ==
  /\ adding # NULL /\ ~RoomFor(adding)
  /\ mem' = Cut(mem, 1)
  /\ UNCHANGED <<line, cur, mark, insert, loop, pending, silent, glpHptr, adding, keys, presses, entered>>

AddStores ==
  /\ adding # NULL /\ RoomFor(adding)
  /\ mem' = Appended(mem, adding)
  /\ adding' = NULL /\ glpHptr' = NULL
  /\ UNCHANGED <<line, cur, mark, insert, loop, pending, silent, keys, presses, entered>>

-----------------------------------------------------------------------------
(***************************************************************************)
(* Editing keys.                                                           *)
(***************************************************************************)
ShiftKeys == {"S_LEFT", "S_RIGHT", "S_HOME", "S_END", "CS_LEFT", "CS_RIGHT"}
HistKeys == {"CUR_UP", "CUR_DOWN", "^D"}
MatchKeys == {"F8", "F9", "F10", "F12", "^A"}

\* The keys that leave a marked block marked; a character replaces it.
KeepsMark == {"F1", "INS", "CUR_UP", "CUR_DOWN", "PgUp", "BACKSPACE", "DEL", "^V", "^Y"} \cup Text

Left(n) == SubSeq(line, 1, n)
Right(n) == SubSeq(line, n + 1, Len(line))

NoLoop == [in |-> "keys"]

\* Where a word begins, between characters p and p + 1.
WordAt(p) ==
  /\ line[p + 1] \notin White
  /\ \/ line[p] \in White
     \/ line[p + 1] \notin Punct /\ line[p] \in Punct
WordLeft == Max({0} \cup {p \in 1 .. cur - 1 : WordAt(p)})
WordRight == Min({Len(line)} \cup {p \in cur + 1 .. Len(line) - 1 : WordAt(p)})

Target(k) ==
  CASE k \in {"CUR_LEFT", "S_LEFT"} -> IF cur = 0 THEN 0 ELSE cur - 1
    [] k \in {"CUR_RIGHT", "S_RIGHT"} -> IF cur = Len(line) THEN cur ELSE cur + 1
    [] k \in {"HOME", "S_HOME"} -> 0
    [] k \in {"END", "S_END"} -> Len(line)
    [] k \in {"C_LEFT", "CS_LEFT", "^L"} -> WordLeft
    [] k \in {"C_RIGHT", "CS_RIGHT", "^R"} -> WordRight

Put(l, c) == line' = l /\ cur' = c

Moves(k) ==
  /\ k \in {"CUR_LEFT", "CUR_RIGHT", "HOME", "END", "C_LEFT", "C_RIGHT"}
  /\ Put(line, Target(k))

Erases(k) ==
  \/ k = "^L" /\ Put(Left(Target(k)) \o Right(cur), Target(k))
  \/ k = "^R" /\ Put(Left(cur) \o Right(Target(k)), cur)
  \/ k = "C_HOME" /\ Put(Right(cur), 0)
  \/ k = "C_END" /\ Put(Left(cur), cur)
  \/ k = "ESC" /\ Put(<<>>, 0)

\* CutEgets(): the block may be one of another line than this.
CutLine ==
  IF mark = NULL \/ mark[1] >= Len(line) THEN line
  ELSE Left(mark[1]) \o Right(Min({mark[2], Len(line)}))
CutCur == IF mark = NULL \/ mark[1] >= Len(line) THEN cur ELSE mark[1]

Deletes(k) ==
  /\ k \in {"BACKSPACE", "DEL"}
  /\ IF mark # NULL THEN Put(CutLine, CutCur)
     ELSE LET p == IF k = "DEL" THEN cur ELSE cur - 1
          IN IF p < 0 \/ p = Len(line) THEN Put(line, cur)
             ELSE Put(Left(p) \o Right(p + 1), p)

\* In overstrike mode a block and one more character are replaced.
Types(k) ==
  /\ k \in Text
  /\ LET cut == IF mark # NULL /\ ~insert /\ CutCur < Len(CutLine)
                THEN SubSeq(CutLine, 1, CutCur) \o SubSeq(CutLine, CutCur + 2, Len(CutLine))
                ELSE CutLine
         after == IF insert THEN CutCur + 1 ELSE CutCur + 2
     IN IF Len(cut) >= MaxLine /\ (CutCur = Len(cut) \/ insert) THEN Put(cut, CutCur)
        ELSE Put(SubSeq(cut, 1, CutCur) \o <<k>> \o SubSeq(cut, after, Len(cut)), CutCur + 1)

Pastes(k) ==
  /\ k = "^V"
  /\ \E s \in Lines :
       IF Len(CutLine) + Len(s) < MaxLine
       THEN Put(SubSeq(CutLine, 1, CutCur) \o s \o SubSeq(CutLine, CutCur + 1, Len(CutLine)),
                CutCur + Len(s))
       ELSE Put(CutLine, CutCur)

\* ^F: alias_expand() of each command of the line.
Expands(k) ==
  /\ k = "^F"
  /\ \E s \in Lines \cup {line} : Put(s, Len(s))

\* Help restores the line; ^Y only copies.
Looks(k) == k \in {"F1", "^Y"} /\ Put(line, cur)

Toggles(k) == k = "INS" /\ Put(line, cur)

\* The mark after the key, if it is not one that marks.
Unmarked(k) ==
  IF k \notin KeepsMark THEN NULL
  ELSE IF k \in Text \cup {"BACKSPACE", "DEL", "^V"} THEN NULL ELSE mark

EditKey(k) ==
  /\ Moves(k) \/ Erases(k) \/ Deletes(k) \/ Types(k) \/ Pastes(k) \/ Expands(k) \/ Looks(k) \/ Toggles(k)
  /\ insert' = IF k = "INS" THEN ~insert ELSE insert
  /\ mark' = Unmarked(k)
  /\ loop' = NoLoop
  /\ UNCHANGED <<mem, glpHptr, adding, entered>>

\* ^K saves the line without executing it.
SaveKey(k) ==
  /\ k = "^K"
  /\ Put(<<>>, 0) /\ mark' = NULL /\ loop' = NoLoop
  /\ IF line = <<>> THEN UNCHANGED <<mem, glpHptr, adding, entered>> ELSE AddHist(line, NULL, mem)
  /\ UNCHANGED insert

\* Shift and a cursor key: the block is between the cursor and the anchor.
MarkKey(k) ==
  /\ k \in ShiftKeys
  /\ LET anchor == IF loop.in = "marking" THEN loop.anchor ELSE cur
         p == Target(k)
     IN /\ Put(line, p)
        /\ mark' = <<Min({anchor, p}), Max({anchor, p})>>
        /\ loop' = [in |-> "marking", anchor |-> anchor]
  /\ UNCHANGED <<mem, glpHptr, adding, entered, insert>>

-----------------------------------------------------------------------------
(***************************************************************************)
(* Keys that read the history.                                             *)
(***************************************************************************)
\* The place that a search comes to: at an entry that begins with the pattern, or
\* where it has come round or stays.
RECURSIVE Walk(_, _, _, _, _)
Walk(m, pattern, from, p, down) ==
  LET next == IF down THEN next_hist(m, p) ELSE prev_hist(m, p)
  IN IF IsPrefix(pattern, Str(m, p)) THEN p
     ELSE IF next \in {from, p} THEN NULL ELSE Walk(m, pattern, from, next, down)

Found(m, pattern, from, down) ==
  LET first == IF down THEN next_hist(m, from) ELSE prev_hist(m, from)
  IN IF first = NULL THEN NULL ELSE Walk(m, pattern, first, first, down)

\* F3: the rest of the last command.
LastKey(k) ==
  /\ k = "F3"
  /\ LET p == prev_hist(mem, NULL)
     IN IF mem[1] = NUL \/ Strlen(mem, p) <= cur THEN UNCHANGED <<line, cur, glpHptr>>
        ELSE /\ glpHptr' = p + cur
             /\ Put(Left(cur) \o Str(mem, p + cur), Strlen(mem, p))
  /\ mark' = NULL /\ loop' = NoLoop
  /\ UNCHANGED <<mem, adding, entered, insert>>

\* Up, Down, ^E and ^D look for an entry that begins like the line did when the
\* search was begun.  ^D deletes the one that was found before.
HistKey(k) ==
  /\ k \in HistKeys \cup {"^E"}
  /\ LET begun == loop.in = "hist" /\ k # "^E"
         text == IF k = "^E" THEN <<>> ELSE Skipspace(line)
         idle == ~begun /\ (mem[1] = NUL \/ (k = "^D" /\ text = <<>>))
         pattern == IF begun THEN loop.pattern ELSE text
         from == IF k = "^E" \/ (~begun /\ text # <<>>) THEN NULL ELSE glpHptr
         m == IF begun /\ k = "^D" THEN Cut(mem, glpHptr) ELSE mem
         p == Found(m, pattern, from, k = "CUR_DOWN")
         found == [in |-> "hist", pattern |-> pattern]
     IN /\ mark' = IF begun \/ k \in KeepsMark THEN mark ELSE NULL
        /\ mem' = m
        /\ glpHptr' = IF idle THEN glpHptr ELSE IF p = NULL THEN from ELSE p
        /\ loop' = IF ~idle /\ (p # NULL \/ (begun /\ k # "^D" /\ ~HistWrap)) THEN found ELSE NoLoop
        /\ IF idle THEN Put(line, cur)
           ELSE IF p # NULL THEN Put(Str(m, p), Strlen(m, p))
           ELSE IF k \in {"^D", "^E"} THEN Put(<<>>, 0) ELSE Put(line, cur)
  /\ UNCHANGED <<adding, entered, insert>>

\* The popup of ^PgUp, left with ^Enter: the directory is inserted, whether or
\* not it fits.
DirKey(k) ==
  /\ k = "C_PgUp"
  /\ \/ Put(line, cur)
     \/ \E d \in DirHistory :
          /\ IsPrefix(line, d) \/ \E i \in 1 .. Len(line) : line[i] \in White
          /\ Put(Left(cur) \o d \o Right(cur), cur)
  /\ mark' = NULL /\ loop' = NoLoop
  /\ UNCHANGED <<mem, glpHptr, adding, entered, insert>>

-----------------------------------------------------------------------------
(***************************************************************************)
(* Keys that complete file names.                                          *)
(***************************************************************************)
Hidden(f) == f.attrib \cap {"H", "S"} # {}

\* TabComplete(): what FileCompletion says of the command.
Decides(type, f) ==
  \/ type.ext = f.type /\ ~Hidden(f)
  \/ type.ext \in {"*.*", "dirs", "hidden", "rdonly"} /\ (type.ext = "*.*" \/ type.ext \in f.attrib)
TabComplete(command, f) ==
  LET k == SelectInSeq(Completion, LAMBDA r : r.cmd = command)
  IN IF k = 0 THEN ~Hidden(f)
     ELSE LET types == Completion[k].types
              i == SelectInSeq(types, LAMBDA t : Decides(t, f))
          IN i # 0 /\ IF types[i].ext = f.type THEN ~types[i].not
                      ELSE types[i].ext # "*.*" \/ "dirs" \notin f.attrib

\* The word that the cursor is in or after, as the place and length of a name.
WordStart == Max({0} \cup {p \in 1 .. cur : line[p] \in White})
WordLength(at) ==
  Min({p \in at .. Len(line) : p = Len(line) \/ line[p + 1] \in White}) - at

Command == SubSeq(line, 1, WordLength(0))

\* A first word is completed to directories and programs, except by F10.
Admits(c, k, f) ==
  IF c.at = 0 THEN k = "F10" \/ f.attrib \cap {"dirs", "program"} # {} ELSE TabComplete(Command, f)

\* A completion of the word at the cursor: the name is "len" characters at "at",
\* "off" counts the matches up to the one shown, and "pos" those that the search
\* has been given.
NewSearch ==
  LET len == WordLength(WordStart)
      word == SubSeq(line, WordStart + 1, WordStart + len)
  IN [in |-> "match", at |-> WordStart, len |-> len, arg |-> NULL, off |-> 0, pos |-> 0,
      names |-> SelectSeq(Files, LAMBDA f : IsPrefix(word, f.name)),
      before |-> Left(WordStart), after |-> Right(WordStart + len)]

\* It begins with F9, whichever of these keys was pressed.
Search == IF loop.in = "match" THEN loop ELSE NewSearch

TooLong(c, k, f) == Len(f.name) + Len(line) + (IF k = "F10" THEN 2 ELSE 0 - c.len) >= MaxLine

\* The next match, if there is one and it fits.
Forward(c, k) ==
  LET next == {p \in c.pos + 1 .. Len(c.names) : Admits(c, k, c.names[p])}
      p == Min(next)
  IN IF next = {} THEN [c EXCEPT !.pos = Len(c.names), !.arg = NULL]
     ELSE IF TooLong(c, k, c.names[p]) THEN [c EXCEPT !.pos = p, !.arg = NULL]
     ELSE [c EXCEPT !.pos = p, !.off = @ + 1, !.arg = c.names[p].name]

\* The match before the one shown: the search starts again, and ends at a match
\* that is too long.
Backward(c, k) ==
  LET off == IF k = "^A" THEN c.off + 1 ELSE c.off
      back == IF off <= 1 THEN off ELSE off - 1
      all == SetToSortSeq({p \in 1 .. Len(c.names) : Admits(c, k, c.names[p])}, <)
      stop == SelectInSeq(all, LAMBDA p : TooLong(c, k, c.names[p]))
      n == Max({1, back})
  IN IF stop \in 1 .. n THEN [c EXCEPT !.pos = all[stop], !.off = back, !.arg = NULL]
     ELSE IF n > Len(all) THEN [c EXCEPT !.pos = Len(c.names), !.off = back, !.arg = NULL]
     ELSE [c EXCEPT !.pos = all[n], !.off = back, !.arg = c.names[all[n]].name]

\* Mutant: the length of the new name is taken before the old one is removed.
ShownOrder(c, append) ==
  LET text == IF append /\ c.arg[1] # " " THEN <<" ">> \o c.arg ELSE c.arg
      at == IF append THEN c.at + c.len ELSE c.at
      name == IF append THEN 1 ELSE 0
  IN /\ Put(Left(at) \o text \o Right(at + (IF append THEN 0 ELSE Len(text))), at + Len(text))
     /\ loop' = [c EXCEPT !.at = at + name, !.len = Len(text) - name, !.arg = text]

\* The name is put over the last one, or after it with a space between.
Shown(c, append) ==
  LET text == IF append /\ c.arg[1] # " " THEN <<" ">> \o c.arg ELSE c.arg
      at == IF append THEN c.at + c.len ELSE c.at
      gone == IF append THEN 0 ELSE c.len
      name == IF append THEN 1 ELSE 0
  IN /\ Put(Left(at) \o text \o Right(at + gone), at + Len(text))
     /\ loop' = [c EXCEPT !.at = at + name, !.len = Len(text) - name, !.arg = text]

MatchKey(k) ==
  /\ k \in MatchKeys
  /\ LET key == IF loop.in = "match" THEN k ELSE "F9"
         c == Search
         found == IF key \in {"F8", "^A"} THEN Backward(c, key)
                  ELSE IF key = "F12" THEN c ELSE Forward(c, key)
         repeats == key = "F12" /\ found.arg # NULL /\ Len(line) + Len(found.arg) < MaxLine
     IN IF k = "^A" /\ loop.in # "match" THEN loop' = NoLoop /\ Put(line, cur)
        ELSE IF found.arg # NULL /\ (key = "F12" => repeats) THEN Shown(found, key \in {"F10", "F12"})
        ELSE loop' = found /\ Put(line, cur)
  /\ mark' = NULL
  /\ UNCHANGED <<mem, glpHptr, adding, entered, insert>>

\* F7: a popup of the matches, up to one that is too long.  Pressed after a match,
\* it leaves that search and begins one for the name that is shown.
ListKey(k) ==
  /\ k = "F7"
  /\ LET c == NewSearch
         all == SelectSeq(c.names, LAMBDA f : Admits(c, k, f))
         stop == SelectInSeq(all, LAMBDA f : TooLong(c, k, f))
     IN \/ Put(line, cur)
        \/ \E i \in 1 .. Len(all) :
             /\ stop = 0 \/ i < stop
             /\ Put(Left(c.at) \o all[i].name \o Right(c.at + c.len), c.at + Len(all[i].name))
  /\ mark' = NULL /\ loop' = NoLoop
  /\ UNCHANGED <<mem, glpHptr, adding, entered, insert>>

-----------------------------------------------------------------------------
(***************************************************************************)
(* The end of a line.                                                      *)
(***************************************************************************)
\* What CR does to the pointer into the history: NULL for a new command.
\* An entry that was not modified is stepped into, or taken out to be added
\* again.
Entered(text, pointer) ==
  LET same == pointer # NULL /\ text = Str(mem, pointer)
      keep == ~HistCopy /\ ~silent /\ same
      h == IF keep /\ ~HistMove THEN pointer + 1 ELSE NULL
      m == IF keep /\ HistMove THEN Cut(mem, pointer) ELSE mem
  IN /\ Put(<<>>, 0)
     /\ loop' = NoLoop /\ insert' = TRUE
     /\ IF text # <<>> THEN AddHist(text, h, m)
        ELSE glpHptr' = h /\ mem' = m /\ UNCHANGED <<adding, entered>>

EnterKey(k) ==
  /\ k \in {"CR", "LF"}
  /\ mark' = NULL
  /\ Entered(line, IF k = "LF" THEN NULL ELSE glpHptr)

\* The popup of PgUp, from which Enter executes an entry and ^Enter takes it to
\* the line.
PopupKey(k) ==
  /\ k = "PgUp"
  /\ UNCHANGED mark
  /\ LET shown == {q \in Begins(mem) : IsPrefix(line, Str(mem, q))}
     IN \/ /\ Put(line, cur) /\ loop' = NoLoop
           /\ UNCHANGED <<mem, glpHptr, adding, entered, insert>>
        \/ \E p \in shown : Entered(Str(mem, p), p)
        \/ \E p \in shown :
             /\ Put(Str(mem, p), Strlen(mem, p)) /\ loop' = NoLoop
             /\ glpHptr' = p
             /\ UNCHANGED <<mem, adding, entered, insert>>

\* ^C is a longjmp to the prompt.  glpHptr stays.
BreakKey(k) ==
  /\ k = "^C"
  /\ Put(<<>>, 0) /\ mark' = NULL /\ loop' = NoLoop
  /\ UNCHANGED <<mem, glpHptr, adding, entered, insert>>

\* HISTORY: a line from the command or a file, all lines but the newest of
\* those that are equal, none.
RECURSIVE NoDupes(_, _)
NoDupes(m, p) ==
  IF m[p] = NUL THEN m
  ELSE IF \E q \in Begins(m) : q > p /\ Str(m, q) = Str(m, p) THEN NoDupes(Cut(m, p), p)
  ELSE NoDupes(m, next_env(m, p))

HistoryCmd(k) ==
  /\ k \in {"HISTORY /A", "HISTORY /N", "HISTORY /F"} /\ line = <<>> /\ loop.in = "keys"
  /\ \/ k = "HISTORY /A" /\ \E s \in Lines : AddHist(s, NULL, mem)
     \/ k = "HISTORY /N" /\ mem' = NoDupes(mem, 1) /\ UNCHANGED <<glpHptr, adding, entered>>
     \/ /\ k = "HISTORY /F" /\ mem' = [mem EXCEPT ![1] = NUL, ![2] = NUL]
        /\ UNCHANGED <<glpHptr, adding, entered>>
  /\ UNCHANGED <<line, cur, mark, loop, insert>>

\* Any other key may be an alias for a sequence of keys, "@@" to be executed
\* without being shown.
AliasKey(k) ==
  /\ k \in DOMAIN Aliases
  /\ mark' = NULL /\ loop' = NoLoop
  /\ UNCHANGED <<line, cur, mem, glpHptr, adding, entered, insert>>

Key(k) ==
  EditKey(k) \/ SaveKey(k) \/ MarkKey(k) \/ LastKey(k) \/ HistKey(k) \/ DirKey(k)
    \/ MatchKey(k) \/ ListKey(k) \/ EnterKey(k) \/ PopupKey(k) \/ BreakKey(k) \/ HistoryCmd(k) \/ AliasKey(k)

\* The loops read the keyboard; elsewhere the keys of an alias come first.
Typed == loop.in # "keys" \/ (pending = <<>> /\ ~silent)
NextKey == IF Typed THEN keys ELSE IF pending = <<>> THEN {"CR"} ELSE {pending[1]}

Press ==
  /\ adding = NULL /\ presses < MaxKeys
  /\ presses' = presses + 1
  /\ \E k \in NextKey :
       /\ Key(k)
       /\ LET alias == pending = <<>> /\ k \in DOMAIN Aliases
              ends == k \in {"CR", "LF", "^C"} \/ (k = "PgUp" /\ entered' # entered)
          IN /\ pending' = IF alias THEN Aliases[k].keys ELSE IF ends THEN <<>>
                           ELSE IF Typed THEN pending ELSE Tail(pending)
             /\ silent' = IF alias THEN Aliases[k].silent ELSE silent /\ ~ends
  /\ UNCHANGED keys

Init ==
  /\ line = <<>> /\ cur = 0 /\ mark = NULL /\ insert = TRUE /\ loop = NoLoop
  /\ pending = <<>> /\ silent = FALSE
  /\ mem = [i \in 1 .. HistorySize |-> NUL] /\ glpHptr = NULL /\ adding = NULL
  /\ keys \in KeySets /\ presses = 0
  /\ entered = {}

Next == Press \/ AddDrops \/ AddStores

Spec == Init /\ [][Next]_vars /\ WF_vars(AddDrops \/ AddStores)

-----------------------------------------------------------------------------
(***************************************************************************)
(* Properties.                                                             *)
(***************************************************************************)
\* Whatever keys edit, recall, delete and add: the list ends within its block,
\* and every entry is a line that was once given to it, whole.  addhist() and ^D
\* move memory by pointers that may point into an entry.
HistoryWhole ==
  /\ \E q \in 1 .. HistorySize - 1 : mem[q] = NUL /\ mem[q + 1] = NUL
  /\ Entries(mem) \subseteq entered

\* However F8, F9, F10, F12 and ^A follow each other, the text to the left and to
\* the right of the name stays as it was typed.
CompletionKeepsRest ==
  loop.in = "match" => IsPrefix(loop.before, line) /\ IsSuffix(loop.after, line)

\* "When the list is full, the oldest commands are discarded to make room for new
\* ones." (4DOS.TXT:1166.)  So adding a command comes to an end.
HistoryMakesRoom == adding # NULL ~> adding = NULL
=============================================================================
