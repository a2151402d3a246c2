---------------------------- MODULE Descriptions ----------------------------
(***************************************************************************)
(* The descriptions of files: each directory has a DESCRIPT.ION of lines   *)
(* "name description", which the file commands keep in step with the       *)
(* files.  process_descriptions() reads it in blocks, drops lines while it *)
(* writes the others back over the same file, and appends a new line.      *)
(*                                                                         *)
(* A file is a sequence of bytes; a byte is its line [name, text] and its  *)
(* place k in it, the last of which is the line end.  Files end with one.  *)
(* Extended descriptions (after ^D) and comments of other programs are     *)
(* left out.                                                               *)
(***************************************************************************)
EXTENDS Integers, Sequences, FiniteSets, SequencesExt

CONSTANTS
  Directories,     \* [lfn, files, lines]: the directories at the start
  Long,            \* names that only a file system with long names has
  Texts,           \* descriptions, "" for none
  LineSize(_),     \* bytes of a line
  Block,           \* bytes read at once, 4096
  MaxCommands      \* bound

VARIABLES
  dirs,            \* the start
  files,           \* files[d]: the names in directory d
  ion,             \* ion[d]: DESCRIPT.ION
  wanted,          \* wanted[d][n]: the description that the user gave
  held,            \* ^C is disabled
  commands

vars == <<dirs, files, ion, wanted, held, commands>>

D == DOMAIN dirs
Name == UNION {Range(dirs[d].files) : d \in D} \cup UNION {{l.name : l \in Range(dirs[d].lines)} : d \in D} \cup {"new"}
Cells(line) == [k \in 1 .. LineSize(line) |-> [line |-> line, k |-> k]]
Bytes(lines) == FlattenSeq([i \in DOMAIN lines |-> Cells(lines[i])])
NoText == ""

\* The lines that begin in a sequence of bytes; line i begins at Starts(b)[i].
IsEnd(c) == c.k = LineSize(c.line)
LinesIn(b) == [i \in DOMAIN SelectSeq(b, IsEnd) |-> SelectSeq(b, IsEnd)[i].line]

\* The first line of a name: what process_descriptions() reads, and what DIR shows.
Read(b, n) == LET ls == SelectSeq(LinesIn(b), LAMBDA l : l.name = n)
              IN IF ls = <<>> THEN NoText ELSE ls[1].text
GetDescriptions(d) == [n \in files[d] |-> Read(ion[d], n)]

FirstOf(ls, n) == LET s == SelectSeq(ls, LAMBDA l : l.name = n) IN IF s = <<>> THEN NoText ELSE s[1].text
Init ==
  /\ dirs \in Directories
  /\ files = [d \in DOMAIN dirs |-> Range(dirs[d].files)]
  /\ ion = [d \in DOMAIN dirs |-> Bytes(dirs[d].lines)]
  /\ wanted = [d \in DOMAIN dirs |-> [n \in Name |-> FirstOf(dirs[d].lines, n)]]
  /\ held = FALSE /\ commands = 0

-----------------------------------------------------------------------------
(***************************************************************************)
(* Writing.                                                                *)
(***************************************************************************)
\* Without long names, lines of long names stay; with REMOVE, those of missing files go.
Drops(d, n, remove, l) ==
  /\ dirs[d].lfn \/ l.name \notin Long
  /\ l.name = n \/ (remove /\ l.name \notin files[d])

Overwrite(f, at, b) ==
  SubSeq(f, 1, at) \o b \o SubSeq(f, at + Len(b) + 1, Len(f))

\* The bytes of a block from the offset r up to its last line end.
BlockAt(f, r) ==
  LET b == SubSeq(f, r + 1, IF r + Block < Len(f) THEN r + Block ELSE Len(f))
      ends == {i \in DOMAIN b : IsEnd(b[i])}
  IN SubSeq(b, 1, IF ends = {} THEN 1 ELSE CHOOSE i \in ends : \A j \in ends : j <= i)
LastBlock(f, r) == Len(f) - r < Block

\* Mutant: the position for writing stays at the start while nothing is dropped.
BlockDoneUnmoved(s, b, kept, dropped) ==
  IF s.truncate \/ dropped
  THEN [f |-> Overwrite(s.f, s.write, kept), read |-> s.read + Len(b), write |-> s.write + Len(kept), truncate |-> TRUE]
  ELSE [s EXCEPT !.read = @ + Len(b)]

\* Blocks are not written before the first line is dropped; from then on they move up.
BlockDone(s, b, kept, dropped) ==
  IF s.truncate \/ dropped
  THEN [f |-> Overwrite(s.f, s.write, kept), read |-> s.read + Len(b), write |-> s.write + Len(kept), truncate |-> TRUE]
  ELSE [s EXCEPT !.read = @ + Len(b), !.write = s.read + Len(b)]

Collapse(d, n, remove) ==
  LET Kept(c) == ~Drops(d, n, remove, c.line)
      pass[i \in 0 .. Len(ion[d]) + 1] ==
        IF i = 0 THEN [f |-> ion[d], read |-> 0, write |-> 0, truncate |-> FALSE, more |-> TRUE]
        ELSE LET s == pass[i - 1]
             IN IF ~s.more \/ s.read >= Len(s.f) THEN [s EXCEPT !.more = FALSE]
                ELSE LET b == BlockAt(s.f, s.read)
                         kept == SelectSeq(b, Kept)
                         t == BlockDone([f |-> s.f, read |-> s.read, write |-> s.write, truncate |-> s.truncate],
                                        b, kept, kept # b)
                     IN [f |-> t.f, read |-> t.read, write |-> t.write, truncate |-> t.truncate,
                         more |-> ~LastBlock(s.f, s.read)]
  IN pass[Len(ion[d]) + 1]

\* The file with the lines dropped and the new line, if it has a text, at the end.
Written(d, n, text, describes, remove) ==
  LET s == Collapse(d, n, remove)
      cut == IF s.truncate THEN SubSeq(s.f, 1, s.write) ELSE s.f
  IN IF describes /\ text # NoText THEN Overwrite(cut, s.write, Cells([name |-> n, text |-> text])) ELSE cut

\* process_descriptions() with a source: what it reads is written for the target, if there is any.
Copied(from, n, to, m) ==
  LET text == Read(ion[from], n)
  IN IF text = NoText THEN ion[to] ELSE Written(to, m, text, TRUE, FALSE)
Removed(d) == Written(d, "", NoText, FALSE, TRUE)

\* Without memory for the block to write nothing is done; without that for the block to read,
\* ^C stays disabled too.
NothingWritten == UNCHANGED <<ion, wanted, held>>
AllocFails == held' \in {held, TRUE} /\ UNCHANGED <<ion, wanted>>

-----------------------------------------------------------------------------
(***************************************************************************)
(* The commands.                                                           *)
(***************************************************************************)
Command == commands < MaxCommands /\ commands' = commands + 1 /\ UNCHANGED dirs
Nameable(d) == {n \in Name : dirs[d].lfn \/ n \notin Long}
Forget(w, d, gone) == [w EXCEPT ![d] = [n \in Name |-> IF n \in gone THEN NoText ELSE @[n]]]

Describe_Cmd ==
  /\ Command
  /\ \E d \in D, text \in Texts : \E n \in files[d] :
       \/ /\ ion' = [ion EXCEPT ![d] = Written(d, n, text, TRUE, TRUE)]
          /\ wanted' = Forget([wanted EXCEPT ![d][n] = text], d, Nameable(d) \ files[d])
          /\ UNCHANGED held
       \/ AllocFails
  /\ UNCHANGED files

\* A target keeps the description it has when the source has none.
Copy_Cmd ==
  /\ Command
  /\ \E d \in D, e \in D : \E n \in files[d], m \in Nameable(e) :
       /\ <<d, n>> # <<e, m>>
       /\ files' = [files EXCEPT ![e] = @ \cup {m}]
       /\ \/ /\ ion' = [ion EXCEPT ![e] = Copied(d, n, e, m)]
             /\ wanted' = IF wanted[d][n] = NoText THEN wanted ELSE [wanted EXCEPT ![e][m] = wanted[d][n]]
             /\ UNCHANGED held
          \/ AllocFails

\* MOVE and REN copy the description of each file; the end of the command is DropMissing.
Move_Cmd ==
  /\ Command
  /\ \E d \in D, e \in D : \E n \in files[d], m \in Nameable(e) :
       /\ <<d, n>> # <<e, m>>
       /\ files' = [files EXCEPT ![d] = @ \ {n}, ![e] = (IF d = e THEN @ \ {n} ELSE @) \cup {m}]
       /\ LET copied == [ion EXCEPT ![e] = Copied(d, n, e, m)]
              given == IF wanted[d][n] = NoText THEN wanted ELSE [wanted EXCEPT ![e][m] = wanted[d][n]]
          IN \/ ion' = copied /\ wanted' = given /\ UNCHANGED held
             \/ AllocFails

\* The end of DEL, MOVE, REN and RD: lines of files that are not there are dropped.
DropMissing ==
  /\ commands < MaxCommands + 1
  /\ \E d \in D :
       \/ /\ ion' = [ion EXCEPT ![d] = Removed(d)]
          /\ wanted' = Forget(wanted, d, Nameable(d) \ files[d])
          /\ UNCHANGED held
       \/ NothingWritten
  /\ commands' = commands + 1
  /\ UNCHANGED <<dirs, files>>

\* DEL, or another program, removes a file.
Delete ==
  /\ Command
  /\ \E d \in D : \E n \in files[d] : files' = [files EXCEPT ![d] = @ \ {n}]
  /\ UNCHANGED <<ion, wanted, held>>

Next == Describe_Cmd \/ Copy_Cmd \/ Move_Cmd \/ DropMissing \/ Delete

-----------------------------------------------------------------------------
\* Every file has the description that was given to it, wherever it was copied or moved, though
\* lines before and after it were dropped, and the file of descriptions consists of whole lines.
DescriptionsKept ==
  \A d \in D :
    /\ \A n \in files[d] : Read(ion[d], n) = wanted[d][n] /\ GetDescriptions(d)[n] = wanted[d][n]
    /\ ion[d] = Bytes(LinesIn(ion[d]))
=============================================================================
