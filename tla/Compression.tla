---------------------------- MODULE Compression -----------------------------
(***************************************************************************)
(* Compressed batch files.  BATCOMP reads a batch file twice: it counts    *)
(* the characters, then writes each of them as one to three nibbles; last  *)
(* it writes over the header of its output.  LoadBTM() reads a batch file  *)
(* into memory, what BATCOMP wrote or a plain one.  BATCOMP may stop at    *)
(* any write (the disk is full, its user gives up), and the file it leaves *)
(* may be run all the same.                                                *)
(*                                                                         *)
(* A character is its code, below Base * Base, two nibbles of Base values. *)
(* "::" and "rem " are one character each.  A byte of a file is [b, pads]: *)
(* its value and the pads of the stream cipher it was XORed with; the      *)
(* registers of the cipher are 0, and no pad, until a key is set.          *)
(***************************************************************************)
EXTENDS Integers, Sequences, FiniteSets, SequencesExt, Bitwise

CONSTANTS
  Tasks,             \* [source, kill, encrypt, overwrite, old]: old is the file of the name of the output
  Base,              \* values of a nibble
  DataMax,           \* DATAMAX: the bytes written at once
  InputMax, FileMax  \* the sizes that BATCOMP and LoadBTM() refuse

VARIABLES task, phase, pos, pending, freq, header, half, buffer, total, out, memory, btm

vars == <<task, phase, pos, pending, freq, header, half, buffer, total, out, memory, btm>>

Blank == 1    CR == 2    LF == 3    EoF == 4    Colons == 5    Rem == 6    Greater == 7
Codes == 0 .. Base * Base - 1
TableSize == 2 * Base - 2
OneNibble == Base - 2

Byte(b) == [b |-> b, pads |-> {}]
Signature == Byte(Base * Base)    \* four bytes that no text has by chance
KeyKey == Byte(-1)
UserKey == Byte(-2)
None == Byte(-3)
Unknown == Byte(0)

\* A pad is a key and how many bytes it was used for before; a second time undoes the first.
EncryptDecrypt(key, from, bytes) ==
  [i \in DOMAIN bytes |->
     IF key = None THEN bytes[i]
     ELSE LET pad == {<<key, from + i>>}
          IN [bytes[i] EXCEPT !.pads = (@ \ pad) \cup (pad \ @)]]
Crypt(key, from, byte) == EncryptDecrypt(key, from, <<byte>>)[1]

NoHeader == [encrypted |-> "unset", count |-> 0, table |-> [i \in 1 .. TableSize |-> Byte(0)]]
NoBTM == [kind |-> "none"]
Plain(text) == [compressed |-> FALSE, text |-> text]

Init ==
  /\ task \in Tasks
  /\ phase = "start" /\ pos = 0 /\ pending = <<>> /\ freq = [c \in Codes |-> 0]
  /\ header = NoHeader /\ half = <<>> /\ buffer = <<>> /\ total = [bytes |-> 0, input |-> 0]
  /\ out = task.old /\ memory = {} /\ btm = NoBTM

\* BATCOMP looks for its output, creates it empty, and begins the first pass.
Start ==
  /\ phase = "start"
  /\ IF task.old # NoBTM /\ ~task.overwrite
     THEN phase' = "end" /\ UNCHANGED out
     ELSE phase' = "count" /\ out' = Plain(<<>>)
  /\ UNCHANGED <<task, pos, pending, freq, header, half, buffer, total, memory, btm>>

-----------------------------------------------------------------------------
(***************************************************************************)
(* Lines.                                                                  *)
(***************************************************************************)
\* getline() takes the characters up to LF, and the LF; one more LF goes with it.
EndOfLine(s, p) == CHOOSE e \in p + 1 .. Len(s) + 1 :
  /\ e = Len(s) + 1 \/ s[e] \in {LF, EoF}
  /\ \A i \in p + 1 .. e - 1 : s[i] \notin {LF, EoF}
getline(s, p) ==
  LET e == EndOfLine(s, p)
      ends == e <= Len(s) /\ s[e] = LF
  IN [line |-> SubSeq(s, p + 1, e - 1),
      next |-> IF ~ends THEN e - 1 ELSE IF e < Len(s) /\ s[e + 1] = LF THEN e + 1 ELSE e]

strip_trailing(l) ==
  SubSeq(l, 1, CHOOSE n \in 0 .. Len(l) : /\ n = 0 \/ l[n] # Blank
                                          /\ \A i \in n + 1 .. Len(l) : l[i] = Blank)

Comment(l) == \/ l = <<>> \/ l[1] = Colons
              \/ l[1] = Rem /\ ~(Len(l) > 1 /\ l[2] = Greater)

\* The line at pos that goes on to the scan or the translation, and the position after it.
Taken == LET g == getline(task.source, pos)
             l == strip_trailing(g.line)
         IN [line |-> IF task.kill /\ Comment(l) THEN <<>> ELSE l, next |-> g.next, more |-> g.next > pos]

-----------------------------------------------------------------------------
(***************************************************************************)
(* The first pass and the table.                                           *)
(***************************************************************************)
Occurrences(c, l) == Len(SelectSeq(l, LAMBDA d : d = c))
Count ==
  /\ phase = "count" /\ Taken.more
  /\ freq' = [c \in Codes |-> freq[c] + Occurrences(c, Taken.line)]
  /\ pos' = Taken.next
  /\ UNCHANGED <<task, phase, pending, header, half, buffer, total, out, memory, btm>>

\* The first of the most common characters is character 0 when none is left.
Highest(f) == CHOOSE c \in Codes : \A d \in Codes : f[d] < f[c] \/ (f[d] = f[c] /\ c <= d)
Common ==
  LET pick[n \in 0 .. TableSize] ==
        IF n = 0 THEN [f |-> freq, t |-> <<>>]
        ELSE LET r == pick[n - 1]
                 c == Highest(r.f)
             IN [f |-> [r.f EXCEPT ![c] = 0], t |-> Append(r.t, Byte(c))]
  IN pick[TableSize].t

\* The second pass begins with a header that is not finished.
BeginPass2 ==
  /\ phase = "count" /\ ~Taken.more
  /\ header' = [header EXCEPT !.table = Common]
  /\ out' = [compressed |-> TRUE, header |-> [header EXCEPT !.table =
                IF task.encrypt THEN EncryptDecrypt(UserKey, 0, Common) ELSE Common],
             body |-> IF task.encrypt THEN <<Unknown>> ELSE <<>>]
  /\ phase' = "translate" /\ pos' = 0
  /\ UNCHANGED <<task, pending, freq, half, buffer, total, memory, btm>>

-----------------------------------------------------------------------------
(***************************************************************************)
(* The second pass.                                                        *)
(***************************************************************************)
NextLine ==
  /\ phase = "translate" /\ pending = <<>> /\ Taken.more
  /\ pending' = Taken.line /\ pos' = Taken.next
  /\ total' = [bytes |-> total.bytes + Len(Taken.line), input |-> total.input + Len(Taken.line) + 1]
  /\ phase' = IF total'.input >= InputMax THEN "end" ELSE phase
  /\ UNCHANGED <<task, freq, header, half, buffer, out, memory, btm>>

Nibbles(c) ==
  LET at == IF \E i \in 1 .. TableSize : header.table[i].b = c
            THEN CHOOSE i \in 1 .. TableSize :
                   header.table[i].b = c /\ \A j \in 1 .. i - 1 : header.table[j].b # c
            ELSE 0
  IN IF at = 0 THEN <<0, c % Base, c \div Base>>
     ELSE IF at > OneNibble THEN <<1, at - OneNibble - 1>>
     ELSE <<at + 1>>

\* The nibbles of s, as whole bytes and what is left.
Pack(s) == LET n == Len(s) \div 2
           IN [bytes |-> [i \in 1 .. n |-> Byte(s[2 * i - 1] * Base + s[2 * i])],
               half |-> SubSeq(s, 2 * n + 1, Len(s))]
Key == IF task.encrypt THEN UserKey ELSE None
Written(o) == Len(o.body) - (IF task.encrypt THEN 1 ELSE 0)
data_out(o, bytes) == [o EXCEPT !.body = @ \o EncryptDecrypt(Key, TableSize + Written(o), bytes)]

\* A buffer of DataMax bytes is written as soon as it is full.
nibble_out(s) ==
  LET p == Pack(half \o s)
      b == buffer \o p.bytes
  IN /\ half' = p.half
     /\ IF Len(b) >= DataMax
        THEN out' = data_out(out, SubSeq(b, 1, DataMax)) /\ buffer' = SubSeq(b, DataMax + 1, Len(b))
        ELSE buffer' = b /\ UNCHANGED out

Translate ==
  /\ phase = "translate" /\ pending # <<>>
  /\ nibble_out(Nibbles(pending[1]))
  /\ pending' = Tail(pending)
  /\ UNCHANGED <<task, phase, pos, freq, header, total, memory, btm>>

ExtraNibble ==
  /\ phase = "translate" /\ pending = <<>> /\ ~Taken.more /\ half # <<>>
  /\ nibble_out(<<0>>)
  /\ UNCHANGED <<task, phase, pos, pending, freq, header, total, memory, btm>>

LastBuffer ==
  /\ phase = "translate" /\ pending = <<>> /\ ~Taken.more /\ half = <<>>
  /\ out' = data_out(data_out(out, buffer), IF task.encrypt THEN <<Signature>> ELSE <<>>)
  /\ buffer' = <<>> /\ phase' = "header"
  /\ UNCHANGED <<task, pos, pending, freq, header, half, total, memory, btm>>

\* From the end, each entry is XORed with the next one; from the start, this is undone.
Hidden(t) == [i \in DOMAIN t |->
  LET tail[j \in i .. Len(t)] == IF j = Len(t) THEN t[j].b ELSE t[j].b ^^ tail[j + 1]
  IN Byte(tail[i])]
Shown(t) == [i \in DOMAIN t |-> IF i = Len(t) THEN t[i] ELSE Byte(t[i].b ^^ t[i + 1].b)]

FinalHeader ==
  /\ phase = "header"
  /\ out' = [out EXCEPT !.header = [
       encrypted |-> IF task.encrypt THEN "yes" ELSE "no", count |-> total.bytes,
       table |-> IF task.encrypt THEN EncryptDecrypt(UserKey, 0, header.table) ELSE Hidden(header.table)]]
  /\ phase' = IF task.encrypt THEN "key" ELSE "end"
  /\ UNCHANGED <<task, pos, pending, freq, header, half, buffer, total, memory, btm>>

WriteKey ==
  /\ phase = "key"
  /\ out' = [out EXCEPT !.body[1] = Crypt(KeyKey, 0, UserKey)]
  /\ phase' = "end"
  /\ UNCHANGED <<task, pos, pending, freq, header, half, buffer, total, memory, btm>>

\* A write fails, or BATCOMP is stopped: what it has written stays.
Fail ==
  /\ phase \in {"count", "translate", "header", "key"}
  /\ phase' = "end"
  /\ UNCHANGED <<task, pos, pending, freq, header, half, buffer, total, out, memory, btm>>

-----------------------------------------------------------------------------
(***************************************************************************)
(* LoadBTM().                                                              *)
(***************************************************************************)
GetChar(s, table) ==
  CASE s[1] = 0 -> [c |-> s[2] + Base * s[3], used |-> 3]
    [] s[1] = 1 -> [c |-> table[s[2] + OneNibble + 1].b, used |-> 2]
    [] OTHER -> [c |-> table[s[1] - 1].b, used |-> 1]

\* Only the characters that the header counts, not what follows them.
BatchDecompile(bytes, table, uCount) ==
  LET s == FlattenSeq([i \in DOMAIN bytes |-> <<bytes[i].b \div Base, bytes[i].b % Base>>])
      read[n \in 0 .. uCount] ==
        IF n = 0 THEN [text |-> <<>>, left |-> s]
        ELSE LET r == read[n - 1]
                 g == GetChar(r.left, table)
             IN [text |-> Append(r.text, g.c), left |-> SubSeq(r.left, g.used + 1, Len(r.left))]
  IN read[uCount].text

Size(o) == IF o.compressed THEN TableSize + Len(o.body) ELSE Len(o.text)
Loaded(t) == [kind |-> "loaded", text |-> t]
Failed(e) == [kind |-> "error", error |-> e]
\* Mutant: a header that is not finished counts as one of a file that is not encrypted.
FlaggedWhenKeyed(h) == h.encrypted = "yes"

FlaggedEncrypted(h) == h.encrypted \in {"yes", "unset"}

\* The text between the key and the signature is what the key of the file deciphers.
Deciphered(o) ==
  LET n == Len(o.body)
      key == Crypt(KeyKey, 0, o.body[1])
      text == EncryptDecrypt(key, TableSize, SubSeq(o.body, 2, n))
  IN IF n < 2 \/ text[n - 1] # Signature THEN Failed("invalid")
     ELSE Loaded(BatchDecompile(SubSeq(text, 1, n - 2), EncryptDecrypt(key, 0, o.header.table), o.header.count))

\* An allocation may fail; an invalid file leaves both buffers allocated.
LoadBTM ==
  /\ phase = "end" /\ btm = NoBTM /\ out # NoBTM
  /\ \E first \in BOOLEAN, second \in BOOLEAN :
       IF Size(out) >= FileMax \/ ~first
       THEN btm' = Failed("memory") /\ UNCHANGED memory
       ELSE IF ~out.compressed
       THEN btm' = Loaded(out.text) /\ memory' = {"file"}
       ELSE IF ~second
       THEN btm' = Failed("memory") /\ UNCHANGED memory
       ELSE IF FlaggedEncrypted(out.header)
       THEN /\ btm' = Deciphered(out)
            /\ memory' = IF btm'.kind = "error" THEN {"file", "text"} ELSE {"text"}
       ELSE /\ btm' = Loaded(BatchDecompile(out.body, Shown(out.header.table), out.header.count))
            /\ memory' = {"text"}
  /\ UNCHANGED <<task, phase, pos, pending, freq, header, half, buffer, total, out>>

\* LOADBTM OFF goes back to the file, unless it is compressed.
LoadbtmOff ==
  /\ phase = "end" /\ btm.kind = "loaded" /\ ~out.compressed
  /\ btm' = NoBTM /\ memory' = {}
  /\ UNCHANGED <<task, phase, pos, pending, freq, header, half, buffer, total, out>>

Next == \/ Start \/ Count \/ BeginPass2 \/ NextLine \/ Translate \/ ExtraNibble \/ LastBuffer
        \/ FinalHeader \/ WriteKey \/ Fail \/ LoadBTM \/ LoadbtmOff

-----------------------------------------------------------------------------
(***************************************************************************)
(* What the text of a compressed file is: the characters of the source     *)
(* before ^Z that are not in a comment, not LF and not the blanks that end *)
(* a line.                                                                 *)
(***************************************************************************)
Source == LET s == task.source
              n == Cardinality({i \in DOMAIN s : \A j \in 1 .. i : s[j] # EoF})
          IN SubSeq(s, 1, n)
LineOf(p) == {q \in DOMAIN Source : \A i \in DOMAIN Source :
                /\ p <= i /\ i < q => Source[i] # LF
                /\ q <= i /\ i < p => Source[i] # LF}
First(ps) == CHOOSE p \in ps : \A q \in ps : p <= q
Dropped(p) == LET ps == {q \in LineOf(p) : Source[q] # LF}
                  f == First(ps)
              IN task.kill /\ (Source[f] = Colons \/ (Source[f] = Rem /\ ~(f + 1 \in ps /\ Source[f + 1] = Greater)))
Kept(p) == /\ Source[p] # LF
           /\ \E q \in LineOf(p) : q >= p /\ Source[q] \notin {Blank, LF}
           /\ ~Dropped(p)
Wanted == LET kept[n \in 0 .. Len(Source)] ==
                IF n = 0 THEN <<>> ELSE kept[n - 1] \o (IF Kept(n) THEN <<Source[n]>> ELSE <<>>)
          IN kept[Len(Source)]

\* What LoadBTM() runs is the whole text that was compressed, or the file that BATCOMP did
\* not touch; the output of a BATCOMP that stopped half-way is refused, and only a file that
\* is refused leaves memory allocated that nobody owns.
WholeOrRefused ==
  /\ btm.kind = "loaded" =>
       /\ btm.text = IF out = task.old THEN task.old.text ELSE IF out.compressed THEN Wanted ELSE <<>>
       /\ memory = {IF out.compressed THEN "text" ELSE "file"}
  /\ memory = {"file", "text"} => btm = Failed("invalid")
=============================================================================
