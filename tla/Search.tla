------------------------------- MODULE Search -------------------------------
(***************************************************************************)
(* Searching for files: find_file() with its include lists, file lists,    *)
(* attributes, exclusions and ranges, wild_cmp(), and what GetRange() and  *)
(* GetSearchAttributes() make of the switches.                             *)
(*                                                                         *)
(* A step is one call of DOS.  Names and wildcards are sequences of        *)
(* characters, ";" separates the names of a list; dates are days, times    *)
(* minutes.  A directory has entries in an order that does not change.     *)
(***************************************************************************)
EXTENDS Integers, SequencesExt, FiniteSetsExt

CONSTANTS
  Searches,     \* what is searched for
  Folders,      \* [long |-> .., short |-> ..]: the entries, with long names and on FAT
  Today, Now,   \* the date and time
  Minutes,      \* how many minutes a day has
  MaxDate, MaxSize

VARIABLES
  call,         \* a member of Searches: [lfn, arg, letters, flags, exclude, ranges, list]
  arg,          \* the names that are still to be searched for
  fval,         \* "first" or "next"
  brackets,     \* fWildBrackets
  at,           \* the entry DOS found last
  pattern,      \* what DOS searches for
  hdir,         \* is a search of long names open?
  found,        \* what the caller got
  pc            \* "caller", "dos" or "end"

vars == <<call, arg, fval, brackets, at, pattern, hdir, found, pc>>

Folder == IF call.lfn THEN Folders.long ELSE Folders.short
Ch(s, i) == IF i \in DOMAIN s THEN s[i] ELSE ""
IsDot(name) == name \in {<<".">>, <<".", ".">>}

-----------------------------------------------------------------------------
(***************************************************************************)
(* wild_cmp().                                                             *)
(***************************************************************************)
\* From the "[": where its "]" is.
Close(W, w) == LET ends == {i \in w .. Len(W) : W[i] = "]"} IN IF ends = {} THEN Len(W) ELSE Min(ends)
Past(W, w, chars) == CHOOSE i \in w .. Len(W) + 1 : Ch(W, i) \notin chars /\ \A k \in w .. i - 1 : W[k] \in chars

wild_brackets(W, w, c) ==
  LET inverse == Ch(W, w + 1) = "!"
      from == IF inverse THEN w + 2 ELSE w + 1
      to == Close(W, w) - 1
      single == {i \in from .. to : W[i] = c \/ (W[i] = "?" /\ c # "")}
  IN  IF to < from /\ c = "" THEN ~inverse ELSE (single # {}) # inverse

\* After a "*": the characters up to the next one are looked for from each
\* place of the name on.  The last "." finds that of the name at once.
Inner(W, F, ws, lfn, ext) ==
  LET RECURSIVE Go(_, _, _)
      LastDot(w) == \A i \in w + 1 .. Len(W) : W[i] \notin {".", "*"}
      Go(w, f, fs) ==
        IF Ch(F, f) = "" \/ Ch(W, w) = "*" THEN <<w, f>>
        ELSE IF F[f] = "." /\ ext /\ ~lfn THEN <<w, f>>
        ELSE IF F[f] = "." /\ ext /\ Ch(W, w) = "." /\ LastDot(w)
             THEN <<w, Max({i \in f .. Len(F) : F[i] = "."})>>
        ELSE IF Ch(W, w) = "[" /\ F[f] = "[" THEN Go(w + 1, f + 1, fs)
        ELSE IF Ch(W, w) = "[" /\ wild_brackets(W, w, F[f]) THEN Go(Close(W, w) + 1, f + 1, fs)
        ELSE IF Ch(W, w) # "?" /\ Ch(W, w) # F[f] THEN Go(ws, fs + 1, fs + 1)
        ELSE Go(w + 1, f + 1, fs)
  IN  [from \in 1 .. Len(F) + 1 |-> Go(ws, from, from)]

wild_cmp(W, F, ext, br, lfn) ==
  LET dots == IF IsDot(F) /\ Ch(W, 1) # "[" /\ ext THEN Len(F) ELSE 0
      RECURSIVE Main(_, _, _)
      Main(w, f, star) ==
        LET c == Ch(W, w)
            d == Ch(F, f)
        IN  IF c = "*" THEN Main(Past(W, w, {"*", "?"}), f, TRUE)
            ELSE IF c = "?" /\ d = "." /\ ext
                 THEN LET next == Past(W, w, {"*", "?"})
                      IN  Main(IF Ch(W, next) = "." THEN next + 1 ELSE next, f + 1, star)
            ELSE IF c = "?" THEN Main(w + 1, IF d = "" THEN f ELSE f + 1, star)
            ELSE IF br /\ c = "[" /\ ~star
                 THEN IF d = "[" THEN Main(w + 1, f + 1, star)
                      ELSE wild_brackets(W, w, d) /\ Main(Close(W, w) + 1, IF d = "" THEN f ELSE f + 1, star)
            ELSE IF star
                 THEN LET to == Inner(W, F, w, lfn, ext)[IF f > Len(F) THEN Len(F) + 1 ELSE f]
                      IN  Ch(W, to[1]) # "[" /\ Main(to[1], to[2], FALSE)
            ELSE IF c = d /\ c # "" THEN Main(w + 1, f + 1, star)
            ELSE IF c = "." /\ d = "" /\ ext THEN Main(w + 1, f, star)
            ELSE IF c = ";" THEN d = "" ELSE c = d
  IN  Main(1, 1 + dots, FALSE)

-----------------------------------------------------------------------------
(***************************************************************************)
(* What DOS does (external).  On FAT the name and the extension are        *)
(* compared one by one, with long names a name is compared as a whole.     *)
(***************************************************************************)
Stem(s) == LET d == {i \in 1 .. Len(s) : s[i] = "."} IN IF d = {} \/ IsDot(s) THEN s ELSE SubSeq(s, 1, Min(d) - 1)
Ext(s) == LET d == {i \in 1 .. Len(s) : s[i] = "."} IN IF d = {} \/ IsDot(s) THEN <<>> ELSE SubSeq(s, Min(d) + 1, Len(s))

\* "*" stands for any characters, "?" for one, or for none at the end.
Glob(W, F) ==
  LET RECURSIVE G(_, _)
      G(w, f) == IF w > Len(W) THEN f > Len(F)
                 ELSE IF W[w] = "*" THEN G(w + 1, f) \/ (f <= Len(F) /\ G(w, f + 1))
                 ELSE IF W[w] = "?" THEN G(w + 1, IF f <= Len(F) THEN f + 1 ELSE f)
                 ELSE f <= Len(F) /\ W[w] = F[f] /\ G(w + 1, f + 1)
  IN  G(1, 1)

DosMatches(W, F) ==
  IF call.lfn THEN W = <<"*", ".", "*">> \/ Glob(W, F)
  ELSE Glob(Stem(W), Stem(F)) /\ Glob(Ext(W), Ext(F))

\* A hidden or system file or directory is found when it is asked for.
Visible(e) == e.attrib \cap {"H", "S", "D"} \subseteq call.mode
DosFinds(from) == {i \in from + 1 .. Len(Folder) : Visible(Folder[i]) /\ DosMatches(pattern, Folder[i].name)}

-----------------------------------------------------------------------------
(***************************************************************************)
(* The switches.                                                           *)
(***************************************************************************)
\* /A: the attributes that must be there, that must not, and of which one must.
\* "N" stands for no attribute at all.
GetSearchAttributes ==
  LET Read(a, x) ==
        IF x.sign = "+" THEN [a EXCEPT !.or = @ \cup {x.letter}]
        ELSE IF x.letter = "N" THEN a
        ELSE IF x.sign = "-" THEN [a EXCEPT !.exclusive = @ \cup {x.letter}, !.inclusive = @ \ {x.letter}]
        ELSE [a EXCEPT !.inclusive = @ \cup {x.letter}, !.exclusive = @ \ {x.letter}]
  IN  FoldLeft(Read, [inclusive |-> {}, exclusive |-> {}, or |-> {}], call.letters)

\* Days and times are one number, the times of a day below those of the next.
Moment(date, time) == date * Minutes + time

\* One end of a range: a date, or how many days to add or to take off.
DateRange(r, x) ==
  LET start1 == IF x.a.sign = "-" THEN Today - x.a.n ELSE IF x.a.sign = "" THEN x.a.n ELSE Today
      end1 == IF x.a.sign = "+" THEN Today + x.a.n ELSE Today
      given == x.b.sign # "none"
      back == given /\ (x.b.sign = "-" \/ (x.b.sign = "" /\ x.b.n < start1))
      start == IF ~given THEN start1 ELSE IF x.b.sign = "-" THEN start1 - x.b.n ELSE IF back THEN x.b.n ELSE start1
      end == IF ~given THEN end1 ELSE IF back THEN start1 ELSE IF x.b.sign = "+" THEN start1 + x.b.n ELSE x.b.n
      tStart == IF x.b.time # 0 - 1 /\ back THEN x.b.time ELSE IF x.a.time # 0 - 1 THEN x.a.time ELSE 0
      tEnd == IF x.b.time = 0 - 1 THEN Minutes - 1
              ELSE IF ~back THEN x.b.time ELSE IF x.a.time # 0 - 1 THEN x.a.time ELSE Minutes - 1
  IN  [r EXCEPT !.start = Moment(start, tStart), !.end = Moment(end, tEnd)]

\* Mutant: a range of times that begins before midnight ends there.
TimeRangeCut(r, x) ==
  LET start1 == IF x.a.sign = "-" THEN Now - x.a.n ELSE IF x.a.sign = "" THEN x.a.n ELSE Now
      end1 == IF x.a.sign = "+" THEN Now + x.a.n ELSE Now
  IN  [r EXCEPT !.from = IF start1 < 0 THEN 0 ELSE start1, !.to = IF end1 >= Minutes THEN Minutes - 1 ELSE end1]

\* A range of times wraps around midnight once.
TimeRange(r, x) ==
  LET start1 == IF x.a.sign = "-" THEN Now - x.a.n ELSE IF x.a.sign = "" THEN x.a.n ELSE Now
      end1 == IF x.a.sign = "+" THEN Now + x.a.n ELSE Now
      given == x.b.sign # "none"
      back == given /\ (x.b.sign = "-" \/ (x.b.sign = "" /\ x.b.n < start1))
      start == IF ~given THEN start1 ELSE IF x.b.sign = "-" THEN start1 - x.b.n ELSE IF back THEN x.b.n ELSE start1
      end == IF ~given THEN end1 ELSE IF back THEN start1 ELSE IF x.b.sign = "+" THEN start1 + x.b.n ELSE x.b.n
  IN  [r EXCEPT !.from = IF start < 0 THEN start + Minutes ELSE start,
                !.to = IF end >= Minutes THEN end - Minutes ELSE end]

SizeRange(r, x) ==
  LET given == x.b.sign # "none"
      min == IF x.b.sign = "-" THEN x.a.n - x.b.n ELSE x.a.n
      max == IF ~given THEN MaxSize ELSE IF x.b.sign = "-" THEN x.a.n ELSE IF x.b.sign = "+" THEN x.a.n + x.b.n ELSE x.b.n
  IN  [r EXCEPT !.min = IF given THEN Min({min, max}) ELSE min, !.max = Max({min, max})]

AllFiles == [start |-> 0, end |-> Moment(MaxDate + 1, 0), from |-> 0, to |-> Minutes - 1, min |-> 0, max |-> MaxSize]

\* The ranges of the line; each sets its own fields.
GetRange ==
  LET Read(r, x) == IF x.kind = "D" THEN DateRange(r, x) ELSE IF x.kind = "T" THEN TimeRange(r, x) ELSE SizeRange(r, x)
  IN  FoldLeft(Read, AllFiles, call.ranges)

-----------------------------------------------------------------------------
(***************************************************************************)
(* find_file().                                                            *)
(***************************************************************************)
Has(flag) == flag \in call.flags
NamePart == LET ends == {i \in 1 .. Len(arg) : arg[i] = ";"}
            IN  IF ends = {} THEN arg ELSE SubSeq(arg, 1, Min(ends) - 1)
NextList == SubSeq(arg, Len(NamePart) + 2, Len(arg))

\* On FAT what follows a "*" in the name or in the extension is taken away.
RECURSIVE Starred(_)
Starred(s) ==
  LET stars == {i \in 1 .. Len(s) : s[i] = "*"}
  IN  IF stars = {} THEN s
      ELSE LET i == Min(stars)
               ends == {k \in i + 1 .. Len(s) : s[k] \in {".", "["}}
           IN  SubSeq(s, 1, i) \o (IF ends = {} THEN <<>> ELSE Starred(SubSeq(s, Min(ends), Len(s))))
DosName == IF call.lfn THEN NamePart ELSE Starred(NamePart)

\* "[...]" as a "?".
RECURSIVE Unbracketed(_)
Unbracketed(s) ==
  LET opens == {i \in 1 .. Len(s) : s[i] = "["}
  IN  IF opens = {} THEN s
      ELSE SubSeq(s, 1, Min(opens) - 1) \o <<"?">> \o Unbracketed(SubSeq(s, Close(s, Min(opens)) + 1, Len(s)))
Wildcards(s) == \E i \in 1 .. Len(s) : s[i] \in {"*", "?", "["}

Excluded(name) == \E i \in 1 .. Len(call.exclude) : wild_cmp(call.exclude[i], name, TRUE, TRUE, call.lfn)
InRange(e) ==
  LET r == GetRange
      t == e.time
  IN  /\ Moment(e.date, t) >= r.start /\ Moment(e.date, t) <= r.end
      /\ IF r.to < r.from THEN t >= r.from \/ t <= r.to ELSE t >= r.from /\ t <= r.to
      /\ e.size >= r.min /\ e.size <= r.max
ByAttributes(e) ==
  LET a == GetSearchAttributes
  IN  /\ a.or = {} \/ (IF e.attrib = {} THEN "N" \in a.or ELSE e.attrib \cap a.or # {})
      /\ a.inclusive \subseteq e.attrib /\ a.exclusive \cap e.attrib = {}
Wanted(e) ==
  /\ Has("nodots") => ~IsDot(e.name)
  /\ Has("onlydirs") => "D" \in e.attrib /\ ~IsDot(e.name)
  /\ Has("byatts") => ByAttributes(e)
  /\ Has("exclude") => ~Excluded(e.name)
  /\ Has("range") => InRange(e)

Init ==
  /\ call \in Searches /\ arg = call.arg /\ fval = "first" /\ brackets = FALSE /\ at = 0
  /\ pattern = <<>> /\ hdir = FALSE /\ found = <<>> /\ pc = "caller"

\* The caller asks for the first file and then for the next one.
Calls ==
  /\ pc = "caller" /\ call.list = <<>>
  /\ pattern' = (IF fval = "first" THEN DosName ELSE pattern) /\ pc' = "dos"
  /\ brackets' = (fval = "next" /\ \E i \in 1 .. Len(NamePart) : NamePart[i] = "[")
  /\ UNCHANGED <<call, arg, fval, at, hdir, found>>

\* @file: its lines, up to an empty one.
ReadsLine ==
  /\ pc = "caller" /\ call.list # <<>>
  /\ IF at = Len(call.list) \/ call.list[at + 1] = <<>> THEN pc' = "end" /\ UNCHANGED <<found, at>>
     ELSE found' = Append(found, call.list[at + 1]) /\ at' = at + 1 /\ UNCHANGED pc
  /\ UNCHANGED <<call, arg, fval, brackets, pattern, hdir>>

\* What DOS finds now; a name without wildcards is not searched for again.
Finds == IF fval = "next" /\ ~Wildcards(DosName) THEN {} ELSE DosFinds(IF fval = "first" THEN 0 ELSE at)

Literal(name) == wild_cmp(arg, name, TRUE, brackets, call.lfn) \/ arg = name
Found ==
  /\ pc = "dos" /\ Finds # {}
  /\ at' = Min(Finds) /\ fval' = "next" /\ hdir' = call.lfn
  /\ LET e == Folder[at']
     IN  IF Wanted(e) /\ Literal(e.name)
         THEN found' = Append(found, e.name) /\ pc' = IF Has("close") THEN "end" ELSE "caller"
         ELSE UNCHANGED <<found, pc>>
  /\ UNCHANGED <<call, arg, brackets, pattern>>

\* Not found: brackets are tried as a wildcard.
Retries ==
  /\ pc = "dos" /\ Finds = {} /\ fval = "first" /\ \E i \in 1 .. Len(pattern) : pattern[i] = "["
  /\ pattern' = Unbracketed(pattern) /\ brackets' = TRUE
  /\ UNCHANGED <<call, arg, fval, at, hdir, found, pc>>

Exhausted == pc = "dos" /\ Finds = {} /\ ~(fval = "first" /\ \E i \in 1 .. Len(pattern) : pattern[i] = "[")

\* The next name of the list takes the place of the one before.
NextName ==
  /\ Exhausted /\ NextList # <<>>
  /\ hdir' = FALSE /\ arg' = NextList /\ fval' = "first" /\ pc' = "list"
  /\ UNCHANGED <<call, brackets, at, pattern, found>>

TakesName ==
  /\ pc = "list" /\ pattern' = DosName /\ pc' = "dos"
  /\ UNCHANGED <<call, arg, fval, brackets, at, hdir, found>>

NoMore ==
  /\ Exhausted /\ NextList = <<>> /\ hdir' = FALSE /\ pc' = "end"
  /\ UNCHANGED <<call, arg, fval, brackets, at, pattern, found>>

Next == Calls \/ ReadsLine \/ Found \/ Retries \/ NextName \/ TakesName \/ NoMore

Spec == Init /\ [][Next]_vars

-----------------------------------------------------------------------------
(***************************************************************************)
(* Properties.                                                             *)
(***************************************************************************)
ListNames == LET RECURSIVE Split(_)
             Split(s) == LET ends == {i \in 1 .. Len(s) : s[i] = ";"}
                         IN  IF ends = {} THEN <<s>>
                             ELSE <<SubSeq(s, 1, Min(ends) - 1)>> \o Split(SubSeq(s, Min(ends) + 1, Len(s)))
         IN  SelectSeq(Split(call.arg), LAMBDA n : n # <<>>)

\* A character of a set, or one that is not in it.
RECURSIVE Expand(_)
Expand(W) ==
  LET opens == {i \in 1 .. Len(W) : W[i] = "["}
  IN  IF opens = {} THEN {W}
      ELSE LET i == Min(opens)
               k == Close(W, i)
               not == Ch(W, i + 1) = "!"
               chars == {W[j] : j \in (IF not THEN i + 2 ELSE i + 1) .. k - 1}
           IN  {SubSeq(W, 1, i - 1) \o <<c>> \o x : c \in (IF not THEN {"a", "b", "c"} \ chars ELSE chars),
                                                   x \in Expand(SubSeq(W, k + 1, Len(W)))}
Matches(W, F) ==
  \E X \in Expand(W) :
    (IsDot(F) => \A i \in 1 .. Len(X) : X[i] \in {"*", "?", "."}) /\
    IF call.lfn THEN X = <<"*", ".", "*">> \/ Glob(X, F)
    ELSE Glob(Stem(X), Stem(F)) /\ Glob(Ext(X), Ext(F))

\* From one end of a range to the other, whichever comes first; midnight is
\* in between when they are given as distances from now.
Between(x, today, v) ==
  LET first == IF x.a.sign = "" THEN x.a.n ELSE IF x.a.sign = "-" THEN today - x.a.n ELSE today
      second == IF x.b.sign = "none" THEN (IF x.a.sign = "+" THEN today + x.a.n ELSE today)
                ELSE IF x.b.sign = "" THEN x.b.n ELSE IF x.b.sign = "-" THEN first - x.b.n ELSE first + x.b.n
  IN  Min({first, second}) <= v /\ v <= Max({first, second})
Asked(x, e) ==
  CASE x.kind = "T" -> \E k \in {0 - 1, 0, 1} : Between(x, Now, e.time + k * Minutes)
    [] x.kind = "S" -> IF x.b.sign = "none" THEN e.size >= x.a.n ELSE Between(x, 0, e.size)
    [] OTHER -> /\ Between(x, Today, e.date)
                /\ x.a.time # 0 - 1 => Between([x EXCEPT !.a.n = Moment(x.a.n, x.a.time),
                                                         !.b.n = Moment(x.b.n, x.b.time)], 0, Moment(e.date, e.time))
Right(e, W) ==
  /\ Matches(W, e.name) /\ Visible(e)
  /\ Has("nodots") => ~IsDot(e.name)
  /\ Has("onlydirs") => "D" \in e.attrib /\ ~IsDot(e.name)
  /\ Has("byatts") => ByAttributes(e)
  /\ Has("exclude") => \A i \in 1 .. Len(call.exclude) : ~Matches(call.exclude[i], e.name)
  /\ Has("range") => \A i \in 1 .. Len(call.ranges) : Asked(call.ranges[i], e)

\* A search gives, for each name of its list, all the files that the name,
\* the attributes and the ranges stand for, each one once and no others; then
\* no search is left open.
FindsAll ==
  pc = "end" /\ call.list = <<>> /\ ~Has("close") =>
    /\ found = FlattenSeq([n \in 1 .. Len(ListNames) |->
                 LET right == SelectSeq(Folder, LAMBDA e : Right(e, ListNames[n]))
                 IN  [i \in 1 .. Len(right) |-> right[i].name]])
    /\ ~hdir
=============================================================================
