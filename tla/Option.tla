------------------------------- MODULE Option -------------------------------
(***************************************************************************)
(* The configuration: the .INI file, the INIFILE structure of the shell    *)
(* and OPTION.EXE, which the OPTION command gives a copy of it.  OPTION    *)
(* changes its copy by dialogs or by "//" directives; Use gives it back,   *)
(* and keeps a bit for each item changed; Save also rewrites the .INI file *)
(* in place, one directive after the other; and Cancel forgets it.         *)
(*                                                                         *)
(* A value is a sequence: <<n>> for a number, a choice or a color, the     *)
(* characters of a string, <<>> for none.  Strings share one memory and    *)
(* items have their offsets.  An item is [name, kind, nomod, control,      *)
(* page, default, valid, context]; two items may have one name: the first  *)
(* is for startup, the second for the dialogs.                             *)
(***************************************************************************)
EXTENDS Integers, Sequences, FiniteSets, SequencesExt

CONSTANTS
  gaINIItemList,     \* the items
  Inis,              \* the .INI files that a behaviour may begin with
  Included(_),       \* the lines of an included file, <<>> if there is none
  IsDir(_),          \* a path is a directory
  Directives,        \* command lines: sequences of item lines
  Texts,             \* strings that are typed
  NewName,           \* the name of an .INI file that is made
  StrMax, KeyMax,    \* room for strings and for keys; the keys stay far below it
  MaxRuns, MaxChanges  \* bounds

VARIABLES
  shell,             \* the INIFILE of 4DOS
  copy,              \* that of OPTION, while it runs
  flags,             \* fINIUpdate: the controls whose items have changed
  window,            \* "shell", a page, or what OPTION does
  argline,           \* the directives it was started with
  ini,               \* the lines of the .INI file
  wanted,            \* the values that the user chose, in the session
  chosen,            \* and in the OPTION that runs
  due,               \* what was changed in dialogs and used since the last Save
  saved,             \* the values that the file should give
  foreign,           \* what is not OPTION's in the file
  runs, changes

vars == <<shell, copy, flags, window, argline, ini, wanted, chosen, due, saved, foreign, runs, changes>>

Items == DOMAIN gaINIItemList
Kind(i) == gaINIItemList[i].kind
IsString(i) == Kind(i) \in {"str", "path"}
Control(i) == gaINIItemList[i].control
Controlled == {i \in Items : Control(i) # 0}
OnPage(p) == {i \in Controlled : gaINIItemList[i].page = p}
Pages == {gaINIItemList[i].page : i \in Controlled}
\* toklist() finds the first item of a name.
Toklist(n) == {i \in Items : gaINIItemList[i].name = n /\ \A j \in 1 .. i - 1 : gaINIItemList[j].name # n}
PrimaryININame == CHOOSE i \in Items : gaINIItemList[i].name = "PrimaryINIFile"
INI_EMPTYSTR == -1
MAX_INI_NEST == 3
FIRST_CATEGORY == "1"
INI_SECTION_NAME == "4DOS"

-----------------------------------------------------------------------------
(***************************************************************************)
(* Strings and keys.                                                       *)
(***************************************************************************)
StringAt(mem, at) ==
  LET end == CHOOSE e \in at + 1 .. Len(mem) : mem[e] = 0 /\ \A k \in at + 1 .. e - 1 : mem[k] # 0
  IN SubSeq(mem, at + 1, end - 1)
String(d, i) == IF d.val[i] = INI_EMPTYSTR THEN <<>> ELSE StringAt(d.mem, d.val[i])

\* Mutant: the strings behind the one that goes are not moved.
MovedNone(d, at, size) == d.val

Moved(d, at, size) ==
  [j \in Items |-> IF IsString(j) /\ d.val[j] # INI_EMPTYSTR /\ d.val[j] > at THEN d.val[j] - size ELSE d.val[j]]

\* The old string of the item goes, those behind it move up, and the new one is put at the end.
ini_string(d, i, s) ==
  LET at == d.val[i]
      size == IF at = INI_EMPTYSTR THEN 0 ELSE Len(String(d, i)) + 1
      kept == IF at = INI_EMPTYSTR THEN d
              ELSE [d EXCEPT !.mem = SubSeq(@, 1, at) \o SubSeq(@, at + size + 1, Len(@)), !.val = Moved(d, at, size)]
  IN IF Len(d.mem) + Len(s) + 1 - size > StrMax THEN [rc |-> 1, data |-> d]
     ELSE IF s = <<>> THEN [rc |-> 0, data |-> [kept EXCEPT !.val[i] = INI_EMPTYSTR]]
     ELSE [rc |-> 0, data |-> [kept EXCEPT !.mem = @ \o s \o <<0>>, !.val[i] = Len(kept.mem)]]

\* The keys stand before what they stand for: one more key moves the latter up.
KeyUsed(d) == Len(d.keys) \div 2
Mapped(d, key, context) ==
  {k \in 1 .. KeyUsed(d) : d.keys[k] = key /\ gaINIItemList[d.keys[KeyUsed(d) + k]].context = context}
MapKey(d, i, key) ==
  LET u == KeyUsed(d)
      old == Mapped(d, key, gaINIItemList[i].context)
  IN IF old # {} THEN [rc |-> 0, data |-> [d EXCEPT !.keys[u + (CHOOSE k \in old : TRUE)] = i]]
     ELSE IF u >= KeyMax THEN [rc |-> 1, data |-> d]
     ELSE [rc |-> 0, data |-> [d EXCEPT !.keys = SubSeq(@, 1, u) \o <<key>> \o SubSeq(@, u + 1, 2 * u) \o <<i>>]]

\* What a key stands for: an item, or 0.
cvtkey(d, key, context) ==
  LET found == Mapped(d, key, context)
  IN IF found = {} THEN 0 ELSE d.keys[KeyUsed(d) + (CHOOSE k \in found : \A l \in found : k <= l)]

-----------------------------------------------------------------------------
(***************************************************************************)
(* Reading.                                                                *)
(***************************************************************************)
IniClear ==
  [val |-> [i \in Items |-> IF IsString(i) THEN INI_EMPTYSTR ELSE gaINIItemList[i].default],
   mem |-> <<>>, keys |-> <<>>, bits |-> {}]

\* A number, a character, a choice or a color.
Store(d, i, v) ==
  IF Len(v) = 1 /\ v[1] \in gaINIItemList[i].valid THEN [rc |-> 0, data |-> [d EXCEPT !.val[i] = v[1]]]
  ELSE [rc |-> 1, data |-> d]

StorePath(d, i, v) == IF IsDir(v) THEN ini_string(d, i, v) ELSE [rc |-> 1, data |-> d]

\* A directive with a wrong name or value changes nothing; an Include returns -1.
IniLine(d, line, live) ==
  LET found == Toklist(line.name)
      i == CHOOSE j \in found : TRUE
  IN IF found = {} THEN [rc |-> 1, data |-> d]
     ELSE IF live /\ gaINIItemList[i].nomod THEN [rc |-> 1, data |-> d]
     ELSE IF Kind(i) = "keymap" THEN [rc |-> 0, data |-> [d EXCEPT !.keys = <<>>]]
     ELSE IF line.value = <<>> THEN [rc |-> 0, data |-> d]
     ELSE CASE Kind(i) = "include" -> [rc |-> -1, data |-> d]
            [] Kind(i) = "key" -> MapKey(d, i, line.value[1])
            [] Kind(i) = "str" -> ini_string(d, i, line.value)
            [] Kind(i) = "path" -> StorePath(d, i, line.value)
            [] OTHER -> Store(d, i, line.value)

\* A file begins outside of any section; lines of sections that are ignored are skipped.
RECURSIVE IniFProc(_, _, _, _)
IniFProc(lines, d, ignored, nest) ==
  LET One(acc, l) ==
        IF l.k = "section" THEN [acc EXCEPT !.skips = l.name \notin {INI_SECTION_NAME, "Primary", "Secondary"} \ ignored]
        ELSE IF l.k # "item" \/ acc.skips THEN acc
        ELSE LET r == IniLine(acc.data, l, FALSE)
             IN [acc EXCEPT !.data = IF r.rc = -1 THEN IniFProc(Included(l.value), r.data, ignored, nest + 1) ELSE r.data]
  IN IF nest > MAX_INI_NEST THEN d ELSE FoldLeft(One, [data |-> d, skips |-> FALSE], lines).data
IniParse(lines, ignored) == IniFProc(lines, IniClear, ignored, 1)

-----------------------------------------------------------------------------
(***************************************************************************)
(* Writing.                                                                *)
(***************************************************************************)
Blank == [k |-> "blank", name |-> "", value |-> <<>>, z |-> FALSE]
SectionLine(n) == [Blank EXCEPT !.k = "section", !.name = n]
ItemLine(n, v) == [Blank EXCEPT !.k = "item", !.name = n, !.value = v]
IsBlank(l) == l.k = "blank"

\* The lines before j up to the last that is not blank: what is written goes behind them.
LastText(f, j) == LET t == {k \in 1 .. j - 1 : ~IsBlank(f[k])}
                  IN IF t = {} THEN 0 ELSE CHOOSE k \in t : \A l \in t : l <= k

\* Mutant: what is written behind a line that ends in ^Z becomes part of that line.
AppendedGlued(f, p, new) ==
  IF p > 0 /\ f[p].z /\ new # <<>> THEN SubSeq(f, 1, p - 1) \o <<[f[p] EXCEPT !.k = "junk", !.z = FALSE]>> \o Tail(new)
  ELSE SubSeq(f, 1, p) \o new

\* A line that ends in ^Z gets a line end when something is written behind it.
Appended(f, p, new) ==
  SubSeq(f, 1, p - 1) \o (IF p = 0 THEN <<>> ELSE <<[f[p] EXCEPT !.z = FALSE]>>) \o new

\* The rest of the file behind line j, which ends in ^Z if that line does.
RestAfter(f, j) == IF f[j].z THEN <<[Blank EXCEPT !.z = TRUE]>> ELSE SubSeq(f, j + 1, Len(f))

RestAtEnd(f) == IF f[Len(f)].z THEN <<[Blank EXCEPT !.z = TRUE]>> ELSE <<>>

WriteINIFileStr(f, n, v) ==
  LET sections == {k \in DOMAIN f : f[k].k = "section" /\ f[k].name = INI_SECTION_NAME}
      s == CHOOSE k \in sections : \A l \in sections : k <= l
      new == IF v = <<>> THEN <<>> ELSE <<ItemLine(n, v)>>
      stops == {k \in s + 1 .. Len(f) : f[k].k = "section" \/ (f[k].k = "item" /\ f[k].name = n)}
      j == CHOOSE k \in stops : \A l \in stops : k <= l
  IN IF sections = {} THEN Appended(f, LastText(f, Len(f) + 1), <<Blank, SectionLine(INI_SECTION_NAME)>> \o new)
     ELSE IF stops = {} THEN Appended(f, LastText(f, Len(f) + 1), new) \o RestAtEnd(f)
     ELSE IF f[j].k = "item" THEN SubSeq(f, 1, LastText(f, j)) \o new \o RestAfter(f, j)
     ELSE SubSeq(f, 1, LastText(f, j)) \o new \o <<Blank, [f[j] EXCEPT !.z = FALSE]>> \o RestAfter(f, j)

\* What is written for an item; nothing deletes the directive.
Written(d, i) ==
  CASE IsString(i) -> String(d, i)
    [] Kind(i) = "color" /\ d.val[i] = 0 -> <<>>
    [] OTHER -> <<d.val[i]>>

-----------------------------------------------------------------------------
(***************************************************************************)
(* The OPTION command and OPTION.EXE.                                      *)
(***************************************************************************)
\* The keys that a user sees: what each stands for in each context.
Keys == UNION {{l.value[1] : l \in {x \in Range(f) : x.k = "item" /\ \E i \in Toklist(x.name) : Kind(i) = "key"}} :
                  f \in Inis \cup Directives}
Contexts == {gaINIItemList[i].context : i \in {j \in Items : Kind(j) = "key"}}
Shown(d) == [values |-> [i \in Items |-> IF Kind(i) \in {"key", "keymap", "include"} THEN <<>> ELSE Written(d, i)],
             keys |-> [k \in Keys |-> [c \in Contexts |-> cvtkey(d, k, c)]]]

\* What the file gives each item when the sections of one shell are left aside.
FileValue(f, i) == LET d == IniParse(f, {"Primary", "Secondary"})
                   IN Written(d, CHOOSE j \in Toklist(gaINIItemList[i].name) : TRUE)
SectionOf(f, j) == LET s == {k \in 1 .. j : f[k].k = "section"}
                   IN IF s = {} THEN INI_SECTION_NAME ELSE f[CHOOSE k \in s : \A l \in s : l <= k].name
Foreign(f) == LET Keep(j) == f[j].k = "comment" \/ (~IsBlank(f[j]) /\ SectionOf(f, j) # INI_SECTION_NAME)
                  js == SelectSeq([j \in DOMAIN f |-> j], Keep)
              IN [k \in DOMAIN js |-> [f[js[k]] EXCEPT !.z = FALSE]]

Init ==
  /\ ini \in Inis
  /\ shell = IniParse(ini, {"Secondary"})
  /\ copy = IniClear /\ flags = {} /\ window = "shell" /\ argline = <<>>
  /\ wanted = Shown(shell) /\ chosen = Shown(shell)
  /\ due = {} /\ saved = [i \in Controlled |-> FileValue(ini, i)] /\ foreign = Foreign(ini)
  /\ runs = 0 /\ changes = 0

\* Without a name for the .INI file one is made; OPTION may not be found or find no memory.
Named(d) == IF d.val[PrimaryININame] # INI_EMPTYSTR THEN {d}
            ELSE {d, [d EXCEPT !.mem = @ \o NewName \o <<0>>, !.val[PrimaryININame] = Len(d.mem)]}

\* OPTION takes a copy; the items with a bit are taken for changed.
Copied(d, line) ==
  /\ copy' = d /\ flags' = {i \in Controlled : i \in d.bits} /\ argline' = line
  /\ window' = IF line = <<>> THEN FIRST_CATEGORY ELSE "directives"

Option_Cmd ==
  /\ window = "shell" /\ runs < MaxRuns
  /\ \E d \in Named(shell), line \in Directives \cup {<<>>} :
       /\ shell' = d
       /\ wanted' = [wanted EXCEPT !.values[PrimaryININame] = String(d, PrimaryININame)]
       /\ chosen' = wanted'
       /\ \/ Copied(d, line)
          \/ line = <<>> /\ UNCHANGED <<copy, flags, argline, window>>
  /\ runs' = runs + 1
  /\ UNCHANGED <<ini, due, saved, foreign, changes>>

\* The end of OPTION: the shell takes its copy, or after an error and Cancel stays as it is.
Exit == window' = "shell" /\ flags' = {} /\ copy' = IniClear /\ argline' = <<>> /\ UNCHANGED <<foreign, runs, changes>>
Discards == Exit /\ chosen' = wanted /\ UNCHANGED <<shell, wanted, due>>
CopiesBack(d) == Exit /\ shell' = d /\ wanted' = chosen /\ UNCHANGED chosen

\* What the user asks for by one directive.
Asked(c, l) ==
  LET i == CHOOSE j \in Toklist(l.name) : TRUE
  IN CASE Kind(i) = "keymap" -> [c EXCEPT !.keys = [k \in Keys |-> [x \in Contexts |-> 0]]]
       [] Kind(i) = "key" -> [c EXCEPT !.keys[l.value[1]][gaINIItemList[i].context] = i]
       [] OTHER -> [c EXCEPT !.values[i] = IF l.value = <<>> THEN @ ELSE l.value]

\* One wrong directive, or an Include, and none of them counts.
_ParseCommandLine ==
  /\ window = "directives"
  /\ LET One(acc, l) == IF acc.rc # 0 THEN acc ELSE IniLine(acc.data, l, TRUE)
         all == FoldLeft(One, [rc |-> 0, data |-> copy], argline)
     IN IF all.rc # 0 THEN Discards
        ELSE /\ Exit /\ shell' = all.data
             /\ chosen' = FoldLeft(Asked, chosen, argline) /\ wanted' = chosen'
             /\ UNCHANGED due
  /\ UNCHANGED <<ini, saved>>

\* What a user may leave in a control: a string, or a value of those offered; no
\* colors is the default of them.
Offered(i) == CASE Kind(i) = "str" -> Texts
                [] Kind(i) = "path" -> {t \in Texts : IsDir(t)}
                [] Kind(i) = "color" -> {<<v>> : v \in gaINIItemList[i].valid} \cup {<<>>}
                [] OTHER -> {<<v>> : v \in gaINIItemList[i].valid}
Taken(d, i, v) == IF IsString(i) THEN ini_string(d, i, v)
                  ELSE [rc |-> 0, data |-> [d EXCEPT !.val[i] = IF v = <<>> THEN 0 ELSE v[1]]]

\* stricmp(): a string that differs from the old one only in the case of its
\* letters is not a change.
Lowered(s) == [k \in DOMAIN s |-> IF s[k] \in 65 .. 90 THEN s[k] + 32 ELSE s[k]]
Changes(d, i, v) == IF IsString(i) THEN Lowered(v) # Lowered(Written(d, i)) ELSE v # Written(d, i)

\* The data of a page is taken when it is left, not after Cancel or an error.  A
\* string for which there is no room is dropped, and written as if it had changed.
_GetControlData(i, v) ==
  LET r == Taken(copy, i, v)
  IN /\ Changes(copy, i, v)
     /\ changes < MaxChanges /\ changes' = changes + 1
     /\ copy' = r.data /\ flags' = flags \cup {i}
     /\ chosen' = IF r.rc = 0 THEN [chosen EXCEPT !.values[i] = v] ELSE chosen

_ExecuteDialogs ==
  /\ window \in Pages
  /\ \/ /\ window' \in Pages \cup {"use", "save"}
        /\ \/ \E i \in OnPage(window) : \E v \in Offered(i) : _GetControlData(i, v)
           \/ UNCHANGED <<copy, flags, chosen, changes>>
        /\ UNCHANGED <<shell, wanted, due, argline, foreign, runs>>
     \/ Discards
  /\ UNCHANGED <<ini, saved>>

\* What this OPTION changes and what earlier ones changed and did not save.
Due == due \cup {i \in Controlled : chosen.values[i] # wanted.values[i]}

Use ==
  /\ window = "use"
  /\ CopiesBack([copy EXCEPT !.bits = @ \cup flags])
  /\ due' = Due
  /\ UNCHANGED <<ini, saved>>

\* One directive after the other, in the order of the controls.
_WriteControlData ==
  /\ window = "save" /\ flags # {} /\ copy.val[PrimaryININame] # INI_EMPTYSTR
  /\ LET i == CHOOSE j \in flags : \A k \in flags : Control(j) <= Control(k)
     IN /\ ini' = WriteINIFileStr(ini, gaINIItemList[i].name, Written(copy, i))
        /\ flags' = flags \ {i}
        /\ saved' = [saved EXCEPT ![i] = chosen.values[i]]
  /\ UNCHANGED <<shell, copy, window, argline, wanted, chosen, due, foreign, runs, changes>>

\* The file cannot be opened, or there is no memory for the rest of it.
FatalError == window = "save" /\ flags # {} /\ Discards /\ UNCHANGED <<ini, saved>>

\* Without a name nothing is written, and what this OPTION changed is not kept for later.
SaveEnds ==
  /\ window = "save"
  /\ IF copy.val[PrimaryININame] = INI_EMPTYSTR
     THEN CopiesBack(copy) /\ UNCHANGED <<due, saved>>
     ELSE /\ flags = {} /\ CopiesBack([copy EXCEPT !.bits = {}])
          /\ due' = {} /\ saved' = [i \in Controlled |-> IF i \in Due THEN chosen.values[i] ELSE saved[i]]
  /\ UNCHANGED ini

Next == Option_Cmd \/ _ParseCommandLine \/ _ExecuteDialogs \/ Use \/ _WriteControlData \/ FatalError \/ SaveEnds

Spec == Init /\ [][Next]_vars

-----------------------------------------------------------------------------
\* Whatever is changed by dialogs and directives, used, saved, cancelled or
\* stopped by an error: the shell has for every item what the user chose last,
\* but for a string typed with other capitals only (OPTION.C:897-899), and for
\* every key what it was given last; the file gives each item what was
\* last saved for it, a change that was only used being saved by a later Save;
\* and comments and other sections are left as they were (OPTION.C:316-411,
\* INIIO.C:95-269, ISTRING.C:41-52).
OptionsFollow ==
  /\ window = "shell" => Shown(shell) = wanted
  /\ \A i \in Controlled : FileValue(ini, i) = saved[i]
  /\ Foreign(ini) = foreign
=============================================================================
