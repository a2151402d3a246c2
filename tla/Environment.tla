---------------------------- MODULE Environment -----------------------------
(***************************************************************************)
(* The lists of variables, aliases and functions (ENV.C) and SETLOCAL and  *)
(* ENDLOCAL (BATCH.C), which save and restore them.                        *)
(*                                                                         *)
(* A list is the sequence of its entries <<name, value>>.  All that is     *)
(* kept of a value is its length, so that values of different lengths      *)
(* differ; "n=value" and its NUL take Bytes.  Lists end with another NUL.  *)
(***************************************************************************)
EXTENDS Integers, Sequences, FiniteSets, SequencesExt

CONSTANTS
  Sessions,     \* sets of commands that are typed together
  Start,        \* what the lists are at first
  Names,        \* names of variables, aliases and functions, as they are typed
  Room,         \* their sizes in memory: those of "env" and "alias" are
  EnvSize, AliasSize,   \* gpIniptr->EnvSize, AliasSize
  Places, Chars,        \* current directories; the settings of SETDOS
  Nest,         \* SETLOCAL_NEST
  Finds(_, _),  \* does a name find an entry of that name in the alias list?
  NULL

VARIABLES
  lists,        \* the environment, the master environment, aliases, functions
  place,        \* [dir, chars]: the current directory; ParamChr, CmdSep...
  slots,        \* what SETLOCAL saved: [env, alias, place], NULL if not allocated
  offset,       \* nSetLocalOffset
  session,      \* the commands that are typed
  job,          \* the command that is running, or NULL
  nReturn,      \* what the last command returned
  critical      \* task switches are off

vars == <<lists, place, slots, offset, session, job, nReturn, critical>>

Lists == {"env", "master", "alias", "func"}
Entry == Names \X Nat

\* What is typed.  SetFromFile() goes on until a line fails; SET, ALIAS and
\* FUNCTION are one line.  UNSET with wildcards deletes name by name.
Command ==
  [op : {"set"}, list : Lists, lines : Seq(Entry)] \cup
  [op : {"eset"}, list : Lists, name : Names, value : Nat] \cup
  [op : {"clear"}, list : Lists] \cup
  [op : {"delete"}, list : Lists, name : Names] \cup
  [op : {"unset"}, list : Lists, names : SUBSET Names, at : {1}] \cup
  [op : {"move", "setlocal"}] \cup
  [op : {"endlocal"}, exports : SUBSET Names, exit : BOOLEAN]

\* Where the shell is, and what SETLOCAL keeps of that: gcdir() or _strdup() may fail.
Here == [dir : Places, chars : Chars]
Kept == [dir : Places \cup {NULL}, chars : Chars]

-----------------------------------------------------------------------------
(***************************************************************************)
(* The lists.                                                              *)
(***************************************************************************)
Bytes(e) == 1 + 1 + e[2] + 1
\* end_of_env(): where the last NUL is.
Used(l) == FoldSeq(LAMBDA e, n : n + Bytes(e), 0, l)

\* get_list(): the first entry that the name finds, or 0; in the alias list
\* "wher*eis" is found by its abbreviations.
Matches(l, n, m) == IF l = "alias" THEN Finds(n, m) ELSE n = m
Found(l, s, n) == SelectInSeq(s, LAMBDA e : Matches(l, n, e[1]))

\* Where add_list() thinks that the list ends.
ListSize(l) == IF l = "alias" THEN AliasSize ELSE EnvSize
Limit(l) == ListSize(l) - 4

Growth(s, i, v) == IF i = 0 THEN 1 + 1 + v + 1 ELSE v - s[i][2]

NoSpace(l, s, n, v) == v > 0 /\ Used(s) + Growth(s, Found(l, s, n), v) >= Limit(l)

\* Mutant: an alias is found by its full name only.
AddedPlain(l, s, n, v) ==
  LET i == SelectInSeq(s, LAMBDA e : e[1] = n)
  IN  IF v = 0 THEN (IF i = 0 THEN s ELSE RemoveAt(s, i))
      ELSE IF i = 0 THEN Append(s, <<n, v>>) ELSE [s EXCEPT ![i][2] = v]

\* add_list() when there is space: change, append, or delete (no value).
Added(l, s, n, v) ==
  LET i == Found(l, s, n)
  IN  IF v = 0 THEN (IF i = 0 THEN s ELSE RemoveAt(s, i))
      ELSE IF i = 0 THEN Append(s, <<n, v>>) ELSE [s EXCEPT ![i][2] = v]

Idle == job = NULL
Running(op) == job # NULL /\ job.op = op
Return(r) == job' = NULL /\ nReturn' = r
Saving == <<slots, offset, session>>

\* One add_list() on a list: done, or the error message.  With ON ERROR the
\* message does not come back: the critical section is not left.
AddOK(l, n, v) ==
  /\ ~NoSpace(l, lists[l], n, v)
  /\ lists' = [lists EXCEPT ![l] = Added(l, @, n, v)] /\ UNCHANGED critical
AddRaises(l, n, v) ==
  /\ NoSpace(l, lists[l], n, v)
  /\ critical' = (critical \/ l # "env") /\ Return("raised") /\ UNCHANGED lists
AddFails(l, n, v) == NoSpace(l, lists[l], n, v) /\ UNCHANGED <<lists, critical>>

\* At first every list fits, and each of its entries is found by its name.
EnvironmentAssumption ==
  /\ Nest \in Nat /\ EnvSize \in Nat /\ AliasSize \in Nat
  /\ Room \in [Lists -> Nat] /\ Room["alias"] >= AliasSize
  /\ \A n \in Names : Finds(n, n)
  /\ \A s \in Sessions : s \subseteq Command
  /\ Start \in [Lists -> Seq(Entry)]
  /\ \A l \in Lists :
       /\ Used(Start[l]) + 1 <= ListSize(l)
       /\ \A i \in DOMAIN Start[l] : Start[l][i][2] > 0 /\ Found(l, Start[l], Start[l][i][1]) = i

Init ==
  /\ lists = Start /\ place \in Here
  /\ slots = [i \in 0 .. Nest - 1 |-> [env |-> NULL, alias |-> NULL, place |-> NULL, whole |-> TRUE]]
  /\ offset = 0 /\ session \in Sessions /\ job = NULL /\ nReturn = "0" /\ critical = FALSE

Begin ==
  /\ Idle
  /\ job' \in session /\ nReturn' = "0"
  /\ UNCHANGED <<lists, place, Saving, critical>>

-----------------------------------------------------------------------------
(***************************************************************************)
(* SET, ALIAS, FUNCTION, ESET, UNSET, UNALIAS, UNFUNCTION.                 *)
(***************************************************************************)
SetLine ==
  /\ Running("set") /\ job.lines # <<>>
  /\ LET n == Head(job.lines)[1]  v == Head(job.lines)[2]
     IN  \/ /\ AddOK(job.list, n, v)
            /\ job' = [job EXCEPT !.lines = Tail(@)] /\ UNCHANGED nReturn
         \/ AddFails(job.list, n, v) /\ Return("error")
         \/ AddRaises(job.list, n, v)
  /\ UNCHANGED <<place, Saving>>

SetDone ==
  /\ Running("set") /\ job.lines = <<>>
  /\ Return("0") /\ UNCHANGED <<lists, place, Saving, critical>>

\* ESET takes the name from the entry it found, not the one that was typed.
Eset ==
  /\ Running("eset")
  /\ LET l == job.list  i == Found(l, lists[l], job.name)
     IN  IF i = 0 THEN Return("error") /\ UNCHANGED <<lists, critical>>
         ELSE LET n == lists[l][i][1]
              IN  \/ AddOK(l, n, job.value) /\ Return("0")
                  \/ AddFails(l, n, job.value) /\ Return("error")
                  \/ AddRaises(l, n, job.value)
  /\ UNCHANGED <<place, Saving>>

\* "UNSET *" empties the list, whatever is in it.
UnsetAll ==
  /\ Running("clear")
  /\ lists' = [lists EXCEPT ![job.list] = <<>>]
  /\ Return("0") /\ UNCHANGED <<place, Saving, critical>>

UnsetName ==
  /\ Running("delete")
  /\ IF Found(job.list, lists[job.list], job.name) = 0
       THEN Return("error") /\ UNCHANGED <<lists, critical>>
       ELSE AddOK(job.list, job.name, 0) /\ Return("0")
  /\ UNCHANGED <<place, Saving>>

\* Mutant: never on to the next.
UnsetWildStays ==
  /\ Running("unset") /\ job.at <= Len(lists[job.list])
  /\ LET n == lists[job.list][job.at][1]
     IN  IF n \in job.names THEN AddOK(job.list, n, 0) ELSE UNCHANGED <<lists, critical>>
  /\ UNCHANGED <<place, Saving, nReturn, job>>

\* Wildcards: the entry under the pointer is deleted, when it matches, and the
\* next one has moved there; otherwise the pointer goes on.
UnsetWild ==
  /\ Running("unset") /\ job.at <= Len(lists[job.list])
  /\ LET n == lists[job.list][job.at][1]
     IN  IF n \in job.names THEN AddOK(job.list, n, 0) /\ UNCHANGED job
         ELSE job' = [job EXCEPT !.at = @ + 1] /\ UNCHANGED <<lists, critical>>
  /\ UNCHANGED <<place, Saving, nReturn>>

UnsetDone ==
  /\ Running("unset") /\ job.at > Len(lists[job.list])
  /\ Return("0") /\ UNCHANGED <<lists, place, Saving, critical>>

\* CD, SETDOS.
Move ==
  /\ Running("move")
  /\ place' \in Here
  /\ Return("0") /\ UNCHANGED <<lists, Saving, critical>>

-----------------------------------------------------------------------------
(***************************************************************************)
(* SETLOCAL.                                                               *)
(***************************************************************************)
\* What AllocMem() may give for a list: a block for all of it, none, or a
\* smaller block, for which the copy of the environment is cut.
Copies(l) == {NULL, lists[l]} \cup IF l = "env" THEN {SubSeq(lists[l], 1, i) : i \in {1} \cap DOMAIN lists[l]} ELSE {}

Refused == IF offset < Nest THEN slots[offset].env # NULL ELSE TRUE

SetlocalRefused ==
  /\ Running("setlocal") /\ Refused
  /\ Return("error") /\ UNCHANGED <<lists, place, Saving, critical>>

\* When the second allocation fails the first is kept, in a slot that does not
\* count: SETLOCAL will find it in use.
Setlocal ==
  /\ Running("setlocal") /\ ~Refused
  /\ \E e \in Copies("env"), a \in Copies("alias"), d \in {place.dir, NULL} :
       /\ e = NULL => a = NULL
       /\ slots' = [slots EXCEPT ![offset] =
            [env |-> e, alias |-> IF e = NULL THEN @.alias ELSE a,
             place |-> [place EXCEPT !.dir = d], whole |-> e = lists["env"]]]
       /\ IF NULL \in {e, a} THEN offset' = offset /\ Return("error")
          ELSE offset' = offset + 1 /\ Return("0")
  /\ UNCHANGED <<lists, place, session, critical>>

-----------------------------------------------------------------------------
(***************************************************************************)
(* ENDLOCAL, and the ENDLOCALs that are left at the end of a batch file.   *)
(***************************************************************************)
Slot == slots[offset]
Freed(slot) == [slot EXCEPT !.env = NULL, !.alias = NULL]

EndlocalNothing ==
  /\ Running("endlocal") /\ offset = 0
  /\ IF job.exit THEN Return("0") ELSE Return("error")
  /\ UNCHANGED <<lists, place, Saving, critical>>

\* The entries of a list.
AsSet(s) == {s[i] : i \in DOMAIN s}

\* left: what is still to be restored; was: the exported variables, as they were
\* (not in the code); short: a variable did not fit.
EndlocalBegins ==
  /\ Running("endlocal") /\ offset > 0
  /\ offset' = offset - 1
  /\ LET slot == slots[offset - 1]
     IN  IF NULL \in {slot.env, slot.alias} THEN Return("error")
         ELSE /\ job' = [op |-> "remove", exports |-> job.exports, exit |-> job.exit, left |-> slot.env,
                         was |-> {e \in AsSet(lists["env"]) : e[1] \in job.exports}, short |-> FALSE]
              /\ UNCHANGED nReturn
  /\ UNCHANGED <<lists, place, slots, session, critical>>

\* Mutant: exported variables are taken away as well.
FirstLeft == IF lists["env"] = <<>> THEN 0 ELSE 1

\* The first variable that is not exported, or 0.
Unexported == SelectInSeq(lists["env"], LAMBDA e : e[1] \notin job.exports)

\* The environment loses its variables by name, but for the exported ones.
EndlocalRemoves ==
  /\ Running("remove")
  /\ IF Unexported = 0 THEN job' = [job EXCEPT !.op = "restore"] /\ UNCHANGED <<lists, critical>>
     ELSE AddOK("env", lists["env"][Unexported][1], 0) /\ UNCHANGED job
  /\ UNCHANGED <<place, Saving, nReturn>>

\* Variable by variable; a variable that does not fit is dropped, and ENDLOCAL
\* goes on (unless ON ERROR takes over).
Restore ==
  /\ Running("restore") /\ job.left # <<>>
  /\ LET n == Head(job.left)[1]  v == Head(job.left)[2]
         on == [job EXCEPT !.left = Tail(@)]
     IN  IF n \in job.exports THEN job' = on /\ UNCHANGED <<lists, critical, nReturn>>
         ELSE \/ AddOK("env", n, v) /\ job' = on /\ UNCHANGED nReturn
              \/ /\ AddFails("env", n, v) /\ UNCHANGED nReturn
                 /\ job' = [job EXCEPT !.left = Tail(@), !.short = TRUE]
              \/ AddRaises("env", n, v)
  /\ UNCHANGED <<place, Saving>>

\* The rest: the aliases, the settings and the directory, if one was saved.
\* __cd() may fail, as the directory was removed or the drive is not ready; it
\* displays nothing, and ENDLOCAL returns the error.
Restored ==
  /\ Running("restore") /\ job.left = <<>>
  /\ lists' = [lists EXCEPT !["alias"] = Slot.alias]
  /\ slots' = [slots EXCEPT ![offset] = Freed(@)]
  /\ \E r \in {"0", "error"} :
       /\ Slot.place.dir = NULL => r = "0"
       /\ place' = [dir |-> IF r = "error" \/ Slot.place.dir = NULL THEN place.dir ELSE Slot.place.dir,
                    chars |-> Slot.place.chars]
       /\ IF job.exit THEN job' = [op |-> "endlocal", exports |-> {}, exit |-> TRUE] /\ UNCHANGED nReturn
          ELSE Return(r)
  /\ UNCHANGED <<offset, session, critical>>

Step ==
  \/ SetLine \/ SetDone \/ Eset \/ UnsetAll \/ UnsetName \/ UnsetWild \/ UnsetDone \/ Move
  \/ SetlocalRefused \/ Setlocal
  \/ EndlocalNothing \/ EndlocalBegins \/ EndlocalRemoves \/ Restore \/ Restored

Next == Begin \/ Step

\* A command that runs goes on: nothing else runs meanwhile.
Spec == Init /\ [][Next]_vars /\ WF_vars(Step)

-----------------------------------------------------------------------------
(***************************************************************************)
(* Properties.                                                             *)
(***************************************************************************)
Unset == [op : {"unset"}, list : Lists, names : SUBSET Names, at : Nat \ {0}]
Ending == [op : {"remove", "restore"}, exports : SUBSET Names, exit : BOOLEAN,
           left : Seq(Entry), was : SUBSET Entry, short : BOOLEAN]
SlotType == [env : {NULL} \cup Seq(Entry), alias : {NULL} \cup Seq(Entry),
             place : {NULL} \cup Kept, whole : BOOLEAN]

\* Lists are lists, and at most SETLOCAL_NEST saves count.
TypeOK ==
  /\ lists \in [Lists -> Seq(Entry)] /\ place \in Here
  /\ slots \in [0 .. Nest - 1 -> SlotType] /\ offset \in 0 .. Nest
  /\ session \in Sessions /\ (job # NULL => job \in Command \cup Unset \cup Ending)
  /\ nReturn \in {"0", "error", "raised"} /\ critical \in BOOLEAN

\* What ENDLOCAL will need is there for every SETLOCAL that counts.
SlotsInUse == \A i \in 0 .. offset - 1 : NULL \notin {slots[i].env, slots[i].alias}

\* No list outgrows its memory, and every entry is found by its own name: none
\* hides behind another that matches the same name.  (add_list() bounds all
\* lists but one with EnvSize: functions need as much room; see FunctionsFit.)
\* What SETLOCAL saved is there as long as ENDLOCAL can ask for it.
ListsWhole ==
  /\ SlotsInUse
  /\ \A l \in DOMAIN lists :
       /\ Room[l] >= EnvSize \/ l = "alias" => Used(lists[l]) + 1 <= Room[l]
       /\ \A i \in DOMAIN lists[l] : Found(l, lists[l], lists[l][i][1]) = i

\* An ENDLOCAL that has room for everything brings back what SETLOCAL saved,
\* apart from the exported variables, which keep their values.  When it was typed
\* and returns 0 this is so of the directory too, if SETLOCAL could save it; that
\* of a batch file's end may leave the shell where it was, and nobody is told.
Restores ==
  Restored /\ Slot.whole /\ ~job.short =>
    /\ AsSet(lists["env"]) = job.was \cup {e \in AsSet(Slot.env) : e[1] \notin job.exports}
    /\ lists'["alias"] = Slot.alias /\ place'.chars = Slot.place.chars
    /\ place'.dir \in {Slot.place.dir, place.dir}
    /\ ~job.exit /\ nReturn' = "0" /\ Slot.place.dir # NULL => place'.dir = Slot.place.dir
EndlocalRestores == [][Restores]_vars

\* Every command ends, whatever it deletes from the list it walks through.
CommandsEnd == job # NULL ~> job = NULL

\* The function list stays within its own size: "Function = nnnn (1024): Sets
\* the amount of memory in bytes allocated for the function list" (4DOS.TXT).
FunctionsFit == Used(lists["func"]) + 1 <= Room["func"]
=============================================================================
