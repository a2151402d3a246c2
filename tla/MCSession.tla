----------------------------- MODULE MCSession ------------------------------
(***************************************************************************)
(* TLC runs what a session of the shell keeps: the directories (Dirs and   *)
(* Prefix); the environment, the aliases and SETLOCAL (Environment); or    *)
(* the configuration (Option).  "part" says which of them a behaviour is   *)
(* about.                                                                  *)
(***************************************************************************)
EXTENDS Environment, Prefix

VARIABLES part,
          dirDisk, curs, drive, last, queue, history, index, dirRc, pushes, unlisted, missed, made, cmds,
          shell, copy, flags, window, argline, ini, wanted, chosen, due, saved, foreign, runs, changes

dirVars == <<dirDisk, curs, drive, last, queue, history, index, dirRc, pushes, unlisted, missed, made, cmds>>

-----------------------------------------------------------------------------
(***************************************************************************)
(* The lists, and what is typed.                                           *)
(***************************************************************************)
MCStart == [env |-> <<<<"b", 2>>>>, master |-> <<>>, alias |-> <<>>, func |-> <<>>]
MCRoom == [env |-> 17, master |-> 17, alias |-> 16, func |-> 17]

\* The alias "a*b" is found by "a" and "ab" as well.
MCFinds(n, m) == n = m \/ (m = "a*b" /\ n \in {"a", "ab"})

SetOf(l, values) == [op |-> "set", list |-> l, lines |-> values]
Saves == {[op |-> "setlocal"], [op |-> "endlocal", exports |-> {}, exit |-> FALSE],
          [op |-> "endlocal", exports |-> {"a"}, exit |-> FALSE]}

MCSessions ==
  {Saves \cup {SetOf("env", <<<<"a", 1>>>>), SetOf("env", <<<<"a", 3>>, <<"b", 0>>, <<"b", 6>>>>), SetOf("env", <<<<"b", 0>>, <<"a", 7>>>>),
               [op |-> "clear", list |-> "env"],
               [op |-> "endlocal", exports |-> {}, exit |-> TRUE]},
   Saves \cup {SetOf("alias", <<<<"a*b", 1>>>>), [op |-> "move"],
               [op |-> "delete", list |-> "alias", name |-> "ab"]},
   {SetOf("alias", <<<<n, v>>>>) : n \in {"a", "a*b", "b"}, v \in {1, 2}} \cup
   {SetOf("master", <<<<"a", 7>>, <<"b", 5>>>>),
    [op |-> "eset", list |-> "alias", name |-> "ab", value |-> 5],
    [op |-> "delete", list |-> "alias", name |-> "ab"],
    [op |-> "unset", list |-> "alias", names |-> {"a", "a*b"}, at |-> 1]}}

\* A function list that is smaller than the environment.
DocFinds(n, m) == n = m
DocStart == [env |-> <<<<"b", 2>>>>, master |-> <<>>, alias |-> <<>>, func |-> <<>>]
DocRoom == [env |-> 17, master |-> 17, alias |-> 16, func |-> 9]

DocSessions == {{SetOf("func", <<<<"a", 1>>>>), SetOf("func", <<<<"b", 3>>>>), SetOf("env", <<<<"a", 1>>>>)}}

ASSUME EnvironmentAssumption

AnySession == CHOOSE s \in MCSessions : TRUE

-----------------------------------------------------------------------------
(***************************************************************************)
(* The directories, GLOBAL and EXCEPT: what they are run on is in          *)
(* DirsInputs.                                                             *)
(***************************************************************************)
I == INSTANCE DirsInputs

D == INSTANCE Dirs WITH
       disk <- dirDisk, rc <- dirRc, Order <- I!MCOrder, Hard <- {"C"}, Makes <- I!MCMakes, Updates <- I!MCUpdates, Args <- I!MCArgs,
       CdPath <- I!MCCdPath, FuzzyCD <- 3, Begins <- I!MCBegins, Holds <- I!MCHolds, Size <- I!MCSize,
       QueueSize <- 17, HistorySize <- 14, Starts <- I!MCStarts, MaxPushes <- 3, MaxLines <- 4

ASSUME D!DirsAssumption

MCTree == I!MCTree
MCLines == I!MCLines
MCHidden == {<<"s", "h">>}

-----------------------------------------------------------------------------
(***************************************************************************)
(* The items of the .INI file: a number with its two entries, strings,     *)
(* colors and keys; four files, one of which includes a file that includes *)
(* itself; and what the user types.                                        *)
(***************************************************************************)
Item(n, kind, nomod, control, page, default, valid, context) ==
  [name |-> n, kind |-> kind, nomod |-> nomod, control |-> control, page |-> page,
   default |-> default, valid |-> valid, context |-> context]
MCItems ==
  <<Item("History", "num", TRUE, 0, "", 2, {1, 2, 3}, ""),
    Item("History", "num", FALSE, 1, "1", 2, {1, 2, 3}, ""),
    Item("ColorDir", "str", FALSE, 3, "1", 0, {}, ""),
    Item("TreePath", "path", FALSE, 2, "2", 0, {}, ""),
    Item("StdColors", "color", FALSE, 4, "2", 0, {23, 31}, ""),
    Item("PrimaryINIFile", "str", FALSE, 0, "", 0, {}, ""),
    Item("NextHistory", "key", FALSE, 0, "", 0, {}, "edit"),
    Item("PrevHistory", "key", FALSE, 0, "", 0, {}, "edit"),
    Item("ListFind", "key", FALSE, 0, "", 0, {}, "list"),
    Item("ClearKeyMap", "keymap", FALSE, 0, "", 0, {}, ""),
    Item("Include", "include", FALSE, 0, "", 0, {}, "")>>

Ini(k, n, v) == [k |-> k, name |-> n, value |-> v, z |-> FALSE]
Given(n, v) == Ini("item", n, v)
Section(n) == Ini("section", n, <<>>)
Empty == Ini("blank", "", <<>>)
Remark == Ini("comment", "", <<>>)
Z(l) == [l EXCEPT !.z = TRUE]

MCInis ==
  {<<Given("PrimaryINIFile", <<80>>), Section("4DOS"), Given("ColorDir", <<65, 66>>), Empty, Section("Other"), Z(Given("History", <<3>>))>>,
   <<Section("Primary"), Given("PrimaryINIFile", <<80>>), Section("Secondary"), Given("TreePath", <<67>>),
     Given("NextHistory", <<10>>), Section("4DOS"), Given("TreePath", <<99>>), Remark,
     Given("NextHistory", <<10>>), Given("PrevHistory", <<11>>), Given("History", <<3>>), Z(Given("ListFind", <<10>>))>>,
   <<Given("Include", <<1>>), Z(Remark)>>,
   <<Section("4DOS"), Given("StdColors", <<23>>), Empty, Z(Empty)>>}

MCIncluded(v) == IF v = <<1>> THEN <<Given("PrimaryINIFile", <<80>>), Given("PrevHistory", <<12>>), Given("Include", <<1>>)>> ELSE <<>>
MCIsDir(v) == v \in {<<67>>, <<68>>, <<99>>}

MCDirectives ==
  {<<Given("ColorDir", <<70>>), Given("PrevHistory", <<10>>)>>,
   <<Given("ColorDir", <<71>>), Given("History", <<1>>)>>,
   <<Given("ClearKeyMap", <<>>), Given("NextHistory", <<12>>)>>,
   <<Given("TreePath", <<68>>), Given("StdColors", <<23>>)>>,
   <<Given("ColorDir", <<72>>), Given("Include", <<1>>)>>}

O == INSTANCE Option WITH
       gaINIItemList <- MCItems, Inis <- MCInis, Included <- MCIncluded, IsDir <- MCIsDir,
       Directives <- MCDirectives, Texts <- {<<>>, <<67>>, <<65, 65, 65>>}, NewName <- <<78>>,
       StrMax <- 10, KeyMax <- 8, MaxRuns <- 3, MaxChanges <- 2

optionVars == <<shell, copy, flags, window, argline, ini, wanted, chosen, due, saved, foreign, runs, changes>>

\* What the parts that a behaviour is not about are at first, and stay.
NoOption == O!Init /\ ini = CHOOSE f \in MCInis : TRUE
NoDirs == D!Init /\ cmds = {"PUSHD"}
NoPrefix == PrefixInit /\ line.op = "EXCEPT" /\ hidden = {}
\* The places differ in nothing: it does not matter in which one a session begins.
EnvInit == Init /\ place = [dir |-> "p", chars |-> "c"]
NoEnv == EnvInit /\ session = AnySession

SessionInit ==
  \/ part = "dirs" /\ D!Init /\ NoPrefix /\ NoEnv /\ NoOption
  \/ part = "prefix" /\ PrefixInit /\ NoDirs /\ NoEnv /\ NoOption
  \/ part = "env" /\ EnvInit /\ NoDirs /\ NoPrefix /\ NoOption
  \/ part = "option" /\ O!Init /\ NoDirs /\ NoPrefix /\ NoEnv

EnvStep == part = "env" /\ Step /\ UNCHANGED <<part, dirVars, prefixVars, optionVars>>

SessionNext ==
  \/ part = "dirs" /\ D!Next /\ UNCHANGED <<part, vars, prefixVars, optionVars>>
  \/ part = "prefix" /\ PrefixNext /\ UNCHANGED <<part, vars, dirVars, optionVars>>
  \/ part = "env" /\ Next /\ UNCHANGED <<part, dirVars, prefixVars, optionVars>>
  \/ part = "option" /\ O!Next /\ UNCHANGED <<part, vars, dirVars, prefixVars>>

\* A command that runs goes on: nothing else runs meanwhile (Environment).
SessionSpec ==
  /\ SessionInit
  /\ [][SessionNext]_<<part, vars, dirVars, prefixVars, optionVars>>
  /\ WF_<<part, vars>>(EnvStep)

\* The directory database follows the disk, and POPD goes back along the PUSHDs.
PlacesFollow == D!PlacesFollow

\* The shell and the .INI file have what the user chose and saved in OPTION.
OptionsFollow == part = "option" => O!OptionsFollow
=============================================================================
