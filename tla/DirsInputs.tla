----------------------------- MODULE DirsInputs -----------------------------
(***************************************************************************)
(* The disks, directories and arguments on which TLC runs Dirs, and the    *)
(* trees and commands on which it runs Prefix.                             *)
(***************************************************************************)
EXTENDS Integers, Sequences

CONSTANT NULL

C == <<"C">>
CN == <<"C", "na">>
CNX == <<"C", "na", "x">>
CM == <<"C", "nab">>
D == <<"D">>
DN == <<"D", "na">>

MCOrder == <<C, CN, CNX, CM, D, DN>>
MCSize == [d \in {C, CN, CNX, CM, D, DN} |-> CASE Len(d) = 1 -> 4 [] d = CM -> 7 [] Len(d) = 2 -> 6 [] Len(d) = 3 -> 8]

\* C:\nab is not below C:\na, but begins with it; "n" is in all but "x".
MCBegins(n, m) == n = m \/ (n = "n" /\ m \in {"na", "nab"}) \/ (n = "na" /\ m = "nab")
MCHolds(n, m) == MCBegins(n, m) \/ (n = "b" /\ m = "nab")

Arg(drive_, rel, names) == [drive |-> drive_, rel |-> rel, names |-> names]
MCArgs == {Arg(NULL, TRUE, <<"x">>), Arg(NULL, TRUE, <<"n">>), Arg(NULL, TRUE, <<"na">>),
           Arg(NULL, FALSE, <<>>), Arg("D", FALSE, <<"na">>), Arg(NULL, FALSE, <<"n">>),
           Arg("C", TRUE, <<"b">>)}

MCMakes == {CN, CNX, CM}
MCUpdates == {C, CN}
MCCdPath == <<CN>>

MCStarts ==
  {[disk |-> {C, CN, CNX, CM, D, DN}, index |-> NULL, cmds |-> {"PUSHD"}],
   [disk |-> {C, CN, CM, D}, index |-> <<C, CN, CM, DN>>, cmds |-> {"CD"}],
   [disk |-> {C, CM, D, DN}, index |-> NULL, cmds |-> {"CD"}],
   [disk |-> {C, CN, D}, index |-> NULL, cmds |-> {"MD"}]}

-----------------------------------------------------------------------------
S == <<"s">>
MCTree == {S, <<"s", "d">>, <<"s", "d", "e">>, <<"s", "h">>, <<"s", "t">>}
MCLines == {[op |-> "GLOBAL", opts |-> {}], [op |-> "GLOBAL", opts |-> {"I"}],
            [op |-> "GLOBAL", opts |-> {"P", "H"}], [op |-> "EXCEPT", opts |-> {}]}
=============================================================================
