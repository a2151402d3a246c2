---------------------------- MODULE EditorInputs ----------------------------
(***************************************************************************)
(* The keys, names and settings with which TLC runs Editor.                *)
(***************************************************************************)
EXTENDS Integers, Sequences


A == <<"a">>
AB == <<"a", "b">>
BB == <<"b", "b">>

MCKeySets ==
  {{"a", "b", "CR", "CUR_UP", "CUR_DOWN", "F3", "^D", "HOME", "DEL", "LF", "HISTORY /A"},
   {"a", "b", "CR", "^E", "PgUp", "^K", "HISTORY /A", "HISTORY /N", "HISTORY /F", "CUR_UP", "^C", "F5", "F6"},
   {"a", " ", "F8", "F9", "F10", "F12", "^A", "F7", "HOME", "CUR_RIGHT"},
   {"a", ".", " ", "INS", "S_LEFT", "S_HOME", "CS_RIGHT", "CUR_UP", "BACKSPACE", "^V", "C_LEFT"},
   {"a", ".", " ", "C_LEFT", "C_RIGHT", "^L", "^R", "C_HOME", "C_END", "ESC", "END", "^F", "F1", "C_PgUp"}}

\* A line that the list cannot hold, although it is shorter than the list.
DocKeySets == {{"HISTORY /A"}}
DocLines == {[i \in 1 .. 8 |-> "a"]}

MCAliases == [k \in {"F5", "F6"} |-> IF k = "F5" THEN [keys |-> <<"a", "CUR_UP", "b">>, silent |-> FALSE]
                                     ELSE [keys |-> <<"b", "a">>, silent |-> TRUE]]
MCLines == {AB, BB, <<"a", "b", "a">>}
MCDirHistory == {<<"a", "a", "a", "a">>}

File(name, type, attrib) == [name |-> name, type |-> type, attrib |-> attrib]
MCFiles == <<File(A, "com", {"program"}), File(<<"a", "c">>, "txt", {}), File(<<"a", "c", "c">>, "exe", {"program"}),
             File(<<"c">>, "txt", {"hidden"}), File(<<"a", "d">>, "", {"dirs"})>>
MCCompletion == <<[cmd |-> A, types |-> <<[ext |-> "exe", not |-> TRUE], [ext |-> "dirs", not |-> FALSE],
                                          [ext |-> "txt", not |-> FALSE]>>],
                  [cmd |-> <<"a", "c">>, types |-> <<[ext |-> "*.*", not |-> FALSE]>>]>>
=============================================================================
