------------------------------ MODULE MCScreen ------------------------------
(***************************************************************************)
(* TLC runs the programs of the screen: the command line (Editor), the     *)
(* file viewer (List) and SELECT (Select).  They share no variable; "job"  *)
(* says which one a behaviour is about, and the others stay as they are.   *)
(***************************************************************************)
EXTENDS Select

CONSTANT NULL

VARIABLES job, shown, nCurrent, nStart, gone, w, v, what, fSkip, saved, found,
          line, cur, mark, insert, loop, pending, silent, mem, glpHptr, adding, keys, presses, entered

I == INSTANCE EditorInputs

E == INSTANCE Editor WITH
       KeySets <- I!MCKeySets, Text <- {"a", "b", " ", "."}, White <- {" "}, Punct <- {"."},
       MaxLine <- 6, MaxKeys <- 7, HistorySize <- 12, HistMin <- 0, HistDups <- 2,
       HistCopy <- FALSE, HistMove <- FALSE, HistWrap <- TRUE, Aliases <- I!MCAliases,
       Lines <- I!MCLines, DirHistory <- I!MCDirHistory, Files <- I!MCFiles, Completion <- I!MCCompletion

lineVars == <<line, cur, mark, insert, loop, pending, silent, mem, glpHptr, adding, keys, presses, entered>>

listVars == <<shown, nCurrent, nStart, gone, w, v, what, fSkip, saved, found>>

\* Two small files; the buffer holds eight bytes.
ListTexts == <<
    <<"b", "lf", "b", "a", "b", "a", "b", "lf", "lf", "a", "lf", "lf">>,
    <<"b", "lf", "a", "lf">>,
    <<"b", "a", "b", "lf">>,
    <<"b", "lf", "a", "b">> >>

L == INSTANCE List WITH
       Texts <- ListTexts, Half <- 4, HexRow <- 3, Columns <- 3, MaxLine <- 9, NumberWidth <- 1,
       TabSizes <- {2, 3}, ScreenRows <- 3,
       Patterns <- {<<"a", "b">>, <<"b">>}, Gotos <- {0, 2, 0 - 1, 15}, RowBound <- 6

\* The viewer while the command line runs, and the other way round.
NoList == /\ shown = 0 /\ nCurrent = 0 /\ nStart = 0 /\ gone = {} /\ w = L!Window /\ v = L!View
          /\ what = <<>> /\ fSkip = FALSE /\ saved = <<>> /\ found = <<>>

NoLine == /\ line = <<>> /\ cur = 0 /\ mark = NULL /\ insert = TRUE /\ loop = E!NoLoop
          /\ pending = <<>> /\ silent = FALSE
          /\ mem = [i \in 1 .. 12 |-> E!NUL] /\ glpHptr = NULL /\ adding = NULL
          /\ keys = {} /\ presses = 0 /\ entered = {}

\* What SELECT works on: lists of one, two and five entries on a screen of two
\* rows, one command for each file or one for all.
AFile(name) == [name |-> name, dir |-> FALSE]
ADir(name) == [name |-> name, dir |-> TRUE]
Five == <<ADir(<<"b">>), AFile(<<"a", "a">>), AFile(<<"a", "b">>), AFile(<<"b", "a">>), AFile(<<"b", "b">>)>>
Two == <<AFile(<<"a">>), ADir(<<"a", "b">>)>>
One == <<AFile(<<"b">>)>>
Selection(options, paren, lists) == [options |-> options, paren |-> paren, lists |-> lists]
ScreenSelections == {Selection(o, p, <<Five>>) : o \in {<<>>, <<"A", "1">>}, p \in {"(", "["}}
                    \cup {Selection(<<>>, p, <<Two, <<>>, One>>) : p \in {"(", "["}}
                    \cup {Selection(<<"Q">>, "(", <<One>>)}

NoSelect == /\ selection = NULL /\ nArg = 0 /\ stage = "none" /\ reply = "0" /\ sel = NULL /\ marks = <<>>
            /\ rows = <<>> /\ szSearch = <<>> /\ n = 1 /\ cmdline = <<>> /\ ran = <<>> /\ order = <<>> /\ pressed = 0

ScreenInit == \/ job = "line" /\ E!Init /\ NoList /\ NoSelect
              \/ job = "list" /\ L!Init /\ NoLine /\ NoSelect
              \/ job = "select" /\ Init /\ NoLine /\ NoList

ScreenNext == /\ UNCHANGED job
              /\ \/ job = "line" /\ E!Next /\ UNCHANGED <<listVars, vars>>
                 \/ job = "list" /\ L!Next /\ UNCHANGED <<lineVars, vars>>
                 \/ job = "select" /\ Next /\ UNCHANGED <<lineVars, listVars>>

ScreenSpec == ScreenInit /\ [][ScreenNext]_<<vars, listVars, lineVars, job>>

\* The history list stays a list of lines, each of them as it was entered.
HistoryWhole == E!HistoryWhole

\* The completion of a file name changes nothing of the line but that name.
CompletionKeepsRest == E!CompletionKeepsRest

\* The offset and the line number of the top of the screen agree.
RowIsLine == L!RowIsLine

\* The viewer shows, writes, searches and steps through what the files are: its buffer is a
\* part of the file, INS and FFIND read all of it, and the files come in their order.
ViewerReadsRight == L!WindowIsFile /\ L!ReadsAll /\ L!FilesInOrder
=============================================================================
