------------------------------ MODULE MCRedir ------------------------------
(***************************************************************************)
(* The command lines on which TLC runs Redirection.                        *)
(***************************************************************************)
EXTENDS Redirection, TLC

CONSTANTS P, Q, R

PipeFiles == {P, Q, R}
Symmetry == Permutations(PipeFiles)

S(op, io, sep) == [op |-> op, io |-> io, sep |-> sep]
Cmd(sep) == S("cmd", <<>>, sep)

InnerLines == {<<Cmd("|"), Cmd("")>>, <<Cmd("|&"), S("cmd", <<">">>, "")>>,
               <<S("cmd", <<">&", "<">>, "")>>}

\* Pipes, redirections, both at once, conditionals, groups, and an IFF whose
\* line has pipes before and after it but none of its own.
PipeLines == {
  <<Cmd("|"), Cmd("|"), Cmd("")>>,
  <<Cmd("|&"), S("cmd", <<">">>, "^"), Cmd("|"), Cmd("")>>,
  <<S("cmd", <<">&">>, "^"), S("cmd", <<"<", ">">>, "")>>,
  <<S("cmd", <<">&>">>, "|"), S("cmd", <<">", ">&">>, "")>>,
  <<S("cmd", <<">">>, "|"), S("cmd", <<"<">>, "")>>,
  <<Cmd("&&"), Cmd("|"), Cmd("||"), Cmd("&&"), Cmd("")>>,
  <<Cmd("||"), Cmd("^"), S("cmd", <<"<">>, "|&"), Cmd("")>>,
  <<S("group", <<">&>">>, "|"), S("cmd", <<">">>, "")>>,
  <<Cmd("|"), S("group", <<>>, "|&"), Cmd("")>>,
  <<Cmd("|"), S("iff", <<>>, "^"), Cmd("|"), Cmd("^"), S("else", <<>>, "^"),
    S("cmd", <<">">>, "^"), S("endiff", <<>>, "^"), Cmd("")>>,
  <<S("iff", <<>>, "^"), Cmd("|"), Cmd("")>> }

\* IFF condition THEN command | command ^ ENDIFF ^ command | command
IffLines == {
  <<S("iff", <<>>, "|"), Cmd("^"), S("endiff", <<>>, "^"), Cmd("|"), Cmd("")>> }

\* "A pipe on a command within the batch file will take effect for that command
\* only; when the command is completed, output will revert to the pipe in use
\* for the batch file as a whole." (4DOS.TXT:2273.)
\* An IFF that is false leaves the loop's redirection as it is, and the next
\* open_pipe() on the line saves the first pipe in place of the screen.
OutputReverts == At("done") => fd[STDOUT] = Cur.entry[STDOUT]
=============================================================================
