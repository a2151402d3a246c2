------------------------------- MODULE Switch -------------------------------
(***************************************************************************)
(* SWITCH, CASE, DEFAULT and ENDSWITCH.  They are not parsed: SWITCH reads *)
(* lines of the batch file until one of them is a CASE that matches, and a *)
(* CASE or DEFAULT that is executed reads on until the ENDSWITCH; both     *)
(* count the lines that begin with "switch ".                              *)
(***************************************************************************)
EXTENDS Integers, Sequences, FiniteSets, SequencesExt

CONSTANT Programs   \* the files: sequences of [op, arg, values]

VARIABLES
  file,             \* the file
  line,             \* uBatchLine: how many of its lines were read
  reading,          \* who reads it: "command", "switch" or "case"
  pszTest,          \* the argument of SWITCH
  nNestingLevel,
  executed,         \* the commands that were executed, by their lines
  rc                \* "none", or how the file ended

vars == <<file, line, reading, pszTest, nNestingLevel, executed, rc>>

Init ==
  /\ file \in Programs /\ line = 0 /\ reading = "command" /\ pszTest = 0
  /\ nNestingLevel = 0 /\ executed = <<>> /\ rc = "none"

\* getline() has one more line, which is of that kind.
Reads(r) == rc = "none" /\ reading = r /\ line < Len(file) /\ line' = line + 1 /\ UNCHANGED file
Read == file[line + 1]
Stays == UNCHANGED <<reading, pszTest, executed, rc>>

\* The line that was read is the last one of the scan.
Back == reading' = "command" /\ nNestingLevel' = 0 /\ UNCHANGED <<pszTest, executed, rc>>

-----------------------------------------------------------------------------
(***************************************************************************)
(* Lines that are executed.                                                *)
(***************************************************************************)
Command ==
  /\ Reads("command") /\ Read.op = "command"
  /\ executed' = Append(executed, line') /\ UNCHANGED <<reading, pszTest, nNestingLevel, rc>>

\* The file may be gone when SWITCH or CASE want to read it.
Switch_Cmd ==
  /\ Reads("command") /\ Read.op = "switch"
  /\ \/ reading' = "switch" /\ pszTest' = Read.arg /\ UNCHANGED rc
     \/ rc' = "BATCH_RETURN" /\ UNCHANGED <<reading, pszTest>>
  /\ nNestingLevel' = 0 /\ UNCHANGED executed

Case_Cmd ==
  /\ Reads("command") /\ Read.op \in {"case", "default"}
  /\ \/ reading' = "case" /\ UNCHANGED rc
     \/ rc' = "BATCH_RETURN" /\ UNCHANGED reading
  /\ nNestingLevel' = 0 /\ UNCHANGED <<pszTest, executed>>

\* ENDSWITCH is a remark.
Remark_Cmd ==
  /\ Reads("command") /\ Read.op = "endswitch" /\ Stays /\ UNCHANGED nNestingLevel

-----------------------------------------------------------------------------
(***************************************************************************)
(* Lines that are read by SWITCH and CASE.                                 *)
(***************************************************************************)
Skip == Read.op = "command" /\ Stays /\ UNCHANGED nNestingLevel
Nested == Read.op = "switch" /\ nNestingLevel' = nNestingLevel + 1 /\ Stays

\* Mutant: the ENDSWITCH of any nested SWITCH ends the scan.
EndSwitchAny == Read.op = "endswitch" /\ Back

EndSwitch == Read.op = "endswitch" /\ IF nNestingLevel = 0 THEN Back
                                      ELSE nNestingLevel' = nNestingLevel - 1 /\ Stays

\* A CASE of this SWITCH: TestCondition() of "arg EQ value .OR. arg EQ value".
Tests == Read.op = "case" /\ nNestingLevel = 0
Case == Tests /\ IF pszTest \in Read.values THEN Back ELSE Stays /\ UNCHANGED nNestingLevel
CaseNested == Read.op = "case" /\ nNestingLevel > 0 /\ Stays /\ UNCHANGED nNestingLevel

Default == Read.op = "default" /\ IF nNestingLevel = 0 THEN Back ELSE Stays /\ UNCHANGED nNestingLevel

SwitchReads == Reads("switch") /\ (Skip \/ Nested \/ EndSwitch \/ Case \/ CaseNested \/ Default)

CaseSkips == Read.op \in {"case", "default"} /\ Stays /\ UNCHANGED nNestingLevel
CaseReads == Reads("case") /\ (Skip \/ Nested \/ EndSwitch \/ CaseSkips)

\* The end of the file: for SWITCH and CASE that is an error.
Ends ==
  /\ rc = "none" /\ line = Len(file)
  /\ rc' = (IF reading = "command" THEN "0" ELSE "USAGE_ERR")
  /\ UNCHANGED <<file, line, reading, pszTest, nNestingLevel, executed>>

Next == Command \/ Switch_Cmd \/ Case_Cmd \/ Remark_Cmd \/ SwitchReads \/ CaseReads \/ Ends

Spec == Init /\ [][Next]_vars

-----------------------------------------------------------------------------
(***************************************************************************)
(* Properties.                                                             *)
(***************************************************************************)
\* The SWITCHes of a file as blocks: how deep a line is in those from line i on,
\* where the block of line i ends, and where its branches begin.
Depth(i, k) == Cardinality({j \in i .. k - 1 : file[j].op = "switch"})
               - Cardinality({j \in i .. k - 1 : file[j].op = "endswitch"})
Within(i) == {k \in i + 1 .. Len(file) : \A j \in i + 1 .. k : Depth(i, j) >= 1}
Branches(i) == {k \in Within(i) : Depth(i, k) = 1 /\ file[k].op \in {"case", "default"}}

\* The branch of a SWITCH that is to be executed: the first one that matches.
Chosen(i) == {k \in Branches(i) : /\ file[k].op = "case" => file[i].arg \in file[k].values
                                  /\ \A j \in Branches(i) : j < k => file[i].arg \notin file[j].values}
InChosen(i, k) == \E b \in Chosen(i) : b < k /\ \A j \in Branches(i) : ~(b < j /\ j < k)

Told == {k \in 1 .. Len(file) :
           /\ file[k].op = "command"
           /\ \A i \in 1 .. k - 1 : file[i].op = "switch" /\ k \in Within(i) => InChosen(i, k)}

\* A file executes exactly the commands that are outside of any SWITCH or in
\* the branch that its SWITCHes choose, in order: however SWITCHes are nested
\* "the commands following that CASE statement are executed, and all subsequent
\* CASE statements and the commands which follow them are ignored" (4DOS.TXT).
RunsChosen == rc = "0" => executed = SetToSortSeq(Told, <)
=============================================================================
