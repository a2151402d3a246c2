# 4DOS: a model of the command interpreter

4DOS is a replacement for the DOS command interpreter COMMAND.COM: a resident
loader and server in assembler, and a transient shell in C
(`src/SOURCES/*.C`). This directory holds TLA+ modules of the shell, the TLC
runs that check them and the theorems TLAPS proves about them. `PROJECT.json`
maps every definition to the lines it models.

References to `4DOS.TXT` are to `src/4DOSHELP/4DOS.TXT`, the manual; other file
names are under `src/SOURCES`.

## 1. The system

| Component | State it keeps | Operations | What makes it hard, and what must hold | Modules |
|---|---|---|---|---|
| Batch processor (`BATCH.C`, `PARSER.C`, `MAIN.C`) | `bframe[16]`, `cv.bn`, `cv.f`, `cv.fCall`, `cv.fException`, the C stack | `Batch`, `ExitBatchFile`, `BatchCLI`, `command`, GOSUB, RETURN, GOTO, DO, QUIT, CANCEL, CALL, ON | recursion over global frames and flags, non-local exits; frames and activations must stay in step | `Batch`, `Flags` |
| Conditions, SWITCH, FOR (`BATCH.C`) | three flags of a scan; a nesting level; handle, search, temporary file and variables of each FOR | `TestCondition`, `__if`, `Switch_Cmd`, `Case_Cmd`, `For_Cmd` | no grammar: lines are scanned and counted; ^C and GOTO in the middle of a loop | `Conditions`, `Switch`, `For` |
| IFF and DO nesting (`iff_parsing`, `do_parsing`) | seven bit fields of `cv.f.flag` | one call each per command | no stack: blocks are matched by counters | `Flags` |
| Errors and ^C (`ERROR.C`, `DOSCALLS.C`) | `cv.fException`, `cv.env`, ON commands of the frame | `error`, `BreakHandler`, `CheckFreeStack` | `longjmp` out of any DOS call | `Batch`, `CopyMove`, `Directory` |
| In-memory and compressed batch files (`LoadBTM`, `BATCOMP.C`) | the buffer of a frame; header, table and nibbles of a file | load, decompress, compress | a compressor that stops half-way; a signature that is written first | `Compression` |
| Environment, aliases, SETLOCAL (`ENV.C`, `BATCH.C`) | lists of strings in fixed blocks; a stack of saves | `add_list`, SET, ALIAS, ESET, UNSET, `_setlocal`, `_endlocal` | out of space half way, `error()` inside a critical section, a list that is walked while it changes | `Environment` |
| Alias and variable expansion (`EXPAND.C`) | the line, recursion counters | `alias_expand`, `var_expand`, user functions | rewriting in place, recursion and length limits | `Expand` |
| Expressions (`EVAL.C`) | the current token | `evaluate` and one function per precedence | shared state, signs, rounding, overflow | `Eval` |
| Redirection and pipes (`EXPAND.C`, `PARSER.C`) | saved handles, temporary pipe files | `redir`, `unredir`, `open_pipe`, `killpipes` | error exits between save and restore | `Redirection` |
| History and line editing (`EXPAND.C`, `SCREENIO.C`) | one block of memory with a pointer into it; the line | `addhist`, `prev_hist`, `next_hist`, `egets` | moving memory under pointers; completion that replaces names | `Editor` |
| Directories (`SYSCMDS.C`) | directory stack, history, JPSTREE.IDX | CD, CDD, PUSHD, POPD, MD, RD | a copy of the tree kept by small changes | `Dirs` |
| GLOBAL and EXCEPT (`SYSCMDS.C`) | current directory, one path for all levels; hidden files | each runs another command | what they changed must be put back after anything | `Prefix` |
| COPY and MOVE (`FILECMDS.C`) | files, `cv.env`, flags | `_copy`, `_mv`, `FileCopy` | one step of several failing, ^C between DOS calls, recursive `setjmp()` | `CopyMove`, `Transfer` |
| DEL, REN, ATTRIB, TOUCH (`FILECMDS.C`) | files and attributes | `_del`, `Ren_Cmd`, `_attrib`, `_touch` | searching what is being changed, over levels | `FileCommands` |
| DIR (`DIRCMDS.C`) | arrays of entries, totals of two words | `Dir_Cmd`, `GetDirectory`, heap sort | totals shared by all levels, ^C with memory allocated | `Directory` |
| Search for files, dates (`MISC.C`) | `FILESEARCH` | `find_file`, `wild_cmp`, `GetRange` | wildcards, lists, ranges that wrap | `Search`, `Calendar` |
| Descriptions (`MISC.C`, `DIRCMDS.C`) | DESCRIPT.ION | `process_descriptions`, `GetDescriptions` | a file rewritten over itself | `Descriptions` |
| LIST, SELECT (`LISTC.C`, `LISTALL.C`, `SELECT.C`, `SELECTC.C`) | a window on the file, the position twice; marks, the screen | one handler per key | copies of a position that each key moves by its own arithmetic | `List`, `Select` |
| Configuration and OPTION (`OPTION/*.C`, `IPARSE.C`) | INIFILE: values, strings and keys in two memories; the .INI file | reading, dialogs, Use, Save, Cancel | offsets into moved memory; a file rewritten in place | `Option` |
| DOS memory (`DOSCALLS.C`) | DOS arena below the transient part | `AllocMem`, `ReallocMem`, `FreeMem` | 16-bit sizes, failure paths | - |
| Resident server, loader, KSTACK (assembler) | shell table, ^C state, swap area, key queue | INT 2Fh, INT 23h, INT 24h, INT 16h | re-entrancy | - |
| Help viewer, installer, run-time library, digests | - | - | separate programs, or pure functions | - |

How they interact: everything is one DOS task. `main()` reads a command with
`egets()`, adds it to the history and calls `command()`; `command()` expands,
redirects and dispatches; a batch file makes `Batch()` call `BatchCLI()`, which
calls `command()` for each line; GOSUB, DO, FOR, GLOBAL, EXCEPT and SELECT call
`command()` or `BatchCLI()` again from inside `command()`. All of these share
`bframe[]`, `cv` and `gszCmdline`, and the file commands share `find_file()`.
`error()` and the ^C handler leave by `longjmp( cv.env )` to whichever function
last called `setjmp()`. There is no parallelism but ^C, which arrives inside any
DOS call, and no scheduler; the difficulty is the interleaving of recursion,
jumps and unwinding over shared globals, state that is kept twice, memory that
is moved under pointers, and calls that fail one step into several. The other
"processes" are what survives a stop: the .INI file, JPSTREE.IDX, a compressed
file, DESCRIPT.ION and the files COPY and MOVE were working on.

## 2. Plan, and how far it went

1. Batch core: `Flags`, `Batch`, `Batch_proofs`. Done.
2. Redirection. Done, model and runs.
3. The other commands that decide what a batch file does next: `Conditions`
   (with `LeftToRight`, its abstract specification, and the proof that it is
   implemented), `Switch`, `For`. Done.
4. What is done to a line: `Expand`, `Eval`; and to a batch file:
   `Compression`. Done.
5. What the shell keeps: `Environment`, `Dirs`, `Prefix`, `Option`. Done.
6. The file commands over a disk that fails: `CopyMove` (implements
   `Transfer`), `FileCommands`, `Directory`, `Search`, `Calendar`,
   `Descriptions`. Done.
7. The programs of the screen: `Editor`, `List`, `Select`. Done.
8. Left: the DOS memory allocator over an arena; KSTACK; TREE, FFIND's
   directories, HEAD, TAIL, TYPE and the other commands that only read and
   display.
9. Proofs. Done: the batch core and `LineAgrees`, the conditions, COPY and MOVE
   and that they implement `Transfer` (`CopyMove_proofs`), the
   lists and SETLOCAL (`Environment_proofs`), the handles of a command line
   and the files of its pipes (`Redirection_proofs`), SELECT
   (`Select_proofs`), GLOBAL and EXCEPT (`Prefix_proofs`), what FOR leaves
   behind (`For_proofs`). Left: SWITCH, the directories and OPTION.

Modules are written so that they can be composed: the components that share no
variable are put side by side in one composite module, and TLC checks them in
one run (section 4).

## 3. Modules

| Module | What it is |
|---|---|
| `Flags` | operators: the flags, `IffParsed`, `IffSkips`, `DoParsed`, `EndsDoBody`, `DoSkips`, `IffExecuted` |
| `Batch`, `Batch_proofs` | the state machine of batch files; its inductive invariant and theorems |
| `Redirection`, `Redirection_proofs` | one command line: the stages of `command()` and the DOS handles; the theorems about its handles, and about the files of its pipes |
| `LeftToRight`, `Conditions`, `Conditions_proofs` | what combined tests mean; how `TestCondition()` and `__if()` do it; the proof that the second implements the first |
| `Switch`, `For`, `For_proofs` | SWITCH to ENDSWITCH over the lines of a file; FOR in all its forms, nested; its theorems |
| `Expand`, `Eval` | the expansion of a line in place; the evaluator of `%@EVAL` |
| `Compression` | BATCOMP and `LoadBTM()` |
| `Environment`, `Environment_proofs` | the four lists, SETLOCAL and ENDLOCAL; its theorems |
| `Dirs`, `Prefix`, `Prefix_proofs` | directories; GLOBAL and EXCEPT; the theorems about these two |
| `Option` | the configuration, OPTION and the .INI file |
| `Transfer`, `CopyMove`, `CopyMove_proofs` | what commands that copy and move promise; COPY and MOVE; its theorems, and that it keeps the promise |
| `FileCommands`, `Directory` | DEL, REN, ATTRIB, TOUCH; DIR |
| `Search`, `Calendar`, `Descriptions` | `find_file()`; dates and weeks; DESCRIPT.ION |
| `Editor`, `List` | the command line with its history; the file viewer |
| `Select`, `Select_proofs` | SELECT; its theorems |
| `MC...`, `...Inputs` | what TLC runs them on; `MCBatch`, `MCRedir` and `MCSession` also state a sentence of the manual as a property |
| `MCControl`, `MCDisk`, `MCSession`, `MCScreen` | composites: `Conditions`, `Switch`, `For`, `Expand`, `Eval`, `Compression`; the file commands; what a session keeps; the programs of the screen |

`Batch` and `Redirection` are two views of `command()`. `Batch` takes a line for
one command and follows what it does to frames and flags; `Redirection` takes a
command for a result and follows what the line does to handles. They are not
composed: `redir()` and `unredir()` touch no frame (but for `close_batch_file()`,
after which the file is opened again by name), and what a command does to the
flags matters to `Redirection` only through IFF, whose state it keeps. The
commands of the other modules are single steps of `Batch` with a result; each
of these modules takes a command that it runs, in turn, for a result that may be
an error, ^C or a control code.

### State of `Batch`

| Variable | Code |
|---|---|
| `script`, `deleted` | the batch files on the disk; `script` is chosen once, a command may delete a file |
| `breaks` | how many more times ^C can be pressed (a bound, not code) |
| `bn`, `bframe` | `cv.bn`, `bframe[]`: name, `lOffset`, `uBatchLine`, `nGosubOffset`, `pszGosubArgs` (whether it is non-null), `uGosubStack`, the three ON commands |
| `flags` | `cv.f.flag`: `_else`, `_iff`, `_endiff`, `_do`, `_do_end`, `_do_leave` |
| `fException` | `cv.fException`, as a set of bits |
| `gosubEnv` | for each GOSUB level, which frame owns the environment variables with that prefix character |
| `act`, `depth` | the C stack: activations of `Batch()`, `Gosub_Cmd()` and `Do_Cmd()` with the locals they keep |
| `pc`, `cmd`, `ret` | where the innermost `BatchCLI()` is, the line `command()` works on, what `BatchCLI()` returned |

A batch file is a sequence of commands `[if, op, arg, n]`, one per line; an
offset is a number of lines. What a condition yields, whether a command fails,
and when ^C is pressed are nondeterministic. ON commands, GOSUB arguments and
file names are kept only as far as control depends on them.

`pc` is `"prompt"` in `main()`; `"cli"` at the loop of `BatchCLI()`; `"cmd"`
in `command()` on a line of the file and `"handler"` on an ON command; `"do"`
at the top of the loop of `Do_Cmd()`; `"ret"` when a `BatchCLI()` has ended
and the function that called it goes on; `"wild"` when the program reads
memory before `bframe[]` (a .BTM file that does not load, run `breaks`).

### Actions of `Batch`

One action per exit of a function: `CLI*` are the ways through one turn of
`BatchCLI()`, `Cmd*` the ways through `command()` for one line, `Do*` the ways
through one turn of `Do_Cmd()`, `GosubReturned` and `BatchReturned` the code
after the recursive call. A command that calls `BatchCLI()` pushes an
activation; the function's locals are its fields. `longjmp` is `Interrupt` or
`Raised` followed by `pc' = "cli"`: the activation that runs is always the one
that last called `setjmp()`. Undefined behaviour is a choice: with `bn = -1`
`BatchCLI()` tests `bframe[-1].lOffset` and may end or run wild.

Not modelled in these functions: echo, the debugger, REXX, command groups and
several commands on a line, exit codes (so also RETURN or QUIT with the values
of `BATCH_RETURN` and `ABORT_LINE`), and ^C between a function's return and the
next `setjmp()`. `LoadBTM` is its outcome here (it is in `Compression`); FOR,
SWITCH, conditions, GLOBAL, EXCEPT, SETLOCAL and redirection have modules of
their own.

### State of `Redirection`

| Variable | Code |
|---|---|
| `fd` | the handle table of the process: the file each handle is open on |
| `disk` | the temporary files of pipes that exist |
| `cmds` | the C stack: `command()` for the line, and one for a group or for the command of an IFF inside it, each with its `REDIR_IO` (`naStd`, `fPipeOpen`, `fIsPiped`, `pszOutPipe`, `pszInPipe`), its place in the line and the DOS calls it is about to make |
| `iff` | `cv.f.flag` for one level of IFF (nesting is in `Flags`) |
| `signals`, `fException` | whether `HoldSignals()` is in force, and `cv.fException` |
| `breaks` | how many more times ^C can be pressed (a bound, not code) |

A line is a sequence of stages `[op, io, sep]`: a command, group, IFF, ELSE or
ENDIFF, its redirections, and the separator that follows it. `pszLine` is the
number of a stage. A conditional that is not met stops *at* the separator that
follows the commands it leaves out, so the loop of `command()` runs an empty
command there, with the pipe if it is a `|`: `After` and the op `"empty"`.

### Actions of `Redirection`

Every DOS call is a step, as ^C is noticed in any of them. Calls made without a
branch between them (`_dup`, `_close` and `_dup2` in `redir()`, `dup_handle()`
and `open_pipe()`) are queued in `todo` and taken by the `Call*` actions;
creating, opening and deleting a file, which may fail, are actions of their own,
with one action per way out. `Interrupt` is `BreakHandler()`: it drops what is
left of the queue and goes where `longjmp()` goes, out of the loop of the
innermost `command()` to its `unredir()` and `killpipes()`. `error()` may return
or, with an ON ERROR, leave the same way (`Error`). `RunIff` is the return value
0x666 of `__if()`, after which `command()` goes on without `unredir()`.

Not modelled: `CLIP:`, the named pipes of other systems, the handle of
the batch file, and that
commands may open and close handles of their own.

### The other modules

| Module | Its variables in the code | Its actions |
|---|---|---|
| `Conditions` | `nCondition`, `fOR`, `fAND`, `fXOR` of `TestCondition()` | one test of the line each (`Bad`, `Combine`, `LastTest`), then what `__if()` does (`IffThen`, `IfRuns`, ...) |
| `Switch` | the line read, `pszTest`, `nNestingLevel` | one per kind of line that SWITCH, or a CASE that is executed, reads |
| `For` | the activations of `For_Cmd()`, the variables, how many handles, searches and temporary files are open | a turn of the inner loop up to the next DOS call; FORs as the commands of FORs; ^C, GOTO |
| `Expand` | the line as words, the place in it, the calls of `var_expand()` with their counters, `nRecursiveLoop` | one alias, or one turn of `var_expand()`; calls for arguments of functions |
| `Eval` | the current token, carried by the functions | the whole of `evaluate()` |
| `Compression` | position, frequencies, header, half a byte, buffer and output of BATCOMP; the memory of `LoadBTM()` | counting, a line, a character, a write, the header, a stop at any write, loading |
| `Environment` | the four lists, the slots of SETLOCAL, the command that runs | a command in as many steps as it has calls of `add_list()`, each of which may fail or raise an error; ENDLOCAL removes the variables and puts back the saved ones one by one; the change of directory at its end may fail |
| `Dirs` | current directories, `gaPushdQueue`, the history, JPSTREE.IDX | one per command and way out |
| `Prefix` | the activations of `_global()`; hidden files; current directory, and whether the shell is on another drive | entering a directory, the command, the next one; hiding, the command, unhiding, ^C in each |
| `Option` | INIFILE of the shell and of OPTION, `fINIUpdate`, the lines of the file | start, directives, a dialog, Use, one directive written, an error in the middle of it, the end |
| `CopyMove` | files, `cv.env`, the activations of `_copy()`, `_mv()` and `FileCopy()`, room on the disk | what happens between two DOS calls, each of which may fail or notice ^C |
| `FileCommands` | the same for DEL, REN, ATTRIB and TOUCH | the same |
| `Directory` | the switches, the activations of `GetDirectory()`, totals of two words, row and page | an argument, a search, the sort, a line of the display, a subdirectory, ^C |
| `Search` | FILESEARCH and the arguments of `find_file()` | one call of DOS |
| `Calendar` | a day | the next day: the module is its conversions |
| `Descriptions` | DESCRIPT.ION as lines and what of it is in the buffer | a command that changes a description, a block read and written back |
| `Editor` | the line, cursor, mark, completion loop; the block of the history and `glpHptr` | a key; `addhist()` in as many steps as it deletes entries |
| `List` | the two halves of the buffer, `lpEOF`, `lViewPtr`, `lCurrentLine`, wrap and hex | a key, with everything that it reads |
| `Select` | marks, the rows of the screen, the counter of marks, the command line | a key; a marked file |

Bounds that are not code carry names of their own: `Breaks` (how often ^C is
pressed), `MaxKeys`, `MaxPressed`, `MaxRuns`, `MaxChanges`, `MaxCommands`,
`MaxPushes`, `MaxLines`, `RowBound` (how far `lCurrentLine` of `List` is followed
when it runs off). Variables that are not code but record what the
properties speak of are commented as such (`was`, `failed` and `unset` in
`FileCommands`, `unset` in `CopyMove`, `failed`, `misused` and `seen` in `For`, `away` and
`gone` in `Prefix`, `entered` in `Editor`, `order` in `Select`, `wanted`, `saved`,
`due` and `foreign` in `Option`, `pushes`, `unlisted`, `made` and `missed` in `Dirs`).

## 4. What the runs show

| Run | Module | Properties | On |
|---|---|---|---|
| `batch` | `MCBatch` | `TypeOK`, `FrameBalance`, `EndDoHasLoop`, `LineAgrees`, `NoVariablesLeft`, `QuitIsFinal`, `CallerIsSuspended`, `CancelEnds` | 4,978 disks without ^C: subroutines (left by RETURN, QUIT, CANCEL, end of file; nested, recursive, from a CALLed file), every loop type with every exit, IFF and DO nested past the counters (2-bit counters, `FlagMod = 4`), CALL and chaining to the limit, recursion until the stack is full, and every file that begins with three of 17 lines |
| `breaks` | `MCBatch` | `HandlerDefined`, `QuitIsFinal` | 2 x ^C at any point, ON BREAK / ERROR / ERRORMSG commands that jump, call, return, quit, fail or do nothing; .BTM files that do not load |
| `redir` | `MCRedir` | `HandlesRestored`, `PipesFlow` | eleven lines with `\|`, `\|&`, `&&`, `\|\|`, `^`, each redirection and both `>&` kinds, a redirection and a pipe for the same handle, groups with pipes of their own, IFF / ELSE / ENDIFF between pipes; every call may fail, every command may raise an error |
| `control` | `MCControl` | `ScannedLeftToRight`, `RunsChosen`, `NothingLeft`, `SeesEach`, `ExpandsAll`, `EvaluatesRight`, `WholeOrRefused`, `Ends` | all lines of up to three tests with all operators, comparisons and groups; SWITCHes in the first and last branch of a SWITCH; FORs over every kind of set, with every kind of token list, nested (also `FOR /F` of a command), with files that cannot be opened and one ^C; two lines after each other with aliases that begin with aliases or with themselves, and variables and functions that stand for references; all pairs and triples of operators, signs, parentheses and every sequence of three tokens; nearly 500 batch files compressed with every switch and stopped at every write |
| `disk` | `MCDisk` | `EnvAlive`, `NoPartialTarget`, `NothingHeld`, `DoneAsTold`, `ListsRight`, `FindsAll`, `DescriptionsKept`, `SafeTransfer` | 18 COPY and MOVE commands on three disks with two amounts of room, 17 DEL, REN, ATTRIB and TOUCH commands on three levels of directories, 115 DIR lines (with /G in columns and in one) on three levels, all wildcards of up to three characters and lists, brackets, attributes, ranges and exclusions over nine or twelve names, 3,200 days, and two changes of descriptions; every DOS call may fail, also those whose failure the code does not look at (`SetFileMode()`), but for closing a file, setting its time and removing a partial target; one ^C may come in any |
| `session` | `MCSession` | `PlacesFollow`, `PrefixesReturn`, `ListsWhole`, `EndlocalRestores`, `CommandsEnd`, `OptionsFollow` | two drives with three levels of directories, one of which has a name that begins with another's; a tree of five directories, one of them hidden, for GLOBAL and two files for EXCEPT, one of them given with its directory, with commands that change directory and drive; lists of 16 and 17 bytes that two or three variables fill, two levels of SETLOCAL; four .INI files and three runs of OPTION with two changes by dialogs |
| `screen` | `MCScreen` | `HistoryWhole`, `CompletionKeepsRest`, `RowIsLine`, `ViewerReadsRight`, `ScreenShowsList`, `MarkedInOrder` | five sets of ten or more keys, seven keys long, over a history of twelve bytes; four files, one with a line as long as the margin and one whose last line has no end, over a buffer of eight bytes and a screen of three rows, with G also past their ends; lists of up to five files on two rows, four keys long |

The bounds and why they are enough:

* `batch`, `breaks`: 3 frames (`MAXBATCH`) are a base, a caller and a callee,
  so that "current", "one below" and "all" differ; 5 activations
  (`StackLimit`) allow every pair of GOSUB, DO and CALL nested in another.
* `redir`: eleven handles (`MaxFD`): three standard ones and the eight that a
  line, a group in it and one ^C can hold at once. With ten, TLC finds
  `HandlesRestored` false: `_dup()` fails, `naStd[]` becomes -1, which counts as
  a saved handle, and `unredir()` closes the standard handle instead of
  restoring it. Three names for pipe files are as many as exist at once (an
  input, an output and one that was left), or one more than a group needs; they
  are symmetric. One ^C is enough for a line, because `BreakHandler()` leaves the
  signals held until the loop of a `command()` or `main()` enables them again;
  the run goes on to further lines, so what the first left behind meets the
  second.
* `control`: three tests are what it takes for one operator to change what the
  next but one finds; a buffer of two bytes (`DataMax`) makes a file of six
  characters several writes; nibbles of three values make a table that does not
  hold all characters. Numbers have three digits and two places, so that the
  values overflow and round.
* `disk`: a copy buffer of two units (`Buf`) and files of two and three make
  full and partial reads; a room of 2 ends in the middle of a file;
  three levels of directories have an outermost, a middle and an innermost
  activation. Halves of totals hold 8 (`Word`), so that every total carries. The
  days are all of 1980 to 1984, of the years around 2000, and those up to 2099.
* `session`: in lists of 16 bytes any two commands may leave no room for a
  third. A second level of SETLOCAL is the limit (`Nest`), and is met.
* `screen`: a file is longer than the buffer, so that it slides both ways; a
  history of twelve bytes is full after three or four lines; a list is longer
  than the screen.
* `functions` is the run `session` with a function list smaller than the
  environment; the other parts have no behaviour in it.

What the properties mean:

* `TypeOK` is not only typing: `bn` and the counters are bounded by arithmetic
  that the code does by hand (`++`, `--` and limit tests in different
  functions), and an offset saved by GOSUB or DO is never -1.
* `FrameBalance`: open frames = active `Batch()` calls.
* `EndDoHasLoop`: `_do` is non-zero only if the running `BatchCLI()` was called
  by `Do_Cmd()`.
* `LineAgrees`: `uBatchLine` is the line at `lOffset` in every open file. It is
  checked without ^C: with it, it fails (section 6).
* `NoVariablesLeft`: no GOSUB variable is left at the prompt. The disks of
  this run contain no GOSUB that fails inside a subroutine with arguments; the
  code leaves variables behind then (section 6).
* `QuitIsFinal`: a file that was QUIT or cancelled never goes on; it is only
  closed. `CallerIsSuspended`: frames below the current one change only by
  being cancelled.
* `HandlerDefined`: when `BREAK_ON_ERROR` is pending the frame has a command.
* `CancelEnds` (liveness): once all files are cancelled, or the stack is full,
  the prompt comes back.
* `HandlesRestored`: when a line or a group ends, in whatever way, the standard
  handles are what they were; without ^C the whole handle table is. (A ^C
  between `_sopen()` and the last `_close()` of `dup_handle()` loses a handle.)
* `PipesFlow`: a running stage writes to the pipe opened for it, reads from that
  of the stage before, and these are two files; no pipe file is deleted while a
  standard handle is open on it.
* `ScannedLeftToRight`: `Conditions` implements `LeftToRight`.
* `RunsChosen`: a file executes what is outside of its SWITCHes or in the
  branches that they choose, by a definition of blocks that the code lacks.
* `SeesEach`: the command of FOR sees each member, number or line once, in order,
  with no word of an earlier line, and with no part of `tokens=` lost. `NothingLeft`:
  FOR leaves nothing open or set, and no temporary file if nothing ended it early.
  The usage error of a token range that runs backwards (`BATCH.C:1477`) returns past
  all cleaning up: `misused` counts these, each leaves at most one handle, and the
  rest is promised when there was none.
* `ExpandsAll`: a line becomes what it stands for, by a definition that reads
  it from left to right and does not rewrite it; functions at most ten deep
  for `command()`. `Ends` (liveness): FOR and the expansion of a line end.
* `EvaluatesRight`: the value is that of the documented precedence, for all
  expressions but those named in `Regular` (section 6).
* `WholeOrRefused`: what `LoadBTM()` runs is the whole text, or the file that
  BATCOMP did not touch; the output of a BATCOMP that stopped is refused.
* `EnvAlive`: `cv.env` belongs to a function that has not returned whenever
  ^C can be noticed.
* `NoPartialTarget`: no part of a file is left under the name of a target, on a
  full disk, after an error or after ^C.
* `SafeTransfer`: `CopyMove` implements `Transfer`: contents are dropped from
  one place only when they are in another, whatever fails.
* `NothingHeld`, `DoneAsTold`, `ListsRight`, `FindsAll`, `DescriptionsKept`:
  what the commands say, stated over the disk before and after, or over all
  that is in the directories. `DoneAsTold` has also that an append adds all of
  each file, and that what MOVE moves is read-only when it was. Three of its parts
  speak of attributes that the code sets and does not look whether it could
  (section 6): `unset` remembers the files of DEL, ATTRIB and TOUCH for which a call
  failed, and for COPY and MOVE whether one did; the parts promise the attributes of
  the others. The totals of `ListsRight` are exact, but for /G with /V:
  an entry that is shown before it is counted is counted with its clusters
  (`DIRCMDS.C:1213-1218`), and the total lies between the sum of the sizes and that of
  the clusters.
* `PlacesFollow`: JPSTREE.IDX has the directories of the disk, each once, but
  for those it was told not to have, and for those that the RD of a directory of
  which they have the name and more took along (`Namesakes`, section 6: they are
  in `missed` until something adds them again); POPD goes back along the PUSHDs.
* `PrefixesReturn`: when GLOBAL ends, the drive that it began on has its directory
  again, and it has missed none; EXCEPT hides nothing that it could show again. Two
  exceptions are the code's own (section 6): a command that changes the drive, for
  GLOBAL, and one that changes the directory, for names on the list of EXCEPT that
  do not say where they are (`Meant`; `Rooted` are those that do).
* `ListsWhole`, `EndlocalRestores`, `CommandsEnd` (liveness): lists keep within
  their memory and each entry is found by its name; ENDLOCAL brings back what
  SETLOCAL saved, and also the directory when it returns 0 and SETLOCAL could save
  one (`BATCH.C:2913`: `__cd()` may fail, and that is all that tells it); commands on a list end although they change it.
* `OptionsFollow`: the shell has what the user chose last and the file what was
  saved last, and nothing else in the file changes. A string typed with other
  capitals only is no choice (`OPTION.C:897`).
* `HistoryWhole`: every entry is a line that was once given to the list, whole.
  `CompletionKeepsRest`: the text around a completed name stays.
* `RowIsLine`: the two copies of the viewer's position agree: the row with the
  number `lCurrentLine` begins at `lViewPtr`. For files with a line as long as the
  margin (`Fills`), or with a last line that has no end (`Ended`), the code counts
  rows in two ways (section 6); for these the property is that the screen begins
  with a row. In hex the number is that of the 16 bytes, and rows are counted from
  the start or, after G behind it, from the end of the file.
  `ViewerReadsRight`: its buffer is a part of the file; INS reads all of it, FFIND
  every line, but with /R not a last one that has no end (`Unsearched`).
* `ScreenShowsList`, `MarkedInOrder`: what SELECT shows is what is marked, and
  the commands run are those of the marks, in their order.

**Fairness.** `FairSpec` of `Batch` adds weak fairness of `Processor`, the
disjunction of everything the program does by itself. The program is a single
thread that never waits in these functions (except for the answer to ^C, and
`batch` has no ^C), so it keeps taking steps. Nothing is assumed of the user at
the prompt, nor of the outcome of conditions: a loop may go on for ever, which
is why termination is claimed only after a cancellation. `ControlSpec` has weak
fairness of the steps of FOR and of the expansion, `SessionSpec` and
`Environment` of the steps of a command that runs, `Editor` of those of
`addhist()`, for the same reason.

**Deadlock.** The runs of commands that end, each behaviour being one command
or one session of bounded length, have `CHECK_DEADLOCK FALSE`. `batch`,
`breaks`, `redir` and the runs on them check it.

**Composites.** In `MCControl`, `MCDisk`, `MCSession` and `MCScreen` a variable
says which component a behaviour is about, and the variables of the others stay
as they are. The components share no state in the code either (a command runs
after another); the composite only puts their questions into one run.

**Mutants.** For each property `PROJECT.json` names a change to the code that
breaks it (flags not reset by GOSUB, a ^C in `FileCopy()` that keeps the target,
strings moved without their offsets, ...). The alternative definitions stand
next to the originals, marked `Mutant:`.

### Disagreements with the manual, or with a comment

Each run checks one sentence on one small input; TLC finds the shortest way to
break it.

| Run | Promise | What happens |
|---|---|---|
| `return_after_goto` | RETURN ends the subroutine (4DOS.TXT:20239) | after a GOTO out of two nested loops it ends a `Do_Cmd()` instead (`BATCH.C:1652`) |
| `iff_pipe` | after a piped command "output will revert" (4DOS.TXT:2273) | `IFF 0==1 THEN dir \| more ^ ENDIFF ^ dir \| sort`: the IFF that is false keeps its pipe open for the next command, which is left out; the second pipe overwrites the saved handle and STDOUT stays on the first file (`PARSER.C:807`) |
| `functions` | the size of the function list is that of the directive Function (4DOS.TXT:10189) | `add_list()` bounds it by the size of the environment and writes past its end (`ENV.C:661`) |
| `history` | the oldest commands are discarded to make room (4DOS.TXT:1166) | for a command that is almost as long as the list `addhist()` goes on deleting nothing, for ever (`EXPAND.C:4800`) |
| `list_end` | the test "already at file end?" (`LISTALL.C:1567`) | going back from a short last block loses the mark of the end of the file (`LISTALL.C:1548`) |

## 5. What is proved

The theorems hold for every value of the constants that the assumptions allow:
any files and lines, any disk, any list, any limit, any number of ^C.

| Theorem | Property |
|---|---|
| `Batch_proofs!Invariant` | `Spec => []IInv` |
| `Batch_proofs!TypeCorrect` | `[]TypeOK` |
| `Batch_proofs!EndDoReturnsToLoop` | `[]EndDoHasLoop` |
| `Batch_proofs!HandlerIsDefined` | `[]HandlerDefined` |
| `Batch_proofs!FramesBalance` | `[]FrameBalance`, assuming that `LoadBTM()` does not fail |
| `Batch_proofs!QuitStays` | `QuitIsFinal` |
| `Batch_proofs!CallersWait` | `CallerIsSuspended` |
| `Batch_proofs!LinesAgree` | `[]LineAgrees`, when ^C is never pressed |
| `Batch_proofs!LinesFallBehind` | `[]LinesBehind`: with ^C the line number never runs ahead of the offset, and falls behind by at most as many lines as ^C was pressed |
| `Conditions_proofs!LeftToRightScan` | `ScannedLeftToRight`: `Conditions` implements `LeftToRight` |
| `CopyMove_proofs!Invariant` | `Spec => []IInv` |
| `CopyMove_proofs!TypeCorrect` | `[]TypeOK` |
| `CopyMove_proofs!EnvStaysAlive` | `[]EnvAlive` |
| `CopyMove_proofs!SearchesStayClosed` | `[]SearchesClosed` (a part of `NothingHeld`) |
| `CopyMove_proofs!NoPartialTargetLeft` | `[]NoPartialTarget` |
| `CopyMove_proofs!NothingIsLost` | `SafeTransfer`: `CopyMove` implements `Transfer`, for commands that satisfy `Separate` |
| `Environment_proofs!Invariant` | `Spec => []IInv` |
| `Environment_proofs!TypeCorrect` | `[]TypeOK` |
| `Environment_proofs!ListsStayWhole` | `[]ListsWhole` |
| `Environment_proofs!EndlocalBringsBack` | `EndlocalRestores` |
| `Redirection_proofs!Invariant` | `[]IInv`, under the two conditions of the next line |
| `Redirection_proofs!HandlesComeBack` | `[]HandlesRestored`, while some handle is free (`NeverFull`) and if no IFF is piped (`NoIffPipes`) |
| `Redirection_proofs!FilesKeptApart` | `[]FInv`, under the same two conditions |
| `Redirection_proofs!PipesKeepTheirFiles` | `[]PipesFlow`, under the same two conditions |
| `Select_proofs!Invariant` | `Spec => []IInv` |
| `Select_proofs!ScreenStaysRight` | `[]ScreenShowsList` |
| `Select_proofs!CommandsInOrder` | `[]MarkedInOrder` |
| `Prefix_proofs!Invariant` | `PrefixSpec => []IInv` |
| `Prefix_proofs!PrefixesPutBack` | `[]PrefixesReturn` |
| `For_proofs!Invariant` | `ForSpec => []IInv` |
| `For_proofs!ForLeavesNothing` | `[]NothingLeft` |

Each inductive invariant was checked by TLC on a small instance before it was
proved.

### Batch files

The assumptions are: a line's continuation after IF is a line, the argument of
CALL is a file and that of ON a line; every disk maps files to sequences of
lines; the limits are positive, and `GosubArgs` is below the range of an
`unsigned int`. For the conditions: the tests of a line are a sequence of which
the first and no other follows IF, and the value that stands for "no .XOR." is
none that a condition has.

None of the properties of `Batch` is inductive. `IInv` adds what they depend on:

* `PcOK`: the prompt is exactly the empty stack; a command runs only with a
  frame open that has not been QUIT, and with no exception pending. This is
  what makes every command's use of `bframe[cv.bn]` meaningful.
* `ErrorOK`: `BREAK_ON_ERROR` is pending only at the loop of a `BatchCLI()`,
  in a frame with a handler that has not been QUIT. `error()` tests the frame
  that is current; the proof shows that every way from there to the loop keeps
  that frame and its handlers.
* `NamesOK`: open frames name real files, so that their bodies are sequences.
* `CallsOK`: the bottom activation is a `Batch()`; `_do` is non-zero only
  under a `Do_Cmd()`; and the flags an activation has saved have `_do`
  non-zero only if a `Do_Cmd()` is next below it. The last part is the one
  that makes the restoring of flags on return sound.
* `CountOK`: `bn + 1` is at most the number of `Batch` activations, and equal
  to it when loads do not fail. This gives `bn = -1` at the prompt.

The proof has one lemma per action or group of like actions. Actions that
leave the stack alone go through `SameStackStep` (and `NextLineStep`,
`FailStep`, `BatchReturnStep` for the three ways a command ends); calls and
returns through `PushStep` and `PopStep`, where the cardinality of
`BatchActs` is counted. For the two action properties every step is shown to
satisfy `FramesStep`: either the frames are untouched, or only the current
one changes and it was not QUIT (`OnlyCurrent`), or some are cancelled and
nothing else (`OnlyCancelled`), or the step opens or closes the top frame.

The line numbers have an invariant on top of it, `LinesOK`: in every open frame,
and in every position that an activation saved, the line is at most the offset
and behind it by at most the number of ^C so far. The bound is over both
because RETURN and the loops copy saved positions back into the frame. With no
^C the two are equal, which is `LineAgrees`.

The refinement of `Conditions` rests on an invariant of its own, which says what
the three flags mean: `Pending` (before a test that follows .OR., `fOR` is the
condition so far, `fAND` and `fXOR` are clear; and so on for the other
operators) and `Signs` (a condition is negative only after a group with a
mistake). With it each step of the scan is one step of `LeftToRight`, and what
`__if()` does afterwards a stutter.

### COPY and MOVE

`CopyMoveAssumption` says what kind of thing each constant is: the buffer has at
least one unit, disks map paths to files or nothing, and what is on them is some
of `Contents`; a command has at least one argument. `IInv` is a conjunction of

* `ShapeOK`: the activations of `_mv()` are one per level of subdirectories, all
  but the last waiting for the one below; `FileCopy()` runs only under a worker
  that copies;
* `FileOK` and `CopyOK`: what an activation has found out about its file and has
  not tested again is still so at each of its later DOS calls (the source exists,
  it is not the target, the open target exists);
* `EnvOK`: which function's `setjmp()` is the last at each of these places;
  `EnvAlive` follows, and would not be inductive, as it does not say to whom a
  `longjmp()` from a place further down goes;
* `SearchOK`: for MOVE, which worker a ^C comes back to, so that the search
  that is open is the one that this worker closes;
* `PlainOK` and `PartOK`: every file is whole but for the target of an active
  `FileCopy()`, and of that one exactly `fc.pos` units of the source are written
  and the buffer holds the next ones. Every way out of `FileCopy()` completes
  the target or deletes it.

### COPY and MOVE implement Transfer

`Transfer` says that no step takes the last of the files that have some
`Valuable` contents. A user can ask for just that (`MOVE a.txt c.txt` and
`MOVE b.txt c.txt` in one command), so the theorem is about commands that do not.
`Goals` are the files the command may write: those of the target's directory, and
with /S of the directories below it, with the names of the sources or the one
name that was given. `Separate` is a condition on the command and the disk before
it starts:

* all `Valuable` contents are in some file that is not among the goals;
* for MOVE also `MovesApart` (the targets have the names of the sources, no
  source is itself among the goals, /W is not given, and no directory is renamed
  as a whole) and `Distinct` (no two files that exist have the same goal).

A COPY may be of any kind: ASCII or binary, to one name, /S, /W. What can go
wrong on the way is included: the disk is full, a call fails (`SetFileMode()` too,
whose result nobody looks at: `unset` says that it happened, and only
`StaysReadOnly`, which is not proved, depends on it), ^C comes in any
DOS call, also within the recovery from another.

`SafeInv` is `IInv` of COPY and MOVE with

* `PlacesOK`: each activation of `_copy()` and `_mv()` is in a directory of the
  current argument, and in the one of the target that belongs to it, so that
  the file it writes is the goal of the one it reads. With /S this is a fact
  about the names of directories, which are sequences (`OneMore`, `BelowBelow`);
* `SameOK`: from the end of the loop of `FileCopy()` without an error to the
  `remove()` of the source, the target has the contents of the source. It is
  the part that `PartOK` is needed for;
* `KeptOK`: all `Valuable` contents are in a file that is `Spared`. For COPY
  this is a file that is no goal. For MOVE it is one that is not the goal of
  any source that still exists: when a source goes, its contents are in its goal,
  and this is spared from then on, because no other source has the same goal.

`StepOK` says for every step of the commands which of four things it does to the
contents of files (`DataStep`: nothing, it writes the target, renames the
source to the target, or removes a source that has an equal target);
`StepKeeps` derives `KeptOK'` and the step of `Transfer` from that alone. 13 of the
18 commands of the run `disk` satisfy `Separate`, and TLC found `SafeInv` to
hold on all 183,544 states they reach.

### Lists of variables, SETLOCAL and ENDLOCAL

`EnvironmentAssumption` (evaluated by the module of the run `session`): a name
finds an entry of the same name; the lists fit at first, with each entry found
by its name; the commands typed are commands. The matching of alias names
(`Finds`) is any such relation, so abbreviations are included.

The size of a list is a fold over it. Nothing can be proved by induction over a
fold here, so `UsedCells` proves first that the size is the number of bytes:
a set with one element for each byte of each entry, whose cardinality can be
reasoned about. `UsedAppend`, `UsedPut` and `UsedRemoved` then say what each
change in `add_list()` does to the size. `IInv` is a conjunction of

* `ListsOK`: each list fits, no entry hides a later one, and no value is empty.
  The test of `add_list()` against the size of the list minus 4 is what makes
  the first part inductive;
* `SlotsOK`: what SETLOCAL saved is such a list. The copy of the environment may
  be a part, and need not fit;
* `EndingOK`: an ENDLOCAL that is at work has its slot, and what is left to be
  restored is the end of what was saved;
* `RemoveOK` and `RestoreOK`: while variables are removed the exported ones
  stay; while the others are put back, the environment is the exported ones and
  those put back so far. That no saved variable finds one that is there already
  needs `SlotsOK`.

### Redirection and pipes

Any lines and groups, nested to any depth, any number of handles and pipe files
and any number of ^C. The assumptions say that a line is a sequence of stages of
which the last and no other has no separator, that the handle table has the
three standard handles, and that what stands for "no file" is no file.
`HandlesRestored` is false without the two hypotheses, and for two reasons that
TLC shows:

* `NoIffPipes`: no IFF ends at a `|`. With one that is false, the next
  `open_pipe()` overwrites the saved handle (run `iff_pipe`). IFF between
  pipes, with its own activation of `command()` or without, is included.
* `NeverFull`: in no state are all handles taken. When they are, `_dup()` gives
  -1, which counts as a saved handle (the bounds of `redir`, section 4). On the
  lines of the run the table of twelve handles never fills. With the eleven
  that the run has it does, and there TLC shows the property without this
  hypothesis. The calls that open a file may fail for any other reason.

The property speaks of the end only. What must be known on the way is who owns
each handle, at every DOS call, as ^C may end the line at any of them:

* `Keeps(c, t)`: what the activation c of `command()` keeps in the handle table
  t. The handles that its callers had open are as they were; a standard handle
  that is not saved is the one it began with; one that is saved is in a handle
  that was free then, and no two are in the same. A handle may be written only
  if it is nobody's or saved (`Writable`), and `KeepsWrite`, `KeepsSave` and
  `KeepsRestored` say that the three kinds of change keep it.
* `Doing(c, t, s)`: what is left of the queue of calls is the end of one of the
  sequences that the code makes, and the handles these will use are still open,
  saved or closed as they need it; s are the handles that are open for a moment
  and will be closed again: the copy that `dup_handle()` makes to flush a file,
  and the file of a pipe before it becomes a standard handle.
* `Whole(c, t, s)`: until ^C is first pressed nothing else is open than what was,
  what is saved, and s.
* `Waits`: an activation that waits for a group keeps all this in the table
  with which the group began. `Keeps` of the two together gives `Keeps` for the
  caller when the group returns (`KeepsReturned`).

There is one lemma for each kind of queue (`MovingStep`, `TakingStep`,
`DoublingStep`, `OpeningStep`, `RestoringStep`), from which `DoingStep` follows
for every DOS call, and one for each step of `command()`. Every way out of its
loop, with an error, a control code, an exception or ^C, begins an `unredir()`
that has still to do what is saved (`BreakStep`), whatever of the queue is lost.
That `redir()` gets its file on the handle it has just closed needs that DOS
gives the lowest that is free (`NewHandleFresh`, `OpenedAt`).

`PipesFlow` is about files, and handles alone do not say which of them a standard
handle is open on. `FInv` adds it, again for every activation of `command()` and
at every DOS call; `PipesAssumption` keeps the names of pipe files apart from the
other files of the model:

* `Apart`: no two activations have a pipe file in common, a standard handle is
  open on what the activation found when it began or on one of its own files, and
  `pszInPipe` and `pszOutPipe` are two files but between the end of a stage and
  the next `open()`, where they are one;
* `InputFlows` and `OutputFlows`: what the standard handles are open on while the
  stage is prepared and runs. Both are false while a call is still queued that
  moves a file to the handle, so they say which (`MovesTo`), and from where;
* a file that will be deleted is on no standard handle: `unredir()` has restored
  them before `killpipes()`, which is where `Keeps` is needed.

`Inherits` is what makes it work for groups: the files that an activation finds
on its standard handles belong to those that wait for it, and are none that it
will make or delete.

### SELECT

The lists are sequences of any length of files with any names, the screen has
any number of rows, and nothing bounds the keys but `MaxPressed`
(`SelectAssumption`: there is a row, a line has room for a name, a bracket or a
parenthesis begins the list).

Nothing in the program says in which order files were marked. They have numbers,
from a counter that goes on while marks are taken away and given again, starts
again at 0 with `/`, and jumps with `*`; the commands follow the numbers.
`MarksRight` relates them to `order`, the list of the files that are marked as
the user would write it down: the numbers increase along it, no number is above
the counter, and what is not in it has the number 0. It follows that the files of
`order` are those that are marked, and as many (`OrderIsMarked`, with a
bijection), so that `uLength`, which `dirprint()` adds up from the marks, is what
the command line will have. There is a lemma for each change: a mark is added
(`MarkAdded`), taken away (`MarkTaken`, over `RemoveAt`), or all of them are
reversed (`ReversedRight`: the numbers of `*` are those of the list, with no gap,
as the map from a file to the number of those before it is a bijection).

While the commands are run, `Done(c)` says that the first c files of the order have
their command, and that c is the number of those whose mark is below the one that
is looked for. Numbers without a file (marks that were taken away) leave c as it
is; `NextIsFound` shows that a number with a file has the next of the order.

The screen is printed by pages or by lines, and the lines by position:
`RowsRight` says what each row shows and which line at most is in inverse video.
`LineDrawn` sets one row right on a screen on which all others are, `Scrolled`
says which rows stay right, and `MovedRight` puts the three steps of an arrow key
together: what comes into sight by a scroll must be the new line, which
`DownInPage` and `UpInPage` prove from `nDirLast`, the last line that the print
before has computed.

### GLOBAL and EXCEPT

The directories are any set of sequences of names in which one is the top one
and each other is in another (`PrefixAssumption`), some of them are hidden, and
the commands may fail, leave the batch file's place, remove directories, change
to another one or to another drive and be interrupted any number of times. The
last `chdir()` of GLOBAL may fail too; `gone` has the directories where this or a
command of another drive kept it from what it should do.

That GLOBAL misses no directory is a statement about its end, and each activation
of `_global()` knows only its own search. `Walk` says what holds on the way: of
each directory that was visited, those in it were visited or are being visited,
or an activation for it is still there that has not found them yet. When the
stack is empty the last cannot be, so whatever was visited has all that is in it
visited (`AllVisited`: of the directories that GLOBAL should reach and missed, one
that has the least length would be in one that was visited).

An activation that ends its search must have found all there is, and this is not
a matter of its own: all activations write into one path, `find_file()` gives
nothing without a wildcard in it, and a directory that is found overwrites the
wildcard. `Searching` says that whenever an activation goes on with its search the
one below it has put a wildcard there again, unless the batch file went elsewhere
or a directory could not be entered. These are the cases in which directories are
missed, and `PrefixesReturn` promises none then.

`Waiting` has that all activations but the last are in their loops and that an
error of the last goes up through all of them. `Hiding` says of EXCEPT that while
it unhides no file that its list still means (`Meant`) is hidden but those it has
still to come to and those that cannot be set; ^C makes it begin again with all of
them. `Meant` does not change while it unhides, as only the command changes `cwd`.

### FOR

`NothingLeft` is about the end of the outermost FOR, when no activation of
`For_Cmd()` is there any more to ask. `IInv` counts over the stack: `open` is the
number of activations with `hFH` set, `searches` that of activations at their
names (`Looking`), `temps` that of activations with `fDelete`, and every
variable that is set belongs to one of them. When the stack is empty all of this
is none. `StacksCount` says how the counts change when one place of the stack
does, so that each action needs only what it does to its own activation.

Three of the counts are not exact, and `IInv` has to say when. The usage error of
the tokens (`Misused`) takes an activation away and leaves its handle: `open` is at
most `misused` more than the handles of the activations, and what variables belong
to is only said while `misused` is 0. ^C in the search for
a first name leaves a search that no activation knows of; after it `breaks` is
less than `Breaks`. And an activation of `FOR /F` of 'command' that is stopped
returns with its temporary file in place. That it did must be remembered when it
is gone: either by `jumped`, `failed`, `misused` or `fException`, which stay, or by
`ABORT_LINE`, which `command()` hands to the FOR around it. For that one `EndsInv`
has that all activations but the last are in their loops and that the last is
stopped by what it was handed, so `ABORT_LINE` comes up as what it returned. The same is
shown of ^C, that it makes the outermost FOR return `CTRLC`.

The first version of `NothingLeft` had no `failed`, and the proof of `Open` did not go
through: an inner `FOR /F` of 'command' whose file cannot be opened leaves it
(`BATCH.C:1432`), the FOR around it goes on and may return 0. The set of loops
that TLC checks did not nest such a FOR; it does now (`Inside`), and TLC finds
the counterexample when `~failed` is taken out of the property.

`LoopsAssumption` asks of the commands only that the body of a FOR is a FOR again, if
it is no other command, and that what 'command' displays is one file.

### What stays model-checked

* `NoVariablesLeft` holds for the disks of the run only (section 4).
* `SafeTransfer` of commands outside `Separate`: MOVE /W, MOVE to one given
  name, and directories that MOVE renames as a whole. The run `disk` has them, and
  for them it holds only of contents chosen so that they can be told apart. So do
  the parts of `DoneAsTold` on COPY and MOVE.
* `CancelEnds`, `CommandsEnd` and `Ends` are liveness and out of the prover's
  reach.
* What `Expand`, `Eval`, `Search`, `Directory` and `Compression` compute is
  defined by recursion over data, and a proof would be an induction over it,
  which the installed provers cannot instantiate; `Eval` and `Compression` also
  use `Bitwise`.
* `SeesEach` of `For`: what the command should see is defined over the members and
  lines by recursion over data, as above.
* The properties of the other modules: `Switch`, `Dirs`, `Option`, `Editor`,
  `List`, `FileCommands` have no proofs.

## 6. Further observations

Met while modelling, and not shown by a run of their own. Where the code does
something else than one would expect, the modules do what the code does, and the
property says so or is stated for the rest.

Batch files:

* A file that is run without CALL from a subroutine is rewound to where the old
  one called GOSUB (`BATCH.C:1614`); when it is a .BTM file that cannot be
  loaded, `cv.bn` is one too low and `BatchCLI()` runs in the caller's frame, or
  in none (`BATCH.C:131`).
* ^C in the `_lseek()` of `getline()` loses the line, whatever the answer
  (`PARSER.C:463`; 4DOS.TXT:3971).
* A missing label in a subroutine does not end the batch file
  (`BATCH.C:1771`), where 4DOS.TXT:17280 says it does.
* GOSUBs with arguments can be nested 23 deep (`BATCH.C:1741`); 4DOS.TXT:17209
  gives another number. 4DOS.TXT:23208 speaks of 10 levels of batch files,
  13163 of 16.
* At 16 levels a chain, which needs no frame, is refused (`BATCH.C:85`).
* GOSUB variables of a CALLed file replace its caller's (`BATCH.C:1752`).
* A GOSUB that fails, or is interrupted while it looks for its label, in a
  subroutine with arguments leaves that subroutine's variables in the
  environment (`BATCH.C:1593`).
* An ON command raised while an IFF or DO is being skipped is skipped too
  (`PARSER.C:282`). IFF or DO with a bad argument is not counted
  (`BATCH.C:1797`).
* A batch file that is deleted in its own DO FOREVER loops for ever
  (`PARSER.C:326`).
* ^C while a file is closed at the end of a subroutine or loop body cancels
  the file without the question 4DOS.TXT:3965 promises.
* QUIT and RETURN with 0x7ABC or 0x0FFF as exit code are taken for
  `BATCH_RETURN` and `ABORT_LINE` (`BATCH.C:1630`); DO x = a TO b wraps when b is
  the largest LONG (`BATCH.C:852`).
* When the first stage of a line fails after its pipe was opened, nothing deletes
  the temporary file (`PARSER.C:835`; 4DOS.TXT:2278).
* IF: a group with a mistake counts as true, under NOT too; `IFF 0==1 THEN (a)
  ELSE (b)` skips b. SWITCH: "switch " is counted only where a line begins with
  it, and a DEFAULT in front of the matching CASE wins.
* FOR: the file of `FOR /F` of a command stays after ^C, GOTO or when it cannot
  be opened (`BATCH.C:1432`); a token range
  that runs backwards (`tokens=3-1`) is a usage error only when the first line is split
  (`BATCH.C:1477`), which leaks the handle and leaves the temporary file and the
  variables of the tokens before it; `tokens=*` sets the variable after its own to the
  whole line too (`BATCH.C:1472-1475`, then `1505`); `skip=` counts over all files (4DOS.TXT:16714);
  /F over wildcards runs the command without its variables (4DOS.TXT:16736); a
  FOR in a FOR with the same variable removes the outer one's.

Lines and expressions:

* An error in `var_expand()` leaves `nRecursiveLoop` as it is. A variable that is
  found in its own value skips the test of the length and the rest of the line
  (`EXPAND.C:1027-1040`).
* `%@EVAL`: "+" makes a negative value in parentheses positive; -4 MOD 2 is 2
  (`EVAL.C:309`); a negative number ** 0 is -1 (`EVAL.C:276`); a missing operand
  is 0; what follows a complete expression is ignored; rounding up past the last
  digit shows ":".

Directories:

* RD removes the line of a directory from JPSTREE.IDX and those after it, up to the
  first that does not begin like it: after `RD C:\foo`, `C:\foobar` and what is below it are gone from the
  database although they are on the disk (`SYSCMDS.C:343-350`).
* EXCEPT looks for the names of its list in the directory in which the command has
  left the shell (`SYSCMDS.C:1848-1856`): after a CD its own files stay hidden, and
  hidden files of those names that are there become visible.
* The `chdir()` of GLOBAL does not change the drive (`SYSCMDS.C:1699`, `1720`): when a
  command changes it, the commands after it run on the other drive and the shell
  ends there (4DOS.TXT:29613 says that the original directory is restored).
* When ENDLOCAL cannot go back to the directory it displays nothing (`CD_NOERROR`,
  `BATCH.C:2913`), and returns the error; that of the ENDLOCAL at the end of a batch
  file is dropped.

Files:

* TOUCH /F takes the attributes of a file and gives them back without looking
  whether either was done (`FILECMDS.C:2781-2796`): it may give a file those of the
  one before, or leave it without its read-only bit. MOVE and COPY do not look at
  `SetFileMode()` either (`FILECMDS.C:1133`, `1538`).
* DIR /G rounds the size of an entry when it shows it; in the columns of /V it counts
  it only later (`DIRCMDS.C:1213-1218`), so that the total has some sizes rounded and
  some not.
* DIR /I with no matching description sorts zero entries (`DIRCMDS.C:2350`); the
  sizes of files near 4 GB wrap when rounded (`DIRCMDS.C:1172`); an error leaves
  `uRecurse` set (`DIRCMDS.C:1487`); `ReallocDir()` leaves pointers to names
  (`DIRCMDS.C:173`).
* Wildcards with long names: "?" does not stand for a ".", "?" after "*" is
  dropped, and a file is found once for each entry of a list that it matches. A
  reversed range of dates has its ends changed (`MISC.C:1194-1198`); dates
  before 1980 or after 2099 are not set (`MISC.C:1204`); a list in a file ends
  at an empty line.
* Descriptions: a last line without an end is lost (`MISC.C:3176-3242`); when
  memory runs out ^C stays disabled (`MISC.C:3037`); `GetDescriptions()` goes on
  with a NULL (`DIRCMDS.C:2527`).
* Compressed files: `BATCOMP.C:309` tests 0xBEEB and writes 0xEBBE; a file
  whose lines end with LF loses them; a line of 1,024 characters overruns the
  buffer by one, characters above 127 index the table from below; a signature
  that does not match leaks two buffers (`BATCH.C:332`), and `LoadBTM()` may free
  an address that was never set (`BATCH.C:257-260`).
* `AllocMem()` clears the block it allocated also when it allocated none: the
  interrupt table (`DOSCALLS.C:639`). It rounds sizes above 0xFFF0 to 0
  (`DOSCALLS.C:605`); `ReallocMem()` frees the block when it cannot enlarge it
  (`DOSCALLS.C:682`).

Screen and configuration:

* With `HistMove` the pointer into the history is not moved with it, and TLC finds
  `HistoryWhole` false: it is checked with `HistMove = FALSE`.
* SELECT: the result of a command overwrites that of the commands before
  (`SELECTC.C:149-154`); `szSearch` overflows at 32 characters
  (`SELECTC.C:405-408`); RETURN after marking and unmarking runs nothing.
* LIST: a wrapped line that is exactly as long as the margin is one row for
  `MoveViewPtr()` (`LISTALL.C:1098-1104`) and two for `ComputeLines()`
  (`LISTALL.C:964-968`), so that `lCurrentLine` is off after a search or on leaving
  hex, more each time, and may become negative. A CR at the margin stays on its row
  going forward (`LISTALL.C:1101`), is a row of its own going back
  (`LISTALL.C:1161`), and is counted by `ComputeLines()`. G past the end of a file
  whose last line has no end goes behind it, with the number of the last row
  (`LISTALL.C:1117-1120`); in hex it leaves rows that begin at no multiple of 16
  (`LISTALL.C:1194-1197`). FFIND /R does not search a last line that has no end
  (`LISTALL.C:522-526`). Changing the tabs, or the line numbers of lines that are
  not wrapped, computes no row again (`LISTC.C:416-434`, `610-616`).
* The dialogs of OPTION compare strings by `stricmp()`: to change "a" to "A" the
  string must first be changed to something else (`OPTION.C:897-899`).
* OPTION: a directive given by "//" to an item that has been used before is saved
  by a later Save, where the manual says it never is; a last line without an end
  gets the directive glued on (`INIIO.C:225-236`, the model's files end with an
  end of line or ^Z); more than 32,768 bytes behind a directive are lost, and a
  full disk is not noticed. Of two directives of one name the first in its section
  is replaced and the last is the one that is read. A dialog accepts a path that
  reading rejects (the model offers directories only). OPTION gets 64 bytes of
  the table of keys, so that more than 16 mappings corrupt it (the model stays
  below).

The full list of what is hard to test, with the property that covers each, is
under `hazards` in `PROJECT.json`.

## 7. Not modelled

* What only reads and displays: TYPE, HEAD, TAIL, TREE, the windows of
  `WINDOW.C`, colors, help. Their state is a screen.
* Batch commands that ask or draw (INPUT, INKEY, DRAWBOX, ...), SHIFT, and the
  debugger.
* The DOS memory allocator below `AllocMem()`. Modules that call it have its
  outcomes.
* The assembler: loader, swapping, resident server, KSTACK, the stubs of INT 23h
  and INT 24h. ^C is modelled where the shell notices it; the critical error
  handler is a DOS call that fails. `INIPARSE.ASM` is represented by
  `IPARSE.C`, its version in C.
* The installer, the help viewer, the run-time library and the digests.
* In the modules: names and texts are members of small sets, formats and
  messages are left out; REXX, network drives, devices, CLIP:, long command
  lines of other shells; the internal variables and groups in `Expand`; digits,
  hexadecimal and separators in `Eval` (a number is a token); the cipher of
  `Compression` (a pad per position); tabs and CRs in front of wrapped
  rows, lines longer than the buffer of a line (`MAXLISTLINE`), search
  with wildcards, horizontal scrolling and LIST of a pipe in `List`;
  `INIQuery` and the drawing of dialogs in `Option`; seconds in `Search`.
