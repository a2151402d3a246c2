-------------------------- MODULE CopyMove_proofs --------------------------
(***************************************************************************)
(* What holds of COPY and MOVE for all disks and commands, for a buffer of *)
(* any size, any room on the disk of the target and any number of ^C: the  *)
(* types of CopyMove, that ^C never longjmps into a function that has      *)
(* returned (EnvAlive), that MOVE closes every search (SearchesClosed) and *)
(* that no part of a file is left (NoPartialTarget).                       *)
(*                                                                         *)
(* None of them is inductive.  Where longjmp() goes depends on which       *)
(* activations there are and on what each has done last (ShapeOK, EnvOK);  *)
(* what a ^C leaves open, on whose setjmp() the last one was (SearchOK);   *)
(* and what is in a file while it is written, on what FileCopy() has read  *)
(* (CopyOK, PartOK).                                                       *)
(***************************************************************************)
EXTENDS CopyMove, SequenceTheorems, FiniteSetTheorems, WellFoundedInduction, TLAPS

\* A worker that has found a file; one that has not touched it yet.
FilePlaces == {"check", "ask", "op", "copy", "copied", "next", "rename", "clear", "again", "remove", "moved"}
SourcePlaces == {"check", "ask", "op", "copy", "copied", "rename", "clear", "again"}
MovePlaces == {"rename", "clear", "again", "remove", "moved"}

WorkerOK(f) ==
  /\ f.at \in {"entry", "find"} \cup FilePlaces => f.seen \subseteq Names
  /\ f.at \in {"dirs", "subbed"} => f.seen \subseteq Dirs
  /\ f.at = "entry" => ~f.hdir
  /\ f.at \in FilePlaces => f.name \in Names

\* The workers: only the last one is at work, and each works below the one that
\* called it.
ShapeOK ==
  /\ stack # <<>> <=> top.at = "work"
  /\ top.at \in {"work", "returned"} => top.arg <= Len(cmd.args)
  /\ \A i \in DOMAIN stack : WorkerOK(stack[i]) /\ (i < Len(stack) => stack[i].at = "dirs")
  /\ \A i, j \in DOMAIN stack : i < j => Len(stack[i].src) < Len(stack[j].src)
  /\ fc # NULL => stack # <<>> /\ Cur.at = "copy"

\* What the last worker knows of its file.
FileOK ==
  stack # <<>> =>
    /\ Cur.at \in SourcePlaces => Exists(Source)
    /\ Cur.at \in MovePlaces => Moving
    /\ Cur.at \in SourcePlaces \ {"check", "copied"} /\ Moving => Source # Target

\* FileCopy(): the target, once it is open.
CopyOK ==
  fc # NULL =>
    /\ fc.at \notin {"start", "exit"} => Source # Target
    /\ fc.at \in {"seek", "read", "write", "time"} => Exists(Target)

\* cv.env: where it must be alive.
EnvOK ==
  /\ fc # NULL /\ fc.at \notin {"start", "exit"} => env = FileCopyEnv
  /\ fc = NULL /\ stack # <<>> /\ Cur.at \notin {"copied", "subbed"} => Alive(env)
  /\ stack = <<>> /\ top.at \in {"setup", "args", "finish"} => Alive(env)

\* MOVE: a ^C finds the setjmp() of the worker that is working, or, before its
\* first one, that of its caller.
SearchOK ==
  Moving =>
    /\ top.lost = 0
    /\ fc = NULL /\ stack # <<>> /\ Cur.at \notin {"copied", "subbed"} =>
         IF Cur.at # "entry" THEN env.of = "worker" /\ env.src = Cur.src
         ELSE IF Len(stack) = 1 THEN env \in {CommandEnv, TopEnv}
         ELSE env.of = "worker" /\ env.src = stack[Len(stack) - 1].src

\* A command whose targets are files of their own.
Plain == Binary /\ ~cmd.plus /\ cmd.name = "*"

\* Plain commands create each target; only the target of an active FileCopy()
\* can be in part.
PlainOK ==
  Plain =>
    /\ "CREATE" \in flags /\ "APPEND" \notin flags /\ top.tname = "*"
    /\ \A p \in Paths : Exists(p) =>
         Whole(fs[p]) \/ (fc # NULL /\ fc.out /\ fc.at # "exit" /\ p = Target)

\* What FileCopy() has read and written.
PartOK ==
  Plain /\ fc # NULL =>
    LET from == fs[Source].data
        to == fs[Target].data
    IN  /\ fc.at \in {"start", "in", "out"} => ~fc.out /\ fc.pos = 0 /\ fc.read = 0
        /\ fc.at # "seek"
        /\ fc.at \in {"read", "write", "time", "attr"} => fc.out
        /\ fc.at \in {"read", "write"} => fc.pos <= Len(from) /\ to = SubSeq(from, 1, fc.pos)
        /\ fc.at = "read" => fc.read = fc.pos
        /\ fc.at = "write" => /\ fc.pos <= fc.read /\ fc.read <= Len(from)
                              /\ fc.chunk = SubSeq(from, fc.pos + 1, fc.read)
                              /\ fc.fEoF => fc.pos = Len(from) /\ fc.read = fc.pos
        /\ fc.at = "time" => to = from
        /\ fc.at \in {"bye", "attr"} /\ fc.nReturn = "0" => fc.out /\ Exists(Target) /\ Whole(fs[Target])

IInv == StateOK /\ ShapeOK /\ FileOK /\ CopyOK /\ EnvOK /\ SearchOK /\ PlainOK /\ PartOK

-----------------------------------------------------------------------------
(***************************************************************************)
(* The disk.                                                               *)
(***************************************************************************)
Disk == [Paths -> FileRecords \cup {NULL}]

\* g has the files of f, with the contents that they have there.
SameData(f, g) ==
  \A p \in Paths : (g[p] = NULL <=> f[p] = NULL) /\ (f[p] # NULL => g[p].data = f[p].data)

\* The assumptions about NULL and the directories, one by one.
LEMMA Constants ==
  /\ Buf \in Nat /\ Buf > 0 /\ Breaks \in Nat
  /\ "zero" \in Units /\ "junk" \in Units /\ "^Z" \in Units
  /\ Dirs \subseteq Seq(STRING) /\ "*" \notin Names
  /\ NULL \notin Names /\ NULL \notin FileRecords /\ NULL \notin Copies
BY CopyMoveAssumption

\* One field of one file is changed.
LEMMA AttrChanged ==
  ASSUME NEW f \in Disk, NEW p \in Paths, f[p] # NULL, NEW a \in SUBSET Attributes,
         NEW g, g = [f EXCEPT ![p].attr = a]
  PROVE  g \in Disk /\ SameData(f, g)
<1>1. f[p] \in FileRecords BY DEF Disk
<1>2. [f[p] EXCEPT !.attr = a] \in FileRecords /\ [f[p] EXCEPT !.attr = a].data = f[p].data
  BY <1>1 DEF FileRecords
<1>3. NULL \notin FileRecords BY Constants
<1> QED BY <1>1, <1>2, <1>3 DEF Disk, SameData

WithData(f, p, d) == [f EXCEPT ![p].data = d]

LEMMA DataChanged ==
  ASSUME NEW f \in Disk, NEW p \in Paths, f[p] # NULL, NEW d \in Seq(Units)
  PROVE  /\ WithData(f, p, d) \in Disk
         /\ \A q \in Paths : WithData(f, p, d)[q] = NULL <=> f[q] = NULL
         /\ \A q \in Paths : q # p => WithData(f, p, d)[q] = f[q]
         /\ WithData(f, p, d)[p].data = d
<1> DEFINE g == [f EXCEPT ![p].data = d]
<1>1. f[p] \in FileRecords BY DEF Disk
<1>2. [f[p] EXCEPT !.data = d] \in FileRecords /\ [f[p] EXCEPT !.data = d].data = d
  BY <1>1 DEF FileRecords
<1>3. NULL \notin FileRecords BY Constants
<1>4. g \in Disk BY <1>2 DEF Disk
<1>5. g[p] = [f[p] EXCEPT !.data = d] /\ \A q \in Paths : q # p => g[q] = f[q]
  BY DEF Disk
<1>6. WithData(f, p, d) = g BY DEF WithData
<1> HIDE DEF g
<1>7. \A q \in Paths : g[q] = NULL <=> f[q] = NULL BY <1>2, <1>3, <1>5
<1> QED BY <1>2, <1>4, <1>5, <1>6, <1>7

LEMMA TimeChanged ==
  ASSUME NEW f \in Disk, NEW p \in Paths, f[p] # NULL, NEW t \in Nat,
         NEW g, g = [f EXCEPT ![p].time = t]
  PROVE  g \in Disk /\ SameData(f, g)
<1>1. f[p] \in FileRecords BY DEF Disk
<1>2. [f[p] EXCEPT !.time = t] \in FileRecords /\ [f[p] EXCEPT !.time = t].data = f[p].data
  BY <1>1 DEF FileRecords
<1>3. NULL \notin FileRecords BY Constants
<1> QED BY <1>1, <1>2, <1>3 DEF Disk, SameData

LEMMA SetAttrSame ==
  ASSUME fs \in Disk, NEW p, NEW a \in SUBSET Attributes
  PROVE  SetAttr(p, a) \in Disk /\ SameData(fs, SetAttr(p, a))
<1>1. CASE Exists(p)
  <2>1. p \in Paths /\ fs[p] # NULL BY <1>1 DEF Exists
  <2>2. SetAttr(p, a) = [fs EXCEPT ![p].attr = a] BY <1>1 DEF SetAttr
  <2> QED BY <2>1, <2>2, AttrChanged
<1>2. CASE ~Exists(p)
  BY <1>2 DEF SetAttr, SameData
<1> QED BY <1>1, <1>2

\* Attributes are set, or cannot be, or need not be.
LEMMA AttrStep ==
  ASSUME fs \in Disk, NEW p, NEW a \in SUBSET Attributes, AttrSet(p, a) \/ NoAttr
  PROVE  fs' \in Disk /\ SameData(fs, fs')
<1>1. fs' = fs \/ fs' = SetAttr(p, a) BY DEF AttrSet, NoAttr
<1>2. SetAttr(p, a) \in Disk /\ SameData(fs, SetAttr(p, a)) BY SetAttrSame
<1> QED BY <1>1, <1>2 DEF SameData

LEMMA SameTwice ==
  ASSUME NEW f, NEW g, NEW h, SameData(f, g), SameData(g, h)
  PROVE  SameData(f, h)
BY DEF SameData

\* Types of what a file holds.
LEMMA FileType ==
  ASSUME fs \in Disk, NEW p, Exists(p)
  PROVE  /\ p \in Paths /\ fs[p] \in FileRecords
         /\ fs[p].data \in Seq(Units) /\ fs[p].time \in Nat /\ fs[p].attr \subseteq Attributes
         /\ Length(p) = Len(fs[p].data) /\ Length(p) \in Nat
<1>1. p \in Paths /\ fs[p] # NULL BY DEF Exists
<1>2. fs[p] \in FileRecords BY <1>1 DEF Disk
<1>3. fs[p].data \in Seq(Units) /\ fs[p].time \in Nat /\ fs[p].attr \subseteq Attributes
  BY <1>2 DEF FileRecords
<1>4. Len(fs[p].data) \in Nat BY <1>3
<1> QED BY <1>1, <1>2, <1>3, <1>4 DEF Length

-----------------------------------------------------------------------------
(***************************************************************************)
(* The workers.                                                            *)
(***************************************************************************)
\* The last worker is changed.
LEMMA LastPut ==
  ASSUME NEW S, NEW s \in Seq(S), s # <<>>, NEW f \in S, NEW t, t = [s EXCEPT ![Len(s)] = f]
  PROVE  /\ t \in Seq(S) /\ t # <<>> /\ Len(t) = Len(s) /\ DOMAIN t = DOMAIN s
         /\ Len(s) \in Nat \ {0} /\ t[Len(t)] = f /\ t[Len(s)] = f
         /\ \A i \in DOMAIN s : i # Len(s) => t[i] = s[i]
  OBVIOUS

\* A worker is called.
LEMMA LastCalled ==
  ASSUME NEW S, NEW s \in Seq(S), NEW f \in S, NEW t, t = Append(s, f)
  PROVE  /\ t \in Seq(S) /\ t # <<>> /\ Len(t) = Len(s) + 1
         /\ DOMAIN t = 1 .. Len(s) + 1 /\ t[Len(t)] = f
         /\ \A i \in 1 .. Len(s) : t[i] = s[i]
  OBVIOUS

\* The last worker, as one that is known.
LEMMA CurType ==
  ASSUME stack \in Seq(Workers), stack # <<>>
  PROVE  Cur \in Workers /\ Len(stack) \in Nat \ {0} /\ Len(stack) \in DOMAIN stack
BY DEF Cur

\* What the constants say of the command.
LEMMA CmdType ==
  ASSUME cmd \in Commands
  PROVE  /\ cmd.op \in {"COPY", "MOVE"} /\ cmd.opts \subseteq STRING
         /\ cmd.args \in Seq(ArgRecords) /\ cmd.args # <<>> /\ cmd.type \in Types
         /\ cmd.dir \in Dirs /\ cmd.name \in Names \cup {"*"} /\ cmd.plus \in BOOLEAN
         /\ Len(cmd.args) \in Nat \ {0} /\ (Moving <=> ~Copying)
BY CopyMoveAssumption DEF Moving, Copying

LEMMA ArgType ==
  ASSUME cmd \in Commands, top \in Tops, top.arg <= Len(cmd.args)
  PROVE  Arg \in ArgRecords /\ Arg.dir \in Dirs /\ Arg.names \subseteq Names
<1>1. cmd.args \in Seq(ArgRecords) /\ Len(cmd.args) \in Nat BY CmdType
<1>2. top.arg \in Nat \ {0} BY DEF Tops
<1>3. Arg \in ArgRecords BY <1>1, <1>2 DEF Arg
<1> QED BY <1>3 DEF ArgRecords

\* The names of source and target.
LEMMA TargetName ==
  ASSUME top \in Tops, stack \in Seq(Workers), stack # <<>>
  PROVE  /\ Cur.src \in Dirs /\ Cur.tgt \in Seq(STRING) /\ Source.dir = Cur.src /\ Source.name = Cur.name
         /\ Target.dir = Cur.tgt
         /\ Cur.name \in Names => Target.name \in Names /\ Source \in Paths
         /\ Cur.name \in Names /\ Cur.tgt \in Dirs => Target \in Paths
<1>1. Cur \in Workers BY CurType
<1>2. Cur.src \in Dirs /\ Cur.tgt \in Seq(STRING) BY <1>1 DEF Workers
<1>3. top.tname \in Names \cup {"*"} BY DEF Tops
<1> QED BY <1>1, <1>2, <1>3 DEF Source, Target, Path, Paths

\* A new worker, and one that goes elsewhere.
LEMMA NewFrameType ==
  ASSUME NEW s \in Dirs, NEW t \in Seq(STRING)
  PROVE  /\ NewFrame(s, t) \in Workers /\ WorkerOK(NewFrame(s, t))
         /\ NewFrame(s, t).src = s /\ NewFrame(s, t).at = "entry"
BY DEF NewFrame, Workers, WorkerOK, WorkerPlaces, FilePlaces, Returns

LEMMA FrameEnvType ==
  ASSUME stack \in Seq(Workers), stack # <<>>, NEW b \in BOOLEAN
  PROVE  FrameEnv(b) \in Envs /\ FrameEnv(b).of = "worker" /\ FrameEnv(b).src = Cur.src
<1>1. Cur \in Workers BY CurType
<1>2. Cur.src \in Dirs BY <1>1 DEF Workers
<1> QED BY <1>2 DEF FrameEnv, Envs

\* The first n workers, when those behind them are gone.
LEMMA FirstWorkers ==
  ASSUME NEW s \in Seq(Workers), NEW n \in Nat, n <= Len(s)
  PROVE  /\ SubSeq(s, 1, n) \in Seq(Workers) /\ Len(SubSeq(s, 1, n)) = n
         /\ \A i \in 1 .. n : SubSeq(s, 1, n)[i] = s[i]
         /\ SubSeq(s, 1, n) = <<>> <=> n = 0
<1>1. \A i \in 1 .. n : s[i] \in Workers
  <2> TAKE i \in 1 .. n
  <2>1. i \in 1 .. Len(s) OBVIOUS
  <2> QED BY <2>1, ElementOfSeq
<1> DEFINE t == SubSeq(s, 1, n)
<1>2. /\ t \in Seq(Workers) /\ Len(t) = IF 1 <= n THEN n - 1 + 1 ELSE 0
      /\ \A i \in 1 .. n - 1 + 1 : t[i] = s[1 + i - 1]
  BY <1>1, SubSeqProperties
<1> HIDE DEF t
<1>3. Len(t) = n /\ \A i \in 1 .. n : t[i] = s[i] BY <1>2
<1>4. t = <<>> <=> n = 0 BY <1>2, <1>3
<1> QED BY <1>2, <1>3, <1>4 DEF t

\* The last of the workers s goes on.
LEMMA Resuming ==
  ASSUME NEW s \in Seq(Workers), s # <<>>, NEW r \in Returns
  PROVE  /\ Resumed(s, r) \in Seq(Workers) /\ Len(Resumed(s, r)) = Len(s) /\ Resumed(s, r) # <<>>
         /\ Resumed(s, r)[Len(s)].at = "subbed" /\ Resumed(s, r)[Len(s)].src = s[Len(s)].src
         /\ Resumed(s, r)[Len(s)].seen = s[Len(s)].seen /\ Resumed(s, r)[Len(s)].name = s[Len(s)].name
         /\ Resumed(s, r)[Len(s)].tgt = s[Len(s)].tgt
         /\ \A i \in 1 .. Len(s) : i < Len(s) => Resumed(s, r)[i] = s[i]
<1> DEFINE t == Resumed(s, r)
<1>1. s[Len(s)] \in Workers OBVIOUS
<1> DEFINE f == [s[Len(s)] EXCEPT !.at = "subbed", !.nReturn = r]
<1>2. /\ f \in Workers /\ f.at = "subbed" /\ f.src = s[Len(s)].src /\ f.seen = s[Len(s)].seen
      /\ f.name = s[Len(s)].name /\ f.tgt = s[Len(s)].tgt
  BY <1>1 DEF Workers, WorkerPlaces
<1>3. t = [s EXCEPT ![Len(s)] = f] BY DEF Resumed
<1> HIDE DEF f, t
<1>4. /\ t \in Seq(Workers) /\ t # <<>> /\ Len(t) = Len(s) /\ t[Len(s)] = f
      /\ \A i \in DOMAIN s : i # Len(s) => t[i] = s[i]
  BY <1>2, <1>3, LastPut
<1>5. \A i \in 1 .. Len(s) : i < Len(s) => t[i] = s[i] BY <1>4
<1> QED BY <1>2, <1>4, <1>5 DEF t

\* A worker returns.
LEMMA Returning ==
  ASSUME stack \in Seq(Workers), stack # <<>>, top \in Tops, NEW r \in Returns, Return(r)
  PROVE  /\ stack' \in Seq(Workers) /\ top' \in Tops /\ Len(stack') = Len(stack) - 1
         /\ top'.arg = top.arg /\ top'.lost = top.lost /\ top'.tname = top.tname
         /\ Len(stack) = 1 => stack' = <<>> /\ top'.at = "returned"
         /\ Len(stack) # 1 => /\ stack' # <<>> /\ top' = top
                              /\ stack'[Len(stack')].at = "subbed"
                              /\ stack'[Len(stack')].src = stack[Len(stack')].src
                              /\ stack'[Len(stack')].seen = stack[Len(stack')].seen
                              /\ stack'[Len(stack')].name = stack[Len(stack')].name
                              /\ stack'[Len(stack')].tgt = stack[Len(stack')].tgt
         /\ \A i \in 1 .. Len(stack') : i < Len(stack') => stack'[i] = stack[i]
<1> DEFINE left == Front(stack)
<1>0. Len(stack) \in Nat \ {0} BY CurType
<1>1. PICK n \in Nat : n = Len(stack) - 1
  BY <1>0
<1>2. left = SubSeq(stack, 1, n) BY <1>1 DEF Front
<1>3. n <= Len(stack) BY <1>0, <1>1
<1>4. /\ left \in Seq(Workers) /\ Len(left) = n /\ (left = <<>> <=> n = 0)
      /\ \A i \in 1 .. n : left[i] = stack[i]
  BY <1>2, <1>3, FirstWorkers
<1>5. Len(stack) = n + 1 BY <1>0, <1>1
<1>6. \/ left = <<>> /\ stack' = <<>> /\ top' = [top EXCEPT !.at = "returned", !.nReturn = r]
      \/ left # <<>> /\ stack' = Resumed(left, r) /\ top' = top
  BY DEF Return
<1> HIDE DEF left
<1>7. CASE left = <<>>
  <2>1. stack' = <<>> /\ top' = [top EXCEPT !.at = "returned", !.nReturn = r] BY <1>6, <1>7
  <2>2. /\ top' \in Tops /\ top'.at = "returned" /\ top'.arg = top.arg /\ top'.lost = top.lost
        /\ top'.tname = top.tname
    BY <2>1 DEF Tops, TopPlaces
  <2>3. stack' \in Seq(Workers) /\ Len(stack') = 0 BY <2>1
  <2>4. Len(stack) = 1 BY <1>4, <1>5, <1>7
  <2> QED BY <2>1, <2>2, <2>3, <2>4
<1>8. CASE left # <<>>
  <2>1. stack' = Resumed(left, r) /\ top' = top BY <1>6, <1>8
  <2>2. /\ stack' \in Seq(Workers) /\ Len(stack') = n /\ stack' # <<>>
        /\ stack'[n].at = "subbed" /\ stack'[n].src = left[n].src /\ stack'[n].seen = left[n].seen
        /\ stack'[n].name = left[n].name /\ stack'[n].tgt = left[n].tgt
        /\ \A i \in 1 .. n : i < n => stack'[i] = left[i]
    <3>1. left \in Seq(Workers) /\ Len(left) = n BY <1>4
    <3>2. /\ Resumed(left, r) \in Seq(Workers) /\ Len(Resumed(left, r)) = Len(left) /\ Resumed(left, r) # <<>>
          /\ Resumed(left, r)[Len(left)].at = "subbed" /\ Resumed(left, r)[Len(left)].src = left[Len(left)].src
          /\ Resumed(left, r)[Len(left)].seen = left[Len(left)].seen
          /\ Resumed(left, r)[Len(left)].name = left[Len(left)].name
          /\ Resumed(left, r)[Len(left)].tgt = left[Len(left)].tgt
          /\ \A i \in 1 .. Len(left) : i < Len(left) => Resumed(left, r)[i] = left[i]
      BY <3>1, <1>8, Resuming, Zenon
    <3> QED BY <2>1, <3>1, <3>2
  <2>3. n # 0 /\ n \in 1 .. n BY <1>4, <1>8
  <2>4. left[n] = stack[n] BY <1>4, <2>3
  <2>5. \A i \in 1 .. n : i < n => stack'[i] = stack[i] BY <1>4, <2>2
  <2>6. Len(stack) # 1 /\ Len(stack') = Len(stack) - 1 BY <1>5, <2>2, <2>3
  <2> QED BY <2>1, <2>2, <2>4, <2>5, <2>6
<1> QED BY <1>7, <1>8

-----------------------------------------------------------------------------
(***************************************************************************)
(* What the kinds of steps keep.                                           *)
(***************************************************************************)
\* The last worker becomes f.
LEMMA PutShape ==
  ASSUME StateOK, ShapeOK, stack # <<>>, fc' = NULL, NEW f \in Workers, Put(f), f.src = Cur.src, WorkerOK(f),
         cmd' = cmd, top'.at = top.at, top'.arg = top.arg
  PROVE  /\ ShapeOK' /\ stack' \in Seq(Workers) /\ stack' # <<>> /\ Cur' = f /\ Len(stack') = Len(stack)
         /\ DOMAIN stack' = DOMAIN stack /\ \A i \in DOMAIN stack : stack'[i].src = stack[i].src
<1>1. stack \in Seq(Workers) BY DEF StateOK
<1>2. /\ stack' \in Seq(Workers) /\ stack' # <<>> /\ Len(stack') = Len(stack) /\ DOMAIN stack' = DOMAIN stack
      /\ Len(stack) \in Nat \ {0} /\ stack'[Len(stack')] = f /\ stack'[Len(stack)] = f
      /\ \A i \in DOMAIN stack : i # Len(stack) => stack'[i] = stack[i]
  BY <1>1, LastPut DEF Put
<1>3. Cur' = f BY <1>2 DEF Cur
<1>4. \A i \in DOMAIN stack : stack'[i].src = stack[i].src BY <1>2 DEF Cur
<1>5. \A i \in DOMAIN stack' : WorkerOK(stack'[i]) /\ (i < Len(stack') => stack'[i].at = "dirs")
  BY <1>2 DEF ShapeOK
<1>6. \A i, j \in DOMAIN stack' : i < j => Len(stack'[i].src) < Len(stack'[j].src)
  BY <1>2, <1>4 DEF ShapeOK
<1>7. (stack' # <<>> <=> top'.at = "work") /\ (top'.at \in {"work", "returned"} => top'.arg <= Len(cmd'.args))
  BY <1>2 DEF ShapeOK
<1>8. ShapeOK' BY <1>5, <1>6, <1>7 DEF ShapeOK, WorkerOK
<1> QED BY <1>2, <1>3, <1>4, <1>8

\* Then cv.env is kept, or is the worker's own.
LEMMA PutStep ==
  ASSUME IInv, stack # <<>>, fc = NULL, fc' = NULL, NEW f \in Workers, Put(f), f.src = Cur.src, WorkerOK(f),
         f.at # "entry", cmd' = cmd, top'.at = top.at, top'.arg = top.arg, top'.lost = top.lost,
         \/ env' = env /\ Cur.at \notin {"copied", "subbed"} /\ (Moving => Cur.at # "entry")
         \/ \E b \in BOOLEAN : env' = FrameEnv(b)
  PROVE  /\ ShapeOK' /\ CopyOK' /\ EnvOK' /\ SearchOK' /\ PartOK'
         /\ stack' \in Seq(Workers) /\ stack' # <<>> /\ Cur' = f
<1>1. /\ ShapeOK' /\ stack' \in Seq(Workers) /\ stack' # <<>> /\ Cur' = f /\ Len(stack') = Len(stack)
      /\ DOMAIN stack' = DOMAIN stack /\ \A i \in DOMAIN stack : stack'[i].src = stack[i].src
  BY PutShape DEF IInv
<1>2. stack \in Seq(Workers) /\ Len(stack) \in Nat \ {0} /\ Len(stack) \in DOMAIN stack
  BY CurType DEF IInv, StateOK
<1>3. top.at = "work" BY DEF IInv, ShapeOK
<1>4. CopyOK' /\ PartOK' BY DEF CopyOK, PartOK
<1>5. Moving' <=> Moving BY DEF Moving
<1>6. CASE env' = env /\ Cur.at \notin {"copied", "subbed"} /\ (Moving => Cur.at # "entry")
  <2>1. Alive(env) BY <1>6 DEF IInv, EnvOK
  <2>2. env \in Envs BY DEF IInv, StateOK
  <2>3. Alive(env)'
    <3>1. env \in {CommandEnv, TopEnv, FileCopyEnv} \/ env.of = "worker" BY <2>2 DEF Envs
    <3>2. CASE env = CommandEnv BY <3>2, <1>6 DEF Alive, CommandEnv
    <3>3. CASE env = TopEnv BY <3>3, <1>3, <1>6 DEF Alive, TopEnv
    <3>4. CASE env = FileCopyEnv BY <3>4, <2>1 DEF Alive, FileCopyEnv
    <3>5. CASE env.of = "worker" BY <3>5, <1>1, <1>6, <2>1 DEF Alive
    <3> QED BY <3>1, <3>2, <3>3, <3>4, <3>5
  <2>4. EnvOK' BY <2>3, <1>1 DEF EnvOK
  <2>5. SearchOK' BY <1>1, <1>5, <1>6 DEF IInv, SearchOK
  <2> QED BY <1>1, <1>4, <2>4, <2>5
<1>7. CASE \E b \in BOOLEAN : env' = FrameEnv(b)
  <2>1. env'.of = "worker" /\ env'.src = Cur.src BY <1>2, <1>7, FrameEnvType
  <2>2. Alive(env)'
    <3>1. stack'[Len(stack)].src = env'.src BY <1>1, <1>2, <2>1 DEF Cur
    <3> QED BY <1>1, <1>2, <2>1, <3>1 DEF Alive
  <2>3. EnvOK' BY <2>2, <1>1 DEF EnvOK
  <2>4. SearchOK' BY <1>1, <1>5, <2>1 DEF IInv, SearchOK
  <2> QED BY <1>1, <1>4, <2>3, <2>4
<1> QED BY <1>6, <1>7

\* The names of its files stay.
LEMMA SameFile ==
  ASSUME Cur'.src = Cur.src, Cur'.tgt = Cur.tgt, Cur'.name = Cur.name, top'.tname = top.tname
  PROVE  Source' = Source /\ Target' = Target
BY DEF Source, Target, Path

\* The files of a plain command stay whole when no data is changed.
LEMMA PlainKept ==
  ASSUME IInv, fc = NULL, fc' = NULL, cmd' = cmd, top'.tname = top.tname,
         "CREATE" \in flags' <=> "CREATE" \in flags, "APPEND" \in flags' <=> "APPEND" \in flags,
         \A p \in Paths : fs'[p] # NULL => \E q \in Paths : fs[q] # NULL /\ fs'[p].data = fs[q].data
  PROVE  PlainOK'
<1>1. Plain' <=> Plain BY DEF Plain, Binary
<1>2. SUFFICES ASSUME Plain
               PROVE  /\ "CREATE" \in flags' /\ "APPEND" \notin flags' /\ top'.tname = "*"
                      /\ \A p \in Paths : fs'[p] # NULL => Whole(fs'[p])
  BY <1>1 DEF PlainOK, Exists, Whole
<1>3. \A q \in Paths : fs[q] # NULL => Whole(fs[q]) BY <1>2 DEF IInv, PlainOK, Exists
<1>4. \A p \in Paths : fs'[p] # NULL => Whole(fs'[p]) BY <1>3 DEF Whole
<1> QED BY <1>2, <1>4 DEF IInv, PlainOK

LEMMA PlainSame ==
  ASSUME IInv, fc = NULL, fc' = NULL, cmd' = cmd, top'.tname = top.tname,
         "CREATE" \in flags' <=> "CREATE" \in flags, "APPEND" \in flags' <=> "APPEND" \in flags,
         SameData(fs, fs')
  PROVE  PlainOK'
<1>1. \A p \in Paths : fs'[p] # NULL => \E q \in Paths : fs[q] # NULL /\ fs'[p].data = fs[q].data
  BY DEF SameData
<1> QED BY <1>1, PlainKept

-----------------------------------------------------------------------------
(***************************************************************************)
(* _copy() and _mv(): the steps of the last worker.                        *)
(***************************************************************************)
\* What holds when a worker is at p.
LEMMA AtWork ==
  ASSUME IInv, NEW p, Working(p)
  PROVE  /\ stack # <<>> /\ fc = NULL /\ stack \in Seq(Workers) /\ Cur \in Workers /\ Cur.at = p
         /\ WorkerOK(Cur) /\ top.at = "work" /\ top \in Tops /\ top.arg <= Len(cmd.args)
         /\ fs \in Disk /\ cmd \in Commands
<1>1. stack \in Seq(Workers) /\ stack # <<>> /\ fc = NULL /\ Cur.at = p BY DEF IInv, StateOK, Working
<1>2. Cur \in Workers /\ Len(stack) \in DOMAIN stack BY <1>1, CurType
<1>3. WorkerOK(Cur) BY <1>2 DEF IInv, ShapeOK, Cur
<1> QED BY <1>1, <1>2, <1>3 DEF IInv, StateOK, ShapeOK, Disk

\* A worker that only goes elsewhere.
LEMMA Goes ==
  ASSUME NEW f \in Workers, NEW p \in WorkerPlaces, NEW g, g = [f EXCEPT !.at = p]
  PROVE  /\ g \in Workers /\ g.at = p /\ g.src = f.src /\ g.tgt = f.tgt /\ g.name = f.name
         /\ g.seen = f.seen /\ g.hdir = f.hdir /\ g.attr = f.attr
BY DEF Workers

LEMMA PutInv ==
  ASSUME IInv, NEW p, Working(p), fc' = NULL, NEW f \in Workers, Put(f), f.src = Cur.src, WorkerOK(f),
         f.at # "entry", UNCHANGED fixed, top' \in Tops, top'.at = top.at, top'.arg = top.arg, top'.lost = top.lost,
         \/ env' = env /\ p \notin {"copied", "subbed"} /\ (Moving => p # "entry")
         \/ \E b \in BOOLEAN : env' = FrameEnv(b),
         fs' \in Disk, dirs' \subseteq Dirs, room' \in Nat, signals' \in BOOLEAN,
         flags' \subseteq {"CREATE", "APPEND", "EXISTS", "P", "R"}, PlainOK',
         stack' # <<>> /\ Cur' = f => FileOK'
  PROVE  IInv'
<1>1. /\ stack # <<>> /\ fc = NULL /\ stack \in Seq(Workers) /\ Cur \in Workers /\ Cur.at = p
  BY AtWork
<1>2. cmd' = cmd BY DEF rest, fixed
<1>3. /\ ShapeOK' /\ CopyOK' /\ EnvOK' /\ SearchOK' /\ PartOK'
      /\ stack' \in Seq(Workers) /\ stack' # <<>> /\ Cur' = f
  BY <1>1, <1>2, PutStep
<1>4. env' \in Envs
  <2>1. CASE env' = env BY <2>1 DEF IInv, StateOK
  <2>2. CASE \E b \in BOOLEAN : env' = FrameEnv(b) BY <1>1, <2>2, FrameEnvType
  <2> QED BY <2>1, <2>2
<1>5. StateOK' BY <1>3, <1>4 DEF IInv, StateOK, rest, fixed, Disk
<1> QED BY <1>3, <1>5 DEF IInv

\* A worker that has not touched its file knows the same of it when it has gone on.
LEMMA FileStays ==
  ASSUME IInv, NEW p, Working(p), p \in SourcePlaces \ {"check", "copied"}, NEW f \in Workers,
         f.src = Cur.src, f.tgt = Cur.tgt, f.name = Cur.name, f.at \in MovePlaces => Moving,
         cmd' = cmd, top'.tname = top.tname, \A q \in Paths : fs'[q] = NULL <=> fs[q] = NULL,
         stack' # <<>> /\ Cur' = f
  PROVE  FileOK'
<1>1. Source' = Source /\ Target' = Target BY SameFile
<1>2. stack # <<>> /\ Cur.at = p BY DEF Working
<1>3. Exists(Source) /\ (Moving => Source # Target) BY <1>2 DEF IInv, FileOK
<1>4. Exists(Source)' BY <1>1, <1>3 DEF Exists
<1>5. Moving' <=> Moving BY DEF Moving
<1> QED BY <1>1, <1>3, <1>4, <1>5 DEF FileOK

\* A worker that is between files.
LEMMA NoFile ==
  ASSUME NEW f, f.at \notin SourcePlaces \cup MovePlaces, Cur' = f
  PROVE  FileOK'
BY DEF FileOK

\* A worker returns: whatever cv.env says, nothing has looked at it yet.
LEMMA ReturnInv ==
  ASSUME IInv, NEW p, Working(p), NEW r \in Returns, Return(r), fc' = NULL, UNCHANGED fixed, env' \in Envs,
         fs' \in Disk, dirs' \subseteq Dirs, room' \in Nat, signals' \in BOOLEAN,
         flags' \subseteq {"CREATE", "APPEND", "EXISTS", "P", "R"}, PlainOK'
  PROVE  IInv'
<1>1. /\ stack # <<>> /\ fc = NULL /\ stack \in Seq(Workers) /\ top \in Tops /\ top.at = "work"
      /\ top.arg <= Len(cmd.args)
  BY AtWork
<1>2. /\ stack' \in Seq(Workers) /\ top' \in Tops /\ Len(stack') = Len(stack) - 1
      /\ top'.arg = top.arg /\ top'.lost = top.lost /\ top'.tname = top.tname
      /\ Len(stack) = 1 => stack' = <<>> /\ top'.at = "returned"
      /\ Len(stack) # 1 => /\ stack' # <<>> /\ top' = top
                           /\ stack'[Len(stack')].at = "subbed"
                           /\ stack'[Len(stack')].src = stack[Len(stack')].src
                           /\ stack'[Len(stack')].seen = stack[Len(stack')].seen
                           /\ stack'[Len(stack')].name = stack[Len(stack')].name
      /\ \A i \in 1 .. Len(stack') : i < Len(stack') => stack'[i] = stack[i]
  BY <1>1, Returning
<1>3. cmd' = cmd BY DEF rest, fixed
<1>4. Len(stack) \in Nat \ {0} /\ DOMAIN stack = 1 .. Len(stack) /\ DOMAIN stack' = 1 .. Len(stack')
  BY <1>1, <1>2, CurType
<1>5. Moving' <=> Moving BY <1>3 DEF Moving
<1>6. StateOK' BY <1>2 DEF IInv, StateOK, rest, fixed, Disk
<1>7. CopyOK' /\ PartOK' BY DEF CopyOK, PartOK
<1>8. CASE Len(stack) = 1
  <2>1. stack' = <<>> /\ top'.at = "returned" BY <1>2, <1>8
  <2>2. DOMAIN stack' = {} BY <2>1
  <2>3. ShapeOK' BY <1>1, <1>2, <1>3, <2>1, <2>2 DEF ShapeOK
  <2>4. EnvOK' BY <2>1 DEF EnvOK
  <2>5. SearchOK' BY <1>2, <1>5, <2>1 DEF IInv, SearchOK
  <2>6. FileOK' BY <2>1 DEF FileOK
  <2> QED BY <1>6, <1>7, <2>3, <2>4, <2>5, <2>6 DEF IInv
<1>9. CASE Len(stack) # 1
  <2>1. /\ stack' # <<>> /\ top' = top /\ Cur'.at = "subbed"
        /\ Cur'.src = stack[Len(stack')].src /\ Cur'.seen = stack[Len(stack')].seen
    BY <1>2, <1>9 DEF Cur
  <2>2. Len(stack') \in DOMAIN stack /\ Len(stack') < Len(stack) BY <1>2, <1>4, <1>9
  <2>3. stack[Len(stack')].at = "dirs" /\ WorkerOK(stack[Len(stack')]) BY <2>2 DEF IInv, ShapeOK
  <2>4. stack[Len(stack')].seen \subseteq Dirs BY <2>3 DEF WorkerOK
  <2>5. WorkerOK(stack'[Len(stack')]) BY <2>1, <2>4 DEF WorkerOK, FilePlaces, Cur
  <2>6. \A i \in DOMAIN stack' : WorkerOK(stack'[i]) /\ (i < Len(stack') => stack'[i].at = "dirs")
    <3> TAKE i \in DOMAIN stack'
    <3>1. CASE i = Len(stack') BY <2>5, <3>1, <1>4
    <3>2. CASE i # Len(stack')
      <4>1. i < Len(stack') /\ i \in DOMAIN stack /\ i < Len(stack) BY <3>2, <1>2, <1>4
      <4>2. stack'[i] = stack[i] BY <1>2, <1>4, <4>1
      <4> QED BY <4>1, <4>2 DEF IInv, ShapeOK
    <3> QED BY <3>1, <3>2
  <2>7. \A i \in DOMAIN stack' : i \in DOMAIN stack /\ stack'[i].src = stack[i].src
    <3> TAKE i \in DOMAIN stack'
    <3>1. i \in DOMAIN stack BY <1>2, <1>4
    <3>2. CASE i = Len(stack') BY <1>2, <1>9, <3>1, <3>2
    <3>3. CASE i # Len(stack')
      <4>1. i < Len(stack') BY <3>3, <1>4
      <4> QED BY <1>2, <1>4, <3>1, <4>1
    <3> QED BY <3>2, <3>3
  <2>8. \A i, j \in DOMAIN stack' : i < j => Len(stack'[i].src) < Len(stack'[j].src)
    BY <2>7 DEF IInv, ShapeOK
  <2>9. ShapeOK'
    <3>1. stack' # <<>> <=> top'.at = "work" BY <1>1, <2>1
    <3>2. top'.at \in {"work", "returned"} => top'.arg <= Len(cmd'.args) BY <1>1, <1>3, <2>1
    <3> QED BY <2>6, <2>8, <3>1, <3>2 DEF ShapeOK, WorkerOK
  <2>10. EnvOK' BY <2>1 DEF EnvOK
  <2>11. SearchOK' BY <1>2, <1>5, <2>1 DEF IInv, SearchOK
  <2>12. FileOK' BY <2>1 DEF FileOK, SourcePlaces, MovePlaces
  <2> QED BY <1>6, <1>7, <2>9, <2>10, <2>11, <2>12 DEF IInv
<1> QED BY <1>8, <1>9

\* A worker of MOVE that has moved its file.
LEMMA MovesOn ==
  ASSUME NEW f, f.at \in {"remove", "moved"}, Moving, cmd' = cmd, Cur' = f
  PROVE  FileOK'
BY DEF FileOK, SourcePlaces, Moving

LEMMA NotPlain ==
  ASSUME ~Plain, cmd' = cmd
  PROVE  PlainOK'
BY DEF PlainOK, Plain, Binary

LEMMA EnterStep ==
  ASSUME IInv, Enter
  PROVE  IInv'
<1> DEFINE f == [Cur EXCEPT !.at = "find"]
<1>1. /\ stack # <<>> /\ fc = NULL /\ stack \in Seq(Workers) /\ Cur \in Workers /\ Cur.at = "entry"
      /\ WorkerOK(Cur) /\ top.at = "work" /\ top \in Tops /\ cmd \in Commands /\ fs \in Disk
  BY AtWork DEF Enter
<1>2. /\ Put(f) /\ fc' = NULL /\ fs' = fs /\ room' = room /\ cmd' = cmd /\ top' = top /\ flags' = flags
      /\ UNCHANGED fixed /\ Entered
  BY <1>1 DEF Enter, Go, rest, fixed
<1>3. f \in Workers /\ f.at = "find" /\ f.src = Cur.src /\ f.seen = Cur.seen
  BY <1>1, Goes DEF WorkerPlaces
<1>4. WorkerOK(f) BY <1>1, <1>3 DEF WorkerOK, FilePlaces
<1>5. Moving <=> ~Copying BY <1>1, CmdType
<1>6. env' \in Envs /\ ((env' = env /\ ~Moving) \/ env' = FrameEnv(FALSE))
  <2>1. FrameEnv(FALSE) \in Envs BY <1>1, FrameEnvType
  <2> QED BY <1>2, <2>1 DEF Entered, IInv, StateOK
<1> HIDE DEF f
<1>7. /\ ShapeOK' /\ CopyOK' /\ EnvOK' /\ SearchOK' /\ PartOK'
      /\ stack' \in Seq(Workers) /\ stack' # <<>> /\ Cur' = f
  BY <1>1, <1>2, <1>3, <1>4, <1>6, PutStep
<1>8. dirs' \subseteq Dirs BY DEF Enter, IInv, StateOK
<1>9. signals' \in BOOLEAN BY <1>2 DEF Entered, IInv, StateOK
<1>10. StateOK' BY <1>2, <1>6, <1>7, <1>8, <1>9 DEF IInv, StateOK, rest, fixed
<1>11. FileOK' BY <1>3, <1>7 DEF FileOK, SourcePlaces, MovePlaces
<1>12. PlainOK' BY <1>1, <1>2, PlainSame DEF SameData
<1> QED BY <1>7, <1>10, <1>11, <1>12 DEF IInv

LEMMA FindStep ==
  ASSUME IInv, Find
  PROVE  IInv'
<1>1. /\ stack # <<>> /\ fc = NULL /\ stack \in Seq(Workers) /\ Cur \in Workers /\ Cur.at = "find"
      /\ WorkerOK(Cur) /\ top.at = "work" /\ top \in Tops /\ cmd \in Commands /\ fs \in Disk
  BY AtWork DEF Find
<1> DEFINE g(n, b) == [Cur EXCEPT !.at = "check", !.seen = @ \cup {n}, !.hdir = TRUE, !.name = n,
                                  !.attr = fs[Path(Cur.src, n)].attr, !.time = fs[Path(Cur.src, n)].time,
                                  !.next = b]
<1>2. PICK n \in Unseen, b \in BOOLEAN : Put(g(n, b))
  <2>1. \E n \in Unseen : Put(g(n, Cur.seen # {})) BY Zenon DEF Find
  <2>2. (Cur.seen # {}) \in BOOLEAN OBVIOUS
  <2> HIDE DEF g
  <2> QED BY <2>1, <2>2, Zenon
<1> DEFINE f == g(n, b)
<1>3. Put(f) BY <1>2
<1>4. /\ fc' = NULL /\ fs' = fs /\ cmd' = cmd /\ top' = top /\ flags' = flags \ {"EXISTS"}
      /\ dirs' = dirs /\ room' = room /\ UNCHANGED fixed /\ signals' = signals /\ env' = FrameEnv(FALSE)
  BY <1>1 DEF Find, rest, fixed, disk
<1>5. Exists(Path(Cur.src, n)) BY <1>2 DEF Unseen
<1>6. n \in Names BY <1>5 DEF Exists, Path, Paths
<1>7. fs[Path(Cur.src, n)].attr \subseteq Attributes /\ fs[Path(Cur.src, n)].time \in Nat
  BY <1>1, <1>5, FileType
<1>8. Cur.seen \subseteq Names BY <1>1 DEF WorkerOK
<1>9. /\ f \in Workers /\ f.at = "check" /\ f.src = Cur.src /\ f.seen = Cur.seen \cup {n} /\ f.name = n
      /\ f.tgt = Cur.tgt
  BY <1>1, <1>6, <1>7, <1>8 DEF Workers, WorkerPlaces
<1>10. WorkerOK(f) BY <1>6, <1>8, <1>9 DEF WorkerOK, FilePlaces
<1>11. FrameEnv(FALSE) \in Envs BY <1>1, FrameEnvType
<1> HIDE DEF f
<1>12. /\ ShapeOK' /\ CopyOK' /\ EnvOK' /\ SearchOK' /\ PartOK'
       /\ stack' \in Seq(Workers) /\ stack' # <<>> /\ Cur' = f
  BY <1>1, <1>3, <1>4, <1>9, <1>10, PutStep
<1>13. StateOK' BY <1>4, <1>11, <1>12 DEF IInv, StateOK, rest, fixed
<1>14. FileOK'
  <2>1. Source' = Path(Cur.src, n) BY <1>9, <1>12 DEF Source
  <2>2. Exists(Source)' BY <1>4, <1>5, <2>1 DEF Exists
  <2> QED BY <1>9, <1>12, <2>2 DEF FileOK, SourcePlaces, MovePlaces
<1>15. PlainOK' BY <1>1, <1>4, PlainSame DEF SameData
<1> QED BY <1>12, <1>13, <1>14, <1>15 DEF IInv

LEMMA FindEndsStep ==
  ASSUME IInv, FindEnds
  PROVE  IInv'
<1> DEFINE f == [Cur EXCEPT !.at = "dirs", !.seen = {}, !.hdir = FALSE]
<1>1. /\ stack # <<>> /\ fc = NULL /\ Cur \in Workers /\ top \in Tops /\ fs \in Disk /\ Working("find")
  BY AtWork DEF FindEnds
<1>2. /\ Put(f) /\ fc' = NULL /\ fs' = fs /\ dirs' = dirs /\ room' = room /\ flags' = flags /\ top' = top
      /\ UNCHANGED fixed /\ env' = env /\ signals' = TRUE
  BY <1>1 DEF FindEnds, disk, rest
<1>3. f \in Workers /\ f.at = "dirs" /\ f.src = Cur.src /\ f.seen = {}
  BY <1>1 DEF Workers, WorkerPlaces
<1>4. WorkerOK(f) BY <1>3 DEF WorkerOK, FilePlaces
<1> HIDE DEF f
<1>5. stack' # <<>> /\ Cur' = f => FileOK' BY <1>3, NoFile DEF SourcePlaces, MovePlaces
<1>6. cmd' = cmd BY <1>2 DEF rest, fixed
<1>7. PlainOK' BY <1>1, <1>2, <1>6, PlainSame DEF SameData
<1> QED BY <1>1, <1>2, <1>3, <1>4, <1>5, <1>7, PutInv DEF IInv, StateOK

LEMMA CheckSkipsStep ==
  ASSUME IInv, CheckSkips
  PROVE  IInv'
<1> DEFINE f == [Cur EXCEPT !.at = "find"]
<1>1. /\ stack # <<>> /\ fc = NULL /\ Cur \in Workers /\ top \in Tops /\ fs \in Disk /\ Working("check")
      /\ WorkerOK(Cur) /\ Cur.at = "check"
  BY AtWork DEF CheckSkips
<1>2. /\ Put(f) /\ fc' = NULL /\ fs' = fs /\ dirs' = dirs /\ room' = room /\ flags' = flags /\ top' = top
      /\ UNCHANGED fixed /\ env' = env /\ signals' = signals
  BY <1>1 DEF CheckSkips, disk, Go, rest
<1>3. f \in Workers /\ f.at = "find" /\ f.src = Cur.src /\ f.seen = Cur.seen
  BY <1>1, Goes DEF WorkerPlaces
<1>4. WorkerOK(f) BY <1>1, <1>3 DEF WorkerOK, FilePlaces
<1> HIDE DEF f
<1>5. stack' # <<>> /\ Cur' = f => FileOK' BY <1>3, NoFile DEF SourcePlaces, MovePlaces
<1>6. cmd' = cmd BY <1>2 DEF rest, fixed
<1>7. PlainOK' BY <1>1, <1>2, <1>6, PlainSame DEF SameData
<1> QED BY <1>1, <1>2, <1>3, <1>4, <1>5, <1>7, PutInv DEF IInv, StateOK

LEMMA CheckSameStep ==
  ASSUME IInv, CheckSame
  PROVE  IInv'
<1>1. /\ stack # <<>> /\ fc = NULL /\ Cur \in Workers /\ top \in Tops /\ fs \in Disk /\ Working("check")
      /\ WorkerOK(Cur) /\ Cur.at = "check"
  BY AtWork DEF CheckSame
<1>2. PICK r \in Returns : Put([Cur EXCEPT !.at = "next", !.nReturn = r])
  <2> DEFINE x == IF "CREATE" \notin flags /\ ~IsFirstArg THEN "err" ELSE Cur.nReturn
  <2>1. x \in Returns
    <3>1. Cur.nReturn \in Returns BY <1>1 DEF Workers
    <3> QED BY <3>1 DEF Returns
  <2>2. Put([Cur EXCEPT !.at = "next", !.nReturn = x]) BY Zenon DEF CheckSame
  <2> HIDE DEF x
  <2> QED BY <2>1, <2>2, Zenon
<1> DEFINE f == [Cur EXCEPT !.at = "next", !.nReturn = r]
<1>3. /\ fc' = NULL /\ fs' = fs /\ dirs' = dirs /\ room' = room /\ flags' = flags /\ top' = top
      /\ UNCHANGED fixed /\ env' = env /\ signals' = signals
  BY <1>1 DEF CheckSame, disk, rest
<1>4. f \in Workers /\ f.at = "next" /\ f.src = Cur.src /\ f.seen = Cur.seen /\ f.name = Cur.name
  BY <1>1 DEF Workers, WorkerPlaces
<1>5. WorkerOK(f) BY <1>1, <1>4 DEF WorkerOK, FilePlaces
<1> HIDE DEF f
<1>6. stack' # <<>> /\ Cur' = f => FileOK' BY <1>4, NoFile DEF SourcePlaces, MovePlaces
<1>7. cmd' = cmd BY <1>3 DEF rest, fixed
<1>8. PlainOK' BY <1>1, <1>3, <1>7, PlainSame DEF SameData
<1>9. Put(f) BY <1>2 DEF f
<1> QED BY <1>1, <1>3, <1>4, <1>5, <1>6, <1>8, <1>9, PutInv DEF IInv, StateOK

LEMMA CheckOKStep ==
  ASSUME IInv, CheckOK
  PROVE  IInv'
<1>1. /\ stack # <<>> /\ fc = NULL /\ Cur \in Workers /\ top \in Tops /\ fs \in Disk /\ Working("check")
      /\ WorkerOK(Cur) /\ Cur.at = "check"
  BY AtWork DEF CheckOK
<1>2. PICK p \in {"ask", "op"} : Go(p)
  BY Zenon DEF CheckOK
<1> DEFINE f == [Cur EXCEPT !.at = p]
<1>3. Put(f) BY <1>2 DEF Go
<1>4. /\ fc' = NULL /\ fs' = fs /\ dirs' = dirs /\ room' = room /\ top' = top
      /\ UNCHANGED fixed /\ env' = env /\ signals' = signals
  BY <1>1 DEF CheckOK, disk, rest
<1>5. flags' = flags \/ flags' = flags \cup {"EXISTS"} BY Zenon DEF CheckOK
<1>6. p \in WorkerPlaces BY DEF WorkerPlaces
<1>7. /\ f \in Workers /\ f.at = p /\ f.src = Cur.src /\ f.seen = Cur.seen /\ f.name = Cur.name
      /\ f.tgt = Cur.tgt
  BY <1>1, <1>6, Goes
<1>8. WorkerOK(f) BY <1>1, <1>7 DEF WorkerOK, FilePlaces
<1>9. cmd' = cmd BY <1>4 DEF rest, fixed
<1> HIDE DEF f
<1>10. ASSUME stack' # <<>>, Cur' = f
       PROVE  FileOK'
  <2>1. Source' = Source /\ Target' = Target BY <1>4, <1>7, <1>10, SameFile
  <2>2. Exists(Source) BY <1>1 DEF IInv, FileOK, SourcePlaces
  <2>3. Exists(Source)' BY <1>4, <2>1, <2>2 DEF Exists
  <2>4. Moving => Source # Target
    <3>1. (Source = Target) => Copying BY DEF CheckOK
    <3> QED BY <3>1 DEF Moving, Copying
  <2>5. Moving' <=> Moving BY <1>9 DEF Moving
  <2> QED BY <1>7, <1>10, <2>1, <2>3, <2>4, <2>5 DEF FileOK, SourcePlaces, MovePlaces
<1>11. PlainOK'
  <2>1. ("CREATE" \in flags' <=> "CREATE" \in flags) /\ ("APPEND" \in flags' <=> "APPEND" \in flags) BY <1>5
  <2>2. SameData(fs, fs') BY <1>4 DEF SameData
  <2> QED BY <1>1, <1>4, <1>9, <2>1, <2>2, PlainSame
<1>12. flags' \subseteq {"CREATE", "APPEND", "EXISTS", "P", "R"} BY <1>5 DEF IInv, StateOK
<1>13. f.at # "entry" /\ "check" \notin {"copied", "subbed"} BY <1>7
<1> QED BY <1>1, <1>3, <1>4, <1>7, <1>8, <1>10, <1>11, <1>12, <1>13, PutInv DEF IInv, StateOK

\* Yes, All or Rest, No, Escape.
LEMMA AskStep ==
  ASSUME IInv, Ask
  PROVE  IInv'
<1>1. /\ stack # <<>> /\ fc = NULL /\ Cur \in Workers /\ top \in Tops /\ fs \in Disk /\ Working("ask")
      /\ WorkerOK(Cur) /\ Cur.at = "ask"
  BY AtWork DEF Ask
<1>2. /\ fc' = NULL /\ fs' = fs /\ dirs' = dirs /\ room' = room /\ top' = top
      /\ UNCHANGED fixed /\ env' = env /\ signals' = signals
  BY <1>1 DEF Ask, disk, rest
<1>3. cmd' = cmd BY <1>2 DEF rest, fixed
<1>4. flags' = flags \/ flags' = flags \ {"P", "R"} BY DEF Ask
<1>5. flags' \subseteq {"CREATE", "APPEND", "EXISTS", "P", "R"} BY <1>4 DEF IInv, StateOK
<1>6. PlainOK'
  <2>1. ("CREATE" \in flags' <=> "CREATE" \in flags) /\ ("APPEND" \in flags' <=> "APPEND" \in flags) BY <1>4
  <2>2. SameData(fs, fs') BY <1>2 DEF SameData
  <2> QED BY <1>1, <1>2, <1>3, <2>1, <2>2, PlainSame
<1>7. ASSUME NEW p \in {"op", "find"}, Go(p)
      PROVE  IInv'
  <2> DEFINE f == [Cur EXCEPT !.at = p]
  <2>1. Put(f) BY <1>7 DEF Go
  <2>2. /\ f \in Workers /\ f.at = p /\ f.src = Cur.src /\ f.seen = Cur.seen /\ f.name = Cur.name
        /\ f.tgt = Cur.tgt
    BY <1>1, Goes DEF WorkerPlaces
  <2>3. WorkerOK(f) BY <1>1, <2>2 DEF WorkerOK, FilePlaces
  <2> HIDE DEF f
  <2>4. stack' # <<>> /\ Cur' = f => FileOK'
    <3>1. "ask" \in SourcePlaces \ {"check", "copied"} BY DEF SourcePlaces
    <3>2. f.at \notin MovePlaces BY <2>2 DEF MovePlaces
    <3>3. CASE p = "op" BY <1>1, <1>2, <1>3, <2>2, <3>1, <3>2, FileStays
    <3>4. CASE p = "find" BY <2>2, <3>4, NoFile DEF SourcePlaces, MovePlaces
    <3> QED BY <3>3, <3>4
  <2>5. f.at # "entry" /\ "ask" \notin {"copied", "subbed"} BY <2>2
  <2> QED BY <1>1, <1>2, <1>5, <1>6, <2>1, <2>2, <2>3, <2>4, <2>5, PutInv DEF IInv, StateOK
<1>8. ASSUME Put([Cur EXCEPT !.at = "dirs", !.seen = {}, !.hdir = FALSE])
      PROVE  IInv'
  <2> DEFINE f == [Cur EXCEPT !.at = "dirs", !.seen = {}, !.hdir = FALSE]
  <2>1. Put(f) BY <1>8
  <2>2. f \in Workers /\ f.at = "dirs" /\ f.src = Cur.src /\ f.seen = {}
    BY <1>1 DEF Workers, WorkerPlaces
  <2>3. WorkerOK(f) BY <2>2 DEF WorkerOK, FilePlaces
  <2> HIDE DEF f
  <2>4. stack' # <<>> /\ Cur' = f => FileOK' BY <2>2, NoFile DEF SourcePlaces, MovePlaces
  <2> QED BY <1>1, <1>2, <1>5, <1>6, <2>1, <2>2, <2>3, <2>4, PutInv DEF IInv, StateOK
<1>9. Go("op") \/ Go("find") \/ Put([Cur EXCEPT !.at = "dirs", !.seen = {}, !.hdir = FALSE])
  BY DEF Ask
<1> QED BY <1>7, <1>8, <1>9

\* /Z and MOVE change attributes only.
\* Attributes change, and no contents.
LEMMA PrepareDisk ==
  ASSUME IInv, Prepare
  PROVE  fs' \in Disk /\ SameData(fs, fs')
<1>1. /\ Cur \in Workers /\ fs \in Disk /\ stack # <<>> /\ Cur.at = "op"
  BY AtWork DEF Prepare
<1>2. CASE Opt("N")
  <2>1. fs' = fs BY <1>2, Zenon DEF Prepare, NoAttr
  <2> QED BY <1>1, <2>1 DEF SameData
<1>3. CASE ~Opt("N")
  <2> DEFINE target == IF Opt("Z") THEN SetAttr(Target, {}) ELSE fs
             Both(g) == IF Moving /\ "R" \in Cur.attr THEN [g EXCEPT ![Source].attr = Cur.attr \ {"R"}] ELSE g
  <2>1. PICK a \in {fs, target} : fs' \in {a, Both(a)}
    <3>1. fs' \in {fs, target, Both(fs), Both(target)} BY <1>3, Zenon DEF Prepare
    <3> QED BY <3>1, Zenon
  <2>2. a \in Disk /\ SameData(fs, a)
    <3>1. SetAttr(Target, {}) \in Disk /\ SameData(fs, SetAttr(Target, {})) BY <1>1, SetAttrSame
    <3> QED BY <1>1, <2>1, <3>1 DEF SameData
  <2>3. fs' = a \/ fs' = [a EXCEPT ![Source].attr = Cur.attr \ {"R"}] BY <2>1, Zenon
  <2> HIDE DEF target, Both
  <2>4. Exists(Source) BY <1>1 DEF IInv, FileOK, SourcePlaces
  <2>5. Source \in Paths /\ a[Source] # NULL BY <2>2, <2>4 DEF Exists, SameData
  <2>6. Cur.attr \ {"R"} \subseteq Attributes BY <1>1 DEF Workers
  <2>7. /\ [a EXCEPT ![Source].attr = Cur.attr \ {"R"}] \in Disk
        /\ SameData(a, [a EXCEPT ![Source].attr = Cur.attr \ {"R"}])
    BY <2>2, <2>5, <2>6, AttrChanged
  <2>8. SameData(fs, [a EXCEPT ![Source].attr = Cur.attr \ {"R"}]) BY <2>2, <2>7, SameTwice
  <2> QED BY <2>2, <2>3, <2>7, <2>8, Zenon
<1> QED BY <1>2, <1>3

LEMMA PrepareStep ==
  ASSUME IInv, Prepare
  PROVE  IInv'
<1>1. /\ stack # <<>> /\ fc = NULL /\ Cur \in Workers /\ top \in Tops /\ fs \in Disk /\ Working("op")
      /\ WorkerOK(Cur) /\ Cur.at = "op" /\ cmd \in Commands
  BY AtWork DEF Prepare
<1>2. /\ fc' = NULL /\ dirs' = dirs /\ room' = room /\ top' = top /\ flags' = flags
      /\ UNCHANGED fixed /\ env' = env /\ signals' = signals
  BY <1>1 DEF Prepare
<1>3. cmd' = cmd BY <1>2 DEF rest, fixed
<1>4. Moving <=> ~Copying BY <1>1, CmdType
<1>5. PICK p \in {"next", "find", "copy", "rename"} : Go(p) /\ (p = "rename" => Moving)
  BY <1>4, Zenon DEF Prepare
<1>6. fs' \in Disk /\ SameData(fs, fs') BY PrepareDisk
<1> DEFINE f == [Cur EXCEPT !.at = p]
<1>7. Put(f) BY <1>5 DEF Go
<1>8. /\ f \in Workers /\ f.at = p /\ f.src = Cur.src /\ f.seen = Cur.seen /\ f.name = Cur.name
      /\ f.tgt = Cur.tgt
  BY <1>1, Goes DEF WorkerPlaces
<1>9. WorkerOK(f) BY <1>1, <1>8 DEF WorkerOK, FilePlaces
<1> HIDE DEF f
<1>10. stack' # <<>> /\ Cur' = f => FileOK'
  <2>1. "op" \in SourcePlaces \ {"check", "copied"} BY DEF SourcePlaces
  <2>2. f.at \in MovePlaces => Moving BY <1>5, <1>8 DEF MovePlaces
  <2>3. \A q \in Paths : fs'[q] = NULL <=> fs[q] = NULL BY <1>6 DEF SameData
  <2> QED BY <1>1, <1>2, <1>3, <1>8, <2>1, <2>2, <2>3, FileStays
<1>11. PlainOK' BY <1>1, <1>2, <1>3, <1>6, PlainSame
<1>12. f.at # "entry" /\ "op" \notin {"copied", "subbed"} BY <1>8
<1> QED BY <1>1, <1>2, <1>6, <1>7, <1>8, <1>9, <1>10, <1>11, <1>12, PutInv DEF IInv, StateOK

-----------------------------------------------------------------------------
\* The directory of the target cannot be made.
LEMMA EnterFailsStep ==
  ASSUME IInv, EnterFails
  PROVE  IInv'
<1>1. /\ stack # <<>> /\ fc = NULL /\ stack \in Seq(Workers) /\ fs \in Disk /\ Working("entry")
  BY AtWork DEF EnterFails
<1>2. /\ Return("err") /\ fc' = NULL /\ fs' = fs /\ dirs' = dirs /\ room' = room /\ flags' = flags
      /\ UNCHANGED fixed /\ Entered
  BY <1>1 DEF EnterFails, disk, rest
<1>3. cmd' = cmd /\ "err" \in Returns BY <1>2 DEF rest, fixed, Returns
<1>4. top'.tname = top.tname BY <1>1, <1>2, <1>3, Returning DEF IInv, StateOK
<1>5. env' \in Envs
  <2>1. FrameEnv(FALSE) \in Envs BY <1>1, FrameEnvType
  <2> QED BY <1>2, <2>1 DEF Entered, IInv, StateOK
<1>6. signals' \in BOOLEAN BY <1>2 DEF Entered, IInv, StateOK
<1>7. PlainOK' BY <1>1, <1>2, <1>3, <1>4, PlainSame DEF SameData
<1> QED BY <1>1, <1>2, <1>3, <1>5, <1>6, <1>7, ReturnInv DEF IInv, StateOK

\* MOVE ends with an error.
LEMMA CheckRefusesStep ==
  ASSUME IInv, CheckRefuses
  PROVE  IInv'
<1>1. /\ stack # <<>> /\ fc = NULL /\ stack \in Seq(Workers) /\ fs \in Disk /\ Working("check")
  BY AtWork DEF CheckRefuses
<1>2. /\ Return("err") /\ fc' = NULL /\ fs' = fs /\ dirs' = dirs /\ room' = room /\ flags' = flags
      /\ UNCHANGED fixed /\ env' = env /\ signals' = signals
  BY <1>1 DEF CheckRefuses, disk, rest
<1>3. cmd' = cmd /\ "err" \in Returns BY <1>2 DEF rest, fixed, Returns
<1>4. top'.tname = top.tname BY <1>1, <1>2, <1>3, Returning DEF IInv, StateOK
<1>5. PlainOK' BY <1>1, <1>2, <1>3, <1>4, PlainSame DEF SameData
<1> QED BY <1>1, <1>2, <1>3, <1>5, ReturnInv DEF IInv, StateOK

LEMMA CopyAbortedStep ==
  ASSUME IInv, CopyAborted
  PROVE  IInv'
<1>1. /\ stack # <<>> /\ fc = NULL /\ stack \in Seq(Workers) /\ Cur \in Workers /\ fs \in Disk
      /\ Working("copied")
  BY AtWork DEF CopyAborted
<1>2. /\ Return("CTRLC") /\ fc' = NULL /\ dirs' = dirs /\ room' = room /\ flags' = flags
      /\ UNCHANGED fixed /\ env' = env /\ signals' = signals
      /\ AttrSet(Source, Cur.attr) \/ NoAttr
  BY <1>1 DEF CopyAborted
<1>3. cmd' = cmd /\ "CTRLC" \in Returns BY <1>2 DEF rest, fixed, Returns
<1>4. top'.tname = top.tname BY <1>1, <1>2, <1>3, Returning DEF IInv, StateOK
<1>5. Cur.attr \subseteq Attributes BY <1>1 DEF Workers
<1>7. fs' \in Disk /\ SameData(fs, fs') BY <1>1, <1>2, <1>5, AttrStep
<1>8. PlainOK' BY <1>1, <1>2, <1>3, <1>4, <1>7, PlainSame
<1> QED BY <1>1, <1>2, <1>3, <1>7, <1>8, ReturnInv DEF IInv, StateOK

\* After FileCopy(): setjmp().
LEMMA CopiedStep ==
  ASSUME IInv, Copied
  PROVE  IInv'
<1> DEFINE f == [Cur EXCEPT !.at = "next"]
<1>1. /\ stack # <<>> /\ fc = NULL /\ Cur \in Workers /\ top \in Tops /\ fs \in Disk /\ Working("copied")
      /\ WorkerOK(Cur) /\ Cur.at = "copied"
  BY AtWork DEF Copied
<1>2. /\ Put(f) /\ fc' = NULL /\ dirs' = dirs /\ room' = room /\ flags' = flags
      /\ UNCHANGED fixed /\ env' = FrameEnv(FALSE) /\ signals' = signals
      /\ top' = top \/ top' = [top EXCEPT !.files = @ + 1]
      /\ AttrSet(Source, Cur.attr \ {"A"}) \/ NoAttr
  BY <1>1 DEF Copied, Go
<1>3. f \in Workers /\ f.at = "next" /\ f.src = Cur.src /\ f.seen = Cur.seen /\ f.name = Cur.name
  BY <1>1, Goes DEF WorkerPlaces
<1>4. WorkerOK(f) BY <1>1, <1>3 DEF WorkerOK, FilePlaces
<1> HIDE DEF f
<1>5. stack' # <<>> /\ Cur' = f => FileOK' BY <1>3, NoFile DEF SourcePlaces, MovePlaces
<1>6. cmd' = cmd BY <1>2 DEF rest, fixed
<1>7. /\ top' \in Tops /\ top'.at = top.at /\ top'.arg = top.arg /\ top'.lost = top.lost
      /\ top'.tname = top.tname
  BY <1>1, <1>2 DEF Tops
<1>8. fs' \in Disk /\ SameData(fs, fs')
  <2>1. Cur.attr \ {"A"} \subseteq Attributes BY <1>1 DEF Workers
  <2> QED BY <1>1, <1>2, <2>1, AttrStep
<1>9. PlainOK' BY <1>1, <1>2, <1>6, <1>7, <1>8, PlainSame
<1> QED BY <1>1, <1>2, <1>3, <1>4, <1>5, <1>7, <1>8, <1>9, PutInv DEF IInv, StateOK

LEMMA NextCopyStep ==
  ASSUME IInv, Next_copy
  PROVE  IInv'
<1> DEFINE f == [Cur EXCEPT !.at = "find"]
           appends == top.tname # "*" \/ "APPEND" \in flags
<1>1. /\ stack # <<>> /\ fc = NULL /\ Cur \in Workers /\ top \in Tops /\ fs \in Disk /\ Working("next")
      /\ WorkerOK(Cur) /\ Cur.at = "next" /\ stack \in Seq(Workers)
  BY AtWork DEF Next_copy
<1>2. /\ Put(f) /\ fc' = NULL /\ fs' = fs /\ dirs' = dirs /\ room' = room
      /\ UNCHANGED fixed /\ env' = env /\ signals' = TRUE
      /\ flags' = IF appends THEN (flags \ {"CREATE"}) \cup {"APPEND"} ELSE flags
      /\ top' = IF top.tname = "*" /\ "APPEND" \in flags THEN [top EXCEPT !.tname = Target.name] ELSE top
  BY <1>1 DEF Next_copy, Go, disk, rest
<1>3. f \in Workers /\ f.at = "find" /\ f.src = Cur.src /\ f.seen = Cur.seen
  BY <1>1, Goes DEF WorkerPlaces
<1>4. WorkerOK(f) BY <1>1, <1>3 DEF WorkerOK, FilePlaces
<1> HIDE DEF f
<1>5. stack' # <<>> /\ Cur' = f => FileOK' BY <1>3, NoFile DEF SourcePlaces, MovePlaces
<1>6. cmd' = cmd BY <1>2 DEF rest, fixed
<1>7. Target.name \in Names
  <2>1. Cur.name \in Names BY <1>1 DEF WorkerOK, FilePlaces
  <2> QED BY <1>1, <2>1, TargetName
<1>8. top' \in Tops /\ top'.at = top.at /\ top'.arg = top.arg /\ top'.lost = top.lost
  <2>1. CASE top.tname = "*" /\ "APPEND" \in flags
    <3>1. top' = [top EXCEPT !.tname = Target.name] BY <1>2, <2>1
    <3> QED BY <1>1, <1>7, <3>1 DEF Tops
  <2>2. CASE ~(top.tname = "*" /\ "APPEND" \in flags)
    <3>1. top' = top BY <1>2, <2>2
    <3> QED BY <1>1, <3>1
  <2> QED BY <2>1, <2>2
<1>9. PlainOK'
  <2>1. CASE Plain
    <3>1. top.tname = "*" /\ "APPEND" \notin flags BY <2>1 DEF IInv, PlainOK
    <3>2. flags' = flags /\ top' = top BY <1>2, <3>1
    <3> QED BY <1>1, <1>2, <1>6, <3>2, PlainSame DEF SameData
  <2>2. CASE ~Plain BY <1>6, <2>2, NotPlain
  <2> QED BY <2>1, <2>2
<1>10. flags' \subseteq {"CREATE", "APPEND", "EXISTS", "P", "R"} BY <1>2 DEF IInv, StateOK
<1> QED BY <1>1, <1>2, <1>3, <1>4, <1>5, <1>8, <1>9, <1>10, PutInv DEF IInv, StateOK

\* MOVE: the file gets its new name.
LEMMA RenamedDisk ==
  ASSUME fs \in Disk, Exists(Source), fs' = [fs EXCEPT ![Target] = fs[Source], ![Source] = NULL]
  PROVE  /\ fs' \in Disk
         /\ \A p \in Paths : fs'[p] # NULL => \E q \in Paths : fs[q] # NULL /\ fs'[p].data = fs[q].data
<1>1. Source \in Paths /\ fs[Source] # NULL BY DEF Exists
<1>2. fs' \in Disk BY <1>1 DEF Disk
<1>3. \A p \in Paths : fs'[p] = IF p = Source THEN NULL ELSE IF p = Target THEN fs[Source] ELSE fs[p]
  BY DEF Disk
<1> QED BY <1>1, <1>2, <1>3

LEMMA RenameStep ==
  ASSUME IInv, NEW p \in {"rename", "again"}, Working(p),
         fs' = [fs EXCEPT ![Target] = fs[Source], ![Source] = NULL],
         Put([Cur EXCEPT !.at = "moved", !.nReturn = "0"]),
         UNCHANGED <<dirs, room, fixed, flags, top, fc, env, signals>>
  PROVE  IInv'
<1> DEFINE f == [Cur EXCEPT !.at = "moved", !.nReturn = "0"]
<1>1. /\ stack # <<>> /\ fc = NULL /\ Cur \in Workers /\ top \in Tops /\ fs \in Disk
      /\ WorkerOK(Cur) /\ Cur.at = p
  BY AtWork
<1>2. Put(f) /\ fc' = NULL /\ UNCHANGED fixed /\ cmd' = cmd BY <1>1 DEF rest, fixed
<1>3. f \in Workers /\ f.at = "moved" /\ f.src = Cur.src /\ f.seen = Cur.seen /\ f.name = Cur.name
  BY <1>1 DEF Workers, WorkerPlaces, Returns
<1>4. WorkerOK(f) BY <1>1, <1>3 DEF WorkerOK, FilePlaces
<1> HIDE DEF f
<1>5. Exists(Source) /\ Moving BY <1>1 DEF IInv, FileOK, SourcePlaces, MovePlaces
<1>6. stack' # <<>> /\ Cur' = f => FileOK' BY <1>2, <1>3, <1>5, MovesOn
<1>7. /\ fs' \in Disk
      /\ \A q \in Paths : fs'[q] # NULL => \E o \in Paths : fs[o] # NULL /\ fs'[q].data = fs[o].data
  BY <1>1, <1>5, RenamedDisk
<1>8. PlainOK' BY <1>1, <1>2, <1>7, PlainKept
<1>9. f.at # "entry" /\ p \notin {"copied", "subbed"} /\ p # "entry" BY <1>3
<1> QED BY <1>1, <1>2, <1>3, <1>4, <1>6, <1>7, <1>8, <1>9, PutInv DEF IInv, StateOK

\* MOVE: a step that only goes on, before the file is moved.
LEMMA GoesOn ==
  ASSUME IInv, NEW p \in {"rename", "again"}, Working(p), NEW r \in {"clear", "copy"}, Go(r),
         UNCHANGED <<disk, fixed, flags, top, fc, env, signals>>
  PROVE  IInv'
<1> DEFINE f == [Cur EXCEPT !.at = r]
<1>1. /\ stack # <<>> /\ fc = NULL /\ Cur \in Workers /\ top \in Tops /\ fs \in Disk
      /\ WorkerOK(Cur) /\ Cur.at = p
  BY AtWork
<1>2. /\ Put(f) /\ fc' = NULL /\ UNCHANGED fixed /\ cmd' = cmd /\ fs' = fs /\ room' = room /\ dirs' = dirs
  BY <1>1 DEF rest, fixed, Go, disk
<1>3. /\ f \in Workers /\ f.at = r /\ f.src = Cur.src /\ f.seen = Cur.seen /\ f.name = Cur.name
      /\ f.tgt = Cur.tgt
  BY <1>1, Goes DEF WorkerPlaces
<1>4. WorkerOK(f) BY <1>1, <1>3 DEF WorkerOK, FilePlaces
<1> HIDE DEF f
<1>5. Moving BY <1>1 DEF IInv, FileOK, MovePlaces
<1>6. p \in SourcePlaces \ {"check", "copied"} BY DEF SourcePlaces
<1>7. stack' # <<>> /\ Cur' = f => FileOK' BY <1>1, <1>2, <1>3, <1>5, <1>6, FileStays
<1>8. PlainOK' BY <1>1, <1>2, PlainSame DEF SameData
<1>9. f.at # "entry" /\ p \notin {"copied", "subbed"} /\ p # "entry" BY <1>3
<1> QED BY <1>1, <1>2, <1>3, <1>4, <1>7, <1>8, <1>9, PutInv DEF IInv, StateOK

LEMMA ClearTargetStep ==
  ASSUME IInv, ClearTarget
  PROVE  IInv'
<1> DEFINE f == [Cur EXCEPT !.at = "again"]
<1>1. /\ stack # <<>> /\ fc = NULL /\ Cur \in Workers /\ top \in Tops /\ fs \in Disk /\ Working("clear")
      /\ WorkerOK(Cur) /\ Cur.at = "clear"
  BY AtWork DEF ClearTarget
<1>2. /\ Put(f) /\ fc' = NULL /\ dirs' = dirs /\ flags' = flags /\ top' = top
      /\ UNCHANGED fixed /\ env' = env /\ signals' = signals /\ cmd' = cmd
  BY <1>1 DEF ClearTarget, Go, rest, fixed
<1>3. /\ f \in Workers /\ f.at = "again" /\ f.src = Cur.src /\ f.seen = Cur.seen /\ f.name = Cur.name
      /\ f.tgt = Cur.tgt
  BY <1>1, Goes DEF WorkerPlaces
<1>4. WorkerOK(f) BY <1>1, <1>3 DEF WorkerOK, FilePlaces
<1> HIDE DEF f
<1>5. Exists(Source) /\ Source # Target /\ Moving
  BY <1>1 DEF IInv, FileOK, SourcePlaces, MovePlaces
<1>6. /\ fs' \in Disk /\ room' \in Nat /\ fs'[Source] = fs[Source]
      /\ \A p \in Paths : fs'[p] # NULL => fs'[p] = fs[p]
  <2>1. CASE UNCHANGED <<fs, room>> BY <1>1, <2>1 DEF IInv, StateOK
  <2>2. CASE /\ Exists(Target) /\ "R" \notin fs[Target].attr
             /\ fs' = [fs EXCEPT ![Target] = NULL] /\ room' = room + Length(Target)
    <3>1. Length(Target) \in Nat BY <1>1, <2>2, FileType
    <3>2. room' \in Nat BY <2>2, <3>1 DEF IInv, StateOK
    <3>3. fs' \in Disk /\ \A p \in Paths : fs'[p] # NULL => fs'[p] = fs[p] BY <1>1, <2>2 DEF Disk
    <3>4. fs'[Source] = fs[Source] BY <1>1, <1>5, <2>2 DEF Disk, Exists
    <3> QED BY <3>2, <3>3, <3>4
  <2> QED BY <2>1, <2>2 DEF ClearTarget
<1>7. ASSUME stack' # <<>>, Cur' = f
      PROVE  FileOK'
  <2>1. Source' = Source /\ Target' = Target BY <1>2, <1>3, <1>7, SameFile
  <2>2. Exists(Source)' BY <1>5, <1>6, <2>1 DEF Exists
  <2>3. Moving' BY <1>2, <1>5 DEF Moving
  <2> QED BY <1>5, <2>1, <2>2, <2>3 DEF FileOK
<1>8. PlainOK' BY <1>1, <1>2, <1>6, PlainKept
<1> QED BY <1>1, <1>2, <1>3, <1>4, <1>6, <1>7, <1>8, PutInv DEF IInv, StateOK

LEMMA RenamesStep ==
  ASSUME IInv, Rename \/ RenameFails \/ RenameAgain
  PROVE  IInv'
<1>1. CASE Rename
  BY <1>1, RenameStep DEF Rename, rest
<1>2. CASE RenameFails
  <2>1. UNCHANGED <<disk, fixed, flags, top, fc, env, signals>> /\ Working("rename") /\ Go("clear")
    BY <1>2 DEF RenameFails, rest
  <2> QED BY <2>1, GoesOn
<1>3. CASE RenameAgain
  <2>1. Working("again") /\ UNCHANGED <<dirs, room, fixed, flags, top, fc, env, signals>>
    BY <1>3 DEF RenameAgain, rest
  <2>2. CASE /\ fs' = [fs EXCEPT ![Target] = fs[Source], ![Source] = NULL]
             /\ Put([Cur EXCEPT !.at = "moved", !.nReturn = "0"])
    BY <2>1, <2>2, RenameStep
  <2>3. CASE Go("copy") /\ UNCHANGED fs
    <3>1. UNCHANGED <<disk, fixed, flags, top, fc, env, signals>> BY <2>1, <2>3 DEF disk
    <3> QED BY <2>1, <2>3, <3>1, GoesOn
  <2> QED BY <1>3, <2>2, <2>3 DEF RenameAgain
<1> QED BY <1>1, <1>2, <1>3

LEMMA CopyFailedStep ==
  ASSUME IInv, CopyFailed
  PROVE  IInv'
<1> DEFINE f == [Cur EXCEPT !.at = "find"]
<1>1. /\ stack # <<>> /\ fc = NULL /\ Cur \in Workers /\ top \in Tops /\ fs \in Disk /\ Working("copied")
      /\ WorkerOK(Cur) /\ Cur.at = "copied"
  BY AtWork DEF CopyFailed
<1>2. /\ Put(f) /\ fc' = NULL /\ dirs' = dirs /\ room' = room /\ flags' = flags /\ top' = top
      /\ UNCHANGED fixed /\ cmd' = cmd /\ env' = FrameEnv(TRUE) /\ signals' = TRUE
      /\ AttrSet(Source, Cur.attr)
  BY <1>1 DEF CopyFailed, Go, rest, fixed
<1>3. f \in Workers /\ f.at = "find" /\ f.src = Cur.src /\ f.seen = Cur.seen
  BY <1>1, Goes DEF WorkerPlaces
<1>4. WorkerOK(f) BY <1>1, <1>3 DEF WorkerOK, FilePlaces
<1> HIDE DEF f
<1>5. stack' # <<>> /\ Cur' = f => FileOK' BY <1>3, NoFile DEF SourcePlaces, MovePlaces
<1>6. Cur.attr \subseteq Attributes BY <1>1 DEF Workers
<1>7. fs' \in Disk /\ SameData(fs, fs') BY <1>1, <1>2, <1>6, AttrStep
<1>8. PlainOK' BY <1>1, <1>2, <1>7, PlainSame
<1> QED BY <1>1, <1>2, <1>3, <1>4, <1>5, <1>7, <1>8, PutInv DEF IInv, StateOK

\* The contents that /W writes over a file.
LEMMA Zeroed ==
  ASSUME NEW d \in Seq(Units)
  PROVE  /\ [i \in DOMAIN d |-> "zero"] \in Seq(Units)
         /\ "zero" \in ToSet([i \in DOMAIN d |-> "zero"]) \/ [i \in DOMAIN d |-> "zero"] = d
<1>1. Len(d) \in Nat /\ DOMAIN d = 1 .. Len(d) OBVIOUS
<1> DEFINE z == [i \in DOMAIN d |-> "zero"]
<1>2. DOMAIN z = 1 .. Len(d) /\ \A i \in DOMAIN z : z[i] = "zero" BY <1>1
<1>3. z \in [1 .. Len(d) -> Units]
  <2>1. "zero" \in Units BY Constants
  <2>2. z \in [DOMAIN d -> Units] BY <2>1, Zenon
  <2> HIDE DEF z
  <2> QED BY <1>1, <2>2
<1> HIDE DEF z
<1>4. z \in Seq(Units) BY <1>1, <1>3, SeqDef
<1>5. CASE Len(d) = 0
  <2>1. d = <<>> BY <1>5
  <2>2. Len(z) = 0 BY <1>2, <1>4, <1>5
  <2>3. z = <<>> BY <1>4, <2>2
  <2> QED BY <1>4, <2>1, <2>3 DEF z
<1>6. CASE Len(d) # 0
  <2>1. 1 \in DOMAIN z /\ z[1] = "zero" BY <1>1, <1>2, <1>6
  <2>2. "zero" \in ToSet(z) BY <2>1 DEF ToSet
  <2> QED BY <1>4, <2>2 DEF z
<1> QED BY <1>5, <1>6

\* The original loses its attributes and, with /W, its contents.
LEMMA CopyMovedStep ==
  ASSUME IInv, CopyMoved
  PROVE  IInv'
<1> DEFINE clear == IF Cur.attr \cap {"R", "H"} # {} THEN SetAttr(Source, {}) ELSE fs
<1>1. /\ stack # <<>> /\ fc = NULL /\ Cur \in Workers /\ top \in Tops /\ fs \in Disk /\ Working("copied")
      /\ WorkerOK(Cur) /\ Cur.at = "copied"
  BY AtWork DEF CopyMoved
<1>2. /\ fc' = NULL /\ dirs' = dirs /\ room' = room /\ flags' = flags /\ top' = top /\ Moving
      /\ UNCHANGED fixed /\ cmd' = cmd /\ env' = FrameEnv(TRUE) /\ signals' = TRUE
  BY <1>1 DEF CopyMoved, rest, fixed
<1>3. PICK p \in {"remove", "moved"} : Go(p) BY DEF CopyMoved
<1>4. PICK a \in {fs, clear} :
        fs' = a \/ fs' = WithData(a, Source, [i \in DOMAIN a[Source].data |-> "zero"])
  BY Zenon DEF CopyMoved, WithData
<1>5. a \in Disk /\ SameData(fs, a)
  <2>1. SetAttr(Source, {}) \in Disk /\ SameData(fs, SetAttr(Source, {})) BY <1>1, SetAttrSame
  <2> QED BY <1>1, <1>4, <2>1 DEF SameData
<1> HIDE DEF clear
<1> DEFINE z == [i \in DOMAIN a[Source].data |-> "zero"]
<1>6. Exists(Source) BY <1>1 DEF IInv, FileOK, SourcePlaces
<1>7. Source \in Paths /\ a[Source] # NULL BY <1>5, <1>6 DEF Exists, SameData
<1>8. a[Source].data \in Seq(Units)
  <2>1. a[Source] \in FileRecords BY <1>5, <1>7 DEF Disk
  <2> QED BY <2>1 DEF FileRecords
<1>9. z \in Seq(Units) /\ ("zero" \in ToSet(z) \/ z = a[Source].data) BY <1>8, Zeroed, Zenon
<1> HIDE DEF z
<1> DEFINE b == WithData(a, Source, z)
<1>10. /\ b \in Disk
       /\ \A q \in Paths : b[q] = NULL <=> a[q] = NULL
       /\ \A q \in Paths : q # Source => b[q] = a[q]
       /\ b[Source].data = z
  BY <1>5, <1>7, <1>9, DataChanged, Zenon
<1>18. fs' = a \/ fs' = b BY <1>4 DEF z
<1> HIDE DEF b
<1>11. fs' \in Disk BY <1>18, <1>5, <1>10
<1>12. PlainOK'
  <2>1. SUFFICES ASSUME Plain PROVE PlainOK'
    BY <1>2, NotPlain
  <2>2. \A q \in Paths : fs[q] # NULL => Whole(fs[q]) BY <1>1, <2>1 DEF IInv, PlainOK, Exists
  <2>3. \A q \in Paths : a[q] # NULL => Whole(a[q]) BY <1>5, <2>2 DEF SameData, Whole
  <2>4. Whole(b[Source]) BY <1>7, <1>9, <1>10, <2>3 DEF Whole
  <2>5. \A q \in Paths : b[q] # NULL => Whole(b[q]) BY <1>10, <2>3, <2>4
  <2>6. \A q \in Paths : fs'[q] # NULL => Whole(fs'[q])
    <3>1. CASE fs' = a BY <2>3, <3>1
    <3>2. CASE fs' = b BY <2>5, <3>2
    <3> QED BY <1>18, <3>1, <3>2
  <2>7. "CREATE" \in flags' /\ "APPEND" \notin flags' /\ top'.tname = "*" BY <1>2, <2>1 DEF IInv, PlainOK
  <2> QED BY <2>6, <2>7 DEF PlainOK, Exists, Whole
<1> DEFINE f == [Cur EXCEPT !.at = p]
<1>13. Put(f) BY <1>3 DEF Go
<1>14. f \in Workers /\ f.at = p /\ f.src = Cur.src /\ f.seen = Cur.seen /\ f.name = Cur.name
  BY <1>1, Goes DEF WorkerPlaces
<1>15. WorkerOK(f) BY <1>1, <1>14 DEF WorkerOK, FilePlaces
<1> HIDE DEF f
<1>16. stack' # <<>> /\ Cur' = f => FileOK' BY <1>2, <1>14, MovesOn
<1>17. f.at # "entry" BY <1>14
<1> QED BY <1>1, <1>2, <1>11, <1>12, <1>13, <1>14, <1>15, <1>16, <1>17, PutInv DEF IInv, StateOK

LEMMA RemoveSourceStep ==
  ASSUME IInv, RemoveSource
  PROVE  IInv'
<1> DEFINE f == [Cur EXCEPT !.at = "moved"]
<1>1. /\ stack # <<>> /\ fc = NULL /\ Cur \in Workers /\ top \in Tops /\ fs \in Disk /\ Working("remove")
      /\ WorkerOK(Cur) /\ Cur.at = "remove"
  BY AtWork DEF RemoveSource
<1>2. /\ Put(f) /\ fc' = NULL /\ dirs' = dirs /\ room' = room /\ flags' = flags /\ top' = top
      /\ UNCHANGED fixed /\ cmd' = cmd /\ env' = env /\ signals' = signals
      /\ fs' = fs \/ fs' = [fs EXCEPT ![Source] = NULL]
  BY <1>1 DEF RemoveSource, Go, rest, fixed
<1>3. f \in Workers /\ f.at = "moved" /\ f.src = Cur.src /\ f.seen = Cur.seen /\ f.name = Cur.name
  BY <1>1, Goes DEF WorkerPlaces
<1>4. WorkerOK(f) BY <1>1, <1>3 DEF WorkerOK, FilePlaces
<1> HIDE DEF f
<1>5. Moving BY <1>1 DEF IInv, FileOK, MovePlaces
<1>6. stack' # <<>> /\ Cur' = f => FileOK' BY <1>2, <1>3, <1>5, MovesOn
<1>7. fs' \in Disk /\ \A q \in Paths : fs'[q] # NULL => fs'[q] = fs[q] BY <1>1, <1>2 DEF Disk
<1>8. PlainOK' BY <1>1, <1>2, <1>7, PlainKept
<1> QED BY <1>1, <1>2, <1>3, <1>4, <1>6, <1>7, <1>8, PutInv DEF IInv, StateOK

LEMMA MovedStep ==
  ASSUME IInv, Moved
  PROVE  IInv'
<1> DEFINE f == [Cur EXCEPT !.at = "find"]
<1>1. /\ stack # <<>> /\ fc = NULL /\ Cur \in Workers /\ top \in Tops /\ fs \in Disk /\ Working("moved")
      /\ WorkerOK(Cur) /\ Cur.at = "moved"
  BY AtWork DEF Moved
<1>2. /\ Put(f) /\ fc' = NULL /\ dirs' = dirs /\ room' = room /\ flags' = flags
      /\ UNCHANGED fixed /\ cmd' = cmd /\ env' = env /\ signals' = signals
      /\ AttrSet(Target, Cur.attr) \/ NoAttr
      /\ top' = [top EXCEPT !.files = @ + 1]
  BY <1>1 DEF Moved, Go, rest, fixed
<1>3. f \in Workers /\ f.at = "find" /\ f.src = Cur.src /\ f.seen = Cur.seen
  BY <1>1, Goes DEF WorkerPlaces
<1>4. WorkerOK(f) BY <1>1, <1>3 DEF WorkerOK, FilePlaces
<1> HIDE DEF f
<1>5. stack' # <<>> /\ Cur' = f => FileOK' BY <1>3, NoFile DEF SourcePlaces, MovePlaces
<1>6. Cur.attr \subseteq Attributes BY <1>1 DEF Workers
<1>8. fs' \in Disk /\ SameData(fs, fs') BY <1>1, <1>2, <1>6, AttrStep
<1>9. /\ top' \in Tops /\ top'.at = top.at /\ top'.arg = top.arg /\ top'.lost = top.lost
      /\ top'.tname = top.tname
  BY <1>1, <1>2 DEF Tops
<1>10. PlainOK' BY <1>1, <1>2, <1>8, <1>9, PlainSame
<1> QED BY <1>1, <1>2, <1>3, <1>4, <1>5, <1>8, <1>9, <1>10, PutInv DEF IInv, StateOK
-----------------------------------------------------------------------------
(***************************************************************************)
(* The loop over the subdirectories.                                       *)
(***************************************************************************)
\* A worker calls the next one, which works in a directory below its own.
LEMMA DescendStep ==
  ASSUME IInv, Descend
  PROVE  IInv'
<1>1. /\ stack # <<>> /\ fc = NULL /\ stack \in Seq(Workers) /\ Cur \in Workers /\ Cur.at = "dirs"
      /\ WorkerOK(Cur) /\ top.at = "work" /\ top \in Tops /\ top.arg <= Len(cmd.args)
      /\ fs \in Disk /\ cmd \in Commands
  BY AtWork DEF Descend
<1> DEFINE c(d) == [Cur EXCEPT !.seen = @ \cup {d}, !.hdir = TRUE]
           g(d) == NewFrame(d, Append(Cur.tgt, d[Len(d)]))
<1>2. PICK d \in LeftDirs : stack' = Append([stack EXCEPT ![Len(stack)] = c(d)], g(d))
  BY Zenon DEF Descend
<1>3. /\ fc' = NULL /\ fs' = fs /\ dirs' = dirs /\ room' = room /\ flags' = flags /\ top' = top
      /\ UNCHANGED fixed /\ env' = env /\ signals' = signals
  BY <1>1 DEF Descend, disk, rest
<1>4. cmd' = cmd BY <1>3 DEF rest, fixed
<1>5. d \in Dirs /\ Len(d) = Len(Cur.src) + 1 BY <1>2 DEF LeftDirs, SubDirs, Below
<1>6. Cur.src \in Dirs /\ Cur.tgt \in Seq(STRING) /\ Len(Cur.src) \in Nat
  <2>1. Cur.src \in Dirs /\ Cur.tgt \in Seq(STRING) BY <1>1 DEF Workers
  <2> QED BY <2>1, Constants
<1> DEFINE f == c(d)
           n == g(d)
           m == [stack EXCEPT ![Len(stack)] = f]
<1>7. f \in Workers /\ f.at = "dirs" /\ f.src = Cur.src /\ f.seen = Cur.seen \cup {d}
  <2>1. Cur.seen \subseteq Dirs BY <1>1 DEF WorkerOK
  <2> QED BY <1>1, <1>5, <2>1 DEF Workers
<1>8. WorkerOK(f)
  <2>1. Cur.seen \subseteq Dirs BY <1>1 DEF WorkerOK
  <2> HIDE DEF f
  <2> QED BY <1>5, <1>7, <2>1 DEF WorkerOK, FilePlaces
<1>9. n \in Workers /\ WorkerOK(n) /\ n.src = d /\ n.at = "entry"
  <2>1. Append(Cur.tgt, d[Len(d)]) \in Seq(STRING)
    <3>1. d \in Seq(STRING) /\ Len(d) \in Nat \ {0} BY <1>5, <1>6, Constants
    <3>2. d[Len(d)] \in STRING BY <3>1
    <3> QED BY <1>6, <3>2
  <2> QED BY <1>5, <2>1, NewFrameType
<1>10. stack' = Append(m, n) BY <1>2
<1> HIDE DEF f, n
<1>11. /\ m \in Seq(Workers) /\ Len(m) = Len(stack) /\ DOMAIN m = DOMAIN stack /\ m[Len(stack)] = f
       /\ Len(stack) \in Nat \ {0} /\ \A i \in DOMAIN stack : i # Len(stack) => m[i] = stack[i]
  BY <1>1, <1>7, LastPut
<1> HIDE DEF m
<1>12. /\ stack' \in Seq(Workers) /\ stack' # <<>> /\ Len(stack') = Len(stack) + 1
       /\ DOMAIN stack' = 1 .. Len(stack) + 1 /\ stack'[Len(stack')] = n
       /\ \A i \in 1 .. Len(stack) : stack'[i] = m[i]
  BY <1>9, <1>10, <1>11, LastCalled
<1>13. Cur' = n BY <1>12 DEF Cur
<1>14. DOMAIN stack = 1 .. Len(stack) BY <1>1
<1>15. /\ stack'[Len(stack)] = f /\ stack'[Len(stack)].src = Cur.src
       /\ \A i \in DOMAIN stack : i # Len(stack) => stack'[i] = stack[i]
  BY <1>7, <1>11, <1>12, <1>14
<1>16. \A i \in DOMAIN stack : stack'[i].src = stack[i].src BY <1>15 DEF Cur
<1>17. ShapeOK'
  <2>1. \A i \in DOMAIN stack' : WorkerOK(stack'[i]) /\ (i < Len(stack') => stack'[i].at = "dirs")
    <3> TAKE i \in DOMAIN stack'
    <3>1. CASE i = Len(stack') BY <1>9, <1>12, <3>1
    <3>2. CASE i = Len(stack) BY <1>7, <1>8, <1>15, <3>2
    <3>3. CASE i # Len(stack') /\ i # Len(stack)
      <4>1. i \in DOMAIN stack /\ i < Len(stack) BY <1>11, <1>12, <1>14, <3>3
      <4> QED BY <1>15, <4>1 DEF IInv, ShapeOK
    <3> QED BY <3>1, <3>2, <3>3
  <2>2. \A i \in DOMAIN stack : Len(stack[i].src) <= Len(Cur.src)
    <3> TAKE i \in DOMAIN stack
    <3>1. stack[i] \in Workers BY <1>1
    <3>2. Len(stack[i].src) \in Nat BY <3>1, Constants DEF Workers
    <3>3. CASE i = Len(stack) BY <1>6, <3>3 DEF Cur
    <3>4. CASE i # Len(stack)
      <4>1. i < Len(stack) /\ Len(stack) \in DOMAIN stack BY <1>11, <1>14, <3>4
      <4> QED BY <3>2, <4>1, <1>6 DEF IInv, ShapeOK, Cur
    <3> QED BY <3>3, <3>4
  <2>3. \A i, j \in DOMAIN stack' : i < j => Len(stack'[i].src) < Len(stack'[j].src)
    <3> TAKE i, j \in DOMAIN stack'
    <3>1. SUFFICES ASSUME i < j PROVE Len(stack'[i].src) < Len(stack'[j].src)
      OBVIOUS
    <3>2. i \in DOMAIN stack BY <3>1, <1>11, <1>12, <1>14
    <3>3. CASE j = Len(stack')
      <4>1. stack'[j].src = d BY <1>9, <1>12, <3>3
      <4>2. Len(stack'[i].src) <= Len(Cur.src) BY <1>16, <2>2, <3>2
      <4>3. stack[i] \in Workers BY <1>1, <3>2
      <4>4. Len(stack'[i].src) \in Nat BY <4>3, <1>16, <3>2, Constants DEF Workers
      <4> QED BY <1>5, <1>6, <4>1, <4>2, <4>4
    <3>4. CASE j # Len(stack')
      <4>1. j \in DOMAIN stack BY <3>4, <1>11, <1>12, <1>14
      <4> QED BY <3>1, <3>2, <4>1, <1>16 DEF IInv, ShapeOK
    <3> QED BY <3>3, <3>4
  <2>4. stack' # <<>> <=> top'.at = "work" BY <1>1, <1>3, <1>12
  <2>5. top'.at \in {"work", "returned"} => top'.arg <= Len(cmd'.args) BY <1>1, <1>3, <1>4
  <2> QED BY <1>3, <2>1, <2>3, <2>4, <2>5 DEF ShapeOK, WorkerOK
<1>18. CopyOK' /\ PartOK' BY <1>3 DEF CopyOK, PartOK
<1>19. EnvOK'
  <2>1. Alive(env) BY <1>1 DEF IInv, EnvOK
  <2>2. env \in {CommandEnv, TopEnv, FileCopyEnv} \/ env.of = "worker" BY DEF IInv, StateOK, Envs
  <2>3. Alive(env)'
    <3>1. CASE env = CommandEnv BY <3>1, <1>3 DEF Alive, CommandEnv
    <3>2. CASE env = TopEnv BY <3>2, <1>1, <1>3 DEF Alive, TopEnv
    <3>3. CASE env = FileCopyEnv BY <3>3, <1>1, <2>1 DEF Alive, FileCopyEnv
    <3>4. CASE env.of = "worker"
      <4>1. PICK i \in DOMAIN stack : stack[i].src = env.src BY <2>1, <3>4 DEF Alive
      <4>2. i \in DOMAIN stack' /\ stack'[i].src = env'.src BY <1>3, <1>11, <1>12, <1>14, <1>16, <4>1
      <4> QED BY <1>3, <3>4, <4>2 DEF Alive
    <3> QED BY <2>2, <3>1, <3>2, <3>3, <3>4
  <2> QED BY <1>3, <1>12, <2>3 DEF EnvOK
<1>20. SearchOK'
  <2>1. Moving' <=> Moving BY <1>4 DEF Moving
  <2>2. Moving => env.of = "worker" /\ env.src = Cur.src BY <1>1 DEF IInv, SearchOK
  <2>3. stack'[Len(stack') - 1].src = Cur.src BY <1>11, <1>12, <1>15
  <2>4. Len(stack') # 1 BY <1>11, <1>12
  <2> QED BY <1>3, <1>9, <1>13, <2>1, <2>2, <2>3, <2>4 DEF IInv, SearchOK
<1>21. FileOK' BY <1>9, <1>13, NoFile DEF SourcePlaces, MovePlaces
<1>22. PlainOK' BY <1>1, <1>3, <1>4, PlainSame DEF SameData
<1>23. StateOK' BY <1>3, <1>12 DEF IInv, StateOK, rest, fixed
<1> QED BY <1>17, <1>18, <1>19, <1>20, <1>21, <1>22, <1>23 DEF IInv

\* A worker that goes on after another one, or is done with its directories.
LEMMA TreeGoes ==
  ASSUME IInv, NEW p \in {"subbed", "dirs"}, Working(p), NEW f \in Workers, Put(f), f.src = Cur.src,
         f.at \in {"dirs", "rmdir"}, f.seen = Cur.seen, UNCHANGED <<disk, fixed, flags, top, fc>>, signals' \in BOOLEAN,
         env' = FrameEnv(FALSE) \/ (env' = env /\ p = "dirs")
  PROVE  IInv'
<1>1. /\ stack # <<>> /\ fc = NULL /\ Cur \in Workers /\ top \in Tops /\ fs \in Disk
      /\ WorkerOK(Cur) /\ Cur.at = p
  BY AtWork
<1>2. /\ fc' = NULL /\ fs' = fs /\ dirs' = dirs /\ room' = room /\ flags' = flags /\ top' = top
      /\ UNCHANGED fixed /\ cmd' = cmd
  BY <1>1 DEF disk, rest, fixed
<1>3. WorkerOK(f) BY <1>1 DEF WorkerOK, FilePlaces
<1>4. stack' # <<>> /\ Cur' = f => FileOK' BY NoFile DEF SourcePlaces, MovePlaces
<1>5. PlainOK' BY <1>1, <1>2, PlainSame DEF SameData
<1>6. f.at # "entry" OBVIOUS
<1> QED BY <1>1, <1>2, <1>3, <1>4, <1>5, <1>6, PutInv DEF IInv, StateOK

\* A worker returns from the loop over the directories.
LEMMA TreeReturns ==
  ASSUME IInv, NEW p \in {"subbed", "dirs", "rmdir"}, Working(p), NEW r \in Returns, Return(r),
         UNCHANGED <<fs, room, fixed, flags, fc>>, dirs' \subseteq dirs, signals' \in BOOLEAN,
         env' = FrameEnv(FALSE) \/ env' = env
  PROVE  IInv'
<1>1. /\ stack # <<>> /\ fc = NULL /\ stack \in Seq(Workers) /\ fs \in Disk
  BY AtWork
<1>2. /\ fc' = NULL /\ fs' = fs /\ room' = room /\ flags' = flags /\ cmd' = cmd /\ UNCHANGED fixed
      /\ dirs' \subseteq Dirs
  BY <1>1 DEF rest, fixed, IInv, StateOK
<1>3. top'.tname = top.tname BY <1>1, Returning DEF IInv, StateOK
<1>4. FrameEnv(FALSE) \in Envs BY <1>1, FrameEnvType
<1>5. env' \in Envs BY <1>4 DEF IInv, StateOK
<1>6. PlainOK' BY <1>1, <1>2, <1>3, PlainSame DEF SameData
<1> QED BY <1>1, <1>2, <1>5, <1>6, ReturnInv DEF IInv, StateOK

LEMMA AscendStep ==
  ASSUME IInv, Ascend
  PROVE  IInv'
<1>1. Cur \in Workers /\ Working("subbed") BY AtWork DEF Ascend
<1>2. UNCHANGED <<disk, fixed, flags, fc, signals>> /\ env' = FrameEnv(FALSE) BY DEF Ascend, rest
<1>3. signals' \in BOOLEAN BY <1>2 DEF IInv, StateOK
<1>4. UNCHANGED <<fs, room, fixed, flags, fc>> /\ dirs' = dirs BY <1>2 DEF disk
<1>5. CASE Return("CTRLC")
  <2>1. "CTRLC" \in Returns BY DEF Returns
  <2> QED BY <1>1, <1>2, <1>3, <1>4, <1>5, <2>1, TreeReturns
<1>6. CASE UNCHANGED top /\ Put([Cur EXCEPT !.at = "rmdir", !.hdir = FALSE])
  <2> DEFINE f == [Cur EXCEPT !.at = "rmdir", !.hdir = FALSE]
  <2>1. f \in Workers /\ f.src = Cur.src /\ f.at = "rmdir" /\ f.seen = Cur.seen
    BY <1>1 DEF Workers, WorkerPlaces
  <2>2. Put(f) BY <1>6
  <2> HIDE DEF f
  <2> QED BY <1>1, <1>2, <1>3, <1>6, <2>1, <2>2, TreeGoes
<1>7. CASE UNCHANGED top /\ Go("dirs")
  <2> DEFINE f == [Cur EXCEPT !.at = "dirs"]
  <2>1. f \in Workers /\ f.src = Cur.src /\ f.at = "dirs" /\ f.seen = Cur.seen
    BY <1>1, Goes DEF WorkerPlaces
  <2>2. Put(f) BY <1>7 DEF Go
  <2> HIDE DEF f
  <2> QED BY <1>1, <1>2, <1>3, <1>7, <2>1, <2>2, TreeGoes
<1>8. \/ Return("CTRLC")
      \/ UNCHANGED top /\ Put([Cur EXCEPT !.at = "rmdir", !.hdir = FALSE])
      \/ UNCHANGED top /\ Go("dirs")
  BY Zenon DEF Ascend
<1> QED BY <1>5, <1>6, <1>7, <1>8

LEMMA DirsDoneStep ==
  ASSUME IInv, DirsDone
  PROVE  IInv'
<1>1. Cur \in Workers /\ Working("dirs") BY AtWork DEF DirsDone
<1>2. UNCHANGED <<disk, fixed, flags, fc, env>> BY DEF DirsDone, rest
<1>3. signals' \in BOOLEAN BY DEF DirsDone, IInv, StateOK, Opt
<1>4. UNCHANGED <<fs, room, fixed, flags, fc>> /\ dirs' = dirs BY <1>2 DEF disk
<1>5. CASE Return(Cur.nReturn)
  <2>1. Cur.nReturn \in Returns BY <1>1 DEF Workers
  <2> QED BY <1>1, <1>2, <1>3, <1>4, <1>5, <2>1, TreeReturns
<1>6. CASE Put([Cur EXCEPT !.at = "rmdir", !.hdir = FALSE]) /\ UNCHANGED top
  <2> DEFINE f == [Cur EXCEPT !.at = "rmdir", !.hdir = FALSE]
  <2>1. f \in Workers /\ f.src = Cur.src /\ f.at = "rmdir" /\ f.seen = Cur.seen
    BY <1>1 DEF Workers, WorkerPlaces
  <2>2. Put(f) BY <1>6
  <2> HIDE DEF f
  <2> QED BY <1>1, <1>2, <1>3, <1>6, <2>1, <2>2, TreeGoes
<1>7. \/ Return(Cur.nReturn)
      \/ Put([Cur EXCEPT !.at = "rmdir", !.hdir = FALSE]) /\ UNCHANGED top
  BY Zenon DEF DirsDone
<1> QED BY <1>5, <1>6, <1>7

\* MOVE /S removes the directory it has emptied.
LEMMA RemoveDirStep ==
  ASSUME IInv, RemoveDir
  PROVE  IInv'
<1>1. Cur \in Workers /\ Working("rmdir") BY AtWork DEF RemoveDir
<1>2. UNCHANGED <<fs, room, fixed, flags, fc, env, signals>> /\ Return(Cur.nReturn) BY DEF RemoveDir, rest
<1>3. signals' \in BOOLEAN BY <1>2 DEF IInv, StateOK
<1>4. dirs' \subseteq dirs BY DEF RemoveDir
<1>5. Cur.nReturn \in Returns BY <1>1 DEF Workers
<1> QED BY <1>1, <1>2, <1>3, <1>4, <1>5, TreeReturns

LEMMA TreeStep ==
  ASSUME IInv, Tree
  PROVE  IInv'
BY DescendStep, AscendStep, DirsDoneStep, RemoveDirStep DEF Tree
-----------------------------------------------------------------------------
(***************************************************************************)
(* Copy_Cmd() and Mv_Cmd().                                                *)
(***************************************************************************)
\* What holds of the command when no worker is active.
LEMMA AtCommand ==
  ASSUME IInv, top.at # "work"
  PROVE  /\ stack = <<>> /\ fc = NULL /\ top \in Tops /\ cmd \in Commands /\ fs \in Disk
         /\ top.at \in {"setup", "args", "finish"} => env \in {CommandEnv, TopEnv}
<1>1. stack = <<>> BY DEF IInv, ShapeOK
<1>2. fc = NULL BY <1>1 DEF IInv, ShapeOK
<1>3. CASE top.at \in {"setup", "args", "finish"}
  <2>1. Alive(env) BY <1>1, <1>3 DEF IInv, EnvOK
  <2>2. env \in {CommandEnv, TopEnv, FileCopyEnv} \/ env.of = "worker" BY DEF IInv, StateOK, Envs
  <2>3. DOMAIN stack = {} BY <1>1
  <2>4. env.of # "worker" BY <2>1, <2>3 DEF Alive
  <2>5. ASSUME env = FileCopyEnv PROVE FALSE
    <3>1. env.of = "FileCopy" BY <2>5 DEF FileCopyEnv
    <3>2. fc # NULL BY <2>1, <3>1 DEF Alive
    <3> QED BY <1>2, <3>2
  <2> QED BY <1>1, <1>2, <2>2, <2>4, <2>5 DEF IInv, StateOK, Disk
<1>4. CASE top.at \notin {"setup", "args", "finish"}
  BY <1>1, <1>2, <1>4 DEF IInv, StateOK, Disk
<1> QED BY <1>3, <1>4

\* A step of the command that calls no worker.
LEMMA TopInv ==
  ASSUME IInv, top.at \notin {"work", "done"}, UNCHANGED <<cmd, fException, fDiskFull, breaks, stack, fc>>, top' \in Tops,
         top'.at \in {"args", "finish", "done"}, top'.lost = top.lost, verify' \in BOOLEAN,
         env' = TopEnv \/ (env' = env /\ (top.at = "returned" => top'.at = "done")),
         fs' \in Disk, dirs' \subseteq Dirs, room' \in Nat, signals' \in BOOLEAN,
         flags' \subseteq {"CREATE", "APPEND", "EXISTS", "P", "R"}, PlainOK'
  PROVE  IInv'
<1>1. /\ stack = <<>> /\ fc = NULL /\ top \in Tops /\ cmd \in Commands
      /\ top.at \in {"setup", "args", "finish"} => env \in {CommandEnv, TopEnv}
  BY AtCommand
<1>2. stack' = <<>> /\ fc' = NULL /\ cmd' = cmd /\ DOMAIN stack' = {} BY <1>1
<1>3. env' \in Envs BY DEF IInv, StateOK, Envs
<1>4. StateOK' BY <1>2, <1>3 DEF IInv, StateOK, Disk
<1>5. ShapeOK'
  <2>1. \A i \in DOMAIN stack' : WorkerOK(stack'[i]) /\ (i < Len(stack') => stack'[i].at = "dirs")
    BY <1>2
  <2>2. \A i, j \in DOMAIN stack' : i < j => Len(stack'[i].src) < Len(stack'[j].src) BY <1>2
  <2> QED BY <1>2, <2>1, <2>2 DEF ShapeOK, WorkerOK
<1>6. FileOK' /\ CopyOK' /\ PartOK' BY <1>2 DEF FileOK, CopyOK, PartOK
<1>7. EnvOK'
  <2>1. SUFFICES ASSUME top'.at \in {"setup", "args", "finish"} PROVE Alive(env)'
    BY <1>2 DEF EnvOK
  <2>2. env' \in {CommandEnv, TopEnv}
    <3>1. top.at \in TopPlaces BY <1>1 DEF Tops
    <3>2. CASE env' = TopEnv BY <3>2
    <3>3. CASE env' = env BY <1>1, <2>1, <3>1, <3>3 DEF TopPlaces
    <3> QED BY <3>2, <3>3
  <2>3. CASE env' = CommandEnv BY <2>3 DEF Alive, CommandEnv
  <2>4. CASE env' = TopEnv BY <2>1, <2>4 DEF Alive, TopEnv
  <2> QED BY <2>2, <2>3, <2>4
<1>8. SearchOK'
  <2>1. Moving' <=> Moving BY <1>2 DEF Moving
  <2> QED BY <1>2, <2>1 DEF IInv, SearchOK
<1> QED BY <1>4, <1>5, <1>6, <1>7, <1>8 DEF IInv

\* Steps of the command that change no file and neither cv.env nor the flags.
LEMMA PlainTop ==
  ASSUME IInv, top.at # "work", fc' = fc, cmd' = cmd, fs' = fs, flags' = flags, top'.tname = top.tname
  PROVE  PlainOK'
<1>1. fc = NULL BY AtCommand
<1> QED BY <1>1, PlainSame DEF SameData

LEMMA TopStays ==
  ASSUME IInv, TopStep, top.at \in {"setup", "args"}, NEW p \in {"finish", "done"},
         NEW r \in Returns, top' = [top EXCEPT !.at = p, !.nReturn = r]
  PROVE  IInv'
<1>1. top \in Tops /\ fs \in Disk BY AtCommand
<1>2. top' \in Tops /\ top'.at = p /\ top'.lost = top.lost /\ top'.tname = top.tname
  BY <1>1 DEF Tops, TopPlaces
<1>3. /\ UNCHANGED <<fs, dirs, room, flags, signals, env, stack, fc, cmd, verify, fException, fDiskFull, breaks>>
  BY DEF TopStep, disk, rest, fixed
<1>4. PlainOK' BY <1>2, <1>3, PlainTop
<1>5. top.at \notin {"work", "done", "returned"} OBVIOUS
<1> QED BY <1>1, <1>2, <1>3, <1>4, <1>5, TopInv DEF IInv, StateOK

LEMMA RefuseStep ==
  ASSUME IInv, Refuse \/ BadName \/ RefuseInfinite \/ ArgsDone
  PROVE  IInv'
<1>1. top.at \in {"setup", "args"} /\ TopStep
  BY DEF Refuse, BadName, RefuseInfinite, ArgsDone, AtTop, MoreArgs
<1>2. top \in Tops BY <1>1, AtCommand
<1>3. top.nReturn \in Returns BY <1>2 DEF Tops
<1>4. PICK p \in {"finish", "done"}, r \in Returns : top' = [top EXCEPT !.at = p, !.nReturn = r]
  <2>1. "err" \in Returns BY DEF Returns
  <2>2. CASE Refuse BY <2>1, <2>2, Zenon DEF Refuse
  <2>3. CASE BadName
    <3> DEFINE x == IF Moving THEN "err" ELSE top.nReturn
    <3>1. x \in Returns BY <1>3, <2>1
    <3>2. top' = [top EXCEPT !.at = "finish", !.nReturn = x] BY <2>3, Zenon DEF BadName
    <3> HIDE DEF x
    <3> QED BY <3>1, <3>2, Zenon
  <2>4. CASE RefuseInfinite
    <3> DEFINE x == IF Copying THEN "done" ELSE "finish"
    <3>1. x \in {"finish", "done"} OBVIOUS
    <3>2. top' = [top EXCEPT !.at = x, !.nReturn = "err"] BY <2>4, Zenon DEF RefuseInfinite
    <3> HIDE DEF x
    <3> QED BY <2>1, <3>1, <3>2, Zenon
  <2>5. CASE ArgsDone
    <3>1. top' = [top EXCEPT !.at = "finish"] BY <2>5 DEF ArgsDone
    <3>2. top' = [top EXCEPT !.at = "finish", !.nReturn = top.nReturn] BY <1>2, <3>1 DEF Tops
    <3> QED BY <1>3, <3>2, Zenon
  <2> QED BY <2>2, <2>3, <2>4, <2>5, Zenon
<1> QED BY <1>1, <1>4, TopStays, Zenon

LEMMA SetupStep ==
  ASSUME IInv, Setup
  PROVE  IInv'
<1>1. top.at = "setup" BY DEF Setup, AtTop
<1>2. top \in Tops /\ fs \in Disk /\ fc = NULL BY <1>1, AtCommand
<1>3. top' = [top EXCEPT !.at = "args"] BY DEF Setup
<1>4. top' \in Tops /\ top'.at = "args" /\ top'.lost = top.lost /\ top'.tname = top.tname
  BY <1>2, <1>3 DEF Tops, TopPlaces
<1>5. UNCHANGED <<cmd, fException, fDiskFull, breaks, stack, fc, signals, fs, dirs, room>> BY DEF Setup, disk
<1>6. env' = TopEnv \/ env' = env BY DEF Setup
<1>7. verify' \in BOOLEAN BY DEF Setup, IInv, StateOK, Opt
<1>8. /\ flags \subseteq flags' /\ flags' \subseteq flags \cup {"P", "R", "APPEND"}
      /\ ~cmd.plus => ("APPEND" \in flags' <=> "APPEND" \in flags)
  BY DEF Setup
<1>9. flags' \subseteq {"CREATE", "APPEND", "EXISTS", "P", "R"} BY <1>8 DEF IInv, StateOK
<1>10. PlainOK'
  <2>1. CASE Plain
    <3>1. ("CREATE" \in flags' <=> "CREATE" \in flags) /\ ("APPEND" \in flags' <=> "APPEND" \in flags)
      BY <1>8, <2>1 DEF Plain
    <3>2. SameData(fs, fs') /\ fc' = NULL /\ cmd' = cmd BY <1>2, <1>5 DEF SameData
    <3> QED BY <1>2, <1>4, <3>1, <3>2, PlainSame
  <2>2. CASE ~Plain BY <1>5, <2>2, NotPlain
  <2> QED BY <2>1, <2>2
<1>11. top.at \notin {"work", "done"} BY <1>1
<1> QED BY <1>1, <1>2, <1>4, <1>5, <1>6, <1>7, <1>9, <1>10, <1>11, TopInv DEF IInv, StateOK

\* MOVE: the files of a directory are found in another one.
LEMMA RenameDirStep ==
  ASSUME IInv, RenameDir
  PROVE  IInv'
<1>1. top.at = "args" BY DEF RenameDir, MoreArgs, AtTop
<1>2. top \in Tops /\ fs \in Disk /\ fc = NULL BY <1>1, AtCommand
<1>3. top' = [top EXCEPT !.arg = @ + 1, !.files = @ + 1] BY DEF RenameDir
<1>4. top' \in Tops /\ top'.at = "args" /\ top'.lost = top.lost /\ top'.tname = top.tname
  <2>1. top.arg + 1 \in Nat \ {0} /\ top.files + 1 \in Nat BY <1>2 DEF Tops
  <2> QED BY <1>1, <1>2, <1>3, <2>1 DEF Tops
<1>5. UNCHANGED <<cmd, verify, fException, fDiskFull, breaks, stack, fc, signals, room, flags, env>>
  BY DEF RenameDir, rest, fixed
<1> DEFINE From(d) == Arg.dir \o SubSeq(d, Len(cmd.dir) + 1, Len(d))
           g(p) == IF p.dir \in Below(Arg.dir) THEN NULL
                   ELSE IF p.dir \notin Below(cmd.dir) THEN fs[p]
                   ELSE IF Exists(Path(From(p.dir), p.name)) THEN fs[Path(From(p.dir), p.name)] ELSE NULL
<1>6. fs' = [p \in Paths |-> g(p)] BY Zenon DEF RenameDir
<1>7. \A p \in Paths : g(p) = NULL \/ \E q \in Paths : g(p) = fs[q]
  BY DEF Exists
<1>8. dirs' \subseteq Dirs
  <2>1. \A d \in dirs' : d \in Dirs BY Zenon DEF RenameDir
  <2> QED BY <2>1
<1> HIDE DEF g
<1>9. \A p \in Paths : fs'[p] = NULL \/ \E q \in Paths : fs'[p] = fs[q] BY <1>6, <1>7
<1>10. fs' \in Disk
  <2>1. \A p \in Paths : g(p) \in FileRecords \cup {NULL} BY <1>2, <1>7 DEF Disk
  <2> QED BY <1>6, <2>1 DEF Disk
<1>11. PlainOK' BY <1>2, <1>4, <1>5, <1>9, PlainKept
<1>12. top.at \notin {"work", "done"} BY <1>1
<1> QED BY <1>1, <1>4, <1>5, <1>8, <1>10, <1>11, <1>12, TopInv DEF IInv, StateOK

LEMMA StartArgStep ==
  ASSUME IInv, StartArg
  PROVE  IInv'
<1>1. top.at = "args" /\ top.arg <= Len(cmd.args) BY DEF StartArg, MoreArgs, AtTop
<1>2. /\ top \in Tops /\ fs \in Disk /\ fc = NULL /\ cmd \in Commands /\ stack = <<>>
      /\ env \in {CommandEnv, TopEnv}
  BY <1>1, AtCommand
<1> DEFINE n == NewFrame(Arg.dir, cmd.dir)
<1>3. /\ top' = [top EXCEPT !.at = "work"] /\ stack' = <<n>> /\ fc' = NULL /\ fs' = fs /\ dirs' = dirs
      /\ room' = room /\ flags' = flags /\ UNCHANGED fixed /\ env' = env /\ signals' = signals
  BY <1>2 DEF StartArg, disk, rest
<1>4. cmd' = cmd BY <1>3 DEF rest, fixed
<1>5. /\ top' \in Tops /\ top'.at = "work" /\ top'.lost = top.lost /\ top'.tname = top.tname
      /\ top'.arg = top.arg
  BY <1>2, <1>3 DEF Tops, TopPlaces
<1>6. n \in Workers /\ WorkerOK(n) /\ n.at = "entry"
  <2>1. Arg.dir \in Dirs BY <1>1, <1>2, ArgType
  <2>2. cmd.dir \in Seq(STRING) BY <1>2, CmdType, Constants
  <2> QED BY <2>1, <2>2, NewFrameType
<1> HIDE DEF n
<1>7. stack' \in Seq(Workers) /\ stack' # <<>> /\ Len(stack') = 1 /\ DOMAIN stack' = {1} /\ stack'[1] = n
  BY <1>3, <1>6
<1>8. Cur' = n BY <1>7 DEF Cur
<1>9. ShapeOK'
  <2>1. \A i \in DOMAIN stack' : WorkerOK(stack'[i]) /\ (i < Len(stack') => stack'[i].at = "dirs")
    BY <1>6, <1>7
  <2>2. \A i, j \in DOMAIN stack' : i < j => Len(stack'[i].src) < Len(stack'[j].src) BY <1>7
  <2> QED BY <1>1, <1>3, <1>4, <1>5, <1>7, <2>1, <2>2 DEF ShapeOK, WorkerOK
<1>10. CopyOK' /\ PartOK' BY <1>3 DEF CopyOK, PartOK
<1>11. EnvOK'
  <2>1. CASE env = CommandEnv BY <1>3, <1>7, <2>1 DEF EnvOK, Alive, CommandEnv
  <2>2. CASE env = TopEnv BY <1>3, <1>5, <1>7, <2>2 DEF EnvOK, Alive, TopEnv
  <2> QED BY <1>2, <2>1, <2>2
<1>12. SearchOK'
  <2>1. Moving' <=> Moving BY <1>4 DEF Moving
  <2> QED BY <1>2, <1>3, <1>5, <1>6, <1>7, <1>8, <2>1 DEF IInv, SearchOK, CommandEnv, TopEnv
<1>13. FileOK' BY <1>6, <1>8, NoFile DEF SourcePlaces, MovePlaces
<1>14. PlainOK' BY <1>2, <1>3, <1>4, <1>5, PlainSame DEF SameData
<1>15. StateOK' BY <1>3, <1>5, <1>7 DEF IInv, StateOK, rest, fixed
<1> QED BY <1>9, <1>10, <1>11, <1>12, <1>13, <1>14, <1>15 DEF IInv

LEMMA ReturnedStep ==
  ASSUME IInv, Returned
  PROVE  IInv'
<1>1. top.at = "returned" BY DEF Returned, AtTop
<1>2. top \in Tops /\ fs \in Disk BY <1>1, AtCommand
<1>3. UNCHANGED <<fs, dirs, room, flags, stack, fc, cmd, verify, fException, fDiskFull, breaks>>
  BY DEF Returned, disk, rest, fixed
<1>4. env' = TopEnv /\ signals' \in BOOLEAN BY DEF Returned, IInv, StateOK, Copying
<1> DEFINE stops == top.nReturn = "CTRLC" \/ (Copying /\ fException)
           p == IF stops THEN "finish" ELSE "args"
           a == IF stops THEN top.arg ELSE top.arg + 1
           r == IF ~stops THEN top.nReturn ELSE IF fDiskFull THEN "err" ELSE "CTRLC"
<1>5. top' = [top EXCEPT !.at = p, !.arg = a, !.nReturn = r] BY Zenon DEF Returned
<1>6. p \in {"finish", "args"} OBVIOUS
<1>7. a \in Nat \ {0} BY <1>2 DEF Tops
<1>8. r \in Returns BY <1>2 DEF Tops, Returns
<1> HIDE DEF p, a, r
<1>9. top' \in Tops /\ top'.at = p /\ top'.lost = top.lost /\ top'.tname = top.tname
  BY <1>2, <1>5, <1>6, <1>7, <1>8 DEF Tops, TopPlaces
<1>10. PlainOK' BY <1>1, <1>3, <1>9, PlainTop
<1> QED BY <1>1, <1>2, <1>3, <1>4, <1>6, <1>9, <1>10, TopInv DEF IInv, StateOK

LEMMA FinishStep ==
  ASSUME IInv, Finish
  PROVE  IInv'
<1>1. top.at = "finish" BY DEF Finish, AtTop
<1>2. top \in Tops /\ fs \in Disk BY <1>1, AtCommand
<1>3. UNCHANGED <<fs, dirs, room, flags, stack, fc, cmd, fException, fDiskFull, breaks, env, signals>>
  BY DEF Finish, disk
<1>4. verify' \in BOOLEAN BY DEF Finish, IInv, StateOK, Opt
<1> DEFINE r == IF top.files # 0 THEN top.nReturn ELSE "err"
<1>5. top' = [top EXCEPT !.at = "done", !.nReturn = r] BY Zenon DEF Finish
<1>6. r \in Returns BY <1>2 DEF Tops, Returns
<1> HIDE DEF r
<1>7. top' \in Tops /\ top'.at = "done" /\ top'.lost = top.lost /\ top'.tname = top.tname
  BY <1>2, <1>5, <1>6 DEF Tops, TopPlaces
<1>8. PlainOK' BY <1>1, <1>3, <1>7, PlainTop
<1>9. top.at \notin {"work", "done", "returned"} BY <1>1
<1> QED BY <1>2, <1>3, <1>4, <1>7, <1>8, <1>9, TopInv DEF IInv, StateOK

LEMMA CommandStep ==
  ASSUME IInv, Command
  PROVE  IInv'
BY RefuseStep, SetupStep, RenameDirStep, StartArgStep, ReturnedStep, FinishStep DEF Command

\* The steps of the loop over the files.
LEMMA FilesStep ==
  ASSUME IInv, Files \/ AfterFile
  PROVE  IInv'
<1>1. CASE Files
  BY <1>1, EnterStep, EnterFailsStep, FindStep, FindEndsStep, CheckSkipsStep, CheckRefusesStep, CheckSameStep,
     CheckOKStep, AskStep, PrepareStep DEF Files
<1>2. CASE AfterFile
  BY <1>2, CopyAbortedStep, CopiedStep, NextCopyStep, RenamesStep, ClearTargetStep, CopyFailedStep, CopyMovedStep,
     RemoveSourceStep, MovedStep DEF AfterFile
<1> QED BY <1>1, <1>2

-----------------------------------------------------------------------------
(***************************************************************************)
(* FileCopy().                                                             *)
(***************************************************************************)
LEMMA LeastElement ==
  ASSUME NEW T, T \subseteq Nat, T # {}
  PROVE  \E n \in T : \A m \in T : n <= m
<1> DEFINE R == {ss \in Nat \X Nat : ss[1] < ss[2]}
<1>1. IsWellFoundedOn(R, Nat) BY NatLessThanWellFounded, Zenon DEF OpToRel
<1>2. \E x \in T : \A y \in T : <<y, x>> \notin R BY <1>1, WFMin
<1>3. PICK n \in T : \A y \in T : <<y, n>> \notin R BY <1>2
<1>4. \A m \in T : n <= m
  <2> TAKE m \in T
  <2>1. m \in Nat /\ n \in Nat OBVIOUS
  <2>2. m < n => <<m, n>> \in R BY <2>1
  <2> QED BY <1>3, <2>1, <2>2
<1> QED BY <1>4

\* Where a text ends.
LEMMA TextEndType ==
  ASSUME NEW s \in Seq(Units)
  PROVE  TextEnd(s) \in 0 .. Len(s)
<1>1. Len(s) \in Nat /\ DOMAIN s = 1 .. Len(s) OBVIOUS
<1>2. CASE \E i \in DOMAIN s : s[i] = "^Z"
  <2> DEFINE T == {n \in Nat : n + 1 \in DOMAIN s /\ s[n + 1] = "^Z"}
  <2>1. PICK i \in DOMAIN s : s[i] = "^Z" BY <1>2
  <2>2. i - 1 \in Nat /\ (i - 1) + 1 = i BY <1>1
  <2>3. T # {} BY <2>1, <2>2
  <2>4. PICK n \in T : \A m \in T : n <= m BY <2>3, LeastElement
  <2>5. n \in 0 .. Len(s) - 1 /\ s[n + 1] = "^Z" BY <1>1, <2>4
  <2>6. \A j \in 1 .. n : s[j] # "^Z"
    <3> TAKE j \in 1 .. n
    <3>1. j - 1 \in Nat /\ (j - 1) + 1 = j /\ j \in DOMAIN s /\ ~(n <= j - 1) BY <1>1, <2>5
    <3> QED BY <2>4, <3>1
  <2> DEFINE Q(k) == s[k + 1] = "^Z" /\ \A j \in 1 .. k : s[j] # "^Z"
  <2>7. \E k \in 0 .. Len(s) - 1 : Q(k) BY <2>5, <2>6
  <2>8. TextEnd(s) = CHOOSE k \in 0 .. Len(s) - 1 : Q(k) BY <1>2, Zenon DEF TextEnd
  <2> HIDE DEF Q
  <2>9. TextEnd(s) \in 0 .. Len(s) - 1 BY <2>7, <2>8
  <2> QED BY <1>1, <2>9
<1>3. CASE ~(\E i \in DOMAIN s : s[i] = "^Z")
  <2>1. TextEnd(s) = Len(s) BY <1>3, Zenon DEF TextEnd
  <2> QED BY <1>1, <2>1
<1> QED BY <1>2, <1>3

\* The first m units of a file, behind the first k.
LEMMA Slice ==
  ASSUME NEW s \in Seq(Units), NEW k \in Nat, NEW m \in Nat, m <= Len(s)
  PROVE  /\ SubSeq(s, k + 1, m) \in Seq(Units)
         /\ Len(SubSeq(s, k + 1, m)) = IF k <= m THEN m - k ELSE 0
         /\ \A i \in 1 .. m - k : SubSeq(s, k + 1, m)[i] = s[k + i]
<1>1. \A i \in k + 1 .. m : s[i] \in Units
  <2> TAKE i \in k + 1 .. m
  <2>1. i \in 1 .. Len(s) OBVIOUS
  <2> QED BY <2>1, ElementOfSeq
<1>2. k + 1 \in Int /\ m \in Int OBVIOUS
<1> DEFINE t == SubSeq(s, k + 1, m)
<1>3. /\ t \in Seq(Units)
      /\ Len(t) = IF k + 1 <= m THEN m - (k + 1) + 1 ELSE 0
      /\ \A i \in 1 .. m - (k + 1) + 1 : t[i] = s[k + 1 + i - 1]
  BY <1>1, <1>2, SubSeqProperties
<1> HIDE DEF t
<1>4. Len(t) = IF k <= m THEN m - k ELSE 0 BY <1>3
<1>5. \A i \in 1 .. m - k : t[i] = s[k + i] BY <1>3
<1> QED BY <1>3, <1>4, <1>5 DEF t

LEMMA LengthType ==
  ASSUME fs \in Disk, NEW p
  PROVE  Length(p) \in Nat
<1>1. CASE Exists(p) BY <1>1, FileType
<1>2. CASE ~Exists(p) BY <1>2 DEF Length
<1> QED BY <1>1, <1>2

\* What a write leaves in the file.
LEMMA WrittenType ==
  ASSUME NEW s \in Seq(Units), NEW pos \in Nat, NEW new \in Seq(Units)
  PROVE  /\ Written(s, pos, new) \in Seq(Units)
         /\ Len(Written(s, pos, new)) = IF new # <<>> /\ pos + Len(new) < Len(s) THEN Len(s) ELSE pos + Len(new)
         /\ \A i \in 1 .. Len(Written(s, pos, new)) :
              Written(s, pos, new)[i] = IF i \in pos + 1 .. pos + Len(new) THEN new[i - pos]
                                        ELSE IF i \in DOMAIN s THEN s[i] ELSE "junk"
<1> DEFINE m == IF new # <<>> /\ pos + Len(new) < Len(s) THEN Len(s) ELSE pos + Len(new)
           e(i) == IF i \in pos + 1 .. pos + Len(new) THEN new[i - pos]
                   ELSE IF i \in DOMAIN s THEN s[i] ELSE "junk"
<1>1. Len(s) \in Nat /\ Len(new) \in Nat OBVIOUS
<1>2. m \in Nat BY <1>1
<1>3. \A i \in 1 .. m : e(i) \in Units
  <2> TAKE i \in 1 .. m
  <2>1. CASE i \in pos + 1 .. pos + Len(new)
    <3>1. i - pos \in DOMAIN new BY <1>1, <2>1
    <3>2. e(i) = new[i - pos] BY <2>1
    <3> HIDE DEF e
    <3> QED BY <3>1, <3>2
  <2>2. CASE i \notin pos + 1 .. pos + Len(new) /\ i \in DOMAIN s
    <3>1. e(i) = s[i] BY <2>2
    <3> HIDE DEF e
    <3> QED BY <2>2, <3>1
  <2>3. CASE i \notin pos + 1 .. pos + Len(new) /\ i \notin DOMAIN s
    <3>1. e(i) = "junk" BY <2>3
    <3> HIDE DEF e
    <3> QED BY <3>1, Constants
  <2> QED BY <2>1, <2>2, <2>3
<1>4. Written(s, pos, new) = [i \in 1 .. m |-> e(i)] BY Zenon DEF Written
<1> HIDE DEF m
<1> DEFINE w == Written(s, pos, new)
<1>5. w \in [1 .. m -> Units]
  <2> HIDE DEF e
  <2> QED BY <1>3, <1>4
<1>6. \A i \in 1 .. m : w[i] = e(i)
  <2> HIDE DEF e
  <2> QED BY <1>4
<1> HIDE DEF w
<1>7. w \in Seq(Units) /\ Len(w) = m
  <2>1. w \in Seq(Units) BY <1>2, <1>5, SeqDef
  <2>2. DOMAIN w = 1 .. m BY <1>5
  <2> QED BY <1>2, <2>1, <2>2
<1> QED BY <1>6, <1>7 DEF w, m

\* What holds while a file is copied, and when FileCopy() is called.
LEMMA AtCopy ==
  ASSUME IInv, stack # <<>>, Cur.at = "copy"
  PROVE  /\ stack \in Seq(Workers) /\ Cur \in Workers /\ WorkerOK(Cur) /\ top.at = "work" /\ top \in Tops
         /\ top.arg <= Len(cmd.args) /\ fs \in Disk /\ cmd \in Commands /\ Exists(Source) /\ Source \in Paths
         /\ Cur.name \in Names /\ Target.name \in Names /\ (Moving => Source # Target)
<1>1. stack \in Seq(Workers) /\ top \in Tops BY DEF IInv, StateOK
<1>2. Cur \in Workers /\ Len(stack) \in DOMAIN stack BY <1>1, CurType
<1>3. WorkerOK(Cur) BY <1>2 DEF IInv, ShapeOK, Cur
<1>4. Cur.name \in Names BY <1>3 DEF WorkerOK, FilePlaces
<1>5. Target.name \in Names BY <1>1, <1>4, TargetName
<1>6. Exists(Source) /\ (Moving => Source # Target) BY DEF IInv, FileOK, SourcePlaces
<1>7. Source \in Paths BY <1>6 DEF Exists
<1> QED BY <1>1, <1>2, <1>3, <1>4, <1>5, <1>6, <1>7 DEF IInv, StateOK, ShapeOK, Disk

\* A step of FileCopy() that is not its last.
LEMMA CopyInv ==
  ASSUME IInv, stack # <<>>, Cur.at = "copy", fc' \in Copies,
         UNCHANGED <<dirs, cmd, verify, fException, breaks, flags, top, stack, signals>>,
         fDiskFull' \in BOOLEAN, fs' \in Disk, room' \in Nat, fs'[Source] # NULL,
         env' = FileCopyEnv \/ (env' = env /\ (fc'.at \in {"start", "exit"}
                                                    \/ (fc # NULL /\ fc.at \notin {"start", "exit"}))),
         CopyOK', PlainOK', PartOK'
  PROVE  IInv'
<1>1. Exists(Source) /\ Source \in Paths BY AtCopy
<1>2. fc' # NULL BY Constants
<1>3. Cur' = Cur BY DEF Cur
<1>4. Source' = Source /\ Target' = Target BY <1>3, SameFile
<1>5. env' \in Envs /\ (fc'.at \notin {"start", "exit"} => env' = FileCopyEnv)
  BY DEF IInv, StateOK, Envs, EnvOK
<1>6. StateOK' BY <1>5 DEF IInv, StateOK, Disk
<1>7. ShapeOK' BY <1>3 DEF IInv, ShapeOK, WorkerOK
<1>8. FileOK'
  <2>1. Exists(Source)' BY <1>1, <1>4 DEF Exists
  <2>2. Moving' <=> Moving BY DEF Moving
  <2> QED BY <1>3, <1>4, <2>1, <2>2 DEF IInv, FileOK, MovePlaces
<1>9. EnvOK' BY <1>2, <1>5 DEF EnvOK
<1>10. SearchOK'
  <2>1. Moving' <=> Moving BY DEF Moving
  <2> QED BY <1>2, <2>1 DEF IInv, SearchOK
<1> QED BY <1>6, <1>7, <1>8, <1>9, <1>10 DEF IInv

\* The files of a plain command when only FileCopy() itself goes on.
LEMMA CopyPlain ==
  ASSUME IInv, stack # <<>>, UNCHANGED <<cmd, flags, top, stack>>, SameData(fs, fs'),
         Plain /\ fc # NULL /\ fc.out /\ fc.at # "exit" => fc' # NULL /\ fc'.out /\ fc'.at # "exit"
  PROVE  PlainOK'
<1>1. Plain' <=> Plain BY DEF Plain, Binary
<1>2. Target' = Target BY SameFile DEF Cur
<1>3. SUFFICES ASSUME Plain
               PROVE  /\ "CREATE" \in flags' /\ "APPEND" \notin flags' /\ top'.tname = "*"
                      /\ \A p \in Paths : fs'[p] # NULL =>
                           Whole(fs'[p]) \/ (fc' # NULL /\ fc'.out /\ fc'.at # "exit" /\ p = Target)
  BY <1>1, <1>2 DEF PlainOK, Exists, Whole
<1>4. \A p \in Paths : fs[p] # NULL =>
        Whole(fs[p]) \/ (fc # NULL /\ fc.out /\ fc.at # "exit" /\ p = Target)
  BY <1>3 DEF IInv, PlainOK, Exists
<1>5. \A p \in Paths : fs'[p] # NULL => fs[p] # NULL /\ (Whole(fs'[p]) <=> Whole(fs[p]))
  BY DEF SameData, Whole
<1>6. "CREATE" \in flags' /\ "APPEND" \notin flags' /\ top'.tname = "*" BY <1>3 DEF IInv, PlainOK
<1> QED BY <1>3, <1>4, <1>5, <1>6

\* Its data, when it is plain.
LEMMA PlainCopy ==
  ASSUME IInv, Plain, stack # <<>>, Cur.at = "copy"
  PROVE  Create /\ "APPEND" \notin flags /\ ~Ascii /\ ~AsciiTarget
<1>1. "CREATE" \in flags /\ "APPEND" \notin flags BY DEF IInv, PlainOK
<1>2. Arg.type # "A" /\ cmd.type # "A"
  <2>1. top \in Tops /\ cmd \in Commands /\ top.arg <= Len(cmd.args) BY AtCopy
  <2>2. top.arg \in DOMAIN cmd.args
    <3>1. cmd.args \in Seq(ArgRecords) BY <2>1, CmdType
    <3>2. top.arg \in Nat \ {0} BY <2>1 DEF Tops
    <3> QED BY <2>1, <3>1, <3>2
  <2> QED BY <2>2 DEF Plain, Binary, Arg
<1>3. ~Ascii BY <1>2, Zenon DEF Ascii
<1>4. ~AsciiTarget BY <1>2, Zenon DEF AsciiTarget
<1>5. Create BY <1>1 DEF Create
<1> QED BY <1>1, <1>3, <1>4, <1>5

\* When FileCopy() is called, and when it has not opened the target.
LEMMA CallStep ==
  ASSUME IInv, CallFileCopy
  PROVE  IInv'
<1> DEFINE o == IF Moving THEN 0 ELSE top.offset
           f == [at |-> "start", offset |-> o, pos |-> 0, read |-> 0, chunk |-> <<>>, fEoF |-> FALSE,
                 in |-> FALSE, out |-> FALSE, nReturn |-> "0"]
<1>1. stack # <<>> /\ fc = NULL /\ Cur.at = "copy" BY DEF CallFileCopy, Working
<1>2. fs \in Disk /\ Exists(Source) /\ top \in Tops /\ Source \in Paths BY <1>1, AtCopy
<1>3. fc' = f BY Zenon DEF CallFileCopy
<1>4. o \in Nat BY <1>2 DEF Tops
<1> HIDE DEF o
<1>5. /\ f \in Copies /\ f.at = "start" /\ ~f.out /\ f.pos = 0 /\ f.read = 0
  BY <1>4 DEF Copies, CopyPlaces, Returns
<1> HIDE DEF f
<1>6. UNCHANGED <<fs, dirs, room, cmd, verify, fException, fDiskFull, breaks, flags, top, stack, env, signals>>
  BY DEF CallFileCopy, disk, rest, fixed
<1>7. CopyOK' /\ PartOK' BY <1>3, <1>5 DEF CopyOK, PartOK
<1>8. PlainOK' BY <1>1, <1>6, CopyPlain DEF SameData
<1>9. fs'[Source] # NULL BY <1>2, <1>6 DEF Exists
<1>10. fDiskFull' \in BOOLEAN /\ room' \in Nat BY <1>6 DEF IInv, StateOK
<1>11. fc'.at \in {"start", "exit"} /\ fc' \in Copies BY <1>3, <1>5
<1> QED BY <1>1, <1>2, <1>6, <1>7, <1>8, <1>9, <1>10, <1>11, CopyInv

\* What holds in a step of FileCopy().
LEMMA InCopy ==
  ASSUME IInv, fc # NULL
  PROVE  stack # <<>> /\ Cur.at = "copy" /\ fc \in Copies
BY DEF IInv, ShapeOK, StateOK

LEMMA FCEarlyStep ==
  ASSUME IInv, FCRefuses \/ FCStarts \/ FCIn \/ FCFails \/ FCCloses
  PROVE  IInv'
<1>1. fc # NULL BY DEF FCRefuses, FCStarts, FCIn, FCFails, FCCloses, InFC
<1>2. stack # <<>> /\ Cur.at = "copy" /\ fc \in Copies BY <1>1, InCopy
<1>3. fs \in Disk /\ Exists(Source) /\ Source \in Paths BY <1>2, AtCopy
<1>4. UNCHANGED <<fs, dirs, room, cmd, verify, fException, fDiskFull, breaks, flags, top, stack, signals>>
  BY DEF FCRefuses, FCStarts, FCIn, FCFails, FCCloses, FCStep, rest, fixed
<1>5. fs'[Source] # NULL /\ fs' \in Disk /\ SameData(fs, fs') BY <1>3, <1>4 DEF Exists, SameData
<1>6. Source' = Source /\ Target' = Target BY <1>4, SameFile DEF Cur
<1>7. Plain' <=> Plain BY <1>4 DEF Plain, Binary
<1>13. fDiskFull' \in BOOLEAN /\ room' \in Nat BY <1>4 DEF IInv, StateOK
<1>8. CASE FCRefuses
  <2>1. fc.at = "start" /\ fc' = [fc EXCEPT !.at = "exit", !.nReturn = "err"] /\ env' = env
    BY <1>8 DEF FCRefuses, InFC
  <2>2. fc' \in Copies /\ fc'.at = "exit" /\ fc'.out = fc.out
    BY <1>2, <2>1 DEF Copies, CopyPlaces, Returns
  <2>3. CopyOK' /\ PartOK' BY <2>2 DEF CopyOK, PartOK
  <2>4. Plain => ~fc.out BY <1>1, <2>1 DEF IInv, PartOK
  <2>5. PlainOK' BY <1>2, <1>4, <1>5, <2>4, CopyPlain
  <2> QED BY <1>2, <1>4, <1>5, <2>1, <2>2, <2>3, <2>5, <1>13, CopyInv
<1>9. CASE FCStarts
  <2>1. fc.at = "start" /\ fc' = [fc EXCEPT !.at = "in"] /\ env' = FileCopyEnv /\ Source # Target
    BY <1>9 DEF FCStarts, InFC
  <2>2. /\ fc' \in Copies /\ fc'.at = "in" /\ fc'.out = fc.out /\ fc'.pos = fc.pos /\ fc'.read = fc.read
    BY <1>2, <2>1 DEF Copies, CopyPlaces
  <2>3. CopyOK' BY <1>6, <2>1, <2>2 DEF CopyOK
  <2>4. Plain => ~fc.out /\ fc.pos = 0 /\ fc.read = 0 BY <1>1, <2>1 DEF IInv, PartOK
  <2>5. PartOK' BY <1>7, <2>2, <2>4 DEF PartOK
  <2>6. PlainOK' BY <1>2, <1>4, <1>5, <2>4, CopyPlain
  <2> QED BY <1>2, <1>4, <1>5, <2>1, <2>2, <2>3, <2>5, <2>6, <1>13, CopyInv
<1>10. CASE FCIn
  <2>1. fc.at = "in" /\ fc' = [fc EXCEPT !.at = "out", !.in = TRUE] /\ env' = env
    BY <1>10 DEF FCIn, InFC
  <2>2. /\ fc' \in Copies /\ fc'.at = "out" /\ fc'.out = fc.out /\ fc'.pos = fc.pos /\ fc'.read = fc.read
    BY <1>2, <2>1 DEF Copies, CopyPlaces
  <2>3. Source # Target BY <1>1, <2>1 DEF IInv, CopyOK
  <2>4. CopyOK' BY <1>6, <2>2, <2>3 DEF CopyOK
  <2>5. Plain => ~fc.out /\ fc.pos = 0 /\ fc.read = 0 BY <1>1, <2>1 DEF IInv, PartOK
  <2>6. PartOK' BY <1>7, <2>2, <2>5 DEF PartOK
  <2>7. PlainOK' BY <1>2, <1>4, <1>5, <2>5, CopyPlain
  <2>8. fc.at \notin {"start", "exit"} BY <2>1
  <2> QED BY <1>1, <1>2, <1>4, <1>5, <2>1, <2>2, <2>4, <2>6, <2>7, <2>8, <1>13, CopyInv
<1>11. CASE FCFails
  <2>1. fc.at \in {"in", "out", "seek", "read", "write"} /\ fc' = [fc EXCEPT !.at = "bye", !.nReturn = "err"]
        /\ env' = env
    BY <1>11 DEF FCFails, Bye
  <2>2. fc' \in Copies /\ fc'.at = "bye" /\ fc'.out = fc.out /\ fc'.nReturn = "err"
    BY <1>2, <2>1 DEF Copies, CopyPlaces, Returns
  <2>3. Source # Target BY <1>1, <2>1 DEF IInv, CopyOK
  <2>4. CopyOK' BY <1>6, <2>2, <2>3 DEF CopyOK
  <2>5. PartOK' BY <2>2 DEF PartOK
  <2>6. fc' # NULL BY <2>2, Constants
  <2>7. PlainOK' BY <1>2, <1>4, <1>5, <2>2, <2>6, CopyPlain
  <2>8. fc.at \notin {"start", "exit"} BY <2>1
  <2> QED BY <1>1, <1>2, <1>4, <1>5, <2>1, <2>2, <2>4, <2>5, <2>7, <2>8, <1>13, CopyInv
<1>12. CASE FCCloses
  <2>1. PICK p \in {"attr", "exit"} : /\ (p = "attr" <=> fc.out) /\ fc' = [fc EXCEPT !.at = p, !.in = FALSE]
    <3> DEFINE x == IF fc.out THEN "attr" ELSE "exit"
    <3>1. fc.out \in BOOLEAN BY <1>2 DEF Copies
    <3>2. x \in {"attr", "exit"} /\ (x = "attr" <=> fc.out) BY <3>1
    <3>3. fc' = [fc EXCEPT !.at = x, !.in = FALSE] BY <1>12, Zenon DEF FCCloses
    <3> HIDE DEF x
    <3> QED BY <3>2, <3>3, Zenon
  <2>2. fc.at = "bye" /\ env' = env BY <1>12 DEF FCCloses, InFC
  <2>3. fc' \in Copies /\ fc'.at = p /\ fc'.out = fc.out /\ fc'.nReturn = fc.nReturn
    BY <1>2, <2>1 DEF Copies, CopyPlaces
  <2>4. Source # Target BY <1>1, <2>2 DEF IInv, CopyOK
  <2>5. CopyOK' BY <1>6, <2>3, <2>4 DEF CopyOK
  <2>6. Plain /\ fc.nReturn = "0" => fc.out /\ Exists(Target) /\ Whole(fs[Target])
    BY <1>1, <2>2 DEF IInv, PartOK
  <2>7. Plain /\ fc.nReturn = "0" => (Exists(Target) /\ Whole(fs[Target]))'
    BY <1>4, <1>6, <2>6 DEF Exists, Whole
  <2>8. PartOK' BY <1>7, <2>1, <2>3, <2>6, <2>7 DEF PartOK
  <2>9. fc' # NULL BY <2>3, Constants
  <2>10. PlainOK' BY <1>2, <1>4, <1>5, <2>1, <2>3, <2>9, CopyPlain
  <2>11. fc.at \notin {"start", "exit"} BY <2>2
  <2> QED BY <1>1, <1>2, <1>4, <1>5, <2>2, <2>3, <2>5, <2>8, <2>10, <2>11, <1>13, CopyInv
<1> QED BY <1>8, <1>9, <1>10, <1>11, <1>12

\* The target is created: empty.
LEMMA FCCreatesStep ==
  ASSUME IInv, FCCreates
  PROVE  IInv'
<1> DEFINE new == [data |-> <<>>, time |-> 0, attr |-> {}]
<1>1. /\ fc # NULL /\ fc.at = "out" /\ Writable /\ fs' = [fs EXCEPT ![Target] = new]
      /\ room' = room + Length(Target) /\ fc' = [fc EXCEPT !.at = "read", !.out = TRUE] /\ env' = env
  BY DEF FCCreates, InFC
<1>2. stack # <<>> /\ Cur.at = "copy" /\ fc \in Copies BY <1>1, InCopy
<1>3. /\ fs \in Disk /\ Exists(Source) /\ Source \in Paths /\ stack \in Seq(Workers) /\ top \in Tops
      /\ Cur.name \in Names
  BY <1>2, AtCopy
<1>4. UNCHANGED <<dirs, cmd, verify, fException, fDiskFull, breaks, flags, top, stack, signals>>
  BY DEF FCCreates, FCStep, rest, fixed
<1>5. Source' = Source /\ Target' = Target BY <1>4, SameFile DEF Cur
<1>6. Plain' <=> Plain BY <1>4 DEF Plain, Binary
<1>7. Source # Target BY <1>1 DEF IInv, CopyOK
<1>8. Target \in Paths
  <2>1. Cur.tgt \in Dirs
    <3>1. Target.dir \in Dirs BY <1>1 DEF Writable, IInv, StateOK
    <3> QED BY <1>2, <1>3, <3>1, TargetName
  <2> QED BY <1>2, <1>3, <2>1, TargetName
<1>9. new \in FileRecords /\ new # NULL /\ new.data = <<>>
  <2>1. new \in FileRecords BY DEF FileRecords
  <2> QED BY <2>1, Constants
<1> HIDE DEF new
<1>10. fs' \in Disk /\ fs'[Target] = new /\ \A q \in Paths : q # Target => fs'[q] = fs[q]
  BY <1>1, <1>3, <1>8, <1>9 DEF Disk
<1>11. fs'[Source] # NULL /\ fs'[Source] = fs[Source] BY <1>3, <1>7, <1>10 DEF Exists
<1>12. fDiskFull' \in BOOLEAN /\ room' \in Nat
  <2>1. Length(Target) \in Nat BY <1>3, LengthType
  <2> QED BY <1>1, <1>4, <2>1 DEF IInv, StateOK
<1>13. /\ fc' \in Copies /\ fc'.at = "read" /\ fc'.out /\ fc'.pos = fc.pos /\ fc'.read = fc.read
  BY <1>1, <1>2 DEF Copies, CopyPlaces
<1>14. CopyOK'
  <2>1. Exists(Target)' BY <1>5, <1>8, <1>9, <1>10 DEF Exists
  <2> QED BY <1>5, <1>7, <1>13, <2>1 DEF CopyOK
<1>15. PartOK'
  <2>1. SUFFICES ASSUME Plain PROVE PartOK'
    BY <1>6 DEF PartOK
  <2>2. fc.pos = 0 /\ fc.read = 0 BY <1>1, <2>1 DEF IInv, PartOK
  <2>3. fs[Source].data \in Seq(Units) BY <1>3, FileType
  <2>4. 0 <= Len(fs[Source].data) /\ <<>> = SubSeq(fs[Source].data, 1, 0) BY <2>3
  <2>5. fs'[Source] = fs[Source] /\ fs'[Target].data = <<>> BY <1>9, <1>10, <1>11
  <2> QED BY <1>5, <1>13, <2>2, <2>4, <2>5 DEF PartOK
<1>16. PlainOK'
  <2>1. SUFFICES ASSUME Plain PROVE PlainOK'
    BY <1>4, NotPlain
  <2>2. ~fc.out BY <1>1, <2>1 DEF IInv, PartOK
  <2>3. \A q \in Paths : fs[q] # NULL => Whole(fs[q]) BY <2>1, <2>2 DEF IInv, PlainOK, Exists
  <2>4. \A q \in Paths : fs'[q] # NULL => Whole(fs'[q]) \/ q = Target BY <1>10, <2>3
  <2>5. fc' # NULL /\ fc'.out /\ fc'.at # "exit" BY <1>13, Constants
  <2>6. "CREATE" \in flags' /\ "APPEND" \notin flags' /\ top'.tname = "*" BY <1>4, <2>1 DEF IInv, PlainOK
  <2> QED BY <1>5, <2>4, <2>5, <2>6 DEF PlainOK, Exists, Whole
<1>17. fc.at \notin {"start", "exit"} BY <1>1
<1> QED BY <1>1, <1>2, <1>4, <1>10, <1>11, <1>12, <1>13, <1>14, <1>15, <1>16, <1>17, CopyInv

\* To append: a command that does is not plain.
LEMMA FCAppendsStep ==
  ASSUME IInv, FCOpens \/ FCSeeks
  PROVE  IInv'
<1>1. fc # NULL /\ fc.at \in {"out", "seek"} BY DEF FCOpens, FCSeeks, InFC
<1>2. stack # <<>> /\ Cur.at = "copy" /\ fc \in Copies BY <1>1, InCopy
<1>3. fs \in Disk /\ Exists(Source) /\ Source \in Paths BY <1>2, AtCopy
<1>4. /\ UNCHANGED <<fs, dirs, room, cmd, verify, fException, fDiskFull, breaks, flags, top, stack, signals>>
      /\ env' = env
  BY DEF FCOpens, FCSeeks, FCStep, rest, fixed
<1>5. Source' = Source /\ Target' = Target BY <1>4, SameFile DEF Cur
<1>6. Plain' <=> Plain BY <1>4 DEF Plain, Binary
<1>7. Source # Target BY <1>1 DEF IInv, CopyOK
<1>8. ~Plain
  <2>1. CASE FCOpens
    <3>1. ~Create BY <2>1 DEF FCOpens
    <3> QED BY <1>2, <3>1, PlainCopy
  <2>2. CASE FCSeeks
    <3>1. fc.at = "seek" BY <2>2 DEF FCSeeks, InFC
    <3> QED BY <1>1, <3>1 DEF IInv, PartOK
  <2> QED BY <2>1, <2>2
<1>9. Exists(Target) BY <1>1 DEF FCOpens, FCSeeks, InFC, IInv, CopyOK
<1>10. fc' \in Copies /\ fc'.at \in {"seek", "read"}
  <2>1. CASE FCOpens
    <3>1. fc' = [fc EXCEPT !.at = "seek", !.out = TRUE] BY <2>1 DEF FCOpens
    <3> QED BY <1>2, <3>1 DEF Copies, CopyPlaces
  <2>2. CASE FCSeeks
    <3> DEFINE end == IF fc.offset # 0 THEN fc.offset
                      ELSE IF Arg.type = "B" THEN Length(Target) ELSE TextEnd(fs[Target].data)
    <3>1. fc' = [fc EXCEPT !.at = "read", !.offset = end, !.pos = end] BY <2>2, Zenon DEF FCSeeks
    <3>2. end \in Nat
      <4>1. fc.offset \in Nat BY <1>2 DEF Copies
      <4>2. Length(Target) \in Nat BY <1>3, LengthType
      <4>3. fs[Target].data \in Seq(Units) BY <1>3, <1>9, FileType
      <4>4. TextEnd(fs[Target].data) \in Nat BY <4>3, TextEndType
      <4> QED BY <4>1, <4>2, <4>4
    <3> HIDE DEF end
    <3> QED BY <1>2, <3>1, <3>2 DEF Copies, CopyPlaces
  <2> QED BY <2>1, <2>2
<1>11. CopyOK' BY <1>4, <1>5, <1>7, <1>9 DEF CopyOK, Exists
<1>12. PartOK' BY <1>6, <1>8 DEF PartOK
<1>13. PlainOK' BY <1>4, <1>8, NotPlain
<1>14. fs'[Source] # NULL /\ fs' \in Disk BY <1>3, <1>4 DEF Exists
<1>15. fDiskFull' \in BOOLEAN /\ room' \in Nat BY <1>4 DEF IInv, StateOK
<1>16. fc.at \notin {"start", "exit"} BY <1>1
<1> QED BY <1>1, <1>2, <1>4, <1>10, <1>11, <1>12, <1>13, <1>14, <1>15, <1>16, CopyInv

\* A part of the source is read.
LEMMA FCReadsStep ==
  ASSUME IInv, FCReads
  PROVE  IInv'
<1> DEFINE data == fs[Source].data
           end == IF fc.read + Buf < Len(data) THEN fc.read + Buf ELSE Len(data)
           got == SubSeq(data, fc.read + 1, end)
           kept == IF Ascii THEN SubSeq(got, 1, TextEnd(got)) ELSE got
           eof == kept = <<>> \/ Len(kept) < Len(got)
<1>1. fc # NULL /\ fc.at = "read" /\ env' = env BY DEF FCReads, InFC
<1>2. stack # <<>> /\ Cur.at = "copy" /\ fc \in Copies BY <1>1, InCopy
<1>3. fs \in Disk /\ Exists(Source) /\ Source \in Paths BY <1>2, AtCopy
<1>4. UNCHANGED <<fs, dirs, room, cmd, verify, fException, fDiskFull, breaks, flags, top, stack, signals>>
  BY DEF FCReads, FCStep, rest, fixed
<1>5. Source' = Source /\ Target' = Target BY <1>4, SameFile DEF Cur
<1>6. Plain' <=> Plain BY <1>4 DEF Plain, Binary
<1>7. Source # Target /\ Exists(Target) BY <1>1 DEF IInv, CopyOK
<1>8. fc' = [fc EXCEPT !.at = "write", !.chunk = kept, !.read = @ + Len(got), !.fEoF = eof, !.offset = @ + Len(kept)]
  BY Zenon DEF FCReads
<1>9. data \in Seq(Units) /\ Len(data) \in Nat
  <2>1. data \in Seq(Units) BY <1>3, FileType
  <2> QED BY <2>1
<1> HIDE DEF data
<1>10. fc.read \in Nat /\ Buf \in Nat /\ Buf > 0 BY <1>2, Constants DEF Copies
<1>11. end \in Nat /\ end <= Len(data) BY <1>9, <1>10
<1>12. /\ end <= fc.read + Buf
       /\ end = fc.read /\ fc.read <= Len(data) => end = Len(data)
       /\ fc.read <= Len(data) => fc.read <= end
  BY <1>9, <1>10
<1> HIDE DEF end
<1>13. got \in Seq(Units) /\ Len(got) = IF fc.read <= end THEN end - fc.read ELSE 0
  BY <1>9, <1>10, <1>11, Slice
<1> HIDE DEF got
<1>14. Len(got) \in Nat BY <1>13
<1>15. kept \in Seq(Units) /\ (~Ascii => kept = got)
  <2>1. TextEnd(got) \in 0 .. Len(got) BY <1>13, TextEndType
  <2>2. SubSeq(got, 1, TextEnd(got)) \in Seq(Units)
    <3>1. TextEnd(got) \in Nat /\ TextEnd(got) <= Len(got) /\ 0 \in Nat BY <2>1, <1>14
    <3>2. SubSeq(got, 0 + 1, TextEnd(got)) \in Seq(Units) BY <1>13, <3>1, Slice
    <3> QED BY <3>2
  <2> QED BY <1>13, <2>2
<1>16. ~Ascii => kept = got BY <1>15
<1> HIDE DEF kept
<1>17. eof \in BOOLEAN /\ (kept = got => (eof <=> got = <<>>))
  <2>1. kept = got => (eof <=> got = <<>>)
    <3>1. ~(Len(got) < Len(got)) BY <1>14
    <3> QED BY <3>1
  <2> QED BY <2>1
<1>18. Len(kept) \in Nat BY <1>15
<1> HIDE DEF eof
<1>19. /\ fc' \in Copies /\ fc'.at = "write" /\ fc'.chunk = kept /\ fc'.read = fc.read + Len(got)
       /\ fc'.fEoF = eof /\ fc'.pos = fc.pos /\ fc'.out = fc.out
  <2>1. fc.read + Len(got) \in Nat /\ fc.offset + Len(kept) \in Nat BY <1>2, <1>14, <1>18 DEF Copies
  <2>2. PICK a \in Nat, b \in Nat : a = fc.read + Len(got) /\ b = fc.offset + Len(kept) BY <2>1
  <2>3. fc' = [fc EXCEPT !.at = "write", !.chunk = kept, !.read = a, !.fEoF = eof, !.offset = b]
    BY <1>8, <2>2
  <2>4. /\ fc' \in Copies /\ fc'.at = "write" /\ fc'.chunk = kept /\ fc'.read = a
        /\ fc'.fEoF = eof /\ fc'.pos = fc.pos /\ fc'.out = fc.out
    BY <1>2, <1>15, <1>17, <2>3 DEF Copies, CopyPlaces
  <2> QED BY <2>2, <2>4
<1>20. CopyOK' BY <1>4, <1>5, <1>7 DEF CopyOK, Exists
<1>21. PartOK'
  <2>1. SUFFICES ASSUME Plain PROVE PartOK'
    BY <1>6 DEF PartOK
  <2>2. /\ fc.out /\ fc.pos <= Len(data) /\ fc.read = fc.pos
        /\ fs[Target].data = SubSeq(data, 1, fc.pos)
    BY <1>1, <2>1 DEF IInv, PartOK, data
  <2>3. kept = got BY <1>2, <1>16, <2>1, PlainCopy
  <2>4. fc.read <= end /\ fc'.read = end /\ fc.pos \in Nat BY <1>10, <1>11, <1>12, <1>13, <1>19, <2>2
  <2>5. fc'.chunk = SubSeq(data, fc'.pos + 1, fc'.read) BY <1>19, <2>2, <2>3, <2>4 DEF got
  <2>6. eof => fc.read = end /\ end = Len(data)
    <3>1. SUFFICES ASSUME eof PROVE fc.read = end /\ end = Len(data)
      OBVIOUS
    <3>2. got = <<>> BY <1>17, <2>3, <3>1
    <3>3. Len(got) = 0 BY <3>2
    <3>4. fc.read = end BY <1>10, <1>11, <1>13, <2>4, <3>3
    <3> QED BY <1>12, <2>2, <3>4
  <2>7. /\ fs'[Source].data = data /\ fs'[Target].data = fs[Target].data BY <1>4 DEF data
  <2> QED BY <1>5, <1>11, <1>19, <2>2, <2>4, <2>5, <2>6, <2>7 DEF PartOK
<1>22. PlainOK'
  <2>1. fc' # NULL BY <1>19, Constants
  <2>2. fc'.out = fc.out /\ fc'.at # "exit" BY <1>19
  <2> QED BY <1>2, <1>4, <2>1, <2>2, CopyPlain DEF SameData
<1>23. fs'[Source] # NULL /\ fs' \in Disk BY <1>3, <1>4 DEF Exists
<1>24. fDiskFull' \in BOOLEAN /\ room' \in Nat BY <1>4 DEF IInv, StateOK
<1>25. fc.at \notin {"start", "exit"} BY <1>1
<1> QED BY <1>1, <1>2, <1>4, <1>19, <1>20, <1>21, <1>22, <1>23, <1>24, <1>25, CopyInv

\* A write that fits.
LEMMA Fits ==
  ASSUME NEW s \in Seq(Units), NEW pos \in Nat, NEW new \in Seq(Units), NEW m \in Nat, Len(s) <= m, pos + Len(new) <= m
  PROVE  Written(s, pos, new) \in Seq(Units) /\ Len(Written(s, pos, new)) <= m
<1> DEFINE w == Written(s, pos, new)
<1>1. w \in Seq(Units) /\ Len(w) = IF new # <<>> /\ pos + Len(new) < Len(s) THEN Len(s) ELSE pos + Len(new)
  BY WrittenType
<1> HIDE DEF w
<1>2. Len(w) <= m BY <1>1
<1> QED BY <1>1, <1>2 DEF w

\* How much of c units fits.
LEMMA Fitting ==
  ASSUME NEW m \in Nat, NEW pos \in Nat, NEW c \in Nat
  PROVE  LET n == IF c <= m - pos THEN c ELSE IF m - pos > 0 THEN m - pos ELSE 0
         IN  n \in Nat /\ n <= c /\ (m - pos >= 0 => pos + n <= m)
OBVIOUS

LEMMA Mark == <<"^Z">> \in Seq(Units) /\ Len(<<"^Z">>) = 1
BY Constants

\* A write that continues what was read.
LEMMA WrittenOn ==
  ASSUME NEW from \in Seq(Units), NEW pos \in Nat, NEW read \in Nat, pos <= read, read <= Len(from),
         NEW n \in Nat, pos + n <= read
  PROVE  Written(SubSeq(from, 1, pos), pos, SubSeq(SubSeq(from, pos + 1, read), 1, n)) = SubSeq(from, 1, pos + n)
<1>1. Len(from) \in Nat OBVIOUS
<1> DEFINE to == SubSeq(from, 1, pos)
           chunk == SubSeq(from, pos + 1, read)
           part == SubSeq(chunk, 1, n)
           w == Written(to, pos, part)
           all == SubSeq(from, 1, pos + n)
<1>2. to \in Seq(Units) /\ Len(to) = pos /\ \A i \in 1 .. pos : to[i] = from[i]
  <2>1. 0 \in Nat /\ pos <= Len(from) BY <1>1
  <2>2. /\ SubSeq(from, 0 + 1, pos) \in Seq(Units)
        /\ Len(SubSeq(from, 0 + 1, pos)) = IF 0 <= pos THEN pos - 0 ELSE 0
        /\ \A i \in 1 .. pos - 0 : SubSeq(from, 0 + 1, pos)[i] = from[0 + i]
    BY <2>1, Slice
  <2> QED BY <2>2
<1>3. all \in Seq(Units) /\ Len(all) = pos + n /\ \A i \in 1 .. pos + n : all[i] = from[i]
  <2>1. 0 \in Nat /\ pos + n <= Len(from) /\ pos + n \in Nat BY <1>1
  <2>2. /\ SubSeq(from, 0 + 1, pos + n) \in Seq(Units)
        /\ Len(SubSeq(from, 0 + 1, pos + n)) = IF 0 <= pos + n THEN pos + n - 0 ELSE 0
        /\ \A i \in 1 .. pos + n - 0 : SubSeq(from, 0 + 1, pos + n)[i] = from[0 + i]
    BY <2>1, Slice
  <2> QED BY <2>2
<1>4. chunk \in Seq(Units) /\ Len(chunk) = read - pos /\ \A i \in 1 .. read - pos : chunk[i] = from[pos + i]
  BY Slice
<1> HIDE DEF chunk, to, all
<1>5. part \in Seq(Units) /\ Len(part) = n /\ \A i \in 1 .. n : part[i] = chunk[i]
  <2>1. 0 \in Nat /\ n <= Len(chunk) BY <1>4
  <2>2. /\ SubSeq(chunk, 0 + 1, n) \in Seq(Units)
        /\ Len(SubSeq(chunk, 0 + 1, n)) = IF 0 <= n THEN n - 0 ELSE 0
        /\ \A i \in 1 .. n - 0 : SubSeq(chunk, 0 + 1, n)[i] = chunk[0 + i]
    BY <1>4, <2>1, Slice
  <2> QED BY <2>2
<1> HIDE DEF part
<1>6. /\ w \in Seq(Units)
      /\ Len(w) = IF part # <<>> /\ pos + Len(part) < Len(to) THEN Len(to) ELSE pos + Len(part)
      /\ \A i \in 1 .. Len(w) : w[i] = IF i \in pos + 1 .. pos + Len(part) THEN part[i - pos]
                                        ELSE IF i \in DOMAIN to THEN to[i] ELSE "junk"
  BY <1>2, <1>5, WrittenType
<1> HIDE DEF w
<1>7. Len(w) = pos + n BY <1>2, <1>5, <1>6
<1>8. \A i \in 1 .. pos + n : w[i] = all[i]
  <2> TAKE i \in 1 .. pos + n
  <2>1. CASE i \in pos + 1 .. pos + n
    <3>1. w[i] = part[i - pos] BY <1>5, <1>6, <1>7, <2>1
    <3>2. i - pos \in 1 .. n /\ i - pos \in 1 .. read - pos /\ pos + (i - pos) = i BY <2>1
    <3>3. part[i - pos] = chunk[i - pos] BY <1>5, <3>2
    <3>4. chunk[i - pos] = from[pos + (i - pos)] BY <1>4, <3>2
    <3> QED BY <1>3, <3>1, <3>2, <3>3, <3>4
  <2>2. CASE i \in 1 .. pos
    <3>1. w[i] = to[i]
      <4>1. i \notin pos + 1 .. pos + Len(part) BY <1>5, <2>2
      <4>2. i \in DOMAIN to BY <1>2, <2>2
      <4> QED BY <1>6, <1>7, <4>1, <4>2
    <3> QED BY <1>2, <1>3, <2>2, <3>1
  <2> QED BY <2>1, <2>2
<1>9. w = all BY <1>3, <1>6, <1>7, <1>8, SeqEqual
<1> QED BY <1>9 DEF w, all, part, chunk, to

LEMMA FCWritesStep ==
  ASSUME IInv, FCWrites
  PROVE  IInv'
<1> DEFINE data == fs[Target].data
           old == Length(Target)
           fits == old + room - fc.pos
           n == IF Len(fc.chunk) <= fits THEN Len(fc.chunk) ELSE IF fits > 0 THEN fits ELSE 0
           ends == AsciiTarget /\ (fc.fEoF \/ Len(fc.chunk) < Buf)
           part == SubSeq(fc.chunk, 1, n)
           some == IF fits < 0 THEN data ELSE Written(data, fc.pos, part)
           new == IF ends /\ EndFits(fc.pos + n) THEN Written(some, fc.pos + n, <<"^Z">>) ELSE some
<1>1. fc # NULL /\ fc.at = "write" /\ env' = env BY DEF FCWrites, InFC
<1>2. stack # <<>> /\ Cur.at = "copy" /\ fc \in Copies BY <1>1, InCopy
<1>3. fs \in Disk /\ Exists(Source) /\ Source \in Paths BY <1>2, AtCopy
<1>4. UNCHANGED <<dirs, cmd, verify, fException, breaks, flags, top, stack, signals>>
  BY DEF FCWrites
<1>5. Source' = Source /\ Target' = Target BY <1>4, SameFile DEF Cur
<1>6. Plain' <=> Plain BY <1>4 DEF Plain, Binary
<1>7. Source # Target /\ Exists(Target) BY <1>1 DEF IInv, CopyOK
<1>8. fs' = WithData(fs, Target, new) /\ room' = room + old - Len(new)
  BY Zenon DEF FCWrites, WithData
<1>9. PICK p \in {"time", "read"} :
        \/ ShortWrite(n) /\ Bye("CTRLC")
        \/ ~ShortWrite(n) /\ (p = "time" <=> fc.fEoF \/ ends) /\ fc' = [fc EXCEPT !.at = p, !.pos = @ + n]
  <2> DEFINE x == IF fc.fEoF \/ ends THEN "time" ELSE "read"
  <2>1. x \in {"time", "read"} /\ (x = "time" <=> fc.fEoF \/ ends)
    <3> HIDE DEF ends
    <3> QED OBVIOUS
  <2>2. IF ShortWrite(n) THEN Bye("CTRLC") ELSE fc' = [fc EXCEPT !.at = x, !.pos = @ + n]
    BY Zenon DEF FCWrites
  <2> HIDE DEF x, n, ends
  <2> QED BY <2>1, <2>2, Zenon
<1>10. data \in Seq(Units) /\ old = Len(data) /\ old \in Nat /\ Target \in Paths /\ fs[Target] # NULL
  BY <1>3, <1>7, FileType DEF Exists
<1>11. room \in Nat BY DEF IInv, StateOK
<1>12. fc.pos \in Nat /\ fc.chunk \in Seq(Units) /\ Len(fc.chunk) \in Nat BY <1>2 DEF Copies
<1>13. fDiskFull' = (fDiskFull \/ ShortWrite(n)) BY Zenon DEF FCWrites
<1>14. EndFits(fc.pos + n) <=> fc.pos + n < old + room BY DEF EndFits
<1> HIDE DEF data, old
<1>15. n \in Nat /\ n <= Len(fc.chunk) /\ (fits >= 0 => fc.pos + n <= old + room)
  <2>1. PICK m \in Nat, c \in Nat : m = old + room /\ c = Len(fc.chunk) BY <1>10, <1>11, <1>12
  <2>2. fits = m - fc.pos BY <1>10, <1>11, <1>12, <2>1
  <2> DEFINE k == IF c <= m - fc.pos THEN c ELSE IF m - fc.pos > 0 THEN m - fc.pos ELSE 0
  <2>3. n = k BY <2>1, <2>2
  <2>4. k \in Nat /\ k <= c /\ (m - fc.pos >= 0 => fc.pos + k <= m) BY <1>12, Fitting
  <2> HIDE DEF k, n, fits
  <2> QED BY <2>1, <2>2, <2>3, <2>4
<1>16. fits >= 0 => fits \in Nat BY <1>10, <1>11, <1>12
<1>17. fits < 0 \/ fits >= 0 BY <1>10, <1>11, <1>12
<1>18. ~ShortWrite(n) <=> n = Len(fc.chunk) BY Zenon DEF ShortWrite
<1>19. Len(fc.chunk) <= fits => n = Len(fc.chunk) OBVIOUS
<1>20. fc.pos <= old => fits >= 0 BY <1>10, <1>11, <1>12
<1> HIDE DEF fits, n
<1>21. PICK m \in Nat : m = old + room BY <1>10, <1>11
<1>22. part \in Seq(Units) /\ Len(part) = n
  <2>1. SubSeq(fc.chunk, 0 + 1, n) \in Seq(Units) /\ Len(SubSeq(fc.chunk, 0 + 1, n)) = n
    BY <1>12, <1>15, Slice
  <2> QED BY <2>1
<1> HIDE DEF part
<1>23. some \in Seq(Units) /\ Len(some) <= m
  <2>1. CASE fits < 0
    <3>1. some = data BY <2>1
    <3>2. Len(data) <= m BY <1>10, <1>11, <1>21
    <3> HIDE DEF some
    <3> QED BY <1>10, <3>1, <3>2
  <2>2. CASE fits >= 0
    <3>1. some = Written(data, fc.pos, part)
      <4>1. ~(fits < 0)
        <5>1. fits \in Nat BY <1>16, <2>2
        <5> QED BY <5>1
      <4> QED BY <4>1, Zenon
    <3>2. Len(data) <= m /\ fc.pos + Len(part) <= m BY <1>10, <1>11, <1>15, <1>21, <1>22, <2>2
    <3>3. Written(data, fc.pos, part) \in Seq(Units) /\ Len(Written(data, fc.pos, part)) <= m
      <4> HIDE DEF some
      <4> QED BY <1>10, <1>12, <1>22, <3>2, Fits
    <3> HIDE DEF some
    <3> QED BY <3>1, <3>3, Zenon
  <2> QED BY <1>17, <2>1, <2>2
<1>24. new = some \/ (ends /\ fc.pos + n < old + room /\ new = Written(some, fc.pos + n, <<"^Z">>))
  <2> HIDE DEF some
  <2> QED BY <1>14, Zenon
<1>25. ~ends => new = some
  <2> HIDE DEF some, ends
  <2> QED BY Zenon
<1> HIDE DEF some, new, ends
<1>26. new \in Seq(Units) /\ Len(new) <= m
  <2>1. CASE new = some BY <1>23, <2>1
  <2>2. CASE fc.pos + n < old + room /\ new = Written(some, fc.pos + n, <<"^Z">>)
    <3>1. PICK e \in Nat : e = fc.pos + n BY <1>12, <1>15
    <3>2. PICK z \in Seq(Units) : z = <<"^Z">> /\ Len(z) = 1 BY Mark
    <3>3. e + Len(z) <= m BY <1>21, <2>2, <3>1, <3>2
    <3>4. Written(some, e, z) \in Seq(Units) /\ Len(Written(some, e, z)) <= m BY <1>23, <3>3, Fits
    <3>5. new = Written(some, e, z) BY <2>2, <3>1, <3>2
    <3> QED BY <3>4, <3>5, Zenon
  <2> QED BY <1>24, <2>1, <2>2
<1>27. room' \in Nat
  <2>1. Len(new) \in Nat BY <1>26
  <2>2. m - Len(new) \in Nat BY <1>26, <2>1
  <2> QED BY <1>8, <1>10, <1>11, <1>21, <2>1, <2>2
<1>28. /\ fs' \in Disk /\ fs'[Target].data = new
       /\ \A q \in Paths : fs'[q] = NULL <=> fs[q] = NULL
       /\ \A q \in Paths : q # Target => fs'[q] = fs[q]
  <2>1. /\ WithData(fs, Target, new) \in Disk
        /\ \A q \in Paths : WithData(fs, Target, new)[q] = NULL <=> fs[q] = NULL
        /\ \A q \in Paths : q # Target => WithData(fs, Target, new)[q] = fs[q]
        /\ WithData(fs, Target, new)[Target].data = new
    BY <1>3, <1>10, <1>26, DataChanged, Zenon
  <2> QED BY <1>8, <2>1, Zenon
<1>29. fs'[Source] # NULL /\ fs'[Source] = fs[Source] BY <1>3, <1>7, <1>28 DEF Exists
<1>30. fc' \in Copies /\ fc'.out = fc.out /\ fc'.at \in {"bye", "time", "read"}
  <2>1. CASE Bye("CTRLC")
    <3>1. fc' = [fc EXCEPT !.at = "bye", !.nReturn = "CTRLC"] BY <2>1 DEF Bye
    <3> QED BY <1>2, <3>1 DEF Copies, CopyPlaces, Returns
  <2>2. CASE fc' = [fc EXCEPT !.at = p, !.pos = @ + n]
    <3>1. PICK e \in Nat : e = fc.pos + n BY <1>12, <1>15
    <3>2. fc' = [fc EXCEPT !.at = p, !.pos = e] BY <2>2, <3>1
    <3> QED BY <1>2, <3>2 DEF Copies, CopyPlaces
  <2> QED BY <1>9, <2>1, <2>2
<1>31. fDiskFull' \in BOOLEAN BY <1>13 DEF IInv, StateOK, ShortWrite
<1>32. CopyOK'
  <2>1. Exists(Target)' BY <1>5, <1>10, <1>28 DEF Exists
  <2> QED BY <1>5, <1>7, <2>1 DEF CopyOK
<1>33. PartOK'
  <2>1. SUFFICES ASSUME Plain PROVE PartOK'
    BY <1>6 DEF PartOK
  <2>2. CASE Bye("CTRLC")
    <3>1. fc' = [fc EXCEPT !.at = "bye", !.nReturn = "CTRLC"] BY <2>2 DEF Bye
    <3>2. fc'.at = "bye" /\ fc'.nReturn = "CTRLC" BY <1>2, <3>1 DEF Copies
    <3> QED BY <3>2 DEF PartOK
  <2>3. CASE ~ShortWrite(n) /\ (p = "time" <=> fc.fEoF \/ ends) /\ fc' = [fc EXCEPT !.at = p, !.pos = @ + n]
    <3> DEFINE from == fs[Source].data
    <3>1. from \in Seq(Units) BY <1>3, FileType
    <3>2. /\ fc.out /\ fc.pos <= Len(from) /\ data = SubSeq(from, 1, fc.pos)
          /\ fc.pos <= fc.read /\ fc.read <= Len(from) /\ fc.chunk = SubSeq(from, fc.pos + 1, fc.read)
          /\ fc.fEoF => fc.pos = Len(from) /\ fc.read = fc.pos
      BY <1>1, <2>1 DEF IInv, PartOK, data
    <3> HIDE DEF from
    <3>3. ~AsciiTarget BY <1>2, <2>1, PlainCopy
    <3>4. ~ends BY <3>3 DEF ends
    <3>5. fc.read \in Nat BY <1>2 DEF Copies
    <3>6. Len(fc.chunk) = fc.read - fc.pos
      <4>1. Len(SubSeq(from, fc.pos + 1, fc.read)) = IF fc.pos <= fc.read THEN fc.read - fc.pos ELSE 0
        BY <1>12, <3>1, <3>2, <3>5, Slice
      <4> QED BY <3>2, <4>1
    <3>7. Len(data) = fc.pos
      <4>1. 0 \in Nat /\ fc.pos <= Len(from) BY <3>2
      <4>2. Len(SubSeq(from, 0 + 1, fc.pos)) = IF 0 <= fc.pos THEN fc.pos - 0 ELSE 0
        BY <1>12, <3>1, <4>1, Slice
      <4> QED BY <1>12, <3>2, <4>2
    <3>8. n = fc.read - fc.pos BY <1>18, <2>3, <3>6
    <3>9. fits >= 0 BY <1>10, <1>12, <1>20, <3>7
    <3>10. new = Written(data, fc.pos, part)
      <4>1. ~(fits < 0)
        <5>1. fits \in Nat BY <1>16, <3>9
        <5> QED BY <5>1
      <4>2. some = Written(data, fc.pos, part) BY <4>1, Zenon DEF some
      <4> QED BY <1>25, <3>4, <4>2
    <3>11. fc.pos + n = fc.read /\ fc.pos + n <= fc.read BY <1>12, <3>5, <3>8
    <3>12. Written(SubSeq(from, 1, fc.pos), fc.pos, SubSeq(SubSeq(from, fc.pos + 1, fc.read), 1, n)) = SubSeq(from, 1, fc.pos + n)
      <4>1. fc.pos \in Nat /\ fc.read \in Nat /\ n \in Nat BY <1>12, <1>15, <3>5
      <4>2. fc.pos <= fc.read /\ fc.read <= Len(from) /\ fc.pos + n <= fc.read BY <3>2, <3>11
      <4>3. PICK f \in Seq(Units), a \in Nat, r \in Nat, k \in Nat : f = from /\ a = fc.pos /\ r = fc.read /\ k = n
        BY <3>1, <4>1
      <4>4. a <= r /\ r <= Len(f) /\ a + k <= r BY <4>2, <4>3
      <4>5. Written(SubSeq(f, 1, a), a, SubSeq(SubSeq(f, a + 1, r), 1, k)) = SubSeq(f, 1, a + k)
        BY <4>4, WrittenOn
      <4> QED BY <4>3, <4>5
    <3>13. new = SubSeq(from, 1, fc.read) BY <3>2, <3>10, <3>11, <3>12, Zenon DEF part
    <3>14. /\ fc'.at = p /\ fc'.pos = fc.read /\ fc'.read = fc.read /\ fc'.out = fc.out
      <4>1. fc' = [fc EXCEPT !.at = p, !.pos = fc.read] BY <2>3, <3>11, Zenon
      <4> QED BY <1>2, <4>1 DEF Copies
    <3>15. fs'[Source].data = from /\ fs'[Target].data = new BY <1>28, <1>29 DEF from
    <3>16. p = "time" => new = from
      <4>1. SUFFICES ASSUME p = "time" PROVE new = from
        OBVIOUS
      <4>2. fc.fEoF BY <2>3, <3>4, <4>1
      <4>3. fc.read = Len(from) BY <3>2, <4>2
      <4>4. SubSeq(from, 1, Len(from)) = from BY <3>1
      <4> QED BY <3>13, <4>3, <4>4
    <3> QED BY <1>5, <3>2, <3>13, <3>14, <3>15, <3>16 DEF PartOK
  <2> QED BY <1>9, <2>2, <2>3
<1>34. PlainOK'
  <2>1. SUFFICES ASSUME Plain PROVE PlainOK'
    BY <1>4, NotPlain
  <2>2. fc.out BY <1>1, <2>1 DEF IInv, PartOK
  <2>3. \A q \in Paths : fs[q] # NULL => Whole(fs[q]) \/ q = Target BY <2>1 DEF IInv, PlainOK, Exists
  <2>4. \A q \in Paths : fs'[q] # NULL => Whole(fs'[q]) \/ q = Target BY <1>28, <2>3
  <2>5. fc' # NULL /\ fc'.out /\ fc'.at # "exit" BY <1>30, <2>2, Constants
  <2>6. "CREATE" \in flags' /\ "APPEND" \notin flags' /\ top'.tname = "*" BY <1>4, <2>1 DEF IInv, PlainOK
  <2> QED BY <1>5, <2>4, <2>5, <2>6 DEF PlainOK, Exists, Whole
<1>35. fc.at \notin {"start", "exit"} BY <1>1
<1> QED BY <1>1, <1>2, <1>4, <1>27, <1>28, <1>29, <1>30, <1>31, <1>32, <1>33, <1>34, <1>35, CopyInv

\* The target gets the time of its source.
WithTime(f, p, t) == [f EXCEPT ![p].time = t]

LEMMA TimeDisk ==
  ASSUME IInv, FCTime
  PROVE  fs' \in Disk /\ SameData(fs, fs')
<1>1. fc # NULL /\ fc.at = "time" BY DEF FCTime, InFC
<1>2. stack # <<>> /\ Cur.at = "copy" BY <1>1, InCopy
<1>3. fs \in Disk /\ Exists(Source) BY <1>2, AtCopy
<1>4. Target \in Paths /\ fs[Target] # NULL BY <1>1 DEF IInv, CopyOK, Exists
<1>5. fs' = fs \/ fs' = WithTime(fs, Target, fs[Source].time) BY Zenon DEF FCTime, WithTime
<1>6. PICK t \in Nat : t = fs[Source].time BY <1>3, FileType
<1>7. WithTime(fs, Target, t) \in Disk /\ SameData(fs, WithTime(fs, Target, t))
  BY <1>3, <1>4, TimeChanged DEF WithTime
<1>8. SameData(fs, fs) BY DEF SameData
<1> QED BY <1>3, <1>5, <1>6, <1>7, <1>8, Zenon

LEMMA FCTimeStep ==
  ASSUME IInv, FCTime
  PROVE  IInv'
<1>1. /\ fc # NULL /\ fc.at = "time" /\ env' = env /\ room' = room
      /\ fc' = [fc EXCEPT !.at = "bye", !.nReturn = "0"]
  BY DEF FCTime, InFC, Bye
<1>2. stack # <<>> /\ Cur.at = "copy" /\ fc \in Copies BY <1>1, InCopy
<1>3. fs \in Disk /\ Exists(Source) /\ Source \in Paths BY <1>2, AtCopy
<1>4. UNCHANGED <<dirs, cmd, verify, fException, fDiskFull, breaks, flags, top, stack, signals>>
  BY DEF FCTime, FCStep, rest, fixed
<1>5. Source' = Source /\ Target' = Target BY <1>4, SameFile DEF Cur
<1>6. Plain' <=> Plain BY <1>4 DEF Plain, Binary
<1>7. Source # Target /\ Exists(Target) BY <1>1 DEF IInv, CopyOK
<1>8. Target \in Paths /\ fs[Target] # NULL BY <1>7 DEF Exists
<1>9. fs' \in Disk /\ SameData(fs, fs') BY TimeDisk
<1>10. fs'[Source] # NULL /\ fs'[Target] # NULL BY <1>3, <1>8, <1>9 DEF Exists, SameData
<1>11. fc' \in Copies /\ fc'.at = "bye" /\ fc'.nReturn = "0" /\ fc'.out = fc.out
  BY <1>1, <1>2 DEF Copies, CopyPlaces, Returns
<1>12. CopyOK' BY <1>5, <1>7, <1>11 DEF CopyOK
<1>13. PartOK'
  <2>1. SUFFICES ASSUME Plain PROVE PartOK'
    BY <1>6 DEF PartOK
  <2>2. fc.out /\ fs[Target].data = fs[Source].data BY <1>1, <2>1 DEF IInv, PartOK
  <2>3. Whole(fs[Source])
    BY <1>3, <1>7, <2>1 DEF IInv, PlainOK
  <2>4. Whole(fs'[Target])
    <3>1. fs'[Target].data = fs[Source].data BY <1>8, <1>9, <2>2 DEF SameData
    <3> QED BY <2>3, <3>1 DEF Whole
  <2>5. Exists(Target)' BY <1>5, <1>8, <1>10 DEF Exists
  <2>6. Whole(fs[Target])' BY <1>5, <2>4 DEF Whole
  <2> QED BY <1>11, <2>2, <2>5, <2>6 DEF PartOK
<1>14. fc' # NULL BY <1>11, Constants
<1>15. PlainOK' BY <1>2, <1>4, <1>9, <1>11, <1>14, CopyPlain
<1>16. fDiskFull' \in BOOLEAN /\ room' \in Nat BY <1>1, <1>4 DEF IInv, StateOK
<1>17. fc.at \notin {"start", "exit"} BY <1>1
<1> QED BY <1>1, <1>2, <1>4, <1>9, <1>10, <1>11, <1>12, <1>13, <1>15, <1>16, <1>17, CopyInv

\* A target that is not complete is deleted.
LEMMA FCRemovesStep ==
  ASSUME IInv, FCRemoves
  PROVE  IInv'
<1>1. /\ fc # NULL /\ fc.at = "attr" /\ env' = env /\ room' = room + Length(Target)
      /\ fs' = [fs EXCEPT ![Target] = NULL] /\ fc' = [fc EXCEPT !.at = "exit"]
  BY DEF FCRemoves, InFC
<1>2. stack # <<>> /\ Cur.at = "copy" /\ fc \in Copies BY <1>1, InCopy
<1>3. fs \in Disk /\ Exists(Source) /\ Source \in Paths BY <1>2, AtCopy
<1>4. UNCHANGED <<dirs, cmd, verify, fException, fDiskFull, breaks, flags, top, stack, signals>>
  BY DEF FCRemoves, FCStep, rest, fixed
<1>5. Source' = Source /\ Target' = Target BY <1>4, SameFile DEF Cur
<1>6. Plain' <=> Plain BY <1>4 DEF Plain, Binary
<1>7. Source # Target BY <1>1 DEF IInv, CopyOK
<1>8. fs' \in Disk /\ \A q \in Paths : fs'[q] = IF q = Target THEN NULL ELSE fs[q]
  BY <1>1, <1>3 DEF Disk
<1>9. fs'[Source] # NULL BY <1>3, <1>7, <1>8 DEF Exists
<1>10. fc' \in Copies /\ fc'.at = "exit" BY <1>1, <1>2 DEF Copies, CopyPlaces
<1>11. CopyOK' /\ PartOK' BY <1>10 DEF CopyOK, PartOK
<1>12. PlainOK'
  <2>1. SUFFICES ASSUME Plain PROVE PlainOK'
    BY <1>4, NotPlain
  <2>2. \A q \in Paths : fs[q] # NULL => Whole(fs[q]) \/ q = Target BY <2>1 DEF IInv, PlainOK, Exists
  <2>3. \A q \in Paths : fs'[q] # NULL => Whole(fs'[q]) BY <1>8, <2>2
  <2>4. "CREATE" \in flags' /\ "APPEND" \notin flags' /\ top'.tname = "*" BY <1>4, <2>1 DEF IInv, PlainOK
  <2> QED BY <2>3, <2>4 DEF PlainOK, Exists, Whole
<1>13. fDiskFull' \in BOOLEAN /\ room' \in Nat
  <2>1. Length(Target) \in Nat BY <1>3, LengthType
  <2> QED BY <1>1, <1>4, <2>1 DEF IInv, StateOK
<1> QED BY <1>1, <1>2, <1>4, <1>8, <1>9, <1>10, <1>11, <1>12, <1>13, CopyInv

\* The others get their attributes.
LEMMA ModeDisk ==
  ASSUME IInv, FCSetsMode
  PROVE  fs' \in Disk /\ SameData(fs, fs')
<1> DEFINE a == {"A"} \cup IF Create THEN fs[Source].attr \ (IF Moving \/ Opt("K") THEN {} ELSE {"R"})
                             ELSE {}
<1>1. fc # NULL BY DEF FCSetsMode, InFC
<1>2. stack # <<>> /\ Cur.at = "copy" BY <1>1, InCopy
<1>3. fs \in Disk /\ Exists(Source) BY <1>2, AtCopy
<1>4. AttrSet(Target, a) BY Zenon DEF FCSetsMode
<1>5. a \in SUBSET Attributes
  <2>1. fs[Source].attr \subseteq Attributes BY <1>3, FileType
  <2> QED BY <2>1 DEF Attributes
<1> HIDE DEF a
<1> QED BY <1>3, <1>4, <1>5, AttrStep

LEMMA FCSetsModeStep ==
  ASSUME IInv, FCSetsMode
  PROVE  IInv'
<1>1. /\ fc # NULL /\ fc.at = "attr" /\ env' = env /\ room' = room
      /\ ~(fc.nReturn # "0" /\ Create) /\ fc' = [fc EXCEPT !.at = "exit"]
  BY DEF FCSetsMode, InFC
<1>2. stack # <<>> /\ Cur.at = "copy" /\ fc \in Copies BY <1>1, InCopy
<1>3. fs \in Disk /\ Exists(Source) /\ Source \in Paths BY <1>2, AtCopy
<1>4. UNCHANGED <<dirs, cmd, verify, fException, fDiskFull, breaks, flags, top, stack, signals>>
  BY DEF FCSetsMode, FCStep, rest, fixed
<1>7. fs' \in Disk /\ SameData(fs, fs') BY ModeDisk
<1>8. fs'[Source] # NULL BY <1>3, <1>7 DEF Exists, SameData
<1>9. fc' \in Copies /\ fc'.at = "exit" BY <1>1, <1>2 DEF Copies, CopyPlaces
<1>10. CopyOK' /\ PartOK' BY <1>9 DEF CopyOK, PartOK
<1>11. PlainOK'
  <2>1. SUFFICES ASSUME Plain PROVE PlainOK'
    BY <1>4, NotPlain
  <2>2. fc.nReturn = "0" BY <1>1, <1>2, <2>1, PlainCopy
  <2>3. Whole(fs[Target]) BY <1>1, <2>1, <2>2 DEF IInv, PartOK
  <2>4. \A q \in Paths : fs[q] # NULL => Whole(fs[q]) BY <2>1, <2>3 DEF IInv, PlainOK, Exists
  <2>5. \A q \in Paths : fs'[q] # NULL => Whole(fs'[q]) BY <1>7, <2>4 DEF SameData, Whole
  <2>6. "CREATE" \in flags' /\ "APPEND" \notin flags' /\ top'.tname = "*" BY <1>4, <2>1 DEF IInv, PlainOK
  <2> QED BY <2>5, <2>6 DEF PlainOK, Exists, Whole
<1>12. fDiskFull' \in BOOLEAN /\ room' \in Nat BY <1>1, <1>4 DEF IInv, StateOK
<1> QED BY <1>1, <1>2, <1>4, <1>7, <1>8, <1>9, <1>10, <1>11, <1>12, CopyInv

\* FileCopy() returns to the worker.
LEMMA FCExitStep ==
  ASSUME IInv, FCExit
  PROVE  IInv'
<1> DEFINE f == [Cur EXCEPT !.at = "copied", !.nReturn = fc.nReturn]
<1>1. fc # NULL /\ fc.at = "exit" /\ fc' = NULL /\ signals' = FALSE /\ Put(f) BY DEF FCExit, InFC
<1>2. stack # <<>> /\ Cur.at = "copy" /\ fc \in Copies BY <1>1, InCopy
<1>3. /\ fs \in Disk /\ Exists(Source) /\ Source \in Paths /\ Cur \in Workers /\ WorkerOK(Cur)
      /\ top \in Tops /\ top.at = "work"
  BY <1>2, AtCopy
<1>4. UNCHANGED <<fs, dirs, room, cmd, verify, fException, fDiskFull, breaks, flags, env>>
  BY DEF FCExit, disk, rest, fixed
<1>5. fc.nReturn \in Returns /\ fc.offset \in Nat BY <1>2 DEF Copies
<1>6. /\ f \in Workers /\ f.at = "copied" /\ f.src = Cur.src /\ f.tgt = Cur.tgt /\ f.name = Cur.name
      /\ f.seen = Cur.seen /\ f.hdir = Cur.hdir
  BY <1>3, <1>5 DEF Workers, WorkerPlaces
<1> HIDE DEF f
<1>7. WorkerOK(f) BY <1>2, <1>3, <1>6 DEF WorkerOK, FilePlaces
<1>8. /\ top' \in Tops /\ top'.at = top.at /\ top'.arg = top.arg /\ top'.lost = top.lost
      /\ top'.tname = top.tname
  <2>1. top' = top \/ top' = [top EXCEPT !.offset = fc.offset] BY Zenon DEF FCExit
  <2> QED BY <1>3, <1>5, <2>1 DEF Tops
<1>9. /\ ShapeOK' /\ stack' \in Seq(Workers) /\ stack' # <<>> /\ Cur' = f
  BY <1>1, <1>2, <1>4, <1>6, <1>7, <1>8, PutShape DEF IInv
<1>10. StateOK' BY <1>1, <1>4, <1>8, <1>9 DEF IInv, StateOK
<1>11. Source' = Source BY <1>4, <1>6, <1>8, <1>9, SameFile
<1>12. FileOK'
  <2>1. Exists(Source)' BY <1>3, <1>4, <1>11 DEF Exists
  <2> QED BY <1>6, <1>9, <2>1 DEF FileOK, MovePlaces
<1>13. CopyOK' /\ PartOK' BY <1>1 DEF CopyOK, PartOK
<1>14. EnvOK' BY <1>1, <1>6, <1>9 DEF EnvOK
<1>15. SearchOK'
  <2>1. Moving' <=> Moving BY <1>4 DEF Moving
  <2> QED BY <1>6, <1>8, <1>9, <2>1 DEF IInv, SearchOK
<1>16. PlainOK'
  <2>1. SUFFICES ASSUME Plain PROVE PlainOK'
    BY <1>4, NotPlain
  <2>2. \A q \in Paths : fs[q] # NULL => Whole(fs[q]) BY <1>1, <2>1 DEF IInv, PlainOK, Exists
  <2>3. "CREATE" \in flags' /\ "APPEND" \notin flags' /\ top'.tname = "*"
    BY <1>4, <1>8, <2>1 DEF IInv, PlainOK
  <2> QED BY <1>4, <2>2, <2>3 DEF PlainOK, Exists, Whole
<1> QED BY <1>9, <1>10, <1>12, <1>13, <1>14, <1>15, <1>16 DEF IInv

LEMMA FileCopyStep ==
  ASSUME IInv, FileCopy
  PROVE  IInv'
BY CallStep, FCEarlyStep, FCCreatesStep, FCAppendsStep, FCReadsStep, FCWritesStep, FCTimeStep,
   FCRemovesStep, FCSetsModeStep, FCExitStep DEF FileCopy

-----------------------------------------------------------------------------
(***************************************************************************)
(* ^C.                                                                     *)
(***************************************************************************)
\* The searches that are left open behind the first workers: with MOVE none.
LEMMA LostType ==
  ASSUME top \in Tops, stack \in Seq(Workers), NEW i \in Nat
  PROVE  /\ Lost(i) \in Nat
         /\ (\A j \in i .. Len(stack) : ~stack[j].hdir) => Lost(i) = top.lost
<1> DEFINE open == {j \in i .. Len(stack) : stack[j].hdir}
<1>1. Len(stack) \in Nat /\ top.lost \in Nat BY DEF Tops
<1>2. i \in Int /\ Len(stack) \in Int BY <1>1
<1>3. IsFiniteSet(i .. Len(stack)) BY <1>2, FS_Interval
<1>4. open \in SUBSET (i .. Len(stack)) OBVIOUS
<1>5. Lost(i) = top.lost + Cardinality(open) BY DEF Lost
<1>6. (\A j \in i .. Len(stack) : ~stack[j].hdir) => open = {} OBVIOUS
<1> HIDE DEF open
<1>7. IsFiniteSet(open) BY <1>3, <1>4, FS_Subset
<1>8. PICK c \in Nat : c = Cardinality(open) BY <1>7, FS_CardinalityType
<1>9. Lost(i) \in Nat BY <1>1, <1>5, <1>8
<1>10. (\A j \in i .. Len(stack) : ~stack[j].hdir) => Lost(i) = top.lost
  <2>1. SUFFICES ASSUME open = {} PROVE Lost(i) = top.lost
    BY <1>6
  <2>2. c = 0 BY <1>8, <2>1, FS_EmptySet
  <2> QED BY <1>1, <1>5, <1>8, <2>2
<1> QED BY <1>9, <1>10

\* A step that is interrupted in DOS.
LEMMA Interrupted ==
  ASSUME IInv, Interrupt
  PROVE  /\ UNCHANGED <<dirs, room, cmd, verify, fDiskFull, flags, env>>
         /\ signals' = FALSE /\ fException' = TRUE /\ breaks' \in 0 .. Breaks
         /\ env.of # "FileCopy" => fc = NULL
         /\ env.of = "FileCopy" => fc # NULL /\ fc.at \notin {"start", "exit"} /\ env = FileCopyEnv
         /\ fc = NULL /\ stack # <<>> => Cur.at \notin {"copied", "subbed"}
         /\ stack \in Seq(Workers) /\ top \in Tops /\ fs \in Disk
<1>1. /\ UNCHANGED <<dirs, room, cmd, verify, fDiskFull, flags, env>> /\ InDos /\ Alive(env)
      /\ signals' = FALSE /\ fException' = TRUE /\ breaks > 0 /\ breaks' = breaks - 1
  BY Zenon DEF Interrupt, NoAttr
<1>2. breaks \in 0 .. Breaks /\ Breaks \in Nat BY Constants DEF IInv, StateOK
<1>3. breaks' \in 0 .. Breaks BY <1>1, <1>2
<1>4. fc # NULL => fc.at \notin {"start", "exit"} BY <1>1 DEF InDos
<1>5. fc # NULL => env = FileCopyEnv BY <1>4 DEF IInv, EnvOK
<1>6. env.of = "FileCopy" => fc # NULL /\ env = FileCopyEnv
  <2>1. SUFFICES ASSUME env.of = "FileCopy" PROVE fc # NULL
    BY <1>5
  <2> QED BY <1>1, <2>1 DEF Alive
<1>7. fc # NULL => env.of = "FileCopy" BY <1>5 DEF FileCopyEnv
<1>8. fc = NULL /\ stack # <<>> => Cur.at \notin {"copied", "subbed"} BY <1>1 DEF InDos
<1> QED BY <1>1, <1>3, <1>4, <1>6, <1>7, <1>8 DEF IInv, StateOK, Disk

\* The command itself goes on: at the end, or not at all.
LEMMA TopInterrupted ==
  ASSUME IInv, Interrupt, env.of \in {"command", "top"}
  PROVE  IInv'
<1>1. /\ UNCHANGED <<dirs, room, cmd, verify, fDiskFull, flags, env>>
      /\ signals' = FALSE /\ fException' = TRUE /\ breaks' \in 0 .. Breaks /\ fc = NULL
      /\ fc = NULL /\ stack # <<>> => Cur.at \notin {"copied", "subbed"}
      /\ stack \in Seq(Workers) /\ top \in Tops /\ fs \in Disk
  BY Interrupted
<1>2. PICK p \in {"done", "finish"}, r \in Returns :
        /\ (p = "finish" => env.of = "top") /\ stack' = <<>> /\ fc' = NULL /\ fs' = fs
        /\ top' = [top EXCEPT !.at = p, !.nReturn = r, !.lost = Lost(1)]
  <2> DEFINE x == IF fDiskFull THEN "err" ELSE "CTRLC"
  <2>1. CASE env.of = "command"
    <3>1. stack' = <<>> /\ fc' = NULL /\ fs' = fs
          /\ top' = [top EXCEPT !.at = "done", !.nReturn = "CTRLC", !.lost = Lost(1)]
      BY <2>1, Zenon DEF Interrupt, NoAttr
    <3>2. "CTRLC" \in Returns BY DEF Returns
    <3> QED BY <3>1, <3>2, Zenon
  <2>2. CASE env.of = "top"
    <3>1. env.of # "command" BY <2>2
    <3>2. stack' = <<>> /\ fc' = NULL /\ fs' = fs
          /\ top' = [top EXCEPT !.at = "finish", !.lost = Lost(1), !.nReturn = x]
      BY <2>2, <3>1, Zenon DEF Interrupt, NoAttr
    <3>3. x \in Returns BY DEF Returns
    <3> HIDE DEF x
    <3>4. top' = [top EXCEPT !.at = "finish", !.nReturn = x, !.lost = Lost(1)]
      <4>1. PICK l : l = Lost(1) OBVIOUS
      <4>2. top' = [top EXCEPT !.at = "finish", !.lost = l, !.nReturn = x] BY <3>2, <4>1
      <4>3. top' = [top EXCEPT !.at = "finish", !.nReturn = x, !.lost = l] BY <1>1, <4>2 DEF Tops
      <4> QED BY <4>1, <4>3
    <3> QED BY <2>2, <3>2, <3>3, <3>4, Zenon
  <2>3. env.of = "command" \/ env.of = "top" OBVIOUS
  <2> QED BY <2>1, <2>2, <2>3, Zenon
<1>3. Lost(1) \in Nat /\ ((\A j \in 1 .. Len(stack) : ~stack[j].hdir) => Lost(1) = top.lost)
  BY <1>1, LostType
<1>4. /\ top' \in Tops /\ top'.at = p /\ top'.arg = top.arg /\ top'.lost = Lost(1) /\ top'.tname = top.tname
  <2>1. PICK l \in Nat : l = Lost(1) BY <1>3
  <2>2. top' = [top EXCEPT !.at = p, !.nReturn = r, !.lost = l] BY <1>2, <2>1
  <2> QED BY <1>1, <2>1, <2>2 DEF Tops, TopPlaces
<1>5. stack' \in Seq(Workers) /\ DOMAIN stack' = {} BY <1>2
<1>6. StateOK' BY <1>1, <1>2, <1>4, <1>5 DEF IInv, StateOK, Disk
<1>7. ShapeOK' BY <1>2, <1>4, <1>5 DEF ShapeOK
<1>8. FileOK' /\ CopyOK' /\ PartOK' BY <1>2 DEF FileOK, CopyOK, PartOK
<1>9. EnvOK'
  <2>1. SUFFICES ASSUME p = "finish" PROVE Alive(env)'
    BY <1>2, <1>4 DEF EnvOK
  <2>2. env'.of = "top" BY <1>1, <1>2, <2>1
  <2>3. top'.at # "done" BY <1>4, <2>1
  <2> QED BY <2>2, <2>3 DEF Alive
<1>10. SearchOK'
  <2>1. SUFFICES ASSUME Moving PROVE top'.lost = 0
    BY <1>1, <1>2 DEF SearchOK, Moving
  <2>2. top.lost = 0 BY <2>1 DEF IInv, SearchOK
  <2>3. \A j \in 1 .. Len(stack) : ~stack[j].hdir
    <3>1. CASE stack = <<>> BY <3>1
    <3>2. CASE stack # <<>>
      <4>1. Len(stack) \in Nat \ {0} /\ Len(stack) \in DOMAIN stack BY <1>1, <3>2, CurType
      <4>2. Cur.at = "entry" /\ Len(stack) = 1 BY <1>1, <2>1, <3>2 DEF IInv, SearchOK
      <4>3. WorkerOK(stack[1]) /\ stack[1].at = "entry" BY <4>1, <4>2 DEF IInv, ShapeOK, Cur
      <4>4. ~stack[1].hdir BY <4>3 DEF WorkerOK
      <4> QED BY <4>2, <4>4
    <3> QED BY <3>1, <3>2
  <2> QED BY <1>3, <1>4, <2>2, <2>3
<1>11. PlainOK' BY <1>1, <1>2, <1>4, PlainSame DEF SameData
<1> QED BY <1>6, <1>7, <1>8, <1>9, <1>10, <1>11 DEF IInv

\* FileCopy() closes its files.
LEMMA CopyInterrupted ==
  ASSUME IInv, Interrupt, env.of = "FileCopy"
  PROVE  IInv'
<1>1. /\ UNCHANGED <<dirs, room, cmd, verify, fDiskFull, flags, env>>
      /\ signals' = FALSE /\ fException' = TRUE /\ breaks' \in 0 .. Breaks
      /\ fc # NULL /\ fc.at \notin {"start", "exit"} /\ env = FileCopyEnv
      /\ stack \in Seq(Workers) /\ top \in Tops /\ fs \in Disk
  BY Interrupted
<1>2. fc' = [fc EXCEPT !.at = "bye", !.nReturn = "CTRLC"] /\ stack' = stack /\ top' = top /\ fs' = fs
  <2>1. env.of # "command" /\ env.of # "top" OBVIOUS
  <2> QED BY <2>1, Zenon DEF Interrupt, Bye
<1>3. stack # <<>> /\ Cur.at = "copy" /\ fc \in Copies BY <1>1, InCopy
<1>4. fc' \in Copies /\ fc'.at = "bye" /\ fc'.nReturn = "CTRLC" /\ fc'.out = fc.out
  BY <1>2, <1>3 DEF Copies, CopyPlaces, Returns
<1>5. fc' # NULL BY <1>4, Constants
<1>6. Cur' = Cur BY <1>2 DEF Cur
<1>7. Source' = Source /\ Target' = Target BY <1>2, <1>6, SameFile
<1>8. StateOK' BY <1>1, <1>2, <1>4 DEF IInv, StateOK
<1>9. ShapeOK' BY <1>1, <1>2, <1>3, <1>6 DEF IInv, ShapeOK, WorkerOK
<1>10. FileOK'
  <2>1. Exists(Source)' <=> Exists(Source) BY <1>2, <1>7 DEF Exists
  <2>2. Moving' <=> Moving BY <1>1 DEF Moving
  <2> QED BY <1>2, <1>6, <1>7, <2>1, <2>2 DEF IInv, FileOK
<1>11. CopyOK' BY <1>1, <1>4, <1>7 DEF IInv, CopyOK
<1>12. EnvOK' BY <1>1, <1>3, <1>2, <1>5 DEF EnvOK
<1>13. SearchOK'
  <2>1. Moving' <=> Moving BY <1>1 DEF Moving
  <2> QED BY <1>2, <1>5, <2>1 DEF IInv, SearchOK
<1>14. PartOK' BY <1>4 DEF PartOK
<1>15. PlainOK' BY <1>1, <1>2, <1>3, <1>4, <1>5, CopyPlain DEF SameData
<1> QED BY <1>8, <1>9, <1>10, <1>11, <1>12, <1>13, <1>14, <1>15 DEF IInv

\* The workers behind the one that did the last setjmp() have no search open.
LEMMA NoneLost ==
  ASSUME IInv, Interrupt, env.of = "worker", Moving, NEW i \in DOMAIN stack, stack[i].src = env.src
  PROVE  \A j \in i + 1 .. Len(stack) : ~stack[j].hdir
<1>1. /\ fc = NULL /\ (stack # <<>> => Cur.at \notin {"copied", "subbed"}) /\ stack \in Seq(Workers)
  BY Interrupted
<1>2. stack # <<>> /\ DOMAIN stack = 1 .. Len(stack) BY <1>1
<1>3. Len(stack) \in Nat \ {0} /\ Len(stack) \in DOMAIN stack BY <1>1, <1>2, CurType
<1>4. \A j \in DOMAIN stack : stack[j].src = stack[i].src => j = i
  <2> TAKE j \in DOMAIN stack
  <2>1. Len(stack[i].src) \in Nat
    <3>1. stack[i] \in Workers BY <1>1
    <3>2. stack[i].src \in Seq(STRING) BY <3>1, Constants DEF Workers
    <3> QED BY <3>2
  <2>2. i < j \/ j < i \/ j = i BY <1>2
  <2> QED BY <2>1, <2>2 DEF IInv, ShapeOK
<1>5. CASE Cur.at # "entry"
  <2>1. env.src = stack[Len(stack)].src BY <1>1, <1>2, <1>5 DEF IInv, SearchOK, Cur
  <2>2. i = Len(stack) BY <1>3, <1>4, <2>1
  <2> QED BY <1>3, <2>2
<1>6. CASE Cur.at = "entry"
  <2>1. Len(stack) # 1
    <3>1. SUFFICES ASSUME Len(stack) = 1 PROVE FALSE
      OBVIOUS
    <3>2. env \in {CommandEnv, TopEnv} BY <1>1, <1>2, <1>6, <3>1 DEF IInv, SearchOK
    <3> QED BY <3>2 DEF CommandEnv, TopEnv
  <2>2. env.src = stack[Len(stack) - 1].src BY <1>1, <1>2, <1>6, <2>1 DEF IInv, SearchOK
  <2>3. Len(stack) - 1 \in DOMAIN stack BY <1>2, <1>3, <2>1
  <2>4. i = Len(stack) - 1 BY <1>4, <2>2, <2>3
  <2>5. WorkerOK(stack[Len(stack)]) /\ stack[Len(stack)].at = "entry" BY <1>3, <1>6 DEF IInv, ShapeOK, Cur
  <2>6. ~stack[Len(stack)].hdir BY <2>5 DEF WorkerOK
  <2> QED BY <1>3, <2>4, <2>6
<1> QED BY <1>5, <1>6

\* The attributes of a file are restored.
LEMMA RestoredDisk ==
  ASSUME fs \in Disk, stack \in Seq(Workers), NEW i \in DOMAIN stack, Aborted(i)
  PROVE  fs' \in Disk /\ SameData(fs, fs')
<1>1. AttrSet(Path(stack[i].src, stack[i].name), stack[i].attr) \/ NoAttr
  BY Zenon DEF Aborted
<1>2. stack[i] \in Workers OBVIOUS
<1>3. PICK a \in SUBSET Attributes : a = stack[i].attr BY <1>2 DEF Workers
<1> QED BY <1>1, <1>3, AttrStep

\* A worker goes on where the one it called has not returned: it has the
\* attributes of a file to restore, and aborts.
LEMMA WorkerInterrupted ==
  ASSUME IInv, Interrupt, env.of = "worker"
  PROVE  IInv'
<1>1. /\ UNCHANGED <<dirs, room, cmd, verify, fDiskFull, flags, env>>
      /\ signals' = FALSE /\ fException' = TRUE /\ breaks' \in 0 .. Breaks /\ fc = NULL
      /\ stack \in Seq(Workers) /\ top \in Tops /\ fs \in Disk
  BY Interrupted
<1>2. fc' = NULL /\ \E i \in DOMAIN stack : stack[i].src = env.src /\ Aborted(i)
  <2>1. env.of # "command" /\ env.of # "top" /\ env.of # "FileCopy" OBVIOUS
  <2> QED BY <2>1, Zenon DEF Interrupt, NoAttr
<1>3. PICK i \in DOMAIN stack : stack[i].src = env.src /\ Aborted(i) BY <1>2
<1>4. /\ DOMAIN stack = 1 .. Len(stack) /\ Len(stack) \in Nat /\ i \in Nat /\ 1 <= i /\ i <= Len(stack)
      /\ stack # <<>> /\ stack[i] \in Workers
  BY <1>1, <1>3
<1>5. top.at = "work" /\ top.arg <= Len(cmd.args) BY <1>4 DEF IInv, ShapeOK
<1>6. fs' \in Disk /\ SameData(fs, fs') BY <1>1, <1>3, RestoredDisk
<1>7. Moving' <=> Moving BY <1>1 DEF Moving
<1>8. Moving => top.lost = 0 BY DEF IInv, SearchOK
<1>9. CopyOK' /\ PartOK' BY <1>2 DEF CopyOK, PartOK
<1>10. PICK k \in Nat : k = i + 1 BY <1>4
<1>11. Lost(k) \in Nat /\ (Moving => Lost(k) = top.lost)
  <2>1. Moving => \A j \in k .. Len(stack) : ~stack[j].hdir BY <1>3, <1>10, NoneLost
  <2> QED BY <1>1, <2>1, LostType
<1>12. CASE i = 1 /\ stack' = <<>> /\ top' = [top EXCEPT !.at = "returned", !.nReturn = "CTRLC", !.lost = Lost(2)]
  <2>1. k = 2 BY <1>10, <1>12
  <2>2. PICK l \in Nat : l = Lost(2) /\ (Moving => l = top.lost) BY <1>11, <2>1
  <2>3. top' = [top EXCEPT !.at = "returned", !.nReturn = "CTRLC", !.lost = l] BY <1>12, <2>2
  <2>4. top' \in Tops /\ top'.at = "returned" /\ top'.arg = top.arg /\ top'.lost = l /\ top'.tname = top.tname
    BY <1>1, <2>3 DEF Tops, TopPlaces, Returns
  <2>5. stack' \in Seq(Workers) /\ DOMAIN stack' = {} /\ stack' = <<>> BY <1>12
  <2>6. StateOK' BY <1>1, <1>2, <1>6, <2>4, <2>5 DEF IInv, StateOK, Disk
  <2>7. ShapeOK' BY <1>1, <1>2, <1>5, <2>4, <2>5 DEF ShapeOK
  <2>8. FileOK' /\ EnvOK' BY <1>2, <2>4, <2>5 DEF FileOK, EnvOK
  <2>9. SearchOK' BY <1>7, <1>8, <2>2, <2>4, <2>5 DEF SearchOK
  <2>10. PlainOK' BY <1>1, <1>2, <1>6, <2>4, PlainSame
  <2> QED BY <1>9, <2>6, <2>7, <2>8, <2>9, <2>10 DEF IInv
<1>13. CASE i > 1 /\ stack' = Resumed(SubSeq(stack, 1, i - 1), "CTRLC") /\ top' = [top EXCEPT !.lost = Lost(i + 1)]
  <2>1. PICK n \in Nat : n = i - 1 BY <1>4, <1>13
  <2>2. n # 0 /\ n < Len(stack) /\ n <= Len(stack) /\ n \in DOMAIN stack BY <1>4, <1>13, <2>1
  <2>3. PICK l \in Nat : l = Lost(k) /\ (Moving => l = top.lost) BY <1>11
  <2>4. top' = [top EXCEPT !.lost = l] BY <1>10, <1>13, <2>3
  <2>5. top' \in Tops /\ top'.at = top.at /\ top'.arg = top.arg /\ top'.lost = l /\ top'.tname = top.tname
    BY <1>1, <2>4 DEF Tops
  <2>6. PICK left : left = SubSeq(stack, 1, n) OBVIOUS
  <2>7. /\ left \in Seq(Workers) /\ Len(left) = n /\ left # <<>>
        /\ \A j \in 1 .. n : left[j] = stack[j]
    BY <1>1, <2>2, <2>6, FirstWorkers
  <2>8. stack' = Resumed(left, "CTRLC") BY <1>13, <2>1, <2>6, Zenon
  <2>9. /\ stack' \in Seq(Workers) /\ Len(stack') = n /\ stack' # <<>>
        /\ stack'[n].at = "subbed" /\ stack'[n].src = left[n].src /\ stack'[n].seen = left[n].seen
        /\ \A j \in 1 .. n : j < n => stack'[j] = left[j]
    <3>1. "CTRLC" \in Returns BY DEF Returns
    <3>2. /\ Resumed(left, "CTRLC") \in Seq(Workers) /\ Len(Resumed(left, "CTRLC")) = Len(left)
          /\ Resumed(left, "CTRLC") # <<>>
          /\ Resumed(left, "CTRLC")[Len(left)].at = "subbed"
          /\ Resumed(left, "CTRLC")[Len(left)].src = left[Len(left)].src
          /\ Resumed(left, "CTRLC")[Len(left)].seen = left[Len(left)].seen
          /\ Resumed(left, "CTRLC")[Len(left)].name = left[Len(left)].name
          /\ Resumed(left, "CTRLC")[Len(left)].tgt = left[Len(left)].tgt
          /\ \A j \in 1 .. Len(left) : j < Len(left) => Resumed(left, "CTRLC")[j] = left[j]
      BY <2>7, <3>1, Resuming, Zenon
    <3> QED BY <2>7, <2>8, <3>2
  <2>10. DOMAIN stack' = 1 .. n /\ Cur' = stack'[n] BY <2>9 DEF Cur
  <2>11. stack[n].at = "dirs" /\ WorkerOK(stack[n]) BY <2>2 DEF IInv, ShapeOK
  <2>12. n \in 1 .. n /\ stack'[n].src = stack[n].src /\ stack'[n].seen = stack[n].seen BY <2>2, <2>7, <2>9
  <2>13. WorkerOK(stack'[n])
    <3>1. stack[n].seen \subseteq Dirs BY <2>11 DEF WorkerOK
    <3> QED BY <2>9, <2>12, <3>1 DEF WorkerOK, FilePlaces
  <2>14. \A j \in 1 .. n : j # n => stack'[j] = stack[j] /\ j < n /\ j \in DOMAIN stack /\ j < Len(stack)
    BY <1>4, <2>2, <2>7, <2>9
  <2>15. \A j \in DOMAIN stack' : WorkerOK(stack'[j]) /\ (j < Len(stack') => stack'[j].at = "dirs")
    <3> TAKE j \in DOMAIN stack'
    <3>1. CASE j = n BY <2>9, <2>13, <3>1
    <3>2. CASE j # n
      <4>1. stack'[j] = stack[j] /\ j \in DOMAIN stack /\ j < Len(stack) BY <2>10, <2>14, <3>2
      <4> QED BY <4>1 DEF IInv, ShapeOK
    <3> QED BY <3>1, <3>2
  <2>16. \A j \in DOMAIN stack' : j \in DOMAIN stack /\ stack'[j].src = stack[j].src
    BY <2>2, <2>10, <2>12, <2>14
  <2>17. \A j, h \in DOMAIN stack' : j < h => Len(stack'[j].src) < Len(stack'[h].src)
    BY <2>16 DEF IInv, ShapeOK
  <2>18. StateOK' BY <1>1, <1>2, <1>6, <2>5, <2>9 DEF IInv, StateOK, Disk
  <2>19. ShapeOK' BY <1>1, <1>2, <1>5, <2>5, <2>9, <2>15, <2>17 DEF ShapeOK, WorkerOK
  <2>20. FileOK' BY <2>9, <2>10 DEF FileOK, SourcePlaces, MovePlaces
  <2>21. EnvOK' BY <1>2, <2>9, <2>10 DEF EnvOK
  <2>22. SearchOK' BY <1>7, <1>8, <2>3, <2>5, <2>9, <2>10 DEF SearchOK
  <2>23. PlainOK' BY <1>1, <1>2, <1>6, <2>5, PlainSame
  <2> QED BY <1>9, <2>18, <2>19, <2>20, <2>21, <2>22, <2>23 DEF IInv
<1> QED BY <1>3, <1>12, <1>13, Zenon DEF Aborted

LEMMA InterruptStep ==
  ASSUME IInv, Interrupt
  PROVE  IInv'
<1>1. env \in Envs BY DEF IInv, StateOK
<1>2. env.of \in {"command", "top"} \/ env.of = "FileCopy" \/ env.of = "worker"
  BY <1>1 DEF Envs, CommandEnv, TopEnv, FileCopyEnv
<1> QED BY <1>2, TopInterrupted, CopyInterrupted, WorkerInterrupted

-----------------------------------------------------------------------------
(***************************************************************************)
(* The theorems.                                                           *)
(***************************************************************************)
LEMMA InitInv ==
  ASSUME Init
  PROVE  IInv
<1>1. /\ fs \in Disks /\ room \in Rooms /\ verify = FALSE /\ cmd \in Commands /\ flags = {"CREATE"}
      /\ dirs = {d \in Dirs : \E p \in Paths : p.dir \in Below(d) /\ fs[p] # NULL}
      /\ top = [at |-> "setup", arg |-> 1, nReturn |-> "0", files |-> 0, offset |-> 0, tname |-> cmd.name,
                lost |-> 0]
      /\ stack = <<>> /\ fc = NULL /\ env = CommandEnv
      /\ signals = TRUE /\ fException = FALSE /\ fDiskFull = FALSE /\ breaks = Breaks
  BY DEF Init
<1>2. fs \in Disk /\ room \in Nat /\ breaks \in 0 .. Breaks
      /\ \A p \in Paths : fs[p] # NULL => fs[p].data \in Contents
  BY <1>1, CopyMoveAssumption DEF Disk
<1>3. cmd.name \in Names \cup {"*"} BY <1>1, CmdType
<1>4. dirs \subseteq Dirs BY <1>1
<1>5. top \in Tops BY <1>1, <1>3 DEF Tops, TopPlaces, Returns
<1>6. stack \in Seq(Workers) /\ DOMAIN stack = {} BY <1>1
<1>7. env \in Envs /\ env.of = "command" BY <1>1 DEF Envs, CommandEnv
<1>8. StateOK BY <1>1, <1>2, <1>4, <1>5, <1>6, <1>7 DEF StateOK, Disk
<1>9. top.at = "setup" /\ top.lost = 0 /\ top.tname = cmd.name BY <1>1
<1>10. ShapeOK BY <1>1, <1>6, <1>9 DEF ShapeOK
<1>11. FileOK /\ CopyOK /\ PartOK BY <1>1 DEF FileOK, CopyOK, PartOK
<1>12. EnvOK
  <2>1. Alive(env) BY <1>7 DEF Alive
  <2> QED BY <1>1, <2>1 DEF EnvOK
<1>13. SearchOK BY <1>1, <1>9 DEF SearchOK
<1>14. PlainOK
  <2>1. \A p \in Paths : Exists(p) => Whole(fs[p]) BY <1>2 DEF Exists, Whole
  <2> QED BY <1>1, <1>9, <2>1 DEF PlainOK, Plain
<1> QED BY <1>8, <1>10, <1>11, <1>12, <1>13, <1>14 DEF IInv

\* A step that changes nothing.
LEMMA StutterStep ==
  ASSUME IInv, UNCHANGED vars
  PROVE  IInv'
<1>1. /\ fs' = fs /\ dirs' = dirs /\ room' = room /\ verify' = verify /\ cmd' = cmd /\ flags' = flags
      /\ top' = top /\ stack' = stack /\ fc' = fc /\ env' = env /\ signals' = signals
      /\ fException' = fException /\ fDiskFull' = fDiskFull /\ breaks' = breaks
  BY DEF vars
<1>2. StateOK' BY <1>1 DEF IInv, StateOK
<1>3. ShapeOK' BY <1>1 DEF IInv, ShapeOK, WorkerOK, Cur
<1>4. FileOK' BY <1>1 DEF IInv, FileOK, Exists, Moving, Source, Target, Path, Cur
<1>5. CopyOK' BY <1>1 DEF IInv, CopyOK, Exists, Source, Target, Path, Cur
<1>6. EnvOK' BY <1>1 DEF IInv, EnvOK, Alive, Cur
<1>7. SearchOK' BY <1>1 DEF IInv, SearchOK, Moving, Cur
<1>8. PlainOK' BY <1>1 DEF IInv, PlainOK, Plain, Binary, Whole, Exists, Target, Path, Cur
<1>9. PartOK' BY <1>1 DEF IInv, PartOK, Plain, Binary, Whole, Exists, Source, Target, Path, Cur
<1> QED BY <1>2, <1>3, <1>4, <1>5, <1>6, <1>7, <1>8, <1>9 DEF IInv

LEMMA StepInv ==
  ASSUME IInv, [Next]_vars
  PROVE  IInv'
<1>1. CASE Command BY <1>1, CommandStep
<1>2. CASE Files \/ AfterFile BY <1>2, FilesStep
<1>3. CASE FileCopy BY <1>3, FileCopyStep
<1>4. CASE Tree BY <1>4, TreeStep
<1>5. CASE Interrupt BY <1>5, InterruptStep
<1>6. CASE UNCHANGED vars BY <1>6, StutterStep
<1> QED BY <1>1, <1>2, <1>3, <1>4, <1>5, <1>6 DEF Next

\* What is known of the activations, of cv.env and of the files holds in every
\* state of every command, whatever fails and whenever ^C is pressed.
THEOREM Invariant == Spec => []IInv
<1>1. Init => IInv BY InitInv
<1>2. IInv /\ [Next]_vars => IInv' BY StepInv
<1> QED BY <1>1, <1>2, PTL DEF Spec

\* Only the steps that set attributes change unset.
UnsetOK == unset \in BOOLEAN

LEMMA UnsetStep ==
  ASSUME IInv, UnsetOK, Next
  PROVE  UnsetOK'
<1>0. unset' = unset => UnsetOK' BY DEF UnsetOK
<1>1. ASSUME NEW p, NEW a, AttrSet(p, a) \/ NoAttr PROVE UnsetOK'
  BY <1>1 DEF UnsetOK, AttrSet, NoAttr
<1>2. CASE Command
  BY <1>0, <1>2 DEF Command, Refuse, Setup, BadName, RefuseInfinite, RenameDir, StartArg, Returned, ArgsDone, Finish,
              TopStep, rest
<1>3. CASE Prepare
  <2>1. CASE Opt("N") BY <1>3, <2>1 DEF UnsetOK, Prepare, NoAttr
  <2>2. CASE ~Opt("N")
    <3>1. PICK g : unset' = (unset \/ fs' # g) BY <1>3, <2>2 DEF Prepare
    <3> QED BY <3>1 DEF UnsetOK
  <2> QED BY <2>1, <2>2
<1>4. CASE Files /\ ~Prepare
  <2>1. CASE Enter \/ EnterFails BY <1>0, <2>1 DEF Enter, EnterFails, rest
  <2>2. CASE Find \/ FindEnds
    <3>1. UNCHANGED rest BY <2>2, Zenon DEF Find, FindEnds
    <3> QED BY <1>0, <3>1 DEF rest
  <2>3. CASE CheckSkips \/ CheckRefuses \/ CheckSame \/ CheckOK \/ Ask
    <3>1. UNCHANGED rest BY <2>3, Zenon DEF CheckSkips, CheckRefuses, CheckSame, CheckOK, Ask
    <3> QED BY <1>0, <3>1 DEF rest
  <2> QED BY <1>4, <2>1, <2>2, <2>3 DEF Files
<1>5. CASE CopyAborted \/ Copied \/ CopyFailed \/ Moved \/ FCSetsMode
  <2>1. (\E p, a : AttrSet(p, a)) \/ NoAttr
    BY <1>5, Zenon DEF CopyAborted, Copied, CopyFailed, Moved, FCSetsMode
  <2> QED BY <1>1, <2>1
<1>6. CASE CopyMoved
  <2>1. PICK a, c : unset' = (unset \/ a # c) BY <1>6 DEF CopyMoved
  <2> QED BY <2>1 DEF UnsetOK
<1>7. CASE Next_copy \/ Rename \/ RenameFails \/ ClearTarget \/ RenameAgain \/ RemoveSource
  BY <1>0, <1>7 DEF Next_copy, Rename, RenameFails, ClearTarget, RenameAgain, RemoveSource, rest
<1>8. CASE FileCopy /\ ~FCSetsMode
  BY <1>0, <1>8 DEF FileCopy, CallFileCopy, FCRefuses, FCStarts, FCIn, FCFails, FCCreates, FCOpens, FCSeeks, FCReads,
              FCWrites, FCTime, FCCloses, FCRemoves, FCExit, FCStep, rest
<1>9. CASE Tree
  <2>1. UNCHANGED rest BY <1>9, Zenon DEF Tree, Descend, Ascend, DirsDone, RemoveDir
  <2> QED BY <1>0, <2>1 DEF rest
<1>10. CASE Interrupt
  <2>1. CASE env.of \in {"command", "top"} BY <1>10, <2>1 DEF UnsetOK, Interrupt, NoAttr
  <2>2. CASE env.of = "FileCopy" BY <1>10, <2>2 DEF UnsetOK, Interrupt
  <2>3. CASE env.of = "worker"
    <3>1. PICK i : Aborted(i) BY <1>10, <2>3 DEF Interrupt
    <3> QED BY <1>1, <3>1, Zenon DEF Aborted
  <2>4. env.of \in {"command", "top", "FileCopy", "worker"} BY DEF IInv, StateOK, Envs, CommandEnv, TopEnv, FileCopyEnv
  <2> QED BY <2>1, <2>2, <2>3, <2>4
<1> QED BY <1>2, <1>3, <1>4, <1>5, <1>6, <1>7, <1>8, <1>9, <1>10 DEF Next, AfterFile

\* The disk and all activations of Copy_Cmd(), Mv_Cmd(), _copy(), _mv() and
\* FileCopy() keep their types.
THEOREM TypeCorrect == Spec => []TypeOK
<1>1. IInv /\ UnsetOK => TypeOK BY DEF UnsetOK, IInv, TypeOK
<1>2. Init => UnsetOK BY DEF UnsetOK, Init
<1>3. IInv /\ UnsetOK /\ [Next]_vars => UnsetOK' BY UnsetStep DEF UnsetOK, vars, rest
<1> QED BY <1>1, <1>2, <1>3, Invariant, PTL DEF Spec

\* ^C longjmps to cv.env, which every level of _copy() and _mv() has set again
\* and again: never into an activation that has returned.
THEOREM EnvStaysAlive == Spec => []EnvAlive
<1>1. ASSUME IInv PROVE EnvAlive
  <2>1. SUFFICES ASSUME InDos PROVE Alive(env)
    BY DEF EnvAlive
  <2>2. CASE fc # NULL
    <3>1. env = FileCopyEnv BY <2>1, <2>2, <1>1 DEF InDos, IInv, EnvOK
    <3>2. env.of = "FileCopy" BY <3>1 DEF FileCopyEnv
    <3> QED BY <2>2, <3>2 DEF Alive
  <2>3. CASE fc = NULL /\ stack # <<>>
    BY <2>1, <2>3, <1>1 DEF InDos, IInv, EnvOK
  <2>4. CASE fc = NULL /\ stack = <<>>
    BY <2>1, <2>4, <1>1 DEF InDos, IInv, EnvOK
  <2> QED BY <2>2, <2>3, <2>4
<1> QED BY <1>1, Invariant, PTL

\* MOVE leaves no directory search open in DOS, however deep the directory is
\* in which ^C ends it.
THEOREM SearchesStayClosed == Spec => []SearchesClosed
<1>1. IInv => SearchesClosed BY DEF IInv, SearchOK, SearchesClosed
<1> QED BY <1>1, Invariant, PTL

\* COPY and MOVE of files to files of the same names leave none of which only a
\* part was written: on a full disk, after an error or after ^C FileCopy()
\* deletes it.
THEOREM NoPartialTargetLeft == Spec => []NoPartialTarget
<1>1. ASSUME IInv PROVE NoPartialTarget
  <2>1. SUFFICES ASSUME AtTop("done"), Plain, NEW p \in Paths, Exists(p) PROVE Whole(fs[p])
    BY DEF NoPartialTarget, Plain
  <2>2. stack = <<>> BY <2>1, <1>1 DEF AtTop, IInv, ShapeOK
  <2>3. fc = NULL BY <2>2, <1>1 DEF IInv, ShapeOK
  <2> QED BY <2>1, <2>3, <1>1 DEF IInv, PlainOK
<1> QED BY <1>1, Invariant, PTL

-----------------------------------------------------------------------------
(***************************************************************************)
(* COPY and MOVE implement Transfer: whatever fails, and whenever ^C is    *)
(* pressed, no contents are lost, however many files and directories there *)
(* are.  It is proved of commands that do not ask for a loss themselves    *)
(* (Separate): nothing that matters is only where they are to write, and   *)
(* MOVE is not to move two files to one name, nor a file to where another  *)
(* is to be moved from.                                                    *)
(*                                                                         *)
(* That contents are somewhere is not inductive.  It must be known that    *)
(* the file the workers write is the one that the command names for the    *)
(* file they read (PlacesOK), that a copy is equal to its source before    *)
(* that is removed (SameOK), and that every contents are in a file which   *)
(* nothing is still to be moved to (KeptOK).                               *)
(***************************************************************************)
\* The directories that argument i is about, and its files.
Region(i) == IF Opt("S") THEN Below(cmd.args[i].dir) ELSE {cmd.args[i].dir}
Sources(i) == {p \in Paths : p.dir \in Region(i) /\ p.name \in cmd.args[i].names}

\* Where they go: the same way below the directory of the target.
GoalDir(i, d) == cmd.dir \o SubSeq(d, Len(cmd.args[i].dir) + 1, Len(d))
Goal(i, p) == Path(GoalDir(i, p.dir), p.name)
GoalNames == IF cmd.name = "*" THEN UNION {cmd.args[i].names : i \in DOMAIN cmd.args} ELSE {cmd.name}
Goals == {p \in Paths : p.name \in GoalNames /\ \E i \in DOMAIN cmd.args : \E d \in Region(i) : p.dir = GoalDir(i, d)}

\* MOVE of files to files of the same names, none of which is to be moved
\* itself.  Directories that are renamed as a whole, and /W, which writes over
\* the sources, are not among them.
MovesApart == /\ Plain /\ ~Opt("W")
              /\ \A i \in DOMAIN cmd.args : ~cmd.args[i].whole /\ Sources(i) \cap Goals = {}

\* No two files have one goal.
Distinct == \A i, j \in DOMAIN cmd.args : \A p \in Sources(i), q \in Sources(j) :
              Exists(p) /\ Exists(q) /\ Goal(i, p) = Goal(j, q) => p = q

\* A command that does not ask for a loss, before it starts.
Separate ==
  /\ \A c \in Valuable : \E p \in Holders(c) : p \notin Goals
  /\ Moving => MovesApart /\ Distinct

\* A worker goes the same way from both directories.
Follows(f, a) == f.src \in Region(a) /\ f.tgt = GoalDir(a, f.src)

\* The name that the target gets, or "*".
NameOK(n) == IF n = "*" THEN cmd.name = "*" ELSE n \in GoalNames

PlacesOK ==
  /\ \A k \in DOMAIN stack : Follows(stack[k], top.arg)
  /\ stack # <<>> /\ Cur.at \in FilePlaces => Cur.name \in Arg.names
  /\ NameOK(top.tname)

\* MOVE: what was copied without an error is complete.
Equal == Exists(Source) /\ Exists(Target) /\ fs[Target].data = fs[Source].data
SameOK ==
  Moving /\ Plain =>
    /\ fc # NULL /\ fc.at \in {"bye", "attr", "exit"} /\ fc.nReturn = "0" => Equal
    /\ fc = NULL /\ stack # <<>> /\ (Cur.at = "remove" \/ (Cur.at = "copied" /\ Cur.nReturn = "0")) => Equal

\* Nothing more is written to a file: it is no target at all, or what goes there
\* has been moved.
Spared(h) ==
  IF Copying THEN h \notin Goals
  ELSE \A i \in DOMAIN cmd.args : \A q \in Sources(i) : Exists(q) => Goal(i, q) # h

KeptOK ==
  /\ \A c \in Valuable : \E p \in Holders(c) : Spared(p)
  /\ Moving => MovesApart /\ Distinct

SafeInv == IInv /\ PlacesOK /\ SameOK /\ KeptOK

-----------------------------------------------------------------------------
(***************************************************************************)
(* What a step does to the disk.                                           *)
(***************************************************************************)
\* The contents of one file change.
Writes(t) == \A p \in Paths : p # t => fs'[p] = fs[p]
Renames(p, t) == p \in Paths /\ t \in Paths /\ fs' = [fs EXCEPT ![t] = fs[p], ![p] = NULL]
Removes(p) == p \in Paths /\ fs' = [fs EXCEPT ![p] = NULL]

\* The four ways in which a step of the commands can change what files contain.
DataStep ==
  \/ SameData(fs, fs')
  \/ stack # <<>> /\ Cur.at \in SourcePlaces \ {"copied"} /\ Writes(Target)
  \/ /\ fc = NULL /\ stack # <<>> /\ Cur.at \in {"rename", "again"}
     /\ ~Exists(Target) /\ Renames(Source, Target)
  \/ fc = NULL /\ stack # <<>> /\ Cur.at = "remove" /\ Removes(Source)

\* What is shown of every step.
StepOK == cmd' = cmd /\ PlacesOK' /\ SameOK' /\ DataStep

\* What Transfer allows to happen to the places of some contents.
Allowed(w, v) ==
  \/ v = w
  \/ \E p \in Paths : \/ v = w \cup {p}
                      \/ w # {p} /\ v = w \ {p}
                      \/ \E q \in Paths : p \in w /\ v = (w \ {p}) \cup {q}

\* The places of contents c on the disk g.
On(g, c) == {p \in Paths : g[p] # NULL /\ IsPrefix(c, g[p].data)}

LEMMA HoldersOn ==
  ASSUME NEW c
  PROVE  Holders(c) = On(fs, c) /\ Holders(c)' = On(fs', c)
BY DEF Holders, Exists, On

\* A step that is allowed for all contents is one of Transfer.
LEMMA TransferStep ==
  ASSUME \A c \in Valuable : Allowed(On(fs, c), On(fs', c))
  PROVE  Safe!Next
<1> DEFINE w == [c \in Valuable |-> Holders(c)]
<1>1. ASSUME NEW c \in Valuable
      PROVE  w[c] = On(fs, c) /\ w'[c] = On(fs', c)
  BY HoldersOn
<1>2. ASSUME NEW c \in Valuable
      PROVE  \/ w'[c] = w[c]
             \/ \E p \in Paths : \/ w'[c] = w[c] \cup {p}
                                 \/ w[c] # {p} /\ w'[c] = w[c] \ {p}
                                 \/ \E q \in Paths : p \in w[c] /\ w'[c] = (w[c] \ {p}) \cup {q}
  <2> HIDE DEF w
  <2> QED BY <1>1 DEF Allowed
<1> QED BY <1>2, Zenon DEF Safe!Next, Safe!Put, Safe!Drop, Safe!Rename

-----------------------------------------------------------------------------
(***************************************************************************)
(* Where the workers are.                                                  *)
(***************************************************************************)
\* The same workers, or fewer of them.
LEMMA PlacesKept ==
  ASSUME PlacesOK, cmd' = cmd, NameOK(top'.tname),
         \A k \in DOMAIN stack' :
           k \in DOMAIN stack /\ stack'[k].src = stack[k].src /\ stack'[k].tgt = stack[k].tgt,
         stack' # <<>> => top'.arg = top.arg /\ (Cur'.at \in FilePlaces => Cur'.name \in Arg.names)
  PROVE  PlacesOK'
<1>1. GoalNames' = GoalNames BY DEF GoalNames
<1>2. ASSUME NEW f, NEW g, NEW a, Follows(f, a), g.src = f.src, g.tgt = f.tgt
      PROVE  Follows(g, a)'
  BY <1>2 DEF Follows, Region, GoalDir, Opt, Below
<1>3. ASSUME NEW k \in DOMAIN stack'
      PROVE  Follows(stack[k], top.arg)'
  <2>1. PICK f, g, a : f = stack[k] /\ g = stack'[k] /\ a = top.arg OBVIOUS
  <2>2. Follows(f, a) BY <2>1 DEF PlacesOK
  <2>3. Follows(g, a)' BY <1>2, <2>1, <2>2
  <2>4. top'.arg = a
    <3>1. stack' # <<>> OBVIOUS
    <3> QED BY <2>1, <3>1
  <2> QED BY <2>1, <2>3, <2>4 DEF Follows, Region, GoalDir, Opt, Below
<1>4. stack' # <<>> /\ Cur'.at \in FilePlaces => Cur'.name \in cmd'.args[top'.arg].names
  BY DEF Arg
<1>5. NameOK(top.tname)' BY <1>1 DEF NameOK
<1> QED BY <1>3, <1>4, <1>5 DEF PlacesOK, Arg

\* A worker that goes on with the same directories.
LEMMA PutSafe ==
  ASSUME SafeInv, NEW p, Working(p), NEW f \in Workers, Put(f), f.src = Cur.src, f.tgt = Cur.tgt,
         f.at \in FilePlaces => f.name \in Arg.names,
         fc' = NULL, cmd' = cmd, top'.arg = top.arg, NameOK(top'.tname)
  PROVE  PlacesOK' /\ Cur' = f /\ (f.at \notin {"copied", "remove"} => SameOK')
<1>1. stack # <<>> /\ stack \in Seq(Workers) BY AtWork DEF SafeInv
<1>2. /\ stack' # <<>> /\ DOMAIN stack' = DOMAIN stack /\ stack'[Len(stack')] = f /\ stack'[Len(stack)] = f
      /\ \A i \in DOMAIN stack : i # Len(stack) => stack'[i] = stack[i]
  BY <1>1, LastPut DEF Put
<1>3. Cur' = f BY <1>2 DEF Cur
<1>4. \A k \in DOMAIN stack' :
        k \in DOMAIN stack /\ stack'[k].src = stack[k].src /\ stack'[k].tgt = stack[k].tgt
  BY <1>2 DEF Cur
<1>5. PlacesOK' BY <1>3, <1>4, PlacesKept DEF SafeInv
<1>6. f.at \notin {"copied", "remove"} => SameOK' BY <1>3 DEF SameOK
<1> QED BY <1>3, <1>5, <1>6

LEMMA GoSafe ==
  ASSUME SafeInv, NEW p, Working(p), NEW q \in WorkerPlaces \ {"copied", "remove"}, Go(q),
         q \in FilePlaces => p \in FilePlaces,
         fc' = NULL, cmd' = cmd, top'.arg = top.arg, NameOK(top'.tname)
  PROVE  PlacesOK' /\ SameOK'
<1> DEFINE f == [Cur EXCEPT !.at = q]
<1>1. stack # <<>> /\ Cur \in Workers /\ Cur.at = p BY AtWork DEF SafeInv
<1>2. f \in Workers /\ f.at = q /\ f.src = Cur.src /\ f.tgt = Cur.tgt /\ f.name = Cur.name
  BY <1>1, Goes
<1>3. Put(f) BY DEF Go
<1> HIDE DEF f
<1>4. f.at \in FilePlaces => f.name \in Arg.names BY <1>1, <1>2 DEF SafeInv, PlacesOK
<1> QED BY <1>2, <1>3, <1>4, PutSafe

\* A worker that leaves its file.
LEMMA LeaveSafe ==
  ASSUME SafeInv, NEW p, Working(p), NEW f \in Workers, Put(f), f.src = Cur.src, f.tgt = Cur.tgt,
         f.at \in {"dirs", "rmdir"}, fc' = NULL, cmd' = cmd, top' = top
  PROVE  PlacesOK' /\ SameOK'
<1>1. f.at \notin FilePlaces BY DEF FilePlaces
<1>2. NameOK(top'.tname) BY DEF SafeInv, PlacesOK
<1> QED BY <1>1, <1>2, PutSafe

LEMMA ReturnSafe ==
  ASSUME SafeInv, NEW p, Working(p), NEW r \in Returns, Return(r), fc' = NULL, cmd' = cmd
  PROVE  PlacesOK' /\ SameOK'
<1>1. /\ stack # <<>> /\ stack \in Seq(Workers) /\ top \in Tops /\ Len(stack) \in Nat \ {0}
      /\ DOMAIN stack = 1 .. Len(stack)
  BY AtWork DEF SafeInv
<1>2. /\ stack' \in Seq(Workers) /\ top' \in Tops /\ Len(stack') = Len(stack) - 1
      /\ top'.arg = top.arg /\ top'.lost = top.lost /\ top'.tname = top.tname
      /\ Len(stack) = 1 => stack' = <<>> /\ top'.at = "returned"
      /\ Len(stack) # 1 => /\ stack' # <<>> /\ top' = top
                           /\ stack'[Len(stack')].at = "subbed"
                           /\ stack'[Len(stack')].src = stack[Len(stack')].src
                           /\ stack'[Len(stack')].seen = stack[Len(stack')].seen
                           /\ stack'[Len(stack')].name = stack[Len(stack')].name
                           /\ stack'[Len(stack')].tgt = stack[Len(stack')].tgt
      /\ \A i \in 1 .. Len(stack') : i < Len(stack') => stack'[i] = stack[i]
  BY <1>1, Returning, Zenon
<1>3. DOMAIN stack' = 1 .. Len(stack') BY <1>2
<1>4. stack' # <<>> => Cur'.at = "subbed" BY <1>1, <1>2 DEF Cur
<1>5. ASSUME NEW k \in DOMAIN stack'
      PROVE  k \in DOMAIN stack /\ stack'[k].src = stack[k].src /\ stack'[k].tgt = stack[k].tgt
  <2>1. Len(stack) # 1 /\ k \in DOMAIN stack BY <1>1, <1>2, <1>3
  <2>2. CASE k = Len(stack') BY <1>2, <2>1, <2>2
  <2>3. CASE k # Len(stack')
    <3>1. k < Len(stack') /\ k \in 1 .. Len(stack') BY <1>1, <1>2, <1>3, <2>3
    <3> QED BY <1>2, <2>1, <3>1
  <2> QED BY <2>2, <2>3
<1>6. PlacesOK' BY <1>2, <1>4, <1>5, PlacesKept DEF SafeInv, PlacesOK, FilePlaces
<1>7. SameOK' BY <1>4 DEF SameOK
<1> QED BY <1>6, <1>7

-----------------------------------------------------------------------------
(***************************************************************************)
(* The steps of the workers.                                               *)
(***************************************************************************)
LEMMA SameName ==
  ASSUME SafeInv, top' = top
  PROVE  top'.arg = top.arg /\ NameOK(top'.tname)
BY DEF SafeInv, PlacesOK

\* Steps that change no contents: a worker goes on, leaves its file or returns.
LEMMA GoStep ==
  ASSUME SafeInv, NEW p, Working(p), NEW q \in WorkerPlaces \ {"copied", "remove"}, Go(q),
         q \in FilePlaces => p \in FilePlaces, UNCHANGED <<fixed, fc>>, top' = top, SameData(fs, fs')
  PROVE  StepOK
<1>1. cmd' = cmd /\ fc' = NULL BY DEF rest, fixed, Working
<1>2. PlacesOK' /\ SameOK' BY <1>1, GoSafe, SameName
<1> QED BY <1>1, <1>2 DEF StepOK, DataStep

LEMMA LeaveStep ==
  ASSUME SafeInv, NEW p, Working(p), NEW f \in Workers, Put(f), f.src = Cur.src, f.tgt = Cur.tgt,
         f.at \in {"dirs", "rmdir"}, UNCHANGED <<fixed, fc>>, top' = top, fs' = fs
  PROVE  StepOK
<1>1. cmd' = cmd /\ fc' = NULL BY DEF rest, fixed, Working
<1>2. PlacesOK' /\ SameOK' BY <1>1, LeaveSafe
<1> QED BY <1>1, <1>2 DEF StepOK, DataStep, SameData

LEMMA ReturnStep ==
  ASSUME SafeInv, NEW p, Working(p), NEW r \in Returns, Return(r), UNCHANGED <<fixed, fc>>, SameData(fs, fs')
  PROVE  StepOK
<1>1. cmd' = cmd /\ fc' = NULL BY DEF rest, fixed, Working
<1>2. PlacesOK' /\ SameOK' BY <1>1, ReturnSafe
<1> QED BY <1>1, <1>2 DEF StepOK, DataStep

\* A search has ended, or ESC was pressed.
LEMMA SearchEnds ==
  ASSUME SafeInv, NEW p, Working(p), Put([Cur EXCEPT !.at = "dirs", !.seen = {}, !.hdir = FALSE]),
         UNCHANGED <<fixed, fc>>, top' = top, fs' = fs
  PROVE  StepOK
<1> DEFINE f == [Cur EXCEPT !.at = "dirs", !.seen = {}, !.hdir = FALSE]
<1>1. Cur \in Workers BY AtWork DEF SafeInv
<1>2. f \in Workers /\ f.src = Cur.src /\ f.tgt = Cur.tgt /\ f.at = "dirs"
  BY <1>1 DEF Workers, WorkerPlaces
<1>3. Put(f) OBVIOUS
<1> HIDE DEF f
<1> QED BY <1>2, <1>3, LeaveStep

LEMMA FindSafe ==
  ASSUME SafeInv, Find
  PROVE  StepOK
<1>1. Working("find") /\ stack # <<>> /\ Cur \in Workers /\ WorkerOK(Cur) /\ Cur.at = "find" /\ fs \in Disk
  BY AtWork DEF Find, SafeInv
<1> DEFINE g(n, b) == [Cur EXCEPT !.at = "check", !.seen = @ \cup {n}, !.hdir = TRUE, !.name = n,
                                  !.attr = fs[Path(Cur.src, n)].attr, !.time = fs[Path(Cur.src, n)].time,
                                  !.next = b]
<1>2. PICK n \in Unseen, b \in BOOLEAN : Put(g(n, b))
  <2>1. \E n \in Unseen : Put(g(n, Cur.seen # {})) BY Zenon DEF Find
  <2>2. (Cur.seen # {}) \in BOOLEAN OBVIOUS
  <2> HIDE DEF g
  <2> QED BY <2>1, <2>2, Zenon
<1> DEFINE f == g(n, b)
<1>3. Put(f) BY <1>2
<1>4. UNCHANGED <<fs, fixed, top, fc>> BY DEF Find, disk, rest
<1>5. Exists(Path(Cur.src, n)) /\ n \in Arg.names BY <1>2 DEF Unseen, Arg
<1>6. n \in Names BY <1>5 DEF Exists, Path, Paths
<1>7. fs[Path(Cur.src, n)].attr \subseteq Attributes /\ fs[Path(Cur.src, n)].time \in Nat
  BY <1>1, <1>5, FileType
<1>8. Cur.seen \subseteq Names BY <1>1 DEF WorkerOK
<1>9. f \in Workers /\ f.at = "check" /\ f.src = Cur.src /\ f.name = n /\ f.tgt = Cur.tgt
  BY <1>1, <1>6, <1>7, <1>8 DEF Workers, WorkerPlaces
<1> HIDE DEF f
<1>10. cmd' = cmd /\ fc' = NULL /\ top' = top BY <1>1, <1>4 DEF rest, fixed, Working
<1>11. PlacesOK' /\ SameOK' BY <1>1, <1>3, <1>5, <1>9, <1>10, PutSafe, SameName
<1> QED BY <1>4, <1>10, <1>11 DEF StepOK, DataStep, SameData

LEMMA CheckSameSafe ==
  ASSUME SafeInv, CheckSame
  PROVE  StepOK
<1> DEFINE r == IF "CREATE" \notin flags /\ ~IsFirstArg THEN "err" ELSE Cur.nReturn
           f == [Cur EXCEPT !.at = "next", !.nReturn = r]
<1>1. Working("check") /\ UNCHANGED <<fs, fixed, top, fc>> BY DEF CheckSame, disk, rest
<1>2. Cur \in Workers /\ stack # <<>> /\ Cur.at = "check" BY <1>1, AtWork DEF SafeInv
<1>3. Put(f) BY Zenon DEF CheckSame
<1>4. r \in Returns BY <1>2 DEF Workers, Returns
<1> HIDE DEF r
<1>5. f \in Workers /\ f.at = "next" /\ f.src = Cur.src /\ f.name = Cur.name /\ f.tgt = Cur.tgt
  BY <1>2, <1>4 DEF Workers, WorkerPlaces
<1> HIDE DEF f
<1>6. cmd' = cmd /\ fc' = NULL /\ top' = top BY <1>1 DEF rest, fixed, Working
<1>7. f.name \in Arg.names BY <1>2, <1>5 DEF SafeInv, PlacesOK, FilePlaces
<1>8. PlacesOK' /\ SameOK' BY <1>1, <1>3, <1>5, <1>6, <1>7, PutSafe, SameName
<1> QED BY <1>1, <1>6, <1>8 DEF StepOK, DataStep, SameData

LEMMA AskSafe ==
  ASSUME SafeInv, Ask
  PROVE  StepOK
<1>1. Working("ask") /\ UNCHANGED <<fixed, fc>> /\ top' = top /\ fs' = fs BY DEF Ask, disk, rest
<1>2. Go("op") \/ Go("find") \/ Put([Cur EXCEPT !.at = "dirs", !.seen = {}, !.hdir = FALSE])
  BY Zenon DEF Ask
<1>3. CASE Go("op") \/ Go("find")
  <2>1. PICK q \in {"op", "find"} : Go(q) BY <1>3
  <2>2. q \in WorkerPlaces \ {"copied", "remove"} /\ "ask" \in FilePlaces BY DEF WorkerPlaces, FilePlaces
  <2>3. SameData(fs, fs') BY <1>1 DEF SameData
  <2> QED BY <1>1, <2>1, <2>2, <2>3, GoStep
<1>4. CASE Put([Cur EXCEPT !.at = "dirs", !.seen = {}, !.hdir = FALSE])
  BY <1>1, <1>4, SearchEnds
<1> QED BY <1>2, <1>3, <1>4

LEMMA FilesSafe ==
  ASSUME SafeInv, Files
  PROVE  StepOK
<1>1. CASE Enter
  <2>1. Working("entry") /\ Go("find") /\ UNCHANGED <<fixed, fc>> /\ top' = top /\ fs' = fs
    BY <1>1 DEF Enter, rest
  <2>2. SameData(fs, fs') BY <2>1 DEF SameData
  <2> QED BY <2>1, <2>2, GoStep DEF WorkerPlaces, FilePlaces
<1>2. CASE EnterFails \/ CheckRefuses
  <2>1. PICK p \in {"entry", "check"} : Working(p) /\ Return("err") /\ UNCHANGED <<fixed, fc>> /\ fs' = fs
    BY <1>2 DEF EnterFails, CheckRefuses, disk, rest
  <2>2. SameData(fs, fs') /\ "err" \in Returns BY <2>1 DEF SameData, Returns
  <2> QED BY <2>1, <2>2, ReturnStep
<1>3. CASE FindEnds
  <2>1. /\ Working("find") /\ Put([Cur EXCEPT !.at = "dirs", !.seen = {}, !.hdir = FALSE])
        /\ UNCHANGED <<fixed, fc>> /\ top' = top /\ fs' = fs
    BY <1>3 DEF FindEnds, disk, rest
  <2> QED BY <2>1, SearchEnds
<1>4. CASE CheckSkips \/ CheckOK
  <2>1. /\ Working("check") /\ UNCHANGED <<fixed, fc>> /\ top' = top /\ fs' = fs
    BY <1>4 DEF CheckSkips, CheckOK, disk, rest
  <2>2. PICK q \in {"find", "ask", "op"} : Go(q)
    BY <1>4, Zenon DEF CheckSkips, CheckOK
  <2>3. q \in WorkerPlaces \ {"copied", "remove"} /\ "check" \in FilePlaces BY DEF WorkerPlaces, FilePlaces
  <2>4. SameData(fs, fs') BY <2>1 DEF SameData
  <2> QED BY <2>1, <2>2, <2>3, <2>4, GoStep
<1>5. CASE Prepare
  <2>1. Working("op") /\ UNCHANGED <<fixed, fc>> /\ top' = top BY <1>5 DEF Prepare
  <2>2. PICK q \in {"next", "find", "copy", "rename"} : Go(q) BY <1>5, Zenon DEF Prepare
  <2>3. q \in WorkerPlaces \ {"copied", "remove"} /\ "op" \in FilePlaces BY DEF WorkerPlaces, FilePlaces
  <2>4. SameData(fs, fs') BY <1>5, PrepareDisk DEF SafeInv
  <2> QED BY <2>1, <2>2, <2>3, <2>4, GoStep
<1> QED BY <1>1, <1>2, <1>3, <1>4, <1>5, FindSafe, CheckSameSafe, AskSafe DEF Files

\* The name that Next_copy() makes up is one of a file that is copied.
LEMMA NextCopySafe ==
  ASSUME SafeInv, Next_copy
  PROVE  StepOK
<1>1. Working("next") /\ Go("find") /\ UNCHANGED <<fs, fixed, fc>> BY DEF Next_copy, disk, rest
<1>2. stack # <<>> /\ Cur.at = "next" /\ top \in Tops /\ cmd \in Commands /\ top.arg <= Len(cmd.args)
  BY <1>1, AtWork DEF SafeInv
<1>3. top' = IF top.tname = "*" /\ "APPEND" \in flags THEN [top EXCEPT !.tname = Target.name] ELSE top
  BY DEF Next_copy
<1>4. top.arg \in DOMAIN cmd.args
  <2>1. cmd.args \in Seq(ArgRecords) BY <1>2, CmdType
  <2>2. top.arg \in Nat \ {0} BY <1>2 DEF Tops
  <2> QED BY <1>2, <2>1, <2>2
<1>5. Cur.name \in Arg.names /\ Arg.names \subseteq Names
  <2>1. Cur.name \in Arg.names BY <1>2 DEF SafeInv, PlacesOK, FilePlaces
  <2> QED BY <1>2, <2>1, ArgType
<1>6. top'.arg = top.arg /\ NameOK(top'.tname)
  <2>1. CASE top.tname = "*" /\ "APPEND" \in flags
    <3>1. top' = [top EXCEPT !.tname = Target.name] BY <1>3, <2>1
    <3>2. top'.arg = top.arg /\ top'.tname = Target.name BY <1>2, <3>1 DEF Tops
    <3>3. Target.name = Cur.name BY <2>1 DEF Target, Path
    <3>4. cmd.name = "*" BY <2>1 DEF SafeInv, PlacesOK, NameOK
    <3>5. Cur.name \in GoalNames BY <1>4, <1>5, <3>4 DEF GoalNames, Arg
    <3>6. Cur.name # "*" BY <1>5, Constants
    <3> QED BY <3>2, <3>3, <3>5, <3>6 DEF NameOK
  <2>2. CASE ~(top.tname = "*" /\ "APPEND" \in flags)
    <3>1. top' = top BY <1>3, <2>2
    <3> QED BY <3>1, SameName
  <2> QED BY <2>1, <2>2
<1>7. cmd' = cmd /\ fc' = NULL BY <1>1 DEF rest, fixed, Working
<1>8. PlacesOK' /\ SameOK' BY <1>1, <1>6, <1>7, GoSafe DEF WorkerPlaces, FilePlaces
<1> QED BY <1>1, <1>7, <1>8 DEF StepOK, DataStep, SameData

\* MOVE: the file is renamed.
LEMMA RenameSafe ==
  ASSUME SafeInv, NEW p \in {"rename", "again"}, Working(p), ~Exists(Target), Target.dir \in dirs,
         fs' = [fs EXCEPT ![Target] = fs[Source], ![Source] = NULL],
         Put([Cur EXCEPT !.at = "moved", !.nReturn = "0"]), UNCHANGED <<fixed, top, fc>>
  PROVE  StepOK
<1> DEFINE f == [Cur EXCEPT !.at = "moved", !.nReturn = "0"]
<1>1. /\ stack # <<>> /\ fc = NULL /\ Cur \in Workers /\ Cur.at = p /\ top \in Tops /\ stack \in Seq(Workers)
      /\ WorkerOK(Cur)
  BY AtWork DEF SafeInv
<1>2. f \in Workers /\ f.at = "moved" /\ f.src = Cur.src /\ f.tgt = Cur.tgt /\ f.name = Cur.name
  BY <1>1 DEF Workers, WorkerPlaces, Returns
<1>3. Put(f) OBVIOUS
<1> HIDE DEF f
<1>4. cmd' = cmd /\ fc' = NULL /\ top' = top BY <1>1 DEF rest, fixed
<1>5. p \in FilePlaces BY DEF FilePlaces
<1>6. f.name \in Arg.names BY <1>1, <1>2, <1>5 DEF SafeInv, PlacesOK
<1>7. PlacesOK' /\ SameOK' BY <1>2, <1>3, <1>4, <1>6, PutSafe, SameName
<1>8. Source \in Paths BY <1>1 DEF SafeInv, IInv, FileOK, SourcePlaces, Exists
<1>9. Target \in Paths
  <2>1. Cur.name \in Names BY <1>1, <1>5 DEF WorkerOK
  <2>2. Cur.tgt \in Dirs
    <3>1. Target.dir \in Dirs BY DEF SafeInv, IInv, StateOK
    <3> QED BY <1>1, <3>1, TargetName
  <2> QED BY <1>1, <2>1, <2>2, TargetName
<1> QED BY <1>1, <1>4, <1>7, <1>8, <1>9 DEF StepOK, DataStep, Renames

LEMMA RenamesSafe ==
  ASSUME SafeInv, Rename \/ RenameFails \/ RenameAgain
  PROVE  StepOK
<1>1. CASE Rename
  BY <1>1, RenameSafe DEF Rename, rest
<1>2. PICK p \in {"rename", "again"} : Working(p) /\ UNCHANGED <<fixed, top, fc>>
  BY DEF Rename, RenameFails, RenameAgain, rest
<1>3. ASSUME NEW q \in {"clear", "copy"}, Go(q), fs' = fs
      PROVE  StepOK
  <2>1. SameData(fs, fs') /\ q \in WorkerPlaces \ {"copied", "remove"} /\ p \in FilePlaces
    BY <1>3 DEF SameData, WorkerPlaces, FilePlaces
  <2> QED BY <1>2, <1>3, <2>1, GoStep
<1>4. CASE RenameFails
  BY <1>3, <1>4 DEF RenameFails, disk
<1>5. CASE RenameAgain
  <2>1. Working("again") /\ UNCHANGED <<fixed, top, fc>> BY <1>5 DEF RenameAgain, rest
  <2>2. CASE Go("copy") /\ UNCHANGED fs BY <1>3, <2>2
  <2>3. CASE ~(Go("copy") /\ UNCHANGED fs)
    <3>1. /\ ~Exists(Target) /\ Target.dir \in dirs
          /\ fs' = [fs EXCEPT ![Target] = fs[Source], ![Source] = NULL]
          /\ Put([Cur EXCEPT !.at = "moved", !.nReturn = "0"])
      BY <1>5, <2>3, Zenon DEF RenameAgain
    <3> QED BY <2>1, <3>1, RenameSafe
  <2> QED BY <2>2, <2>3
<1> QED BY <1>1, <1>4, <1>5

LEMMA ClearTargetSafe ==
  ASSUME SafeInv, ClearTarget
  PROVE  StepOK
<1>1. Working("clear") /\ Go("again") /\ UNCHANGED <<fixed, top, fc>> BY DEF ClearTarget, rest
<1>2. stack # <<>> /\ Cur.at = "clear" /\ fs \in Disk BY <1>1, AtWork DEF SafeInv
<1>3. cmd' = cmd /\ fc' = NULL /\ top' = top BY <1>1 DEF rest, fixed, Working
<1>4. PlacesOK' /\ SameOK' BY <1>1, <1>3, GoSafe, SameName DEF WorkerPlaces, FilePlaces
<1>5. fs' = fs \/ fs' = [fs EXCEPT ![Target] = NULL] BY DEF ClearTarget
<1>6. Writes(Target) BY <1>2, <1>5 DEF Writes, Disk
<1> QED BY <1>2, <1>3, <1>4, <1>6 DEF StepOK, DataStep, SourcePlaces

\* The contents of both files stay as they are.
LEMMA StaysEqual ==
  ASSUME Equal, Source' = Source, Target' = Target, SameData(fs, fs')
  PROVE  Equal'
BY DEF Equal, Exists, SameData

LEMMA CopyMovedSafe ==
  ASSUME SafeInv, CopyMoved
  PROVE  StepOK
<1> DEFINE clear == IF Cur.attr \cap {"R", "H"} # {} THEN SetAttr(Source, {}) ELSE fs
<1>1. Working("copied") /\ Moving /\ Cur.nReturn = "0" /\ UNCHANGED <<fixed, top, fc>> BY DEF CopyMoved
<1>2. stack # <<>> /\ Cur \in Workers /\ Cur.at = "copied" /\ fs \in Disk /\ fc = NULL
  BY <1>1, AtWork DEF SafeInv
<1>3. Plain /\ ~Opt("W") BY <1>1 DEF SafeInv, KeptOK, MovesApart
<1>4. fs' \in {fs, clear} /\ (Go("remove") \/ Go("moved")) BY <1>3, Zenon DEF CopyMoved
<1>5. SameData(fs, fs')
  <2>1. SameData(fs, SetAttr(Source, {})) BY <1>2, SetAttrSame
  <2> QED BY <1>4, <2>1 DEF SameData
<1> HIDE DEF clear
<1>6. PICK q \in {"remove", "moved"} : Go(q) BY <1>4
<1> DEFINE f == [Cur EXCEPT !.at = q]
<1>7. Put(f) BY <1>6 DEF Go
<1>8. f \in Workers /\ f.at = q /\ f.src = Cur.src /\ f.tgt = Cur.tgt /\ f.name = Cur.name
  BY <1>2, Goes DEF WorkerPlaces
<1> HIDE DEF f
<1>9. f.name \in Arg.names BY <1>2, <1>8 DEF SafeInv, PlacesOK, FilePlaces
<1>10. cmd' = cmd /\ fc' = NULL /\ top' = top BY <1>1, <1>2 DEF rest, fixed
<1>11. PlacesOK' /\ Cur' = f BY <1>1, <1>7, <1>8, <1>9, <1>10, PutSafe, SameName
<1>12. Source' = Source /\ Target' = Target BY <1>8, <1>10, <1>11, SameFile
<1>13. Equal BY <1>1, <1>2, <1>3 DEF SafeInv, SameOK
<1>14. Equal' BY <1>4, <1>5, <1>12, <1>13, StaysEqual
<1>15. SameOK' BY <1>10, <1>14 DEF SameOK
<1> QED BY <1>4, <1>5, <1>10, <1>11, <1>15 DEF StepOK, DataStep

LEMMA RemoveSourceSafe ==
  ASSUME SafeInv, RemoveSource
  PROVE  StepOK
<1>1. Working("remove") /\ Go("moved") /\ UNCHANGED <<fixed, top, fc>> BY DEF RemoveSource, rest
<1>2. stack # <<>> /\ Cur.at = "remove" /\ fs \in Disk /\ fc = NULL BY <1>1, AtWork DEF SafeInv
<1>3. cmd' = cmd /\ fc' = NULL /\ top' = top BY <1>1, <1>2 DEF rest, fixed
<1>4. PlacesOK' /\ SameOK' BY <1>1, <1>3, GoSafe, SameName DEF WorkerPlaces, FilePlaces
<1>5. fs' = fs \/ fs' = [fs EXCEPT ![Source] = NULL] BY DEF RemoveSource
<1>6. SameData(fs, fs') \/ Removes(Source)
  <2>1. CASE Source \in Paths BY <1>5, <2>1 DEF SameData, Removes
  <2>2. CASE Source \notin Paths BY <1>2, <1>5, <2>2 DEF SameData, Disk
  <2> QED BY <2>1, <2>2
<1> QED BY <1>2, <1>3, <1>4, <1>6 DEF StepOK, DataStep

\* Steps that set the attributes of a file, or none, and count the file.
LEMMA AfterFileSafe ==
  ASSUME SafeInv, AfterFile
  PROVE  StepOK
<1>1. CASE CopyAborted
  <2>1. /\ Working("copied") /\ Return("CTRLC") /\ UNCHANGED <<fixed, fc>>
        /\ AttrSet(Source, Cur.attr) \/ NoAttr
    BY <1>1 DEF CopyAborted
  <2>2. Cur \in Workers /\ fs \in Disk BY <2>1, AtWork DEF SafeInv
  <2>3. Cur.attr \subseteq Attributes BY <2>2 DEF Workers
  <2>5. SameData(fs, fs') /\ "CTRLC" \in Returns BY <2>1, <2>2, <2>3, AttrStep DEF Returns
  <2> QED BY <2>1, <2>5, ReturnStep
<1>2. CASE Copied \/ CopyFailed \/ Moved
  <2>1. PICK p \in {"copied", "moved"}, q \in {"next", "find"} : Working(p) /\ Go(q)
    BY <1>2, Zenon DEF Copied, CopyFailed, Moved
  <2>2. Cur \in Workers /\ fs \in Disk /\ top \in Tops BY <2>1, AtWork DEF SafeInv
  <2>3. Cur.attr \subseteq Attributes /\ Cur.attr \ {"A"} \subseteq Attributes BY <2>2 DEF Workers
  <2>4. PICK x \in {Source, Target}, b \in SUBSET Attributes : AttrSet(x, b) \/ NoAttr
    <3>1. \/ NoAttr \/ AttrSet(Source, Cur.attr) \/ AttrSet(Source, Cur.attr \ {"A"})
          \/ AttrSet(Target, Cur.attr)
      BY <1>2 DEF Copied, CopyFailed, Moved
    <3> QED BY <2>3, <3>1
  <2>5. SameData(fs, fs') BY <2>2, <2>4, AttrStep
  <2>6. cmd' = cmd /\ fc' = NULL BY <1>2, <2>1 DEF Copied, CopyFailed, Moved, rest, fixed, Working
  <2>7. top' = top \/ top' = [top EXCEPT !.files = @ + 1] BY <1>2 DEF Copied, CopyFailed, Moved
  <2>8. top'.arg = top.arg /\ top'.tname = top.tname BY <2>2, <2>7 DEF Tops
  <2>9. NameOK(top'.tname) BY <2>8 DEF SafeInv, PlacesOK
  <2>10. p \in FilePlaces /\ q \in WorkerPlaces \ {"copied", "remove"} BY DEF FilePlaces, WorkerPlaces
  <2>11. PlacesOK' /\ SameOK' BY <2>1, <2>6, <2>8, <2>9, <2>10, GoSafe
  <2> QED BY <2>5, <2>6, <2>11 DEF StepOK, DataStep
<1> QED BY <1>1, <1>2, NextCopySafe, RenamesSafe, ClearTargetSafe, CopyMovedSafe, RemoveSourceSafe DEF AfterFile

-----------------------------------------------------------------------------
(***************************************************************************)
(* FileCopy().                                                             *)
(***************************************************************************)
\* The workers stay where they are.
LEMMA CopySafe ==
  ASSUME SafeInv, stack # <<>>, Cur.at = "copy", UNCHANGED <<cmd, top, stack>>, DataStep,
         Moving /\ Plain /\ fc' # NULL /\ fc'.at \in {"bye", "attr", "exit"} /\ fc'.nReturn = "0" => Equal'
  PROVE  StepOK
<1>1. Cur' = Cur BY DEF Cur
<1>2. PlacesOK'
  <2>1. NameOK(top'.tname) BY DEF SafeInv, PlacesOK
  <2>2. Cur'.at \in FilePlaces => Cur'.name \in Arg.names BY <1>1 DEF SafeInv, PlacesOK
  <2> QED BY <2>1, <2>2, PlacesKept DEF SafeInv
<1>3. (Moving' <=> Moving) /\ (Plain' <=> Plain) BY DEF Moving, Plain, Binary
<1>4. SameOK' BY <1>1, <1>3 DEF SameOK
<1> QED BY <1>2, <1>4 DEF StepOK

\* Steps that change no file; only when the source has been closed can there be
\* a copy without an error.
LEMMA FCEarlySafe ==
  ASSUME SafeInv, CallFileCopy \/ FCRefuses \/ FCStarts \/ FCIn \/ FCFails \/ FCOpens \/ FCSeeks \/ FCReads
  PROVE  StepOK
<1>1. UNCHANGED <<fs, cmd, top, stack>>
  BY DEF CallFileCopy, FCRefuses, FCStarts, FCIn, FCFails, FCOpens, FCSeeks, FCReads, FCStep, rest, fixed, disk
<1>2. stack # <<>> /\ Cur.at = "copy" /\ (fc # NULL => fc \in Copies)
  <2>1. fc # NULL \/ Working("copy")
    BY DEF CallFileCopy, FCRefuses, FCStarts, FCIn, FCFails, FCOpens, FCSeeks, FCReads, InFC
  <2> QED BY <2>1, InCopy DEF SafeInv, Working
<1>3. fc'.at \in {"start", "in", "out", "seek", "read", "write"} \/ fc'.nReturn = "err"
  <2>1. CASE CallFileCopy BY <2>1 DEF CallFileCopy
  <2>2. CASE ~CallFileCopy
    <3>1. fc \in Copies
      BY <1>2, <2>2 DEF FCRefuses, FCStarts, FCIn, FCFails, FCOpens, FCSeeks, FCReads, InFC
    <3>2. CASE FCRefuses \/ FCFails BY <3>1, <3>2 DEF FCRefuses, FCFails, Bye, Copies
    <3>3. CASE FCStarts \/ FCIn \/ FCOpens BY <3>1, <3>3 DEF FCStarts, FCIn, FCOpens, Copies
    <3>4. CASE FCSeeks BY <3>1, <3>4 DEF FCSeeks, Copies
    <3>5. CASE FCReads
      <4>1. PICK x, y, z, o : fc' = [fc EXCEPT !.at = "write", !.chunk = x, !.read = y, !.fEoF = z, !.offset = o]
        BY <3>5, Zenon DEF FCReads
      <4> QED BY <3>1, <4>1 DEF Copies
    <3> QED BY <2>2, <3>2, <3>3, <3>4, <3>5
  <2> QED BY <2>1, <2>2
<1>4. DataStep BY <1>1 DEF DataStep, SameData
<1> QED BY <1>1, <1>2, <1>3, <1>4, CopySafe

\* Steps that write the target, or delete it.
LEMMA FCWritesSafe ==
  ASSUME SafeInv, FCCreates \/ FCWrites \/ FCRemoves
  PROVE  StepOK
<1>1. fc # NULL BY DEF FCCreates, FCWrites, FCRemoves, InFC
<1>2. stack # <<>> /\ Cur.at = "copy" /\ fc \in Copies /\ fs \in Disk BY <1>1, InCopy, AtCopy DEF SafeInv
<1>3. UNCHANGED <<cmd, top, stack>> BY DEF FCCreates, FCWrites, FCRemoves, FCStep, rest, fixed
<1>4. Writes(Target)
  <2>1. CASE FCCreates \/ FCRemoves
    <3>1. PICK x : fs' = [fs EXCEPT ![Target] = x] BY <2>1 DEF FCCreates, FCRemoves
    <3> QED BY <1>2, <3>1 DEF Writes, Disk
  <2>2. CASE FCWrites
    <3>1. PICK x : fs' = [fs EXCEPT ![Target].data = x] BY <2>2, Zenon DEF FCWrites
    <3> QED BY <1>2, <3>1 DEF Writes, Disk
  <2> QED BY <2>1, <2>2
<1>5. fc'.at \in {"read", "time"} \/ fc'.nReturn # "0"
  <2>1. CASE FCCreates BY <1>2, <2>1 DEF FCCreates, Copies
  <2>2. CASE FCRemoves BY <1>2, <2>2 DEF FCRemoves, Copies
  <2>3. CASE FCWrites
    <3>1. PICK p \in {"time", "read"} : Bye("CTRLC") \/ \E n : fc' = [fc EXCEPT !.at = p, !.pos = n]
      BY <2>3, Zenon DEF FCWrites
    <3>2. PICK n : Bye("CTRLC") \/ fc' = [fc EXCEPT !.at = p, !.pos = n] BY <3>1, Zenon
    <3> QED BY <1>2, <3>2 DEF Copies, Bye
  <2> QED BY <2>1, <2>2, <2>3
<1>6. DataStep BY <1>2, <1>4 DEF DataStep, SourcePlaces
<1> QED BY <1>2, <1>3, <1>5, <1>6, CopySafe

\* The target is complete when it gets the time of the source, and stays so.
LEMMA FCEndsSafe ==
  ASSUME SafeInv, FCTime \/ FCCloses \/ FCSetsMode
  PROVE  StepOK
<1>1. fc # NULL BY DEF FCTime, FCCloses, FCSetsMode, InFC
<1>2. stack # <<>> /\ Cur.at = "copy" /\ fc \in Copies /\ fs \in Disk BY <1>1, InCopy, AtCopy DEF SafeInv
<1>3. UNCHANGED <<cmd, top, stack>> BY DEF FCTime, FCCloses, FCSetsMode, FCStep, rest, fixed
<1>4. SameData(fs, fs')
  <2>1. CASE FCCloses BY <2>1 DEF FCCloses, SameData
  <2> QED BY <2>1, TimeDisk, ModeDisk DEF SafeInv
<1>5. Source' = Source /\ Target' = Target BY <1>3, SameFile DEF Cur
<1>6. Moving /\ Plain /\ fc'.nReturn = "0" => Equal
  <2>1. SUFFICES ASSUME Moving, Plain, fc'.nReturn = "0" PROVE Equal
    OBVIOUS
  <2>2. CASE FCTime
    <3>1. fc.at = "time" BY <2>2 DEF FCTime, InFC
    <3>2. fs[Target].data = fs[Source].data BY <1>1, <2>1, <3>1 DEF SafeInv, IInv, PartOK
    <3>3. Exists(Target) BY <1>1, <3>1 DEF SafeInv, IInv, CopyOK
    <3>4. Exists(Source) BY <1>2, AtCopy DEF SafeInv
    <3> QED BY <3>2, <3>3, <3>4 DEF Equal
  <2>3. CASE FCCloses \/ FCSetsMode
    <3>1. fc.at \in {"bye", "attr"} BY <2>3 DEF FCCloses, FCSetsMode, InFC
    <3>2. PICK p, b : fc' = [fc EXCEPT !.at = p] \/ fc' = [fc EXCEPT !.at = p, !.in = b]
      BY <2>3, Zenon DEF FCCloses, FCSetsMode
    <3>3. fc'.nReturn = fc.nReturn BY <1>2, <3>2 DEF Copies
    <3> QED BY <1>1, <2>1, <3>1, <3>3 DEF SafeInv, SameOK
  <2> QED BY <2>2, <2>3
<1>7. Moving /\ Plain /\ fc'.nReturn = "0" => Equal' BY <1>4, <1>5, <1>6, StaysEqual
<1>8. DataStep BY <1>4 DEF DataStep
<1> QED BY <1>2, <1>3, <1>7, <1>8, CopySafe

LEMMA FCExitSafe ==
  ASSUME SafeInv, FCExit
  PROVE  StepOK
<1> DEFINE f == [Cur EXCEPT !.at = "copied", !.nReturn = fc.nReturn]
<1>1. fc # NULL /\ fc.at = "exit" /\ fc' = NULL /\ Put(f) BY DEF FCExit, InFC
<1>2. stack # <<>> /\ Cur.at = "copy" /\ fc \in Copies BY <1>1, InCopy DEF SafeInv
<1>3. stack \in Seq(Workers) /\ Cur \in Workers /\ top \in Tops BY <1>2, AtCopy DEF SafeInv
<1>4. UNCHANGED <<fs, cmd>> BY DEF FCExit, disk, rest, fixed
<1>5. top'.arg = top.arg /\ top'.tname = top.tname
  <2>1. top' = top \/ top' = [top EXCEPT !.offset = fc.offset] BY Zenon DEF FCExit
  <2> QED BY <1>3, <2>1 DEF Tops
<1>6. fc.nReturn \in Returns BY <1>2 DEF Copies
<1>7. /\ f \in Workers /\ f.at = "copied" /\ f.src = Cur.src /\ f.tgt = Cur.tgt /\ f.name = Cur.name
      /\ f.nReturn = fc.nReturn
  BY <1>3, <1>6 DEF Workers, WorkerPlaces
<1> HIDE DEF f
<1>8. /\ stack' # <<>> /\ DOMAIN stack' = DOMAIN stack /\ stack'[Len(stack')] = f /\ stack'[Len(stack)] = f
      /\ \A i \in DOMAIN stack : i # Len(stack) => stack'[i] = stack[i]
  BY <1>1, <1>2, <1>3, <1>7, LastPut DEF Put
<1>9. Cur' = f BY <1>8 DEF Cur
<1>10. PlacesOK'
  <2>1. \A k \in DOMAIN stack' :
          k \in DOMAIN stack /\ stack'[k].src = stack[k].src /\ stack'[k].tgt = stack[k].tgt
    BY <1>7, <1>8 DEF Cur
  <2>2. Cur'.name \in Arg.names BY <1>2, <1>7, <1>9 DEF SafeInv, PlacesOK, FilePlaces
  <2>3. NameOK(top'.tname) BY <1>5 DEF SafeInv, PlacesOK
  <2> QED BY <1>4, <1>5, <2>1, <2>2, <2>3, PlacesKept DEF SafeInv
<1>11. SameOK'
  <2>1. Source' = Source /\ Target' = Target BY <1>5, <1>7, <1>9, SameFile
  <2>2. Equal' <=> Equal BY <1>4, <2>1 DEF Equal, Exists
  <2>3. (Moving' <=> Moving) /\ (Plain' <=> Plain) BY <1>4 DEF Moving, Plain, Binary
  <2>4. Moving /\ Plain /\ fc.nReturn = "0" => Equal BY <1>1 DEF SafeInv, SameOK
  <2> QED BY <1>1, <1>7, <1>9, <2>2, <2>3, <2>4 DEF SameOK
<1> QED BY <1>4, <1>10, <1>11 DEF StepOK, DataStep, SameData

LEMMA FileCopySafe ==
  ASSUME SafeInv, FileCopy
  PROVE  StepOK
BY FCEarlySafe, FCWritesSafe, FCEndsSafe, FCExitSafe DEF FileCopy

-----------------------------------------------------------------------------
(***************************************************************************)
(* The loop over the subdirectories.                                       *)
(***************************************************************************)
\* To append to the second part is to append to the whole.
LEMMA AppendBehind ==
  ASSUME NEW S, NEW b \in Seq(S), NEW x \in Seq(S), NEW e \in S,
         NEW z, z = b \o x, NEW y, y = Append(x, e), NEW w, w = Append(z, e)
  PROVE  w = b \o y
<1>1. PICK m \in Nat, n \in Nat : m = Len(b) /\ n = Len(x) OBVIOUS
<1>2. /\ b \o x \in Seq(S) /\ Len(b \o x) = m + n
      /\ \A i \in 1 .. m + n : (b \o x)[i] = IF i <= m THEN b[i] ELSE x[i - m]
  BY <1>1, ConcatProperties
<1>3. y = Append(x, e) OBVIOUS
<1>4. y \in Seq(S) /\ Len(y) = n + 1 /\ y[n + 1] = e BY <1>1, <1>3
<1>5. \A i \in 1 .. n : y[i] = x[i] BY <1>1, <1>3
<1>6. /\ b \o y \in Seq(S) /\ Len(b \o y) = m + n + 1
      /\ \A i \in 1 .. m + n + 1 : (b \o y)[i] = IF i <= m THEN b[i] ELSE y[i - m]
  <2>1. PICK l : l = Len(y) OBVIOUS
  <2>2. /\ b \o y \in Seq(S) /\ Len(b \o y) = m + l
        /\ \A i \in 1 .. m + l : (b \o y)[i] = IF i <= m THEN b[i] ELSE y[i - m]
    BY <1>1, <1>4, <2>1, ConcatProperties
  <2>3. m + l = m + n + 1 BY <1>1, <1>4, <2>1
  <2> QED BY <2>2, <2>3
<1>7. z \in Seq(S) /\ z = b \o x BY <1>2
<1>8. w = Append(z, e) OBVIOUS
<1>9. w \in Seq(S) /\ Len(w) = m + n + 1 /\ w[m + n + 1] = e BY <1>2, <1>7, <1>8
<1>10. \A i \in 1 .. m + n : w[i] = z[i] BY <1>2, <1>7, <1>8
<1>11. \A i \in 1 .. m + n + 1 : w[i] = (b \o y)[i]
  <2> TAKE i \in 1 .. m + n + 1
  <2>1. i \in Nat /\ 1 <= i /\ i <= m + n + 1 BY <1>1
  <2>2. (b \o y)[i] = IF i <= m THEN b[i] ELSE y[i - m] BY <1>6
  <2>3. CASE i = m + n + 1
    <3>1. i - m = n + 1 /\ ~(i <= m) BY <2>1, <2>3
    <3> QED BY <1>4, <1>9, <2>2, <2>3, <3>1
  <2>4. CASE i <= m
    <3>1. i \in 1 .. m + n BY <2>1, <2>4
    <3> QED BY <1>2, <1>7, <1>10, <2>2, <2>4, <3>1
  <2>5. CASE m < i /\ i < m + n + 1
    <3>1. i \in 1 .. m + n /\ i - m \in 1 .. n /\ ~(i <= m) BY <2>1, <2>5
    <3>2. w[i] = x[i - m] BY <1>2, <1>7, <1>10, <3>1
    <3>3. y[i - m] = x[i - m] BY <1>5, <3>1
    <3> QED BY <2>2, <3>1, <3>2, <3>3
  <2>6. i = m + n + 1 \/ i <= m \/ (m < i /\ i < m + n + 1) BY <2>1
  <2> QED BY <2>3, <2>4, <2>5, <2>6, Zenon
<1>12. w = b \o y BY <1>6, <1>9, <1>11, SeqEqual
<1> QED BY <1>12

\* What a worker goes on with below its target is what it goes on with itself.
LEMMA OneMore ==
  ASSUME NEW S, NEW b \in Seq(S), NEW s \in Seq(S), NEW d \in Seq(S), NEW k \in Nat, k <= Len(s),
         Len(d) = Len(s) + 1, \A j \in 1 .. Len(s) : d[j] = s[j]
  PROVE  Append(b \o SubSeq(s, k + 1, Len(s)), d[Len(d)]) = b \o SubSeq(d, k + 1, Len(d))
<1>1. PICK n \in Nat : n = Len(s) OBVIOUS
<1>2. Len(d) = n + 1 /\ DOMAIN d = 1 .. n + 1 /\ DOMAIN s = 1 .. n BY <1>1
<1> DEFINE x == SubSeq(s, k + 1, n)
           y == SubSeq(d, k + 1, n + 1)
<1>3. x \in Seq(S) /\ Len(x) = n - k /\ \A j \in 1 .. n - k : x[j] = s[k + j]
  <2>1. \A j \in k + 1 .. n : s[j] \in S BY <1>1, <1>2
  <2>2. /\ x \in Seq(S) /\ Len(x) = IF k + 1 <= n THEN n - (k + 1) + 1 ELSE 0
        /\ \A j \in 1 .. n - (k + 1) + 1 : x[j] = s[k + 1 + j - 1]
    BY <1>1, <2>1, SubSeqProperties
  <2> HIDE DEF x
  <2> QED BY <1>1, <2>2
<1>4. y \in Seq(S) /\ Len(y) = n + 1 - k /\ \A j \in 1 .. n + 1 - k : y[j] = d[k + j]
  <2>1. \A j \in k + 1 .. n + 1 : d[j] \in S BY <1>1, <1>2
  <2>2. /\ y \in Seq(S) /\ Len(y) = IF k + 1 <= n + 1 THEN n + 1 - (k + 1) + 1 ELSE 0
        /\ \A j \in 1 .. n + 1 - (k + 1) + 1 : y[j] = d[k + 1 + j - 1]
    BY <1>1, <1>2, <2>1, SubSeqProperties
  <2> HIDE DEF y
  <2> QED BY <1>1, <2>2
<1> HIDE DEF x, y
<1>5. PICK e \in S : e = d[n + 1] BY <1>2
<1>6. y = Append(x, e)
  <2>1. Append(x, e) \in Seq(S) /\ Len(Append(x, e)) = n + 1 - k BY <1>1, <1>3
  <2>2. \A j \in 1 .. n + 1 - k : Append(x, e)[j] = y[j]
    <3> TAKE j \in 1 .. n + 1 - k
    <3>1. CASE j = n + 1 - k
      <4>1. Append(x, e)[j] = e
        <5>1. Append(x, e)[Len(x) + 1] = e BY <1>3
        <5>2. j = Len(x) + 1 BY <1>1, <1>3, <3>1
        <5> QED BY <5>1, <5>2
      <4>2. k + j = n + 1 BY <1>1, <3>1
      <4> QED BY <1>4, <1>5, <4>1, <4>2
    <3>2. CASE j # n + 1 - k
      <4>1. j \in 1 .. n - k /\ k + j \in 1 .. n BY <1>1, <3>2
      <4>2. Append(x, e)[j] = s[k + j] BY <1>3, <4>1
      <4> QED BY <1>1, <1>4, <4>1, <4>2
    <3> QED BY <3>1, <3>2
  <2> QED BY <1>4, <2>1, <2>2, SeqEqual
<1>7. PICK z : z = b \o x OBVIOUS
<1>8. PICK w : w = Append(z, e) OBVIOUS
<1>9. w = b \o y BY <1>3, <1>6, <1>7, <1>8, AppendBehind
<1> QED BY <1>1, <1>2, <1>5, <1>7, <1>8, <1>9 DEF x, y

\* A directory below one below another.
LEMMA BelowBelow ==
  ASSUME NEW a \in Dirs, NEW s \in Below(a), NEW d \in Below(s)
  PROVE  d \in Below(a) /\ Len(a) <= Len(s) /\ \A j \in 1 .. Len(s) : d[j] = s[j]
<1>1. a \in Seq(STRING) /\ s \in Seq(STRING) /\ d \in Seq(STRING) BY Constants DEF Below
<1>2. Len(s) >= Len(a) /\ SubSeq(s, 1, Len(a)) = a /\ Len(d) >= Len(s) /\ SubSeq(d, 1, Len(s)) = s
  BY DEF Below
<1>3. \A j \in 1 .. Len(s) : d[j] = s[j] BY <1>1, <1>2
<1>4. \A j \in 1 .. Len(a) : s[j] = a[j] BY <1>1, <1>2
<1>5. \A j \in 1 .. Len(a) : d[j] = a[j] BY <1>1, <1>2, <1>3, <1>4
<1>6. SubSeq(d, 1, Len(a)) = a
  <2>1. Len(a) \in Nat /\ Len(d) >= Len(a) BY <1>1, <1>2
  <2>2. /\ SubSeq(d, 1, Len(a)) \in Seq(STRING) /\ Len(SubSeq(d, 1, Len(a))) = Len(a)
        /\ \A j \in 1 .. Len(a) : SubSeq(d, 1, Len(a))[j] = d[j]
    BY <1>1, <2>1
  <2> QED BY <1>1, <1>5, <2>2, SeqEqual
<1> QED BY <1>1, <1>2, <1>3, <1>6 DEF Below

\* The last worker is in a directory of the argument.
LEMMA CurFollows ==
  ASSUME SafeInv, stack # <<>>
  PROVE  /\ top.arg \in DOMAIN cmd.args /\ Arg.dir \in Dirs /\ Arg.names \subseteq Names
         /\ Cur.src \in Region(top.arg) /\ Cur.tgt = GoalDir(top.arg, Cur.src)
<1>1. stack \in Seq(Workers) /\ top \in Tops /\ cmd \in Commands /\ top.arg <= Len(cmd.args)
  BY DEF SafeInv, IInv, StateOK, ShapeOK
<1>2. Len(stack) \in DOMAIN stack BY <1>1, CurType
<1>3. Follows(Cur, top.arg) BY <1>2 DEF SafeInv, PlacesOK, Cur
<1>4. top.arg \in DOMAIN cmd.args
  <2>1. cmd.args \in Seq(ArgRecords) BY <1>1, CmdType
  <2>2. top.arg \in Nat \ {0} BY <1>1 DEF Tops
  <2> QED BY <1>1, <2>1, <2>2
<1> QED BY <1>1, <1>3, <1>4, ArgType DEF Follows

LEMMA DescendSafe ==
  ASSUME SafeInv, Descend
  PROVE  StepOK
<1>1. /\ stack # <<>> /\ fc = NULL /\ stack \in Seq(Workers) /\ Cur \in Workers /\ Cur.at = "dirs"
      /\ cmd \in Commands
  BY AtWork DEF Descend, SafeInv
<1> DEFINE c(d) == [Cur EXCEPT !.seen = @ \cup {d}, !.hdir = TRUE]
           g(d) == NewFrame(d, Append(Cur.tgt, d[Len(d)]))
<1>2. PICK d \in LeftDirs : stack' = Append([stack EXCEPT ![Len(stack)] = c(d)], g(d))
  BY Zenon DEF Descend
<1>3. UNCHANGED <<fs, cmd, top, fc>> BY DEF Descend, disk, rest, fixed
<1>4. Opt("S") /\ d \in Below(Cur.src) /\ d \in Dirs /\ Len(d) = Len(Cur.src) + 1
  BY <1>2 DEF LeftDirs, SubDirs, Below
<1>5. PICK a : a = top.arg OBVIOUS
<1>6. Arg.dir \in Dirs /\ Cur.src \in Below(Arg.dir) /\ Cur.tgt = GoalDir(a, Cur.src)
  BY <1>1, <1>4, <1>5, CurFollows DEF Region, Arg
<1>7. d \in Below(Arg.dir) /\ Len(Arg.dir) <= Len(Cur.src) /\ \A j \in 1 .. Len(Cur.src) : d[j] = Cur.src[j]
  BY <1>4, <1>6, BelowBelow
<1>8. Append(Cur.tgt, d[Len(d)]) = GoalDir(a, d)
  <2>1. cmd.dir \in Seq(STRING) /\ Cur.src \in Seq(STRING) /\ d \in Seq(STRING) /\ Arg.dir \in Seq(STRING)
    BY <1>1, <1>4, <1>6, CmdType, Constants DEF Below
  <2>2. Len(Arg.dir) \in Nat BY <2>1
  <2>3. Append(cmd.dir \o SubSeq(Cur.src, Len(Arg.dir) + 1, Len(Cur.src)), d[Len(d)])
          = cmd.dir \o SubSeq(d, Len(Arg.dir) + 1, Len(d))
    BY <1>4, <1>7, <2>1, <2>2, OneMore
  <2>4. Cur.tgt = cmd.dir \o SubSeq(Cur.src, Len(Arg.dir) + 1, Len(Cur.src)) BY <1>5, <1>6 DEF GoalDir, Arg
  <2>5. GoalDir(a, d) = cmd.dir \o SubSeq(d, Len(Arg.dir) + 1, Len(d)) BY <1>5 DEF GoalDir, Arg
  <2> QED BY <2>3, <2>4, <2>5, Zenon
<1> DEFINE f == c(d)
           n == g(d)
           m == [stack EXCEPT ![Len(stack)] = f]
<1>9. f.src = Cur.src /\ f.tgt = Cur.tgt BY <1>1 DEF Workers
<1>10. n.src = d /\ n.tgt = GoalDir(a, d) /\ n.at = "entry" BY <1>8 DEF NewFrame
<1>11. Follows(n, a)
  BY <1>4, <1>5, <1>7, <1>10 DEF Follows, Region, Arg
<1>12. stack' = Append(m, n) BY <1>2
<1> HIDE DEF f, n
<1>13. /\ DOMAIN stack = 1 .. Len(stack) /\ Len(stack) \in Nat \ {0} /\ Len(m) = Len(stack)
       /\ DOMAIN stack' = 1 .. Len(stack) + 1 /\ Len(stack') = Len(stack) + 1
       /\ stack'[Len(stack) + 1] = n /\ \A i \in DOMAIN stack : stack'[i] = m[i]
  BY <1>1, <1>12
<1>14. \A i \in DOMAIN stack : m[i].src = stack[i].src /\ m[i].tgt = stack[i].tgt
  BY <1>1, <1>9, <1>13 DEF Cur
<1> HIDE DEF m
<1>15. ASSUME NEW h, NEW i, Follows(h, i)
       PROVE  Follows(h, i)'
  BY <1>3, <1>15 DEF Follows, Region, GoalDir, Opt, Below
<1>16. \A k \in DOMAIN stack' : Follows(stack[k], a) \/ k = Len(stack) + 1
  BY <1>5, <1>13 DEF SafeInv, PlacesOK
<1>17. ASSUME NEW k \in DOMAIN stack'
       PROVE  Follows(stack[k], top.arg)'
  <2>1. PICK h : h = stack'[k] OBVIOUS
  <2>2. Follows(h, a)
    <3>1. CASE k = Len(stack) + 1 BY <1>11, <1>13, <2>1, <3>1
    <3>2. CASE k # Len(stack) + 1
      <4>1. k \in DOMAIN stack BY <1>13, <3>2
      <4> QED BY <1>13, <1>14, <1>16, <2>1, <3>2, <4>1 DEF Follows
    <3> QED BY <3>1, <3>2
  <2>3. Follows(h, a)' BY <1>15, <2>2
  <2> QED BY <1>3, <1>5, <2>1, <2>3 DEF Follows, Region, GoalDir, Opt, Below
<1>18. Cur'.at = "entry" BY <1>10, <1>13 DEF Cur
<1>19. NameOK(top.tname)' BY <1>3 DEF SafeInv, PlacesOK, NameOK, GoalNames
<1>20. PlacesOK' BY <1>17, <1>18, <1>19 DEF PlacesOK, FilePlaces
<1>21. SameOK' BY <1>1, <1>3, <1>18 DEF SameOK
<1> QED BY <1>3, <1>20, <1>21 DEF StepOK, DataStep, SameData

LEMMA TreeSafe ==
  ASSUME SafeInv, Tree
  PROVE  StepOK
<1>1. CASE Descend BY <1>1, DescendSafe
<1>2. CASE Ascend \/ DirsDone \/ RemoveDir
  <2>1. PICK p \in {"subbed", "dirs", "rmdir"} : Working(p) BY <1>2 DEF Ascend, DirsDone, RemoveDir
  <2>2. UNCHANGED <<fixed, fc>> /\ fs' = fs BY <1>2 DEF Ascend, DirsDone, RemoveDir, disk, rest
  <2>3. Cur \in Workers BY <2>1, AtWork DEF SafeInv
  <2>4. SameData(fs, fs') BY <2>2 DEF SameData
  <2>5. \/ Return("CTRLC") \/ Return(Cur.nReturn)
        \/ UNCHANGED top /\ (Put([Cur EXCEPT !.at = "rmdir", !.hdir = FALSE]) \/ Go("dirs"))
    BY <1>2, Zenon DEF Ascend, DirsDone, RemoveDir
  <2>6. CASE Return("CTRLC") \/ Return(Cur.nReturn)
    <3>1. PICK r \in Returns : Return(r)
      <4>1. Cur.nReturn \in Returns /\ "CTRLC" \in Returns BY <2>3 DEF Workers, Returns
      <4> QED BY <2>6, <4>1
    <3> QED BY <2>1, <2>2, <2>4, <3>1, ReturnStep
  <2>7. CASE UNCHANGED top /\ Put([Cur EXCEPT !.at = "rmdir", !.hdir = FALSE])
    <3> DEFINE f == [Cur EXCEPT !.at = "rmdir", !.hdir = FALSE]
    <3>1. f \in Workers /\ f.src = Cur.src /\ f.tgt = Cur.tgt /\ f.at = "rmdir"
      BY <2>3 DEF Workers, WorkerPlaces
    <3>2. Put(f) BY <2>7
    <3> HIDE DEF f
    <3> QED BY <2>1, <2>2, <2>7, <3>1, <3>2, LeaveStep
  <2>8. CASE UNCHANGED top /\ Go("dirs")
    BY <2>1, <2>2, <2>4, <2>8, GoStep DEF WorkerPlaces, FilePlaces
  <2> QED BY <2>5, <2>6, <2>7, <2>8
<1> QED BY <1>1, <1>2 DEF Tree

-----------------------------------------------------------------------------
(***************************************************************************)
(* The command, and ^C.                                                    *)
(***************************************************************************)
\* There are no workers afterwards.
LEMMA NoWorkers ==
  ASSUME SafeInv, stack' = <<>>, fc' = NULL, cmd' = cmd, top'.tname = top.tname, SameData(fs, fs')
  PROVE  StepOK
<1>1. DOMAIN stack' = {} OBVIOUS
<1>2. NameOK(top'.tname) BY DEF SafeInv, PlacesOK
<1>3. PlacesOK' BY <1>1, <1>2, PlacesKept DEF SafeInv
<1>4. SameOK' BY DEF SameOK
<1> QED BY <1>3, <1>4 DEF StepOK, DataStep

LEMMA StartArgSafe ==
  ASSUME SafeInv, StartArg
  PROVE  StepOK
<1>1. top.at = "args" /\ top.arg <= Len(cmd.args) BY DEF StartArg, MoreArgs, AtTop
<1>2. top \in Tops /\ cmd \in Commands /\ stack = <<>> /\ fc = NULL BY <1>1, AtCommand DEF SafeInv
<1>0. PICK n : n = NewFrame(Arg.dir, cmd.dir) OBVIOUS
<1>3. top' = [top EXCEPT !.at = "work"] /\ stack' = <<n>> /\ UNCHANGED <<fs, cmd, fc>>
  BY <1>0 DEF StartArg, disk, rest, fixed
<1>4. top'.arg = top.arg /\ top'.tname = top.tname BY <1>2, <1>3 DEF Tops
<1>5. PICK a : a = top.arg OBVIOUS
<1>6. Arg.dir \in Dirs /\ Arg.dir \in Seq(STRING) /\ cmd.dir \in Seq(STRING)
  BY <1>1, <1>2, ArgType, CmdType, Constants
<1>7. n.src = Arg.dir /\ n.tgt = cmd.dir /\ n.at = "entry" BY <1>0 DEF NewFrame
<1>8. Follows(n, a)
  <2>1. Arg.dir \in Region(a)
    <3>1. SubSeq(Arg.dir, 1, Len(Arg.dir)) = Arg.dir BY <1>6
    <3>2. Len(Arg.dir) >= Len(Arg.dir) BY <1>6
    <3> QED BY <1>5, <1>6, <3>1, <3>2 DEF Region, Below, Arg
  <2>2. SubSeq(Arg.dir, Len(Arg.dir) + 1, Len(Arg.dir)) = <<>> BY <1>6
  <2>3. GoalDir(a, Arg.dir) = cmd.dir
    <3>1. cmd.dir \o <<>> = cmd.dir BY <1>6, ConcatEmptySeq
    <3>2. GoalDir(a, Arg.dir) = cmd.dir \o SubSeq(Arg.dir, Len(Arg.dir) + 1, Len(Arg.dir)) BY <1>5 DEF GoalDir, Arg
    <3> QED BY <2>2, <3>1, <3>2
  <2> QED BY <1>7, <2>1, <2>3 DEF Follows
<1>9. Follows(n, a)' BY <1>3, <1>8 DEF Follows, Region, GoalDir, Opt, Below
<1>10. DOMAIN stack' = {1} /\ stack'[1] = n /\ Len(stack') = 1 BY <1>3
<1>11. Cur'.at = "entry" BY <1>7, <1>10 DEF Cur
<1>12. ASSUME NEW k \in DOMAIN stack'
      PROVE  Follows(stack[k], top.arg)'
  <2>1. stack'[k] = n /\ top'.arg = a BY <1>4, <1>5, <1>10
  <2> QED BY <1>9, <2>1 DEF Follows, Region, GoalDir, Opt, Below
<1>13. NameOK(top.tname)' BY <1>3, <1>4 DEF SafeInv, PlacesOK, NameOK, GoalNames
<1>14. PlacesOK' BY <1>11, <1>12, <1>13 DEF PlacesOK, FilePlaces
<1>15. SameOK' BY <1>2, <1>3, <1>11 DEF SameOK
<1> QED BY <1>3, <1>14, <1>15 DEF StepOK, DataStep, SameData

\* No directory is renamed as a whole.
LEMMA CommandSafe ==
  ASSUME SafeInv, Command
  PROVE  StepOK
<1>1. CASE RenameDir
  <2>1. top.at = "args" /\ top.arg <= Len(cmd.args) /\ Moving /\ Arg.whole
    BY <1>1 DEF RenameDir, MoreArgs, AtTop
  <2>2. top \in Tops /\ cmd \in Commands BY <2>1, AtCommand DEF SafeInv
  <2>3. top.arg \in DOMAIN cmd.args
    <3>1. cmd.args \in Seq(ArgRecords) BY <2>2, CmdType
    <3>2. top.arg \in Nat \ {0} BY <2>2 DEF Tops
    <3> QED BY <2>1, <3>1, <3>2
  <2> QED BY <2>1, <2>3 DEF SafeInv, KeptOK, MovesApart, Arg
<1>2. CASE StartArg BY <1>2, StartArgSafe
<1>3. CASE Refuse \/ Setup \/ BadName \/ RefuseInfinite \/ Returned \/ ArgsDone \/ Finish
  <2>1. top.at \in {"setup", "args", "returned", "finish"} /\ UNCHANGED <<fs, cmd, stack, fc>>
    BY <1>3 DEF Refuse, Setup, BadName, RefuseInfinite, Returned, ArgsDone, Finish, TopStep, AtTop, MoreArgs,
                disk, fixed, rest
  <2>2. stack = <<>> /\ fc = NULL /\ top \in Tops BY <2>1, AtCommand DEF SafeInv
  <2>3. PICK p, a, r : \/ top' = [top EXCEPT !.at = p] \/ top' = [top EXCEPT !.at = p, !.nReturn = r]
                       \/ top' = [top EXCEPT !.at = p, !.arg = a, !.nReturn = r]
    BY <1>3, Zenon DEF Refuse, Setup, BadName, RefuseInfinite, Returned, ArgsDone, Finish
  <2>4. top'.tname = top.tname BY <2>2, <2>3 DEF Tops
  <2>5. SameData(fs, fs') BY <2>1 DEF SameData
  <2> QED BY <2>1, <2>2, <2>4, <2>5, NoWorkers
<1> QED BY <1>1, <1>2, <1>3 DEF Command

\* The first of the workers are left, or FileCopy() ends with ^C.
LEMMA InterruptSafe ==
  ASSUME SafeInv, Interrupt
  PROVE  StepOK
<1>1. /\ cmd' = cmd /\ (env.of # "FileCopy" => fc = NULL) /\ (env.of = "FileCopy" => fc # NULL)
      /\ stack \in Seq(Workers) /\ top \in Tops /\ fs \in Disk
  BY Interrupted DEF SafeInv
<1>2. env.of \in {"command", "top", "FileCopy", "worker"}
  BY DEF SafeInv, IInv, StateOK, Envs, CommandEnv, TopEnv, FileCopyEnv
<1>3. CASE env.of \in {"command", "top"}
  <2>1. stack' = <<>> /\ fc' = NULL /\ fs' = fs /\ \E p, r, l : \/ top' = [top EXCEPT !.at = p, !.nReturn = r, !.lost = l]
                                                              \/ top' = [top EXCEPT !.at = p, !.lost = l, !.nReturn = r]
    <3>1. CASE env.of = "command" BY <3>1, Zenon DEF Interrupt, NoAttr
    <3>2. CASE env.of = "top"
      <4>1. env.of # "command" BY <3>2
      <4> QED BY <3>2, <4>1, Zenon DEF Interrupt, NoAttr
    <3>3. env.of = "command" \/ env.of = "top" BY <1>3
    <3> QED BY <3>1, <3>2, <3>3, Zenon
  <2>2. top'.tname = top.tname BY <1>1, <2>1 DEF Tops
  <2>3. SameData(fs, fs') BY <2>1 DEF SameData
  <2> QED BY <1>1, <2>1, <2>2, <2>3, NoWorkers
<1>4. CASE env.of = "FileCopy"
  <2>1. Bye("CTRLC") /\ stack' = stack /\ top' = top /\ fs' = fs
    <3>1. env.of # "command" /\ env.of # "top" BY <1>4
    <3> QED BY <1>4, <3>1, Zenon DEF Interrupt, NoAttr
  <2>2. stack # <<>> /\ Cur.at = "copy" /\ fc \in Copies BY <1>1, <1>4, InCopy DEF SafeInv
  <2>3. fc'.nReturn # "0" BY <2>1, <2>2 DEF Bye, Copies
  <2>4. DataStep BY <2>1 DEF DataStep, SameData
  <2> QED BY <1>1, <2>1, <2>2, <2>3, <2>4, CopySafe
<1>5. CASE env.of = "worker"
  <2>1. fc' = NULL /\ \E i \in DOMAIN stack : stack[i].src = env.src /\ Aborted(i)
    <3>1. env.of # "command" /\ env.of # "top" /\ env.of # "FileCopy" BY <1>5
    <3> QED BY <1>5, <3>1, Zenon DEF Interrupt, NoAttr
  <2>2. PICK i \in DOMAIN stack : Aborted(i) BY <2>1
  <2>3. SameData(fs, fs') BY <1>1, <2>2, RestoredDisk
  <2>4. CASE i = 1 /\ stack' = <<>> /\ top' = [top EXCEPT !.at = "returned", !.nReturn = "CTRLC", !.lost = Lost(2)]
    <3>1. top'.tname = top.tname BY <1>1, <2>4 DEF Tops
    <3> QED BY <1>1, <2>1, <2>3, <2>4, <3>1, NoWorkers
  <2>5. CASE i > 1 /\ stack' = Resumed(SubSeq(stack, 1, i - 1), "CTRLC") /\ top' = [top EXCEPT !.lost = Lost(i + 1)]
    <3>1. /\ i \in Nat /\ 1 <= i /\ i <= Len(stack) /\ DOMAIN stack = 1 .. Len(stack) /\ Len(stack) \in Nat
      BY <1>1
    <3>2. PICK n \in Nat : n = i - 1 BY <3>1
    <3>3. n # 0 /\ n <= Len(stack) BY <2>5, <3>1, <3>2
    <3>4. PICK left : left = SubSeq(stack, 1, n) OBVIOUS
    <3>5. left \in Seq(Workers) /\ Len(left) = n /\ left # <<>> /\ \A j \in 1 .. n : left[j] = stack[j]
      BY <1>1, <3>3, <3>4, FirstWorkers
    <3>6. stack' = Resumed(left, "CTRLC") BY <2>5, <3>2, <3>4, Zenon
    <3>7. /\ stack' \in Seq(Workers) /\ Len(stack') = n /\ stack' # <<>>
          /\ stack'[n].at = "subbed" /\ stack'[n].src = left[n].src /\ stack'[n].tgt = left[n].tgt
          /\ \A j \in 1 .. n : j < n => stack'[j] = left[j]
      <4>1. "CTRLC" \in Returns BY DEF Returns
      <4>2. /\ Resumed(left, "CTRLC") \in Seq(Workers) /\ Len(Resumed(left, "CTRLC")) = Len(left)
            /\ Resumed(left, "CTRLC") # <<>>
            /\ Resumed(left, "CTRLC")[Len(left)].at = "subbed"
            /\ Resumed(left, "CTRLC")[Len(left)].src = left[Len(left)].src
            /\ Resumed(left, "CTRLC")[Len(left)].seen = left[Len(left)].seen
            /\ Resumed(left, "CTRLC")[Len(left)].name = left[Len(left)].name
            /\ Resumed(left, "CTRLC")[Len(left)].tgt = left[Len(left)].tgt
            /\ \A j \in 1 .. Len(left) : j < Len(left) => Resumed(left, "CTRLC")[j] = left[j]
        BY <3>5, <4>1, Resuming, Zenon
      <4> QED BY <3>5, <3>6, <4>2
    <3>8. Cur'.at = "subbed" BY <3>7 DEF Cur
    <3>9. \A k \in DOMAIN stack' :
            k \in DOMAIN stack /\ stack'[k].src = stack[k].src /\ stack'[k].tgt = stack[k].tgt
      <4>1. DOMAIN stack' = 1 .. n BY <3>7
      <4>2. \A k \in 1 .. n : k \in DOMAIN stack /\ (k = n \/ k < n) BY <3>1, <3>3
      <4> QED BY <3>5, <3>7, <4>1, <4>2
    <3>10. top'.arg = top.arg /\ top'.tname = top.tname
      <4>1. PICK l : l = Lost(i + 1) OBVIOUS
      <4>2. top' = [top EXCEPT !.lost = l] BY <2>5, <4>1
      <4> QED BY <1>1, <4>2 DEF Tops
    <3>11. NameOK(top'.tname) BY <3>10 DEF SafeInv, PlacesOK
    <3>12. PlacesOK' BY <1>1, <3>8, <3>9, <3>10, <3>11, PlacesKept DEF SafeInv, FilePlaces
    <3>13. SameOK' BY <2>1, <3>8 DEF SameOK
    <3> QED BY <1>1, <2>3, <3>12, <3>13 DEF StepOK, DataStep
  <2> QED BY <2>2, <2>4, <2>5, Zenon DEF Aborted
<1> QED BY <1>2, <1>3, <1>4, <1>5

LEMMA StepSafe ==
  ASSUME SafeInv, Next
  PROVE  StepOK
BY CommandSafe, FilesSafe, AfterFileSafe, FileCopySafe, TreeSafe, InterruptSafe DEF Next

-----------------------------------------------------------------------------
(***************************************************************************)
(* Nothing is lost.                                                        *)
(***************************************************************************)
\* The file that a worker writes is one that the command names.
LEMMA TargetIsGoal ==
  ASSUME SafeInv, stack # <<>>, Cur.at \in FilePlaces, Target \in Paths
  PROVE  Target \in Goals
<1>1. /\ top.arg \in DOMAIN cmd.args /\ Arg.names \subseteq Names
      /\ Cur.src \in Region(top.arg) /\ Cur.tgt = GoalDir(top.arg, Cur.src)
  BY CurFollows
<1>2. Target.dir = GoalDir(top.arg, Cur.src) BY <1>1 DEF Target, Path
<1>3. Target.name \in GoalNames
  <2>1. CASE top.tname = "*"
    <3>1. Target.name = Cur.name BY <2>1 DEF Target, Path
    <3>2. cmd.name = "*" BY <2>1 DEF SafeInv, PlacesOK, NameOK
    <3>3. Cur.name \in Arg.names BY DEF SafeInv, PlacesOK
    <3> QED BY <1>1, <3>1, <3>2, <3>3 DEF GoalNames, Arg
  <2>2. CASE top.tname # "*"
    <3>1. Target.name = top.tname BY <2>2 DEF Target, Path
    <3> QED BY <2>2, <3>1 DEF SafeInv, PlacesOK, NameOK
  <2> QED BY <2>1, <2>2
<1> QED BY <1>1, <1>2, <1>3 DEF Goals

\* With MOVE, which changes no names, it is the one for the file it reads.
LEMMA MovesToGoal ==
  ASSUME SafeInv, Moving, stack # <<>>, Cur.at \in FilePlaces, Source \in Paths
  PROVE  top.arg \in DOMAIN cmd.args /\ Source \in Sources(top.arg) /\ Target = Goal(top.arg, Source)
<1>1. /\ top.arg \in DOMAIN cmd.args /\ Cur.src \in Region(top.arg) /\ Cur.tgt = GoalDir(top.arg, Cur.src)
  BY CurFollows
<1>2. top.tname = "*" BY DEF SafeInv, KeptOK, MovesApart, IInv, PlainOK
<1>3. Cur.name \in Arg.names BY DEF SafeInv, PlacesOK
<1>4. Source.dir = Cur.src /\ Source.name = Cur.name BY DEF Source, Path
<1> QED BY <1>1, <1>2, <1>3, <1>4 DEF Sources, Goal, Target, Arg

\* Goals do not change.
LEMMA SameCommand ==
  ASSUME cmd' = cmd
  PROVE  /\ (Copying' <=> Copying) /\ (Moving' <=> Moving) /\ (MovesApart' <=> MovesApart) /\ Goals' = Goals
         /\ \A i : Sources(i)' = Sources(i) /\ \A p : Goal(i, p)' = Goal(i, p)
<1>1. \A i : Region(i)' = Region(i) /\ \A d : GoalDir(i, d)' = GoalDir(i, d)
  BY DEF Region, GoalDir, Opt, Below
<1>2. \A i : Sources(i)' = Sources(i) /\ \A p : Goal(i, p)' = Goal(i, p)
  BY <1>1 DEF Sources, Goal
<1>3. GoalNames' = GoalNames BY DEF GoalNames
<1>4. Goals' = Goals BY <1>1, <1>3 DEF Goals
<1>5. MovesApart' <=> MovesApart BY <1>2, <1>4 DEF MovesApart, Plain, Binary, Opt
<1> QED BY <1>2, <1>4, <1>5 DEF Copying, Moving

\* A file that is spared stays so, if no source comes into being.
LEMMA StaysSpared ==
  ASSUME cmd' = cmd, NEW h, Spared(h),
         \A i \in DOMAIN cmd.args : \A q \in Sources(i) : fs'[q] # NULL => fs[q] # NULL
  PROVE  Spared(h)'
<1>1. /\ (Copying' <=> Copying) /\ Goals' = Goals
      /\ \A i : Sources(i)' = Sources(i) /\ \A p : Goal(i, p)' = Goal(i, p)
  BY SameCommand
<1>2. CASE Copying BY <1>1, <1>2 DEF Spared
<1>3. CASE ~Copying
  <2>1. \A i \in DOMAIN cmd.args : \A q \in Sources(i) : Exists(q) => Goal(i, q) # h BY <1>3 DEF Spared
  <2>2. \A i \in DOMAIN cmd.args : \A q \in Sources(i) : fs'[q] # NULL /\ q \in Paths => Goal(i, q) # h
    BY <2>1 DEF Exists
  <2>3. \A i \in DOMAIN cmd'.args : \A q \in Sources(i)' : Exists(q)' => Goal(i, q)' # h
    BY <1>1, <2>2 DEF Exists
  <2> QED BY <1>1, <1>3, <2>3 DEF Spared
<1> QED BY <1>2, <1>3

LEMMA KeptSafe ==
  ASSUME SafeInv, cmd' = cmd,
         Moving => \A i \in DOMAIN cmd.args : \A q \in Sources(i) : fs'[q] # NULL => fs[q] # NULL,
         \A c \in Valuable : \E p \in On(fs', c) : Spared(p)'
  PROVE  KeptOK'
<1>1. /\ (Moving' <=> Moving) /\ (MovesApart' <=> MovesApart)
      /\ \A i : Sources(i)' = Sources(i) /\ \A p : Goal(i, p)' = Goal(i, p)
  BY SameCommand
<1>2. Moving => Distinct'
  <2>1. SUFFICES ASSUME Moving PROVE Distinct'
    OBVIOUS
  <2>2. \A i, j \in DOMAIN cmd.args : \A p \in Sources(i), q \in Sources(j) :
          fs'[p] # NULL /\ fs'[q] # NULL /\ Goal(i, p) = Goal(j, q) => p = q
    BY <2>1 DEF SafeInv, KeptOK, Distinct, Exists, Sources
  <2> QED BY <1>1, <2>2 DEF Distinct, Exists
<1>3. \A c \in Valuable : \E p \in Holders(c)' : Spared(p)' BY HoldersOn
<1> QED BY <1>1, <1>2, <1>3 DEF SafeInv, KeptOK

\* What is shown of every step, once more: where contents go, and that they are
\* then in a file that is spared.
KeepsAll == \A c \in Valuable : Allowed(On(fs, c), On(fs', c)) /\ \E p \in On(fs', c) : Spared(p)'

LEMMA HasSpared ==
  ASSUME SafeInv, NEW c \in Valuable
  PROVE  \E h \in On(fs, c) : Spared(h)
BY HoldersOn DEF SafeInv, KeptOK

LEMMA SameKeeps ==
  ASSUME SafeInv, cmd' = cmd, SameData(fs, fs')
  PROVE  KeptOK' /\ KeepsAll
<1>1. \A p \in Paths : (fs'[p] # NULL <=> fs[p] # NULL) /\ (fs[p] # NULL => fs'[p].data = fs[p].data)
  BY DEF SameData
<1>2. \A c : On(fs', c) = On(fs, c) BY <1>1 DEF On
<1>3. \A i \in DOMAIN cmd.args : \A q \in Sources(i) : fs'[q] # NULL => fs[q] # NULL BY <1>1 DEF Sources
<1>4. ASSUME NEW c \in Valuable
      PROVE  Allowed(On(fs, c), On(fs', c)) /\ \E p \in On(fs', c) : Spared(p)'
  <2>1. PICK h \in On(fs, c) : Spared(h) BY HasSpared
  <2>2. Spared(h)' BY <1>3, <2>1, StaysSpared
  <2> QED BY <1>2, <2>2 DEF Allowed
<1> QED BY <1>3, <1>4, KeptSafe DEF KeepsAll

\* No contents are only in a file that is written.
LEMMA WriteKeeps ==
  ASSUME SafeInv, cmd' = cmd, stack # <<>>, Cur.at \in SourcePlaces, Writes(Target)
  PROVE  KeptOK' /\ KeepsAll
<1>1. CASE Target \notin Paths
  <2>1. SameData(fs, fs') BY <1>1 DEF Writes, SameData
  <2> QED BY <2>1, SameKeeps
<1>2. CASE Target \in Paths
  <2>1. Cur.at \in FilePlaces BY DEF SourcePlaces, FilePlaces
  <2>2. Target \in Goals BY <1>2, <2>1, TargetIsGoal
  <2>3. \A p \in Paths : p # Target => fs'[p] = fs[p] BY DEF Writes
  <2>4. cmd \in Commands BY DEF SafeInv, IInv, StateOK
  <2>5. Moving <=> ~Copying BY <2>4, CmdType
  <2>6. Moving => \A i \in DOMAIN cmd.args : \A q \in Sources(i) : q \in Paths /\ q # Target
    BY <2>2 DEF SafeInv, KeptOK, MovesApart, Sources
  <2>7. Moving => \A i \in DOMAIN cmd.args : \A q \in Sources(i) : fs'[q] # NULL => fs[q] # NULL
    BY <2>3, <2>6
  <2>8. ASSUME NEW h, Spared(h)
        PROVE  h # Target /\ Spared(h)'
    <3>1. CASE Copying
      <4>1. h \notin Goals BY <2>8, <3>1 DEF Spared
      <4>2. (Copying' <=> Copying) /\ Goals' = Goals BY SameCommand
      <4> QED BY <2>2, <3>1, <4>1, <4>2 DEF Spared
    <3>2. CASE Moving
      <4>1. Source \in Paths /\ Exists(Source) BY DEF SafeInv, IInv, FileOK, Exists
      <4>2. top.arg \in DOMAIN cmd.args /\ Source \in Sources(top.arg) /\ Target = Goal(top.arg, Source)
        BY <2>1, <3>2, <4>1, MovesToGoal
      <4>3. h # Target BY <2>5, <2>8, <3>2, <4>1, <4>2 DEF Spared
      <4>4. Spared(h)' BY <2>7, <2>8, <3>2, StaysSpared
      <4> QED BY <4>3, <4>4
    <3> QED BY <2>5, <3>1, <3>2
  <2>9. ASSUME NEW c \in Valuable
        PROVE  Allowed(On(fs, c), On(fs', c)) /\ \E p \in On(fs', c) : Spared(p)'
    <3>1. PICK h \in On(fs, c) : Spared(h) BY HasSpared
    <3>2. h # Target /\ Spared(h)' BY <2>8, <3>1
    <3>3. \A p \in Paths : p # Target => (p \in On(fs', c) <=> p \in On(fs, c)) BY <2>3 DEF On
    <3>4. On(fs, c) \subseteq Paths /\ On(fs', c) \subseteq Paths BY DEF On
    <3>5. h \in On(fs', c) BY <3>2, <3>3, <3>4
    <3>6. CASE Target \in On(fs', c)
      <4>1. On(fs', c) = On(fs, c) \cup {Target} BY <3>3, <3>4, <3>6
      <4> QED BY <1>2, <3>2, <3>5, <4>1 DEF Allowed
    <3>7. CASE Target \notin On(fs', c)
      <4>1. On(fs', c) = On(fs, c) \ {Target} BY <3>3, <3>4, <3>7
      <4>2. On(fs, c) # {Target} BY <3>1, <3>2
      <4> QED BY <1>2, <3>2, <3>5, <4>1, <4>2 DEF Allowed
    <3> QED BY <3>6, <3>7
  <2> QED BY <2>7, <2>9, KeptSafe DEF KeepsAll
<1> QED BY <1>1, <1>2

\* When the source t has gone, nothing more goes to its target.
LEMMA SourceGone ==
  ASSUME SafeInv, cmd' = cmd, Moving, stack # <<>>, Cur.at \in FilePlaces, Exists(Source), NEW s, s = Source,
         NEW t \in Paths, t = Target, fs'[s] = NULL, \A p \in Paths : p # s /\ p # t => fs'[p] = fs[p]
  PROVE  /\ s # t /\ Spared(t)'
         /\ \A i \in DOMAIN cmd.args : \A q \in Sources(i) : fs'[q] # NULL => fs[q] # NULL
<1>1. s \in Paths BY DEF Exists
<1>2. PICK a : a = top.arg OBVIOUS
<1>3. a \in DOMAIN cmd.args /\ s \in Sources(a) /\ t = Goal(a, s)
  BY <1>1, <1>2, MovesToGoal
<1>4. t \in Goals BY TargetIsGoal
<1>5. \A i \in DOMAIN cmd.args : \A q \in Sources(i) : q \in Paths /\ q # t
  BY <1>4 DEF SafeInv, KeptOK, MovesApart, Sources
<1>6. \A i \in DOMAIN cmd.args : \A q \in Sources(i) : fs'[q] # NULL => fs[q] # NULL /\ q # s
  BY <1>5
<1>7. \A i \in DOMAIN cmd.args : \A q \in Sources(i) : fs'[q] # NULL => Goal(i, q) # t
  <2>1. \A i, j \in DOMAIN cmd.args : \A p \in Sources(i), q \in Sources(j) :
          Exists(p) /\ Exists(q) /\ Goal(i, p) = Goal(j, q) => p = q
    BY DEF SafeInv, KeptOK, Distinct
  <2>2. Exists(s) OBVIOUS
  <2>3. \A i \in DOMAIN cmd.args : \A q \in Sources(i) : Exists(q) /\ Goal(i, q) = t => q = s
    <3> HIDE DEF Goal
    <3> QED BY <1>3, <2>1, <2>2
  <2> QED BY <1>5, <1>6, <2>3 DEF Exists
<1>8. Spared(t)'
  <2>1. cmd \in Commands BY DEF SafeInv, IInv, StateOK
  <2>2. ~Copying BY <2>1, CmdType
  <2>3. (Copying' <=> Copying) /\ \A i : Sources(i)' = Sources(i) /\ \A p : Goal(i, p)' = Goal(i, p)
    BY SameCommand
  <2>4. \A i \in DOMAIN cmd'.args : \A q \in Sources(i)' : Exists(q)' => Goal(i, q)' # t
    BY <1>7, <2>3 DEF Exists
  <2> QED BY <2>2, <2>3, <2>4 DEF Spared
<1> QED BY <1>3, <1>5, <1>6, <1>8

\* A source that was in the way of nothing else has its contents in its target.
LEMMA MoveKeeps ==
  ASSUME SafeInv, cmd' = cmd, Moving, stack # <<>>, Cur.at \in FilePlaces, Exists(Source),
         NEW s, s = Source, NEW t \in Paths, t = Target, fs'[s] = NULL, fs'[t] # NULL, fs'[t].data = fs[s].data,
         \A p \in Paths : p # s /\ p # t => fs'[p] = fs[p],
         ~Exists(t) \/ fs'[t] = fs[t]
  PROVE  KeptOK' /\ KeepsAll
<1>1. /\ s # t /\ Spared(t)'
      /\ \A i \in DOMAIN cmd.args : \A q \in Sources(i) : fs'[q] # NULL => fs[q] # NULL
  BY SourceGone
<1>2. s \in Paths /\ fs[s] # NULL BY DEF Exists
<1>3. ASSUME NEW c \in Valuable
      PROVE  Allowed(On(fs, c), On(fs', c)) /\ \E p \in On(fs', c) : Spared(p)'
  <2>1. PICK h \in On(fs, c) : Spared(h) BY HasSpared
  <2>2. Spared(h)' BY <1>1, <2>1, StaysSpared
  <2>3. s \notin On(fs', c) /\ (t \in On(fs', c) <=> s \in On(fs, c)) BY <1>2 DEF On
  <2>4. \A p \in Paths : p # s /\ p # t => (p \in On(fs', c) <=> p \in On(fs, c)) BY DEF On
  <2>5. On(fs, c) \subseteq Paths /\ On(fs', c) \subseteq Paths BY DEF On
  <2>6. t \in On(fs, c) => t \in On(fs', c) BY DEF On, Exists
  <2>7. CASE s \in On(fs, c)
    <3>1. t \in On(fs', c) BY <2>3, <2>7
    <3>2. On(fs', c) = (On(fs, c) \ {s}) \cup {t} BY <1>1, <2>3, <2>4, <2>5, <3>1
    <3> QED BY <1>1, <1>2, <2>7, <3>1, <3>2 DEF Allowed
  <2>8. CASE s \notin On(fs, c)
    <3>1. On(fs', c) = On(fs, c)
      <4>1. s \notin On(fs', c) /\ t \notin On(fs', c) /\ t \notin On(fs, c) BY <2>3, <2>6, <2>8
      <4>2. \A p \in Paths : p \in On(fs', c) <=> p \in On(fs, c) BY <2>4, <2>8, <4>1
      <4> QED BY <2>5, <4>2
    <3> QED BY <2>1, <2>2, <3>1 DEF Allowed
  <2> QED BY <2>7, <2>8
<1> QED BY <1>1, <1>3, KeptSafe DEF KeepsAll

LEMMA RenameKeeps ==
  ASSUME SafeInv, cmd' = cmd, stack # <<>>, Cur.at \in {"rename", "again"}, ~Exists(Target),
         Renames(Source, Target)
  PROVE  KeptOK' /\ KeepsAll
<1>1. PICK s, t : s = Source /\ t = Target OBVIOUS
<1>2. /\ Moving /\ Exists(s) /\ s # t /\ fs \in Disk
  BY <1>1 DEF SafeInv, IInv, StateOK, FileOK, MovePlaces, SourcePlaces, Disk
<1>3. s \in Paths /\ t \in Paths /\ fs' = [fs EXCEPT ![t] = fs[s], ![s] = NULL] BY <1>1 DEF Renames
<1>4. fs'[s] = NULL /\ fs'[t] = fs[s] /\ \A p \in Paths : p # s /\ p # t => fs'[p] = fs[p]
  BY <1>2, <1>3 DEF Disk
<1>5. fs'[t] # NULL /\ Cur.at \in FilePlaces BY <1>2, <1>4 DEF Exists, FilePlaces
<1> QED BY <1>1, <1>2, <1>3, <1>4, <1>5, MoveKeeps

LEMMA RemoveKeeps ==
  ASSUME SafeInv, cmd' = cmd, fc = NULL, stack # <<>>, Cur.at = "remove", Removes(Source)
  PROVE  KeptOK' /\ KeepsAll
<1>1. PICK s, t : s = Source /\ t = Target OBVIOUS
<1>2. Moving /\ fs \in Disk BY DEF SafeInv, IInv, StateOK, FileOK, MovePlaces, Disk
<1>3. Plain BY <1>2 DEF SafeInv, KeptOK, MovesApart
<1>4. Exists(s) /\ Exists(t) /\ fs[t].data = fs[s].data BY <1>1, <1>2, <1>3 DEF SafeInv, SameOK, Equal
<1>5. s \in Paths /\ t \in Paths /\ fs[t] # NULL BY <1>4 DEF Exists
<1>6. Cur.at \in FilePlaces BY DEF FilePlaces
<1>7. s # t
  <2>1. top.arg \in DOMAIN cmd.args /\ s \in Sources(top.arg) BY <1>1, <1>2, <1>5, <1>6, MovesToGoal
  <2>2. t \in Goals BY <1>1, <1>5, <1>6, TargetIsGoal
  <2> QED BY <1>2, <2>1, <2>2 DEF SafeInv, KeptOK, MovesApart
<1>8. fs'[s] = NULL /\ \A p \in Paths : p # s => fs'[p] = fs[p]
  BY <1>1, <1>2, <1>5 DEF Removes, Disk
<1>9. fs'[t] = fs[t] BY <1>5, <1>7, <1>8
<1> QED BY <1>1, <1>2, <1>4, <1>5, <1>6, <1>8, <1>9, MoveKeeps

LEMMA StepKeeps ==
  ASSUME SafeInv, StepOK
  PROVE  KeptOK' /\ KeepsAll
BY SameKeeps, WriteKeeps, RenameKeeps, RemoveKeeps DEF StepOK, DataStep

\* The first state.
LEMMA SafeStart ==
  ASSUME Init, Separate
  PROVE  SafeInv
<1>1. IInv BY InitInv
<1>2. stack = <<>> /\ fc = NULL /\ top.tname = cmd.name /\ cmd \in Commands BY DEF Init
<1>3. PlacesOK
  <2>1. DOMAIN stack = {} BY <1>2
  <2>2. NameOK(cmd.name) BY DEF NameOK, GoalNames
  <2> QED BY <1>2, <2>1, <2>2 DEF PlacesOK
<1>4. SameOK BY <1>2 DEF SameOK
<1>5. Moving <=> ~Copying BY <1>2, CmdType
<1>6. ASSUME Moving, NEW p, p \in Paths, p \notin Goals
      PROVE  Spared(p)
  <2>1. SUFFICES ASSUME NEW i \in DOMAIN cmd.args, NEW q \in Sources(i) PROVE Goal(i, q) # p
    BY <1>5, <1>6 DEF Spared
  <2>2. q.dir \in Region(i) /\ q.name \in cmd.args[i].names BY DEF Sources
  <2>3. cmd.name = "*" BY <1>6 DEF Separate, MovesApart, Plain
  <2>4. q.name \in GoalNames BY <2>2, <2>3 DEF GoalNames
  <2>5. Goal(i, q).dir = GoalDir(i, q.dir) /\ Goal(i, q).name = q.name BY DEF Goal, Path
  <2> QED BY <1>6, <2>2, <2>4, <2>5 DEF Goals
<1>7. KeptOK
  <2>1. ASSUME NEW c \in Valuable
        PROVE  \E p \in Holders(c) : Spared(p)
    <3>1. PICK p \in Holders(c) : p \notin Goals BY DEF Separate
    <3>2. p \in Paths BY DEF Holders
    <3>3. Spared(p)
      <4>1. CASE Copying BY <3>1, <4>1 DEF Spared
      <4>2. CASE Moving BY <1>6, <3>1, <3>2, <4>2
      <4> QED BY <1>5, <4>1, <4>2
    <3> QED BY <3>3
  <2> QED BY <2>1 DEF KeptOK, Separate
<1> QED BY <1>1, <1>3, <1>4, <1>7 DEF SafeInv

LEMMA SafeInitStep ==
  ASSUME Init, Separate
  PROVE  Safe!Init
<1>1. ASSUME NEW c \in Valuable
      PROVE  Holders(c) \in (SUBSET Paths) \ {{}}
  <2>1. Holders(c) \subseteq Paths BY DEF Holders
  <2>2. Holders(c) # {} BY DEF Separate
  <2> QED BY <2>1, <2>2
<1> QED BY <1>1, Zenon DEF Safe!Init

\* Every step, and one that changes nothing.
LEMMA SafeStep ==
  ASSUME SafeInv, [Next]_vars
  PROVE  SafeInv' /\ [Safe!Next]_([c \in Valuable |-> Holders(c)])
<1>1. IInv' BY StepInv DEF SafeInv
<1>2. CASE Next
  <2>1. StepOK BY <1>2, StepSafe
  <2>2. KeptOK' /\ KeepsAll BY <2>1, StepKeeps
  <2>3. SafeInv' BY <1>1, <2>1, <2>2 DEF SafeInv, StepOK
  <2>4. Safe!Next BY <2>2, TransferStep DEF KeepsAll
  <2> QED BY <2>3, <2>4
<1>3. CASE UNCHANGED vars
  <2>1. fs' = fs /\ cmd' = cmd /\ top' = top /\ stack' = stack /\ fc' = fc BY <1>3 DEF vars
  <2>2. SameData(fs, fs') BY <2>1 DEF SameData
  <2>3. KeptOK' BY <2>1, <2>2, SameKeeps
  <2>4. PlacesOK'
    <3>1. Cur' = Cur BY <2>1 DEF Cur
    <3>2. NameOK(top'.tname) BY <2>1 DEF SafeInv, PlacesOK
    <3>3. Cur'.at \in FilePlaces /\ stack # <<>> => Cur'.name \in Arg.names BY <3>1 DEF SafeInv, PlacesOK
    <3> QED BY <2>1, <3>2, <3>3, PlacesKept DEF SafeInv
  <2>5. SameOK'
    BY <2>1 DEF SafeInv, SameOK, Equal, Exists, Source, Target, Path, Cur, Moving, Plain, Binary
  <2>6. SafeInv' BY <1>1, <2>3, <2>4, <2>5 DEF SafeInv
  <2>7. [c \in Valuable |-> Holders(c)]' = [c \in Valuable |-> Holders(c)]
    <3>1. \A c \in Valuable : Holders(c)' = Holders(c) BY <2>1, HoldersOn
    <3> QED BY <3>1
  <2> QED BY <2>6, <2>7
<1> QED BY <1>2, <1>3

\* Whatever fails, and whenever ^C is pressed, COPY and MOVE (Copy_Cmd(), _copy(),
\* Mv_Cmd(), _mv() and FileCopy()) lose no contents that are somewhere else than
\* where they write: a source is removed only when its target is complete.
THEOREM NothingIsLost == Spec /\ Separate => SafeTransfer
<1>1. Init /\ Separate => SafeInv BY SafeStart
<1>2. Init /\ Separate => Safe!Init BY SafeInitStep
<1>3. SafeInv /\ [Next]_vars => SafeInv' /\ [Safe!Next]_([c \in Valuable |-> Holders(c)]) BY SafeStep
<1> QED BY <1>1, <1>2, <1>3, PTL DEF Spec, SafeTransfer, Safe!Spec
=============================================================================
