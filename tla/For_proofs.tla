----------------------------- MODULE For_proofs -----------------------------
(***************************************************************************)
(* What a FOR leaves behind, for any sets, loops in loops to any depth,    *)
(* and wherever a GOTO, ^C or an error ends it: no handle, no variable, no *)
(* search and no temporary file, but for those that NothingLeft excepts.   *)
(*                                                                         *)
(* On the way, each of them belongs to an activation of For_Cmd(): what is *)
(* open is counted over the stack.  A temporary file may be lost by an     *)
(* activation that has returned; that this is not forgotten needs that     *)
(* what ended it (Early, or "ABORT_LINE") ends the ones around it too.     *)
(***************************************************************************)
EXTENDS For, SequenceTheorems, FiniteSetTheorems, TLAPS

Fields == {"loop", "at", "argc", "args", "source", "found", "hFH", "lines", "skip", "number", "fDelete",
           "used", "nReturn"}
Places == {"begin", "arg", "loop", "exec", "bye"}

\* An activation with a search; with a temporary file it is before or at the
\* only member.
Looking(f) == f.at \in {"loop", "exec"} /\ f.found > 0
FrameOK(f) ==
  /\ DOMAIN f = Fields /\ f.loop \in Loops /\ f.at \in Places
  /\ f.hFH \in BOOLEAN /\ f.fDelete \in BOOLEAN /\ f.found \in Nat
  /\ Looking(f) => f.source # NULL /\ f.source.type = "wild"
  /\ f.fDelete => f.loop.kind = "command"
  /\ f.at = "begin" => ~f.fDelete
  /\ f.at = "begin" \/ (f.at = "arg" /\ f.fDelete) => f.argc = 1 /\ f.args = f.loop.args
  /\ f.nReturn = "ABORT_LINE" => f.at \in {"loop", "bye"}

\* The handles, searches and temporary files of the activations.
Handles(s) == Cardinality({i \in DOMAIN s : s[i].hFH})
Searches(s) == Cardinality({i \in DOMAIN s : Looking(s[i])})
Temps(s) == Cardinality({i \in DOMAIN s : s[i].fDelete})

\* What ends all FORs.
Early == jumped \/ failed \/ fException \/ misused # 0
Interrupted(f) == \/ f.at = "arg" /\ f.fDelete
                  \/ f.at = "loop"
                  \/ f.at = "bye" /\ f.nReturn = "CTRLC"

IsSeq(s) == s \in Seq({s[i] : i \in DOMAIN s})

StackInv ==
  /\ IsSeq(stack)
  /\ \A i \in DOMAIN stack : FrameOK(stack[i]) /\ (i < Len(stack) => stack[i].at = "loop")

VariablesInv ==
  /\ DOMAIN env = 1 .. Letters
  /\ misused = 0 => \A v \in 1 .. Letters : env[v] # NULL =>
                      \E i \in DOMAIN stack : v = stack[i].loop.var \/ v \in stack[i].used

CountsInv ==
  /\ misused \in Nat /\ open - Handles(stack) \in 0 .. misused /\ open \in Int /\ searches \in Int /\ temps \in Int
  /\ breaks \in Int /\ breaks <= Breaks
  /\ breaks = Breaks => searches = Searches(stack)

EndsInv ==
  /\ jumped \in BOOLEAN /\ failed \in BOOLEAN /\ fException \in BOOLEAN
  /\ stack # <<>> =>
       /\ temps = Temps(stack) \/ Early \/ Cur.nReturn = "ABORT_LINE"
       /\ Cur.at = "bye" /\ Cur.fDelete => Early \/ Cur.nReturn = "ABORT_LINE"
       /\ fException => Interrupted(Cur)
  /\ stack = <<>> =>
       /\ temps = 0 \/ Early \/ returned = "ABORT_LINE"
       /\ fException => returned = "CTRLC"

IInv == StackInv /\ VariablesInv /\ CountsInv /\ EndsInv
-----------------------------------------------------------------------------
(* Sequences of activations. *)
LEMMA SeqOfItself ==
  ASSUME NEW A, NEW s \in Seq(A)
  PROVE  IsSeq(s)
BY SeqDef DEF IsSeq

LEMMA SeqFacts ==
  ASSUME NEW s, IsSeq(s)
  PROVE  /\ Len(s) \in Nat /\ DOMAIN s = 1 .. Len(s) /\ s # <<>> <=> Len(s) # 0
         /\ s # <<>> => Len(s) \in DOMAIN s
BY DEF IsSeq

LEMMA Added ==
  ASSUME NEW A, NEW s \in Seq(A), NEW e \in A, NEW t, t = s \o <<e>> \/ t = Append(s, e)
  PROVE  /\ t \in Seq(A) /\ Len(t) = Len(s) + 1 /\ t[Len(s) + 1] = e
         /\ \A i \in 1 .. Len(s) : t[i] = s[i]
<1>1. s \o <<e>> \in Seq(A) /\ Len(s \o <<e>>) = Len(s) + 1 /\ (s \o <<e>>)[Len(s) + 1] = e
      /\ \A i \in 1 .. Len(s) : (s \o <<e>>)[i] = s[i]
  OBVIOUS
<1>2. Append(s, e) \in Seq(A) /\ Len(Append(s, e)) = Len(s) + 1 /\ Append(s, e)[Len(s) + 1] = e
      /\ \A i \in 1 .. Len(s) : Append(s, e)[i] = s[i]
  OBVIOUS
<1> QED BY <1>1, <1>2

(* One element more or less is counted. *)
Bit(b) == IF b THEN 1 ELSE 0

LEMMA CountChanges ==
  ASSUME NEW S, NEW T, NEW n, IsFiniteSet(S), S \ {n} = T \ {n}
  PROVE  Cardinality(T) = Cardinality(S) - Bit(n \in S) + Bit(n \in T)
<1> DEFINE R == S \ {n}
<1>1. IsFiniteSet(R) /\ n \notin R /\ Cardinality(R) \in Nat BY FS_Subset, FS_CardinalityType
<1>2. Cardinality(R \cup {n}) = Cardinality(R) + 1 BY <1>1, FS_AddElement
<1>3. (n \in S => S = R \cup {n}) /\ (n \notin S => S = R) OBVIOUS
<1>4. (n \in T => T = R \cup {n}) /\ (n \notin T => T = R) OBVIOUS
<1> HIDE DEF R
<1>5. Cardinality(S) = Cardinality(R) + Bit(n \in S)
  <2>1. CASE n \in S
    <3>1. S = R \cup {n} /\ Bit(n \in S) = 1 BY <1>3, <2>1 DEF Bit
    <3> QED BY <1>2, <3>1
  <2>2. CASE n \notin S
    <3>1. S = R /\ Bit(n \in S) = 0 BY <1>3, <2>2 DEF Bit
    <3> QED BY <1>1, <3>1
  <2> QED BY <2>1, <2>2
<1>6. Cardinality(T) = Cardinality(R) + Bit(n \in T)
  <2>1. CASE n \in T
    <3>1. T = R \cup {n} /\ Bit(n \in T) = 1 BY <1>4, <2>1 DEF Bit
    <3> QED BY <1>2, <3>1
  <2>2. CASE n \notin T
    <3>1. T = R /\ Bit(n \in T) = 0 BY <1>4, <2>2 DEF Bit
    <3> QED BY <1>1, <3>1
  <2> QED BY <2>1, <2>2
<1>7. Bit(n \in S) \in Int /\ Bit(n \in T) \in Int BY DEF Bit
<1> QED BY <1>1, <1>5, <1>6, <1>7

LEMMA CountTypes ==
  ASSUME NEW s, IsSeq(s)
  PROVE  Handles(s) \in Nat /\ Searches(s) \in Nat /\ Temps(s) \in Nat
<1>1. IsFiniteSet(DOMAIN s)
  <2>1. DOMAIN s = 1 .. Len(s) /\ 1 \in Int /\ Len(s) \in Int BY SeqFacts
  <2> QED BY <2>1, FS_Interval
<1>2. \A S \in SUBSET DOMAIN s : Cardinality(S) \in Nat BY <1>1, FS_Subset, FS_CardinalityType
<1> QED BY <1>2 DEF Handles, Searches, Temps

(* Two stacks that differ in one place count the same elsewhere. *)
LEMMA StacksCount ==
  ASSUME NEW s, NEW t, IsSeq(s), IsSeq(t), NEW n,
         (DOMAIN s) \ {n} = (DOMAIN t) \ {n},
         \A i \in (DOMAIN s) \ {n} :
           s[i].hFH = t[i].hFH /\ (Looking(s[i]) <=> Looking(t[i])) /\ s[i].fDelete = t[i].fDelete
  PROVE  /\ Handles(t) = Handles(s) - Bit(n \in DOMAIN s /\ s[n].hFH) + Bit(n \in DOMAIN t /\ t[n].hFH)
         /\ Searches(t) = Searches(s) - Bit(n \in DOMAIN s /\ Looking(s[n])) + Bit(n \in DOMAIN t /\ Looking(t[n]))
         /\ Temps(t) = Temps(s) - Bit(n \in DOMAIN s /\ s[n].fDelete) + Bit(n \in DOMAIN t /\ t[n].fDelete)
<1>1. IsFiniteSet(DOMAIN s)
  <2>1. DOMAIN s = 1 .. Len(s) /\ 1 \in Int /\ Len(s) \in Int BY SeqFacts
  <2> QED BY <2>1, FS_Interval
<1>2. Handles(t) = Handles(s) - Bit(n \in DOMAIN s /\ s[n].hFH) + Bit(n \in DOMAIN t /\ t[n].hFH)
  <2> DEFINE S == {i \in DOMAIN s : s[i].hFH}
             T == {i \in DOMAIN t : t[i].hFH}
  <2>1. IsFiniteSet(S) /\ S \ {n} = T \ {n} BY <1>1, FS_Subset
  <2>2. Cardinality(T) = Cardinality(S) - Bit(n \in S) + Bit(n \in T) BY <2>1, CountChanges
  <2> QED BY <2>2 DEF Handles
<1>3. Searches(t) = Searches(s) - Bit(n \in DOMAIN s /\ Looking(s[n])) + Bit(n \in DOMAIN t /\ Looking(t[n]))
  <2> DEFINE S == {i \in DOMAIN s : Looking(s[i])}
             T == {i \in DOMAIN t : Looking(t[i])}
  <2>1. IsFiniteSet(S) /\ S \ {n} = T \ {n} BY <1>1, FS_Subset
  <2>2. Cardinality(T) = Cardinality(S) - Bit(n \in S) + Bit(n \in T) BY <2>1, CountChanges
  <2> QED BY <2>2 DEF Searches
<1>4. Temps(t) = Temps(s) - Bit(n \in DOMAIN s /\ s[n].fDelete) + Bit(n \in DOMAIN t /\ t[n].fDelete)
  <2> DEFINE S == {i \in DOMAIN s : s[i].fDelete}
             T == {i \in DOMAIN t : t[i].fDelete}
  <2>1. IsFiniteSet(S) /\ S \ {n} = T \ {n} BY <1>1, FS_Subset
  <2>2. Cardinality(T) = Cardinality(S) - Bit(n \in S) + Bit(n \in T) BY <2>1, CountChanges
  <2> QED BY <2>2 DEF Temps
<1> QED BY <1>2, <1>3, <1>4

-----------------------------------------------------------------------------
(* The activation at hand, and what Put() makes of it. *)
LEMMA CurFacts ==
  ASSUME StackInv, stack # <<>>
  PROVE  /\ IsSeq(stack) /\ Len(stack) \in Nat \ {0} /\ DOMAIN stack = 1 .. Len(stack)
         /\ Len(stack) \in DOMAIN stack /\ Cur = stack[Len(stack)] /\ FrameOK(Cur)
BY SeqFacts DEF StackInv, Cur

LEMMA PutFacts ==
  ASSUME StackInv, stack # <<>>, NEW f, FrameOK(f), Put(f)
  PROVE  /\ StackInv' /\ stack' # <<>> /\ Cur' = f /\ DOMAIN stack' = DOMAIN stack
         /\ \A i \in DOMAIN stack : stack'[i] = IF i = Len(stack) THEN f ELSE stack[i]
         /\ Handles(stack') = Handles(stack) - Bit(Cur.hFH) + Bit(f.hFH)
         /\ Searches(stack') = Searches(stack) - Bit(Looking(Cur)) + Bit(Looking(f))
         /\ Temps(stack') = Temps(stack) - Bit(Cur.fDelete) + Bit(f.fDelete)
<1> DEFINE n == Len(stack)
<1>1. IsSeq(stack) /\ n \in Nat \ {0} /\ DOMAIN stack = 1 .. n /\ n \in DOMAIN stack /\ Cur = stack[n]
  BY CurFacts
<1>2. stack' = [stack EXCEPT ![n] = f] BY DEF Put
<1> DEFINE A == {stack[i] : i \in DOMAIN stack} \cup {f}
<1>3. stack \in Seq(A) BY <1>1 DEF IsSeq
<1>4. stack' \in Seq(A) /\ Len(stack') = n /\ DOMAIN stack' = DOMAIN stack
  BY <1>1, <1>2, <1>3
<1>5. \A i \in DOMAIN stack : stack'[i] = IF i = n THEN f ELSE stack[i] BY <1>1, <1>2
<1>6. IsSeq(stack') BY <1>4, SeqOfItself
<1>7. StackInv' BY <1>1, <1>4, <1>5, <1>6 DEF StackInv
<1>8. stack' # <<>> /\ Cur' = f BY <1>1, <1>4, <1>5 DEF Cur
<1>9. /\ Handles(stack') = Handles(stack) - Bit(n \in DOMAIN stack /\ stack[n].hFH) + Bit(n \in DOMAIN stack' /\ stack'[n].hFH)
      /\ Searches(stack') = Searches(stack) - Bit(n \in DOMAIN stack /\ Looking(stack[n])) + Bit(n \in DOMAIN stack' /\ Looking(stack'[n]))
      /\ Temps(stack') = Temps(stack) - Bit(n \in DOMAIN stack /\ stack[n].fDelete) + Bit(n \in DOMAIN stack' /\ stack'[n].fDelete)
  <2>1. \A i \in (DOMAIN stack) \ {n} : stack'[i] = stack[i] BY <1>5
  <2>2. (DOMAIN stack) \ {n} = (DOMAIN stack') \ {n} BY <1>4
  <2>3. IsSeq(stack) /\ IsSeq(stack') BY <1>1, <1>6
  <2>4. \A i \in (DOMAIN stack) \ {n} :
           stack[i].hFH = stack'[i].hFH /\ (Looking(stack[i]) <=> Looking(stack'[i])) /\ stack[i].fDelete = stack'[i].fDelete
    BY <2>1
  <2> HIDE DEF n
  <2> QED BY <2>2, <2>3, <2>4, StacksCount
<1>10. n \in DOMAIN stack' /\ stack'[n] = f BY <1>1, <1>4, <1>5
<1>11. stack[n].hFH \in BOOLEAN /\ stack[n].fDelete \in BOOLEAN /\ f.hFH \in BOOLEAN /\ f.fDelete \in BOOLEAN
  BY <1>1, CurFacts DEF FrameOK
<1>12. /\ Handles(stack') = Handles(stack) - Bit(Cur.hFH) + Bit(f.hFH)
       /\ Searches(stack') = Searches(stack) - Bit(Looking(Cur)) + Bit(Looking(f))
       /\ Temps(stack') = Temps(stack) - Bit(Cur.fDelete) + Bit(f.fDelete)
  BY <1>1, <1>9, <1>10, <1>11 DEF Bit, Looking
<1> QED BY <1>4, <1>5, <1>7, <1>8, <1>12

(* What an action must do besides, so that the invariant is kept: the handle,  *)
(* the search and the temporary file go with the activation, *)
KeepsCounts(f) ==
  /\ misused' = misused /\ open' = open - Bit(Cur.hFH) + Bit(f.hFH)
  /\ searches' \in Int /\ breaks' \in Int /\ breaks' <= breaks
  /\ breaks' = Breaks => searches' = searches - Bit(Looking(Cur)) + Bit(Looking(f))
  /\ temps' = temps - Bit(Cur.fDelete) + Bit(f.fDelete)

(* it knows the variables that it sets, *)
KeepsVariables(f) ==
  /\ f.loop = Cur.loop /\ Cur.used \subseteq f.used
  /\ DOMAIN env' = 1 .. Letters
  /\ \A v \in 1 .. Letters : env'[v] # NULL => env[v] # NULL \/ v = Cur.loop.var \/ v \in f.used

(* and what has ended a FOR is not forgotten. *)
KeepsEnds(f) ==
  /\ jumped' \in BOOLEAN /\ failed' \in BOOLEAN /\ fException' \in BOOLEAN
  /\ Early => Early'
  /\ Cur.nReturn = "ABORT_LINE" => f.nReturn = "ABORT_LINE" \/ Early'
  /\ f.at = "bye" /\ f.fDelete => f.nReturn = "ABORT_LINE" \/ Early'
  /\ fException' => Interrupted(f)

(* Both counts change alike, so that they stay as far apart as they were. *)
LEMMA SameDifference ==
  ASSUME NEW o \in Int, NEW h \in Int, NEW a \in Int, NEW b \in Int
  PROVE  (o - a + b) - (h - a + b) = o - h
OBVIOUS

LEMMA PutKeeps ==
  ASSUME LoopsOK, IInv, stack # <<>>, NEW f, FrameOK(f), Put(f), KeepsCounts(f), KeepsVariables(f), KeepsEnds(f)
  PROVE  IInv'
<1>1. /\ StackInv' /\ stack' # <<>> /\ Cur' = f /\ DOMAIN stack' = DOMAIN stack
      /\ \A i \in DOMAIN stack : stack'[i] = IF i = Len(stack) THEN f ELSE stack[i]
      /\ Handles(stack') = Handles(stack) - Bit(Cur.hFH) + Bit(f.hFH)
      /\ Searches(stack') = Searches(stack) - Bit(Looking(Cur)) + Bit(Looking(f))
      /\ Temps(stack') = Temps(stack) - Bit(Cur.fDelete) + Bit(f.fDelete)
  BY PutFacts DEF IInv
<1>2. Len(stack) \in DOMAIN stack /\ Cur = stack[Len(stack)] BY CurFacts DEF IInv
<1>3. VariablesInv'
  <2>1. DOMAIN env' = 1 .. Letters BY DEF KeepsVariables
  <2> SUFFICES ASSUME misused' = 0, NEW v \in 1 .. Letters, env'[v] # NULL
               PROVE  \E i \in DOMAIN stack' : v = stack'[i].loop.var \/ v \in stack'[i].used
    BY <2>1 DEF VariablesInv
  <2>2. CASE v = Cur.loop.var \/ v \in f.used BY <1>1, <1>2, <2>2 DEF KeepsVariables
  <2>3. CASE env[v] # NULL
    <3>0. misused = 0 BY DEF KeepsCounts
    <3>1. PICK i \in DOMAIN stack : v = stack[i].loop.var \/ v \in stack[i].used
      BY <2>3, <3>0 DEF IInv, VariablesInv
    <3> QED BY <1>1, <1>2, <3>1 DEF KeepsVariables
  <2> QED BY <2>2, <2>3 DEF KeepsVariables
<1>4. CountsInv'
  <2>1. open' - Handles(stack') \in 0 .. misused' /\ misused' \in Nat
    <3>1. /\ Handles(stack) \in Int /\ open \in Int /\ misused \in Nat /\ misused' = misused
          /\ open - Handles(stack) \in 0 .. misused
      BY CountTypes DEF IInv, StackInv, CountsInv, KeepsCounts
    <3>2. Bit(Cur.hFH) \in Int /\ Bit(f.hFH) \in Int BY DEF Bit
    <3>3. open' = open - Bit(Cur.hFH) + Bit(f.hFH) BY DEF KeepsCounts
    <3>4. Handles(stack') = Handles(stack) - Bit(Cur.hFH) + Bit(f.hFH) BY <1>1
    <3>5. open' - Handles(stack') = open - Handles(stack) BY <3>1, <3>2, <3>3, <3>4, SameDifference
    <3> QED BY <3>1, <3>5
  <2>2. breaks' \in Int /\ breaks' <= Breaks /\ (breaks' = Breaks => breaks = Breaks)
    BY DEF LoopsOK, IInv, CountsInv, KeepsCounts
  <2>3. breaks' = Breaks => searches' = Searches(stack)'
    BY <1>1, <2>2 DEF IInv, CountsInv, KeepsCounts, Searches
  <2>4. open' \in Int /\ searches' \in Int /\ temps' \in Int
    BY DEF IInv, CountsInv, KeepsCounts, Bit
  <2> QED BY <2>1, <2>2, <2>3, <2>4 DEF CountsInv, Handles, Searches
<1>5. EndsInv'
  <2>1. temps' = Temps(stack)' \/ Early' \/ Cur'.nReturn = "ABORT_LINE"
    <3>1. temps = Temps(stack) \/ Early \/ Cur.nReturn = "ABORT_LINE" BY DEF IInv, EndsInv
    <3>2. temps = Temps(stack) => temps' = Temps(stack)' BY <1>1 DEF KeepsCounts, Temps
    <3> QED BY <3>1, <3>2, <1>1 DEF KeepsEnds
  <2>2. Cur'.at = "bye" /\ Cur'.fDelete => Early' \/ Cur'.nReturn = "ABORT_LINE" BY <1>1 DEF KeepsEnds
  <2>3. fException' => Interrupted(Cur)' BY <1>1 DEF KeepsEnds, Interrupted
  <2>4. jumped' \in BOOLEAN /\ failed' \in BOOLEAN /\ fException' \in BOOLEAN BY DEF KeepsEnds
  <2> QED BY <1>1, <2>1, <2>2, <2>3, <2>4 DEF EndsInv
<1> QED BY <1>1, <1>3, <1>4, <1>5 DEF IInv

(* Most actions disturb few of these. *)
LEMMA SameCounts ==
  ASSUME IInv, NEW f, f.hFH = Cur.hFH, f.fDelete = Cur.fDelete, Looking(f) <=> Looking(Cur),
         UNCHANGED <<open, searches, temps, misused>>, breaks' = breaks
  PROVE  KeepsCounts(f)
BY DEF IInv, CountsInv, KeepsCounts, Bit

LEMMA SameVariables ==
  ASSUME IInv, NEW f, f.loop = Cur.loop, f.used = Cur.used, UNCHANGED env
  PROVE  KeepsVariables(f)
BY DEF IInv, VariablesInv, KeepsVariables

LEMMA OneVariable ==
  ASSUME IInv, NEW f, f.loop = Cur.loop, f.used = Cur.used, NEW w, SetVariable(w)
  PROVE  KeepsVariables(f)
BY DEF IInv, VariablesInv, KeepsVariables, SetVariable

LEMMA SameEnds ==
  ASSUME IInv, NEW f, UNCHANGED <<jumped, failed, fException, misused>>,
         Cur.nReturn = "ABORT_LINE" => f.nReturn = "ABORT_LINE" \/ Early,
         f.at = "bye" /\ f.fDelete => f.nReturn = "ABORT_LINE" \/ Early,
         fException => Interrupted(f)
  PROVE  KeepsEnds(f)
BY DEF IInv, EndsInv, KeepsEnds, Early

(* In a turn of the inner loop nothing has ended the FOR yet. *)
LEMMA TurnFacts ==
  ASSUME IInv, Turn
  PROVE  stack # <<>> /\ StackInv /\ FrameOK(Cur) /\ Cur.at = "loop" /\ ~fException /\ ~jumped /\ Cur.nReturn # "ABORT_LINE"
BY CurFacts DEF IInv, Turn, At

LEMMA AtFacts ==
  ASSUME IInv, NEW p, At(p)
  PROVE  stack # <<>> /\ StackInv /\ FrameOK(Cur) /\ Cur.at = p /\ (fException => Interrupted(Cur))
BY CurFacts DEF IInv, EndsInv, At
-----------------------------------------------------------------------------
(* One lemma for each action. *)
LEMMA BeginStep == ASSUME LoopsOK, IInv, Begin PROVE IInv'
<1> DEFINE f == [Cur EXCEPT !.at = "arg", !.fDelete = Is("command")]
<1>1. stack # <<>> /\ FrameOK(Cur) /\ Cur.at = "begin" /\ (fException => Interrupted(Cur)) BY AtFacts DEF Begin
<1>2. ~fException /\ ~Cur.fDelete /\ Cur.nReturn # "ABORT_LINE" BY <1>1 DEF FrameOK, Interrupted
<1>3. Put(f) BY DEF Begin
<1>4. /\ DOMAIN f = Fields /\ f.loop = Cur.loop /\ f.used = Cur.used /\ f.hFH = Cur.hFH /\ f.found = Cur.found
      /\ f.argc = Cur.argc /\ f.args = Cur.args /\ f.nReturn = Cur.nReturn
      /\ f.at = "arg" /\ (f.fDelete <=> Cur.loop.kind = "command") /\ f.fDelete \in BOOLEAN
  BY <1>1 DEF FrameOK, Fields, Is
<1> HIDE DEF f
<1>5. FrameOK(f) BY <1>1, <1>2, <1>4 DEF FrameOK, Places, Looking
<1>6. KeepsCounts(f)
  <2>1. temps' = temps - Bit(Cur.fDelete) + Bit(f.fDelete)
    BY <1>2, <1>4 DEF Begin, Is, Bit, IInv, CountsInv
  <2>2. open' = open - Bit(Cur.hFH) + Bit(f.hFH) BY <1>4 DEF Begin, Bit, IInv, CountsInv
  <2>3. breaks' \in Int /\ breaks' <= breaks BY DEF Begin, IInv, CountsInv
  <2>4. searches' = searches - Bit(Looking(Cur)) + Bit(Looking(f)) /\ searches' \in Int
    BY <1>1, <1>4 DEF Begin, Bit, Looking, IInv, CountsInv
  <2> QED BY <2>1, <2>2, <2>3, <2>4 DEF KeepsCounts, Begin
<1>7. KeepsVariables(f) BY <1>4, SameVariables DEF Begin
<1>8. KeepsEnds(f)
  <2>1. jumped' = jumped /\ failed' = failed /\ misused' = misused /\ fException' \in BOOLEAN
    BY DEF Begin, IInv, EndsInv
  <2>2. fException' => f.fDelete BY <1>2, <1>4 DEF Begin, Is
  <2> QED BY <1>2, <1>4, <2>1, <2>2 DEF KeepsEnds, Early, Interrupted, IInv, EndsInv
<1> QED BY <1>1, <1>3, <1>5, <1>6, <1>7, <1>8, PutKeeps

LEMMA MemberStep == ASSUME LoopsOK, IInv, Member PROVE IInv'
<1> DEFINE f == [Cur EXCEPT !.at = "loop", !.found = 0,
                            !.source = IF Is("step") THEN [type |-> "text", word |-> <<Cur.number>>]
                                       ELSE Cur.args[Cur.argc]]
<1>1. stack # <<>> /\ FrameOK(Cur) /\ Cur.at = "arg" BY AtFacts DEF Member
<1>2. Put(f) BY DEF Member
<1>3. /\ DOMAIN f = Fields /\ f.loop = Cur.loop /\ f.used = Cur.used /\ f.hFH = Cur.hFH /\ f.found = 0
      /\ f.fDelete = Cur.fDelete /\ f.nReturn = Cur.nReturn /\ f.at = "loop"
  BY <1>1 DEF FrameOK, Fields
<1> HIDE DEF f
<1>4. FrameOK(f) BY <1>1, <1>3 DEF FrameOK, Places, Looking
<1>5. KeepsCounts(f) BY <1>1, <1>3, SameCounts DEF Member, files, rest, Looking
<1>6. KeepsVariables(f) BY <1>3, SameVariables DEF Member
<1>7. KeepsEnds(f) BY <1>3, SameEnds DEF Member, rest, Interrupted
<1> QED BY <1>1, <1>2, <1>4, <1>5, <1>6, <1>7, PutKeeps

(* An activation that leaves with a value. *)
Left(f, g, r) ==
  /\ FrameOK(f) /\ f.loop = g.loop /\ f.used = g.used /\ f.hFH = g.hFH /\ f.found = g.found
  /\ f.fDelete = g.fDelete /\ f.nReturn = r /\ f.at = "bye" /\ ~Looking(f)

LEMMA NoMemberStep == ASSUME LoopsOK, IInv, NoMember PROVE IInv'
<1> DEFINE f == [Cur EXCEPT !.at = "bye", !.nReturn = Cur.nReturn]
<1>1. stack # <<>> /\ FrameOK(Cur) /\ Cur.at = "arg" /\ (fException => Interrupted(Cur)) BY AtFacts DEF NoMember
<1>2. Put(f) BY DEF NoMember, Leave
<1>0. f = [Cur EXCEPT !.at = "bye", !.nReturn = Cur.nReturn] OBVIOUS
<1> HIDE DEF f
<1>3. Left(f, Cur, Cur.nReturn) BY <1>0, <1>1 DEF FrameOK, Fields, Places, Looking, Left
<1>4. ~Cur.fDelete
  <2> SUFFICES ASSUME Cur.fDelete PROVE FALSE OBVIOUS
  <2>1. Cur.argc = 1 /\ Cur.args = Cur.loop.args /\ Cur.loop.kind = "command" /\ Cur.loop \in Loops
    BY <1>1 DEF FrameOK
  <2>2. Len(Cur.args) = 1 BY <2>1 DEF LoopsOK
  <2> QED BY <2>1, <2>2 DEF NoMember
<1>5. KeepsCounts(f) BY <1>1, <1>3, SameCounts DEF NoMember, files, rest, Looking, Left
<1>6. KeepsVariables(f) BY <1>3, SameVariables DEF NoMember, Left
<1>7. KeepsEnds(f) BY <1>1, <1>3, <1>4, SameEnds DEF NoMember, rest, Interrupted, FrameOK, Left
<1> QED BY <1>1, <1>2, <1>3, <1>5, <1>6, <1>7, PutKeeps DEF Left

LEMMA StopsStep == ASSUME LoopsOK, IInv, Stops PROVE IInv'
<1> DEFINE r == IF fException THEN "CTRLC" ELSE Cur.nReturn
           f == [Cur EXCEPT !.at = "bye", !.nReturn = r]
<1>1. stack # <<>> /\ FrameOK(Cur) /\ Cur.at = "loop" BY AtFacts DEF Stops
<1>2. Put(f) BY DEF Stops, Leave
<1>0. f = [Cur EXCEPT !.at = "bye", !.nReturn = r] OBVIOUS
<1> HIDE DEF f, r
<1>3. Left(f, Cur, r) BY <1>0, <1>1 DEF FrameOK, Fields, Places, Looking, Left
<1>4. KeepsCounts(f)
  <2>1. searches' = searches - Bit(Looking(Cur)) + Bit(Looking(f)) /\ searches' \in Int
    BY <1>1, <1>3 DEF Stops, Bit, Looking, IInv, CountsInv, Left
  <2> QED BY <1>3, <2>1 DEF Stops, rest, Bit, KeepsCounts, IInv, CountsInv, Left
<1>5. KeepsVariables(f) BY <1>3, SameVariables DEF Stops, Left
<1>6. KeepsEnds(f) BY <1>3, SameEnds DEF Stops, rest, Interrupted, Early, Left, r
<1> QED BY <1>1, <1>2, <1>3, <1>4, <1>5, <1>6, PutKeeps DEF Left

(* In a turn, only the counts and the variables matter. *)
LEMMA TurnKeeps ==
  ASSUME LoopsOK, IInv, Turn, NEW f, FrameOK(f), Put(f), KeepsCounts(f), KeepsVariables(f),
         UNCHANGED <<jumped, failed, fException, misused>>, ~(f.at = "bye" /\ f.fDelete)
  PROVE  IInv'
<1>1. stack # <<>> /\ ~fException /\ Cur.nReturn # "ABORT_LINE" BY TurnFacts
<1>2. KeepsEnds(f) BY <1>1, SameEnds
<1> QED BY <1>1, <1>2, PutKeeps

LEMMA OverKeeps ==
  ASSUME LoopsOK, IInv, Turn, NEW g, g = Cur \/ g = [Cur EXCEPT !.hFH = FALSE], Over(g),
         open' = open - Bit(Cur.hFH) + Bit(g.hFH), searches' = searches - Bit(Looking(Cur)),
         UNCHANGED <<env, rest>>
  PROVE  IInv'
<1> DEFINE h == [g EXCEPT !.fDelete = FALSE]
           f == [h EXCEPT !.at = "arg", !.argc = h.argc + 1]
<1>1. stack # <<>> /\ FrameOK(Cur) BY TurnFacts
<1>2. /\ DOMAIN g = Fields /\ g.loop = Cur.loop /\ g.used = Cur.used /\ g.hFH \in BOOLEAN /\ g.found = Cur.found
      /\ g.fDelete = Cur.fDelete /\ g.nReturn = Cur.nReturn
  BY <1>1 DEF FrameOK, Fields
<1>3. Put(f) BY DEF Over, NextMember
<1>4. /\ DOMAIN f = Fields /\ f.loop = Cur.loop /\ f.used = Cur.used /\ f.hFH = g.hFH /\ f.found = Cur.found
      /\ f.fDelete = FALSE /\ f.nReturn = Cur.nReturn /\ f.at = "arg"
  BY <1>2 DEF Fields
<1> HIDE DEF f
<1>5. Cur.nReturn # "ABORT_LINE" BY TurnFacts
<1>6. FrameOK(f) BY <1>1, <1>2, <1>4, <1>5 DEF FrameOK, Places, Looking
<1>7. KeepsCounts(f)
  <2>1. temps' = temps - Bit(Cur.fDelete) + Bit(f.fDelete) BY <1>1, <1>2, <1>4 DEF Over, Bit, IInv, CountsInv
  <2>2. open' = open - Bit(Cur.hFH) + Bit(f.hFH) BY <1>4
  <2>3. searches' = searches - Bit(Looking(Cur)) + Bit(Looking(f)) /\ searches' \in Int
    BY <1>4 DEF Bit, Looking, IInv, CountsInv
  <2>4. breaks' \in Int /\ breaks' <= breaks BY DEF rest, IInv, CountsInv
  <2> QED BY <2>1, <2>2, <2>3, <2>4 DEF KeepsCounts, rest
<1>8. KeepsVariables(f) BY <1>4, SameVariables
<1> QED BY <1>3, <1>4, <1>6, <1>7, <1>8, TurnKeeps DEF rest

(* A member that is no search, or is used up, has none open. *)
LEMMA NoSearch ==
  ASSUME IInv, Turn, Cur.source = NULL \/ Cur.source.type # "wild"
  PROVE  Cur.found = 0 /\ ~Looking(Cur)
BY TurnFacts DEF FrameOK, Looking

LEMMA UsedUpStep == ASSUME LoopsOK, IInv, UsedUp PROVE IInv'
<1>1. Turn /\ ~Looking(Cur) BY NoSearch DEF UsedUp
<1>2. open' = open - Bit(Cur.hFH) + Bit(Cur.hFH) /\ searches' = searches - Bit(Looking(Cur))
  BY <1>1 DEF UsedUp, Bit, IInv, CountsInv
<1> QED BY <1>1, <1>2, OverKeeps DEF UsedUp

LEMMA NoFileStep == ASSUME LoopsOK, IInv, NoFile PROVE IInv'
<1>1. Turn /\ ~Looking(Cur) BY NoSearch DEF NoFile, Source
<1>2. open' = open - Bit(Cur.hFH) + Bit(Cur.hFH) /\ searches' = searches - Bit(Looking(Cur))
  BY <1>1 DEF NoFile, Bit, IInv, CountsInv
<1> QED BY <1>1, <1>2, OverKeeps DEF NoFile

LEMMA EndOfFileStep == ASSUME LoopsOK, IInv, EndOfFile PROVE IInv'
<1> DEFINE g == [Cur EXCEPT !.hFH = FALSE]
<1>1. Turn /\ ~Looking(Cur) BY NoSearch DEF EndOfFile, Source
<1>2. FrameOK(Cur) BY <1>1, TurnFacts
<1>3. g.hFH = FALSE BY <1>2 DEF FrameOK, Fields
<1>4. open' = open - Bit(Cur.hFH) + Bit(g.hFH) /\ searches' = searches - Bit(Looking(Cur))
  BY <1>1, <1>3 DEF EndOfFile, Bit, IInv, CountsInv
<1>5. Over(g) /\ UNCHANGED <<env, rest>> BY DEF EndOfFile
<1>6. g = [Cur EXCEPT !.hFH = FALSE] OBVIOUS
<1> HIDE DEF g
<1> QED BY <1>1, <1>4, <1>5, <1>6, OverKeeps

LEMMA TextStep == ASSUME LoopsOK, IInv, Text PROVE IInv'
<1>1. Turn /\ ~FileSet /\ Cur.source # NULL /\ Cur.source.type = "text" BY DEF Text, Source
<1>2. stack # <<>> /\ FrameOK(Cur) /\ Cur.at = "loop" /\ Cur.nReturn # "ABORT_LINE" BY <1>1, TurnFacts
<1>3. Cur.found = 0 /\ ~Looking(Cur) BY <1>1, NoSearch
<1>4. ~Cur.fDelete BY <1>1, <1>2 DEF FrameOK, FileSet, Is
<1>5. CASE Is("step") /\ Passed
  <2> DEFINE f == [Cur EXCEPT !.at = "bye", !.nReturn = Cur.nReturn]
  <2>1. Put(f) BY <1>5 DEF Text, Leave
  <2>0. f = [Cur EXCEPT !.at = "bye", !.nReturn = Cur.nReturn] OBVIOUS
  <2> HIDE DEF f
  <2>2. Left(f, Cur, Cur.nReturn) BY <2>0, <1>2 DEF FrameOK, Fields, Places, Looking, Left
  <2>3. KeepsCounts(f) BY <1>3, <2>2, SameCounts DEF Text, files, rest, Left
  <2>4. KeepsVariables(f) BY <2>2, OneVariable DEF Text, Left
  <2> QED BY <1>1, <1>4, <2>1, <2>2, <2>3, <2>4, TurnKeeps DEF Left, Text, rest
<1>6. CASE ~(Is("step") /\ Passed)
  <2> DEFINE f == [Cur EXCEPT !.at = "exec", !.source = NULL, !.number = Cur.number + Cur.loop.step]
  <2>1. Put(f) BY <1>6 DEF Text
  <2>2. /\ DOMAIN f = Fields /\ f.loop = Cur.loop /\ f.used = Cur.used /\ f.hFH = Cur.hFH /\ f.found = Cur.found
        /\ f.fDelete = Cur.fDelete /\ f.nReturn = Cur.nReturn /\ f.at = "exec"
    BY <1>2 DEF FrameOK, Fields
  <2> HIDE DEF f
  <2>3. FrameOK(f) BY <1>2, <1>3, <2>2 DEF FrameOK, Places, Looking
  <2>4. KeepsCounts(f) BY <1>3, <2>2, SameCounts DEF Text, files, rest, Looking
  <2>5. KeepsVariables(f) BY <2>2, OneVariable DEF Text
  <2> QED BY <1>1, <2>1, <2>2, <2>3, <2>4, <2>5, TurnKeeps DEF Text, rest
<1> QED BY <1>5, <1>6

LEMMA SlashStep == ASSUME LoopsOK, IInv, Slash PROVE IInv'
<1> DEFINE f == [Cur EXCEPT !.at = "exec", !.source = NULL, !.argc = @ - 1,
                   !.args = IF Cur.source.left = NULL THEN RemoveAt(@, Cur.argc)
                            ELSE ReplaceAt(@, Cur.argc, [type |-> "text", word |-> Cur.source.left])]
<1>1. Turn /\ Cur.source # NULL /\ Cur.source.type = "slash" BY DEF Slash, Source
<1>2. stack # <<>> /\ FrameOK(Cur) /\ Cur.at = "loop" /\ Cur.nReturn # "ABORT_LINE" BY <1>1, TurnFacts
<1>3. Cur.found = 0 /\ ~Looking(Cur) BY <1>1, NoSearch
<1>4. Put(f) BY DEF Slash
<1>5. /\ DOMAIN f = Fields /\ f.loop = Cur.loop /\ f.used = Cur.used /\ f.hFH = Cur.hFH /\ f.found = Cur.found
      /\ f.fDelete = Cur.fDelete /\ f.nReturn = Cur.nReturn /\ f.at = "exec"
  BY <1>2 DEF FrameOK, Fields
<1> HIDE DEF f
<1>6. FrameOK(f) BY <1>2, <1>3, <1>5 DEF FrameOK, Places, Looking
<1>7. KeepsCounts(f) BY <1>3, <1>5, SameCounts DEF Slash, files, rest, Looking
<1>8. KeepsVariables(f) BY <1>5, OneVariable DEF Slash
<1> QED BY <1>1, <1>4, <1>5, <1>6, <1>7, <1>8, TurnKeeps DEF Slash, rest

LEMMA FindStep == ASSUME LoopsOK, IInv, Find PROVE IInv'
<1>1. Turn /\ Cur.source # NULL /\ Cur.source.type = "wild" BY DEF Find, Source
<1>2. stack # <<>> /\ FrameOK(Cur) /\ Cur.at = "loop" /\ Cur.nReturn # "ABORT_LINE" BY <1>1, TurnFacts
<1>3. Cur.found \in Nat /\ (Looking(Cur) <=> Cur.found > 0) BY <1>2 DEF FrameOK, Looking
<1>4. UNCHANGED <<open, rest>> BY DEF Find
<1>5. CASE Cur.found = Len(Cur.source.names)
  <2>1. open' = open - Bit(Cur.hFH) + Bit(Cur.hFH) /\ searches' = searches - Bit(Looking(Cur))
    BY <1>3, <1>5 DEF Find, Bit, IInv, CountsInv
  <2> QED BY <1>1, <1>4, <1>5, <2>1, OverKeeps DEF Find
<1>6. CASE Cur.found # Len(Cur.source.names)
  <2>1. PICK p \in {"loop", "exec"} : /\ Put([Cur EXCEPT !.found = Cur.found + 1, !.at = p])
                                      /\ UNCHANGED env \/ \E w : SetVariable(w)
    <3> DEFINE n == Cur.source.names[Cur.found + 1]
    <3>1. CASE n = "." /\ Cur.loop.nodots
      <4>1. Put([Cur EXCEPT !.found = Cur.found + 1]) /\ UNCHANGED env BY <1>6, <3>1 DEF Find
      <4>2. [Cur EXCEPT !.found = Cur.found + 1] = [Cur EXCEPT !.found = Cur.found + 1, !.at = "loop"]
        BY <1>2 DEF FrameOK, Fields
      <4> QED BY <4>1, <4>2
    <3>2. CASE ~(n = "." /\ Cur.loop.nodots)
      BY <1>6, <3>2 DEF Find
    <3> QED BY <3>1, <3>2
  <2> DEFINE f == [Cur EXCEPT !.found = Cur.found + 1, !.at = p]
  <2>2. /\ DOMAIN f = Fields /\ f.loop = Cur.loop /\ f.used = Cur.used /\ f.hFH = Cur.hFH /\ f.found = Cur.found + 1
        /\ f.fDelete = Cur.fDelete /\ f.nReturn = Cur.nReturn /\ f.at = p /\ f.source = Cur.source
    BY <1>2 DEF FrameOK, Fields
  <2> HIDE DEF f
  <2>3. FrameOK(f) BY <1>1, <1>2, <1>3, <2>2 DEF FrameOK, Places, Looking
  <2>4. Looking(f) BY <1>3, <2>2 DEF Looking
  <2>5. searches' = searches - Bit(Looking(Cur)) + Bit(Looking(f)) /\ searches' \in Int /\ temps' = temps
    BY <1>3, <1>6, <2>4 DEF Find, Bit, IInv, CountsInv
  <2>6. KeepsCounts(f) BY <1>4, <2>2, <2>5 DEF KeepsCounts, rest, Bit, IInv, CountsInv
  <2>7. KeepsVariables(f) BY <2>1, <2>2, SameVariables, OneVariable
  <2>8. Put(f) BY <2>1 DEF f
  <2> QED BY <1>1, <1>4, <2>2, <2>3, <2>6, <2>7, <2>8, TurnKeeps DEF rest
<1> QED BY <1>5, <1>6

LEMMA OpenStep == ASSUME LoopsOK, IInv, Open PROVE IInv'
<1>1. Turn /\ ~Cur.hFH /\ Cur.source # NULL /\ Cur.source.type # "wild" BY DEF Open, Source
<1>2. stack # <<>> /\ FrameOK(Cur) /\ Cur.at = "loop" /\ Cur.nReturn # "ABORT_LINE" BY <1>1, TurnFacts
<1>3. Cur.found = 0 /\ ~Looking(Cur) BY <1>1, NoSearch
<1>4. UNCHANGED <<env, searches, temps, jumped, breaks, fException, misused, seen, returned>> BY DEF Open
<1>5. ASSUME open' = open + 1, Put([Cur EXCEPT !.hFH = TRUE, !.lines = Cur.source.lines]), UNCHANGED failed
      PROVE  IInv'
  <2> DEFINE f == [Cur EXCEPT !.hFH = TRUE, !.lines = Cur.source.lines]
  <2>1. /\ DOMAIN f = Fields /\ f.loop = Cur.loop /\ f.used = Cur.used /\ f.hFH = TRUE /\ f.found = Cur.found
        /\ f.fDelete = Cur.fDelete /\ f.nReturn = Cur.nReturn /\ f.at = "loop"
    BY <1>2 DEF FrameOK, Fields
  <2>2. Put(f) BY <1>5
  <2> HIDE DEF f
  <2>3. FrameOK(f) BY <1>2, <1>3, <2>1 DEF FrameOK, Places, Looking
  <2>4. KeepsCounts(f) BY <1>1, <1>3, <1>4, <1>5, <2>1 DEF Open, KeepsCounts, Looking, Bit, IInv, CountsInv
  <2>5. KeepsVariables(f) BY <1>4, <2>1, SameVariables
  <2> QED BY <1>1, <1>4, <1>5, <2>1, <2>2, <2>3, <2>4, <2>5, TurnKeeps
<1>6. ASSUME Leave(Cur, "error"), failed' = TRUE, UNCHANGED open
      PROVE  IInv'
  <2> DEFINE f == [Cur EXCEPT !.at = "bye", !.nReturn = "error"]
  <2>0. f = [Cur EXCEPT !.at = "bye", !.nReturn = "error"] OBVIOUS
  <2>1. Put(f) BY <1>6 DEF Leave
  <2> HIDE DEF f
  <2>2. Left(f, Cur, "error") BY <2>0, <1>2 DEF FrameOK, Fields, Places, Looking, Left
  <2>3. KeepsCounts(f) BY <1>3, <1>4, <1>6, <2>2, SameCounts DEF Open, Left
  <2>4. KeepsVariables(f) BY <1>4, <2>2, SameVariables DEF Left
  <2>5. ~fException BY <1>1 DEF Turn
  <2>6. KeepsEnds(f) BY <1>4, <1>6, <2>5 DEF Open, KeepsEnds, Early, IInv, EndsInv
  <2> QED BY <1>2, <2>1, <2>2, <2>3, <2>4, <2>6, PutKeeps DEF Left
<1> QED BY <1>5, <1>6 DEF Open

(* A line of a file: what is read of it is not counted. *)
LEMMA LineFacts ==
  ASSUME IInv, LineRead
  PROVE  /\ Turn /\ stack # <<>> /\ FrameOK(Cur) /\ Cur.at = "loop" /\ Cur.nReturn # "ABORT_LINE"
         /\ Cur.found = 0 /\ ~Looking(Cur)
<1>1. Turn /\ Cur.source.type # "wild" BY DEF LineRead, Source
<1> QED BY <1>1, TurnFacts, NoSearch

LEMMA LineKeeps ==
  ASSUME LoopsOK, IInv, Turn, ~Looking(Cur), Cur.found = 0, NEW f, DOMAIN f = Fields,
         f.loop = Cur.loop, f.hFH = Cur.hFH, f.found = Cur.found, f.fDelete = Cur.fDelete,
         f.nReturn = Cur.nReturn, f.at \in {"loop", "exec"}, KeepsVariables(f), Put(f), UNCHANGED <<files, rest>>
  PROVE  IInv'
<1>1. FrameOK(Cur) /\ Cur.nReturn # "ABORT_LINE" BY TurnFacts
<1>2. FrameOK(f) BY <1>1 DEF FrameOK, Places, Looking
<1>3. KeepsCounts(f) BY SameCounts DEF files, rest, Looking
<1> QED BY <1>2, <1>3, TurnKeeps DEF rest

LEMMA LinePassesStep == ASSUME LoopsOK, IInv, LinePasses PROVE IInv'
<1>1. /\ Turn /\ stack # <<>> /\ FrameOK(Cur) /\ Cur.at = "loop" /\ Cur.nReturn # "ABORT_LINE"
      /\ Cur.found = 0 /\ ~Looking(Cur)
  BY LineFacts DEF LinePasses
<1>2. PICK f \in {Read, [Read EXCEPT !.skip = @ - 1]} : Put(f) BY DEF LinePasses
<1>3. /\ DOMAIN f = Fields /\ f.loop = Cur.loop /\ f.used = Cur.used /\ f.hFH = Cur.hFH /\ f.found = Cur.found
      /\ f.fDelete = Cur.fDelete /\ f.nReturn = Cur.nReturn /\ f.at = "loop"
  BY <1>1 DEF FrameOK, Fields, Read
<1>4. KeepsVariables(f) BY <1>3, SameVariables DEF LinePasses
<1> QED BY <1>1, <1>2, <1>3, <1>4, LineKeeps DEF LinePasses

LEMMA LineIsValueStep == ASSUME LoopsOK, IInv, LineIsValue PROVE IInv'
<1>1. /\ Turn /\ stack # <<>> /\ FrameOK(Cur) /\ Cur.at = "loop" /\ Cur.nReturn # "ABORT_LINE"
      /\ Cur.found = 0 /\ ~Looking(Cur)
  BY LineFacts DEF LineIsValue
<1> DEFINE f == [Read EXCEPT !.at = "exec"]
<1>2. Put(f) BY DEF LineIsValue
<1>3. /\ DOMAIN f = Fields /\ f.loop = Cur.loop /\ f.used = Cur.used /\ f.hFH = Cur.hFH /\ f.found = Cur.found
      /\ f.fDelete = Cur.fDelete /\ f.nReturn = Cur.nReturn /\ f.at = "exec"
  BY <1>1 DEF FrameOK, Fields, Read
<1> HIDE DEF f
<1>4. KeepsVariables(f) BY <1>3, OneVariable DEF LineIsValue
<1> QED BY <1>1, <1>2, <1>3, <1>4, LineKeeps DEF LineIsValue

(* The variables that a line sets are those that are used from then on. *)
LEMMA WordsKept ==
  ASSUME IInv, NEW words, env' = Given(words, Cur), NEW f, f.loop = Cur.loop, f.used = Cur.used \cup Uses(Cur)
  PROVE  KeepsVariables(f)
BY DEF Given, Uses, KeepsVariables, IInv, VariablesInv

LEMMA LineHasWordsStep == ASSUME LoopsOK, IInv, LineHasWords PROVE IInv'
<1>1. /\ Turn /\ stack # <<>> /\ FrameOK(Cur) /\ Cur.at = "loop" /\ Cur.nReturn # "ABORT_LINE"
      /\ Cur.found = 0 /\ ~Looking(Cur)
  BY LineFacts DEF LineHasWords
<1> DEFINE f == [Read EXCEPT !.at = "exec", !.used = Read.used \cup Uses(Cur)]
<1>2. Put(f) BY DEF LineHasWords
<1>3. /\ DOMAIN f = Fields /\ f.loop = Cur.loop /\ f.used = Cur.used \cup Uses(Cur) /\ f.hFH = Cur.hFH
      /\ f.found = Cur.found /\ f.fDelete = Cur.fDelete /\ f.nReturn = Cur.nReturn /\ f.at = "exec"
  BY <1>1 DEF FrameOK, Fields, Read
<1> HIDE DEF f
<1>4. KeepsVariables(f) BY <1>3, WordsKept DEF LineHasWords
<1> QED BY <1>1, <1>2, <1>3, <1>4, LineKeeps DEF LineHasWords

LEMMA StringStep == ASSUME LoopsOK, IInv, String PROVE IInv'
<1>1. Turn /\ Cur.source # NULL /\ Cur.source.type = "string" BY DEF String, Source
<1>2. FrameOK(Cur) /\ Cur.at = "loop" /\ Cur.found = 0 /\ ~Looking(Cur) BY <1>1, TurnFacts, NoSearch
<1>3. CASE Cur.source.words = <<>>
  <2> DEFINE f == [Cur EXCEPT !.source = NULL]
  <2>1. Put(f) /\ UNCHANGED env BY <1>3 DEF String
  <2>2. /\ DOMAIN f = Fields /\ f.loop = Cur.loop /\ f.used = Cur.used /\ f.hFH = Cur.hFH
        /\ f.found = Cur.found /\ f.fDelete = Cur.fDelete /\ f.nReturn = Cur.nReturn /\ f.at = "loop"
    BY <1>2 DEF FrameOK, Fields
  <2> HIDE DEF f
  <2>3. KeepsVariables(f) BY <2>1, <2>2, SameVariables
  <2> QED BY <1>1, <1>2, <2>1, <2>2, <2>3, LineKeeps DEF String
<1>4. CASE Cur.source.words # <<>>
  <2> DEFINE f == [Cur EXCEPT !.source = NULL, !.at = "exec", !.used = Cur.used \cup Uses(Cur)]
  <2>1. Put(f) /\ env' = Given(Cur.source.words, Cur) BY <1>4 DEF String
  <2>2. /\ DOMAIN f = Fields /\ f.loop = Cur.loop /\ f.used = Cur.used \cup Uses(Cur) /\ f.hFH = Cur.hFH
        /\ f.found = Cur.found /\ f.fDelete = Cur.fDelete /\ f.nReturn = Cur.nReturn /\ f.at = "exec"
    BY <1>2 DEF FrameOK, Fields
  <2> HIDE DEF f
  <2>3. KeepsVariables(f) BY <2>1, <2>2, WordsKept
  <2> QED BY <1>1, <1>2, <2>1, <2>2, <2>3, LineKeeps DEF String
<1> QED BY <1>3, <1>4

(* Before a command nothing has ended the FOR. *)
LEMMA ExecFacts ==
  ASSUME IInv, At("exec")
  PROVE  stack # <<>> /\ FrameOK(Cur) /\ Cur.at = "exec" /\ ~fException /\ Cur.nReturn # "ABORT_LINE"
BY AtFacts DEF Interrupted, FrameOK

LEMMA ExecStep == ASSUME LoopsOK, IInv, Exec PROVE IInv'
<1>1. stack # <<>> /\ FrameOK(Cur) /\ Cur.at = "exec" /\ ~fException /\ Cur.nReturn # "ABORT_LINE"
  BY ExecFacts DEF Exec
<1>2. /\ jumped' \in BOOLEAN /\ (jumped => jumped') /\ fException' \in BOOLEAN
      /\ breaks' \in Int /\ breaks' <= breaks
  <2>1. jumped \in BOOLEAN /\ fException \in BOOLEAN /\ breaks \in Int BY DEF IInv, EndsInv, CountsInv
  <2>2. \/ UNCHANGED <<jumped, fException, breaks>>
        \/ jumped' = TRUE /\ UNCHANGED <<fException, breaks>>
        \/ breaks' = breaks - 1 /\ fException' = TRUE /\ UNCHANGED jumped
    BY DEF Exec
  <2>3. jumped' \in BOOLEAN /\ (jumped => jumped') /\ fException' \in BOOLEAN BY <2>1, <2>2, Zenon
  <2>4. breaks' \in Int /\ breaks' <= breaks BY <2>1, <2>2
  <2> QED BY <2>3, <2>4
<1>9. PICK r \in {"0", "ABORT_LINE", "CTRLC"} : Put([Cur EXCEPT !.at = "loop", !.nReturn = r])
  BY DEF Exec
<1> DEFINE f == [Cur EXCEPT !.at = "loop", !.nReturn = r]
<1>3. /\ DOMAIN f = Fields /\ f.loop = Cur.loop /\ f.used = Cur.used /\ f.hFH = Cur.hFH /\ f.found = Cur.found
      /\ f.fDelete = Cur.fDelete /\ f.nReturn = r /\ f.at = "loop" /\ f.source = Cur.source
  BY <1>1 DEF FrameOK, Fields
<1>4. Put(f) BY <1>9
<1> HIDE DEF f
<1>5. FrameOK(f) BY <1>1, <1>3 DEF FrameOK, Places, Looking
<1>6. KeepsCounts(f) BY <1>1, <1>2, <1>3 DEF Exec, files, KeepsCounts, Looking, Bit, IInv, CountsInv
<1>7. KeepsVariables(f) BY <1>3, SameVariables DEF Exec
<1>8. KeepsEnds(f) BY <1>1, <1>2, <1>3 DEF Exec, KeepsEnds, Early, Interrupted, IInv, EndsInv
<1> QED BY <1>1, <1>4, <1>5, <1>6, <1>7, <1>8, PutKeeps

LEMMA InterruptStep == ASSUME LoopsOK, IInv, Interrupt PROVE IInv'
<1>1. Turn BY DEF Interrupt
<1>2. stack # <<>> /\ FrameOK(Cur) /\ Cur.at = "loop" BY <1>1, TurnFacts
<1> DEFINE f == [Cur EXCEPT !.at = "bye", !.nReturn = "CTRLC"]
<1>3. Put(f) BY DEF Interrupt, Leave
<1>4. f = [Cur EXCEPT !.at = "bye", !.nReturn = "CTRLC"] OBVIOUS
<1> HIDE DEF f
<1>5. Left(f, Cur, "CTRLC") BY <1>2, <1>4 DEF FrameOK, Fields, Places, Looking, Left
<1>6. KeepsCounts(f)
  <2>1. breaks' \in Int /\ breaks' <= breaks /\ breaks' # Breaks BY DEF Interrupt, IInv, CountsInv, LoopsOK
  <2>2. searches' \in Int BY DEF Interrupt, IInv, CountsInv
  <2>3. open' = open - Bit(Cur.hFH) + Bit(f.hFH) /\ temps' = temps - Bit(Cur.fDelete) + Bit(f.fDelete)
    BY <1>5 DEF Interrupt, Left, Bit, IInv, CountsInv
  <2> QED BY <2>1, <2>2, <2>3 DEF Interrupt, KeepsCounts
<1>7. KeepsVariables(f) BY <1>5, SameVariables DEF Interrupt, Left
<1>8. KeepsEnds(f) BY <1>5 DEF Interrupt, Left, KeepsEnds, Early, Interrupted, IInv, EndsInv
<1> QED BY <1>2, <1>3, <1>5, <1>6, <1>7, <1>8, PutKeeps DEF Left

(* A FOR as the command of a FOR: one activation more, which has nothing yet. *)
LEMMA ExecForStep == ASSUME LoopsOK, IInv, ExecFor PROVE IInv'
<1> DEFINE n == Len(stack)
           e == [Cur EXCEPT !.at = "loop"]
           f == NewFrame(Cur.loop.body)
<1>1. stack # <<>> /\ FrameOK(Cur) /\ Cur.at = "exec" /\ ~fException /\ Cur.nReturn # "ABORT_LINE"
  BY ExecFacts DEF ExecFor
<1>2. IsSeq(stack) /\ n \in Nat \ {0} /\ DOMAIN stack = 1 .. n /\ n \in DOMAIN stack /\ Cur = stack[n]
  BY <1>1, CurFacts DEF IInv
<1>3. /\ DOMAIN e = Fields /\ e.loop = Cur.loop /\ e.used = Cur.used /\ e.hFH = Cur.hFH /\ e.found = Cur.found
      /\ e.fDelete = Cur.fDelete /\ e.nReturn = Cur.nReturn /\ e.at = "loop" /\ e.source = Cur.source
  BY <1>1 DEF FrameOK, Fields
<1>4. Cur.loop.body \in Loops BY <1>1 DEF ExecFor, LoopsOK, FrameOK
<1>5. /\ DOMAIN f = Fields /\ f.loop = Cur.loop.body /\ f.at = "begin" /\ f.hFH = FALSE /\ f.fDelete = FALSE
      /\ f.found = 0 /\ f.argc = 1 /\ f.args = f.loop.args /\ f.nReturn = "0"
  BY DEF NewFrame, Fields
<1>6. stack' = Append(Front(stack) \o <<e>>, f) BY DEF ExecFor
<1> HIDE DEF e, f
<1>7. FrameOK(e) /\ (Looking(e) <=> Looking(Cur)) BY <1>1, <1>3 DEF FrameOK, Places, Looking
<1>8. FrameOK(f) /\ ~Looking(f)
  <2>1. ~Looking(f) /\ f.at \in Places /\ f.found \in Nat /\ f.nReturn # "ABORT_LINE" BY <1>5 DEF Looking, Places
  <2>2. f.loop \in Loops /\ f.hFH \in BOOLEAN /\ f.fDelete \in BOOLEAN /\ ~f.fDelete BY <1>4, <1>5
  <2>3. f.argc = 1 /\ f.args = f.loop.args BY <1>5
  <2> QED BY <1>5, <2>1, <2>2, <2>3, Zenon DEF FrameOK
<1>9. /\ IsSeq(stack') /\ Len(stack') = n + 1 /\ DOMAIN stack' = 1 .. n + 1 /\ stack'[n + 1] = f /\ stack'[n] = e
      /\ \A i \in 1 .. n - 1 : stack'[i] = stack[i]
  <2> DEFINE A == {stack[i] : i \in DOMAIN stack} \cup {e, f}
  <2>1. stack \in Seq(A) /\ e \in A /\ f \in A BY <1>2 DEF IsSeq
  <2>2. Front(stack) \in Seq(A) /\ Len(Front(stack)) = n - 1 /\ \A i \in 1 .. n - 1 : Front(stack)[i] = stack[i]
    BY <1>2, <2>1 DEF Front
  <2> HIDE DEF A
  <2> DEFINE t == Front(stack) \o <<e>>
             m == n - 1
  <2>3. m \in Nat /\ n = m + 1 BY <1>2
  <2> HIDE DEF m
  <2>4. t \in Seq(A) /\ Len(t) = n /\ t[n] = e /\ \A i \in 1 .. m : t[i] = Front(stack)[i]
    BY <2>1, <2>2, <2>3, Added DEF m
  <2>5. stack' = Append(t, f) BY <1>6
  <2> HIDE DEF t
  <2>6. stack' \in Seq(A) /\ Len(stack') = n + 1 /\ stack'[n + 1] = f /\ \A i \in 1 .. n : stack'[i] = t[i]
    BY <2>1, <2>4, <2>5, Added
  <2>7. \A i \in 1 .. m : i \in 1 .. n BY <2>3
  <2>8. stack'[n] = e /\ \A i \in 1 .. m : stack'[i] = stack[i]
    BY <1>2, <2>2, <2>4, <2>6, <2>7 DEF m
  <2>9. DOMAIN stack' = 1 .. n + 1 BY <1>2, <2>6
  <2> QED BY <2>6, <2>8, <2>9, SeqOfItself DEF m
<1> HIDE DEF n
<1>10. StackInv'
  <2>1. \A i \in DOMAIN stack' : FrameOK(stack'[i]) /\ (i < n + 1 => stack'[i].at = "loop")
    BY <1>2, <1>3, <1>7, <1>8, <1>9 DEF IInv, StackInv, n
  <2> QED BY <1>9, <2>1 DEF StackInv
<1>11. VariablesInv'
  <2>1. UNCHANGED <<env, misused>> BY DEF ExecFor
  <2> SUFFICES ASSUME misused = 0, NEW v \in 1 .. Letters, env[v] # NULL
               PROVE  \E i \in DOMAIN stack' : v = stack'[i].loop.var \/ v \in stack'[i].used
    BY <2>1 DEF VariablesInv, IInv
  <2>2. PICK i \in DOMAIN stack : v = stack[i].loop.var \/ v \in stack[i].used BY DEF IInv, VariablesInv
  <2> QED BY <1>2, <1>3, <1>9, <2>2
<1>12. /\ Handles(stack') = Handles(stack) /\ Searches(stack') = Searches(stack) /\ Temps(stack') = Temps(stack)
       /\ Handles(stack) \in Int /\ Searches(stack) \in Int /\ Temps(stack) \in Int
  <2>1. \A i \in (DOMAIN stack) \ {n + 1} :
           stack[i].hFH = stack'[i].hFH /\ (Looking(stack[i]) <=> Looking(stack'[i])) /\ stack[i].fDelete = stack'[i].fDelete
    BY <1>2, <1>3, <1>7, <1>9
  <2>2. (DOMAIN stack) \ {n + 1} = (DOMAIN stack') \ {n + 1} BY <1>2, <1>9
  <2>3. n + 1 \notin DOMAIN stack BY <1>2
  <2>4. /\ Handles(stack') = Handles(stack) - Bit(n + 1 \in DOMAIN stack /\ stack[n + 1].hFH) + Bit(n + 1 \in DOMAIN stack' /\ stack'[n + 1].hFH)
        /\ Searches(stack') = Searches(stack) - Bit(n + 1 \in DOMAIN stack /\ Looking(stack[n + 1])) + Bit(n + 1 \in DOMAIN stack' /\ Looking(stack'[n + 1]))
        /\ Temps(stack') = Temps(stack) - Bit(n + 1 \in DOMAIN stack /\ stack[n + 1].fDelete) + Bit(n + 1 \in DOMAIN stack' /\ stack'[n + 1].fDelete)
    BY <1>2, <1>9, <2>1, <2>2, StacksCount
  <2>5. Handles(stack) \in Int /\ Searches(stack) \in Int /\ Temps(stack) \in Int BY <1>2, CountTypes
  <2> QED BY <1>5, <1>8, <1>9, <2>3, <2>4, <2>5 DEF Bit
<1>13. CountsInv' BY <1>12 DEF ExecFor, files, CountsInv, IInv, Handles, Searches
<1>14. Cur' = f /\ stack' # <<>> BY <1>2, <1>9 DEF Cur
<1>15. EndsInv'
  <2>1. temps = Temps(stack) \/ jumped \/ failed \/ misused # 0 BY <1>1 DEF IInv, EndsInv, Early
  <2> QED BY <1>1, <1>5, <1>12, <1>14, <2>1 DEF ExecFor, files, EndsInv, IInv, Early, Interrupted, Temps
<1> QED BY <1>10, <1>11, <1>13, <1>15 DEF IInv

LEMMA Replaced ==
  ASSUME NEW A, NEW s \in Seq(A), NEW m \in DOMAIN s, NEW g \in A
  PROVE  LET t == [s EXCEPT ![m] = g] IN
         /\ t \in Seq(A) /\ Len(t) = Len(s) /\ DOMAIN t = DOMAIN s
         /\ \A i \in DOMAIN s : t[i] = IF i = m THEN g ELSE s[i]
<1> DEFINE t == [s EXCEPT ![m] = g]
<1>1. t \in Seq(A) /\ Len(t) = Len(s) OBVIOUS
<1>2. DOMAIN t = DOMAIN s OBVIOUS
<1>3. \A i \in DOMAIN s : t[i] = IF i = m THEN g ELSE s[i] OBVIOUS
<1> QED BY <1>1, <1>2, <1>3

(* The end of an activation: the one around it gets its value. *)
LEMMA Removed ==
  ASSUME StackInv, stack # <<>>, NEW r, Return(r)
  PROVE  LET n == Len(stack) IN
         /\ IsSeq(stack') /\ Len(stack') = n - 1 /\ DOMAIN stack' = 1 .. n - 1
         /\ \A i \in 1 .. n - 1 : stack'[i] = IF i = n - 1 THEN [stack[i] EXCEPT !.nReturn = r] ELSE stack[i]
         /\ n = 1 => stack' = <<>> /\ returned' = r
<1> DEFINE n == Len(stack)
           s == Front(stack)
           g == [stack[n - 1] EXCEPT !.nReturn = r]
           A == {stack[i] : i \in DOMAIN stack} \cup {g}
<1>1. n \in Nat \ {0} /\ DOMAIN stack = 1 .. n /\ stack \in Seq(A) BY CurFacts DEF IsSeq
<1>2. s \in Seq(A) /\ Len(s) = n - 1 /\ DOMAIN s = 1 .. n - 1 /\ \A i \in 1 .. n - 1 : s[i] = stack[i]
  <2> HIDE DEF A
  <2> QED BY <1>1 DEF Front
<1>3. CASE n = 1
  <2>1. stack' = <<>> /\ returned' = r BY <1>3 DEF Return
  <2> QED BY <1>3, <2>1 DEF IsSeq
<1>4. CASE n # 1
  <2>1. stack' = [Front(stack) EXCEPT ![n - 1].nReturn = r] BY <1>4 DEF Return
  <2>2. n - 1 \in 1 .. n - 1 /\ s[n - 1] = stack[n - 1] BY <1>1, <1>2, <1>4
  <2>3. stack' = [s EXCEPT ![n - 1] = g] BY <2>1, <2>2
  <2>4. g \in A OBVIOUS
  <2> HIDE DEF A, g, s
  <2> HIDE DEF n
  <2>7. s \in Seq(A) /\ n - 1 \in DOMAIN s /\ g \in A BY <1>2, <2>2, <2>4
  <2>8. /\ stack' \in Seq(A) /\ Len(stack') = Len(s) /\ DOMAIN stack' = DOMAIN s
        /\ \A i \in DOMAIN s : stack'[i] = IF i = n - 1 THEN g ELSE s[i]
    BY <2>7, <2>3, Replaced
  <2>5. stack' \in Seq(A) /\ Len(stack') = n - 1 /\ DOMAIN stack' = 1 .. n - 1
    BY <1>2, <2>8
  <2>6. \A i \in 1 .. n - 1 : stack'[i] = IF i = n - 1 THEN g ELSE stack[i]
    BY <1>2, <2>8
  <2>9. IsSeq(stack') BY <2>5, SeqOfItself
  <2>10. \A i \in 1 .. n - 1 : stack'[i] = IF i = n - 1 THEN [stack[i] EXCEPT !.nReturn = r] ELSE stack[i]
    BY <2>6 DEF g
  <2> QED BY <1>4, <2>5, <2>9, <2>10 DEF n
<1> QED BY <1>3, <1>4

LEMMA LeftMore ==
  ASSUME NEW o \in Int, NEW p \in Int, NEW h \in Int, NEW b \in Int, NEW m \in Int, NEW k \in Int,
         o - h \in 0 .. m, p - (o - b) \in 0 .. k - m
  PROVE  p - (h - b) \in 0 .. k
OBVIOUS

LEMMA ReturnKeeps ==
  ASSUME LoopsOK, IInv, stack # <<>>, NEW r, Return(r), ~Looking(Cur), fException => r = "CTRLC",
         Cur.fDelete \/ Cur.nReturn = "ABORT_LINE" => r = "ABORT_LINE" \/ Early',
         misused' \in Nat, misused <= misused', open' \in Int,
         open' - (open - Bit(Cur.hFH)) \in 0 .. misused' - misused,
         DOMAIN env' = 1 .. Letters,
         misused' = 0 => \A v \in 1 .. Letters :
                           env'[v] # NULL => env[v] # NULL /\ v # Cur.loop.var /\ v \notin Cur.used,
         UNCHANGED <<searches, temps, breaks, jumped, failed, fException>>
  PROVE  IInv'
<1> DEFINE n == Len(stack)
<1>1. StackInv /\ FrameOK(Cur) BY CurFacts DEF IInv
<1>2. IsSeq(stack) /\ n \in Nat \ {0} /\ DOMAIN stack = 1 .. n /\ Cur = stack[n] BY <1>1, CurFacts
<1>3. /\ IsSeq(stack') /\ Len(stack') = n - 1 /\ DOMAIN stack' = 1 .. n - 1
      /\ \A i \in 1 .. n - 1 : stack'[i] = IF i = n - 1 THEN [stack[i] EXCEPT !.nReturn = r] ELSE stack[i]
      /\ n = 1 => stack' = <<>> /\ returned' = r
  BY <1>1, Removed
<1> HIDE DEF n
<1>4. \A i \in 1 .. n - 1 :
        /\ FrameOK(stack[i]) /\ stack[i].at = "loop" /\ FrameOK(stack'[i]) /\ stack'[i].at = "loop"
        /\ stack'[i].loop = stack[i].loop /\ stack'[i].used = stack[i].used /\ stack'[i].hFH = stack[i].hFH
        /\ (Looking(stack'[i]) <=> Looking(stack[i])) /\ stack'[i].fDelete = stack[i].fDelete
        /\ i = n - 1 => stack'[i].nReturn = r
  <2> SUFFICES ASSUME NEW i \in 1 .. n - 1
               PROVE  /\ FrameOK(stack[i]) /\ stack[i].at = "loop" /\ FrameOK(stack'[i]) /\ stack'[i].at = "loop"
                      /\ stack'[i].loop = stack[i].loop /\ stack'[i].used = stack[i].used /\ stack'[i].hFH = stack[i].hFH
                      /\ (Looking(stack'[i]) <=> Looking(stack[i])) /\ stack'[i].fDelete = stack[i].fDelete
                      /\ i = n - 1 => stack'[i].nReturn = r
    OBVIOUS
  <2>1. FrameOK(stack[i]) /\ stack[i].at = "loop" BY <1>1, <1>2 DEF StackInv, n
  <2>2. CASE i # n - 1 BY <1>3, <2>1, <2>2
  <2>3. CASE i = n - 1
    <3> DEFINE g == stack[i]
               h == [g EXCEPT !.nReturn = r]
    <3>1. stack'[i] = h BY <1>3, <2>3
    <3>2. /\ DOMAIN h = Fields /\ h.loop = g.loop /\ h.used = g.used /\ h.hFH = g.hFH /\ h.found = g.found
          /\ h.fDelete = g.fDelete /\ h.nReturn = r /\ h.at = "loop" /\ h.source = g.source
      BY <2>1 DEF FrameOK, Fields
    <3> HIDE DEF h
    <3>3. FrameOK(h) /\ (Looking(h) <=> Looking(g)) BY <2>1, <3>2 DEF FrameOK, Places, Looking
    <3> HIDE DEF g
    <3> QED BY <2>1, <3>1, <3>2, <3>3 DEF g
  <2> QED BY <2>2, <2>3
<1>5. StackInv' BY <1>2, <1>3, <1>4 DEF StackInv
<1>6. VariablesInv'
  <2>1. misused' = 0 => misused = 0 BY DEF IInv, CountsInv
  <2> SUFFICES ASSUME misused' = 0, NEW v \in 1 .. Letters, env'[v] # NULL
               PROVE  \E i \in DOMAIN stack' : v = stack'[i].loop.var \/ v \in stack'[i].used
    BY DEF VariablesInv
  <2>2. env[v] # NULL /\ v # Cur.loop.var /\ v \notin Cur.used OBVIOUS
  <2>3. PICK i \in DOMAIN stack : v = stack[i].loop.var \/ v \in stack[i].used BY <2>1, <2>2 DEF IInv, VariablesInv
  <2>4. i \in 1 .. n - 1 BY <1>2, <2>2, <2>3
  <2> QED BY <1>3, <1>4, <2>3, <2>4
<1>7. /\ Handles(stack') = Handles(stack) - Bit(Cur.hFH) /\ Searches(stack') = Searches(stack)
      /\ Temps(stack') = Temps(stack) - Bit(Cur.fDelete)
      /\ Handles(stack) \in Int /\ Searches(stack) \in Int /\ Temps(stack) \in Int
  <2>1. \A i \in (DOMAIN stack) \ {n} :
           stack[i].hFH = stack'[i].hFH /\ (Looking(stack[i]) <=> Looking(stack'[i])) /\ stack[i].fDelete = stack'[i].fDelete
    BY <1>2, <1>4
  <2>2. (DOMAIN stack) \ {n} = (DOMAIN stack') \ {n} BY <1>2, <1>3
  <2>3. n \notin DOMAIN stack' /\ n \in DOMAIN stack BY <1>2, <1>3
  <2>4. /\ Handles(stack') = Handles(stack) - Bit(n \in DOMAIN stack /\ stack[n].hFH) + Bit(n \in DOMAIN stack' /\ stack'[n].hFH)
        /\ Searches(stack') = Searches(stack) - Bit(n \in DOMAIN stack /\ Looking(stack[n])) + Bit(n \in DOMAIN stack' /\ Looking(stack'[n]))
        /\ Temps(stack') = Temps(stack) - Bit(n \in DOMAIN stack /\ stack[n].fDelete) + Bit(n \in DOMAIN stack' /\ stack'[n].fDelete)
    BY <1>2, <1>3, <2>1, <2>2, StacksCount
  <2>5. Handles(stack) \in Int /\ Searches(stack) \in Int /\ Temps(stack) \in Int BY <1>2, CountTypes
  <2>6. ~Looking(Cur) /\ Cur.hFH \in BOOLEAN /\ Cur.fDelete \in BOOLEAN BY <1>1 DEF FrameOK
  <2> QED BY <1>2, <2>3, <2>4, <2>5, <2>6 DEF Bit
<1>8. CountsInv'
  <2>1. Handles(stack') = Handles(stack) - Bit(Cur.hFH) /\ Bit(Cur.hFH) \in Int BY <1>7 DEF Bit
  <2>2. misused \in Nat /\ open - Handles(stack) \in 0 .. misused /\ open \in Int BY DEF IInv, CountsInv
  <2>3. open' - Handles(stack') \in 0 .. misused' BY <1>7, <2>1, <2>2, LeftMore
  <2>4. breaks' = Breaks => searches' = Searches(stack') BY <1>7 DEF IInv, CountsInv
  <2> QED BY <2>3, <2>4 DEF CountsInv, IInv, Handles, Searches
<1>9. n # 1 => stack' # <<>> /\ Cur' = stack'[n - 1] /\ n - 1 \in 1 .. n - 1 BY <1>2, <1>3 DEF Cur
<1>10. EndsInv'
  <2>1. temps = Temps(stack') \/ Early' \/ r = "ABORT_LINE"
    <3>1. Early => Early' BY DEF Early, IInv, CountsInv
    <3>2. temps = Temps(stack) \/ Early \/ Cur.nReturn = "ABORT_LINE" BY DEF IInv, EndsInv
    <3>3. ~Cur.fDelete => Temps(stack') = Temps(stack) BY <1>7 DEF Bit
    <3> QED BY <3>1, <3>2, <3>3
  <2>2. fException => r = "CTRLC" OBVIOUS
  <2>3. UNCHANGED <<temps, jumped, failed, fException>> OBVIOUS
  <2>4. jumped' \in BOOLEAN /\ failed' \in BOOLEAN /\ fException' \in BOOLEAN BY <2>3 DEF IInv, EndsInv
  <2>5. CASE n = 1
    <3>1. stack' = <<>> /\ returned' = r BY <1>3, <2>5
    <3>2. Temps(<<>>) = 0
      <4>1. {i \in DOMAIN <<>> : <<>>[i].fDelete} = {} OBVIOUS
      <4> QED BY <4>1, FS_EmptySet DEF Temps
    <3> QED BY <2>1, <2>2, <2>3, <2>4, <3>1, <3>2 DEF EndsInv
  <2>6. CASE n # 1
    <3>1. stack' # <<>> /\ Cur'.at = "loop" /\ Cur'.nReturn = r BY <1>4, <1>9, <2>6
    <3> QED BY <2>1, <2>3, <2>4, <3>1 DEF EndsInv, Interrupted, Temps
  <2> QED BY <2>5, <2>6
<1> QED BY <1>5, <1>6, <1>8, <1>10 DEF IInv

LEMMA ByeStep == ASSUME LoopsOK, IInv, Bye PROVE IInv'
<1>1. stack # <<>> /\ FrameOK(Cur) /\ Cur.at = "bye" /\ (fException => Interrupted(Cur)) BY AtFacts DEF Bye
<1>2. Return(Cur.nReturn) /\ misused' = misused /\ UNCHANGED <<searches, temps, breaks, jumped, failed, fException>>
  BY DEF Bye
<1>3. ~Looking(Cur) /\ (fException => Cur.nReturn = "CTRLC") BY <1>1 DEF Looking, Interrupted
<1>4. Cur.fDelete \/ Cur.nReturn = "ABORT_LINE" => Cur.nReturn = "ABORT_LINE" \/ Early'
  BY <1>1, <1>2 DEF IInv, EndsInv, Early
<1>5. misused \in Nat /\ open' \in Int /\ open' - (open - Bit(Cur.hFH)) = 0 BY DEF Bye, Bit, IInv, CountsInv
<1>6. env' = [v \in 1 .. Letters |-> IF v = Cur.loop.var \/ v \in Cur.used THEN NULL ELSE env[v]] BY DEF Bye
<1>7. /\ DOMAIN env' = 1 .. Letters
      /\ \A v \in 1 .. Letters : env'[v] # NULL => env[v] # NULL /\ v # Cur.loop.var /\ v \notin Cur.used
  BY <1>6
<1>8. misused' \in Nat /\ misused <= misused' /\ open' - (open - Bit(Cur.hFH)) \in 0 .. misused' - misused BY <1>2, <1>5
<1> QED BY <1>1, <1>2, <1>3, <1>4, <1>5, <1>7, <1>8, ReturnKeeps

(* A usage error: the handle is not closed, and that is counted. *)
LEMMA MisusedStep == ASSUME LoopsOK, IInv, Misused PROVE IInv'
<1>1. Turn /\ Cur.source.type # "wild" BY DEF Misused, LineRead, Source
<1>2. stack # <<>> /\ FrameOK(Cur) /\ ~Looking(Cur) /\ ~fException BY <1>1, TurnFacts, NoSearch
<1>3. /\ Return("usage") /\ misused' = misused + 1 /\ misused \in Nat /\ open' = open /\ open \in Int
      /\ UNCHANGED <<searches, temps, breaks, jumped, failed, fException>>
  BY DEF Misused, files, IInv, CountsInv
<1>4. misused' \in Nat /\ misused' # 0 /\ misused <= misused' /\ misused' - misused = 1 BY <1>3
<1>5. open' - (open - Bit(Cur.hFH)) \in 0 .. misused' - misused BY <1>3, <1>4 DEF Bit
<1>6. DOMAIN env' = 1 .. Letters BY DEF Misused, Given
<1>7. Early' BY <1>4 DEF Early
<1> QED BY <1>2, <1>3, <1>4, <1>5, <1>6, <1>7, ReturnKeeps

-----------------------------------------------------------------------------
LEMMA InitInv == ASSUME LoopsOK, ForInit PROVE IInv
<1>1. PICK l \in Loops : stack = <<NewFrame(l)>> BY DEF ForInit
<1> DEFINE f == NewFrame(l)
<1>2. IsSeq(stack) /\ Len(stack) = 1 /\ DOMAIN stack = 1 .. 1 /\ stack[1] = f /\ stack # <<>> /\ Cur = f
  BY <1>1 DEF IsSeq, Cur
<1>3. FrameOK(f) /\ ~Looking(f) /\ ~f.hFH /\ ~f.fDelete /\ f.at = "begin"
  BY DEF FrameOK, Looking, NewFrame, Fields, Places
<1> HIDE DEF f
<1>4. StackInv BY <1>2, <1>3 DEF StackInv
<1>5. VariablesInv BY DEF ForInit, VariablesInv
<1>6. Handles(stack) = 0 /\ Searches(stack) = 0 /\ Temps(stack) = 0
  <2>1. \A i \in DOMAIN stack : stack[i] = f BY <1>2
  <2>2. /\ {i \in DOMAIN stack : stack[i].hFH} = {} /\ {i \in DOMAIN stack : Looking(stack[i])} = {}
        /\ {i \in DOMAIN stack : stack[i].fDelete} = {}
    BY <1>3, <2>1
  <2> QED BY <2>2, FS_EmptySet DEF Handles, Searches, Temps
<1>7. CountsInv BY <1>6 DEF ForInit, CountsInv, LoopsOK
<1>8. EndsInv BY <1>2, <1>3, <1>6 DEF ForInit, EndsInv
<1> QED BY <1>4, <1>5, <1>7, <1>8 DEF IInv

LEMMA StepInv == ASSUME LoopsOK, IInv, [ForNext]_forVars PROVE IInv'
<1>1. CASE Begin BY <1>1, BeginStep
<1>2. CASE Member BY <1>2, MemberStep
<1>3. CASE NoMember BY <1>3, NoMemberStep
<1>4. CASE Stops BY <1>4, StopsStep
<1>5. CASE UsedUp BY <1>5, UsedUpStep
<1>6. CASE Text BY <1>6, TextStep
<1>7. CASE Slash BY <1>7, SlashStep
<1>8. CASE Find BY <1>8, FindStep
<1>9. CASE Open BY <1>9, OpenStep
<1>10. CASE EndOfFile BY <1>10, EndOfFileStep
<1>11. CASE LinePasses BY <1>11, LinePassesStep
<1>12. CASE LineIsValue BY <1>12, LineIsValueStep
<1>13. CASE LineHasWords BY <1>13, LineHasWordsStep
<1>14. CASE String BY <1>14, StringStep
<1>15. CASE NoFile BY <1>15, NoFileStep
<1>16. CASE Exec BY <1>16, ExecStep
<1>17. CASE ExecFor BY <1>17, ExecForStep
<1>18. CASE Interrupt BY <1>18, InterruptStep
<1>19. CASE Bye BY <1>19, ByeStep
<1>21. CASE Misused BY <1>21, MisusedStep
<1>20. CASE UNCHANGED forVars
  <2>1. StackInv' BY <1>20 DEF IInv, StackInv, forVars
  <2>2. VariablesInv' BY <1>20 DEF IInv, VariablesInv, forVars
  <2>3. CountsInv' BY <1>20 DEF IInv, CountsInv, forVars, Handles, Searches
  <2>4. EndsInv' BY <1>20 DEF IInv, EndsInv, forVars, Temps, Early, Interrupted, Cur
  <2> QED BY <2>1, <2>2, <2>3, <2>4 DEF IInv
<1> QED BY <1>1, <1>2, <1>3, <1>4, <1>5, <1>6, <1>7, <1>8, <1>9, <1>10, <1>11, <1>12, <1>13, <1>14, <1>15,
           <1>16, <1>17, <1>18, <1>19, <1>20, <1>21 DEF ForNext

(* What is open belongs to an activation of For_Cmd() that has not         *)
(* returned; a temporary file does unless a GOTO, ^C or a file that cannot *)
(* be opened has ended the FORs, and then none of them goes on.            *)
THEOREM Invariant == ForSpec => []IInv
<1>1. ForInit => IInv BY LoopsAssumption, InitInv
<1>2. IInv /\ [ForNext]_forVars => IInv' BY LoopsAssumption, StepInv
<1> QED BY <1>1, <1>2, PTL DEF ForSpec

(* However a FOR over any set ends, its handle is closed and its variables *)
(* deleted by for_bye, its searches closed if no ^C came, and, when it     *)
(* ends normally, the file with the output of its 'command' removed.       *)
THEOREM ForLeavesNothing == ForSpec => []NothingLeft
<1>1. IInv => NothingLeft
  <2> SUFFICES ASSUME IInv, stack = <<>>
               PROVE  /\ open \in 0 .. misused
                      /\ misused = 0 => \A v \in 1 .. Letters : env[v] = NULL
                      /\ breaks = Breaks => searches = 0
                      /\ returned = "0" /\ ~jumped /\ ~failed /\ misused = 0 => temps = 0
    BY DEF NothingLeft
  <2>1. DOMAIN stack = {} OBVIOUS
  <2>2. Handles(stack) = 0 /\ Searches(stack) = 0 BY <2>1, FS_EmptySet DEF Handles, Searches
  <2>3. open \in 0 .. misused /\ (breaks = Breaks => searches = 0) BY <2>2 DEF IInv, CountsInv
  <2>4. misused = 0 => \A v \in 1 .. Letters : env[v] = NULL BY <2>1 DEF IInv, VariablesInv
  <2>5. returned = "0" /\ ~jumped /\ ~failed /\ misused = 0 => temps = 0 BY DEF IInv, EndsInv, Early
  <2> QED BY <2>3, <2>4, <2>5
<1>2. ForSpec => []IInv BY Invariant
<1> QED BY <1>1, <1>2, PTL
=============================================================================
