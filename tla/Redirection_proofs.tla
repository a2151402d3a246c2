------------------------ MODULE Redirection_proofs ------------------------
(***************************************************************************)
(* Whatever fails, and whenever ^C is pressed, the standard handles are    *)
(* given back at the end of every line and of every command group, however *)
(* many of them are nested: as long as the handle table does not fill, and *)
(* IFF is not part of a pipe (with one, what the manual says of pipes is   *)
(* false).                                                                 *)
(*                                                                         *)
(* This is not inductive.  What each activation of command() keeps in the  *)
(* handle table (Keeps) must be known at each DOS call, and with it what   *)
(* is left in the queue of calls, which refer to handles that they assume  *)
(* to be open, saved or lost (Doing).                                      *)
(***************************************************************************)
EXTENDS Redirection, SequenceTheorems, WellFoundedInduction, TLAPS

Files == {"in", "out", "err", "file"} \cup Pipes
Tables == [Handles -> Files \cup {NULL}]
Places == {"top", "pipe", "openpipe", "redir", "open", "failed", "run", "ran", "unredir", "openin", "kill",
           "remove", "done"}
Calls == [f : {"save", "spare", "unspare", "dup2", "move", "close", "restored"}, h : Handles, to : Handles]
HandlesOrNone == Handles \cup {-1}
Activations ==
  [line : Lines \cup Groups, k : Nat \ {0}, n : Nat \ {0}, at : Places, then : Places \cup {NULL},
   todo : Seq(Calls), empty : BOOLEAN, ret : {"0", "error", "ctrlc", "abort"}, file : Pipes \cup {NULL},
   spare : HandlesOrNone, naStd : [Std -> Handles], fPipeOpen : BOOLEAN, fIsPiped : BOOLEAN,
   pszOutPipe : Pipes \cup {NULL}, pszInPipe : Pipes \cup {NULL}, entry : Tables]

TypeOK ==
  /\ fd \in Tables /\ disk \subseteq Pipes /\ breaks \in 0 .. Breaks
  /\ cmds \in Seq(Activations) /\ cmds # <<>>

\* The hypotheses: no handle is ever refused, and IFF is not piped.
NeverFull == Free # {}
NoIffPipes == \A l \in Lines \cup Groups : \A i \in DOMAIN l : l[i].op = "iff" => l[i].sep \notin PipeSeps

-----------------------------------------------------------------------------
(***************************************************************************)
(* What an activation c keeps in the handle table t.                       *)
(***************************************************************************)
Saved(c) == {c.naStd[i] : i \in Std} \ {0}
Unsaved(c, s) == \A i \in s : c.naStd[i] = 0
OpenStd(t) == \A i \in Std : t[i] # NULL
OpenBut(t, s) == \A i \in Std : t[i] # NULL <=> i \notin s

\* The handles of those below it stay, a standard handle that was not saved is
\* as it was, and one that was is kept in a handle that was free.
Keeps(c, t) ==
  /\ \A i \in Std : c.entry[i] # NULL
  /\ \A h \in Handles \ Std : c.entry[h] # NULL => t[h] = c.entry[h]
  /\ \A i \in Std : c.naStd[i] = 0 => t[i] = c.entry[i]
  /\ \A i \in Std : c.naStd[i] # 0 => /\ c.naStd[i] \in Handles \ Std /\ c.entry[c.naStd[i]] = NULL
                                      /\ t[c.naStd[i]] = c.entry[i]
  /\ \A i, j \in Std : c.naStd[i] = c.naStd[j] => i = j \/ c.naStd[i] = 0

\* A handle that only c knows, for the moment.
Temp(c, t, n) == n \in Handles \ Std /\ n \notin Saved(c) /\ c.entry[n] = NULL /\ t[n] # NULL

\* Nothing else is open than before, but the handles in s.
Whole(c, t, s) == \A h \in Handles \ Std : t[h] = c.entry[h] \/ h \in Saved(c) \cup s

\* A handle that _dup() or _sopen() may give.
Fresh(t, n) == n \in Handles /\ t[n] = NULL /\ \A g \in Handles : t[g] = NULL => n <= g

\* A handle that may be written: it is nobody's, or saved.
Writable(c, h) == IF h \in Std THEN c.naStd[h] # 0 ELSE h \in Handles /\ c.entry[h] = NULL /\ h \notin Saved(c)

\* Every set of natural numbers that is not empty has a least element.
LEMMA LeastElement ==
  ASSUME NEW S, S \subseteq Nat, S # {}
  PROVE  \E n \in S : \A m \in S : n <= m
<1> DEFINE R == {ss \in Nat \X Nat : ss[1] < ss[2]}
<1>1. IsWellFoundedOn(R, Nat) BY NatLessThanWellFounded, Zenon DEF OpToRel
<1>2. \E x \in S : \A y \in S : <<y, x>> \notin R BY <1>1, WFMin
<1>3. PICK n \in S : \A y \in S : <<y, n>> \notin R BY <1>2
<1>4. \A m \in S : n <= m
  <2> TAKE m \in S
  <2>1. m \in Nat /\ n \in Nat OBVIOUS
  <2>2. m < n => <<m, n>> \in R BY <2>1
  <2> QED BY <1>3, <2>1, <2>2
<1> QED BY <1>4

LEMMA HandleFacts == /\ Handles \subseteq Nat /\ Std = {0, 1, 2} /\ Std \subseteq Handles /\ -1 \notin Handles
                     /\ NULL \notin Files
BY HandlesAssumption, NullAssumption DEF Handles, Std, STDIN, STDOUT, STDERR, Files

\* The new handle is the lowest that is free.
LEMMA NewHandleFresh ==
  ASSUME TypeOK, NeverFull
  PROVE  Fresh(fd, NewHandle)
<1>1. Free \subseteq Nat /\ Free # {} BY HandleFacts DEF NeverFull, Free
<1>2. \E h \in Free : \A g \in Free : h <= g BY <1>1, LeastElement
<1>3. PICK n : n = CHOOSE h \in Free : \A g \in Free : h <= g OBVIOUS
<1>4. n \in Free /\ \A g \in Free : n <= g BY <1>2, <1>3
<1>5. NewHandle = n BY <1>1, <1>3 DEF NewHandle
<1> QED BY <1>4, <1>5 DEF Fresh, Free

\* It is nobody's.
LEMMA FreshWritable ==
  ASSUME NEW c \in Activations, NEW t \in Tables, Keeps(c, t), NEW n, Fresh(t, n)
  PROVE  /\ Writable(c, n) /\ n \notin Saved(c) /\ \A k : Temp(c, t, k) => k # n
         /\ OpenStd(t) => n \in Handles \ Std
<1>1. \A i \in Std : c.entry[i] # NULL BY DEF Keeps
<1>2. n \notin Saved(c) BY <1>1 DEF Keeps, Saved, Fresh
<1>3. n \in Std => c.naStd[n] # 0 BY <1>1 DEF Keeps, Fresh
<1>4. n \notin Std => c.entry[n] = NULL BY DEF Keeps, Fresh
<1> QED BY <1>2, <1>3, <1>4 DEF Writable, Fresh, Temp, OpenStd

\* Only what is saved and what was open matters.
LEMMA KeepsSame ==
  ASSUME NEW c, NEW d, NEW t, Keeps(c, t), d.naStd = c.naStd, d.entry = c.entry
  PROVE  Keeps(d, t)
BY Zenon DEF Keeps

LEMMA KeepsWrite ==
  ASSUME NEW c \in Activations, NEW t \in Tables, Keeps(c, t), NEW h \in Handles, Writable(c, h), NEW x
  PROVE  Keeps(c, [t EXCEPT ![h] = x])
<1>1. PICK u : u = [t EXCEPT ![h] = x] OBVIOUS
<1>2. \A g \in Handles : g # h => u[g] = t[g] BY <1>1 DEF Tables
<1>3. \A g \in Handles \ Std : c.entry[g] # NULL => u[g] = c.entry[g] BY <1>2 DEF Keeps, Writable
<1>4. \A i \in Std : c.naStd[i] = 0 => u[i] = c.entry[i] BY <1>2, HandleFacts DEF Keeps, Writable
<1>5. \A i \in Std : c.naStd[i] # 0 => u[c.naStd[i]] = c.entry[i]
  <2>1. \A i \in Std : c.naStd[i] # 0 => c.naStd[i] \in Handles \ Std /\ c.naStd[i] \in Saved(c) BY DEF Keeps, Saved
  <2>2. \A i \in Std : c.naStd[i] # 0 => c.naStd[i] # h BY <2>1 DEF Writable
  <2> QED BY <1>2, <2>1, <2>2 DEF Keeps
<1>6. Keeps(c, u) BY <1>3, <1>4, <1>5 DEF Keeps
<1> QED BY <1>1, <1>6

\* naStd[h] = _dup(h)
SavesIn(c, t, h, n, d, u) ==
  /\ Fresh(t, n) /\ OpenStd(t) /\ h \in Std /\ c.naStd[h] = 0
  /\ d.naStd = [c.naStd EXCEPT ![h] = n] /\ d.entry = c.entry /\ u = [t EXCEPT ![n] = t[h]]

SavedIn(c, h, n, d) ==
  Saved(d) = Saved(c) \cup {n} /\ d.naStd[h] = n /\ \A i \in Std : i # h => d.naStd[i] = c.naStd[i]

LEMMA KeepsSave ==
  ASSUME NEW c \in Activations, NEW t \in Tables, Keeps(c, t), NEW d \in Activations, NEW h, NEW n, NEW u,
         SavesIn(c, t, h, n, d, u)
  PROVE  Keeps(d, u) /\ SavedIn(c, h, n, d)
<1> USE DEF SavesIn, SavedIn
<1>2. /\ n \in Handles \ Std /\ c.entry[n] = NULL /\ n \notin Saved(c) /\ t[n] = NULL /\ n # 0
  BY FreshWritable, HandleFacts DEF Writable, Fresh
<1>3. u[n] = t[h] /\ \A g \in Handles : g # n => u[g] = t[g] BY <1>2 DEF Tables
<1>4. \A i \in Std : d.naStd[i] = IF i = h THEN n ELSE c.naStd[i] BY DEF Activations
<1>5. \A i \in Std : c.naStd[i] # n BY <1>2 DEF Saved
<1>6. \A i \in Std : d.naStd[i] = 0 => u[i] = d.entry[i] BY <1>2, <1>3, <1>4, HandleFacts DEF Keeps
<1>7. \A i \in Std : d.naStd[i] # 0 => /\ d.naStd[i] \in Handles \ Std /\ d.entry[d.naStd[i]] = NULL
                                       /\ u[d.naStd[i]] = d.entry[i]
  BY <1>2, <1>3, <1>4, <1>5 DEF Keeps
<1>8. \A i, j \in Std : d.naStd[i] = d.naStd[j] => i = j \/ d.naStd[i] = 0 BY <1>4, <1>5 DEF Keeps
<1>9. Keeps(d, u)
  <2>1. \A g \in Handles \ Std : d.entry[g] # NULL => u[g] = d.entry[g] BY <1>2, <1>3 DEF Keeps
  <2> QED BY <1>6, <1>7, <1>8, <2>1 DEF Keeps
<1>10. Saved(d) = Saved(c) \cup {n} BY <1>2, <1>4 DEF Saved
<1> QED BY <1>4, <1>9, <1>10

\* unredir(): a handle is back in its place.
RestoresTo(c, t, h, d, u) ==
  /\ h \in Std /\ c.naStd[h] # 0 /\ t[h] = c.entry[h]
  /\ d.naStd = [c.naStd EXCEPT ![h] = 0] /\ d.entry = c.entry /\ u = [t EXCEPT ![c.naStd[h]] = NULL]
RestoredIn(c, h, d) ==
  Saved(d) = Saved(c) \ {c.naStd[h]} /\ d.naStd[h] = 0 /\ \A i \in Std : i # h => d.naStd[i] = c.naStd[i]

LEMMA KeepsRestored ==
  ASSUME NEW c \in Activations, NEW t \in Tables, Keeps(c, t), NEW d \in Activations, NEW h, NEW u,
         RestoresTo(c, t, h, d, u)
  PROVE  Keeps(d, u) /\ RestoredIn(c, h, d)
<1> USE DEF RestoresTo, RestoredIn
<1>1. PICK n : n = c.naStd[h] OBVIOUS
<1>3. n \in Handles \ Std /\ c.entry[n] = NULL BY <1>1 DEF Keeps
<1>4. \A g \in Handles : g # n => u[g] = t[g] BY <1>1, <1>3 DEF Tables
<1>5. \A i \in Std : d.naStd[i] = IF i = h THEN 0 ELSE c.naStd[i] BY DEF Activations
<1>6. \A i \in Std : i # h => c.naStd[i] # n BY <1>1 DEF Keeps
<1>7. \A i \in Std : d.naStd[i] = 0 => u[i] = d.entry[i] BY <1>3, <1>4, <1>5, HandleFacts DEF Keeps
<1>8. \A i \in Std : d.naStd[i] # 0 => /\ d.naStd[i] \in Handles \ Std /\ d.entry[d.naStd[i]] = NULL
                                       /\ u[d.naStd[i]] = d.entry[i]
  BY <1>4, <1>5, <1>6 DEF Keeps
<1>9. \A i, j \in Std : d.naStd[i] = d.naStd[j] => i = j \/ d.naStd[i] = 0 BY <1>5 DEF Keeps
<1>10. Keeps(d, u)
  <2>1. \A g \in Handles \ Std : d.entry[g] # NULL => u[g] = d.entry[g] BY <1>3, <1>4 DEF Keeps
  <2> QED BY <1>7, <1>8, <1>9, <2>1 DEF Keeps
<1>11. Saved(d) = Saved(c) \ {n} BY <1>1, <1>5, <1>6 DEF Saved
<1> QED BY <1>1, <1>5, <1>10, <1>11

-----------------------------------------------------------------------------
(***************************************************************************)
(* What an activation c is doing with the handle table t, while s are the  *)
(* handles it will close again.                                            *)
(***************************************************************************)
\* m is what is left of dup_handle(old, new), up to its _dup2().
Moving(c, m, old, new, last, s) ==
  \/ m = DupHandle(old, new, last) /\ s = {}
  \/ /\ new # STDIN /\ m = <<Call("unspare", new), Call2("move", old, new), last>> /\ s = {c.spare}
     /\ c.spare = -1 \/ (Writable(c, c.spare) /\ c.spare # old)
  \/ m = <<Call2("move", old, new), last>> /\ s = {}

\* What unredir() has still to do from standard handle i on.
Back(c, i) == IF c.naStd[i] = 0 THEN <<>> ELSE DupHandle(c.naStd[i], i, Call("restored", i))
From(c, i) == IF i = 0 THEN Back(c, STDIN) \o (Back(c, STDOUT) \o Back(c, STDERR))
              ELSE IF i = 1 THEN Back(c, STDOUT) \o Back(c, STDERR)
              ELSE IF i = 2 THEN Back(c, STDERR) ELSE <<>>

Restoring(c, t, s) ==
  \/ c.todo = <<>> /\ Unsaved(c, Std) /\ s = {}
  \/ \E i \in Std, m \in Seq(Calls) :
       /\ c.naStd[i] # 0 /\ (\A j \in Std : j < i => c.naStd[j] = 0) /\ c.todo = m \o From(c, i + 1)
       /\ \/ Moving(c, m, c.naStd[i], i, Call("restored", i), s)
          \/ m = <<Call("restored", i)>> /\ t[i] = c.entry[i] /\ s = {}

\* The queues of open_pipe() and unredir() that make handle i that of a pipe,
\* which was opened as n, and then do e.
Taking(c, t, i, e, s) ==
  \E n \in Handles :
    /\ Temp(c, t, n) /\ OpenStd(t)
    /\ \/ c.todo = (<<Call("save", i)>> \o DupHandle(n, i, Call("close", n))) \o e /\ c.naStd[i] = 0 /\ s = {n}
       \/ \E m \in Seq(Calls), r \in SUBSET (HandlesOrNone) :
            /\ Moving(c, m, n, i, Call("close", n), r) /\ c.todo = m \o e /\ c.naStd[i] # 0
            /\ r \cap Std = {} /\ s = r \cup {n}
       \/ c.todo = <<Call("close", n)>> \o e /\ s = {n}

\* |& and >& send STDERR where STDOUT goes.
ErrToOut == Call2("dup2", STDOUT, STDERR)
SaveErr == <<Call("save", STDERR), ErrToOut>>
Doubling(c, t, s) == /\ s = {}
                     /\ \/ c.todo = SaveErr /\ c.naStd[STDERR] = 0 /\ OpenStd(t)
                        \/ c.todo = <<ErrToOut>> /\ c.naStd[STDERR] # 0 /\ t[STDIN] # NULL /\ t[STDOUT] # NULL

Piping(c, t, s) == \/ Taking(c, t, STDOUT, <<>>, s)
                   \/ Taking(c, t, STDOUT, SaveErr, s) /\ c.naStd[STDERR] = 0
Reading(c, t, s) == Taking(c, t, STDIN, <<>>, s)

\* redir(): the handles in red are saved, and then closed.
OpeningOne(c, t, i) ==
  \/ c.todo = <<Call("save", i), Call("close", i)>> /\ c.naStd[i] = 0 /\ OpenStd(t)
  \/ c.todo = <<Call("close", i)>> /\ c.naStd[i] # 0 /\ OpenStd(t)
  \/ c.todo = <<>> /\ c.naStd[i] # 0 /\ OpenBut(t, {i})
OpeningBoth(c, t) ==
  LET close == <<Call("close", STDOUT), Call("close", STDERR)>>
  IN  \/ /\ c.naStd[STDERR] = 0 /\ OpenStd(t)
         /\ \/ c.naStd[STDOUT] = 0 /\ c.todo = <<Call("save", STDOUT), Call("save", STDERR)>> \o close
            \/ c.naStd[STDOUT] # 0 /\ c.todo = <<Call("save", STDERR)>> \o close
      \/ /\ c.naStd[STDOUT] # 0 /\ c.naStd[STDERR] # 0
         /\ \/ c.todo = close /\ OpenStd(t)
            \/ c.todo = <<Call("close", STDERR)>> /\ OpenBut(t, {STDOUT})
            \/ c.todo = <<>> /\ OpenBut(t, {STDOUT, STDERR})
Opening(c, t, red) == \/ red = {STDOUT, STDERR} /\ OpeningBoth(c, t)
                      \/ \E i \in Std : red = {i} /\ OpeningOne(c, t, i)

OpOf(c) == IF c.empty THEN "empty" ELSE c.line[c.k].op
IOOf(c) == IF OpOf(c) \in {"cmd", "group"} THEN c.line[c.k].io ELSE <<>>
RedirectedOf(c) == Targets[IOOf(c)[c.n]]
InLine(c) == c.k \in DOMAIN c.line

\* No pipe is open, and no output redirected.
Plain(c) == ~c.fPipeOpen /\ c.naStd[STDOUT] = 0 /\ c.naStd[STDERR] = 0
Quiet(c, t, s) == c.todo = <<>> /\ OpenStd(t) /\ s = {}

Doing(c, t, s) ==
  \/ c.at = "top" /\ Plain(c) /\ (Quiet(c, t, s) \/ Reading(c, t, s))
  \/ /\ c.at \in {"pipe", "openpipe"} /\ InLine(c) /\ OpOf(c) # "iff" /\ Plain(c) /\ Quiet(c, t, s)
     /\ c.at = "openpipe" => c.file # NULL
  \/ /\ c.at = "redir" /\ InLine(c)
     /\ \/ (OpOf(c) = "iff" => Plain(c)) /\ Quiet(c, t, s)
        \/ OpOf(c) # "iff" /\ (Piping(c, t, s) \/ Doubling(c, t, s))
  \/ c.at = "open" /\ InLine(c) /\ c.n \in DOMAIN IOOf(c) /\ Opening(c, t, RedirectedOf(c)) /\ s = {}
  \/ /\ c.at = "failed"
     /\ \/ c.todo = <<>> /\ s = {}
        \/ c.todo = <<Call("save", STDOUT)>> /\ OpenStd(t) /\ c.naStd[STDOUT] = 0 /\ s = {}
        \/ Reading(c, t, s)
  \/ c.at = "run" /\ InLine(c) /\ (OpOf(c) = "iff" => Plain(c)) /\ Quiet(c, t, s)
  \/ /\ c.at = "unredir" /\ c.then \in {"top", "failed", "kill"} /\ (c.then = "kill" => ~c.fPipeOpen)
     /\ Restoring(c, t, s)
  \/ c.at = "openin" /\ c.then \in {"top", "failed"} /\ c.todo = <<>> /\ Unsaved(c, Std) /\ s = {}
  \/ c.at \in {"kill", "remove", "done"} /\ c.todo = <<>> /\ Unsaved(c, Std) /\ s = {}

\* An activation that waits for the group it runs, which began with the table t.
Waits(c, t) == c.at = "ran" /\ c.todo = <<>> /\ InLine(c) /\ Keeps(c, t) /\ (breaks = Breaks => Whole(c, t, {}))

IInv ==
  /\ TypeOK
  /\ \A a \in 1 .. Len(cmds) - 1 : Waits(cmds[a], cmds[a + 1].entry)
  /\ Keeps(Cur, fd)
  /\ \E s \in SUBSET (HandlesOrNone) : Doing(Cur, fd, s) /\ (breaks = Breaks => Whole(Cur, fd, s))

-----------------------------------------------------------------------------
(***************************************************************************)
(* One DOS call of the queue, from activation c and table t to d and u.    *)
(***************************************************************************)
Rest(c) == [c EXCEPT !.todo = Tail(@)]
RestSpare(c, n) == [Rest(c) EXCEPT !.spare = n]
RestSave(c, h, n) == [Rest(c) EXCEPT !.naStd[h] = n]
First(c) == Head(c.todo)

\* For save, which is only called for an open handle.
Saves1(c, t, d, u) == /\ First(c).f = "save"
                      /\ \E n : /\ Fresh(t, n) /\ u = [t EXCEPT ![n] = t[First(c).h]]
                                /\ d = RestSave(c, First(c).h, n)
Spares(c, t, d, u) == /\ First(c).f = "spare"
                      /\ \E n : /\ d = RestSpare(c, n)
                                /\ \/ n = -1 /\ u = t
                                   \/ Fresh(t, n) /\ u = [t EXCEPT ![n] = t[First(c).h]]
Unspares(c, t, d, u) == /\ First(c).f = "unspare" /\ d = Rest(c)
                        /\ u = IF c.spare \in Handles THEN [t EXCEPT ![c.spare] = NULL] ELSE t
Dup2s(c, t, d, u) == /\ First(c).f \in {"dup2", "move"}
                     /\ IF t[First(c).h] # NULL THEN d = Rest(c) /\ u = [t EXCEPT ![First(c).to] = t[First(c).h]]
                        ELSE First(c).f = "dup2" => d = Rest(c) /\ u = t
Closes1(c, t, d, u) == First(c).f = "close" /\ d = Rest(c) /\ u = [t EXCEPT ![First(c).h] = NULL]
Restores1(c, t, d, u) == /\ First(c).f = "restored" /\ d = RestSave(c, First(c).h, 0)
                         /\ LET h == c.naStd[First(c).h] IN u = IF h \in Handles THEN [t EXCEPT ![h] = NULL] ELSE t

Does(c, t, d, u) == \/ (t[First(c).h] # NULL => Saves1(c, t, d, u)) /\ First(c).f = "save"
                    \/ Spares(c, t, d, u) \/ Unspares(c, t, d, u)
                    \/ Dup2s(c, t, d, u) \/ Closes1(c, t, d, u) \/ Restores1(c, t, d, u)

\* What a DOS call of the queue leaves alone.
Same(c, d) == /\ d.at = c.at /\ d.then = c.then /\ d.line = c.line /\ d.k = c.k /\ d.n = c.n /\ d.empty = c.empty
              /\ d.fPipeOpen = c.fPipeOpen /\ d.entry = c.entry

\* The queue of m and e: the first call is that of m.
LEMMA PopOf ==
  ASSUME NEW m \in Seq(Calls), m # <<>>, NEW e \in Seq(Calls)
  PROVE  /\ m \o e \in Seq(Calls) /\ m \o e # <<>> /\ Head(m \o e) = Head(m) /\ Tail(m \o e) = Tail(m) \o e
         /\ Head(m) \in Calls /\ Tail(m) \in Seq(Calls)
<1> HIDE DEF Calls
<1> QED OBVIOUS

LEMMA ConsIs ==
  ASSUME NEW S, NEW x \in S, NEW l \in Seq(S)
  PROVE  <<x>> \o l \in Seq(S) /\ <<x>> \o l # <<>> /\ Head(<<x>> \o l) = x /\ Tail(<<x>> \o l) = l
OBVIOUS

LEMMA CallTypes ==
  ASSUME NEW h \in Handles, NEW g \in Handles
  PROVE  /\ \A f \in {"save", "spare", "unspare", "close", "restored"} : Call(f, h) \in Calls
         /\ \A f \in {"dup2", "move"} : Call2(f, h, g) \in Calls
BY DEF Call, Call2, Calls

\* dup_handle(old, new), as a queue.
LEMMA DupHandleIs ==
  ASSUME NEW old \in Handles, NEW new \in Handles, old # STDIN, NEW last \in Calls
  PROVE  /\ new = STDIN => DupHandle(old, new, last) = <<Call2("move", old, new), last>>
         /\ new # STDIN => DupHandle(old, new, last) =
                             <<Call("spare", new), Call("unspare", new), Call2("move", old, new), last>>
         /\ DupHandle(old, new, last) \in Seq(Calls)
<1>1. PICK p \in Calls, q \in Calls, m \in Calls :
        p = Call("spare", new) /\ q = Call("unspare", new) /\ m = Call2("move", old, new)
  BY CallTypes
<1> HIDE DEF Calls
<1>2. CASE new = STDIN
  <2>1. DupHandle(old, new, last) = <<>> \o <<m, last>> BY <1>1, <1>2, Zenon DEF DupHandle
  <2>2. <<>> \o <<m, last>> = <<m, last>> OBVIOUS
  <2> QED BY <1>1, <1>2, <2>1, <2>2
<1>3. CASE new # STDIN
  <2>1. DupHandle(old, new, last) = <<p, q>> \o <<m, last>>
    <3>1. STDIN \notin {old, new} BY <1>3
    <3> QED BY <1>1, <3>1, Zenon DEF DupHandle
  <2> DEFINE x == <<p, q>> \o <<m, last>>
  <2>2. x \in Seq(Calls) /\ Len(x) = 4 OBVIOUS
  <2>3. x[1] = p /\ x[2] = q /\ x[3] = m /\ x[4] = last OBVIOUS
  <2> HIDE DEF x
  <2>4. x = <<p, q, m, last>> BY <2>2, <2>3, SeqEqual
  <2> QED BY <1>1, <1>3, <2>1, <2>2, <2>4 DEF x
<1> QED BY <1>2, <1>3

\* The activation after a call.
LEMMA RestType ==
  ASSUME NEW c \in Activations, c.todo # <<>>
  PROVE  /\ Rest(c) \in Activations /\ Same(c, Rest(c)) /\ Rest(c).naStd = c.naStd /\ Rest(c).todo = Tail(c.todo)
         /\ First(c) \in Calls /\ Rest(c).spare = c.spare
<1>1. c.todo \in Seq(Calls) BY DEF Activations
<1>2. Tail(c.todo) \in Seq(Calls) /\ Head(c.todo) \in Calls
  <2> HIDE DEF Calls
  <2> QED BY <1>1
<1>3. Rest(c) = [c EXCEPT !.todo = Tail(c.todo)] BY DEF Rest
<1> QED BY <1>2, <1>3 DEF Activations, Same, First

LEMMA SpareType ==
  ASSUME NEW c \in Activations, c.todo # <<>>, NEW n \in HandlesOrNone
  PROVE  /\ RestSpare(c, n) \in Activations /\ Same(c, RestSpare(c, n)) /\ RestSpare(c, n).naStd = c.naStd
         /\ RestSpare(c, n).todo = Tail(c.todo) /\ RestSpare(c, n).spare = n
<1>1. PICK r \in Activations : r = Rest(c) BY RestType
<1>2. Same(c, r) /\ r.naStd = c.naStd /\ r.todo = Tail(c.todo) BY <1>1, RestType
<1>3. PICK d : d = [r EXCEPT !.spare = n] OBVIOUS
<1>4. d \in Activations BY <1>3 DEF Activations
<1>5. /\ d.at = r.at /\ d.then = r.then /\ d.line = r.line /\ d.k = r.k /\ d.n = r.n /\ d.empty = r.empty
      /\ d.fPipeOpen = r.fPipeOpen /\ d.entry = r.entry /\ d.naStd = r.naStd /\ d.todo = r.todo /\ d.spare = n
  BY <1>3 DEF Activations
<1>6. d = RestSpare(c, n) BY <1>1, <1>3 DEF RestSpare
<1>7. Same(c, d) BY <1>2, <1>5 DEF Same
<1> QED BY <1>2, <1>4, <1>5, <1>6, <1>7

LEMMA SaveType ==
  ASSUME NEW c \in Activations, c.todo # <<>>, NEW h \in Std, NEW n \in Handles
  PROVE  /\ RestSave(c, h, n) \in Activations /\ Same(c, RestSave(c, h, n))
         /\ RestSave(c, h, n).naStd = [c.naStd EXCEPT ![h] = n] /\ RestSave(c, h, n).todo = Tail(c.todo)
<1>1. PICK r \in Activations : r = Rest(c) BY RestType
<1>2. Same(c, r) /\ r.naStd = c.naStd /\ r.todo = Tail(c.todo) BY <1>1, RestType
<1>3. PICK f : f = [c.naStd EXCEPT ![h] = n] OBVIOUS
<1>4. f \in [Std -> Handles] BY <1>3 DEF Activations
<1>5. PICK d : d = [r EXCEPT !.naStd = f] OBVIOUS
<1>6. d \in Activations BY <1>4, <1>5 DEF Activations
<1>7. /\ d.at = r.at /\ d.then = r.then /\ d.line = r.line /\ d.k = r.k /\ d.n = r.n /\ d.empty = r.empty
      /\ d.fPipeOpen = r.fPipeOpen /\ d.entry = r.entry /\ d.naStd = f /\ d.todo = r.todo
  BY <1>5 DEF Activations
<1>8. d = RestSave(c, h, n) BY <1>1, <1>2, <1>3, <1>5 DEF RestSave
<1>9. Same(c, d) BY <1>2, <1>7 DEF Same
<1> QED BY <1>2, <1>3, <1>6, <1>7, <1>8, <1>9

\* Which handles are open, and whose, after one that may be written was.
LEMMA WholeSame ==
  ASSUME NEW c, NEW d, d.naStd = c.naStd, d.entry = c.entry, NEW t, NEW s, NEW r, Whole(c, t, s),
         s \cap Handles \subseteq r
  PROVE  Whole(d, t, r)
BY DEF Whole, Saved

LEMMA WholeWrite ==
  ASSUME NEW c, NEW d, d.naStd = c.naStd, d.entry = c.entry, NEW t \in Tables, NEW h \in Handles, NEW x,
         NEW s, NEW r, Whole(c, t, s), h \notin Std => h \in r \/ x = c.entry[h], s \ {h} \subseteq r
  PROVE  Whole(d, [t EXCEPT ![h] = x], r)
<1>1. PICK u : u = [t EXCEPT ![h] = x] OBVIOUS
<1>2. \A g \in Handles : u[g] = IF g = h THEN x ELSE t[g] BY <1>1 DEF Tables
<1>3. \A g \in Handles \ Std : u[g] = d.entry[g] \/ g \in Saved(d) \cup r BY <1>2 DEF Whole, Saved
<1> QED BY <1>1, <1>3 DEF Whole

\* One call of dup_handle(): more of it is left, or only its last call.
Moves(c, t, old, new, last, m, e, s) ==
  t[old] # NULL /\ c.naStd[new] # 0 /\ c.todo = m \o e /\ Moving(c, m, old, new, last, s)

Moved(c, t, d, u, old, new, last, e, s) ==
  \E r \in SUBSET (HandlesOrNone) :
    /\ \/ \E l \in Seq(Calls) : Moving(d, l, old, new, last, r) /\ d.todo = l \o e
       \/ d.todo = <<last>> \o e /\ r = {} /\ u[new] = t[old]
    /\ OpenStd(t) /\ s \cap Std = {} => OpenStd(u) /\ r \cap Std = {}
    /\ \A q : Whole(c, t, s \cup q) => Whole(d, u, r \cup q)

LEMMA MovingStep ==
  ASSUME NEW c \in Activations, NEW t \in Tables, Keeps(c, t), NEW d, NEW u, Does(c, t, d, u),
         NEW old \in Handles \ Std, NEW new \in Std, NEW last \in Calls, NEW m \in Seq(Calls), NEW e \in Seq(Calls),
         NEW s \in SUBSET (HandlesOrNone), Moves(c, t, old, new, last, m, e, s)
  PROVE  /\ d \in Activations /\ u \in Tables /\ Keeps(d, u) /\ d.naStd = c.naStd /\ Same(c, d)
         /\ u[old] = t[old] /\ Moved(c, t, d, u, old, new, last, e, s)
<1> USE DEF Moves, Moved
<1>1. PICK p \in Calls, q \in Calls, v \in Calls :
        p = Call("spare", new) /\ q = Call("unspare", new) /\ v = Call2("move", old, new)
  BY CallTypes, HandleFacts
<1>2. p.f = "spare" /\ q.f = "unspare" /\ v.f = "move" /\ v.h = old /\ v.to = new BY <1>1 DEF Call, Call2
<1>3. old # STDIN /\ new \in Handles BY HandleFacts DEF Std
<1>4. CASE new # STDIN /\ m = DupHandle(old, new, last) /\ s = {}
  <2>1. m = <<p, q, v, last>> BY <1>1, <1>3, <1>4, DupHandleIs
  <2>2. m # <<>> /\ Head(m) = p /\ Tail(m) = <<q, v, last>> /\ Tail(m) \in Seq(Calls)
    <3> HIDE DEF Calls
    <3> QED BY <2>1
  <2>3. First(c) = p /\ c.todo # <<>> /\ Tail(c.todo) = Tail(m) \o e BY <2>2, PopOf DEF First
  <2>4. PICK n : d = RestSpare(c, n) /\ ((n = -1 /\ u = t) \/ (Fresh(t, n) /\ u = [t EXCEPT ![n] = t[p.h]]))
    BY <1>2, <2>3 DEF Does, Spares, Unspares, Dup2s, Closes1, Restores1
  <2>5. n \in HandlesOrNone BY <2>4 DEF Fresh, HandlesOrNone
  <2>6. d \in Activations /\ Same(c, d) /\ d.naStd = c.naStd /\ d.todo = Tail(m) \o e /\ d.spare = n
    <3>1. c.todo # <<>> BY <2>3
    <3>2. /\ RestSpare(c, n) \in Activations /\ Same(c, RestSpare(c, n)) /\ RestSpare(c, n).naStd = c.naStd
          /\ RestSpare(c, n).todo = Tail(c.todo) /\ RestSpare(c, n).spare = n
      BY <2>5, <3>1, SpareType
    <3>3. d = RestSpare(c, n) BY <2>4
    <3> QED BY <2>3, <3>2, <3>3
  <2>7. d.entry = c.entry BY <2>6 DEF Same
  <2>8. /\ u \in Tables /\ Keeps(d, u) /\ u[old] = t[old] /\ (OpenStd(t) => OpenStd(u) /\ n \notin Std)
        /\ n = -1 \/ (Writable(d, n) /\ n # old)
    <3>1. CASE n = -1 BY <2>4, <2>6, <2>7, <3>1, KeepsSame, HandleFacts DEF Fresh
    <3>2. CASE n # -1
      <4>1. Fresh(t, n) /\ n \in Handles /\ u = [t EXCEPT ![n] = t[p.h]] BY <2>4, <3>2 DEF Fresh
      <4>2. Writable(c, n) /\ n # old /\ (OpenStd(t) => n \notin Std) BY <4>1, FreshWritable DEF Fresh
      <4>3. Keeps(c, u) BY <4>1, <4>2, KeepsWrite
      <4>4. p.h \in Handles BY <1>1 DEF Calls
      <4>5. u \in Tables /\ u[old] = t[old] /\ (OpenStd(t) => OpenStd(u) /\ n \notin Std)
        BY <4>1, <4>2, <4>4, HandleFacts DEF Tables, OpenStd
      <4>6. Writable(d, n) BY <2>6, <2>7, <4>2 DEF Writable, Saved
      <4> QED BY <2>6, <2>7, <4>2, <4>3, <4>5, <4>6, KeepsSame
    <3> QED BY <3>1, <3>2
  <2>9. \A z : Whole(c, t, s \cup z) => Whole(d, u, {n} \cup z)
    <3> TAKE z
    <3>1. CASE n = -1
      <4>1. u = t BY <2>4, <3>1, HandleFacts DEF Fresh
      <4>2. (s \cup z) \cap Handles \subseteq {n} \cup z BY <1>4
      <4> QED BY <2>6, <2>7, <4>1, <4>2, WholeSame
    <3>2. CASE n # -1
      <4>1. n \in Handles /\ u = [t EXCEPT ![n] = t[p.h]] BY <2>4, <3>2 DEF Fresh
      <4> QED BY <1>4, <2>6, <2>7, <4>1, WholeWrite
    <3> QED BY <3>1, <3>2
  <2>10. Moving(d, Tail(m), old, new, last, {n}) BY <1>1, <1>4, <2>2, <2>6, <2>8 DEF Moving
  <2>11. {n} \in SUBSET (HandlesOrNone) /\ (OpenStd(t) => {n} \cap Std = {}) BY <2>5, <2>8
  <2> QED BY <2>2, <2>6, <2>8, <2>9, <2>10, <2>11
<1>5. CASE /\ m = <<q, v, last>> /\ s = {c.spare} /\ new # STDIN
           /\ c.spare = -1 \/ (Writable(c, c.spare) /\ c.spare # old)
  <2>2. m # <<>> /\ Head(m) = q /\ Tail(m) = <<v, last>> /\ Tail(m) \in Seq(Calls)
    <3> HIDE DEF Calls
    <3> QED BY <1>5
  <2>3. First(c) = q /\ c.todo # <<>> /\ Tail(c.todo) = Tail(m) \o e BY <2>2, PopOf DEF First
  <2>4. d = Rest(c) /\ u = IF c.spare \in Handles THEN [t EXCEPT ![c.spare] = NULL] ELSE t
    BY <1>2, <2>3 DEF Does, Spares, Unspares, Dup2s, Closes1, Restores1
  <2>5. d \in Activations /\ Same(c, d) /\ d.naStd = c.naStd /\ d.todo = Tail(m) \o e BY <2>3, <2>4, RestType
  <2>6. d.entry = c.entry BY <2>5 DEF Same
  <2>7. /\ u \in Tables /\ Keeps(d, u) /\ u[old] = t[old] /\ (OpenStd(t) /\ s \cap Std = {} => OpenStd(u))
        /\ \A z : Whole(c, t, s \cup z) => Whole(d, u, {} \cup z)
    <3>1. CASE c.spare = -1
      <4>1. u = t BY <2>4, <3>1, HandleFacts
      <4>2. \A z : (s \cup z) \cap Handles \subseteq {} \cup z BY <1>5, <3>1, HandleFacts
      <4>3. \A z : Whole(c, t, s \cup z) => Whole(d, u, {} \cup z) BY <2>5, <2>6, <4>1, <4>2, WholeSame
      <4> QED BY <2>5, <2>6, <4>1, <4>3, KeepsSame
    <3>2. CASE c.spare # -1
      <4>1. c.spare \in Handles /\ u = [t EXCEPT ![c.spare] = NULL] BY <2>4, <3>2 DEF Activations, HandlesOrNone
      <4>2. Keeps(c, u) BY <1>5, <3>2, <4>1, KeepsWrite
      <4>3. u \in Tables /\ u[old] = t[old] /\ (OpenStd(t) /\ s \cap Std = {} => OpenStd(u))
        BY <1>5, <3>2, <4>1, HandleFacts DEF Tables, OpenStd
      <4>4. c.spare \notin Std => NULL = c.entry[c.spare] BY <1>5, <3>2 DEF Writable
      <4>5. \A z : Whole(c, t, s \cup z) => Whole(d, u, {} \cup z) BY <1>5, <2>5, <2>6, <4>1, <4>4, WholeWrite
      <4> QED BY <2>5, <2>6, <4>2, <4>3, <4>5, KeepsSame
    <3> QED BY <3>1, <3>2
  <2>8. Moving(d, Tail(m), old, new, last, {}) BY <1>1, <2>2 DEF Moving
  <2> QED BY <2>2, <2>5, <2>7, <2>8
<1>6. CASE m = <<v, last>> /\ s = {}
  <2>2. m # <<>> /\ Head(m) = v /\ Tail(m) = <<last>>
    <3> HIDE DEF Calls
    <3> QED BY <1>6
  <2>3. First(c) = v /\ c.todo # <<>> /\ Tail(c.todo) = <<last>> \o e BY <2>2, PopOf DEF First
  <2>4. d = Rest(c) /\ u = [t EXCEPT ![new] = t[old]]
    BY <1>2, <2>3 DEF Does, Spares, Unspares, Dup2s, Closes1, Restores1
  <2>5. d \in Activations /\ Same(c, d) /\ d.naStd = c.naStd /\ d.todo = <<last>> \o e BY <2>3, <2>4, RestType
  <2>6. d.entry = c.entry BY <2>5 DEF Same
  <2>7. Keeps(c, u) BY <1>3, <2>4, KeepsWrite DEF Writable
  <2>8. u \in Tables /\ u[old] = t[old] /\ (OpenStd(t) => OpenStd(u)) /\ u[new] = t[old]
    BY <1>3, <2>4, HandleFacts DEF Tables, OpenStd
  <2>9. \A z : Whole(c, t, s \cup z) => Whole(d, u, {} \cup z) BY <1>3, <1>6, <2>4, <2>5, <2>6, WholeWrite
  <2> QED BY <2>5, <2>6, <2>7, <2>8, <2>9, KeepsSame
<1>7. m = DupHandle(old, new, last) /\ new = STDIN => m = <<v, last>> BY <1>1, <1>3, DupHandleIs
<1> QED BY <1>1, <1>4, <1>5, <1>6, <1>7 DEF Moving

\* One call of the queue with which the file of a pipe becomes handle i.
Taken(c, t, d, u, i, e, s) ==
  /\ OpenStd(u) /\ \A j \in Std : j # i => d.naStd[j] = c.naStd[j]
  /\ \E r \in SUBSET (HandlesOrNone) : /\ Taking(d, u, i, e, r) \/ (d.todo = e /\ r = {})
                                       /\ Whole(c, t, s) => Whole(d, u, r)

LEMMA TakingStep ==
  ASSUME NEW c \in Activations, NEW t \in Tables, Keeps(c, t), NEW d, NEW u, Does(c, t, d, u),
         NEW i \in Std, NEW e \in Seq(Calls), NEW s \in SUBSET (HandlesOrNone), Taking(c, t, i, e, s)
  PROVE  d \in Activations /\ u \in Tables /\ Keeps(d, u) /\ Same(c, d) /\ Taken(c, t, d, u, i, e, s)
<1> USE DEF Taken
<1>1. PICK n \in Handles :
        /\ Temp(c, t, n) /\ OpenStd(t)
        /\ \/ c.todo = (<<Call("save", i)>> \o DupHandle(n, i, Call("close", n))) \o e /\ c.naStd[i] = 0 /\ s = {n}
           \/ \E m \in Seq(Calls), r \in SUBSET (HandlesOrNone) :
                /\ Moving(c, m, n, i, Call("close", n), r) /\ c.todo = m \o e /\ c.naStd[i] # 0
                /\ r \cap Std = {} /\ s = r \cup {n}
           \/ c.todo = <<Call("close", n)>> \o e /\ s = {n}
  BY DEF Taking
<1>2. PICK x \in Calls : x = Call("close", n) BY CallTypes
<1>3. x.f = "close" /\ x.h = n BY <1>2 DEF Call
<1>4. i \in Handles /\ n # STDIN /\ n \in HandlesOrNone /\ n \notin Std
  BY <1>1, HandleFacts DEF Std, HandlesOrNone, Temp
<1>5. CASE c.todo = (<<Call("save", i)>> \o DupHandle(n, i, Call("close", n))) \o e /\ c.naStd[i] = 0 /\ s = {n}
  <2>1. PICK w \in Calls : w = Call("save", i) BY <1>4, CallTypes
  <2>2. w.f = "save" /\ w.h = i BY <2>1 DEF Call
  <2>3. PICK l \in Seq(Calls) : l = DupHandle(n, i, x) BY <1>4, DupHandleIs
  <2>4. PICK m \in Seq(Calls) : m = <<w>> \o l /\ m # <<>> /\ Head(m) = w /\ Tail(m) = l
    <3>1. <<w>> \o l \in Seq(Calls) /\ <<w>> \o l # <<>> /\ Head(<<w>> \o l) = w /\ Tail(<<w>> \o l) = l BY ConsIs
    <3> QED BY <3>1, Zenon
  <2>5. c.todo = m \o e BY <1>2, <1>5, <2>1, <2>3, <2>4
  <2>6. First(c) = w /\ c.todo # <<>> /\ Tail(c.todo) = l \o e BY <2>4, <2>5, PopOf DEF First
  <2>7. PICK k : Fresh(t, k) /\ u = [t EXCEPT ![k] = t[i]] /\ d = RestSave(c, i, k)
    <3>1. t[i] # NULL BY <1>1 DEF OpenStd
    <3>2. Saves1(c, t, d, u) BY <2>2, <2>6, <3>1 DEF Does, Spares, Unspares, Dup2s, Closes1, Restores1
    <3> QED BY <2>2, <2>6, <3>2 DEF Saves1
  <2>8. k \in Handles BY <2>7 DEF Fresh
  <2>9. d \in Activations /\ Same(c, d) /\ d.naStd = [c.naStd EXCEPT ![i] = k] /\ d.todo = l \o e
    BY <2>6, <2>7, <2>8, SaveType
  <2>10. d.entry = c.entry BY <2>9 DEF Same
  <2>11. /\ Keeps(d, u) /\ Saved(d) = Saved(c) \cup {k}
         /\ d.naStd[i] = k /\ \A j \in Std : j # i => d.naStd[j] = c.naStd[j]
    <3>1. SavesIn(c, t, i, k, d, u) BY <1>1, <1>5, <2>7, <2>9, <2>10 DEF SavesIn
    <3>2. d \in Activations BY <2>9
    <3>3. Keeps(d, u) /\ SavedIn(c, i, k, d) BY <3>1, <3>2, KeepsSave, Zenon
    <3> QED BY <3>3 DEF SavedIn
  <2>12. k \notin Std /\ k # n /\ k # 0 BY <1>1, <2>7, FreshWritable, HandleFacts
  <2>13. u \in Tables /\ \A g \in Handles : g # k => u[g] = t[g] BY <1>4, <2>7, <2>8 DEF Tables
  <2>14. OpenStd(u) /\ Temp(d, u, n) BY <1>1, <2>10, <2>11, <2>12, <2>13, HandleFacts DEF OpenStd, Temp
  <2>15. Moving(d, l, n, i, x, {}) BY <2>3 DEF Moving
  <2>16. Taking(d, u, i, e, {n})
    <3>1. d.naStd[i] # 0 BY <2>11, <2>12
    <3>2. {} \in SUBSET (HandlesOrNone) /\ {} \cap Std = {} /\ {n} = {} \cup {n} OBVIOUS
    <3> QED BY <1>2, <2>9, <2>14, <2>15, <3>1, <3>2 DEF Taking
  <2>17. Whole(c, t, s) => Whole(d, u, {n}) BY <1>5, <2>10, <2>11, <2>13 DEF Whole
  <2>18. {n} \in SUBSET (HandlesOrNone) BY <1>4
  <2> QED BY <2>9, <2>11, <2>13, <2>14, <2>16, <2>17, <2>18
<1>6. ASSUME NEW m \in Seq(Calls), NEW r \in SUBSET (HandlesOrNone), Moving(c, m, n, i, Call("close", n), r),
             c.todo = m \o e, c.naStd[i] # 0, r \cap Std = {}, s = r \cup {n}
      PROVE  d \in Activations /\ u \in Tables /\ Keeps(d, u) /\ Same(c, d) /\ Taken(c, t, d, u, i, e, s)
  <2>1. n \in Handles \ Std /\ t[n] # NULL BY <1>1 DEF Temp
  <2>2. Moving(c, m, n, i, x, r) BY <1>2, <1>6
  <2>3. /\ d \in Activations /\ u \in Tables /\ Keeps(d, u) /\ d.naStd = c.naStd /\ Same(c, d)
        /\ u[n] = t[n] /\ Moved(c, t, d, u, n, i, x, e, r)
    <3>1. Moves(c, t, n, i, x, m, e, r) BY <1>6, <2>1, <2>2 DEF Moves
    <3> QED BY <2>1, <3>1, MovingStep
  <2>4. PICK q \in SUBSET (HandlesOrNone) :
              /\ \/ \E l \in Seq(Calls) : Moving(d, l, n, i, x, q) /\ d.todo = l \o e
                 \/ d.todo = <<x>> \o e /\ q = {} /\ u[i] = t[n]
              /\ OpenStd(t) /\ r \cap Std = {} => OpenStd(u) /\ q \cap Std = {}
              /\ \A z : Whole(c, t, r \cup z) => Whole(d, u, q \cup z)
    BY <2>3 DEF Moved
  <2>5. d.entry = c.entry BY <2>3 DEF Same
  <2>6. Temp(d, u, n) /\ OpenStd(u) /\ q \cap Std = {} BY <1>1, <1>6, <2>3, <2>4, <2>5 DEF Temp, Saved
  <2>7. Taking(d, u, i, e, q \cup {n})
    <3>1. CASE \E l \in Seq(Calls) : Moving(d, l, n, i, x, q) /\ d.todo = l \o e
      <4>1. PICK l \in Seq(Calls) : Moving(d, l, n, i, x, q) /\ d.todo = l \o e BY <3>1
      <4>2. d.naStd[i] # 0 BY <1>6, <2>3
      <4> QED BY <1>2, <2>6, <4>1, <4>2 DEF Taking
    <3>2. CASE d.todo = <<x>> \o e /\ q = {} BY <1>2, <2>6, <3>2 DEF Taking
    <3> QED BY <2>4, <3>1, <3>2
  <2>8. q \cup {n} \in SUBSET (HandlesOrNone) BY <1>4
  <2>9. Whole(c, t, s) => Whole(d, u, q \cup {n}) BY <1>6, <2>4
  <2> QED BY <2>3, <2>6, <2>7, <2>8, <2>9
<1>7. CASE c.todo = <<Call("close", n)>> \o e /\ s = {n}
  <2>1. PICK m \in Seq(Calls) : m = <<x>> /\ m # <<>> /\ Head(m) = x /\ Tail(m) = <<>>
    <3>1. <<x>> \in Seq(Calls) /\ <<x>> # <<>> /\ Head(<<x>>) = x /\ Tail(<<x>>) = <<>>
      <4> HIDE DEF Calls
      <4> QED OBVIOUS
    <3> QED BY <3>1, Zenon
  <2>2. <<>> \o e = e
    <3> HIDE DEF Calls
    <3> QED OBVIOUS
  <2>3. c.todo = m \o e BY <1>2, <1>7, <2>1
  <2>4. First(c) = x /\ c.todo # <<>> /\ Tail(c.todo) = e BY <2>1, <2>2, <2>3, PopOf DEF First
  <2>5. d = Rest(c) /\ u = [t EXCEPT ![n] = NULL]
    BY <1>3, <2>4 DEF Does, Spares, Unspares, Dup2s, Closes1, Restores1
  <2>6. d \in Activations /\ Same(c, d) /\ d.naStd = c.naStd /\ d.todo = e BY <2>4, <2>5, RestType
  <2>7. d.entry = c.entry BY <2>6 DEF Same
  <2>8. Keeps(d, u) BY <1>1, <1>4, <2>5, <2>6, <2>7, KeepsWrite, KeepsSame DEF Writable, Temp
  <2>9. u \in Tables /\ OpenStd(u) BY <1>1, <1>4, <2>5, HandleFacts DEF Tables, OpenStd
  <2>10. Whole(c, t, s) => Whole(d, u, {})
    <3>1. NULL = c.entry[n] /\ s \ {n} \subseteq {} BY <1>1, <1>7 DEF Temp
    <3> QED BY <2>5, <2>6, <2>7, <3>1, WholeWrite
  <2> QED BY <2>6, <2>8, <2>9, <2>10
<1> QED BY <1>1, <1>5, <1>6, <1>7

\* naStd[h] = _dup(h), and the _close() of a handle that has been saved.
Saving(c, t, h) == c.todo # <<>> /\ First(c) = Call("save", h) /\ h \in Std /\ c.naStd[h] = 0 /\ OpenStd(t)
AfterSave(c, t, d, u, h) == /\ d.naStd[h] # 0 /\ \A i \in Std : i # h => d.naStd[i] = c.naStd[i]
                            /\ OpenStd(u) /\ \A q : Whole(c, t, q) => Whole(d, u, q)

LEMMA SaveStep ==
  ASSUME NEW c \in Activations, NEW t \in Tables, Keeps(c, t), NEW d, NEW u, Does(c, t, d, u),
         NEW h, Saving(c, t, h)
  PROVE  /\ d \in Activations /\ u \in Tables /\ Keeps(d, u) /\ Same(c, d) /\ d.todo = Tail(c.todo)
         /\ AfterSave(c, t, d, u, h)
<1> USE DEF Saving
<1>1. First(c).f = "save" /\ First(c).h = h /\ h \in Handles BY HandleFacts DEF Call
<1>2. PICK k : Fresh(t, k) /\ u = [t EXCEPT ![k] = t[h]] /\ d = RestSave(c, h, k)
  <2>1. t[h] # NULL BY DEF OpenStd
  <2>2. Saves1(c, t, d, u) BY <1>1, <2>1 DEF Does, Spares, Unspares, Dup2s, Closes1, Restores1
  <2> QED BY <1>1, <2>2 DEF Saves1
<1>3. k \in Handles BY <1>2 DEF Fresh
<1>4. d \in Activations /\ Same(c, d) /\ d.naStd = [c.naStd EXCEPT ![h] = k] /\ d.todo = Tail(c.todo)
  BY <1>2, <1>3, SaveType
<1>5. d.entry = c.entry BY <1>4 DEF Same
<1>6. SavesIn(c, t, h, k, d, u) BY <1>2, <1>4, <1>5 DEF SavesIn
<1>7. d \in Activations BY <1>4
<1>8. Keeps(d, u) /\ SavedIn(c, h, k, d) BY <1>6, <1>7, KeepsSave, Zenon
<1>9. k \notin Std /\ k # 0 BY <1>2, FreshWritable, HandleFacts
<1>10. u \in Tables /\ \A g \in Handles : g # k => u[g] = t[g] BY <1>1, <1>2, <1>3 DEF Tables
<1>11. OpenStd(u) BY <1>9, <1>10, HandleFacts DEF OpenStd
<1>12. \A q : Whole(c, t, q) => Whole(d, u, q) BY <1>5, <1>8, <1>10 DEF Whole, SavedIn
<1> QED BY <1>4, <1>8, <1>9, <1>10, <1>11, <1>12 DEF AfterSave, SavedIn

Closing(c, h) == c.todo # <<>> /\ First(c) = Call("close", h) /\ h \in Std /\ c.naStd[h] # 0
AfterClose(c, t, d, u, h) == /\ d.naStd = c.naStd /\ u[h] = NULL /\ \A g \in Handles : g # h => u[g] = t[g]
                             /\ \A q : Whole(c, t, q) => Whole(d, u, q)

LEMMA CloseStep ==
  ASSUME NEW c \in Activations, NEW t \in Tables, Keeps(c, t), NEW d, NEW u, Does(c, t, d, u), NEW h, Closing(c, h)
  PROVE  /\ d \in Activations /\ u \in Tables /\ Keeps(d, u) /\ Same(c, d) /\ d.todo = Tail(c.todo)
         /\ AfterClose(c, t, d, u, h)
<1> USE DEF Closing
<1>1. First(c).f = "close" /\ First(c).h = h /\ h \in Handles BY HandleFacts DEF Call
<1>2. d = Rest(c) /\ u = [t EXCEPT ![h] = NULL]
  BY <1>1 DEF Does, Saves1, Spares, Unspares, Dup2s, Closes1, Restores1
<1>3. d \in Activations /\ Same(c, d) /\ d.naStd = c.naStd /\ d.todo = Tail(c.todo) BY <1>2, RestType
<1>4. d.entry = c.entry BY <1>3 DEF Same
<1>5. Keeps(d, u) BY <1>1, <1>2, <1>3, <1>4, KeepsWrite, KeepsSame DEF Writable
<1>6. u \in Tables /\ u[h] = NULL /\ \A g \in Handles : g # h => u[g] = t[g] BY <1>1, <1>2 DEF Tables
<1>7. \A q : Whole(c, t, q) => Whole(d, u, q) BY <1>3, <1>4, <1>6 DEF Whole, Saved
<1> QED BY <1>3, <1>5, <1>6, <1>7 DEF AfterClose

\* One call of |& or >&, which send STDERR where STDOUT goes.
LEMMA DoublingStep ==
  ASSUME NEW c \in Activations, NEW t \in Tables, Keeps(c, t), NEW d, NEW u, Does(c, t, d, u),
         NEW s, Doubling(c, t, s)
  PROVE  /\ d \in Activations /\ u \in Tables /\ Keeps(d, u) /\ Same(c, d)
         /\ Doubling(d, u, {}) \/ Quiet(d, u, {})
         /\ Whole(c, t, s) => Whole(d, u, {})
<1>1. PICK w \in Calls, x \in Calls : w = Call("save", STDERR) /\ x = ErrToOut
  BY CallTypes, HandleFacts DEF Std, ErrToOut
<1>2. STDERR \in Std /\ STDOUT \in Std /\ STDIN \in Std /\ STDOUT \in Handles /\ STDERR \in Handles
  BY HandleFacts DEF Std
<1>3. CASE c.todo = SaveErr /\ c.naStd[STDERR] = 0 /\ OpenStd(t)
  <2>1. c.todo # <<>> /\ Head(c.todo) = w /\ Tail(c.todo) = <<x>>
    <3>1. c.todo = <<w, x>> BY <1>1, <1>3 DEF SaveErr
    <3> HIDE DEF Calls
    <3> QED BY <3>1
  <2>2. Saving(c, t, STDERR) BY <1>1, <1>2, <1>3, <2>1 DEF Saving, First
  <2>3. /\ d \in Activations /\ u \in Tables /\ Keeps(d, u) /\ Same(c, d) /\ d.todo = Tail(c.todo)
        /\ AfterSave(c, t, d, u, STDERR)
    BY <2>2, SaveStep
  <2>4. Doubling(d, u, {}) BY <1>1, <1>2, <2>1, <2>3 DEF Doubling, AfterSave, OpenStd
  <2>5. s = {} BY DEF Doubling
  <2> QED BY <2>3, <2>4, <2>5 DEF AfterSave
<1>4. CASE c.todo = <<ErrToOut>> /\ c.naStd[STDERR] # 0 /\ t[STDIN] # NULL /\ t[STDOUT] # NULL
  <2>1. c.todo # <<>> /\ Head(c.todo) = x /\ Tail(c.todo) = <<>>
    <3>1. c.todo = <<x>> BY <1>1, <1>4
    <3> HIDE DEF Calls
    <3> QED BY <3>1
  <2>2. First(c).f = "dup2" /\ First(c).h = STDOUT /\ First(c).to = STDERR
    BY <1>1, <2>1 DEF First, ErrToOut, Call2
  <2>3. d = Rest(c) /\ u = [t EXCEPT ![STDERR] = t[STDOUT]]
    BY <1>4, <2>2 DEF Does, Saves1, Spares, Unspares, Dup2s, Closes1, Restores1
  <2>4. d \in Activations /\ Same(c, d) /\ d.naStd = c.naStd /\ d.todo = <<>> BY <2>1, <2>3, RestType
  <2>5. d.entry = c.entry BY <2>4 DEF Same
  <2>6. Keeps(d, u) BY <1>2, <1>4, <2>3, <2>4, <2>5, KeepsWrite, KeepsSame DEF Writable
  <2>7. u \in Tables /\ u[STDERR] = t[STDOUT] /\ \A g \in Handles : g # STDERR => u[g] = t[g]
    BY <1>2, <2>3 DEF Tables
  <2>8. OpenStd(u) BY <1>2, <1>4, <2>7, HandleFacts DEF OpenStd, STDIN, STDOUT, STDERR
  <2>9. s = {} BY DEF Doubling
  <2>10. Whole(c, t, s) => Whole(d, u, {}) BY <1>2, <2>4, <2>5, <2>7, <2>9 DEF Whole, Saved
  <2> QED BY <2>4, <2>6, <2>7, <2>8, <2>10 DEF Quiet
<1> QED BY <1>3, <1>4 DEF Doubling

\* One call of redir(), which saves the handles in red and closes them.
LEMMA OpeningStep ==
  ASSUME NEW c \in Activations, NEW t \in Tables, Keeps(c, t), NEW d, NEW u, Does(c, t, d, u),
         NEW red, Opening(c, t, red), c.todo # <<>>
  PROVE  /\ d \in Activations /\ u \in Tables /\ Keeps(d, u) /\ Same(c, d) /\ Opening(d, u, red)
         /\ \A q : Whole(c, t, q) => Whole(d, u, q)
<1> DEFINE Goal == /\ d \in Activations /\ u \in Tables /\ Keeps(d, u) /\ Same(c, d) /\ Opening(d, u, red)
                   /\ \A q : Whole(c, t, q) => Whole(d, u, q)
<1>1. \A i \in Std : i \in Handles BY HandleFacts
<1>2. STDERR \in Std /\ STDOUT \in Std /\ STDERR # STDOUT BY DEF Std, STDERR, STDOUT
<1>3. ASSUME NEW i \in Std, red = {i}, OpeningOne(c, t, i) PROVE Goal
  <2>1. PICK w \in Calls, x \in Calls : w = Call("save", i) /\ x = Call("close", i) BY <1>1, CallTypes
  <2>2. CASE c.todo = <<Call("save", i), Call("close", i)>> /\ c.naStd[i] = 0 /\ OpenStd(t)
    <3>1. Head(c.todo) = w /\ Tail(c.todo) = <<x>>
      <4>1. c.todo = <<w, x>> BY <2>1, <2>2
      <4> HIDE DEF Calls
      <4> QED BY <4>1
    <3>2. Saving(c, t, i) BY <2>1, <2>2, <3>1 DEF Saving, First
    <3>3. /\ d \in Activations /\ u \in Tables /\ Keeps(d, u) /\ Same(c, d) /\ d.todo = Tail(c.todo)
          /\ AfterSave(c, t, d, u, i)
      BY <3>2, SaveStep
    <3>4. OpeningOne(d, u, i) BY <2>1, <3>1, <3>3 DEF AfterSave, OpeningOne
    <3> QED BY <1>3, <3>3, <3>4 DEF Opening, AfterSave
  <2>3. CASE c.todo = <<Call("close", i)>> /\ c.naStd[i] # 0 /\ OpenStd(t)
    <3>1. Head(c.todo) = x /\ Tail(c.todo) = <<>>
      <4>1. c.todo = <<x>> BY <2>1, <2>3
      <4> HIDE DEF Calls
      <4> QED BY <4>1
    <3>2. Closing(c, i) BY <2>1, <2>3, <3>1 DEF Closing, First
    <3>3. /\ d \in Activations /\ u \in Tables /\ Keeps(d, u) /\ Same(c, d) /\ d.todo = Tail(c.todo)
          /\ AfterClose(c, t, d, u, i)
      BY <3>2, CloseStep
    <3>4. OpeningOne(d, u, i) BY <1>1, <2>3, <3>1, <3>3 DEF AfterClose, OpeningOne, OpenStd, OpenBut
    <3> QED BY <1>3, <3>3, <3>4 DEF Opening, AfterClose
  <2> QED BY <1>3, <2>2, <2>3 DEF OpeningOne
<1>4. ASSUME red = {STDOUT, STDERR}, OpeningBoth(c, t) PROVE Goal
  <2>1. PICK w \in Calls, x \in Calls, y \in Calls, z \in Calls :
          /\ w = Call("save", STDOUT) /\ x = Call("save", STDERR)
          /\ y = Call("close", STDOUT) /\ z = Call("close", STDERR)
    BY <1>1, <1>2, CallTypes
  <2>2. <<w, x>> \o <<y, z>> = <<w, x, y, z>> /\ <<x>> \o <<y, z>> = <<x, y, z>>
    <3> DEFINE four == <<w, x>> \o <<y, z>>
    <3> DEFINE three == <<x>> \o <<y, z>>
    <3> HIDE DEF Calls
    <3>1. four \in Seq(Calls) /\ Len(four) = 4 /\ three \in Seq(Calls) /\ Len(three) = 3 OBVIOUS
    <3>2. four[1] = w /\ four[2] = x /\ four[3] = y /\ four[4] = z OBVIOUS
    <3>3. three[1] = x /\ three[2] = y /\ three[3] = z OBVIOUS
    <3> HIDE DEF four, three
    <3>4. four = <<w, x, y, z>> BY <3>1, <3>2, SeqEqual
    <3>5. three = <<x, y, z>> BY <3>1, <3>3, SeqEqual
    <3> QED BY <3>4, <3>5 DEF four, three
  <2>3. CASE c.todo = <<w, x, y, z>> /\ c.naStd[STDOUT] = 0 /\ c.naStd[STDERR] = 0 /\ OpenStd(t)
    <3>1. Head(c.todo) = w /\ Tail(c.todo) = <<x, y, z>>
      <4> HIDE DEF Calls
      <4> QED BY <2>3
    <3>2. Saving(c, t, STDOUT) BY <1>2, <2>1, <2>3, <3>1 DEF Saving, First
    <3>3. /\ d \in Activations /\ u \in Tables /\ Keeps(d, u) /\ Same(c, d) /\ d.todo = Tail(c.todo)
          /\ AfterSave(c, t, d, u, STDOUT)
      BY <3>2, SaveStep
    <3>4. d.todo = <<x>> \o <<y, z>> /\ d.naStd[STDOUT] # 0 /\ d.naStd[STDERR] = 0 /\ OpenStd(u)
      BY <1>2, <2>2, <2>3, <3>1, <3>3 DEF AfterSave
    <3>5. OpeningBoth(d, u) BY <2>1, <3>4, Zenon DEF OpeningBoth
    <3> QED BY <1>4, <3>3, <3>5 DEF Opening, AfterSave
  <2>4. CASE c.todo = <<x, y, z>> /\ c.naStd[STDOUT] # 0 /\ c.naStd[STDERR] = 0 /\ OpenStd(t)
    <3>1. Head(c.todo) = x /\ Tail(c.todo) = <<y, z>>
      <4> HIDE DEF Calls
      <4> QED BY <2>4
    <3>2. Saving(c, t, STDERR) BY <1>2, <2>1, <2>4, <3>1 DEF Saving, First
    <3>3. /\ d \in Activations /\ u \in Tables /\ Keeps(d, u) /\ Same(c, d) /\ d.todo = Tail(c.todo)
          /\ AfterSave(c, t, d, u, STDERR)
      BY <3>2, SaveStep
    <3>4. d.todo = <<y, z>> /\ d.naStd[STDOUT] # 0 /\ d.naStd[STDERR] # 0 /\ OpenStd(u)
      BY <1>2, <2>4, <3>1, <3>3 DEF AfterSave
    <3>5. OpeningBoth(d, u) BY <2>1, <3>4, Zenon DEF OpeningBoth
    <3> QED BY <1>4, <3>3, <3>5 DEF Opening, AfterSave
  <2>5. CASE c.todo = <<y, z>> /\ c.naStd[STDOUT] # 0 /\ c.naStd[STDERR] # 0 /\ OpenStd(t)
    <3>1. Head(c.todo) = y /\ Tail(c.todo) = <<z>>
      <4> HIDE DEF Calls
      <4> QED BY <2>5
    <3>2. Closing(c, STDOUT) BY <1>2, <2>1, <2>5, <3>1 DEF Closing, First
    <3>3. /\ d \in Activations /\ u \in Tables /\ Keeps(d, u) /\ Same(c, d) /\ d.todo = Tail(c.todo)
          /\ AfterClose(c, t, d, u, STDOUT)
      BY <3>2, CloseStep
    <3>4. d.todo = <<z>> /\ d.naStd[STDOUT] # 0 /\ d.naStd[STDERR] # 0 /\ OpenBut(u, {STDOUT})
      BY <1>1, <2>5, <3>1, <3>3 DEF AfterClose, OpenBut, OpenStd
    <3>5. OpeningBoth(d, u) BY <2>1, <3>4, Zenon DEF OpeningBoth
    <3> QED BY <1>4, <3>3, <3>5 DEF Opening, AfterClose
  <2>6. CASE c.todo = <<z>> /\ c.naStd[STDOUT] # 0 /\ c.naStd[STDERR] # 0 /\ OpenBut(t, {STDOUT})
    <3>1. Head(c.todo) = z /\ Tail(c.todo) = <<>>
      <4> HIDE DEF Calls
      <4> QED BY <2>6
    <3>2. Closing(c, STDERR) BY <1>2, <2>1, <2>6, <3>1 DEF Closing, First
    <3>3. /\ d \in Activations /\ u \in Tables /\ Keeps(d, u) /\ Same(c, d) /\ d.todo = Tail(c.todo)
          /\ AfterClose(c, t, d, u, STDERR)
      BY <3>2, CloseStep
    <3>4. d.todo = <<>> /\ d.naStd[STDOUT] # 0 /\ d.naStd[STDERR] # 0 /\ OpenBut(u, {STDOUT, STDERR})
      BY <1>1, <2>6, <3>1, <3>3 DEF AfterClose, OpenBut
    <3>5. OpeningBoth(d, u) BY <3>4, Zenon DEF OpeningBoth
    <3> QED BY <1>4, <3>3, <3>5 DEF Opening, AfterClose
  <2>7. \/ /\ c.naStd[STDERR] = 0 /\ OpenStd(t)
           /\ \/ c.naStd[STDOUT] = 0 /\ c.todo = <<w, x>> \o <<y, z>>
              \/ c.naStd[STDOUT] # 0 /\ c.todo = <<x>> \o <<y, z>>
        \/ /\ c.naStd[STDOUT] # 0 /\ c.naStd[STDERR] # 0
           /\ \/ c.todo = <<y, z>> /\ OpenStd(t)
              \/ c.todo = <<z>> /\ OpenBut(t, {STDOUT})
    BY <1>4, <2>1, Zenon DEF OpeningBoth
  <2> QED BY <2>2, <2>3, <2>4, <2>5, <2>6, <2>7
<1> QED BY <1>3, <1>4 DEF Opening

\* What unredir() has to do, as a queue.
LEMMA BackType ==
  ASSUME NEW c \in Activations, NEW t, Keeps(c, t), NEW i \in Std
  PROVE  Back(c, i) \in Seq(Calls)
<1>1. i \in Handles /\ Call("restored", i) \in Calls BY HandleFacts, CallTypes
<1>2. CASE c.naStd[i] = 0
  <2> HIDE DEF Calls
  <2> QED BY <1>2 DEF Back
<1>3. CASE c.naStd[i] # 0
  <2>1. c.naStd[i] \in Handles /\ c.naStd[i] # STDIN BY <1>3 DEF Keeps, Std
  <2>2. DupHandle(c.naStd[i], i, Call("restored", i)) \in Seq(Calls) BY <1>1, <2>1, DupHandleIs
  <2> QED BY <1>3, <2>2 DEF Back
<1> QED BY <1>2, <1>3

LEMMA ConcatFacts ==
  ASSUME NEW S, NEW a \in Seq(S), NEW b \in Seq(S), NEW e \in Seq(S)
  PROVE  a \o b \in Seq(S) /\ (a \o b) \o e = a \o (b \o e) /\ <<>> \o a = a /\ a \o <<>> = a
<1>1. (a \o b) \o e = a \o (b \o e) BY ConcatAssociative
<1>2. <<>> \o a = a /\ a \o <<>> = a BY ConcatEmptySeq
<1> QED BY <1>1, <1>2, ConcatProperties

LEMMA FromAre ==
  ASSUME NEW c
  PROVE  /\ From(c, 0) = Back(c, STDIN) \o (Back(c, STDOUT) \o Back(c, STDERR))
         /\ From(c, 1) = Back(c, STDOUT) \o Back(c, STDERR) /\ From(c, 2) = Back(c, STDERR) /\ From(c, 3) = <<>>
<1>1. From(c, 0) = Back(c, STDIN) \o (Back(c, STDOUT) \o Back(c, STDERR)) BY Zenon DEF From
<1>2. 1 # 0 /\ 2 # 0 /\ 2 # 1 /\ 3 # 0 /\ 3 # 1 /\ 3 # 2 OBVIOUS
<1>3. From(c, 1) = Back(c, STDOUT) \o Back(c, STDERR) BY <1>2, Zenon DEF From
<1>4. From(c, 2) = Back(c, STDERR) BY <1>2, Zenon DEF From
<1>5. From(c, 3) = <<>> BY <1>2, Zenon DEF From
<1> QED BY <1>1, <1>3, <1>4, <1>5

LEMMA FromFacts ==
  ASSUME NEW c \in Activations, NEW t, Keeps(c, t)
  PROVE  /\ From(c, 3) = <<>> /\ \A i \in Std : /\ From(c, i) = Back(c, i) \o From(c, i + 1)
                                                /\ From(c, i + 1) \in Seq(Calls)
         /\ From(c, 0) = Restores(c)
<1>1. PICK a \in Seq(Calls), b \in Seq(Calls), e \in Seq(Calls) :
        a = Back(c, STDIN) /\ b = Back(c, STDOUT) /\ e = Back(c, STDERR)
  BY BackType DEF Std
<1>2. /\ a \o (b \o e) = (a \o b) \o e /\ e \o <<>> = e /\ b \o e \in Seq(Calls) /\ <<>> \in Seq(Calls)
  <2> HIDE DEF Calls
  <2> QED BY ConcatFacts
<1>3. From(c, 3) = <<>> /\ From(c, 2) = e /\ From(c, 1) = b \o e /\ From(c, 0) = a \o (b \o e)
  BY <1>1, FromAre
<1>4. Restores(c) = (a \o b) \o e BY <1>1, Zenon DEF Restores, Back
<1>5. \A i \in Std : From(c, i) = Back(c, i) \o From(c, i + 1) /\ From(c, i + 1) \in Seq(Calls)
  <2> TAKE i \in Std
  <2>1. CASE i = 0
    <3>1. Back(c, i) = a /\ i + 1 = 1 /\ From(c, i) = From(c, 0) BY <1>1, <2>1 DEF STDIN
    <3> QED BY <1>2, <1>3, <3>1
  <2>2. CASE i = 1
    <3>1. Back(c, i) = b /\ i + 1 = 2 /\ From(c, i) = From(c, 1) BY <1>1, <2>2 DEF STDOUT
    <3> QED BY <1>2, <1>3, <3>1
  <2>3. CASE i = 2
    <3>1. Back(c, i) = e /\ i + 1 = 3 /\ From(c, i) = From(c, 2) BY <1>1, <2>3 DEF STDERR
    <3> QED BY <1>2, <1>3, <3>1
  <2> QED BY <2>1, <2>2, <2>3, HandleFacts
<1> QED BY <1>2, <1>3, <1>4, <1>5

\* From i on, with nothing to do before it.
LEMMA RestoringFrom ==
  ASSUME NEW c \in Activations, NEW t, Keeps(c, t), NEW i \in 0 .. 3, c.todo = From(c, i),
         \A j \in Std : j < i => c.naStd[j] = 0
  PROVE  Restoring(c, t, {})
<1>1. Std = {0, 1, 2} BY HandleFacts
<1>2. ASSUME NEW k \in Std, c.todo = From(c, k), \A j \in Std : j < k => c.naStd[j] = 0, c.naStd[k] # 0
      PROVE  Restoring(c, t, {})
  <2>1. PICK m \in Seq(Calls) : m = Back(c, k) BY BackType
  <2>2. m = DupHandle(c.naStd[k], k, Call("restored", k)) BY <1>2, <2>1 DEF Back
  <2>3. Moving(c, m, c.naStd[k], k, Call("restored", k), {}) BY <2>2 DEF Moving
  <2>4. c.todo = m \o From(c, k + 1) BY <1>2, <2>1, FromFacts
  <2> QED BY <1>2, <2>3, <2>4 DEF Restoring
<1>3. \A k \in Std : c.naStd[k] = 0 => From(c, k) = From(c, k + 1)
  <2> TAKE k \in Std
  <2> HAVE c.naStd[k] = 0
  <2>1. PICK l \in Seq(Calls) : l = From(c, k + 1) BY FromFacts
  <2>2. From(c, k) = <<>> \o l BY <2>1, FromFacts DEF Back
  <2>3. <<>> \o l = l
    <3> HIDE DEF Calls
    <3> QED OBVIOUS
  <2> QED BY <2>1, <2>2, <2>3
<1>4. ASSUME c.todo = From(c, 3), \A j \in Std : j < 3 => c.naStd[j] = 0 PROVE Restoring(c, t, {})
  BY <1>1, <1>4, FromFacts DEF Restoring, Unsaved
<1>5. ASSUME c.todo = From(c, 2), \A j \in Std : j < 2 => c.naStd[j] = 0 PROVE Restoring(c, t, {})
  BY <1>1, <1>2, <1>3, <1>4, <1>5
<1>6. ASSUME c.todo = From(c, 1), \A j \in Std : j < 1 => c.naStd[j] = 0 PROVE Restoring(c, t, {})
  BY <1>1, <1>2, <1>3, <1>5, <1>6
<1>7. ASSUME c.todo = From(c, 0) PROVE Restoring(c, t, {})
  BY <1>1, <1>2, <1>3, <1>6, <1>7
<1> QED BY <1>4, <1>5, <1>6, <1>7

\* One call of unredir().
LEMMA RestoringStep ==
  ASSUME NEW c \in Activations, NEW t \in Tables, Keeps(c, t), NEW d, NEW u, Does(c, t, d, u),
         NEW s \in SUBSET (HandlesOrNone), Restoring(c, t, s), c.todo # <<>>
  PROVE  /\ d \in Activations /\ u \in Tables /\ Keeps(d, u) /\ Same(c, d)
         /\ \E r \in SUBSET (HandlesOrNone) : Restoring(d, u, r) /\ (Whole(c, t, s) => Whole(d, u, r))
<1>1. PICK i \in Std, m \in Seq(Calls) :
        /\ c.naStd[i] # 0 /\ (\A j \in Std : j < i => c.naStd[j] = 0) /\ c.todo = m \o From(c, i + 1)
        /\ \/ Moving(c, m, c.naStd[i], i, Call("restored", i), s)
           \/ m = <<Call("restored", i)>> /\ t[i] = c.entry[i] /\ s = {}
  BY DEF Restoring
<1>2. PICK old, x, e : old = c.naStd[i] /\ x = Call("restored", i) /\ e = From(c, i + 1) OBVIOUS
<1>3. i \in Handles /\ x \in Calls /\ e \in Seq(Calls) BY <1>2, HandleFacts, CallTypes, FromFacts
<1>4. old \in Handles \ Std /\ t[old] = c.entry[i] /\ t[old] # NULL BY <1>1, <1>2 DEF Keeps
<1>5. CASE Moving(c, m, old, i, x, s)
  <2>1. Moves(c, t, old, i, x, m, e, s) BY <1>1, <1>2, <1>4, <1>5 DEF Moves
  <2>2. /\ d \in Activations /\ u \in Tables /\ Keeps(d, u) /\ d.naStd = c.naStd /\ Same(c, d)
        /\ u[old] = t[old] /\ Moved(c, t, d, u, old, i, x, e, s)
    BY <1>3, <1>4, <2>1, MovingStep
  <2>3. PICK r \in SUBSET (HandlesOrNone) :
          /\ \/ \E l \in Seq(Calls) : Moving(d, l, old, i, x, r) /\ d.todo = l \o e
             \/ d.todo = <<x>> \o e /\ r = {} /\ u[i] = t[old]
          /\ \A q : Whole(c, t, s \cup q) => Whole(d, u, r \cup q)
    BY <2>2 DEF Moved
  <2>4. d.entry = c.entry /\ From(d, i + 1) = e BY <1>2, <2>2, Zenon DEF Same, From, Back
  <2>5. Restoring(d, u, r)
    <3>1. CASE \E l \in Seq(Calls) : Moving(d, l, old, i, x, r) /\ d.todo = l \o e
      BY <1>1, <1>2, <2>2, <2>4, <3>1 DEF Restoring
    <3>2. CASE d.todo = <<x>> \o e /\ r = {} /\ u[i] = t[old]
      <4>1. PICK l \in Seq(Calls) : l = <<x>>
        <5>1. <<x>> \in Seq(Calls)
          <6> HIDE DEF Calls
          <6> QED BY <1>3
        <5> QED BY <5>1, Zenon
      <4>2. u[i] = d.entry[i] BY <1>4, <2>4, <3>2
      <4> QED BY <1>1, <1>2, <2>2, <2>4, <3>2, <4>1, <4>2 DEF Restoring
    <3> QED BY <2>3, <3>1, <3>2
  <2>6. Whole(c, t, s) => Whole(d, u, r)
    <3>1. s \cup {} = s /\ r \cup {} = r OBVIOUS
    <3> QED BY <2>3, <3>1
  <2> QED BY <2>2, <2>5, <2>6
<1>6. CASE m = <<x>> /\ t[i] = c.entry[i] /\ s = {}
  <2>1. m # <<>> /\ Head(m) = x /\ Tail(m) = <<>> /\ <<>> \o e = e
    <3> HIDE DEF Calls
    <3> QED BY <1>3, <1>6
  <2>2. c.todo = m \o e BY <1>1, <1>2
  <2>3. First(c) = x /\ Tail(c.todo) = e BY <1>3, <2>1, <2>2, PopOf DEF First
  <2>4. First(c).f = "restored" /\ First(c).h = i BY <1>2, <2>3 DEF Call
  <2>5. d = RestSave(c, i, 0) /\ u = [t EXCEPT ![old] = NULL]
    BY <1>2, <1>4, <2>4 DEF Does, Saves1, Spares, Unspares, Dup2s, Closes1, Restores1
  <2>6. 0 \in Handles BY HandleFacts
  <2>7. d \in Activations /\ Same(c, d) /\ d.naStd = [c.naStd EXCEPT ![i] = 0] /\ d.todo = e
    BY <2>3, <2>5, <2>6, SaveType
  <2>8. d.entry = c.entry BY <2>7 DEF Same
  <2>9. Keeps(d, u) /\ RestoredIn(c, i, d)
    <3>1. RestoresTo(c, t, i, d, u) BY <1>1, <1>2, <1>6, <2>5, <2>7, <2>8 DEF RestoresTo
    <3>2. d \in Activations BY <2>7
    <3> QED BY <3>1, <3>2, KeepsRestored, Zenon
  <2>10. u \in Tables /\ \A g \in Handles : g # old => u[g] = t[g] BY <1>4, <2>5 DEF Tables
  <2>11. u[old] = c.entry[old] BY <1>1, <1>2, <1>4, <2>5 DEF Keeps, Tables
  <2>12. Whole(c, t, s) => Whole(d, u, {})
    BY <1>2, <1>4, <1>6, <2>8, <2>9, <2>10, <2>11 DEF Whole, RestoredIn
  <2>13. Back(d, STDOUT) = Back(c, STDOUT) \/ i = STDOUT
    BY <2>9 DEF Back, RestoredIn, Std
  <2>14. Back(d, STDERR) = Back(c, STDERR) \/ i = STDERR
    BY <2>9 DEF Back, RestoredIn, Std
  <2>15. From(d, i + 1) = e
    <3>1. CASE i = 0
      <4>1. i + 1 = 1 /\ Back(d, STDOUT) = Back(c, STDOUT) /\ Back(d, STDERR) = Back(c, STDERR)
        BY <2>13, <2>14, <3>1 DEF STDOUT, STDERR
      <4> QED BY <1>2, <4>1, FromAre
    <3>2. CASE i = 1
      <4>1. i + 1 = 2 /\ Back(d, STDERR) = Back(c, STDERR) BY <2>14, <3>2 DEF STDERR
      <4> QED BY <1>2, <4>1, FromAre
    <3>3. CASE i = 2
      <4>1. i + 1 = 3 BY <3>3
      <4> QED BY <1>2, <4>1, FromAre
    <3> QED BY <3>1, <3>2, <3>3, HandleFacts
  <2>16. i + 1 \in 0 .. 3 /\ \A j \in Std : j < i + 1 => d.naStd[j] = 0
    BY <1>1, <2>9, HandleFacts DEF RestoredIn
  <2>17. Restoring(d, u, {}) BY <2>7, <2>9, <2>15, <2>16, RestoringFrom
  <2> QED BY <2>7, <2>9, <2>10, <2>12, <2>17
<1> QED BY <1>1, <1>2, <1>5, <1>6

\* One call of the queue, whatever it is for.
Follows(c, t, s, d, u) ==
  /\ d \in Activations /\ u \in Tables /\ Keeps(d, u) /\ d.entry = c.entry
  /\ \E r \in SUBSET (HandlesOrNone) : Doing(d, u, r) /\ (Whole(c, t, s) => Whole(d, u, r))

LEMMA DoingStep ==
  ASSUME NEW c \in Activations, NEW t \in Tables, Keeps(c, t), NEW d, NEW u, Does(c, t, d, u),
         NEW s \in SUBSET (HandlesOrNone), Doing(c, t, s), c.todo # <<>>
  PROVE  Follows(c, t, s, d, u)
<1>1. PICK w \in Calls : w = Call("save", STDOUT) BY CallTypes, HandleFacts DEF Std
<1>2. STDIN \in Std /\ STDOUT \in Std /\ STDERR \in Std /\ STDIN # STDOUT /\ STDIN # STDERR /\ STDOUT # STDERR
  BY DEF Std, STDIN, STDOUT, STDERR
<1>3. <<>> \in Seq(Calls) /\ SaveErr \in Seq(Calls) /\ {} \in SUBSET (HandlesOrNone)
  <2>1. PICK x \in Calls, y \in Calls : x = Call("save", STDERR) /\ y = ErrToOut
    BY CallTypes, HandleFacts DEF Std, ErrToOut
  <2>2. SaveErr = <<x, y>> BY <2>1 DEF SaveErr
  <2> HIDE DEF Calls
  <2> QED BY <2>2
<1>4. CASE c.at = "top" /\ Plain(c) /\ Reading(c, t, s)
  <2>1. /\ d \in Activations /\ u \in Tables /\ Keeps(d, u) /\ Same(c, d)
        /\ Taken(c, t, d, u, STDIN, <<>>, s)
    BY <1>2, <1>3, <1>4, TakingStep DEF Reading
  <2>2. PICK r \in SUBSET (HandlesOrNone) : /\ Reading(d, u, r) \/ Quiet(d, u, r)
                                            /\ Whole(c, t, s) => Whole(d, u, r)
    BY <2>1 DEF Reading, Quiet, Taken
  <2>3. Plain(d) /\ d.at = "top" BY <1>2, <1>4, <2>1 DEF Plain, Same, Taken
  <2>4. Doing(d, u, r) BY <2>2, <2>3 DEF Doing
  <2> QED BY <2>1, <2>2, <2>4 DEF Follows, Same
<1>5. CASE c.at = "redir" /\ InLine(c) /\ OpOf(c) # "iff" /\ Piping(c, t, s)
  <2>2. /\ d \in Activations /\ u \in Tables /\ Keeps(d, u) /\ Same(c, d)
        /\ \E r \in SUBSET (HandlesOrNone) : /\ Piping(d, u, r) \/ Doubling(d, u, r) \/ Quiet(d, u, r)
                                             /\ Whole(c, t, s) => Whole(d, u, r)
    <3>1. CASE Taking(c, t, STDOUT, <<>>, s)
      <4>1. d \in Activations /\ u \in Tables /\ Keeps(d, u) /\ Same(c, d) /\ Taken(c, t, d, u, STDOUT, <<>>, s)
        BY <1>2, <1>3, <3>1, TakingStep
      <4> QED BY <4>1 DEF Piping, Quiet, Taken
    <3>2. CASE Taking(c, t, STDOUT, SaveErr, s) /\ c.naStd[STDERR] = 0
      <4>1. d \in Activations /\ u \in Tables /\ Keeps(d, u) /\ Same(c, d) /\ Taken(c, t, d, u, STDOUT, SaveErr, s)
        BY <1>2, <1>3, <3>2, TakingStep
      <4>2. d.naStd[STDERR] = 0 BY <1>2, <3>2, <4>1 DEF Taken
      <4> QED BY <4>1, <4>2 DEF Piping, Doubling, Taken
    <3> QED BY <1>5, <3>1, <3>2 DEF Piping
  <2>3. PICK r \in SUBSET (HandlesOrNone) : /\ Piping(d, u, r) \/ Doubling(d, u, r) \/ Quiet(d, u, r)
                                            /\ Whole(c, t, s) => Whole(d, u, r)
    BY <2>2
  <2>4. d.at = "redir" /\ InLine(d) /\ OpOf(d) # "iff" BY <1>5, <2>2 DEF Same, InLine, OpOf
  <2>5. Doing(d, u, r) BY <2>3, <2>4 DEF Doing
  <2> QED BY <2>2, <2>3, <2>5 DEF Follows, Same
<1>6. CASE c.at = "redir" /\ InLine(c) /\ OpOf(c) # "iff" /\ Doubling(c, t, s)
  <2>1. /\ d \in Activations /\ u \in Tables /\ Keeps(d, u) /\ Same(c, d)
        /\ Doubling(d, u, {}) \/ Quiet(d, u, {})
        /\ Whole(c, t, s) => Whole(d, u, {})
    BY <1>6, DoublingStep
  <2>2. d.at = "redir" /\ InLine(d) /\ OpOf(d) # "iff" BY <1>6, <2>1 DEF Same, InLine, OpOf
  <2>3. Doing(d, u, {}) BY <2>1, <2>2 DEF Doing
  <2> QED BY <1>3, <2>1, <2>3 DEF Follows, Same
<1>7. CASE c.at = "open" /\ InLine(c) /\ c.n \in DOMAIN IOOf(c) /\ Opening(c, t, RedirectedOf(c)) /\ s = {}
  <2>1. PICK red : red = RedirectedOf(c) OBVIOUS
  <2>2. /\ d \in Activations /\ u \in Tables /\ Keeps(d, u) /\ Same(c, d) /\ Opening(d, u, red)
        /\ \A q : Whole(c, t, q) => Whole(d, u, q)
    BY <1>7, <2>1, OpeningStep
  <2>3. OpOf(d) = OpOf(c) /\ IOOf(d) = IOOf(c) /\ RedirectedOf(d) = red /\ InLine(d) /\ d.n = c.n /\ d.at = c.at
    <3>1. d.line = c.line /\ d.k = c.k /\ d.n = c.n /\ d.empty = c.empty /\ d.at = c.at BY <2>2 DEF Same
    <3>2. OpOf(d) = OpOf(c) BY <3>1, Zenon DEF OpOf
    <3>3. IOOf(d) = IOOf(c) BY <3>1, <3>2, Zenon DEF IOOf
    <3>4. RedirectedOf(d) = red BY <2>1, <3>1, <3>3, Zenon DEF RedirectedOf
    <3> QED BY <1>7, <3>1, <3>2, <3>3, <3>4 DEF InLine
  <2>4. Doing(d, u, {}) BY <1>7, <2>2, <2>3 DEF Doing
  <2> QED BY <1>3, <1>7, <2>2, <2>4 DEF Follows, Same
<1>8. CASE c.at = "failed" /\ c.todo = <<Call("save", STDOUT)>> /\ OpenStd(t) /\ c.naStd[STDOUT] = 0 /\ s = {}
  <2>1. Head(c.todo) = w /\ Tail(c.todo) = <<>>
    <3> HIDE DEF Calls
    <3> QED BY <1>1, <1>8
  <2>2. Saving(c, t, STDOUT) BY <1>1, <1>2, <1>8, <2>1 DEF Saving, First
  <2>3. /\ d \in Activations /\ u \in Tables /\ Keeps(d, u) /\ Same(c, d) /\ d.todo = Tail(c.todo)
        /\ AfterSave(c, t, d, u, STDOUT)
    BY <2>2, SaveStep
  <2>4. Doing(d, u, {}) BY <1>8, <2>1, <2>3 DEF Doing, Same
  <2> QED BY <1>3, <1>8, <2>3, <2>4 DEF Follows, Same, AfterSave
<1>9. CASE c.at = "failed" /\ Reading(c, t, s)
  <2>1. /\ d \in Activations /\ u \in Tables /\ Keeps(d, u) /\ Same(c, d)
        /\ Taken(c, t, d, u, STDIN, <<>>, s)
    BY <1>2, <1>3, <1>9, TakingStep DEF Reading
  <2>2. PICK r \in SUBSET (HandlesOrNone) : /\ Reading(d, u, r) \/ (d.todo = <<>> /\ r = {})
                                            /\ Whole(c, t, s) => Whole(d, u, r)
    BY <2>1 DEF Reading, Taken
  <2>3. Doing(d, u, r) BY <1>9, <2>1, <2>2 DEF Doing, Same
  <2> QED BY <2>1, <2>2, <2>3 DEF Follows, Same
<1>10. CASE /\ c.at = "unredir" /\ c.then \in {"top", "failed", "kill"} /\ (c.then = "kill" => ~c.fPipeOpen)
            /\ Restoring(c, t, s)
  <2>1. /\ d \in Activations /\ u \in Tables /\ Keeps(d, u) /\ Same(c, d)
        /\ \E r \in SUBSET (HandlesOrNone) : Restoring(d, u, r) /\ (Whole(c, t, s) => Whole(d, u, r))
    BY <1>10, RestoringStep
  <2>2. PICK r \in SUBSET (HandlesOrNone) : Restoring(d, u, r) /\ (Whole(c, t, s) => Whole(d, u, r)) BY <2>1
  <2>3. Doing(d, u, r) BY <1>10, <2>1, <2>2 DEF Doing, Same
  <2> QED BY <2>1, <2>2, <2>3 DEF Follows, Same
<1> QED BY <1>4, <1>5, <1>6, <1>7, <1>8, <1>9, <1>10 DEF Doing, Quiet

-----------------------------------------------------------------------------
(***************************************************************************)
(* The steps of command().                                                 *)
(***************************************************************************)
\* Where an activation with nothing queued can be.
Idle(c, t) ==
  /\ c.at # "ran"
  /\ c.at \in {"top", "pipe", "openpipe"} => Plain(c) /\ OpenStd(t)
  /\ c.at \in {"pipe", "openpipe"} => InLine(c) /\ OpOf(c) # "iff"
  /\ c.at = "openpipe" => c.file # NULL
  /\ c.at \in {"redir", "run"} => InLine(c) /\ (OpOf(c) = "iff" => Plain(c)) /\ OpenStd(t)
  /\ c.at = "open" => InLine(c) /\ c.n \in DOMAIN IOOf(c) /\ Opening(c, t, RedirectedOf(c))
  /\ c.at = "unredir" => c.then \in {"top", "failed", "kill"} /\ (c.then = "kill" => ~c.fPipeOpen)
  /\ c.at = "openin" => c.then \in {"top", "failed"}
  /\ c.at \in {"unredir", "openin", "kill", "remove", "done"} => Unsaved(c, Std) /\ OpenStd(t)

LEMMA ConcatNotEmpty ==
  ASSUME NEW S, NEW a \in Seq(S), a # <<>>, NEW b \in Seq(S)
  PROVE  a \o b # <<>>
OBVIOUS

LEMMA MovingBusy ==
  ASSUME NEW c, NEW m \in Seq(Calls), NEW old \in Handles \ Std, NEW new \in Std, NEW last \in Calls, NEW s,
         Moving(c, m, old, new, last, s)
  PROVE  m # <<>>
<1>1. PICK p \in Calls, q \in Calls, v \in Calls :
        p = Call("spare", new) /\ q = Call("unspare", new) /\ v = Call2("move", old, new)
  BY CallTypes, HandleFacts
<1>2. old # STDIN /\ new \in Handles BY HandleFacts DEF Std
<1>3. m = <<p, q, v, last>> \/ m = <<q, v, last>> \/ m = <<v, last>> BY <1>1, <1>2, DupHandleIs DEF Moving
<1>4. <<p, q, v, last>> # <<>> /\ <<q, v, last>> # <<>> /\ <<v, last>> # <<>>
  <2> HIDE DEF Calls
  <2> QED OBVIOUS
<1> QED BY <1>3, <1>4, Zenon

LEMMA TakingBusy ==
  ASSUME NEW c, NEW t, NEW i \in Std, NEW e \in Seq(Calls), NEW s, Taking(c, t, i, e, s)
  PROVE  c.todo # <<>>
<1>1. PICK n \in Handles :
        /\ Temp(c, t, n) /\ OpenStd(t)
        /\ \/ c.todo = (<<Call("save", i)>> \o DupHandle(n, i, Call("close", n))) \o e /\ c.naStd[i] = 0 /\ s = {n}
           \/ \E m \in Seq(Calls), r \in SUBSET (HandlesOrNone) :
                /\ Moving(c, m, n, i, Call("close", n), r) /\ c.todo = m \o e /\ c.naStd[i] # 0
                /\ r \cap Std = {} /\ s = r \cup {n}
           \/ c.todo = <<Call("close", n)>> \o e /\ s = {n}
  BY DEF Taking
<1>2. PICK x \in Calls, w \in Calls : x = Call("close", n) /\ w = Call("save", i) BY CallTypes, HandleFacts
<1>3. n \in Handles \ Std /\ n # STDIN /\ i \in Handles BY <1>1, HandleFacts DEF Temp, Std
<1>4. PICK l \in Seq(Calls) : l = DupHandle(n, i, x) BY <1>3, DupHandleIs
<1>5. PICK a \in Seq(Calls) : a = <<w>> \o l /\ a # <<>>
  <2>1. <<w>> \o l \in Seq(Calls) /\ <<w>> \o l # <<>> BY ConsIs
  <2> QED BY <2>1, Zenon
<1>6. PICK b \in Seq(Calls) : b = <<x>> /\ b # <<>>
  <2>1. <<x>> \in Seq(Calls) /\ <<x>> # <<>>
    <3> HIDE DEF Calls
    <3> QED OBVIOUS
  <2> QED BY <2>1, Zenon
<1>7. \E m \in Seq(Calls) : m # <<>> /\ c.todo = m \o e
  <2>1. CASE c.todo = (<<Call("save", i)>> \o DupHandle(n, i, Call("close", n))) \o e BY <1>2, <1>4, <1>5, <2>1
  <2>2. ASSUME NEW m \in Seq(Calls), NEW r, Moving(c, m, n, i, Call("close", n), r), c.todo = m \o e
        PROVE  \E k \in Seq(Calls) : k # <<>> /\ c.todo = k \o e
    BY <1>2, <1>3, <2>2, MovingBusy
  <2>3. CASE c.todo = <<Call("close", n)>> \o e BY <1>2, <1>6, <2>3
  <2> QED BY <1>1, <2>1, <2>2, <2>3
<1> QED BY <1>7, ConcatNotEmpty

LEMMA IdleFacts ==
  ASSUME NEW c \in Activations, NEW t \in Tables, Keeps(c, t), NEW s, Doing(c, t, s), c.todo = <<>>
  PROVE  s = {} /\ Idle(c, t)
<1>1. STDIN \in Std /\ STDOUT \in Std BY DEF Std
<1>2. <<>> \in Seq(Calls) /\ SaveErr \in Seq(Calls) /\ SaveErr # <<>> /\ <<ErrToOut>> # <<>>
      /\ <<Call("save", STDOUT)>> # <<>>
  <2>1. PICK x \in Calls, y \in Calls, z \in Calls : x = Call("save", STDERR) /\ y = ErrToOut /\ z = Call("save", STDOUT)
    BY CallTypes, HandleFacts DEF Std, ErrToOut
  <2>2. SaveErr = <<x, y>> BY <2>1 DEF SaveErr
  <2> HIDE DEF Calls
  <2> QED BY <2>1, <2>2
<1>3. ~Reading(c, t, s) /\ ~Piping(c, t, s) /\ ~Doubling(c, t, s)
  BY <1>1, <1>2, TakingBusy DEF Reading, Piping, Doubling
<1>4. Restoring(c, t, s) => Unsaved(c, Std) /\ s = {}
  <2>1. ASSUME NEW i \in Std, NEW m \in Seq(Calls), c.naStd[i] # 0, c.todo = m \o From(c, i + 1),
               \/ Moving(c, m, c.naStd[i], i, Call("restored", i), s)
               \/ m = <<Call("restored", i)>>
        PROVE  FALSE
    <3>1. PICK old, x, e : old = c.naStd[i] /\ x = Call("restored", i) /\ e = From(c, i + 1) OBVIOUS
    <3>2. x \in Calls /\ e \in Seq(Calls) /\ old \in Handles \ Std
      BY <2>1, <3>1, HandleFacts, CallTypes, FromFacts DEF Keeps
    <3>3. m # <<>>
      <4>1. CASE Moving(c, m, old, i, x, s) BY <3>2, <4>1, MovingBusy
      <4>2. CASE m = <<x>>
        <5> HIDE DEF Calls
        <5> QED BY <3>2, <4>2
      <4> QED BY <2>1, <3>1, <4>1, <4>2
    <3>4. m \o e # <<>> BY <3>2, <3>3, ConcatNotEmpty
    <3> QED BY <2>1, <3>1, <3>4
  <2> QED BY <2>1 DEF Restoring
<1>5. Unsaved(c, Std) => OpenStd(t) BY DEF Unsaved, OpenStd, Keeps
<1>6. s = {} BY <1>2, <1>3, <1>4 DEF Doing, Quiet
<1>7. Idle(c, t) BY <1>2, <1>3, <1>4, <1>5 DEF Doing, Quiet, Idle
<1> QED BY <1>6, <1>7

LEMMA CurFacts ==
  ASSUME IInv
  PROVE  /\ Len(cmds) \in Nat \ {0} /\ Cur \in Activations /\ fd \in Tables /\ disk \subseteq Pipes
         /\ Keeps(Cur, fd) /\ breaks \in 0 .. Breaks
<1> SUFFICES ASSUME TRUE PROVE Len(cmds) \in Nat \ {0} /\ Cur \in Activations BY DEF IInv, TypeOK
<1>1. cmds \in Seq(Activations) /\ cmds # <<>> BY DEF IInv, TypeOK
<1> HIDE DEF Activations
<1> QED BY <1>1 DEF Cur

\* An activation that has nothing to do is whole.
LEMMA CurIdle ==
  ASSUME IInv, Cur.todo = <<>>
  PROVE  Idle(Cur, fd) /\ (breaks = Breaks => Whole(Cur, fd, {}))
<1>1. PICK c, t : c = Cur /\ t = fd OBVIOUS
<1>2. PICK s \in SUBSET (HandlesOrNone) : Doing(c, t, s) /\ (breaks = Breaks => Whole(c, t, s))
  BY <1>1 DEF IInv
<1>3. c \in Activations /\ t \in Tables /\ Keeps(c, t) /\ c.todo = <<>> BY <1>1, CurFacts
<1>4. s = {} /\ Idle(c, t) BY <1>2, <1>3, IdleFacts
<1> QED BY <1>1, <1>2, <1>4

\* Only the current activation is changed.
LEMMA PutKeeps ==
  ASSUME IInv, NEW d \in Activations, Put(d), d.entry = Cur.entry, fd' \in Tables, disk' \subseteq Pipes,
         breaks' \in Nat, breaks' <= breaks, Keeps(d, fd'),
         NEW s \in SUBSET (HandlesOrNone), Doing(d, fd', s), breaks' = Breaks => Whole(d, fd', s)
  PROVE  IInv'
<1>1. PICK n, e : n = Len(cmds) /\ e = Cur.entry OBVIOUS
<1>2. n \in Nat \ {0} /\ cmds \in Seq(Activations) /\ breaks \in 0 .. Breaks BY <1>1, CurFacts DEF IInv, TypeOK
<1>3. cmds' = [cmds EXCEPT ![n] = d] BY <1>1 DEF Put
<1>4. /\ cmds' \in Seq(Activations) /\ Len(cmds') = n /\ cmds'[n] = d /\ cmds' # <<>>
      /\ \A a \in 1 .. n - 1 : cmds'[a] = cmds[a]
  <2> HIDE DEF Activations
  <2> QED BY <1>1, <1>2, <1>3
<1>5. Cur' = d BY <1>4 DEF Cur
<1>6. \A a \in 1 .. n - 1 : Waits(cmds[a], cmds[a + 1].entry) BY <1>1 DEF IInv
<1>7. \A a \in 1 .. n - 1 : cmds'[a + 1].entry = cmds[a + 1].entry
  <2> TAKE a \in 1 .. n - 1
  <2>1. CASE a = n - 1
    <3>1. a + 1 = n /\ cmds[n].entry = e BY <1>1, <1>2, <2>1 DEF Cur
    <3> QED BY <1>1, <1>4, <3>1
  <2>2. CASE a # n - 1
    <3>1. a + 1 \in 1 .. n - 1 BY <1>2, <2>2
    <3> QED BY <1>4, <3>1
  <2> QED BY <2>1, <2>2
<1>8. \A a \in 1 .. n - 1 : Waits(cmds[a], cmds[a + 1].entry)'
  <2> TAKE a \in 1 .. n - 1
  <2>1. PICK c, t : c = cmds[a] /\ t = cmds[a + 1].entry OBVIOUS
  <2>2. Waits(c, t) BY <1>6, <2>1
  <2>3. cmds'[a] = c /\ cmds'[a + 1].entry = t BY <1>4, <1>7, <2>1
  <2>4. breaks' = Breaks => breaks = Breaks BY <1>2, BreaksAssumption
  <2> QED BY <2>2, <2>3, <2>4 DEF Waits
<1>9. breaks' \in 0 .. Breaks BY <1>2, BreaksAssumption
<1> QED BY <1>4, <1>5, <1>8, <1>9 DEF IInv, TypeOK

\* Nothing is moved.
LEMMA StayStep ==
  ASSUME IInv, Cur.todo = <<>>, NEW d \in Activations, Put(d), d.entry = Cur.entry, d.naStd = Cur.naStd,
         fd' = fd, disk' \subseteq Pipes, breaks' = breaks, Doing(d, fd, {})
  PROVE  IInv'
<1>1. PICK c, t : c = Cur /\ t = fd OBVIOUS
<1>2. Keeps(c, t) /\ (breaks = Breaks => Whole(c, t, {})) /\ t \in Tables /\ breaks \in Nat
  BY <1>1, CurFacts, CurIdle, BreaksAssumption
<1>3. Keeps(d, t) BY <1>1, <1>2, KeepsSame
<1>4. breaks = Breaks => Whole(d, t, {}) BY <1>1, <1>2, WholeSame
<1>5. {} \in SUBSET (HandlesOrNone) /\ breaks' \in Nat /\ breaks' <= breaks BY <1>2
<1> QED BY <1>1, <1>2, <1>3, <1>4, <1>5, PutKeeps

\* unredir() begins.
LEMMA UnredirFacts ==
  ASSUME NEW c \in Activations, NEW t, Keeps(c, t), NEW then \in {"top", "failed", "kill"},
         then = "kill" => ~c.fPipeOpen, NEW d, d = Unredir(c, then)
  PROVE  d \in Activations /\ d.naStd = c.naStd /\ d.entry = c.entry /\ Keeps(d, t) /\ Doing(d, t, {})
<1>1. PICK q \in Seq(Calls) : q = Restores(c) /\ q = From(c, 0)
  <2>1. PICK a \in Seq(Calls), b \in Seq(Calls) : a = Back(c, 0) /\ b = From(c, 1)
    <3>1. 0 \in Std BY HandleFacts
    <3>2. Back(c, 0) \in Seq(Calls) BY <3>1, BackType
    <3>3. From(c, 1) \in Seq(Calls) BY <3>1, FromFacts
    <3> QED BY <3>2, <3>3
  <2>2. From(c, 0) = a \o b BY <2>1, FromAre DEF STDIN
  <2>3. a \o b \in Seq(Calls) BY ConcatProperties
  <2> QED BY <2>2, <2>3, FromFacts
<1>2. d = [c EXCEPT !.at = "unredir", !.then = then, !.todo = q] BY <1>1 DEF Unredir
<1>3. d \in Activations BY <1>2 DEF Activations, Places
<1>4. /\ d.naStd = c.naStd /\ d.entry = c.entry /\ d.at = "unredir" /\ d.then = then /\ d.todo = q
      /\ d.fPipeOpen = c.fPipeOpen
  BY <1>2 DEF Activations
<1>5. Keeps(d, t) BY <1>4, KeepsSame
<1>6. From(d, 0) = q BY <1>1, <1>4, Zenon DEF From, Back
<1>7. Restoring(d, t, {})
  <2>1. 0 \in 0 .. 3 /\ \A j \in Std : j < 0 => d.naStd[j] = 0 BY HandleFacts
  <2> QED BY <1>3, <1>4, <1>5, <1>6, <2>1, RestoringFrom
<1>8. Doing(d, t, {}) BY <1>4, <1>7 DEF Doing
<1> QED BY <1>3, <1>4, <1>5, <1>8

LEMMA BackStep ==
  ASSUME IInv, NEW c \in Activations, c.naStd = Cur.naStd, c.entry = Cur.entry,
         NEW then \in {"top", "failed", "kill"}, then = "kill" => ~c.fPipeOpen,
         Put(Unredir(c, then)), fd' = fd, disk' \subseteq Pipes,
         \/ breaks' = breaks /\ Cur.todo = <<>>
         \/ breaks > 0 /\ breaks' = breaks - 1
  PROVE  IInv'
<1>1. PICK e, t, d : e = Cur /\ t = fd /\ d = Unredir(c, then) OBVIOUS
<1>2. Keeps(e, t) /\ t \in Tables /\ breaks \in 0 .. Breaks /\ Breaks \in Nat BY <1>1, CurFacts, BreaksAssumption
<1>3. Keeps(c, t) BY <1>1, <1>2, KeepsSame
<1>4. d \in Activations /\ d.naStd = c.naStd /\ d.entry = c.entry /\ Keeps(d, t) /\ Doing(d, t, {})
  BY <1>1, <1>3, UnredirFacts
<1>5. breaks' = Breaks => Whole(d, t, {})
  <2> HAVE breaks' = Breaks
  <2>1. breaks = Breaks /\ Cur.todo = <<>> BY <1>2
  <2>2. Whole(e, t, {}) BY <1>1, <2>1, CurIdle
  <2> QED BY <1>1, <1>4, <2>2, WholeSame
<1>6. {} \in SUBSET (HandlesOrNone) /\ breaks' \in Nat /\ breaks' <= breaks BY <1>2
<1> QED BY <1>1, <1>2, <1>4, <1>5, <1>6, PutKeeps

\* Out of the loop of command().
LEMMA BreakStep ==
  ASSUME IInv, Put(Break(Cur)) \/ Put(Fails(Cur)) \/ Put(Aborts(Cur)), fd' = fd, disk' \subseteq Pipes,
         \/ breaks' = breaks /\ Cur.todo = <<>>
         \/ breaks > 0 /\ breaks' = breaks - 1
  PROVE  IInv'
<1>1. PICK c : c = Cur OBVIOUS
<1>2. c \in Activations BY <1>1, CurFacts
<1>3. PICK r \in {"0", "error", "ctrlc", "abort"} :
        cmds' = [cmds EXCEPT ![Len(cmds)] = Unredir([[c EXCEPT !.ret = r] EXCEPT !.fPipeOpen = FALSE], "kill")]
  <2>1. [c EXCEPT !.ret = c.ret] = c BY <1>2 DEF Activations
  <2>2. c.ret \in {"0", "error", "ctrlc", "abort"} BY <1>2 DEF Activations
  <2>3. CASE Put(Break(Cur))
    <3>1. cmds' = [cmds EXCEPT ![Len(cmds)] = Unredir([[c EXCEPT !.ret = c.ret] EXCEPT !.fPipeOpen = FALSE], "kill")]
      BY <1>1, <2>1, <2>3, Zenon DEF Put, Break
    <3> QED BY <2>2, <3>1, Zenon
  <2>4. CASE Put(Fails(Cur)) BY <1>1, <2>4 DEF Put, Break, Fails
  <2>5. CASE Put(Aborts(Cur)) BY <1>1, <2>5 DEF Put, Break, Aborts
  <2> QED BY <2>3, <2>4, <2>5
<1>4. PICK d : d = [[c EXCEPT !.ret = r] EXCEPT !.fPipeOpen = FALSE] OBVIOUS
<1>5. d \in Activations /\ d.naStd = c.naStd /\ d.entry = c.entry /\ d.fPipeOpen = FALSE
  BY <1>2, <1>4 DEF Activations
<1>6. Put(Unredir(d, "kill")) BY <1>3, <1>4, Zenon DEF Put
<1> QED BY <1>1, <1>5, <1>6, BackStep

\* A DOS call is one of those that are followed above.
LEMMA DosCallIs ==
  ASSUME IInv, NeverFull, DosCall, NEW c \in Activations, c = Cur, NEW t \in Tables, t = fd
  PROVE  /\ c.todo # <<>> /\ UNCHANGED <<disk, breaks>>
         /\ \E d : Put(d) /\ Does(c, t, d, fd')
<1>1. c.todo # <<>> BY DEF DosCall, CallSave, CallSpare, CallUnspare, CallDup2, CallClose, CallRestored, Calling
<1>2. PICK a \in Calls : a = First(c) BY <1>1, RestType
<1>3. a.h \in Handles /\ a.to \in Handles BY DEF Calls
<1>4. Arg = a /\ Did = Rest(c) /\ Rest(c) \in Activations BY <1>1, <1>2, RestType DEF Arg, First, Did, Rest
<1>5. \A f : Calling(f) <=> a.f = f BY <1>1, <1>2 DEF Calling, First
<1>6. PICK n : n = NewHandle OBVIOUS
<1>7. Fresh(t, n) BY <1>6, NewHandleFresh DEF IInv
<1>8. Dup(a.h) = IF t[a.h] # NULL THEN n ELSE -1 BY <1>3, <1>6 DEF Dup, IsOpen
<1>9. CASE CallSave
  <2>1. PICK k : k = Dup(a.h) OBVIOUS
  <2>2. PICK d : Put(d) /\ d = RestSave(c, a.h, k)
    <3>1. [Did EXCEPT !.naStd[Arg.h] = Dup(Arg.h)] = RestSave(c, a.h, k) BY <1>4, <2>1 DEF RestSave
    <3> QED BY <1>9, <3>1 DEF CallSave
  <2>3. fd' = With(k, t[a.h]) /\ UNCHANGED <<disk, breaks>> BY <1>4, <1>9, <2>1 DEF CallSave, flow
  <2>4. t[a.h] # NULL => k = n /\ n \in Handles BY <1>7, <1>8, <2>1 DEF Fresh
  <2>5. t[a.h] # NULL => Saves1(c, t, d, fd')
    BY <1>2, <1>5, <1>7, <1>9, <2>2, <2>3, <2>4 DEF Saves1, With, CallSave
  <2>6. Does(c, t, d, fd') BY <1>2, <1>5, <1>9, <2>5 DEF Does, CallSave
  <2> QED BY <1>1, <2>2, <2>3, <2>6
<1>10. CASE CallSpare
  <2>1. PICK k : k = Dup(a.h) OBVIOUS
  <2>2. PICK d : Put(d) /\ d = RestSpare(c, k)
    <3>1. [Did EXCEPT !.spare = Dup(Arg.h)] = RestSpare(c, k) BY <1>4, <2>1 DEF RestSpare
    <3> QED BY <1>10, <3>1 DEF CallSpare
  <2>3. fd' = With(k, t[a.h]) /\ UNCHANGED <<disk, breaks>> BY <1>4, <1>10, <2>1 DEF CallSpare, flow
  <2>4. (k = n /\ n \in Handles) \/ k = -1 BY <1>7, <1>8, <2>1 DEF Fresh
  <2>5. -1 \notin Handles BY HandleFacts
  <2>6. Spares(c, t, d, fd')
    BY <1>2, <1>5, <1>7, <1>10, <2>2, <2>3, <2>4, <2>5 DEF Spares, With, CallSpare
  <2> QED BY <1>1, <2>2, <2>3, <2>6 DEF Does
<1>11. CASE CallUnspare
  <2>1. PICK d : Put(d) /\ d = Rest(c) BY <1>4, <1>11 DEF CallUnspare
  <2>2. fd' = With(c.spare, NULL) /\ UNCHANGED <<disk, breaks>> BY <1>11 DEF CallUnspare, Closed, flow
  <2>3. Unspares(c, t, d, fd') BY <1>2, <1>5, <1>11, <2>1, <2>2 DEF Unspares, With, CallUnspare
  <2> QED BY <1>1, <2>1, <2>2, <2>3 DEF Does
<1>12. CASE CallDup2
  <2>1. a.f \in {"dup2", "move"} /\ UNCHANGED <<disk, breaks>> BY <1>5, <1>12 DEF CallDup2, flow
  <2>2. CASE t[a.h] # NULL
    <3>1. Put(Did) /\ fd' = With(a.to, t[a.h]) BY <1>3, <1>4, <1>12, <2>2 DEF CallDup2, IsOpen
    <3>2. PICK d : Put(d) /\ d = Rest(c) BY <1>4, <3>1
    <3>3. Dup2s(c, t, d, fd') BY <1>2, <1>3, <2>1, <2>2, <3>1, <3>2 DEF Dup2s, With
    <3> QED BY <1>1, <2>1, <3>2, <3>3 DEF Does
  <2>3. CASE t[a.h] = NULL
    <3>1. PICK d : Put(d) /\ d = [Did EXCEPT !.todo = IF Calling("move") THEN <<Call("close", Arg.to)>> \o @ ELSE @]
      BY <1>3, <1>4, <1>12, <2>3 DEF CallDup2, IsOpen
    <3>2. fd' = t BY <1>3, <1>4, <1>12, <2>3 DEF CallDup2, IsOpen
    <3>3. a.f = "dup2" => d = Rest(c)
      <4> HAVE a.f = "dup2"
      <4>1. ~Calling("move") BY <1>5
      <4>2. d = [Did EXCEPT !.todo = Did.todo] BY <3>1, <4>1
      <4> QED BY <1>4, <4>2 DEF Activations
    <3>4. Dup2s(c, t, d, fd') BY <1>2, <2>1, <2>3, <3>2, <3>3 DEF Dup2s
    <3> QED BY <1>1, <2>1, <3>1, <3>4 DEF Does
  <2> QED BY <2>2, <2>3
<1>13. CASE CallClose
  <2>1. PICK d : Put(d) /\ d = Rest(c) BY <1>4, <1>13 DEF CallClose
  <2>2. fd' = With(a.h, NULL) /\ UNCHANGED <<disk, breaks>> BY <1>4, <1>13 DEF CallClose, Closed, flow
  <2>3. Closes1(c, t, d, fd') BY <1>2, <1>3, <1>5, <1>13, <2>1, <2>2 DEF Closes1, With, CallClose
  <2> QED BY <1>1, <2>1, <2>2, <2>3 DEF Does
<1>14. CASE CallRestored
  <2>1. PICK d : Put(d) /\ d = RestSave(c, a.h, 0)
    <3>1. [Did EXCEPT !.naStd[Arg.h] = 0] = RestSave(c, a.h, 0) BY <1>4 DEF RestSave
    <3> QED BY <1>14, <3>1 DEF CallRestored
  <2>2. fd' = With(c.naStd[a.h], NULL) /\ UNCHANGED <<disk, breaks>> BY <1>4, <1>14 DEF CallRestored, Closed, flow
  <2>3. Restores1(c, t, d, fd') BY <1>2, <1>5, <1>14, <2>1, <2>2 DEF Restores1, With, CallRestored
  <2> QED BY <1>1, <2>1, <2>2, <2>3 DEF Does
<1> QED BY <1>9, <1>10, <1>11, <1>12, <1>13, <1>14 DEF DosCall

LEMMA DosCallStep ==
  ASSUME IInv, NeverFull, DosCall
  PROVE  IInv'
<1>1. PICK c, t, u : c = Cur /\ t = fd /\ u = fd' OBVIOUS
<1>2. /\ c \in Activations /\ t \in Tables /\ Keeps(c, t) /\ disk \subseteq Pipes /\ breaks \in 0 .. Breaks
      /\ Breaks \in Nat
  BY <1>1, CurFacts, BreaksAssumption
<1>3. c.todo # <<>> /\ UNCHANGED <<disk, breaks>> /\ \E d : Put(d) /\ Does(c, t, d, u)
  BY <1>1, <1>2, DosCallIs
<1>4. PICK d : Put(d) /\ Does(c, t, d, u) BY <1>3
<1>5. PICK s \in SUBSET (HandlesOrNone) : Doing(c, t, s) /\ (breaks = Breaks => Whole(c, t, s)) BY <1>1 DEF IInv
<1>6. Follows(c, t, s, d, u) BY <1>2, <1>3, <1>4, <1>5, DoingStep
<1>7. PICK r \in SUBSET (HandlesOrNone) : Doing(d, u, r) /\ (Whole(c, t, s) => Whole(d, u, r)) BY <1>6 DEF Follows
<1>8. d \in Activations /\ u \in Tables /\ Keeps(d, u) /\ d.entry = c.entry BY <1>6 DEF Follows
<1>9. disk' \subseteq Pipes /\ breaks' \in Nat /\ breaks' <= breaks /\ (breaks' = Breaks => Whole(d, u, r))
  BY <1>2, <1>3, <1>5, <1>7
<1> QED BY <1>1, <1>4, <1>7, <1>8, <1>9, PutKeeps

\* What fails, or ends the line.
LEMMA FailingStep ==
  ASSUME IInv, \/ TopEnd \/ TopFails \/ CreatePipeFails \/ OpenPipeFails \/ RedirBadName \/ RedirFailed \/ RunRaises
  PROVE  IInv'
<1>1. Cur.todo = <<>>
  BY DEF TopEnd, TopFails, CreatePipeFails, OpenPipeFails, RedirBadName, RedirFailed, RunRaises, Ready, More, At
<1>2. Put(Break(Cur)) \/ Put(Fails(Cur)) \/ Put(Aborts(Cur))
  BY Zenon DEF TopEnd, TopFails, CreatePipeFails, OpenPipeFails, RedirBadName, RedirFailed, RunRaises
<1>3. fd' = fd /\ breaks' = breaks
  BY DEF TopEnd, TopFails, CreatePipeFails, OpenPipeFails, RedirBadName, RedirFailed, RunRaises, Error
<1>4. disk' \subseteq disk
  BY DEF TopEnd, TopFails, CreatePipeFails, OpenPipeFails, RedirBadName, RedirFailed, RunRaises, Error
<1>5. disk \subseteq Pipes BY CurFacts
<1>6. disk' \subseteq Pipes BY <1>4, <1>5
<1> QED BY <1>1, <1>2, <1>3, <1>6, BreakStep

LEMMA InterruptStep ==
  ASSUME IInv, Interrupt
  PROVE  IInv'
<1>1. Put(Aborts(Cur)) /\ fd' = fd /\ disk' = disk /\ breaks > 0 /\ breaks' = breaks - 1 BY DEF Interrupt
<1>2. disk' \subseteq Pipes BY <1>1, CurFacts
<1> QED BY <1>1, <1>2, BreakStep

\* Where an activation stands in its line.
LEMMA LineFacts ==
  ASSUME NEW c \in Activations
  PROVE  /\ c.line \in Seq(Stages) /\ Len(c.line) \in Nat /\ c.k \in Nat \ {0}
         /\ c.k <= Len(c.line) => InLine(c) /\ c.line[c.k] \in Stages
         /\ InLine(c) => c.k <= Len(c.line)
<1>1. c.line \in Lines \cup Groups /\ c.k \in Nat \ {0} BY DEF Activations
<1>2. c.line \in Seq(Stages) BY <1>1, LinesAssumption, Zenon
<1> HIDE DEF Stages
<1> QED BY <1>1, <1>2 DEF InLine

LEMMA OpIs == Op = OpOf(Cur) /\ IO = IOOf(Cur) /\ Redirected = RedirectedOf(Cur)
<1>1. Op = OpOf(Cur) BY Zenon DEF Op, OpOf, Stage
<1>2. IO = IOOf(Cur) BY <1>1, Zenon DEF IO, IOOf, Stage
<1> QED BY <1>1, <1>2, Zenon DEF Redirected, RedirectedOf

\* The least element of what AfterSep() and After() look for.
LEMMA AfterSepType ==
  ASSUME NEW c \in Activations
  PROVE  AfterSep(c.line, c.k) \in Nat \ {0}
<1> DEFINE seps == {i \in c.k .. Len(c.line) : c.line[i].sep = "^"}
           n == CHOOSE i \in seps : \A j \in seps : i <= j
<1>1. Len(c.line) \in Nat /\ c.k \in Nat BY LineFacts
<1>2. seps \subseteq Nat BY <1>1
<1>3. AfterSep(c.line, c.k) = IF seps = {} THEN Len(c.line) + 1 ELSE 1 + n BY Zenon DEF AfterSep
<1> HIDE DEF seps
<1>4. seps # {} => n \in Nat BY <1>2, LeastElement
<1> HIDE DEF n
<1> QED BY <1>1, <1>3, <1>4

LEMMA AfterType ==
  ASSUME NEW c \in Activations, InLine(c), NEW r
  PROVE  After(c.line, c.k, r).k \in Nat \ {0} /\ After(c.line, c.k, r).empty \in BOOLEAN
<1> DEFINE l == c.line
           k == c.k
           m == Len(l)
           Stops(j) == ~(PassesOver(l[j].sep, r) /\ l[j + 1].sep \in CondSeps)
           stops == {j \in k .. m : Stops(j)}
           last == CHOOSE j \in k .. m : /\ \A i \in k .. j - 1 : PassesOver(l[i].sep, r) /\ l[i + 1].sep \in CondSeps
                                         /\ Stops(j)
           over == PassesOver(l[last].sep, r)
<1>1. m \in Nat /\ k \in Nat \ {0} /\ k <= m BY LineFacts
<1>2. m \in stops
  <2>1. l \in Lines \cup Groups BY DEF Activations
  <2>2. m \in DOMAIN l /\ m \in k .. m
    <3>1. l \in Seq(Stages) BY LineFacts
    <3> HIDE DEF l, Stages
    <3> QED BY <1>1, <3>1
  <2>3. l[m].sep = "" BY <2>1, <2>2, LinesAssumption, Zenon
  <2>4. ~PassesOver(l[m].sep, r) BY <2>3, Zenon DEF PassesOver
  <2> QED BY <2>2, <2>4, Zenon
<1>3. \E n \in stops : \A j \in stops : n <= j
  <2>1. stops \subseteq Nat BY <1>1
  <2> HIDE DEF stops
  <2> QED BY <1>2, <2>1, LeastElement
<1>4. PICK n \in stops : \A j \in stops : n <= j BY <1>3
<1>5. last \in k .. m
  <2>1. \A i \in k .. n - 1 : ~Stops(i)
    <3> HIDE DEF k, m, Stops
    <3> QED BY <1>1, <1>4
  <2>2. n \in k .. m /\ Stops(n) BY <1>4
  <2>3. \A i \in k .. n - 1 : PassesOver(l[i].sep, r) /\ l[i + 1].sep \in CondSeps BY <2>1, Zenon
  <2> QED BY <2>2, <2>3, Zenon
<1>6. After(c.line, c.k, r) = [k |-> IF over /\ last + 1 = m THEN last + 2 ELSE last + 1, empty |-> over /\ last + 1 < m]
  BY Zenon DEF After
<1>7. PICK x \in BOOLEAN : x = (over /\ last + 1 < m) BY Zenon
<1>8. PICK z : z = IF over /\ last + 1 = m THEN last + 2 ELSE last + 1
  <2> HIDE DEF over, last, m
  <2> QED BY Zenon
<1>9. z \in Nat \ {0}
  <2>1. z = last + 2 \/ z = last + 1
    <3> HIDE DEF over, last
    <3> QED BY <1>8
  <2> HIDE DEF last
  <2> QED BY <1>1, <1>5, <2>1
<1>10. After(c.line, c.k, r) = [k |-> z, empty |-> x] BY <1>6, <1>7, <1>8, Zenon
<1> QED BY <1>9, <1>10

LEMMA TopSteps ==
  ASSUME IInv, NoIffPipes, TopSkip \/ TopStart
  PROVE  IInv'
<1>1. PICK c, t : c = Cur /\ t = fd OBVIOUS
<1>2. c.at = "top" /\ c.todo = <<>> BY <1>1 DEF TopSkip, TopStart, Ready, At
<1>3. c \in Activations /\ Plain(c) /\ OpenStd(t) BY <1>1, <1>2, CurFacts, CurIdle DEF Idle
<1>4. fd' = fd /\ disk' \subseteq Pipes /\ breaks' = breaks BY CurFacts DEF TopSkip, TopStart
<1>5. CASE TopSkip
  <2>1. PICK k \in Nat \ {0} : k = AfterSep(c.line, c.k) BY <1>3, AfterSepType
  <2>2. PICK d : d = [c EXCEPT !.k = k, !.empty = FALSE] OBVIOUS
  <2>3. Put(d) BY <1>1, <1>5, <2>1, <2>2 DEF TopSkip
  <2>4. d \in Activations BY <1>3, <2>1, <2>2 DEF Activations
  <2>5. /\ d.entry = c.entry /\ d.naStd = c.naStd /\ d.todo = <<>> /\ d.at = "top" /\ d.fPipeOpen = c.fPipeOpen
    BY <1>2, <1>3, <2>2 DEF Activations
  <2>6. Doing(d, t, {}) BY <1>3, <2>5 DEF Doing, Plain, Quiet
  <2> QED BY <1>1, <1>2, <1>4, <2>3, <2>4, <2>5, <2>6, StayStep
<1>6. CASE TopStart
  <2>1. InLine(c)
    <3>1. c.k <= Len(c.line) BY <1>1, <1>6 DEF TopStart, Ready
    <3> QED BY <1>3, <3>1, LineFacts
  <2>2. PICK p : p = IF Sep \in PipeSeps THEN "pipe" ELSE "redir" OBVIOUS
  <2>3. PICK d : d = [c EXCEPT !.at = p, !.n = 1, !.ret = "0"] OBVIOUS
  <2>4. Put(d) BY <1>1, <1>6, <2>2, <2>3, Zenon DEF TopStart
  <2>5. p \in {"pipe", "redir"} /\ (p = "pipe" => Sep \in PipeSeps) BY <2>2
  <2>6. d \in Activations
    <3>1. p \in Places /\ 1 \in Nat \ {0} BY <2>5 DEF Places
    <3>2. PICK b : b = [c EXCEPT !.at = p] OBVIOUS
    <3>3. b \in Activations BY <1>3, <3>1, <3>2 DEF Activations
    <3>4. PICK e : e = [b EXCEPT !.n = 1] OBVIOUS
    <3>5. e \in Activations BY <3>1, <3>3, <3>4 DEF Activations
    <3>6. d = [e EXCEPT !.ret = "0"] BY <2>3, <3>2, <3>4
    <3> QED BY <3>5, <3>6 DEF Activations
  <2>7. /\ d.entry = c.entry /\ d.naStd = c.naStd /\ d.todo = <<>> /\ d.at = p /\ d.fPipeOpen = c.fPipeOpen
        /\ d.line = c.line /\ d.k = c.k /\ d.empty = c.empty
    BY <1>2, <1>3, <2>3 DEF Activations
  <2>8. OpOf(d) = OpOf(c) /\ InLine(d) BY <2>1, <2>7, Zenon DEF OpOf, InLine
  <2>9. Plain(d) /\ Quiet(d, t, {}) BY <1>3, <2>7 DEF Plain, Quiet
  <2>10. CASE p = "redir"
    <3>1. Doing(d, t, {}) BY <2>7, <2>8, <2>9, <2>10 DEF Doing
    <3> QED BY <1>1, <1>2, <1>4, <2>4, <2>6, <2>7, <3>1, StayStep
  <2>11. CASE p = "pipe"
    <3>1. c.line[c.k].sep \in PipeSeps BY <1>1, <2>5, <2>11 DEF Sep, Stage
    <3>2. c.line[c.k].op # "iff"
      <4>1. c.line \in Lines \cup Groups /\ c.k \in DOMAIN c.line BY <1>3, <2>1 DEF Activations, InLine
      <4> QED BY <3>1, <4>1 DEF NoIffPipes
    <3>3. OpOf(c) # "iff" BY <3>2 DEF OpOf
    <3>4. Doing(d, t, {}) BY <2>7, <2>8, <2>9, <2>11, <3>3 DEF Doing
    <3> QED BY <1>1, <1>2, <1>4, <2>4, <2>6, <2>7, <3>4, StayStep
  <2> QED BY <2>5, <2>10, <2>11
<1> QED BY <1>5, <1>6

\* What is left of the stage is the same, and so are its handles.
Stays(c, d) == /\ d.then = c.then /\ d.line = c.line /\ d.k = c.k /\ d.n = c.n /\ d.empty = c.empty
               /\ d.fPipeOpen = c.fPipeOpen /\ d.entry = c.entry /\ d.naStd = c.naStd /\ d.todo = <<>>

LEMMA MoveOn ==
  ASSUME IInv, NEW c \in Activations, c = Cur, c.todo = <<>>, NEW t, t = fd, NEW d \in Activations, Put(d), Stays(c, d),
         fd' = fd, disk' \subseteq Pipes, breaks' = breaks,
         \/ /\ c.at = "pipe" /\ d.at = "openpipe" /\ d.file # NULL
         \/ c.at = "redir" /\ d.at = "run"
         \/ c.at = "open" /\ d.at = "failed"
         \/ c.at = "kill" /\ d.at \in {"remove", "done"}
         \/ c.at = "remove" /\ d.at = "done"
         \/ c.at = "unredir" /\ c.fPipeOpen /\ d.at = "openin"
         \/ c.at = "unredir" /\ ~c.fPipeOpen /\ d.at = c.then
  PROVE  IInv'
<1>1. Idle(c, t) BY CurIdle
<1>2. /\ d.then = c.then /\ d.line = c.line /\ d.k = c.k /\ d.n = c.n /\ d.empty = c.empty
      /\ d.fPipeOpen = c.fPipeOpen /\ d.entry = c.entry /\ d.naStd = c.naStd /\ d.todo = <<>>
  BY DEF Stays
<1>3. OpOf(d) = OpOf(c) /\ (InLine(d) <=> InLine(c)) /\ (Plain(d) <=> Plain(c)) /\ (Unsaved(d, Std) <=> Unsaved(c, Std))
  BY <1>2, Zenon DEF OpOf, InLine, Plain, Unsaved
<1>4. Unsaved(c, Std) => c.naStd[STDOUT] = 0 /\ c.naStd[STDERR] = 0 BY DEF Unsaved, Std
<1>5. Doing(d, t, {}) BY <1>1, <1>2, <1>3, <1>4 DEF Doing, Idle, Quiet, Plain
<1> QED BY <1>2, <1>5, StayStep

LEMMA MovingOn ==
  ASSUME IInv, CreatePipe \/ RedirDone \/ UnredirDone \/ UnredirNext \/ Kill \/ Remove
  PROVE  IInv'
<1>1. PICK c, t : c = Cur /\ t = fd OBVIOUS
<1>2. c \in Activations /\ t \in Tables /\ disk \subseteq Pipes BY <1>1, CurFacts
<1>3. c.todo = <<>> BY <1>1, Zenon DEF CreatePipe, RedirDone, UnredirDone, UnredirNext, Kill, Remove, At
<1>4. fd' = fd /\ breaks' = breaks
  <2>1. UNCHANGED <<fd, flow>> \/ UNCHANGED <<fd, disk, flow>>
    BY Zenon DEF CreatePipe, RedirDone, UnredirDone, UnredirNext, Kill, Remove
  <2> QED BY <2>1 DEF flow
<1>5. CASE CreatePipe
  <2>1. PICK p \in Pipes \ disk : disk' = disk \cup {p} /\ Put([Cur EXCEPT !.at = "openpipe", !.file = p])
    BY <1>5, Zenon DEF CreatePipe
  <2>2. PICK d : d = [c EXCEPT !.at = "openpipe", !.file = p] OBVIOUS
  <2>3. d \in Activations BY <1>2, <2>1, <2>2 DEF Activations, Places
  <2>4. Stays(c, d) /\ d.at = "openpipe" /\ d.file = p BY <1>2, <1>3, <2>2 DEF Activations, Stays
  <2>5. p # NULL BY NullAssumption
  <2>6. c.at = "pipe" /\ Put(d)
    <3>1. c.at = "pipe" BY <1>1, <1>5, Zenon DEF CreatePipe, At
    <3> QED BY <1>1, <2>1, <2>2, <3>1
  <2>7. disk' \subseteq Pipes BY <1>2, <2>1
  <2> QED BY <1>1, <1>2, <1>3, <1>4, <2>3, <2>4, <2>5, <2>6, <2>7, MoveOn
<1>6. CASE RedirDone
  <2>1. PICK d : d = [c EXCEPT !.at = "run"] OBVIOUS
  <2>2. d \in Activations BY <1>2, <2>1 DEF Activations, Places
  <2>3. Stays(c, d) /\ d.at = "run" BY <1>2, <1>3, <2>1 DEF Activations, Stays
  <2>4. c.at = "redir" /\ Put(d) /\ disk' \subseteq Pipes BY <1>1, <1>2, <1>6, <2>1 DEF RedirDone, At
  <2> QED BY <1>1, <1>2, <1>3, <1>4, <2>2, <2>3, <2>4, MoveOn
<1>7. CASE UnredirDone
  <2>1. c.at = "unredir" /\ ~c.fPipeOpen /\ c.then \in Places
    <3>1. c.at = "unredir" /\ ~c.fPipeOpen BY <1>1, <1>7 DEF UnredirDone, At
    <3>2. c.then \in {"top", "failed", "kill"} BY <1>1, <1>3, <3>1, CurIdle DEF Idle
    <3> QED BY <3>1, <3>2 DEF Places
  <2>2. PICK d : d = [c EXCEPT !.at = c.then] OBVIOUS
  <2>3. d \in Activations BY <1>2, <2>1, <2>2 DEF Activations
  <2>4. Stays(c, d) /\ d.at = c.then BY <1>2, <1>3, <2>2 DEF Activations, Stays
  <2>5. Put(d) /\ disk' \subseteq Pipes BY <1>1, <1>2, <1>7, <2>2 DEF UnredirDone
  <2> QED BY <1>1, <1>2, <1>3, <1>4, <2>1, <2>3, <2>4, <2>5, MoveOn
<1>8. CASE UnredirNext
  <2>1. PICK d : d = [c EXCEPT !.at = "openin", !.pszInPipe = c.pszOutPipe] OBVIOUS
  <2>2. d \in Activations BY <1>2, <2>1 DEF Activations, Places
  <2>3. Stays(c, d) /\ d.at = "openin" BY <1>2, <1>3, <2>1 DEF Activations, Stays
  <2>4. c.at = "unredir" /\ c.fPipeOpen /\ Put(d) BY <1>1, <1>8, <2>1 DEF UnredirNext, At
  <2>5. disk' \subseteq Pipes BY <1>2, <1>8 DEF UnredirNext
  <2> QED BY <1>1, <1>2, <1>3, <1>4, <2>2, <2>3, <2>4, <2>5, MoveOn
<1>9. CASE Kill
  <2>1. PICK p : p = IF c.fIsPiped THEN "remove" ELSE "done" OBVIOUS
  <2>2. PICK d : d = [c EXCEPT !.at = p, !.fIsPiped = FALSE] OBVIOUS
  <2>3. p \in {"remove", "done"} /\ p \in Places BY <2>1 DEF Places
  <2>4. d \in Activations
    <3>1. PICK b : b = [c EXCEPT !.at = p] OBVIOUS
    <3>2. b \in Activations BY <1>2, <2>3, <3>1 DEF Activations
    <3>3. d = [b EXCEPT !.fIsPiped = FALSE] BY <2>2, <3>1
    <3> QED BY <3>2, <3>3 DEF Activations
  <2>5. Stays(c, d) /\ d.at = p BY <1>2, <1>3, <2>2 DEF Activations, Stays
  <2>6. c.at = "kill" /\ Put(d) /\ disk' \subseteq Pipes BY <1>1, <1>2, <1>9, <2>1, <2>2 DEF Kill, At
  <2> QED BY <1>1, <1>2, <1>3, <1>4, <2>3, <2>4, <2>5, <2>6, MoveOn
<1>10. CASE Remove
  <2>1. PICK d : d = [c EXCEPT !.at = "done"] OBVIOUS
  <2>2. d \in Activations BY <1>2, <2>1 DEF Activations, Places
  <2>3. Stays(c, d) /\ d.at = "done" BY <1>2, <1>3, <2>1 DEF Activations, Stays
  <2>4. c.at = "remove" /\ Put(d) BY <1>1, <1>10, <2>1 DEF Remove, At
  <2>5. disk' \subseteq Pipes BY <1>2, <1>10 DEF Remove
  <2> QED BY <1>1, <1>2, <1>3, <1>4, <2>2, <2>3, <2>4, <2>5, MoveOn
<1> QED BY <1>5, <1>6, <1>7, <1>8, <1>9, <1>10

\* After a command, whatever it returned.
LEMMA ExecutedIs ==
  ASSUME NEW c \in Activations, InLine(c), NEW r \in {"0", "error", "ctrlc", "abort"}
  PROVE  \E d \in Activations : d.naStd = c.naStd /\ d.entry = c.entry /\ Executed(c, r) = Unredir(d, "top")
<1>1. PICK k \in Nat \ {0}, x \in BOOLEAN : k = After(c.line, c.k, r).k /\ x = After(c.line, c.k, r).empty BY AfterType
<1>2. PICK d : d = [c EXCEPT !.ret = r, !.k = k, !.empty = x] OBVIOUS
<1>3. d \in Activations
  <2>1. PICK a : a = [c EXCEPT !.ret = r] OBVIOUS
  <2>2. a \in Activations BY <2>1 DEF Activations
  <2>3. PICK b : b = [a EXCEPT !.k = k] OBVIOUS
  <2>4. b \in Activations BY <2>2, <2>3 DEF Activations
  <2>5. d = [b EXCEPT !.empty = x] BY <1>2, <2>1, <2>3
  <2> QED BY <2>4, <2>5 DEF Activations
<1>4. d.naStd = c.naStd /\ d.entry = c.entry BY <1>2 DEF Activations
<1>5. Executed(c, r) = Unredir(d, "top") BY <1>1, <1>2, Zenon DEF Executed
<1> QED BY <1>3, <1>4, <1>5

LEMMA RunSteps ==
  ASSUME IInv, Run \/ RunIff
  PROVE  IInv'
<1>1. PICK c, t : c = Cur /\ t = fd OBVIOUS
<1>2. c \in Activations /\ t \in Tables /\ disk \subseteq Pipes BY <1>1, CurFacts
<1>3. c.at = "run" /\ c.todo = <<>> BY <1>1, Zenon DEF Run, RunIff, At
<1>4. fd' = fd /\ breaks' = breaks /\ disk' \subseteq Pipes
  <2>1. UNCHANGED <<fd, disk, signals, fException, breaks>> BY Zenon DEF Run, RunIff
  <2> QED BY <1>2, <2>1
<1>5. InLine(c) /\ (OpOf(c) = "iff" => Plain(c)) /\ OpenStd(t) BY <1>1, <1>3, CurIdle DEF Idle
<1>6. CASE Run
  <2>1. PICK r \in {"0", "error", "ctrlc", "abort"} : Put(Executed(c, r))
    <3>1. \E r \in (IF Op = "empty" \/ (Op = "else" /\ iff = "true") THEN {"0"} ELSE {"0", "error", "abort"}) :
             Put(Executed(Cur, r))
      BY <1>6, Zenon DEF Run
    <3>2. (IF Op = "empty" \/ (Op = "else" /\ iff = "true") THEN {"0"} ELSE {"0", "error", "abort"})
             \subseteq {"0", "error", "ctrlc", "abort"}
      OBVIOUS
    <3> QED BY <1>1, <3>1, <3>2, Zenon
  <2>2. PICK d \in Activations : d.naStd = c.naStd /\ d.entry = c.entry /\ Executed(c, r) = Unredir(d, "top")
    BY <1>2, <1>5, ExecutedIs
  <2>3. Put(Unredir(d, "top")) BY <2>1, <2>2
  <2> QED BY <1>1, <1>3, <1>4, <2>2, <2>3, BackStep
<1>7. CASE RunIff
  <2>1. PICK k : k = c.k + 1 OBVIOUS
  <2>2. PICK d : d = [c EXCEPT !.at = "top", !.k = k] OBVIOUS
  <2>3. k \in Nat \ {0} BY <1>2, <2>1, LineFacts
  <2>4. d \in Activations
    <3>1. PICK b : b = [c EXCEPT !.at = "top"] OBVIOUS
    <3>2. b \in Activations BY <1>2, <3>1 DEF Activations, Places
    <3>3. d = [b EXCEPT !.k = k] BY <2>2, <3>1
    <3> QED BY <2>3, <3>2, <3>3 DEF Activations
  <2>5. Put(d) /\ Op = "iff"
    <3>1. Put([Cur EXCEPT !.at = "top", !.k = @ + 1]) /\ Op = "iff" BY <1>7, Zenon DEF RunIff
    <3> QED BY <1>1, <2>1, <2>2, <3>1
  <2>6. /\ d.entry = c.entry /\ d.naStd = c.naStd /\ d.todo = <<>> /\ d.at = "top" /\ d.fPipeOpen = c.fPipeOpen
    BY <1>2, <1>3, <2>2 DEF Activations
  <2>7. Plain(c) BY <1>1, <1>5, <2>5, OpIs
  <2>8. Doing(d, t, {}) BY <1>5, <2>6, <2>7 DEF Doing, Plain, Quiet
  <2> QED BY <1>1, <1>3, <1>4, <2>4, <2>5, <2>6, <2>8, StayStep
<1> QED BY <1>6, <1>7

\* The file of the pipe was not opened.
LEMMA OpenFailsSteps ==
  ASSUME IInv, UnredirOpenFails
  PROVE  IInv'
<1>1. PICK c, t : c = Cur /\ t = fd OBVIOUS
<1>2. c \in Activations /\ t \in Tables /\ disk \subseteq Pipes BY <1>1, CurFacts
<1>3. c.at = "openin" /\ c.todo = <<>> BY <1>1, Zenon DEF UnredirOpenFails, At
<1>4. fd' = fd /\ breaks' = breaks /\ disk' \subseteq Pipes
  <2>1. UNCHANGED <<fd, disk, iff, signals, breaks>> BY Zenon DEF UnredirOpenFails
  <2> QED BY <1>2, <2>1
<1>5. c.then \in {"top", "failed"} /\ Unsaved(c, Std) /\ OpenStd(t) BY <1>1, <1>3, CurIdle DEF Idle
<1>6. CASE Put([Cur EXCEPT !.at = Cur.then, !.fPipeOpen = FALSE])
  <2>1. PICK d : d = [c EXCEPT !.at = c.then, !.fPipeOpen = FALSE] OBVIOUS
  <2>2. d \in Activations BY <1>2, <1>5, <2>1 DEF Activations, Places
  <2>3. /\ d.entry = c.entry /\ d.naStd = c.naStd /\ d.todo = <<>> /\ d.at = c.then /\ d.fPipeOpen = FALSE
    BY <1>2, <1>3, <2>1 DEF Activations
  <2>4. Put(d) BY <1>1, <1>6, <2>1
  <2>5. c.naStd[STDOUT] = 0 /\ c.naStd[STDERR] = 0 BY <1>5 DEF Unsaved, Std
  <2>6. Doing(d, t, {}) BY <1>5, <2>3, <2>5 DEF Doing, Plain, Quiet
  <2> QED BY <1>1, <1>3, <1>4, <2>2, <2>3, <2>4, <2>6, StayStep
<1>7. CASE Put(Aborts(Cur)) BY <1>1, <1>3, <1>4, <1>7, BreakStep
<1>8. Put([Cur EXCEPT !.at = Cur.then, !.fPipeOpen = FALSE]) \/ Put(Aborts(Cur)) BY Zenon DEF UnredirOpenFails
<1> QED BY <1>6, <1>7, <1>8

\* What redir() redirects.
LEMMA TargetsAre ==
  /\ DOMAIN Targets = {"<", ">", ">&", ">&>"}
  /\ Targets["<"] = {STDIN} /\ Targets[">"] = {STDOUT} /\ Targets[">&"] = {STDOUT, STDERR} /\ Targets[">&>"] = {STDERR}
BY DEF Targets

LEMMA RedirectedAre ==
  ASSUME NEW c \in Activations, InLine(c), c.n \in DOMAIN IOOf(c)
  PROVE  /\ RedirectedOf(c) \in {{STDIN}, {STDOUT}, {STDOUT, STDERR}, {STDERR}} /\ OpOf(c) # "iff"
         /\ c.n <= Len(IOOf(c)) /\ Len(IOOf(c)) \in Nat
<1>1. c.line[c.k] \in Stages BY LineFacts
<1>2. c.line[c.k].io \in Seq(DOMAIN Targets) BY <1>1, Zenon DEF Stages
<1>3. OpOf(c) \in {"cmd", "group"} /\ IOOf(c) = c.line[c.k].io
  <2>1. CASE OpOf(c) \in {"cmd", "group"} BY <2>1, Zenon DEF IOOf
  <2>2. CASE OpOf(c) \notin {"cmd", "group"}
    <3>1. IOOf(c) = <<>> BY <2>2, Zenon DEF IOOf
    <3> QED BY <3>1
  <2> QED BY <2>1, <2>2
<1>4. PICK q : q = IOOf(c) OBVIOUS
<1>5. q \in Seq(DOMAIN Targets) /\ c.n \in DOMAIN q BY <1>2, <1>3, <1>4
<1>6. q[c.n] \in DOMAIN Targets /\ c.n <= Len(q) /\ Len(q) \in Nat BY <1>5
<1>7. Targets[q[c.n]] \in {{STDIN}, {STDOUT}, {STDOUT, STDERR}, {STDERR}} BY <1>6, TargetsAre
<1> QED BY <1>3, <1>4, <1>6, <1>7 DEF RedirectedOf

LEMMA ShortSequences ==
  ASSUME NEW S, NEW x \in S, NEW y \in S
  PROVE  /\ (<<>> \o <<>>) \o <<>> = <<>> /\ (<<x>> \o <<>>) \o <<>> = <<x>> /\ (<<>> \o <<x>>) \o <<>> = <<x>>
         /\ (<<>> \o <<>>) \o <<x>> = <<x>> /\ (<<>> \o <<x>>) \o <<y>> = <<x, y>> /\ <<x>> \o <<y>> = <<x, y>>
<1>1. <<>> \in Seq(S) /\ <<x>> \in Seq(S) /\ <<y>> \in Seq(S) OBVIOUS
<1>2. \A a \in Seq(S) : <<>> \o a = a /\ a \o <<>> = a BY ConcatEmptySeq
<1>3. <<x>> \o <<y>> = <<x, y>>
  <2> DEFINE q == <<x>> \o <<y>>
  <2>1. q \in Seq(S) /\ Len(q) = 2 /\ q[1] = x /\ q[2] = y OBVIOUS
  <2> HIDE DEF q
  <2>2. q = <<x, y>> BY <2>1, SeqEqual
  <2> QED BY <2>2 DEF q
<1> QED BY <1>1, <1>2, <1>3

\* The queues of redir().
LEMMA SavesAre ==
  /\ Saves({}) = <<>> /\ Saves({STDOUT}) = <<Call("save", STDOUT)>>
  /\ \A i \in Std : Saves({i}) \o Closes({i}) = <<Call("save", i), Call("close", i)>>
  /\ Saves({STDOUT, STDERR}) \o Closes({STDOUT, STDERR})
       = <<Call("save", STDOUT), Call("save", STDERR)>> \o <<Call("close", STDOUT), Call("close", STDERR)>>
<1>1. PICK a \in Calls, b \in Calls, e \in Calls :
        a = Call("save", STDIN) /\ b = Call("save", STDOUT) /\ e = Call("save", STDERR)
  BY CallTypes, HandleFacts DEF Std
<1>2. PICK x \in Calls, y \in Calls, z \in Calls :
        x = Call("close", STDIN) /\ y = Call("close", STDOUT) /\ z = Call("close", STDERR)
  BY CallTypes, HandleFacts DEF Std
<1>3. STDIN # STDOUT /\ STDIN # STDERR /\ STDOUT # STDERR BY DEF STDIN, STDOUT, STDERR
<1>4. Saves({}) = (<<>> \o <<>>) \o <<>> BY Zenon DEF Saves
<1>5. Saves({STDIN}) = (<<a>> \o <<>>) \o <<>> /\ Closes({STDIN}) = (<<x>> \o <<>>) \o <<>>
  <2>1. STDIN \in {STDIN} /\ STDOUT \notin {STDIN} /\ STDERR \notin {STDIN} BY <1>3
  <2> QED BY <1>1, <1>2, <2>1, Zenon DEF Saves, Closes
<1>6. Saves({STDOUT}) = (<<>> \o <<b>>) \o <<>> /\ Closes({STDOUT}) = (<<>> \o <<y>>) \o <<>>
  <2>1. STDIN \notin {STDOUT} /\ STDOUT \in {STDOUT} /\ STDERR \notin {STDOUT} BY <1>3
  <2> QED BY <1>1, <1>2, <2>1, Zenon DEF Saves, Closes
<1>7. Saves({STDERR}) = (<<>> \o <<>>) \o <<e>> /\ Closes({STDERR}) = (<<>> \o <<>>) \o <<z>>
  <2>1. STDIN \notin {STDERR} /\ STDOUT \notin {STDERR} /\ STDERR \in {STDERR} BY <1>3
  <2> QED BY <1>1, <1>2, <2>1, Zenon DEF Saves, Closes
<1>8. /\ Saves({STDOUT, STDERR}) = (<<>> \o <<b>>) \o <<e>>
      /\ Closes({STDOUT, STDERR}) = (<<>> \o <<y>>) \o <<z>>
  <2>1. STDIN \notin {STDOUT, STDERR} /\ STDOUT \in {STDOUT, STDERR} /\ STDERR \in {STDOUT, STDERR} BY <1>3
  <2> QED BY <1>1, <1>2, <2>1, Zenon DEF Saves, Closes
<1>9. Saves({}) = <<>> /\ Saves({STDIN}) = <<a>> /\ Saves({STDOUT}) = <<b>> /\ Saves({STDERR}) = <<e>>
      /\ Saves({STDOUT, STDERR}) = <<b, e>>
  <2> HIDE DEF Calls
  <2> QED BY <1>4, <1>5, <1>6, <1>7, <1>8, ShortSequences, Zenon
<1>10. Closes({STDIN}) = <<x>> /\ Closes({STDOUT}) = <<y>> /\ Closes({STDERR}) = <<z>>
       /\ Closes({STDOUT, STDERR}) = <<y, z>>
  <2> HIDE DEF Calls
  <2> QED BY <1>5, <1>6, <1>7, <1>8, ShortSequences, Zenon
<1>11. <<a>> \o <<x>> = <<a, x>> /\ <<b>> \o <<y>> = <<b, y>> /\ <<e>> \o <<z>> = <<e, z>> BY ShortSequences, Zenon
<1>12. \A i \in Std : Saves({i}) \o Closes({i}) = <<Call("save", i), Call("close", i)>>
  <2>1. Saves({STDIN}) \o Closes({STDIN}) = <<Call("save", STDIN), Call("close", STDIN)>>
    BY <1>1, <1>2, <1>9, <1>10, <1>11, Zenon
  <2>2. Saves({STDOUT}) \o Closes({STDOUT}) = <<Call("save", STDOUT), Call("close", STDOUT)>>
    BY <1>1, <1>2, <1>9, <1>10, <1>11, Zenon
  <2>3. Saves({STDERR}) \o Closes({STDERR}) = <<Call("save", STDERR), Call("close", STDERR)>>
    BY <1>1, <1>2, <1>9, <1>10, <1>11, Zenon
  <2> QED BY <2>1, <2>2, <2>3, Zenon DEF Std
<1> QED BY <1>1, <1>2, <1>9, <1>10, <1>12, Zenon

LEMMA EmptySequence ==
  ASSUME NEW S
  PROVE  <<>> \in Seq(S)
OBVIOUS

LEMMA MoreFacts ==
  ASSUME IInv, More, NEW c \in Activations, c = Cur
  PROVE  /\ c.at = "redir" /\ c.todo = <<>> /\ InLine(c) /\ c.n \in DOMAIN IOOf(c) /\ OpenStd(fd)
         /\ Redirected = RedirectedOf(c)
         /\ RedirectedOf(c) \in {{STDIN}, {STDOUT}, {STDOUT, STDERR}, {STDERR}}
<1>1. c.at = "redir" /\ c.todo = <<>> /\ c.n <= Len(IOOf(c)) BY OpIs DEF More, At
<1>2. InLine(c) /\ OpenStd(fd) BY <1>1, CurIdle DEF Idle
<1>3. c.line[c.k] \in Stages BY <1>2, LineFacts
<1>4. c.line[c.k].io \in Seq(DOMAIN Targets) BY <1>3, Zenon DEF Stages
<1>5. IOOf(c) \in Seq(DOMAIN Targets)
  <2>1. CASE OpOf(c) \in {"cmd", "group"} BY <1>4, <2>1, Zenon DEF IOOf
  <2>2. CASE OpOf(c) \notin {"cmd", "group"}
    <3>1. IOOf(c) = <<>> BY <2>2, Zenon DEF IOOf
    <3> QED BY <3>1, EmptySequence, Zenon
  <2> QED BY <2>1, <2>2
<1>6. c.n \in DOMAIN IOOf(c)
  <2>1. PICK q : q = IOOf(c) OBVIOUS
  <2>2. q \in Seq(DOMAIN Targets) /\ c.n <= Len(q) BY <1>1, <1>5, <2>1
  <2>3. c.n \in Nat \ {0} BY DEF Activations
  <2> QED BY <2>1, <2>2, <2>3
<1> QED BY <1>1, <1>2, <1>6, RedirectedAre, OpIs

LEMMA RedirSteps ==
  ASSUME IInv, RedirAssigned \/ RedirSave
  PROVE  IInv'
<1>1. PICK c, t, red : c = Cur /\ t = fd /\ red = RedirectedOf(c) OBVIOUS
<1>2. c \in Activations /\ t \in Tables /\ disk \subseteq Pipes BY <1>1, CurFacts
<1>3. More BY Zenon DEF RedirAssigned, RedirSave
<1>4. /\ c.at = "redir" /\ c.todo = <<>> /\ InLine(c) /\ c.n \in DOMAIN IOOf(c) /\ OpenStd(t) /\ Redirected = red
      /\ red \in {{STDIN}, {STDOUT}, {STDOUT, STDERR}, {STDERR}}
  BY <1>1, <1>2, <1>3, MoreFacts
<1>5. fd' = fd /\ breaks' = breaks /\ disk' \subseteq Pipes
  <2>1. UNCHANGED <<fd, disk, flow>> BY Zenon DEF RedirAssigned, RedirSave
  <2> QED BY <1>2, <2>1 DEF flow
<1>6. \A i \in Std : i \in Handles BY HandleFacts
<1>7. PICK a : a = Assigned OBVIOUS
<1>8. a = {i \in red : c.naStd[i] # 0} BY <1>1, <1>4, <1>7 DEF Assigned
<1>9. CASE RedirAssigned
  <2>1. PICK before : before = {i \in red : \A j \in a : i < j} OBVIOUS
  <2>2. a # {} /\ Put([c EXCEPT !.at = "failed", !.todo = Saves(before)])
    BY <1>1, <1>4, <1>7, <1>9, <2>1, Zenon DEF RedirAssigned
  <2>3. before = {} \/ (before = {STDOUT} /\ c.naStd[STDOUT] = 0)
    BY <1>4, <1>8, <2>1, <2>2 DEF STDIN, STDOUT, STDERR
  <2>4. PICK w \in Calls : w = Call("save", STDOUT) BY <1>6, CallTypes DEF Std
  <2>5. PICK q \in Seq(Calls) : q = Saves(before)
    <3>1. <<w>> \in Seq(Calls) /\ <<>> \in Seq(Calls)
      <4> HIDE DEF Calls
      <4> QED OBVIOUS
    <3> QED BY <2>3, <2>4, <3>1, SavesAre
  <2>6. q = <<>> \/ (q = <<Call("save", STDOUT)>> /\ c.naStd[STDOUT] = 0) BY <2>3, <2>5, SavesAre
  <2>7. PICK d : d = [c EXCEPT !.at = "failed", !.todo = q] OBVIOUS
  <2>8. d \in Activations BY <1>2, <2>7 DEF Activations, Places
  <2>9. d.at = "failed" /\ d.todo = q /\ d.entry = c.entry /\ d.naStd = c.naStd BY <1>2, <2>7 DEF Activations
  <2>10. Doing(d, t, {}) BY <1>4, <2>6, <2>9 DEF Doing
  <2>11. Put(d) BY <2>2, <2>5, <2>7
  <2> QED BY <1>1, <1>4, <1>5, <2>8, <2>9, <2>10, <2>11, StayStep
<1>10. CASE RedirSave
  <2>1. a = {} /\ Put([c EXCEPT !.at = "open", !.todo = Saves(red) \o Closes(red)])
    BY <1>1, <1>4, <1>7, <1>10, Zenon DEF RedirSave
  <2>2. \A i \in red : c.naStd[i] = 0 BY <1>8, <2>1
  <2>3. PICK q : q = Saves(red) \o Closes(red) OBVIOUS
  <2>4. \/ \E i \in Std : red = {i} /\ q = <<Call("save", i), Call("close", i)>>
        \/ /\ red = {STDOUT, STDERR}
           /\ q = <<Call("save", STDOUT), Call("save", STDERR)>> \o <<Call("close", STDOUT), Call("close", STDERR)>>
    BY <1>4, <2>3, SavesAre DEF Std
  <2>5. q \in Seq(Calls)
    <3>1. ASSUME NEW i \in Std PROVE <<Call("save", i), Call("close", i)>> \in Seq(Calls)
      <4>1. PICK x \in Calls, y \in Calls : x = Call("save", i) /\ y = Call("close", i) BY <1>6, CallTypes
      <4>2. <<x, y>> \in Seq(Calls)
        <5> HIDE DEF Calls
        <5> QED OBVIOUS
      <4> QED BY <4>1, <4>2
    <3>2. <<Call("save", STDOUT), Call("save", STDERR)>> \o <<Call("close", STDOUT), Call("close", STDERR)>> \in Seq(Calls)
      <4>1. PICK x \in Calls, y \in Calls, w \in Calls, z \in Calls :
              /\ x = Call("save", STDOUT) /\ y = Call("save", STDERR)
              /\ w = Call("close", STDOUT) /\ z = Call("close", STDERR)
        BY <1>6, CallTypes DEF Std
      <4>2. <<x, y>> \o <<w, z>> \in Seq(Calls)
        <5> HIDE DEF Calls
        <5> QED OBVIOUS
      <4> QED BY <4>1, <4>2
    <3> QED BY <2>4, <3>1, <3>2
  <2>6. PICK d : d = [c EXCEPT !.at = "open", !.todo = q] OBVIOUS
  <2>7. d \in Activations BY <1>2, <2>5, <2>6 DEF Activations, Places
  <2>8. /\ d.at = "open" /\ d.todo = q /\ d.entry = c.entry /\ d.naStd = c.naStd
        /\ d.line = c.line /\ d.k = c.k /\ d.n = c.n /\ d.empty = c.empty
    BY <1>2, <2>6 DEF Activations
  <2>9. InLine(d) /\ d.n \in DOMAIN IOOf(d) /\ RedirectedOf(d) = red
    <3>1. OpOf(d) = OpOf(c) BY <2>8, Zenon DEF OpOf
    <3>2. IOOf(d) = IOOf(c) BY <2>8, <3>1, Zenon DEF IOOf
    <3>3. RedirectedOf(d) = red BY <1>1, <2>8, <3>2, Zenon DEF RedirectedOf
    <3> QED BY <1>4, <2>8, <3>2, <3>3, Zenon DEF InLine
  <2>10. Opening(d, t, red)
    <3>1. CASE \E i \in Std : red = {i} /\ q = <<Call("save", i), Call("close", i)>>
      <4>1. PICK i \in Std : red = {i} /\ q = <<Call("save", i), Call("close", i)>> BY <3>1
      <4>2. OpeningOne(d, t, i) BY <1>4, <2>2, <2>8, <4>1 DEF OpeningOne
      <4> QED BY <4>1, <4>2 DEF Opening
    <3>2. CASE /\ red = {STDOUT, STDERR}
               /\ q = <<Call("save", STDOUT), Call("save", STDERR)>> \o <<Call("close", STDOUT), Call("close", STDERR)>>
      <4>1. d.naStd[STDOUT] = 0 /\ d.naStd[STDERR] = 0 BY <2>2, <2>8, <3>2
      <4>2. OpeningBoth(d, t) BY <1>4, <2>8, <3>2, <4>1, Zenon DEF OpeningBoth
      <4> QED BY <3>2, <4>2 DEF Opening
    <3> QED BY <2>4, <3>1, <3>2
  <2>11. Doing(d, t, {}) BY <2>8, <2>9, <2>10 DEF Doing
  <2>12. Put(d) BY <2>1, <2>3, <2>6
  <2> QED BY <1>1, <1>4, <1>5, <2>7, <2>8, <2>11, <2>12, StayStep
<1> QED BY <1>9, <1>10

\* The file of a redirection takes the place of the handle closed for it.
Opens(c, t, red, n, u) ==
  t \in Tables /\ Opening(c, t, red) /\ c.todo = <<>> /\ Fresh(t, n) /\ u = [t EXCEPT ![n] = "file"]
Opened(c, red, n, u) ==
  /\ n \in Std /\ c.naStd[n] # 0 /\ u \in Tables
  /\ \/ red # {STDOUT, STDERR} /\ OpenStd(u)
     \/ /\ red = {STDOUT, STDERR} /\ n = STDOUT /\ c.naStd[STDERR] # 0
        /\ u[STDIN] # NULL /\ u[STDOUT] # NULL

LEMMA OpenedAt ==
  ASSUME NEW c, NEW t, NEW red, NEW n, NEW u, Opens(c, t, red, n, u)
  PROVE  Opened(c, red, n, u)
<1> USE DEF Opens, Opened
<1>1. Handles \subseteq Nat /\ Std = {0, 1, 2} /\ Std \subseteq Handles BY HandleFacts
<1>2. STDIN = 0 /\ STDOUT = 1 /\ STDERR = 2 BY DEF STDIN, STDOUT, STDERR
<1>3. n \in Handles /\ n \in Nat /\ t[n] = NULL /\ \A g \in Handles : t[g] = NULL => n <= g BY <1>1 DEF Fresh
<1>4. "file" # NULL /\ u \in Tables /\ u[n] = "file" /\ \A g \in Handles : g # n => u[g] = t[g]
  BY <1>3, NullAssumption DEF Tables, Files
<1>5. ASSUME NEW i \in Std, red = {i}, OpeningOne(c, t, i)
      PROVE  n \in Std /\ c.naStd[n] # 0 /\ red # {STDOUT, STDERR} /\ OpenStd(u)
  <2>1. <<Call("save", i), Call("close", i)>> # <<>> /\ <<Call("close", i)>> # <<>>
    <3>1. i \in Handles BY <1>1
    <3>2. PICK x \in Calls, y \in Calls : x = Call("save", i) /\ y = Call("close", i) BY <3>1, CallTypes
    <3> HIDE DEF Calls
    <3> QED BY <3>2
  <2>2. c.naStd[i] # 0 /\ OpenBut(t, {i}) BY <1>5, <2>1 DEF OpeningOne
  <2>3. t[i] = NULL /\ \A j \in Std : j # i => t[j] # NULL BY <2>2 DEF OpenBut
  <2>4. n = i BY <1>1, <1>3, <2>3
  <2>5. OpenStd(u) BY <1>1, <1>4, <2>3, <2>4 DEF OpenStd
  <2>6. red # {STDOUT, STDERR}
    <3>1. STDOUT # STDERR /\ red = {i} BY <1>2, <1>5
    <3>2. red = {STDOUT, STDERR} => STDOUT \in red /\ STDERR \in red BY Zenon
    <3> QED BY <3>1, <3>2, Zenon
  <2> QED BY <2>2, <2>4, <2>5, <2>6
<1>6. ASSUME red = {STDOUT, STDERR}, OpeningBoth(c, t)
      PROVE  n \in Std /\ n = STDOUT /\ c.naStd[n] # 0 /\ c.naStd[STDERR] # 0 /\ u[STDIN] # NULL /\ u[STDOUT] # NULL
  <2>1. PICK a \in Calls, b \in Calls, x \in Calls, y \in Calls :
          /\ a = Call("save", STDOUT) /\ b = Call("save", STDERR)
          /\ x = Call("close", STDOUT) /\ y = Call("close", STDERR)
    BY <1>1, <1>2, CallTypes
  <2>2. <<a, b>> \o <<x, y>> # <<>> /\ <<b>> \o <<x, y>> # <<>> /\ <<x, y>> # <<>> /\ <<y>> # <<>>
    <3> HIDE DEF Calls
    <3> QED OBVIOUS
  <2>3. c.naStd[STDOUT] # 0 /\ c.naStd[STDERR] # 0 /\ OpenBut(t, {STDOUT, STDERR})
    BY <1>6, <2>1, <2>2, Zenon DEF OpeningBoth
  <2>4. t[0] # NULL /\ t[1] = NULL BY <1>1, <1>2, <2>3 DEF OpenBut
  <2>5. n = 1 BY <1>1, <1>3, <2>4
  <2> QED BY <1>1, <1>2, <1>4, <2>3, <2>4, <2>5
<1> QED BY <1>4, <1>5, <1>6 DEF Opening

LEMMA OpeningFile ==
  ASSUME IInv, RedirOpen
  PROVE  IInv'
<1>1. PICK c, t, red, n, u : c = Cur /\ t = fd /\ red = RedirectedOf(c) /\ n = NewHandle /\ u = fd' OBVIOUS
<1>2. /\ c \in Activations /\ t \in Tables /\ disk \subseteq Pipes /\ Keeps(c, t) /\ breaks \in 0 .. Breaks
      /\ Breaks \in Nat
  BY <1>1, CurFacts, BreaksAssumption
<1>3. c.at = "open" /\ c.todo = <<>> /\ NeverFull BY <1>1, Zenon DEF RedirOpen, At, NeverFull
<1>4. InLine(c) /\ c.n \in DOMAIN IOOf(c) /\ Opening(c, t, red) /\ (breaks = Breaks => Whole(c, t, {}))
  BY <1>1, <1>3, CurIdle DEF Idle
<1>5. Fresh(t, n) BY <1>1, <1>3, NewHandleFresh DEF IInv
<1>6. n \in Handles BY <1>5 DEF Fresh
<1>7. u = [t EXCEPT ![n] = "file"] /\ disk' = disk /\ breaks' = breaks
  <2>1. fd' = With(NewHandle, "file") /\ UNCHANGED <<disk, flow>> BY Zenon DEF RedirOpen
  <2> QED BY <1>1, <1>6, <2>1 DEF With, flow
<1>8. /\ n \in Std /\ c.naStd[n] # 0 /\ u \in Tables
      /\ \/ red # {STDOUT, STDERR} /\ OpenStd(u)
         \/ /\ red = {STDOUT, STDERR} /\ n = STDOUT /\ c.naStd[STDERR] # 0
            /\ u[STDIN] # NULL /\ u[STDOUT] # NULL
  <2>1. Opens(c, t, red, n, u) BY <1>2, <1>3, <1>4, <1>5, <1>7 DEF Opens
  <2>2. Opened(c, red, n, u) BY <2>1, OpenedAt
  <2> QED BY <2>2 DEF Opened
<1>9. Keeps(c, u) BY <1>2, <1>6, <1>7, <1>8, KeepsWrite DEF Writable
<1>10. PICK q : q = IF red = {STDOUT, STDERR} THEN <<Call2("dup2", n, STDERR)>> ELSE <<>> OBVIOUS
<1>11. q \in Seq(Calls)
  <2>1. PICK x \in Calls : x = Call2("dup2", n, STDERR) BY <1>6, CallTypes, HandleFacts DEF Std
  <2>2. <<x>> \in Seq(Calls) /\ <<>> \in Seq(Calls)
    <3> HIDE DEF Calls
    <3> QED OBVIOUS
  <2> QED BY <1>10, <2>1, <2>2
<1>12. PICK m : m = c.n + 1 OBVIOUS
<1>13. PICK d : d = [c EXCEPT !.at = "redir", !.n = m, !.todo = q] OBVIOUS
<1>14. Put(d)
  <2>1. Put([Cur EXCEPT !.at = "redir", !.n = @ + 1,
                        !.todo = IF Redirected = {STDOUT, STDERR} THEN <<Call2("dup2", NewHandle, STDERR)>> ELSE <<>>])
    BY Zenon DEF RedirOpen
  <2>2. Redirected = red BY <1>1, OpIs
  <2> QED BY <1>1, <1>10, <1>12, <1>13, <2>1, <2>2
<1>15. d \in Activations
  <2>1. m \in Nat \ {0} BY <1>2, <1>12 DEF Activations
  <2>2. PICK a : a = [c EXCEPT !.at = "redir"] OBVIOUS
  <2>3. a \in Activations BY <1>2, <2>2 DEF Activations, Places
  <2>4. PICK b : b = [a EXCEPT !.n = m] OBVIOUS
  <2>5. b \in Activations BY <2>1, <2>3, <2>4 DEF Activations
  <2>6. d = [b EXCEPT !.todo = q] BY <1>13, <2>2, <2>4
  <2> QED BY <1>11, <2>5, <2>6 DEF Activations
<1>16. /\ d.at = "redir" /\ d.todo = q /\ d.entry = c.entry /\ d.naStd = c.naStd
       /\ d.line = c.line /\ d.k = c.k /\ d.empty = c.empty
  BY <1>2, <1>13 DEF Activations
<1>17. InLine(d) /\ OpOf(d) # "iff"
  <2>1. OpOf(c) # "iff" BY <1>2, <1>4, RedirectedAre
  <2>2. OpOf(d) = OpOf(c) BY <1>16, Zenon DEF OpOf
  <2> QED BY <1>4, <1>16, <2>1, <2>2 DEF InLine
<1>18. Doing(d, u, {})
  <2>1. CASE red # {STDOUT, STDERR} /\ OpenStd(u)
    <3>1. Quiet(d, u, {}) BY <1>10, <1>16, <2>1 DEF Quiet
    <3> QED BY <1>16, <1>17, <3>1 DEF Doing
  <2>2. CASE /\ red = {STDOUT, STDERR} /\ n = STDOUT /\ c.naStd[STDERR] # 0
             /\ u[STDIN] # NULL /\ u[STDOUT] # NULL
    <3>1. Doubling(d, u, {}) BY <1>10, <1>16, <2>2 DEF Doubling, ErrToOut
    <3> QED BY <1>16, <1>17, <3>1 DEF Doing
  <2> QED BY <1>8, <2>1, <2>2
<1>19. Keeps(d, u) BY <1>9, <1>16, KeepsSame
<1>20. breaks' = Breaks => Whole(d, u, {}) BY <1>2, <1>4, <1>6, <1>7, <1>8, <1>16, WholeWrite
<1>21. {} \in SUBSET (HandlesOrNone) /\ breaks' \in Nat /\ breaks' <= breaks /\ disk' \subseteq Pipes BY <1>2, <1>7
<1> QED BY <1>1, <1>8, <1>14, <1>15, <1>16, <1>18, <1>19, <1>20, <1>21, PutKeeps

LEMMA FileFails ==
  ASSUME IInv, RedirOpenFails
  PROVE  IInv'
<1>1. PICK c, t : c = Cur /\ t = fd OBVIOUS
<1>2. c \in Activations /\ t \in Tables /\ disk \subseteq Pipes BY <1>1, CurFacts
<1>3. c.at = "open" /\ c.todo = <<>> BY <1>1, Zenon DEF RedirOpenFails, At
<1>4. fd' = fd /\ breaks' = breaks /\ disk' \subseteq Pipes
  <2>1. UNCHANGED <<fd, disk, flow>> BY Zenon DEF RedirOpenFails
  <2> QED BY <1>2, <2>1 DEF flow
<1>5. Put(IF Redirected = {STDIN} THEN [Cur EXCEPT !.at = "failed"] ELSE Unredir(Cur, "failed"))
  BY Zenon DEF RedirOpenFails
<1>6. CASE Redirected = {STDIN}
  <2>1. PICK d : d = [c EXCEPT !.at = "failed"] OBVIOUS
  <2>2. d \in Activations BY <1>2, <2>1 DEF Activations, Places
  <2>3. Stays(c, d) /\ d.at = "failed" BY <1>2, <1>3, <2>1 DEF Activations, Stays
  <2>4. Put(d) BY <1>1, <1>5, <1>6, <2>1
  <2> QED BY <1>1, <1>2, <1>3, <1>4, <2>2, <2>3, <2>4, MoveOn
<1>7. CASE Redirected # {STDIN}
  <2>1. Put(Unredir(c, "failed")) BY <1>1, <1>5, <1>7
  <2> QED BY <1>1, <1>2, <1>3, <1>4, <2>1, BackStep
<1> QED BY <1>6, <1>7

\* The file of a pipe is opened as n, to become handle i.
TakeQueue(i, n, e) == (<<Call("save", i)>> \o DupHandle(n, i, Call("close", n))) \o e
Takes(c, t, i, e, n, x, u) ==
  /\ Keeps(c, t) /\ OpenStd(t) /\ Fresh(t, n) /\ i \in Std /\ c.naStd[i] = 0
  /\ x \in Files /\ e \in Seq(Calls) /\ u = [t EXCEPT ![n] = x]
TakenUp(c, t, i, e, n, u) ==
  /\ TakeQueue(i, n, e) \in Seq(Calls) /\ u \in Tables /\ Keeps(c, u) /\ {n} \in SUBSET (HandlesOrNone)
  /\ \A d : d.naStd = c.naStd /\ d.entry = c.entry /\ d.todo = TakeQueue(i, n, e) =>
       Taking(d, u, i, e, {n}) /\ Keeps(d, u) /\ (Whole(c, t, {}) => Whole(d, u, {n}))

LEMMA TakeStarts ==
  ASSUME NEW c \in Activations, NEW t \in Tables, NEW i, NEW e, NEW n, NEW x, NEW u, Takes(c, t, i, e, n, x, u)
  PROVE  TakenUp(c, t, i, e, n, u)
<1> USE DEF Takes, TakenUp
<1>1. n \in Handles \ Std /\ n \notin Saved(c) /\ Writable(c, n) /\ n # STDIN /\ i \in Handles
  BY FreshWritable, HandleFacts DEF Std
<1>2. c.entry[n] = NULL BY <1>1 DEF Writable
<1>3. Keeps(c, u) BY <1>1, KeepsWrite
<1>4. x # NULL /\ u \in Tables /\ u[n] = x /\ \A g \in Handles : g # n => u[g] = t[g]
  BY <1>1, HandleFacts DEF Tables
<1>5. OpenStd(u) BY <1>1, <1>4, HandleFacts DEF OpenStd
<1>6. PICK q : q = TakeQueue(i, n, e) OBVIOUS
<1>7. q \in Seq(Calls)
  <2>1. PICK w \in Calls, y \in Calls : w = Call("save", i) /\ y = Call("close", n) BY <1>1, CallTypes
  <2>2. PICK l \in Seq(Calls) : l = DupHandle(n, i, y) BY <1>1, DupHandleIs
  <2>3. q = (<<w>> \o l) \o e BY <1>6, <2>1, <2>2 DEF TakeQueue
  <2> HIDE DEF Calls
  <2> QED BY <2>3
<1>8. ASSUME NEW d, d.naStd = c.naStd, d.entry = c.entry, d.todo = q
      PROVE  Taking(d, u, i, e, {n}) /\ Keeps(d, u) /\ (Whole(c, t, {}) => Whole(d, u, {n}))
  <2>1. Temp(d, u, n) BY <1>1, <1>2, <1>4, <1>8 DEF Temp, Saved
  <2>2. Taking(d, u, i, e, {n})
    <3>1. d.todo = (<<Call("save", i)>> \o DupHandle(n, i, Call("close", n))) \o e /\ d.naStd[i] = 0
      BY <1>6, <1>8 DEF TakeQueue
    <3>2. n \in Handles BY <1>1
    <3> QED BY <1>5, <2>1, <3>1, <3>2, Zenon DEF Taking
  <2>3. Keeps(d, u) BY <1>3, <1>8, KeepsSame
  <2>4. Whole(c, t, {}) => Whole(d, u, {n}) BY <1>1, <1>8, WholeWrite
  <2> QED BY <2>2, <2>3, <2>4
<1>9. {n} \in SUBSET (HandlesOrNone) BY <1>1 DEF HandlesOrNone
<1> QED BY <1>3, <1>4, <1>6, <1>7, <1>8, <1>9

LEMMA OpeningPipe ==
  ASSUME IInv, OpenPipe
  PROVE  IInv'
<1>1. PICK c, t, n, u, x : c = Cur /\ t = fd /\ n = NewHandle /\ u = fd' /\ x = c.file OBVIOUS
<1>2. /\ c \in Activations /\ t \in Tables /\ disk \subseteq Pipes /\ Keeps(c, t) /\ breaks \in 0 .. Breaks
      /\ Breaks \in Nat
  BY <1>1, CurFacts, BreaksAssumption
<1>3. c.at = "openpipe" /\ c.todo = <<>> /\ NeverFull BY <1>1, Zenon DEF OpenPipe, At, NeverFull
<1>4. /\ Plain(c) /\ OpenStd(t) /\ InLine(c) /\ OpOf(c) # "iff" /\ x # NULL
      /\ (breaks = Breaks => Whole(c, t, {}))
  BY <1>1, <1>3, CurIdle DEF Idle
<1>5. Fresh(t, n) BY <1>1, <1>3, NewHandleFresh DEF IInv
<1>6. n \in Handles BY <1>5 DEF Fresh
<1>7. x \in Pipes /\ x \in Files BY <1>1, <1>2, <1>4 DEF Activations, Files
<1>8. u = [t EXCEPT ![n] = x] /\ disk' = disk /\ breaks' = breaks
  <2>1. fd' = With(NewHandle, Cur.file) /\ UNCHANGED <<disk, flow>> BY Zenon DEF OpenPipe
  <2> QED BY <1>1, <1>6, <2>1 DEF With, flow
<1>9. PICK e : e = IF Sep = "|&" THEN SaveErr ELSE <<>> OBVIOUS
<1>10. e \in Seq(Calls) /\ (e = SaveErr \/ e = <<>>)
  <2>1. PICK y \in Calls, z \in Calls : y = Call("save", STDERR) /\ z = ErrToOut
    BY CallTypes, HandleFacts DEF Std, ErrToOut
  <2>2. <<y, z>> \in Seq(Calls) /\ <<>> \in Seq(Calls)
    <3> HIDE DEF Calls
    <3> QED OBVIOUS
  <2> QED BY <1>9, <2>1, <2>2 DEF SaveErr
<1>11. PICK q : q = TakeQueue(STDOUT, n, e) OBVIOUS
<1>12. TakenUp(c, t, STDOUT, e, n, u)
  <2>1. STDOUT \in Std /\ c.naStd[STDOUT] = 0 BY <1>4 DEF Plain, Std
  <2>2. Takes(c, t, STDOUT, e, n, x, u) BY <1>2, <1>4, <1>5, <1>7, <1>8, <1>10, <2>1 DEF Takes
  <2> QED BY <1>2, <2>2, TakeStarts
<1>13. q \in Seq(Calls) /\ u \in Tables /\ {n} \in SUBSET (HandlesOrNone) BY <1>11, <1>12 DEF TakenUp
<1>14. PICK d : d = [c EXCEPT !.at = "redir", !.pszOutPipe = x, !.fPipeOpen = TRUE, !.fIsPiped = TRUE, !.todo = q]
  OBVIOUS
<1>15. Put(d)
  <2>1. Put([Cur EXCEPT !.at = "redir", !.pszOutPipe = Cur.file, !.fPipeOpen = TRUE, !.fIsPiped = TRUE,
                        !.todo = <<Call("save", STDOUT)>>
                                   \o DupHandle(NewHandle, STDOUT, Call("close", NewHandle))
                                   \o IF Sep = "|&" THEN <<Call("save", STDERR), Call2("dup2", STDOUT, STDERR)>>
                                      ELSE <<>>])
    BY Zenon DEF OpenPipe
  <2>2. q = <<Call("save", STDOUT)>>
              \o DupHandle(NewHandle, STDOUT, Call("close", NewHandle))
              \o IF Sep = "|&" THEN <<Call("save", STDERR), Call2("dup2", STDOUT, STDERR)>> ELSE <<>>
    BY <1>1, <1>9, <1>11, Zenon DEF TakeQueue, SaveErr, ErrToOut
  <2> QED BY <1>1, <1>14, <2>1, <2>2, Zenon
<1>16. d \in Activations
  <2>1. PICK a : a = [c EXCEPT !.at = "redir", !.pszOutPipe = x] OBVIOUS
  <2>2. a \in Activations BY <1>2, <1>7, <2>1 DEF Activations, Places
  <2>3. PICK b : b = [a EXCEPT !.fPipeOpen = TRUE, !.fIsPiped = TRUE] OBVIOUS
  <2>4. b \in Activations BY <2>2, <2>3 DEF Activations
  <2>5. d = [b EXCEPT !.todo = q] BY <1>14, <2>1, <2>3
  <2> QED BY <1>13, <2>4, <2>5 DEF Activations
<1>17. /\ d.at = "redir" /\ d.todo = q /\ d.entry = c.entry /\ d.naStd = c.naStd
       /\ d.line = c.line /\ d.k = c.k /\ d.empty = c.empty
  BY <1>2, <1>14 DEF Activations
<1>18. Taking(d, u, STDOUT, e, {n}) /\ Keeps(d, u) /\ (Whole(c, t, {}) => Whole(d, u, {n}))
  BY <1>11, <1>12, <1>17 DEF TakenUp
<1>19. InLine(d) /\ OpOf(d) # "iff"
  <2>1. OpOf(d) = OpOf(c) BY <1>17, Zenon DEF OpOf
  <2> QED BY <1>4, <1>17, <2>1 DEF InLine
<1>20. Piping(d, u, {n}) BY <1>4, <1>10, <1>17, <1>18 DEF Piping, Plain
<1>21. Doing(d, u, {n}) BY <1>17, <1>19, <1>20 DEF Doing
<1>22. breaks' \in Nat /\ breaks' <= breaks /\ disk' \subseteq Pipes /\ (breaks' = Breaks => Whole(d, u, {n}))
  BY <1>2, <1>4, <1>8, <1>18
<1> QED BY <1>1, <1>13, <1>15, <1>16, <1>17, <1>18, <1>21, <1>22, PutKeeps

LEMMA OpeningInput ==
  ASSUME IInv, UnredirOpen
  PROVE  IInv'
<1>1. PICK c, t, n, u, x : c = Cur /\ t = fd /\ n = NewHandle /\ u = fd' /\ x = c.pszInPipe OBVIOUS
<1>2. /\ c \in Activations /\ t \in Tables /\ disk \subseteq Pipes /\ Keeps(c, t) /\ breaks \in 0 .. Breaks
      /\ Breaks \in Nat
  BY <1>1, CurFacts, BreaksAssumption
<1>3. c.at = "openin" /\ c.todo = <<>> /\ NeverFull /\ x \in disk BY <1>1, Zenon DEF UnredirOpen, At, NeverFull
<1>4. c.then \in {"top", "failed"} /\ Unsaved(c, Std) /\ OpenStd(t) /\ (breaks = Breaks => Whole(c, t, {}))
  BY <1>1, <1>3, CurIdle DEF Idle
<1>5. Fresh(t, n) BY <1>1, <1>3, NewHandleFresh DEF IInv
<1>6. n \in Handles BY <1>5 DEF Fresh
<1>7. x \in Files BY <1>2, <1>3 DEF Files
<1>8. u = [t EXCEPT ![n] = x] /\ disk' = disk /\ breaks' = breaks
  <2>1. fd' = With(NewHandle, Cur.pszInPipe) /\ UNCHANGED <<disk, flow>> BY Zenon DEF UnredirOpen
  <2> QED BY <1>1, <1>6, <2>1 DEF With, flow
<1>9. PICK q : q = TakeQueue(STDIN, n, <<>>) OBVIOUS
<1>10. c.naStd[STDIN] = 0 /\ c.naStd[STDOUT] = 0 /\ c.naStd[STDERR] = 0 BY <1>4 DEF Unsaved, Std
<1>11. TakenUp(c, t, STDIN, <<>>, n, u)
  <2>1. STDIN \in Std /\ <<>> \in Seq(Calls) BY EmptySequence DEF Std
  <2>2. Takes(c, t, STDIN, <<>>, n, x, u) BY <1>2, <1>4, <1>5, <1>7, <1>8, <1>10, <2>1 DEF Takes
  <2> QED BY <1>2, <2>2, TakeStarts
<1>12. q \in Seq(Calls) /\ u \in Tables /\ {n} \in SUBSET (HandlesOrNone) BY <1>9, <1>11 DEF TakenUp
<1>13. PICK d : d = [c EXCEPT !.at = c.then, !.fPipeOpen = FALSE, !.todo = q] OBVIOUS
<1>14. Put(d)
  <2>1. Put([Cur EXCEPT !.at = Cur.then, !.fPipeOpen = FALSE,
                        !.todo = <<Call("save", STDIN)>> \o DupHandle(NewHandle, STDIN, Call("close", NewHandle))])
    BY Zenon DEF UnredirOpen
  <2>2. q = <<Call("save", STDIN)>> \o DupHandle(n, STDIN, Call("close", n))
    <3>1. n # STDIN /\ STDIN \in Handles
      <4>1. n \notin Std BY <1>2, <1>4, <1>5, FreshWritable
      <4> QED BY <4>1, HandleFacts DEF Std
    <3>2. PICK w \in Calls, y \in Calls : w = Call("save", STDIN) /\ y = Call("close", n) BY <1>6, <3>1, CallTypes
    <3>3. PICK l \in Seq(Calls) : l = DupHandle(n, STDIN, y) BY <1>6, <3>1, <3>2, DupHandleIs
    <3>4. (<<w>> \o l) \o <<>> = <<w>> \o l
      <4> HIDE DEF Calls
      <4>1. <<w>> \o l \in Seq(Calls) OBVIOUS
      <4> QED BY <4>1, ConcatEmptySeq
    <3> QED BY <1>9, <3>2, <3>3, <3>4 DEF TakeQueue
  <2> QED BY <1>1, <1>13, <2>1, <2>2, Zenon
<1>15. d \in Activations
  <2>1. PICK a : a = [c EXCEPT !.at = c.then, !.fPipeOpen = FALSE] OBVIOUS
  <2>2. a \in Activations BY <1>2, <1>4, <2>1 DEF Activations, Places
  <2>3. d = [a EXCEPT !.todo = q] BY <1>13, <2>1
  <2> QED BY <1>12, <2>2, <2>3 DEF Activations
<1>16. d.at = c.then /\ d.todo = q /\ d.entry = c.entry /\ d.naStd = c.naStd /\ d.fPipeOpen = FALSE
  BY <1>2, <1>13 DEF Activations
<1>17. Taking(d, u, STDIN, <<>>, {n}) /\ Keeps(d, u) /\ (Whole(c, t, {}) => Whole(d, u, {n}))
  BY <1>9, <1>11, <1>16 DEF TakenUp
<1>18. Doing(d, u, {n}) BY <1>4, <1>10, <1>16, <1>17 DEF Doing, Reading, Plain
<1>19. breaks' \in Nat /\ breaks' <= breaks /\ disk' \subseteq Pipes /\ (breaks' = Breaks => Whole(d, u, {n}))
  BY <1>2, <1>4, <1>8, <1>17
<1> QED BY <1>1, <1>12, <1>14, <1>15, <1>16, <1>17, <1>18, <1>19, PutKeeps

-----------------------------------------------------------------------------
(***************************************************************************)
(* The stack of activations.                                               *)
(***************************************************************************)
LEMMA NewCmdIs ==
  ASSUME NEW t \in Tables, t = fd, OpenStd(t), NEW l \in Lines \cup Groups
  PROVE  /\ NewCmd(l) \in Activations /\ NewCmd(l).entry = t /\ Keeps(NewCmd(l), t)
         /\ Doing(NewCmd(l), t, {}) /\ Whole(NewCmd(l), t, {})
<1>1. PICK f : f = [i \in Std |-> 0] OBVIOUS
<1>2. f \in [Std -> Handles] /\ \A i \in Std : f[i] = 0 BY <1>1, HandleFacts DEF Std
<1>3. <<>> \in Seq(Calls) /\ -1 \in HandlesOrNone BY EmptySequence DEF HandlesOrNone
<1>4. PICK d : d = NewCmd(l) OBVIOUS
<1>5. d = [line |-> l, k |-> 1, n |-> 1, at |-> "top", then |-> NULL, todo |-> <<>>,
           empty |-> FALSE, ret |-> "0", file |-> NULL, spare |-> -1,
           naStd |-> f, fPipeOpen |-> FALSE, fIsPiped |-> FALSE,
           pszOutPipe |-> NULL, pszInPipe |-> NULL, entry |-> t]
  BY <1>1, <1>4 DEF NewCmd
<1>6. d \in Activations
  <2>1. 1 \in Nat \ {0} /\ "top" \in Places BY DEF Places
  <2> HIDE DEF Calls, HandlesOrNone, Tables, Places
  <2> QED BY <1>2, <1>3, <1>5, <2>1 DEF Activations
<1>7. d.entry = t /\ d.naStd = f /\ d.at = "top" /\ d.todo = <<>> /\ d.fPipeOpen = FALSE BY <1>5
<1>8. Keeps(d, t) BY <1>2, <1>7 DEF Keeps, OpenStd
<1>9. Whole(d, t, {}) BY <1>7 DEF Whole
<1>10. Doing(d, t, {})
  <2>1. d.naStd[STDOUT] = 0 /\ d.naStd[STDERR] = 0 BY <1>2, <1>7 DEF Std
  <2> QED BY <1>7, <2>1 DEF Doing, Plain, Quiet
<1> QED BY <1>4, <1>6, <1>7, <1>8, <1>9, <1>10

\* A group begins: the activation that runs it waits.
LEMMA PushKeeps ==
  ASSUME IInv, NEW b \in Activations, NEW d \in Activations, cmds' = Append([cmds EXCEPT ![Len(cmds)] = b], d),
         b.entry = Cur.entry, Waits(b, d.entry), UNCHANGED <<fd, disk, breaks>>,
         Keeps(d, fd), Doing(d, fd, {}), Whole(d, fd, {})
  PROVE  IInv'
<1>1. PICK n, e : n = Len(cmds) /\ e = Cur.entry OBVIOUS
<1>2. n \in Nat \ {0} /\ cmds \in Seq(Activations) /\ cmds[n].entry = e BY <1>1, CurFacts DEF IInv, TypeOK, Cur
<1>3. /\ cmds' \in Seq(Activations) /\ Len(cmds') = n + 1 /\ cmds'[n + 1] = d /\ cmds'[n] = b /\ cmds' # <<>>
      /\ \A a \in 1 .. n - 1 : cmds'[a] = cmds[a]
  <2>1. PICK q : q = [cmds EXCEPT ![n] = b] OBVIOUS
  <2> HIDE DEF Activations
  <2>2. q \in Seq(Activations) /\ Len(q) = n /\ q[n] = b /\ \A a \in 1 .. n - 1 : q[a] = cmds[a] BY <1>1, <1>2, <2>1
  <2>3. cmds' = Append(q, d) BY <1>1, <2>1
  <2> QED BY <1>2, <2>2, <2>3
<1>4. Cur' = d BY <1>3 DEF Cur
<1>5. \A a \in 1 .. n : Waits(cmds'[a], cmds'[a + 1].entry)
  <2> TAKE a \in 1 .. n
  <2>1. CASE a = n BY <1>3, <2>1
  <2>2. CASE a = n - 1
    <3>1. a \in 1 .. n - 1 /\ a + 1 = n BY <1>2, <2>2
    <3>2. Waits(cmds[a], cmds[n].entry) BY <1>1, <3>1 DEF IInv
    <3> QED BY <1>1, <1>2, <1>3, <3>1, <3>2
  <2>3. CASE a # n - 1 /\ a # n
    <3>1. a \in 1 .. n - 1 /\ a + 1 \in 1 .. n - 1 BY <1>2, <2>3
    <3>2. Waits(cmds[a], cmds[a + 1].entry) BY <1>1, <3>1 DEF IInv
    <3> QED BY <1>3, <3>1, <3>2
  <2> QED BY <2>1, <2>2, <2>3
<1>6. \A a \in 1 .. n : Waits(cmds[a], cmds[a + 1].entry)' BY <1>5 DEF Waits
<1>7. 1 .. Len(cmds') - 1 = 1 .. n BY <1>2, <1>3
<1>8. TypeOK' BY <1>3 DEF IInv, TypeOK
<1>9. {} \in SUBSET (HandlesOrNone) OBVIOUS
<1>10. fd' = fd OBVIOUS
<1>11. Keeps(Cur, fd)' /\ (\E s \in SUBSET (HandlesOrNone) : Doing(Cur, fd, s) /\ (breaks = Breaks => Whole(Cur, fd, s)))'
  BY <1>4, <1>9, <1>10
<1> QED BY <1>6, <1>7, <1>8, <1>11 DEF IInv

LEMMA RunningGroup ==
  ASSUME IInv, RunGroup
  PROVE  IInv'
<1>1. PICK c, t : c = Cur /\ t = fd OBVIOUS
<1>2. c \in Activations /\ t \in Tables /\ Keeps(c, t) BY <1>1, CurFacts
<1>3. c.at = "run" /\ c.todo = <<>> BY <1>1, Zenon DEF RunGroup, At
<1>4. InLine(c) /\ OpenStd(t) /\ (breaks = Breaks => Whole(c, t, {})) BY <1>1, <1>3, CurIdle DEF Idle
<1>5. PICK l \in Groups : cmds' = Append([cmds EXCEPT ![Len(cmds)].at = "ran"], NewCmd(l)) BY Zenon DEF RunGroup
<1>6. PICK b, d : b = [c EXCEPT !.at = "ran"] /\ d = NewCmd(l) OBVIOUS
<1>7. b \in Activations BY <1>2, <1>6 DEF Activations, Places
<1>8. d \in Activations /\ d.entry = t /\ Keeps(d, t) /\ Doing(d, t, {}) /\ Whole(d, t, {})
  BY <1>1, <1>2, <1>4, <1>6, NewCmdIs
<1>9. cmds' = Append([cmds EXCEPT ![Len(cmds)] = b], d) BY <1>1, <1>5, <1>6, Zenon DEF Cur
<1>10. /\ b.at = "ran" /\ b.todo = <<>> /\ b.entry = c.entry /\ b.naStd = c.naStd /\ b.line = c.line /\ b.k = c.k
  BY <1>2, <1>3, <1>6 DEF Activations
<1>11. InLine(b) BY <1>4, <1>10 DEF InLine
<1>12. Keeps(b, t) BY <1>2, <1>10, KeepsSame
<1>13. breaks = Breaks => Whole(b, t, {}) BY <1>4, <1>10, WholeSame
<1>14. Waits(b, d.entry) BY <1>8, <1>10, <1>11, <1>12, <1>13 DEF Waits
<1>15. UNCHANGED <<fd, disk, breaks>>
  <2>1. UNCHANGED <<fd, disk, signals, fException, breaks>> BY Zenon DEF RunGroup
  <2> QED BY <2>1
<1> QED BY <1>1, <1>7, <1>8, <1>9, <1>10, <1>14, <1>15, PushKeeps

\* A group has ended: the activation that waited for it goes on.
LEMMA PopKeeps ==
  ASSUME IInv, Len(cmds) > 1, NEW d \in Activations, cmds' = Append(SubSeq(cmds, 1, Len(cmds) - 2), d),
         d.entry = cmds[Len(cmds) - 1].entry, UNCHANGED <<fd, disk, breaks>>,
         Keeps(d, fd), Doing(d, fd, {}), breaks = Breaks => Whole(d, fd, {})
  PROVE  IInv'
<1>1. PICK n, e : n = Len(cmds) - 1 /\ e = cmds[n].entry OBVIOUS
<1>2. n \in Nat \ {0} /\ Len(cmds) = n + 1 /\ cmds \in Seq(Activations) BY <1>1, CurFacts DEF IInv, TypeOK
<1>3. /\ cmds' \in Seq(Activations) /\ Len(cmds') = n /\ cmds'[n] = d /\ cmds' # <<>>
      /\ \A a \in 1 .. n - 1 : cmds'[a] = cmds[a]
  <2>1. PICK q : q = SubSeq(cmds, 1, n - 1) OBVIOUS
  <2> HIDE DEF Activations
  <2>2. q \in Seq(Activations) /\ Len(q) = n - 1 /\ \A a \in 1 .. n - 1 : q[a] = cmds[a] BY <1>2, <2>1
  <2>3. cmds' = Append(q, d)
    <3>1. Len(cmds) - 2 = n - 1 BY <1>2
    <3> QED BY <2>1, <3>1
  <2> QED BY <1>2, <2>2, <2>3
<1>4. Cur' = d BY <1>3 DEF Cur
<1>5. \A a \in 1 .. n - 1 : Waits(cmds'[a], cmds'[a + 1].entry)
  <2> TAKE a \in 1 .. n - 1
  <2>1. a \in 1 .. Len(cmds) - 1 BY <1>2
  <2>2. Waits(cmds[a], cmds[a + 1].entry) BY <2>1 DEF IInv
  <2>3. CASE a = n - 1
    <3>1. a + 1 = n BY <1>2, <2>3
    <3> QED BY <1>1, <1>3, <2>2, <3>1
  <2>4. CASE a # n - 1
    <3>1. a + 1 \in 1 .. n - 1 BY <1>2, <2>4
    <3> QED BY <1>3, <2>2, <3>1
  <2> QED BY <2>3, <2>4
<1>6. \A a \in 1 .. n - 1 : Waits(cmds[a], cmds[a + 1].entry)' BY <1>5 DEF Waits
<1>7. TypeOK' BY <1>3 DEF IInv, TypeOK
<1>8. {} \in SUBSET (HandlesOrNone) /\ fd' = fd /\ breaks' = breaks OBVIOUS
<1>9. Keeps(Cur, fd)' /\ (\E s \in SUBSET (HandlesOrNone) : Doing(Cur, fd, s) /\ (breaks = Breaks => Whole(Cur, fd, s)))'
  BY <1>4, <1>8
<1> QED BY <1>3, <1>6, <1>7, <1>9 DEF IInv

\* What a group gives back is what its caller kept.
LEMMA KeepsReturned ==
  ASSUME NEW c, NEW d, NEW t, Keeps(c, d.entry), Keeps(d, t), Unsaved(d, Std)
  PROVE  Keeps(c, t) /\ (Whole(c, d.entry, {}) /\ Whole(d, t, {}) => Whole(c, t, {}))
<1>1. \A i \in Std : t[i] = d.entry[i] BY DEF Keeps, Unsaved
<1>2. \A h \in Handles \ Std : d.entry[h] # NULL => t[h] = d.entry[h] BY DEF Keeps
<1>3. \A h \in Handles \ Std : c.entry[h] # NULL => t[h] = c.entry[h] BY <1>2 DEF Keeps
<1>4. \A i \in Std : c.naStd[i] = 0 => t[i] = c.entry[i] BY <1>1 DEF Keeps
<1>5. \A i \in Std : c.naStd[i] # 0 => t[c.naStd[i]] = c.entry[i] BY <1>2 DEF Keeps
<1>6. Keeps(c, t) BY <1>3, <1>4, <1>5 DEF Keeps
<1>7. Saved(d) = {} BY DEF Saved, Unsaved
<1>8. Whole(c, d.entry, {}) /\ Whole(d, t, {}) => Whole(c, t, {}) BY <1>7 DEF Whole
<1> QED BY <1>6, <1>8

LEMMA Returning ==
  ASSUME IInv, Return
  PROVE  IInv'
<1>1. PICK c, t, n, b : c = Cur /\ t = fd /\ n = Len(cmds) - 1 /\ b = cmds[n] OBVIOUS
<1>2. c \in Activations /\ t \in Tables /\ Keeps(c, t) BY <1>1, CurFacts
<1>3. c.at = "done" /\ c.todo = <<>> /\ Len(cmds) > 1 BY <1>1, Zenon DEF Return, At
<1>4. Unsaved(c, Std) /\ (breaks = Breaks => Whole(c, t, {})) BY <1>1, <1>3, CurIdle DEF Idle
<1>5. n \in 1 .. Len(cmds) - 1 /\ n + 1 = Len(cmds) /\ b \in Activations
  <2>1. cmds \in Seq(Activations) /\ Len(cmds) \in Nat BY CurFacts DEF IInv, TypeOK
  <2> HIDE DEF Activations
  <2> QED BY <1>1, <1>3, <2>1
<1>6. Waits(b, c.entry) BY <1>1, <1>5 DEF IInv, Cur
<1>7. InLine(b) /\ Keeps(b, t) /\ (breaks = Breaks => Whole(b, t, {}))
  <2>1. Keeps(b, c.entry) /\ InLine(b) /\ (breaks = Breaks => Whole(b, c.entry, {})) BY <1>6 DEF Waits
  <2> QED BY <1>2, <1>4, <2>1, KeepsReturned
<1>8. cmds' = Append(SubSeq(cmds, 1, Len(cmds) - 2), IF fException THEN Aborts(b) ELSE Executed(b, c.ret))
  BY <1>1, Zenon DEF Return
<1>9. UNCHANGED <<fd, disk, breaks>>
  <2>1. UNCHANGED <<fd, disk, flow>> BY Zenon DEF Return
  <2> QED BY <2>1 DEF flow
<1>10. ASSUME NEW e \in Activations, e.naStd = b.naStd, e.entry = b.entry, NEW then \in {"top", "kill"},
              then = "kill" => ~e.fPipeOpen, cmds' = Append(SubSeq(cmds, 1, Len(cmds) - 2), Unredir(e, then))
       PROVE  IInv'
  <2>1. PICK d : d = Unredir(e, then) OBVIOUS
  <2>2. Keeps(e, t) BY <1>7, <1>10, KeepsSame
  <2>3. d \in Activations /\ d.naStd = e.naStd /\ d.entry = e.entry /\ Keeps(d, t) /\ Doing(d, t, {})
    BY <1>10, <2>1, <2>2, UnredirFacts
  <2>4. breaks = Breaks => Whole(d, t, {}) BY <1>7, <1>10, <2>3, WholeSame
  <2> QED BY <1>1, <1>3, <1>9, <1>10, <2>1, <2>3, <2>4, PopKeeps
<1>11. CASE fException
  <2>1. PICK e : e = [[b EXCEPT !.ret = "ctrlc"] EXCEPT !.fPipeOpen = FALSE] OBVIOUS
  <2>2. e \in Activations /\ e.naStd = b.naStd /\ e.entry = b.entry /\ e.fPipeOpen = FALSE
    BY <1>5, <2>1 DEF Activations
  <2>3. Aborts(b) = Unredir(e, "kill") BY <2>1, Zenon DEF Aborts, Break
  <2>4. cmds' = Append(SubSeq(cmds, 1, Len(cmds) - 2), Unredir(e, "kill")) BY <1>8, <1>11, <2>3, Zenon
  <2> QED BY <1>10, <2>2, <2>4
<1>12. CASE ~fException
  <2>1. PICK r \in {"0", "error", "ctrlc", "abort"} : r = c.ret BY <1>2 DEF Activations
  <2>2. PICK e \in Activations : e.naStd = b.naStd /\ e.entry = b.entry /\ Executed(b, r) = Unredir(e, "top")
    BY <1>5, <1>7, ExecutedIs
  <2>3. cmds' = Append(SubSeq(cmds, 1, Len(cmds) - 2), Unredir(e, "top")) BY <1>8, <1>12, <2>1, <2>2, Zenon
  <2> QED BY <1>10, <2>2, <2>3
<1> QED BY <1>11, <1>12

\* main() reads the next line, or the first.
LEMMA FirstCmd ==
  ASSUME NEW t \in Tables, t = fd, OpenStd(t), NEW l \in Lines, NEW d, d = NewCmd(l)
  PROVE  d \in Activations /\ <<d>> \in Seq(Activations) /\ Keeps(d, t) /\ Doing(d, t, {}) /\ Whole(d, t, {})
<1>1. d \in Activations /\ Keeps(d, t) /\ Doing(d, t, {}) /\ Whole(d, t, {}) BY NewCmdIs
<1>2. <<d>> \in Seq(Activations)
  <2> HIDE DEF Activations
  <2> QED BY <1>1
<1> QED BY <1>1, <1>2

LEMMA Prompting ==
  ASSUME IInv, Prompt
  PROVE  IInv'
<1>1. PICK t : t = fd OBVIOUS
<1>2. t \in Tables /\ OpenStd(t)
  <2>1. Cur.at = "done" /\ Cur.todo = <<>> BY Zenon DEF Prompt, At
  <2> QED BY <1>1, <2>1, CurFacts, CurIdle DEF Idle
<1>3. PICK l \in Lines : cmds' = <<NewCmd(l)>> BY Zenon DEF Prompt
<1>4. PICK d : d = NewCmd(l) OBVIOUS
<1>5. d \in Activations /\ <<d>> \in Seq(Activations) /\ Keeps(d, t) /\ Doing(d, t, {}) /\ Whole(d, t, {})
  BY <1>1, <1>2, <1>4, FirstCmd
<1>6. cmds' = <<d>> BY <1>3, <1>4
<1>7. UNCHANGED <<fd, disk, breaks>> BY Zenon DEF Prompt
<1>8. Len(cmds') = 1 /\ cmds'[1] = d /\ cmds' # <<>> BY <1>6
<1>9. Cur' = d BY <1>8 DEF Cur
<1>10. TypeOK' BY <1>5, <1>6, <1>7, <1>8 DEF IInv, TypeOK
<1>11. \A a \in 1 .. Len(cmds') - 1 : Waits(cmds[a], cmds[a + 1].entry)' BY <1>8
<1>12. {} \in SUBSET (HandlesOrNone) /\ fd' = t BY <1>1, <1>7
<1>13. Keeps(Cur, fd)' /\ (\E s \in SUBSET (HandlesOrNone) : Doing(Cur, fd, s) /\ (breaks = Breaks => Whole(Cur, fd, s)))'
  BY <1>5, <1>9, <1>12
<1> QED BY <1>10, <1>11, <1>13 DEF IInv

LEMMA Starting ==
  ASSUME Init
  PROVE  IInv
<1>1. PICK t : t = fd OBVIOUS
<1>2. t \in Tables /\ OpenStd(t)
  <2>1. t = [h \in Handles |-> CASE h = STDIN -> "in" [] h = STDOUT -> "out" [] h = STDERR -> "err" [] OTHER -> NULL]
    BY <1>1, Zenon DEF Init
  <2>2. \A h \in Handles : (CASE h = STDIN -> "in" [] h = STDOUT -> "out" [] h = STDERR -> "err" [] OTHER -> NULL)
                             \in Files \cup {NULL}
    BY DEF Files
  <2>3. t \in Tables BY <2>1, <2>2 DEF Tables
  <2>4. \A h \in Std : h \in Handles /\ t[h] \in {"in", "out", "err"} BY <2>1, HandleFacts DEF Std, STDIN, STDOUT, STDERR
  <2> QED BY <2>3, <2>4, HandleFacts DEF OpenStd, Files
<1>3. PICK l \in Lines : cmds = <<NewCmd(l)>> BY Zenon DEF Init
<1>4. PICK d : d = NewCmd(l) OBVIOUS
<1>5. d \in Activations /\ <<d>> \in Seq(Activations) /\ Keeps(d, t) /\ Doing(d, t, {}) /\ Whole(d, t, {})
  BY <1>1, <1>2, <1>4, FirstCmd
<1>6. Len(cmds) = 1 /\ cmds[1] = d /\ cmds # <<>> BY <1>3, <1>4
<1>7. Cur = d BY <1>6 DEF Cur
<1>8. TypeOK
  <2>1. disk = {} /\ breaks = Breaks BY Zenon DEF Init
  <2> QED BY <1>1, <1>2, <1>3, <1>4, <1>5, <1>6, <2>1, BreaksAssumption DEF TypeOK
<1>9. {} \in SUBSET (HandlesOrNone) OBVIOUS
<1> QED BY <1>1, <1>5, <1>6, <1>7, <1>8, <1>9 DEF IInv

-----------------------------------------------------------------------------
LEMMA NextStep ==
  ASSUME IInv, NoIffPipes, NeverFull, [Next]_vars
  PROVE  IInv'
<1>1. CASE DosCall BY <1>1, DosCallStep
<1>2. CASE TopEnd \/ TopFails \/ CreatePipeFails \/ OpenPipeFails \/ RedirBadName \/ RedirFailed \/ RunRaises
  BY <1>2, FailingStep
<1>3. CASE TopSkip \/ TopStart BY <1>3, TopSteps
<1>4. CASE CreatePipe \/ RedirDone \/ UnredirDone \/ UnredirNext \/ Kill \/ Remove BY <1>4, MovingOn
<1>5. CASE OpenPipe BY <1>5, OpeningPipe
<1>6. CASE RedirAssigned \/ RedirSave BY <1>6, RedirSteps
<1>7. CASE RedirOpen BY <1>7, OpeningFile
<1>8. CASE RedirOpenFails BY <1>8, FileFails
<1>9. CASE Run \/ RunIff BY <1>9, RunSteps
<1>10. CASE RunGroup BY <1>10, RunningGroup
<1>11. CASE Return BY <1>11, Returning
<1>12. CASE UnredirOpen BY <1>12, OpeningInput
<1>13. CASE UnredirOpenFails BY <1>13, OpenFailsSteps
<1>14. CASE Interrupt BY <1>14, InterruptStep
<1>15. CASE Prompt BY <1>15, Prompting
<1>16. CASE UNCHANGED vars
  <2>1. fd' = fd /\ disk' = disk /\ cmds' = cmds /\ breaks' = breaks BY <1>16 DEF vars
  <2>2. Cur' = Cur BY <2>1 DEF Cur
  <2>3. TypeOK' BY <2>1 DEF IInv, TypeOK
  <2>4. \A a \in 1 .. Len(cmds) - 1 : Waits(cmds[a], cmds[a + 1].entry)' BY <2>1 DEF IInv, Waits
  <2>5. Keeps(Cur, fd)' BY <2>1, <2>2 DEF IInv
  <2>6. (\E s \in SUBSET (HandlesOrNone) : Doing(Cur, fd, s) /\ (breaks = Breaks => Whole(Cur, fd, s)))'
    BY <2>1, <2>2 DEF IInv
  <2> QED BY <2>1, <2>3, <2>4, <2>5, <2>6 DEF IInv
<1>17. Next => \/ DosCall \/ Command \/ Interrupt \/ Prompt BY DEF Next
<1>18. Command => \/ TopEnd \/ TopFails \/ TopSkip \/ TopStart \/ CreatePipe \/ CreatePipeFails \/ OpenPipe
                  \/ OpenPipeFails \/ RedirDone \/ RedirBadName \/ RedirAssigned \/ RedirSave \/ RedirOpen
                  \/ RedirOpenFails \/ RedirFailed \/ Run \/ RunRaises \/ RunIff \/ RunGroup \/ Return
                  \/ UnredirDone \/ UnredirNext \/ UnredirOpen \/ UnredirOpenFails \/ Kill \/ Remove
  BY Zenon DEF Command
<1> QED BY <1>1, <1>2, <1>3, <1>4, <1>5, <1>6, <1>7, <1>8, <1>9, <1>10, <1>11, <1>12, <1>13, <1>14, <1>15, <1>16,
           <1>17, <1>18

\* The stack of command(), the handle table and what each activation keeps in
\* it agree at every step, whatever fails and whenever ^C is pressed: no saved
\* handle is ever lost or written over (redir(), open_pipe(), unredir()).
THEOREM Invariant == Spec /\ NoIffPipes /\ []NeverFull => []IInv
<1> SUFFICES ASSUME NoIffPipes PROVE Spec /\ []NeverFull => []IInv OBVIOUS
<1>1. Init => IInv BY Starting
<1>2. IInv /\ NeverFull /\ [Next]_vars => IInv' BY NextStep
<1> QED BY <1>1, <1>2, PTL DEF Spec

\* Redirection takes effect for a command only: when a line or a command group
\* ends, in whatever way, each standard handle is what it was when it began,
\* and unless ^C was pressed between two DOS calls no other handle is lost.
THEOREM HandlesComeBack == Spec /\ NoIffPipes /\ []NeverFull => []HandlesRestored
<1>1. IInv => HandlesRestored
  <2> SUFFICES ASSUME IInv, At("done")
               PROVE  /\ \A i \in Std : fd[i] = Cur.entry[i]
                      /\ breaks = Breaks => fd = Cur.entry
    BY DEF HandlesRestored
  <2>1. PICK c, t : c = Cur /\ t = fd OBVIOUS
  <2>2. c.at = "done" /\ c.todo = <<>> BY <2>1 DEF At
  <2>3. c \in Activations /\ t \in Tables /\ Keeps(c, t) BY <2>1, CurFacts
  <2>4. Unsaved(c, Std) /\ (breaks = Breaks => Whole(c, t, {})) BY <2>1, <2>2, CurIdle DEF Idle
  <2>5. \A i \in Std : t[i] = c.entry[i] BY <2>3, <2>4 DEF Keeps, Unsaved
  <2>6. ASSUME Whole(c, t, {}) PROVE t = c.entry
    <3>1. Saved(c) = {} BY <2>4 DEF Saved, Unsaved
    <3>2. \A h \in Handles : t[h] = c.entry[h] BY <2>5, <2>6, <3>1 DEF Whole
    <3>3. c.entry \in Tables BY <2>3 DEF Activations
    <3> QED BY <2>3, <3>2, <3>3 DEF Tables
  <2> QED BY <2>1, <2>4, <2>5, <2>6
<1> QED BY <1>1, Invariant, PTL

-----------------------------------------------------------------------------
(***************************************************************************)
(* What flows through the pipes of a line: while a stage runs, its output  *)
(* goes to the file that was made for it and its input comes from the file *)
(* of the stage before, and no file is deleted while a standard handle is  *)
(* open on it.  The hypotheses are the same.                               *)
(*                                                                         *)
(* Beside what each activation of command() keeps in the handle table, the *)
(* invariant (FInv) says whose each file is: the files of two activations  *)
(* differ, and a standard handle is open on a file of its own activation   *)
(* or on what it was open on when that activation began.  As the handles   *)
(* are moved by one DOS call at a time, it also says what the calls still  *)
(* queued will move where.                                                 *)
(***************************************************************************)
\* The pipe files of an activation, and those it has not yet left behind.
Piped(c) == {c.pszInPipe, c.pszOutPipe} \ {NULL}
Owned(c) == IF c.at = "done" THEN {}
            ELSE IF c.at = "openpipe" THEN Piped(c) \cup {c.file} ELSE Piped(c)

\* The files of the activations that wait, up to the one before a.
Below(a) == UNION {Owned(cmds[b]) : b \in 1 .. a - 1}

\* Where the standard handles of the table t come from.
StdFrom(c, t) == \A i \in Std : t[i] \in {NULL, "file"} \cup Piped(c) \cup {c.entry[j] : j \in Std}

Names(c) == /\ c.fPipeOpen /\ c.at # "openin" => c.pszOutPipe # NULL /\ c.pszOutPipe # c.pszInPipe
            /\ c.at = "openin" => c.pszInPipe = c.pszOutPipe
            /\ c.at = "openpipe" => c.file \notin {NULL, c.pszInPipe, c.pszOutPipe}

Inherits(c, l) == \A i \in Std : c.entry[i] \in Pipes => c.entry[i] \in l

\* An activation above the files l, and the table it works on or left to a group.
Apart(c, l, t) == Owned(c) \cap l = {} /\ Inherits(c, l) /\ StdFrom(c, t) /\ Names(c)

\* What is queued.
Elems(q) == {q[j] : j \in DOMAIN q}
None(c, f) == \A x \in Elems(c.todo) : x.f # f
MovesTo(c, t, i, p) ==
  \A x \in Elems(c.todo) : x.f = "move" => x.to = i /\ x.h \notin Std /\ p # NULL /\ t[x.h] = p

\* The redirections of the stage that were begun.
Begun(c) == {j \in DOMAIN IOOf(c) : (c.at = "redir" => j < c.n) /\ (c.at = "open" => j <= c.n)}
InputKept(c) == \A j \in Begun(c) : IOOf(c)[j] # "<"
Staged(c) == c.at \in {"redir", "open", "run"}
BothPiped(c) == c.line[c.k].sep = "|&"

\* What the standard handles are open on.
InputFlows(c, t) ==
  (c.at \in {"top", "pipe", "openpipe"} \/ (Staged(c) /\ InputKept(c))) /\ c.naStd[STDIN] # 0
    /\ (c.at = "top" => None(c, "move")) => t[STDIN] = c.pszInPipe
OutputFlows(c, t) ==
  Staged(c) /\ c.fPipeOpen => /\ None(c, "move") => t[STDOUT] = c.pszOutPipe
                              /\ BothPiped(c) /\ None(c, "dup2") => t[STDERR] = c.pszOutPipe
                              /\ c.at = "open" => /\ STDOUT \notin RedirectedOf(c)
                                                  /\ BothPiped(c) => STDERR \notin RedirectedOf(c)
Flows(c, t) ==
  /\ c.at \in {"top", "failed"} => MovesTo(c, t, STDIN, c.pszInPipe)
  /\ c.at = "redir" => MovesTo(c, t, STDOUT, c.pszOutPipe)
  /\ InputFlows(c, t) /\ OutputFlows(c, t)

FInv ==
  /\ \A a \in 1 .. Len(cmds) - 1 : Apart(cmds[a], Below(a), cmds[a + 1].entry)
  /\ Apart(Cur, Below(Len(cmds)), fd)
  /\ Below(Len(cmds)) \cup Owned(Cur) \subseteq disk
  /\ Flows(Cur, fd)

-----------------------------------------------------------------------------
(***************************************************************************)
(* The first call of the queue.                                            *)
(***************************************************************************)
LEMMA ElemsFacts ==
  ASSUME NEW S, NEW q \in Seq(S)
  PROVE  /\ q # <<>> => Elems(q) = {Head(q)} \cup Elems(Tail(q)) /\ Head(q) \in Elems(q)
         /\ \A r \in Seq(S) : Elems(q \o r) = Elems(q) \cup Elems(r)
         /\ \A x \in S : Elems(<<x>>) = {x}
         /\ Elems(<<>>) = {}
<1>1. ASSUME q # <<>> PROVE Elems(q) = {Head(q)} \cup Elems(Tail(q))
  <2>1. Len(q) \in Nat /\ Len(q) >= 1 /\ DOMAIN q = 1 .. Len(q) BY <1>1
  <2>2. /\ Head(q) = q[1] /\ Len(Tail(q)) = Len(q) - 1 /\ DOMAIN Tail(q) = 1 .. Len(q) - 1
        /\ \A j \in 1 .. Len(q) - 1 : Tail(q)[j] = q[j + 1]
    BY <1>1, <2>1
  <2>3. \A x \in Elems(q) : x = Head(q) \/ x \in Elems(Tail(q))
    <3> TAKE x \in Elems(q)
    <3>1. PICK j \in 1 .. Len(q) : x = q[j] BY <2>1 DEF Elems
    <3>2. j # 1 => j - 1 \in 1 .. Len(q) - 1 /\ x = Tail(q)[j - 1] BY <2>1, <2>2, <3>1
    <3> QED BY <2>2, <3>1, <3>2 DEF Elems
  <2>4. Head(q) \in Elems(q) BY <2>1, <2>2 DEF Elems
  <2>5. \A x \in Elems(Tail(q)) : x \in Elems(q)
    <3> TAKE x \in Elems(Tail(q))
    <3>1. PICK j \in 1 .. Len(q) - 1 : x = Tail(q)[j] BY <2>2 DEF Elems
    <3>2. j + 1 \in 1 .. Len(q) /\ x = q[j + 1] BY <2>1, <2>2, <3>1
    <3> QED BY <2>1, <3>2 DEF Elems
  <2> QED BY <2>3, <2>4, <2>5
<1>2. ASSUME NEW r \in Seq(S) PROVE Elems(q \o r) = Elems(q) \cup Elems(r)
  <2>1. PICK m \in Nat, n \in Nat : m = Len(q) /\ n = Len(r) /\ DOMAIN q = 1 .. m /\ DOMAIN r = 1 .. n OBVIOUS
  <2>2. /\ DOMAIN (q \o r) = 1 .. m + n /\ \A j \in 1 .. m : (q \o r)[j] = q[j]
        /\ \A j \in m + 1 .. m + n : (q \o r)[j] = r[j - m]
    BY <2>1
  <2>3. \A x \in Elems(q \o r) : x \in Elems(q) \/ x \in Elems(r)
    <3> TAKE x \in Elems(q \o r)
    <3>1. PICK j \in 1 .. m + n : x = (q \o r)[j] BY <2>2 DEF Elems
    <3>2. CASE j <= m
      <4>1. j \in 1 .. m BY <2>1, <3>1, <3>2
      <4> QED BY <2>1, <2>2, <3>1, <4>1 DEF Elems
    <3>3. CASE j > m
      <4>1. j \in m + 1 .. m + n /\ j - m \in 1 .. n BY <2>1, <3>1, <3>3
      <4> QED BY <2>1, <2>2, <3>1, <4>1 DEF Elems
    <3> QED BY <2>1, <3>2, <3>3
  <2>4. \A x \in Elems(q) : x \in Elems(q \o r)
    <3> TAKE x \in Elems(q)
    <3>1. PICK j \in 1 .. m : x = q[j] BY <2>1 DEF Elems
    <3>2. j \in 1 .. m + n /\ x = (q \o r)[j] BY <2>1, <2>2, <3>1
    <3> QED BY <2>2, <3>2 DEF Elems
  <2>5. \A x \in Elems(r) : x \in Elems(q \o r)
    <3> TAKE x \in Elems(r)
    <3>1. PICK j \in 1 .. n : x = r[j] BY <2>1 DEF Elems
    <3>2. j + m \in m + 1 .. m + n /\ j + m \in 1 .. m + n /\ (j + m) - m = j BY <2>1, <3>1
    <3>3. x = (q \o r)[j + m] BY <2>2, <3>1, <3>2
    <3> QED BY <2>2, <3>2, <3>3 DEF Elems
  <2> QED BY <2>3, <2>4, <2>5
<1>3. ASSUME NEW x \in S PROVE Elems(<<x>>) = {x} BY DEF Elems
<1>4. Elems(<<>>) = {} BY DEF Elems
<1>5. q # <<>> => Head(q) \in Elems(q) BY <1>1
<1> QED BY <1>1, <1>2, <1>3, <1>4, <1>5

LEMMA CallElems ==
  ASSUME NEW q \in Seq(Calls), NEW r \in Seq(Calls)
  PROVE  Elems(q \o r) = Elems(q) \cup Elems(r) /\ (q # <<>> => Elems(q) = {Head(q)} \cup Elems(Tail(q)))
<1> HIDE DEF Calls
<1> QED BY ElemsFacts

LEMMA OneCall ==
  ASSUME NEW x \in Calls
  PROVE  <<x>> \in Seq(Calls) /\ Elems(<<x>>) = {x} /\ Elems(<<>>) = {}
<1> HIDE DEF Calls
<1>1. <<x>> \in Seq(Calls) OBVIOUS
<1> QED BY <1>1, ElemsFacts

\* What is left of dup_handle() moves old to new, in the end.
MovingHas(c, m, old, new, last, s) ==
  /\ m # <<>> /\ Call2("move", old, new) \in Elems(m)
  /\ Elems(m) \subseteq {Call("spare", new), Call("unspare", new), Call2("move", old, new), last}
  /\ \/ Head(m) = Call("spare", new) /\ new # STDIN
     \/ Head(m) = Call("unspare", new) /\ s = {c.spare} /\ c.spare # old
     \/ Head(m) = Call2("move", old, new)

LEMMA MovingIs ==
  ASSUME NEW c, NEW m \in Seq(Calls), NEW old \in Handles \ Std, NEW new \in Std, NEW last \in Calls, NEW s,
         Moving(c, m, old, new, last, s)
  PROVE  MovingHas(c, m, old, new, last, s)
<1>1. PICK p \in Calls, q \in Calls, v \in Calls :
        p = Call("spare", new) /\ q = Call("unspare", new) /\ v = Call2("move", old, new)
  BY CallTypes, HandleFacts
<1>2. old # STDIN /\ new \in Handles /\ -1 \notin Handles BY HandleFacts DEF Std
<1>3. \/ m = <<p, q, v, last>> /\ new # STDIN
      \/ m = <<q, v, last>> /\ s = {c.spare} /\ c.spare # old
      \/ m = <<v, last>>
  BY <1>1, <1>2, DupHandleIs DEF Moving
<1>4. ASSUME NEW l \in Seq(Calls), l = <<p, q, v, last>> \/ l = <<q, v, last>> \/ l = <<v, last>>
      PROVE  l # <<>> /\ v \in Elems(l) /\ Elems(l) \subseteq {p, q, v, last}
  <2> HIDE DEF Calls
  <2>1. CASE l = <<p, q, v, last>>
    <3>1. DOMAIN l = 1 .. 4 /\ l[1] = p /\ l[2] = q /\ l[3] = v /\ l[4] = last BY <2>1
    <3> QED BY <2>1, <3>1 DEF Elems
  <2>2. CASE l = <<q, v, last>>
    <3>1. DOMAIN l = 1 .. 3 /\ l[1] = q /\ l[2] = v /\ l[3] = last BY <2>2
    <3> QED BY <2>2, <3>1 DEF Elems
  <2>3. CASE l = <<v, last>>
    <3>1. DOMAIN l = 1 .. 2 /\ l[1] = v /\ l[2] = last BY <2>3
    <3> QED BY <2>3, <3>1 DEF Elems
  <2> QED BY <1>4, <2>1, <2>2, <2>3
<1>5. m # <<>> /\ v \in Elems(m) /\ Elems(m) \subseteq {p, q, v, last} BY <1>3, <1>4
<1>6. Head(<<p, q, v, last>>) = p /\ Head(<<q, v, last>>) = q /\ Head(<<v, last>>) = v
  <2> HIDE DEF Calls
  <2> QED OBVIOUS
<1> QED BY <1>1, <1>3, <1>5, <1>6 DEF MovingHas

\* What the calls do is as follows, wherever the activation is.
Fits(c, t) ==
  \/ /\ First(c) = Call("save", First(c).h) /\ First(c).h \in Std /\ c.naStd[First(c).h] = 0 /\ OpenStd(t)
     /\ c.at \in {"top", "failed", "redir", "open"}
     /\ (c.at = "top" => ~None(c, "move")) /\ (c.at = "redir" => First(c).h # STDIN)
     /\ (c.at = "open" => First(c).h \in RedirectedOf(c))
  \/ First(c).f = "spare" /\ First(c).h \in Std /\ (c.at # "unredir" => OpenStd(t))
  \/ /\ First(c).f = "unspare"
     /\ c.at # "unredir" => c.spare \notin Std /\ \A x \in Elems(c.todo) : x.f = "move" => x.h # c.spare
  \/ /\ First(c).f = "move" /\ t[First(c).h] # NULL /\ First(c).to \in Std
     /\ c.at \in {"top", "failed", "redir", "unredir"}
     /\ c.at = "unredir" => t[First(c).h] = c.entry[First(c).to]
  \/ First(c) = ErrToOut /\ c.at = "redir" /\ None(c, "move") /\ t[STDOUT] # NULL
  \/ First(c).f = "close" /\ First(c).h \notin Std /\ None(c, "move")
  \/ First(c).f = "close" /\ c.at = "open" /\ First(c).h \in RedirectedOf(c)
  \/ First(c).f = "restored" /\ c.at = "unredir" /\ First(c).h \in Std /\ c.naStd[First(c).h] # 0

LEMMA TakingFits ==
  ASSUME NEW c \in Activations, NEW t \in Tables, NEW i \in {STDIN, STDOUT}, NEW e \in Seq(Calls),
         NEW s, Taking(c, t, i, e, s), \A x \in Elems(e) : x.f # "move",
         c.at \in {"top", "failed"} \/ (c.at = "redir" /\ i = STDOUT)
  PROVE  Fits(c, t)
<1>1. PICK n \in Handles :
        /\ Temp(c, t, n) /\ OpenStd(t)
        /\ \/ c.todo = (<<Call("save", i)>> \o DupHandle(n, i, Call("close", n))) \o e /\ c.naStd[i] = 0 /\ s = {n}
           \/ \E m \in Seq(Calls), r \in SUBSET (HandlesOrNone) :
                /\ Moving(c, m, n, i, Call("close", n), r) /\ c.todo = m \o e /\ c.naStd[i] # 0
                /\ r \cap Std = {} /\ s = r \cup {n}
           \/ c.todo = <<Call("close", n)>> \o e /\ s = {n}
  BY DEF Taking
<1>2. n \in Handles \ Std /\ n # STDIN /\ t[n] # NULL /\ i \in Std /\ i \in Handles
  BY <1>1, HandleFacts DEF Temp, Std
<1>3. PICK x \in Calls, w \in Calls : x = Call("close", n) /\ w = Call("save", i) BY <1>2, CallTypes
<1>4. x.f = "close" /\ x.h = n /\ w.f = "save" /\ w.h = i BY <1>3 DEF Call
<1>5. Call2("move", n, i).f = "move" /\ Call2("move", n, i).h = n /\ Call2("move", n, i).to = i BY DEF Call2
<1>6. CASE c.todo = (<<Call("save", i)>> \o DupHandle(n, i, Call("close", n))) \o e /\ c.naStd[i] = 0 /\ s = {n}
  <2>1. PICK l \in Seq(Calls) : l = DupHandle(n, i, x) BY <1>2, DupHandleIs
  <2>2. Moving(c, l, n, i, x, {}) BY <2>1 DEF Moving
  <2>3. Call2("move", n, i) \in Elems(l) BY <1>2, <2>2, MovingIs DEF MovingHas
  <2>4. c.todo = (<<w>> \o l) \o e BY <1>3, <1>6, <2>1
  <2>5. <<w>> \o l \in Seq(Calls) /\ <<w>> \o l # <<>> /\ Head(<<w>> \o l) = w BY ConsIs
  <2>6. First(c) = w BY <2>4, <2>5, PopOf DEF First
  <2>7. Call2("move", n, i) \in Elems(c.todo)
    <3>1. <<w>> \in Seq(Calls) BY OneCall
    <3>2. PICK wl \in Seq(Calls) : wl = <<w>> \o l BY <2>5
    <3>3. Elems(wl) = Elems(<<w>>) \cup Elems(l) BY <3>1, <3>2, CallElems
    <3>4. Elems(wl \o e) = Elems(wl) \cup Elems(e) BY <3>2, CallElems
    <3>5. c.todo = wl \o e BY <2>4, <3>2
    <3> QED BY <2>3, <3>3, <3>4, <3>5
  <2>8. ~None(c, "move") BY <1>5, <2>7 DEF None
  <2>9. First(c).h = i BY <1>4, <2>6
  <2>10. First(c) = Call("save", First(c).h) BY <1>3, <2>6, <2>9
  <2>11. c.at # "open" /\ (c.at = "redir" => i # STDIN) BY DEF STDIN, STDOUT
  <2> QED BY <1>1, <1>2, <1>6, <2>8, <2>9, <2>10, <2>11 DEF Fits
<1>7. ASSUME NEW m \in Seq(Calls), NEW r \in SUBSET (HandlesOrNone),
             Moving(c, m, n, i, Call("close", n), r), c.todo = m \o e, r \cap Std = {}
      PROVE  Fits(c, t)
  <2>1. PICK v, p, q : v = Call2("move", n, i) /\ p = Call("spare", i) /\ q = Call("unspare", i) OBVIOUS
  <2>2. v.f = "move" /\ v.h = n /\ v.to = i /\ p.f = "spare" /\ p.h = i /\ q.f = "unspare" BY <2>1 DEF Call, Call2
  <2>3. /\ m # <<>> /\ Elems(m) \subseteq {p, q, v, x}
        /\ Head(m) = p \/ (Head(m) = q /\ r = {c.spare} /\ c.spare # n) \/ Head(m) = v
    <3>1. Moving(c, m, n, i, x, r) BY <1>3, <1>7
    <3>2. MovingHas(c, m, n, i, x, r) BY <1>2, <3>1, MovingIs
    <3> QED BY <2>1, <3>2 DEF MovingHas
  <2>4. First(c) = Head(m) BY <1>7, <2>3, PopOf DEF First
  <2>5. \A y \in Elems(c.todo) : y.f = "move" => y = v
    <3>1. Elems(c.todo) = Elems(m) \cup Elems(e) BY <1>7, CallElems
    <3> QED BY <1>4, <2>2, <2>3, <3>1
  <2>6. CASE First(c) = p BY <1>1, <1>2, <2>2, <2>6 DEF Fits
  <2>7. CASE First(c) = q /\ r = {c.spare} /\ c.spare # n
    <3>1. c.spare \notin Std BY <1>7, <2>7
    <3> QED BY <2>2, <2>5, <2>7, <3>1 DEF Fits
  <2>8. CASE First(c) = v
    <3>1. c.at # "unredir" OBVIOUS
    <3> QED BY <1>2, <2>2, <2>8, <3>1 DEF Fits
  <2> QED BY <2>3, <2>4, <2>6, <2>7, <2>8
<1>8. CASE c.todo = <<Call("close", n)>> \o e /\ s = {n}
  <2>1. <<x>> \in Seq(Calls) /\ Elems(<<x>>) = {x} BY OneCall
  <2>2. c.todo = <<x>> \o e BY <1>3, <1>8
  <2>3. Elems(c.todo) = {x} \cup Elems(e)
    <3>1. Elems(<<x>> \o e) = Elems(<<x>>) \cup Elems(e) BY <2>1, CallElems
    <3> QED BY <2>1, <2>2, <3>1
  <2>4. First(c) = x BY <2>2, ConsIs DEF First
  <2>5. None(c, "move") BY <1>4, <2>3 DEF None
  <2> QED BY <1>2, <1>4, <2>4, <2>5 DEF Fits
<1> QED BY <1>1, <1>6, <1>7, <1>8

LEMMA PipingFits ==
  ASSUME NEW c \in Activations, NEW t \in Tables, NEW s, c.at = "redir", Piping(c, t, s) \/ Doubling(c, t, s)
  PROVE  Fits(c, t)
<1>1. PICK w \in Calls, x \in Calls : w = Call("save", STDERR) /\ x = ErrToOut
  BY CallTypes, HandleFacts DEF Std, ErrToOut
<1>2. w.f = "save" /\ w.h = STDERR /\ x.f = "dup2" BY <1>1 DEF Call, Call2, ErrToOut
<1>3. STDERR \in Std /\ STDERR # STDIN BY DEF Std, STDIN, STDERR
<1>4. SaveErr = <<w, x>> /\ SaveErr \in Seq(Calls) /\ \A y \in Elems(SaveErr) : y.f # "move"
  <2>1. SaveErr = <<w, x>> BY <1>1 DEF SaveErr
  <2>2. <<w, x>> \in Seq(Calls) /\ Elems(<<w, x>>) \subseteq {w, x}
    <3> HIDE DEF Calls
    <3>1. DOMAIN <<w, x>> = 1 .. 2 /\ <<w, x>>[1] = w /\ <<w, x>>[2] = x OBVIOUS
    <3> QED BY <3>1 DEF Elems
  <2> QED BY <1>2, <2>1, <2>2
<1>5. <<>> \in Seq(Calls) /\ \A y \in Elems(<<>>) : y.f # "move" BY EmptySequence, OneCall
<1>6. CASE Piping(c, t, s) BY <1>4, <1>5, <1>6, TakingFits DEF Piping
<1>7. CASE c.todo = SaveErr /\ c.naStd[STDERR] = 0 /\ OpenStd(t)
  <2>1. First(c) = w
    <3> HIDE DEF Calls
    <3> QED BY <1>4, <1>7 DEF First
  <2> QED BY <1>1, <1>2, <1>3, <1>7, <2>1 DEF Fits
<1>8. CASE c.todo = <<ErrToOut>> /\ t[STDOUT] # NULL
  <2>1. First(c) = x /\ Elems(c.todo) = {x}
    <3>1. Head(<<x>>) = x
      <4> HIDE DEF Calls
      <4> QED OBVIOUS
    <3> QED BY <1>1, <1>8, <3>1, OneCall DEF First
  <2>2. None(c, "move") BY <1>2, <2>1 DEF None
  <2> QED BY <1>1, <1>8, <2>1, <2>2 DEF Fits
<1> QED BY <1>6, <1>7, <1>8 DEF Doubling

LEMMA OpeningFits ==
  ASSUME NEW c \in Activations, NEW t \in Tables, c.at = "open", Opening(c, t, RedirectedOf(c)), c.todo # <<>>
  PROVE  Fits(c, t)
<1>1. ASSUME NEW i \in RedirectedOf(c), i \in Std, First(c) = Call("close", i)
      PROVE  Fits(c, t)
  <2>1. First(c).f = "close" /\ First(c).h = i BY <1>1 DEF Call
  <2> QED BY <1>1, <2>1 DEF Fits
<1>2. ASSUME NEW i \in RedirectedOf(c), i \in Std, First(c) = Call("save", i), c.naStd[i] = 0, OpenStd(t)
      PROVE  Fits(c, t)
  <2>1. First(c).f = "save" /\ First(c).h = i BY <1>2 DEF Call
  <2> QED BY <1>2, <2>1 DEF Fits
<1>3. ASSUME NEW i \in Std, RedirectedOf(c) = {i}, OpeningOne(c, t, i)
      PROVE  Fits(c, t)
  <2>1. PICK x, y : x = Call("save", i) /\ y = Call("close", i) OBVIOUS
  <2>2. Head(<<x, y>>) = x /\ Head(<<y>>) = y OBVIOUS
  <2>3. \/ First(c) = x /\ c.naStd[i] = 0 /\ OpenStd(t)
        \/ First(c) = y
    BY <1>3, <2>1, <2>2 DEF OpeningOne, First
  <2> QED BY <1>1, <1>2, <1>3, <2>1, <2>3
<1>4. ASSUME RedirectedOf(c) = {STDOUT, STDERR}, OpeningBoth(c, t)
      PROVE  Fits(c, t)
  <2>1. PICK a, b, x, y : /\ a = Call("save", STDOUT) /\ b = Call("save", STDERR)
                          /\ x = Call("close", STDOUT) /\ y = Call("close", STDERR)
    OBVIOUS
  <2>2. Head(<<a, b>> \o <<x, y>>) = a /\ Head(<<b>> \o <<x, y>>) = b /\ Head(<<x, y>>) = x /\ Head(<<y>>) = y
    OBVIOUS
  <2>3. \/ First(c) = a /\ c.naStd[STDOUT] = 0 /\ OpenStd(t)
        \/ First(c) = b /\ c.naStd[STDERR] = 0 /\ OpenStd(t)
        \/ First(c) = x
        \/ First(c) = y
    <3>1. \/ c.naStd[STDOUT] = 0 /\ OpenStd(t) /\ c.todo = <<a, b>> \o <<x, y>>
          \/ c.naStd[STDERR] = 0 /\ OpenStd(t) /\ c.todo = <<b>> \o <<x, y>>
          \/ c.todo = <<x, y>>
          \/ c.todo = <<y>>
      BY <1>4, <2>1, Zenon DEF OpeningBoth
    <3> QED BY <2>2, <3>1 DEF First
  <2>4. STDOUT \in Std /\ STDERR \in Std BY DEF Std
  <2> QED BY <1>1, <1>2, <1>4, <2>1, <2>3, <2>4
<1> QED BY <1>3, <1>4 DEF Opening

LEMMA RestoringFits ==
  ASSUME NEW c \in Activations, NEW t \in Tables, Keeps(c, t), NEW s, c.at = "unredir", Restoring(c, t, s),
         c.todo # <<>>
  PROVE  Fits(c, t)
<1>1. PICK i \in Std, m \in Seq(Calls) :
        /\ c.naStd[i] # 0 /\ c.todo = m \o From(c, i + 1)
        /\ \/ Moving(c, m, c.naStd[i], i, Call("restored", i), s)
           \/ m = <<Call("restored", i)>>
  BY DEF Restoring
<1>2. PICK old, x, e : old = c.naStd[i] /\ x = Call("restored", i) /\ e = From(c, i + 1) OBVIOUS
<1>3. i \in Handles /\ x \in Calls /\ e \in Seq(Calls) BY <1>2, HandleFacts, CallTypes, FromFacts
<1>4. old \in Handles \ Std /\ t[old] = c.entry[i] /\ t[old] # NULL BY <1>1, <1>2 DEF Keeps
<1>5. x.f = "restored" /\ x.h = i BY <1>2 DEF Call
<1>6. c.todo = m \o e BY <1>1, <1>2
<1>7. CASE Moving(c, m, old, i, x, s)
  <2>1. MovingHas(c, m, old, i, x, s) BY <1>3, <1>4, <1>7, MovingIs
  <2>2. First(c) = Head(m) BY <1>3, <1>6, <2>1, PopOf DEF First, MovingHas
  <2>3. CASE First(c) = Call("spare", i)
    <3>1. First(c).f = "spare" /\ First(c).h = i BY <2>3 DEF Call
    <3> QED BY <1>1, <3>1 DEF Fits
  <2>4. CASE First(c) = Call("unspare", i)
    <3>1. First(c).f = "unspare" BY <2>4 DEF Call
    <3> QED BY <3>1 DEF Fits
  <2>5. CASE First(c) = Call2("move", old, i)
    <3>1. First(c).f = "move" /\ First(c).h = old /\ First(c).to = i BY <2>5 DEF Call2
    <3> QED BY <1>1, <1>4, <3>1 DEF Fits
  <2> QED BY <2>1, <2>2, <2>3, <2>4, <2>5 DEF MovingHas
<1>8. CASE m = <<x>>
  <2>1. First(c) = x BY <1>3, <1>6, <1>8, ConsIs DEF First
  <2> QED BY <1>1, <1>5, <2>1 DEF Fits
<1> QED BY <1>1, <1>2, <1>7, <1>8

\* Every call of DosCall, wherever it was queued.
LEMMA CallFits ==
  ASSUME NEW c \in Activations, NEW t \in Tables, Keeps(c, t), NEW s, Doing(c, t, s), c.todo # <<>>
  PROVE  Fits(c, t)
<1>1. <<>> \in Seq(Calls) /\ \A y \in Elems(<<>>) : y.f # "move" BY EmptySequence, OneCall DEF Elems
<1>2. CASE c.at \in {"top", "failed"} /\ Reading(c, t, s) BY <1>1, <1>2, TakingFits DEF Reading
<1>3. CASE c.at = "redir" /\ (Piping(c, t, s) \/ Doubling(c, t, s)) BY <1>3, PipingFits
<1>4. CASE c.at = "open" /\ Opening(c, t, RedirectedOf(c)) BY <1>4, OpeningFits
<1>5. CASE c.at = "failed" /\ c.todo = <<Call("save", STDOUT)>> /\ OpenStd(t) /\ c.naStd[STDOUT] = 0
  <2>1. PICK w : w = Call("save", STDOUT) OBVIOUS
  <2>2. Head(<<w>>) = w OBVIOUS
  <2>3. First(c) = w /\ w.h = STDOUT BY <1>5, <2>1, <2>2 DEF First, Call
  <2> QED BY <1>5, <2>1, <2>3 DEF Fits, Std
<1>6. CASE c.at = "unredir" /\ Restoring(c, t, s) BY <1>6, RestoringFits
<1> QED BY <1>2, <1>3, <1>4, <1>5, <1>6 DEF Doing, Quiet

-----------------------------------------------------------------------------
(***************************************************************************)
(* One DOS call of the queue.                                              *)
(***************************************************************************)
\* All but the queue and the handles that are saved.
Alike(c, d) == /\ Same(c, d) /\ d.file = c.file
               /\ d.pszInPipe = c.pszInPipe /\ d.pszOutPipe = c.pszOutPipe

LEMMA AlikeFacts ==
  ASSUME NEW c, NEW d, Alike(c, d)
  PROVE  /\ Piped(d) = Piped(c) /\ Owned(d) = Owned(c) /\ RedirectedOf(d) = RedirectedOf(c)
         /\ (Names(d) <=> Names(c)) /\ (InputKept(d) <=> InputKept(c)) /\ (Staged(d) <=> Staged(c))
         /\ (BothPiped(d) <=> BothPiped(c)) /\ \A l : Inherits(d, l) <=> Inherits(c, l)
<1>1. /\ d.at = c.at /\ d.line = c.line /\ d.k = c.k /\ d.n = c.n /\ d.empty = c.empty
      /\ d.fPipeOpen = c.fPipeOpen /\ d.entry = c.entry /\ d.file = c.file
      /\ d.pszInPipe = c.pszInPipe /\ d.pszOutPipe = c.pszOutPipe
  BY DEF Alike, Same
<1>2. Piped(d) = Piped(c) BY <1>1, Zenon DEF Piped
<1>3. Owned(d) = Owned(c) BY <1>1, <1>2, Zenon DEF Owned
<1>4. OpOf(d) = OpOf(c) BY <1>1, Zenon DEF OpOf
<1>5. IOOf(d) = IOOf(c) BY <1>1, <1>4, Zenon DEF IOOf
<1>6. RedirectedOf(d) = RedirectedOf(c) BY <1>1, <1>5, Zenon DEF RedirectedOf
<1>7. Names(d) <=> Names(c) BY <1>1, Zenon DEF Names
<1>8. Begun(d) = Begun(c) BY <1>1, <1>5, Zenon DEF Begun
<1>9. InputKept(d) <=> InputKept(c) BY <1>5, <1>8, Zenon DEF InputKept
<1>10. (Staged(d) <=> Staged(c)) /\ (BothPiped(d) <=> BothPiped(c)) BY <1>1, Zenon DEF Staged, BothPiped
<1>11. \A l : Inherits(d, l) <=> Inherits(c, l) BY <1>1, Zenon DEF Inherits
<1> QED BY <1>2, <1>3, <1>6, <1>7, <1>9, <1>10, <1>11

\* A call that moves no standard handle.
LEMMA FlowsAside ==
  ASSUME NEW c, NEW t, NEW d, NEW u, Alike(c, d), StdFrom(c, t), Flows(c, t),
         Elems(d.todo) \subseteq Elems(c.todo), \A i \in Std : u[i] = t[i],
         \A x \in Elems(c.todo) : x.f \in {"move", "dup2"} => x \in Elems(d.todo),
         \A x \in Elems(d.todo) : x.f = "move" /\ c.at \in {"top", "failed", "redir"} => u[x.h] = t[x.h],
         d.naStd[STDIN] # 0 => \/ c.naStd[STDIN] # 0 \/ c.at \in {"failed", "unredir"}
                               \/ c.at = "top" /\ ~None(c, "move")
                               \/ c.at = "open" /\ ~InputKept(c)
  PROVE  StdFrom(d, u) /\ Flows(d, u)
<1>1. d.at = c.at /\ d.fPipeOpen = c.fPipeOpen /\ d.entry = c.entry /\ d.pszInPipe = c.pszInPipe
      /\ d.pszOutPipe = c.pszOutPipe
  BY DEF Alike, Same
<1>2. /\ Piped(d) = Piped(c) /\ RedirectedOf(d) = RedirectedOf(c) /\ (InputKept(d) <=> InputKept(c))
      /\ (Staged(d) <=> Staged(c)) /\ (BothPiped(d) <=> BothPiped(c))
  BY AlikeFacts
<1>3. StdFrom(d, u) BY <1>1, <1>2 DEF StdFrom
<1>4. (None(d, "move") <=> None(c, "move")) /\ (None(d, "dup2") <=> None(c, "dup2")) BY DEF None
<1>5. STDIN \in Std /\ STDOUT \in Std /\ STDERR \in Std BY DEF Std
<1>6. \A i, p : c.at \in {"top", "failed", "redir"} /\ MovesTo(c, t, i, p) => MovesTo(d, u, i, p) BY DEF MovesTo
<1>7. /\ c.at \in {"top", "failed"} => MovesTo(c, t, STDIN, c.pszInPipe)
      /\ c.at = "redir" => MovesTo(c, t, STDOUT, c.pszOutPipe)
      /\ InputFlows(c, t) /\ OutputFlows(c, t)
  BY DEF Flows
<1>8. /\ d.at \in {"top", "failed"} => MovesTo(d, u, STDIN, d.pszInPipe)
      /\ d.at = "redir" => MovesTo(d, u, STDOUT, d.pszOutPipe)
  BY <1>1, <1>6, <1>7
<1>9. InputFlows(d, u) BY <1>1, <1>2, <1>4, <1>5, <1>7 DEF InputFlows, Staged
<1>10. OutputFlows(d, u) BY <1>1, <1>2, <1>4, <1>5, <1>7 DEF OutputFlows
<1> QED BY <1>3, <1>8, <1>9, <1>10 DEF Flows

LEMMA InputBegun ==
  ASSUME NEW c \in Activations, InLine(c), c.n \in DOMAIN IOOf(c), STDIN \in RedirectedOf(c), c.at = "open"
  PROVE  ~InputKept(c)
<1>1. c.line[c.k] \in Stages BY LineFacts
<1>2. c.line[c.k].io \in Seq(DOMAIN Targets) BY <1>1, Zenon DEF Stages
<1>3. IOOf(c) = c.line[c.k].io
  <2>1. CASE OpOf(c) \in {"cmd", "group"} BY <2>1, Zenon DEF IOOf
  <2>2. CASE OpOf(c) \notin {"cmd", "group"}
    <3>1. IOOf(c) = <<>> BY <2>2, Zenon DEF IOOf
    <3> QED BY <3>1
  <2> QED BY <2>1, <2>2
<1>4. PICK q : q = IOOf(c) OBVIOUS
<1>5. q[c.n] \in DOMAIN Targets BY <1>2, <1>3, <1>4
<1>6. STDIN \in Targets[q[c.n]] BY <1>4 DEF RedirectedOf
<1>7. q[c.n] = "<" BY <1>5, <1>6, TargetsAre DEF STDIN, STDOUT, STDERR
<1>8. c.n \in Nat BY DEF Activations
<1> QED BY <1>4, <1>7, <1>8 DEF InputKept, Begun

\* What the call leaves in the queue.
LEMMA CallPops ==
  ASSUME NEW c \in Activations, NEW t \in Tables, c.todo # <<>>, NEW d, NEW u, Does(c, t, d, u), Fits(c, t)
  PROVE  Alike(c, d) /\ d.todo = Tail(c.todo) /\ Elems(c.todo) = {First(c)} \cup Elems(d.todo)
<1>1. First(c) \in Calls /\ First(c).h \in Handles /\ First(c).to \in Handles
  <2>1. First(c) \in Calls BY RestType
  <2> QED BY <2>1 DEF Calls
<1>2. Elems(c.todo) = {First(c)} \cup Elems(Tail(c.todo))
  <2>1. c.todo \in Seq(Calls) BY DEF Activations
  <2> QED BY <2>1, CallElems DEF First
<1>3. PICK r : r = Rest(c) OBVIOUS
<1>4. r \in Activations /\ Same(c, r) /\ r.todo = Tail(c.todo) BY <1>3, RestType
<1>5. Alike(c, r)
  <2>1. r = [c EXCEPT !.todo = Tail(c.todo)] BY <1>3 DEF Rest
  <2>2. r.file = c.file /\ r.pszInPipe = c.pszInPipe /\ r.pszOutPipe = c.pszOutPipe BY <2>1 DEF Activations
  <2> QED BY <1>4, <2>2 DEF Alike
<1>6. ASSUME NEW e \in Activations, Same(c, e), e.file = r.file, e.pszInPipe = r.pszInPipe,
             e.pszOutPipe = r.pszOutPipe, e.todo = Tail(c.todo), d = e
      PROVE  Alike(c, d) /\ d.todo = Tail(c.todo)
  BY <1>5, <1>6 DEF Alike
<1>7. CASE d = r BY <1>2, <1>4, <1>5, <1>7
<1>8. ASSUME NEW n \in HandlesOrNone, d = RestSpare(c, n) PROVE Alike(c, d) /\ d.todo = Tail(c.todo)
  <2>1. d \in Activations /\ Same(c, d) /\ d.todo = Tail(c.todo) BY <1>8, SpareType
  <2>2. d = [r EXCEPT !.spare = n] BY <1>3, <1>8 DEF RestSpare
  <2>3. d.file = r.file /\ d.pszInPipe = r.pszInPipe /\ d.pszOutPipe = r.pszOutPipe BY <1>4, <2>2 DEF Activations
  <2> QED BY <1>6, <2>1, <2>3
<1>9. ASSUME NEW h \in Std, NEW n \in Handles, d = RestSave(c, h, n) PROVE Alike(c, d) /\ d.todo = Tail(c.todo)
  <2>1. d \in Activations /\ Same(c, d) /\ d.todo = Tail(c.todo) BY <1>9, SaveType
  <2>2. PICK f : f = [r.naStd EXCEPT ![h] = n] OBVIOUS
  <2>3. d = [r EXCEPT !.naStd = f] BY <1>3, <1>9, <2>2 DEF RestSave
  <2>4. d.file = r.file /\ d.pszInPipe = r.pszInPipe /\ d.pszOutPipe = r.pszOutPipe BY <1>4, <2>3 DEF Activations
  <2> QED BY <1>6, <2>1, <2>4
<1>10. CASE First(c).f = "save"
  <2>1. First(c).h \in Std /\ t[First(c).h] # NULL
    BY <1>10 DEF Fits, OpenStd, ErrToOut, Call2
  <2>2. Saves1(c, t, d, u) BY <1>10, <2>1 DEF Does, Spares, Unspares, Dup2s, Closes1, Restores1
  <2>3. PICK n : Fresh(t, n) /\ d = RestSave(c, First(c).h, n) BY <2>2 DEF Saves1
  <2> QED BY <1>2, <1>9, <2>1, <2>3 DEF Fresh
<1>11. CASE First(c).f = "spare"
  <2>1. PICK n \in HandlesOrNone : d = RestSpare(c, n)
    BY <1>11 DEF Does, Spares, Unspares, Dup2s, Closes1, Restores1, Fresh, HandlesOrNone
  <2> QED BY <1>2, <1>8, <2>1
<1>12. CASE First(c).f = "restored"
  <2>1. First(c).h \in Std BY <1>12 DEF Fits, ErrToOut, Call2
  <2>2. d = RestSave(c, First(c).h, 0) BY <1>12 DEF Does, Spares, Unspares, Dup2s, Closes1, Restores1
  <2> QED BY <1>2, <1>9, <2>1, <2>2, HandleFacts
<1>13. CASE First(c).f \in {"unspare", "close"}
  BY <1>2, <1>3, <1>7, <1>13 DEF Does, Spares, Unspares, Dup2s, Closes1, Restores1
<1>14. CASE First(c).f \in {"move", "dup2"}
  <2>1. t[First(c).h] # NULL
    <3>1. ErrToOut.f = "dup2" /\ ErrToOut.h = STDOUT BY DEF ErrToOut, Call2
    <3> QED BY <1>14, <3>1 DEF Fits, Call
  <2> QED BY <1>2, <1>3, <1>7, <1>14, <2>1 DEF Does, Spares, Unspares, Dup2s, Closes1, Restores1
<1> QED BY <1>1, <1>10, <1>11, <1>12, <1>13, <1>14 DEF Calls

LEMMA CallFlows ==
  ASSUME NEW c \in Activations, NEW t \in Tables, c.todo # <<>>, NEW d, NEW u, Does(c, t, d, u), Fits(c, t),
         Keeps(c, t), c.at = "open" => InLine(c) /\ c.n \in DOMAIN IOOf(c), StdFrom(c, t), Flows(c, t)
  PROVE  StdFrom(d, u) /\ Flows(d, u)
<1>1. Alike(c, d) /\ d.todo = Tail(c.todo) /\ Elems(c.todo) = {First(c)} \cup Elems(d.todo) BY CallPops
<1>2. First(c) \in Calls /\ First(c).h \in Handles /\ First(c).to \in Handles
  <2>1. First(c) \in Calls BY RestType
  <2> QED BY <2>1 DEF Calls
<1>3. /\ d.at = c.at /\ d.fPipeOpen = c.fPipeOpen /\ d.entry = c.entry /\ d.pszInPipe = c.pszInPipe
      /\ d.pszOutPipe = c.pszOutPipe
  BY <1>1 DEF Alike, Same
<1>4. /\ Piped(d) = Piped(c) /\ RedirectedOf(d) = RedirectedOf(c) /\ (InputKept(d) <=> InputKept(c))
      /\ (Staged(d) <=> Staged(c)) /\ (BothPiped(d) <=> BothPiped(c))
  BY <1>1, AlikeFacts
<1>5. STDIN \in Std /\ STDOUT \in Std /\ STDERR \in Std /\ STDIN # STDOUT /\ STDIN # STDERR /\ STDOUT # STDERR
      /\ Std \subseteq Handles
  BY HandleFacts DEF Std, STDIN, STDOUT, STDERR
<1>6. /\ c.at \in {"top", "failed"} => MovesTo(c, t, STDIN, c.pszInPipe)
      /\ c.at = "redir" => MovesTo(c, t, STDOUT, c.pszOutPipe)
      /\ InputFlows(c, t) /\ OutputFlows(c, t)
  BY DEF Flows
<1>7. \A x \in Elems(c.todo) : x.f = "move" /\ c.at \in {"top", "failed", "redir"} => t[x.h] # NULL /\ x.h \notin Std
  BY <1>6 DEF MovesTo
<1>8. /\ ErrToOut.f = "dup2" /\ ErrToOut.h = STDOUT /\ ErrToOut.to = STDERR
      /\ \A h : Call("save", h).f = "save"
  BY DEF ErrToOut, Call, Call2
<1>9. c.at = "unredir" => Flows(d, u) BY <1>3 DEF Flows, InputFlows, OutputFlows, Staged
<1>10. ASSUME \A i \in Std : u[i] = t[i],
              First(c).f \notin {"move", "dup2"},
              \A x \in Elems(c.todo) : x.f = "move" /\ c.at \in {"top", "failed", "redir"} => u[x.h] = t[x.h],
              d.naStd[STDIN] # 0 => \/ c.naStd[STDIN] # 0 \/ c.at \in {"failed", "unredir"}
                                    \/ c.at = "top" /\ ~None(c, "move")
                                    \/ c.at = "open" /\ ~InputKept(c)
       PROVE  StdFrom(d, u) /\ Flows(d, u)
  <2>1. /\ Elems(d.todo) \subseteq Elems(c.todo)
        /\ \A x \in Elems(c.todo) : x.f \in {"move", "dup2"} => x \in Elems(d.todo)
    BY <1>1, <1>10
  <2>2. \A x \in Elems(d.todo) : x.f = "move" /\ c.at \in {"top", "failed", "redir"} => u[x.h] = t[x.h]
    BY <1>10, <2>1
  <2> QED BY <1>1, <1>10, <2>1, <2>2, FlowsAside
<1>11. CASE First(c).f = "save"
  <2>1. /\ First(c).h \in Std /\ c.naStd[First(c).h] = 0 /\ OpenStd(t)
        /\ c.at \in {"top", "failed", "redir", "open"}
        /\ (c.at = "top" => ~None(c, "move")) /\ (c.at = "redir" => First(c).h # STDIN)
        /\ (c.at = "open" => First(c).h \in RedirectedOf(c))
    BY <1>8, <1>11 DEF Fits
  <2>2. Saves1(c, t, d, u) BY <1>11, <2>1 DEF Does, Spares, Unspares, Dup2s, Closes1, Restores1, OpenStd
  <2>3. PICK n : Fresh(t, n) /\ d = RestSave(c, First(c).h, n) /\ u = [t EXCEPT ![n] = t[First(c).h]]
    BY <2>2 DEF Saves1
  <2>4. n \in Handles \ Std /\ t[n] = NULL BY <2>1, <2>3, FreshWritable DEF Fresh
  <2>5. \A g : g # n => u[g] = t[g] BY <2>3, <2>4 DEF Tables
  <2>6. d.naStd = [c.naStd EXCEPT ![First(c).h] = n] BY <2>1, <2>3, <2>4, SaveType
  <2>7. d.naStd[STDIN] # 0 => c.naStd[STDIN] # 0 \/ First(c).h = STDIN BY <1>5, <2>6 DEF Activations
  <2>8. c.at = "open" /\ First(c).h = STDIN => ~InputKept(c) BY <2>1, InputBegun
  <2>9. \A x \in Elems(c.todo) : x.f = "move" /\ c.at \in {"top", "failed", "redir"} => u[x.h] = t[x.h]
    BY <1>7, <2>4, <2>5
  <2> QED BY <1>10, <1>11, <2>1, <2>4, <2>5, <2>7, <2>8, <2>9
<1>12. CASE First(c).f = "spare"
  <2>1. First(c).h \in Std /\ (c.at # "unredir" => OpenStd(t)) BY <1>8, <1>12 DEF Fits
  <2>2. Spares(c, t, d, u) BY <1>12 DEF Does, Saves1, Unspares, Dup2s, Closes1, Restores1
  <2>3. PICK n : /\ d = RestSpare(c, n)
                 /\ (n = -1 /\ u = t) \/ (Fresh(t, n) /\ u = [t EXCEPT ![n] = t[First(c).h]])
    BY <2>2 DEF Spares
  <2>4. d.naStd = c.naStd BY <2>3, SpareType DEF Fresh, HandlesOrNone
  <2>5. CASE u = t BY <1>10, <1>12, <2>4, <2>5
  <2>6. CASE Fresh(t, n) /\ u = [t EXCEPT ![n] = t[First(c).h]]
    <3>1. n \in Handles /\ t[n] = NULL /\ (\A g : g # n => u[g] = t[g]) /\ u[n] = t[First(c).h]
      BY <2>6 DEF Fresh, Tables
    <3>2. CASE c.at = "unredir"
      <4>1. StdFrom(d, u) BY <1>3, <1>4, <2>1, <3>1 DEF StdFrom
      <4> QED BY <1>9, <3>2, <4>1
    <3>3. CASE c.at # "unredir"
      <4>1. n \notin Std BY <2>1, <3>1, <3>3 DEF OpenStd
      <4> QED BY <1>7, <1>10, <1>12, <2>4, <3>1, <4>1
    <3> QED BY <3>2, <3>3
  <2> QED BY <2>3, <2>5, <2>6
<1>13. CASE First(c).f = "unspare"
  <2>1. c.at # "unredir" => c.spare \notin Std /\ \A x \in Elems(c.todo) : x.f = "move" => x.h # c.spare
    BY <1>8, <1>13 DEF Fits
  <2>2. d = Rest(c) /\ u = IF c.spare \in Handles THEN [t EXCEPT ![c.spare] = NULL] ELSE t
    BY <1>13 DEF Does, Saves1, Spares, Unspares, Dup2s, Closes1, Restores1
  <2>3. d.naStd = c.naStd BY <2>2, RestType
  <2>4. \A g : u[g] = t[g] \/ (g = c.spare /\ u[g] = NULL) BY <2>2 DEF Tables
  <2>5. CASE c.at = "unredir"
    <3>1. StdFrom(d, u) BY <1>3, <1>4, <2>4 DEF StdFrom
    <3> QED BY <1>9, <2>5, <3>1
  <2>6. CASE c.at # "unredir" BY <1>10, <1>13, <2>1, <2>3, <2>4, <2>6
  <2> QED BY <2>5, <2>6
<1>14. CASE First(c).f = "restored"
  <2>1. c.at = "unredir" /\ First(c).h \in Std /\ c.naStd[First(c).h] # 0 BY <1>8, <1>14 DEF Fits
  <2>2. c.naStd[First(c).h] \in Handles \ Std BY <2>1 DEF Keeps
  <2>3. u = [t EXCEPT ![c.naStd[First(c).h]] = NULL]
    BY <1>14, <2>2 DEF Does, Saves1, Spares, Unspares, Dup2s, Closes1, Restores1
  <2>4. \A i \in Std : u[i] = t[i] BY <1>5, <2>2, <2>3 DEF Tables
  <2>5. StdFrom(d, u) BY <1>3, <1>4, <2>4 DEF StdFrom
  <2> QED BY <1>9, <2>1, <2>5
<1>15. CASE First(c).f = "close"
  <2>1. d = Rest(c) /\ u = [t EXCEPT ![First(c).h] = NULL]
    BY <1>15 DEF Does, Saves1, Spares, Unspares, Dup2s, Closes1, Restores1
  <2>2. d.naStd = c.naStd BY <2>1, RestType
  <2>3. u[First(c).h] = NULL /\ \A g : g # First(c).h => u[g] = t[g] BY <1>2, <2>1 DEF Tables
  <2>4. CASE First(c).h \notin Std /\ None(c, "move")
    BY <1>10, <1>15, <2>2, <2>3, <2>4 DEF None
  <2>5. CASE c.at = "open" /\ First(c).h \in RedirectedOf(c)
    <3>1. StdFrom(d, u) BY <1>3, <1>4, <2>3 DEF StdFrom
    <3>2. (None(c, "move") <=> None(d, "move")) /\ (None(c, "dup2") <=> None(d, "dup2")) BY <1>1, <1>15 DEF None
    <3>3. First(c).h = STDIN => ~InputKept(c) BY <2>5, InputBegun
    <3>4. InputFlows(d, u) BY <1>3, <1>4, <1>6, <2>2, <2>3, <2>5, <3>3 DEF InputFlows
    <3>5. OutputFlows(d, u) BY <1>3, <1>4, <1>6, <2>3, <2>5, <3>2 DEF OutputFlows
    <3> QED BY <1>3, <2>5, <3>1, <3>4, <3>5 DEF Flows
  <2> QED BY <1>8, <1>15, <2>4, <2>5 DEF Fits
<1>16. CASE First(c).f = "move"
  <2>1. /\ t[First(c).h] # NULL /\ First(c).to \in Std /\ c.at \in {"top", "failed", "redir", "unredir"}
        /\ c.at = "unredir" => t[First(c).h] = c.entry[First(c).to]
    BY <1>8, <1>16 DEF Fits
  <2>2. d = Rest(c) /\ u = [t EXCEPT ![First(c).to] = t[First(c).h]]
    BY <1>16, <2>1 DEF Does, Saves1, Spares, Unspares, Dup2s, Closes1, Restores1
  <2>3. d.naStd = c.naStd BY <2>2, RestType
  <2>4. u[First(c).to] = t[First(c).h] /\ \A g : g # First(c).to => u[g] = t[g] BY <1>2, <2>2 DEF Tables
  <2>5. First(c) \in Elems(c.todo) /\ Elems(d.todo) \subseteq Elems(c.todo) BY <1>1
  <2>6. CASE c.at = "unredir"
    <3>1. StdFrom(d, u) BY <1>3, <1>4, <2>1, <2>4, <2>6 DEF StdFrom
    <3> QED BY <1>9, <2>6, <3>1
  <2>7. CASE c.at \in {"top", "failed"}
    <3>1. MovesTo(c, t, STDIN, c.pszInPipe) BY <1>6, <2>7
    <3>2. First(c).to = STDIN /\ c.pszInPipe # NULL /\ t[First(c).h] = c.pszInPipe BY <1>16, <2>5, <3>1 DEF MovesTo
    <3>3. StdFrom(d, u) BY <1>3, <1>4, <2>4, <3>2 DEF StdFrom, Piped
    <3>4. MovesTo(d, u, STDIN, d.pszInPipe) BY <1>3, <1>5, <2>4, <2>5, <3>1, <3>2 DEF MovesTo
    <3>5. InputFlows(d, u) /\ OutputFlows(d, u)
      BY <1>3, <1>4, <2>4, <2>7, <3>2 DEF InputFlows, OutputFlows, Staged
    <3> QED BY <1>3, <2>7, <3>3, <3>4, <3>5 DEF Flows
  <2>8. CASE c.at = "redir"
    <3>1. MovesTo(c, t, STDOUT, c.pszOutPipe) BY <1>6, <2>8
    <3>2. First(c).to = STDOUT /\ c.pszOutPipe # NULL /\ t[First(c).h] = c.pszOutPipe
      BY <1>16, <2>5, <3>1 DEF MovesTo
    <3>3. StdFrom(d, u) BY <1>3, <1>4, <2>4, <3>2 DEF StdFrom, Piped
    <3>4. MovesTo(d, u, STDOUT, d.pszOutPipe) BY <1>3, <1>5, <2>4, <2>5, <3>1, <3>2 DEF MovesTo
    <3>5. InputFlows(d, u) BY <1>3, <1>4, <1>5, <1>6, <2>3, <2>4, <2>8, <3>2 DEF InputFlows
    <3>6. None(d, "dup2") <=> None(c, "dup2") BY <1>1, <1>16 DEF None
    <3>7. OutputFlows(d, u)
      BY <1>3, <1>4, <1>5, <1>6, <2>4, <2>8, <3>2, <3>6 DEF OutputFlows
    <3> QED BY <1>3, <2>8, <3>3, <3>4, <3>5, <3>7 DEF Flows
  <2> QED BY <2>1, <2>6, <2>7, <2>8
<1>17. CASE First(c).f = "dup2"
  <2>1. First(c) = ErrToOut /\ c.at = "redir" /\ None(c, "move") /\ t[STDOUT] # NULL BY <1>8, <1>17 DEF Fits
  <2>2. d = Rest(c) /\ u = [t EXCEPT ![STDERR] = t[STDOUT]]
    BY <1>8, <1>17, <2>1 DEF Does, Saves1, Spares, Unspares, Dup2s, Closes1, Restores1
  <2>3. d.naStd = c.naStd BY <2>2, RestType
  <2>4. u[STDERR] = t[STDOUT] /\ \A g : g # STDERR => u[g] = t[g] BY <1>5, <2>2 DEF Tables
  <2>5. StdFrom(d, u) BY <1>3, <1>4, <1>5, <2>4 DEF StdFrom
  <2>6. None(d, "move") BY <1>1, <2>1 DEF None
  <2>7. MovesTo(d, u, STDOUT, d.pszOutPipe) BY <2>6 DEF MovesTo, None
  <2>8. InputFlows(d, u) BY <1>3, <1>4, <1>5, <1>6, <2>1, <2>3, <2>4 DEF InputFlows
  <2>9. OutputFlows(d, u) BY <1>3, <1>4, <1>5, <1>6, <2>1, <2>4, <2>6 DEF OutputFlows
  <2> QED BY <1>3, <2>1, <2>5, <2>7, <2>8, <2>9 DEF Flows
<1> QED BY <1>2, <1>11, <1>12, <1>13, <1>14, <1>15, <1>16, <1>17 DEF Calls

-----------------------------------------------------------------------------
(***************************************************************************)
(* The steps of command().                                                 *)
(***************************************************************************)
\* The activations below the one that is changed, or returned to, stay.
LEMMA FlowsFrame ==
  ASSUME FInv, Len(cmds) \in Nat, NEW n \in Nat \ {0}, n <= Len(cmds), Len(cmds') = n,
         \A a \in 1 .. n - 1 : cmds'[a] = cmds[a], NEW d, cmds'[n] = d, d.entry = cmds[n].entry,
         Apart(d, Below(n), fd'), Below(n) \cup Owned(d) \subseteq disk', Flows(d, fd')
  PROVE  FInv'
<1>1. Cur' = d BY DEF Cur
<1>2. \A a \in 1 .. n - 1 : Apart(cmds[a], Below(a), cmds[a + 1].entry)
  <2> TAKE a \in 1 .. n - 1
  <2>1. a \in 1 .. Len(cmds) - 1
    <3>1. PICK m \in Nat : m = Len(cmds) OBVIOUS
    <3> QED BY <3>1
  <2>2. CASE a = Len(cmds) BY <2>1, <2>2
  <2> QED BY <2>1 DEF FInv
<1>3. \A a \in 1 .. n - 1 : cmds'[a + 1].entry = cmds[a + 1].entry
  <2> TAKE a \in 1 .. n - 1
  <2>1. a + 1 = n \/ a + 1 \in 1 .. n - 1 OBVIOUS
  <2>2. CASE a + 1 = n BY <2>2
  <2>3. CASE a + 1 \in 1 .. n - 1 BY <2>3
  <2> QED BY <2>1, <2>2, <2>3
<1>4. \A a \in 1 .. n : Below(a)' = Below(a)
  <2> TAKE a \in 1 .. n
  <2>1. \A b \in 1 .. a - 1 : b \in 1 .. n - 1 OBVIOUS
  <2>2. \A b \in 1 .. a - 1 : cmds'[b] = cmds[b] BY <2>1
  <2>3. {Owned(cmds'[b]) : b \in 1 .. a - 1} = {Owned(cmds[b]) : b \in 1 .. a - 1} BY <2>2
  <2>4. Below(a)' = UNION {Owned(cmds'[b]) : b \in 1 .. a - 1} BY DEF Below, Owned, Piped
  <2>5. Below(a) = UNION {Owned(cmds[b]) : b \in 1 .. a - 1} BY Zenon DEF Below
  <2> QED BY <2>3, <2>4, <2>5
<1>5. \A a \in 1 .. n - 1 : Apart(cmds[a], Below(a), cmds[a + 1].entry)'
  <2> TAKE a \in 1 .. n - 1
  <2>1. a \in 1 .. n OBVIOUS
  <2>2. PICK c, l, t : c = cmds[a] /\ l = Below(a) /\ t = cmds[a + 1].entry OBVIOUS
  <2>3. cmds'[a] = c /\ Below(a)' = l /\ cmds'[a + 1].entry = t BY <1>3, <1>4, <2>1, <2>2
  <2>4. Apart(c, l, t) BY <1>2, <2>2
  <2> QED BY <2>3, <2>4
<1>6. Below(n)' = Below(n) BY <1>4
<1> QED BY <1>1, <1>5, <1>6 DEF FInv

\* A step of the current activation.
LEMMA PutFlows ==
  ASSUME IInv, FInv, NEW d, Put(d), d.entry = Cur.entry, Owned(d) \cap Below(Len(cmds)) = {},
         StdFrom(d, fd'), Names(d), Below(Len(cmds)) \cup Owned(d) \subseteq disk', Flows(d, fd')
  PROVE  FInv'
<1>1. PICK n : n = Len(cmds) OBVIOUS
<1>2. n \in Nat \ {0} /\ cmds \in Seq(Activations) BY <1>1, CurFacts DEF IInv, TypeOK
<1>3. cmds' = [cmds EXCEPT ![n] = d] BY <1>1 DEF Put
<1>4. Len(cmds') = n /\ cmds'[n] = d /\ \A a \in 1 .. n - 1 : cmds'[a] = cmds[a]
  <2> HIDE DEF Activations
  <2> QED BY <1>1, <1>2, <1>3
<1>5. Inherits(d, Below(n)) BY <1>1 DEF FInv, Apart, Inherits
<1>6. Apart(d, Below(n), fd') BY <1>1, <1>5 DEF Apart
<1>7. d.entry = cmds[n].entry BY <1>1 DEF Cur
<1> QED BY <1>1, <1>2, <1>4, <1>6, <1>7, FlowsFrame

\* What is known of the current activation.
LEMMA CurFlows ==
  ASSUME FInv, NEW c, c = Cur, NEW t, t = fd, NEW l, l = Below(Len(cmds))
  PROVE  /\ Owned(c) \cap l = {} /\ Inherits(c, l) /\ StdFrom(c, t) /\ Names(c) /\ l \subseteq disk
         /\ Owned(c) \subseteq disk /\ Flows(c, t)
         /\ (c.at # "done" => Piped(c) \subseteq Owned(c))
<1>1. c.at # "done" => Piped(c) \subseteq Owned(c) BY DEF Owned
<1>2. Apart(c, l, t) BY DEF FInv
<1> QED BY <1>1, <1>2 DEF FInv, Apart

\* Where nothing flows.
LEMMA FlowsAway ==
  ASSUME NEW d, NEW t, d.at \in {"unredir", "openin", "kill", "remove", "done", "ran"}
  PROVE  Flows(d, t)
BY DEF Flows, InputFlows, OutputFlows, Staged

\* A standard handle that is not saved is what it was.
LEMMA UnsavedStd ==
  ASSUME NEW c, NEW t, Keeps(c, t), Unsaved(c, Std), NEW d, d.entry = c.entry
  PROVE  StdFrom(d, t)
BY DEF Keeps, Unsaved, StdFrom

\* unredir() begins.
LEMMA BackFlows ==
  ASSUME IInv, FInv, Cur.at # "done", NEW e \in Activations, e.entry = Cur.entry, e.pszInPipe = Cur.pszInPipe,
         e.pszOutPipe = Cur.pszOutPipe, e.fPipeOpen => Cur.fPipeOpen /\ Cur.at # "openin",
         NEW then \in {"top", "failed", "kill"}, Put(Unredir(e, then)), fd' = fd,
         Below(Len(cmds)) \cup Piped(Cur) \subseteq disk'
  PROVE  FInv'
<1>1. PICK c, t, l, d : c = Cur /\ t = fd /\ l = Below(Len(cmds)) /\ d = Unredir(e, then) OBVIOUS
<1>2. /\ d.at = "unredir" /\ d.entry = e.entry /\ d.pszInPipe = e.pszInPipe /\ d.pszOutPipe = e.pszOutPipe
      /\ d.fPipeOpen = e.fPipeOpen
  <2>1. PICK q : q = Restores(e) OBVIOUS
  <2>2. d = [e EXCEPT !.at = "unredir", !.then = then, !.todo = q] BY <1>1, <2>1, Zenon DEF Unredir
  <2> QED BY <2>2 DEF Activations
<1>3. Owned(c) \cap l = {} /\ StdFrom(c, t) /\ Names(c) /\ Piped(c) \subseteq Owned(c) BY <1>1, CurFlows
<1>4. Piped(d) = Piped(c) BY <1>1, <1>2 DEF Piped
<1>5. Owned(d) = Piped(c) BY <1>2, <1>4 DEF Owned
<1>6. StdFrom(d, t) BY <1>1, <1>2, <1>3, <1>4 DEF StdFrom
<1>7. Names(d) BY <1>1, <1>2, <1>3 DEF Names
<1>8. Flows(d, t) BY <1>2, FlowsAway
<1>9. Owned(d) \cap l = {} /\ l \cup Owned(d) \subseteq disk' BY <1>1, <1>3, <1>5
<1>10. Put(d) /\ d.entry = Cur.entry BY <1>1, <1>2
<1> QED BY <1>1, <1>6, <1>7, <1>8, <1>9, <1>10, PutFlows

\* Everything that leaves the loop of command(), or fails.
LEMMA FailingFlows ==
  ASSUME IInv, FInv, \/ TopEnd \/ TopFails \/ CreatePipeFails \/ RedirBadName \/ RedirFailed \/ RunRaises
                     \/ OpenPipeFails \/ Interrupt
                     \/ UnredirOpenFails /\ Put(Aborts(Cur))
  PROVE  FInv'
<1>1. Put(Break(Cur)) \/ Put(Fails(Cur)) \/ Put(Aborts(Cur))
  BY Zenon DEF TopEnd, TopFails, CreatePipeFails, OpenPipeFails, RedirBadName, RedirFailed, RunRaises, Interrupt
<1>2. fd' = fd
  BY DEF TopEnd, TopFails, CreatePipeFails, OpenPipeFails, RedirBadName, RedirFailed, RunRaises, Interrupt,
         UnredirOpenFails, Error
<1>3. disk' = disk \/ (OpenPipeFails /\ disk' = disk \ {Cur.file})
  BY DEF TopEnd, TopFails, CreatePipeFails, OpenPipeFails, RedirBadName, RedirFailed, RunRaises, Interrupt,
         UnredirOpenFails
<1>4. Cur.at # "done"
  <2>1. CASE Interrupt
    <3>1. InDos BY <2>1 DEF Interrupt
    <3>2. PICK c, t : c = Cur /\ t = fd OBVIOUS
    <3>3. PICK s \in SUBSET (HandlesOrNone) : Doing(c, t, s) BY <3>2 DEF IInv
    <3>4. c.at = "done" => c.todo = <<>> BY <3>3 DEF Doing
    <3> QED BY <3>1, <3>2, <3>4 DEF InDos
  <2>2. CASE ~Interrupt
    BY <2>2 DEF TopEnd, TopFails, CreatePipeFails, OpenPipeFails, RedirBadName, RedirFailed, RunRaises,
                UnredirOpenFails, Ready, More, At
  <2> QED BY <2>1, <2>2
<1>5. PICK c, l : c = Cur /\ l = Below(Len(cmds)) OBVIOUS
<1>6. c \in Activations BY <1>5, CurFacts
<1>7. /\ Owned(c) \cap l = {} /\ Names(c) /\ l \subseteq disk /\ Owned(c) \subseteq disk
      /\ Piped(c) \subseteq Owned(c)
  BY <1>4, <1>5, CurFlows
<1>8. l \cup Piped(c) \subseteq disk'
  <2>1. ASSUME OpenPipeFails PROVE c.file \in Owned(c) /\ c.file \notin Piped(c)
    <3>1. c.at = "openpipe" BY <1>5, <2>1 DEF OpenPipeFails, At
    <3>2. c.file \in Owned(c) BY <3>1 DEF Owned
    <3> QED BY <1>7, <3>1, <3>2 DEF Names, Piped
  <2> QED BY <1>3, <1>5, <1>7, <2>1
<1>9. \E e \in Activations : /\ e.entry = c.entry /\ e.pszInPipe = c.pszInPipe /\ e.pszOutPipe = c.pszOutPipe
                             /\ e.fPipeOpen = FALSE /\ Put(Unredir(e, "kill"))
  <2>1. ASSUME NEW r \in {"0", "error", "ctrlc", "abort"}, Put(Break([c EXCEPT !.ret = r]))
        PROVE  \E e \in Activations : /\ e.entry = c.entry /\ e.pszInPipe = c.pszInPipe
                                      /\ e.pszOutPipe = c.pszOutPipe
                                      /\ e.fPipeOpen = FALSE /\ Put(Unredir(e, "kill"))
    <3>1. PICK a : a = [c EXCEPT !.ret = r] OBVIOUS
    <3>2. a \in Activations /\ a.entry = c.entry /\ a.pszInPipe = c.pszInPipe /\ a.pszOutPipe = c.pszOutPipe
      BY <1>6, <3>1 DEF Activations
    <3>3. PICK e : e = [a EXCEPT !.fPipeOpen = FALSE] OBVIOUS
    <3>4. /\ e \in Activations /\ e.entry = a.entry /\ e.pszInPipe = a.pszInPipe /\ e.pszOutPipe = a.pszOutPipe
          /\ e.fPipeOpen = FALSE
      BY <3>2, <3>3 DEF Activations
    <3>5. Put(Unredir(e, "kill")) BY <2>1, <3>1, <3>3 DEF Break
    <3> QED BY <3>2, <3>4, <3>5
  <2>2. CASE Put(Break(Cur))
    <3>1. PICK r \in {"0", "error", "ctrlc", "abort"} : r = c.ret BY <1>6 DEF Activations
    <3>2. c = [c EXCEPT !.ret = r] BY <1>6, <3>1 DEF Activations
    <3>3. Put(Break([c EXCEPT !.ret = r])) BY <1>5, <2>2, <3>2
    <3> QED BY <2>1, <3>3
  <2>3. CASE Put(Fails(Cur)) BY <1>5, <2>1, <2>3 DEF Fails
  <2>4. CASE Put(Aborts(Cur)) BY <1>5, <2>1, <2>4 DEF Aborts
  <2> QED BY <1>1, <2>2, <2>3, <2>4
<1>10. PICK e \in Activations : /\ e.entry = c.entry /\ e.pszInPipe = c.pszInPipe /\ e.pszOutPipe = c.pszOutPipe
                                /\ e.fPipeOpen = FALSE /\ Put(Unredir(e, "kill"))
  BY <1>9
<1> QED BY <1>2, <1>4, <1>5, <1>8, <1>10, BackFlows

\* One DOS call of the queue.
LEMMA CallKeepsFlows ==
  ASSUME IInv, FInv, NeverFull, DosCall
  PROVE  FInv'
<1>1. PICK c, t, u, l : c = Cur /\ t = fd /\ u = fd' /\ l = Below(Len(cmds)) OBVIOUS
<1>2. c \in Activations /\ t \in Tables /\ Keeps(c, t) BY <1>1, CurFacts
<1>3. c.todo # <<>> /\ disk' = disk /\ \E d : Put(d) /\ Does(c, t, d, u) BY <1>1, <1>2, DosCallIs
<1>4. PICK d : Put(d) /\ Does(c, t, d, u) BY <1>3
<1>5. PICK s \in SUBSET (HandlesOrNone) : Doing(c, t, s) BY <1>1 DEF IInv
<1>6. Fits(c, t) BY <1>2, <1>3, <1>5, CallFits
<1>7. /\ Owned(c) \cap l = {} /\ StdFrom(c, t) /\ Names(c) /\ l \subseteq disk /\ Owned(c) \subseteq disk
      /\ Flows(c, t)
  BY <1>1, CurFlows
<1>8. c.at = "open" => InLine(c) /\ c.n \in DOMAIN IOOf(c) BY <1>5 DEF Doing
<1>9. StdFrom(d, u) /\ Flows(d, u) BY <1>2, <1>3, <1>4, <1>6, <1>7, <1>8, CallFlows
<1>10. Alike(c, d) BY <1>2, <1>3, <1>4, <1>6, CallPops
<1>11. Owned(d) = Owned(c) /\ Names(d) /\ d.entry = c.entry BY <1>7, <1>10, AlikeFacts DEF Alike, Same
<1> QED BY <1>1, <1>3, <1>4, <1>7, <1>9, <1>11, PutFlows

\* A step that leaves the files and the handles as they are.
Alongside(c, d) == /\ d.entry = c.entry /\ d.pszInPipe = c.pszInPipe /\ d.pszOutPipe = c.pszOutPipe
                   /\ d.fPipeOpen => c.fPipeOpen /\ c.at # "openin"
                   /\ d.at \notin {"openin", "openpipe"} /\ c.at # "done"

LEMMA StayFlows ==
  ASSUME IInv, FInv, NEW d, Put(d), Alongside(Cur, d), fd' = fd, disk' = disk, Flows(d, fd)
  PROVE  FInv'
<1>1. PICK c, t, l : c = Cur /\ t = fd /\ l = Below(Len(cmds)) OBVIOUS
<1>2. /\ d.entry = c.entry /\ d.pszInPipe = c.pszInPipe /\ d.pszOutPipe = c.pszOutPipe
      /\ d.fPipeOpen => c.fPipeOpen /\ c.at # "openin"
      /\ d.at \notin {"openin", "openpipe"} /\ c.at # "done"
  BY <1>1 DEF Alongside
<1>3. /\ Owned(c) \cap l = {} /\ StdFrom(c, t) /\ Names(c) /\ l \subseteq disk /\ Owned(c) \subseteq disk
      /\ Piped(c) \subseteq Owned(c)
  BY <1>1, <1>2, CurFlows
<1>4. Piped(d) = Piped(c) BY <1>2 DEF Piped
<1>5. Owned(d) \subseteq Owned(c) BY <1>2, <1>3, <1>4 DEF Owned
<1>6. StdFrom(d, t) BY <1>2, <1>3, <1>4 DEF StdFrom
<1>7. Names(d) BY <1>2, <1>3 DEF Names
<1> QED BY <1>1, <1>2, <1>3, <1>5, <1>6, <1>7, PutFlows

\* Nothing is queued.
LEMMA NoneQueued ==
  ASSUME NEW c, c.todo = <<>>
  PROVE  /\ \A f : None(c, f)
         /\ \A t, i, p : MovesTo(c, t, i, p)
<1>1. Elems(c.todo) = {} BY DEF Elems
<1> QED BY <1>1 DEF None, MovesTo

LEMMA TopFlows ==
  ASSUME IInv, FInv, TopSkip \/ TopStart
  PROVE  FInv'
<1>1. PICK c, t : c = Cur /\ t = fd OBVIOUS
<1>2. c.at = "top" /\ c.todo = <<>> BY <1>1 DEF TopSkip, TopStart, Ready, At
<1>3. c \in Activations /\ Plain(c) BY <1>1, <1>2, CurFacts, CurIdle DEF Idle
<1>4. fd' = fd /\ disk' = disk BY DEF TopSkip, TopStart
<1>5. c.naStd[STDIN] # 0 => t[STDIN] = c.pszInPipe
  <2>1. InputFlows(c, t) BY <1>1, CurFlows DEF Flows
  <2> QED BY <1>2, <2>1, NoneQueued DEF InputFlows
<1>6. ASSUME NEW d, Put(d), d.at \in {"top", "pipe", "redir"}, d.todo = <<>>, d.naStd = c.naStd, d.entry = c.entry,
             d.pszInPipe = c.pszInPipe, d.pszOutPipe = c.pszOutPipe, d.fPipeOpen = c.fPipeOpen
      PROVE  FInv'
  <2>1. d.fPipeOpen = FALSE BY <1>3, <1>6 DEF Plain, Activations
  <2>2. InputFlows(d, t) BY <1>5, <1>6 DEF InputFlows
  <2>3. OutputFlows(d, t) BY <2>1 DEF OutputFlows
  <2>4. Flows(d, t) BY <1>6, <2>2, <2>3, NoneQueued DEF Flows
  <2>5. Alongside(c, d) BY <1>2, <1>6, <2>1 DEF Alongside
  <2> QED BY <1>1, <1>4, <1>6, <2>4, <2>5, StayFlows
<1>7. CASE TopSkip
  <2>1. PICK k : k = AfterSep(c.line, c.k) OBVIOUS
  <2>2. PICK d : d = [c EXCEPT !.k = k, !.empty = FALSE] OBVIOUS
  <2>3. Put(d) BY <1>1, <1>7, <2>1, <2>2 DEF TopSkip
  <2>4. /\ d.entry = c.entry /\ d.naStd = c.naStd /\ d.todo = <<>> /\ d.at = "top" /\ d.fPipeOpen = c.fPipeOpen
        /\ d.pszInPipe = c.pszInPipe /\ d.pszOutPipe = c.pszOutPipe
    BY <1>2, <1>3, <2>2 DEF Activations
  <2> QED BY <1>6, <2>3, <2>4
<1>8. CASE TopStart
  <2>1. PICK p : p = IF Sep \in PipeSeps THEN "pipe" ELSE "redir" OBVIOUS
  <2>2. PICK d : d = [c EXCEPT !.at = p, !.n = 1, !.ret = "0"] OBVIOUS
  <2>3. Put(d) BY <1>1, <1>8, <2>1, <2>2, Zenon DEF TopStart
  <2>4. p \in {"pipe", "redir"} BY <2>1
  <2>5. /\ d.entry = c.entry /\ d.naStd = c.naStd /\ d.todo = <<>> /\ d.at = p /\ d.fPipeOpen = c.fPipeOpen
        /\ d.pszInPipe = c.pszInPipe /\ d.pszOutPipe = c.pszOutPipe
    BY <1>2, <1>3, <2>2 DEF Activations
  <2> QED BY <1>6, <2>3, <2>4, <2>5
<1> QED BY <1>7, <1>8

\* UniqueFileName() makes a file that no activation has.
LEMMA CreatingFlows ==
  ASSUME IInv, FInv, CreatePipe
  PROVE  FInv'
<1>1. PICK c, t, l : c = Cur /\ t = fd /\ l = Below(Len(cmds)) OBVIOUS
<1>2. c.at = "pipe" /\ c.todo = <<>> /\ c \in Activations BY <1>1, CurFacts, Zenon DEF CreatePipe, At
<1>3. Plain(c) BY <1>1, <1>2, CurIdle DEF Idle
<1>4. PICK p \in Pipes \ disk : disk' = disk \cup {p} /\ Put([Cur EXCEPT !.at = "openpipe", !.file = p])
  BY Zenon DEF CreatePipe
<1>5. PICK d : d = [c EXCEPT !.at = "openpipe", !.file = p] OBVIOUS
<1>6. /\ d.at = "openpipe" /\ d.file = p /\ d.entry = c.entry /\ d.naStd = c.naStd /\ d.todo = <<>>
      /\ d.fPipeOpen = c.fPipeOpen /\ d.pszInPipe = c.pszInPipe /\ d.pszOutPipe = c.pszOutPipe
  BY <1>2, <1>5 DEF Activations
<1>7. /\ Owned(c) \cap l = {} /\ StdFrom(c, t) /\ l \subseteq disk /\ Owned(c) \subseteq disk
      /\ Piped(c) = Owned(c) /\ Flows(c, t)
  BY <1>1, <1>2, CurFlows DEF Owned
<1>8. Piped(d) = Piped(c) BY <1>6 DEF Piped
<1>9. Owned(d) = Piped(c) \cup {p} BY <1>6, <1>8 DEF Owned
<1>10. p # NULL /\ p # c.pszInPipe /\ p # c.pszOutPipe
  <2>1. p # NULL BY NullAssumption
  <2> QED BY <1>7, <2>1 DEF Piped
<1>11. d.fPipeOpen = FALSE BY <1>2, <1>3, <1>6 DEF Plain, Activations
<1>12. Names(d) BY <1>6, <1>10, <1>11 DEF Names
<1>13. StdFrom(d, t) BY <1>6, <1>7, <1>8 DEF StdFrom
<1>14. c.naStd[STDIN] # 0 => t[STDIN] = c.pszInPipe BY <1>2, <1>7 DEF Flows, InputFlows
<1>15. Flows(d, t) BY <1>6, <1>11, <1>14 DEF Flows, InputFlows, OutputFlows
<1>16. Owned(d) \cap l = {} /\ l \cup Owned(d) \subseteq disk' BY <1>4, <1>7, <1>9
<1>17. Put(d) /\ d.entry = Cur.entry BY <1>1, <1>4, <1>5, <1>6
<1>18. fd' = t
  <2>1. UNCHANGED <<fd, flow>> BY Zenon DEF CreatePipe
  <2> QED BY <1>1, <2>1
<1> QED BY <1>1, <1>12, <1>13, <1>15, <1>16, <1>17, <1>18, PutFlows

\* The end of unredir(), and killpipes().
LEMMA EndingFlows ==
  ASSUME IInv, FInv, \/ UnredirDone \/ UnredirNext \/ Kill \/ Remove
                     \/ UnredirOpenFails /\ ~Put(Aborts(Cur))
  PROVE  FInv'
<1>1. PICK c, t, l : c = Cur /\ t = fd /\ l = Below(Len(cmds)) OBVIOUS
<1>2. /\ c.todo = <<>> /\ c \in Activations /\ c.at \in {"unredir", "openin", "kill", "remove"} /\ Keeps(c, t)
      /\ disk \subseteq Pipes
  BY <1>1, CurFacts, Zenon DEF UnredirDone, UnredirNext, Kill, Remove, UnredirOpenFails, At
<1>3. /\ Unsaved(c, Std) /\ (c.at = "unredir" => c.then \in {"top", "failed", "kill"})
      /\ (c.at = "openin" => c.then \in {"top", "failed"})
  BY <1>1, <1>2, CurIdle DEF Idle
<1>4. fd' = t
  <2>1. UNCHANGED <<fd, flow>> \/ UNCHANGED <<fd, disk, flow>> \/ UNCHANGED <<fd, disk, iff, signals, breaks>>
    BY Zenon DEF UnredirDone, UnredirNext, Kill, Remove, UnredirOpenFails
  <2> QED BY <1>1, <2>1
<1>5. /\ Owned(c) \cap l = {} /\ Names(c) /\ l \subseteq disk /\ Owned(c) \subseteq disk /\ Piped(c) = Owned(c)
      /\ StdFrom(c, t)
  BY <1>1, <1>2, CurFlows DEF Owned
<1>6. c.naStd[STDIN] = 0 BY <1>3 DEF Unsaved, Std
<1>7. ASSUME NEW d, d.at \in {"top", "failed", "kill", "remove", "done"}, d.naStd = c.naStd, d.todo = <<>>
      PROVE  Flows(d, t)
  <2>1. InputFlows(d, t) BY <1>6, <1>7 DEF InputFlows
  <2>2. OutputFlows(d, t) BY <1>7 DEF OutputFlows, Staged
  <2> QED BY <1>7, <2>1, <2>2, NoneQueued DEF Flows
<1>8. CASE UnredirDone \/ Kill
  <2>1. disk' = disk
    <3>1. UNCHANGED <<fd, disk, flow>> BY <1>8, Zenon DEF UnredirDone, Kill
    <3> QED BY <3>1
  <2>2. PICK p, b : p = (IF UnredirDone THEN c.then ELSE IF c.fIsPiped THEN "remove" ELSE "done")
                    /\ b = IF UnredirDone THEN c.fIsPiped ELSE FALSE
    OBVIOUS
  <2>3. PICK d : d = [c EXCEPT !.at = p, !.fIsPiped = b] OBVIOUS
  <2>4. p \in {"top", "failed", "kill", "remove", "done"}
    BY <1>1, <1>3, <2>2 DEF UnredirDone, At
  <2>5. Put(d)
    <3>1. CASE UnredirDone
      <4>1. [c EXCEPT !.at = p] = d BY <1>2, <2>2, <2>3, <3>1 DEF Activations
      <4> QED BY <1>1, <2>2, <3>1, <4>1 DEF UnredirDone
    <3>2. CASE ~UnredirDone BY <1>1, <1>8, <2>2, <2>3, <3>2 DEF Kill
    <3> QED BY <3>1, <3>2
  <2>6. /\ d.entry = c.entry /\ d.naStd = c.naStd /\ d.todo = <<>> /\ d.at = p /\ d.fPipeOpen = c.fPipeOpen
        /\ d.pszInPipe = c.pszInPipe /\ d.pszOutPipe = c.pszOutPipe
    BY <1>2, <2>3 DEF Activations
  <2>7. c.at # "openin" BY <1>1, <1>8 DEF UnredirDone, Kill, At
  <2>8. Alongside(c, d) BY <1>2, <2>4, <2>6, <2>7 DEF Alongside
  <2> QED BY <1>1, <1>4, <1>7, <2>1, <2>4, <2>5, <2>6, <2>8, StayFlows
<1>9. CASE UnredirOpenFails /\ ~Put(Aborts(Cur))
  <2>1. disk' = disk
    <3>1. UNCHANGED <<fd, disk, iff, signals, breaks>> BY <1>9, Zenon DEF UnredirOpenFails
    <3> QED BY <3>1
  <2>2. Put([Cur EXCEPT !.at = Cur.then, !.fPipeOpen = FALSE]) BY <1>9, Zenon DEF UnredirOpenFails
  <2>3. PICK d : d = [c EXCEPT !.at = c.then, !.fPipeOpen = FALSE] OBVIOUS
  <2>4. /\ d.entry = c.entry /\ d.naStd = c.naStd /\ d.todo = <<>> /\ d.at = c.then /\ d.fPipeOpen = FALSE
        /\ d.pszInPipe = c.pszInPipe /\ d.pszOutPipe = c.pszOutPipe
    BY <1>2, <2>3 DEF Activations
  <2>5. c.at = "openin" BY <1>1, <1>9 DEF UnredirOpenFails, At
  <2>6. Alongside(c, d) BY <1>3, <2>4, <2>5 DEF Alongside
  <2>7. Put(d) BY <1>1, <2>2, <2>3
  <2>8. d.at \in {"top", "failed"} BY <1>3, <2>4, <2>5
  <2> QED BY <1>1, <1>4, <1>7, <2>1, <2>4, <2>6, <2>7, <2>8, StayFlows
<1>10. CASE UnredirNext
  <2>1. c.at = "unredir" /\ c.fPipeOpen /\ disk' = disk \ {c.pszInPipe} BY <1>1, <1>10 DEF UnredirNext, At
  <2>2. PICK d : d = [c EXCEPT !.at = "openin", !.pszInPipe = c.pszOutPipe] OBVIOUS
  <2>3. Put(d) BY <1>1, <1>10, <2>2 DEF UnredirNext
  <2>4. /\ d.entry = c.entry /\ d.at = "openin" /\ d.pszInPipe = c.pszOutPipe /\ d.pszOutPipe = c.pszOutPipe
    BY <1>2, <2>2 DEF Activations
  <2>5. c.pszOutPipe # NULL /\ c.pszOutPipe # c.pszInPipe BY <1>5, <2>1 DEF Names
  <2>6. Owned(d) = {c.pszOutPipe} BY <2>4, <2>5 DEF Owned, Piped
  <2>7. c.pszOutPipe \in Owned(c) BY <1>5, <2>5 DEF Piped
  <2>8. c.pszInPipe \notin l
    <3>1. CASE c.pszInPipe = NULL BY <1>2, <1>5, <3>1, NullAssumption
    <3>2. CASE c.pszInPipe # NULL BY <1>5, <3>2 DEF Piped
    <3> QED BY <3>1, <3>2
  <2>9. Names(d) BY <2>4 DEF Names
  <2>10. StdFrom(d, t) BY <1>2, <1>3, <2>4, UnsavedStd
  <2>11. Flows(d, t) BY <2>4, FlowsAway
  <2>12. Owned(d) \cap l = {} /\ l \cup Owned(d) \subseteq disk' BY <1>5, <2>1, <2>5, <2>6, <2>7, <2>8
  <2> QED BY <1>1, <1>4, <2>3, <2>4, <2>9, <2>10, <2>11, <2>12, PutFlows
<1>11. CASE Remove
  <2>1. disk' = disk \ {c.pszInPipe} /\ c.at = "remove" BY <1>1, <1>11 DEF Remove, At
  <2>2. PICK d : d = [c EXCEPT !.at = "done"] OBVIOUS
  <2>3. Put(d) BY <1>1, <1>11, <2>2 DEF Remove
  <2>4. /\ d.entry = c.entry /\ d.at = "done" /\ d.pszInPipe = c.pszInPipe /\ d.pszOutPipe = c.pszOutPipe
        /\ d.fPipeOpen = c.fPipeOpen
    BY <1>2, <2>2 DEF Activations
  <2>5. Owned(d) = {} BY <2>4 DEF Owned
  <2>6. c.pszInPipe \notin l
    <3>1. CASE c.pszInPipe = NULL BY <1>2, <1>5, <3>1, NullAssumption
    <3>2. CASE c.pszInPipe # NULL BY <1>5, <3>2 DEF Piped
    <3> QED BY <3>1, <3>2
  <2>7. Names(d) BY <1>5, <2>1, <2>4 DEF Names
  <2>8. StdFrom(d, t) BY <1>2, <1>3, <2>4, UnsavedStd
  <2>9. Flows(d, t) BY <2>4, FlowsAway
  <2>10. Owned(d) \cap l = {} /\ l \cup Owned(d) \subseteq disk' BY <1>5, <2>1, <2>5, <2>6
  <2> QED BY <1>1, <1>4, <2>3, <2>4, <2>7, <2>8, <2>9, <2>10, PutFlows
<1> QED BY <1>8, <1>9, <1>10, <1>11

\* The stage in d is that in c, with the same input and output.
SameStage(c, d) == /\ d.line = c.line /\ d.k = c.k /\ d.empty = c.empty /\ d.naStd = c.naStd /\ d.entry = c.entry
                   /\ d.fPipeOpen = c.fPipeOpen /\ d.pszInPipe = c.pszInPipe /\ d.pszOutPipe = c.pszOutPipe

LEMMA SameStageFacts ==
  ASSUME NEW c, NEW d, SameStage(c, d)
  PROVE  IOOf(d) = IOOf(c) /\ (BothPiped(d) <=> BothPiped(c))
<1>1. OpOf(d) = OpOf(c) BY Zenon DEF SameStage, OpOf
<1> QED BY <1>1, Zenon DEF SameStage, IOOf, BothPiped

\* The output of a stage is not among the handles that redir() finds free.
LEMMA PipedSaved ==
  ASSUME NEW c, NEW t, NEW l, Keeps(c, t), Inherits(c, l), Owned(c) \cap l = {}, c.pszOutPipe \in Pipes,
         c.pszOutPipe \in Owned(c), NEW i \in Std, t[i] = c.pszOutPipe
  PROVE  c.naStd[i] # 0
<1>1. SUFFICES ASSUME c.naStd[i] = 0 PROVE FALSE OBVIOUS
<1>2. t[i] = c.entry[i] BY <1>1 DEF Keeps
<1>3. c.entry[i] \in l BY <1>2 DEF Inherits
<1> QED BY <1>2, <1>3

\* redir(), but for the opening of files.
LEMMA RedirFlows ==
  ASSUME IInv, FInv, \/ RedirDone \/ RedirAssigned \/ RedirSave
                     \/ RedirOpenFails /\ Redirected = {STDIN}
  PROVE  FInv'
<1>1. PICK c, t, l : c = Cur /\ t = fd /\ l = Below(Len(cmds)) OBVIOUS
<1>2. c \in Activations /\ t \in Tables /\ Keeps(c, t) /\ c.at \in {"redir", "open"} /\ c.todo = <<>>
  BY <1>1, CurFacts, Zenon DEF RedirDone, RedirAssigned, RedirSave, RedirOpenFails, More, At
<1>3. fd' = fd /\ disk' = disk
  <2>1. UNCHANGED <<fd, disk, flow>> BY Zenon DEF RedirDone, RedirAssigned, RedirSave, RedirOpenFails
  <2> QED BY <2>1
<1>4. Owned(c) \cap l = {} /\ Inherits(c, l) /\ Names(c) /\ Flows(c, t) /\ Piped(c) = Owned(c)
  BY <1>1, <1>2, CurFlows DEF Owned
<1>5. /\ c.fPipeOpen => t[STDOUT] = c.pszOutPipe /\ (BothPiped(c) => t[STDERR] = c.pszOutPipe)
      /\ InputKept(c) /\ c.naStd[STDIN] # 0 => t[STDIN] = c.pszInPipe
  <2>1. InputFlows(c, t) /\ OutputFlows(c, t) /\ Staged(c) BY <1>2, <1>4 DEF Flows, Staged
  <2> QED BY <1>2, <2>1, NoneQueued DEF InputFlows, OutputFlows
<1>6. ASSUME NEW d, Put(d), SameStage(c, d), d.at \in {"run", "open", "failed"}, Flows(d, t)
      PROVE  FInv'
  <2>1. Alongside(c, d) BY <1>2, <1>6 DEF SameStage, Alongside
  <2> QED BY <1>1, <1>3, <1>6, <2>1, StayFlows
<1>7. CASE RedirDone
  <2>1. c.at = "redir" /\ c.n > Len(IOOf(c)) BY <1>1, <1>7, OpIs DEF RedirDone, At
  <2>2. PICK d : d = [c EXCEPT !.at = "run"] OBVIOUS
  <2>3. Put(d) BY <1>1, <1>7, <2>2 DEF RedirDone
  <2>4. SameStage(c, d) /\ d.at = "run" /\ d.n = c.n BY <1>2, <2>2 DEF Activations, SameStage
  <2>5. InputKept(d) => InputKept(c) BY <2>1, <2>4, SameStageFacts DEF InputKept, Begun
  <2>6. InputFlows(d, t) BY <1>5, <2>4, <2>5 DEF InputFlows, SameStage
  <2>7. OutputFlows(d, t) BY <1>5, <2>4, SameStageFacts DEF OutputFlows, SameStage
  <2>8. Flows(d, t) BY <2>4, <2>6, <2>7 DEF Flows
  <2> QED BY <1>6, <2>3, <2>4, <2>8
<1>8. CASE RedirAssigned
  <2>1. PICK before : before = {i \in Redirected : \A j \in Assigned : i < j} OBVIOUS
  <2>2. Put([c EXCEPT !.at = "failed", !.todo = Saves(before)]) /\ Assigned # {} /\ More
    BY <1>1, <1>8, <2>1, Zenon DEF RedirAssigned
  <2>3. before \in {{}, {STDOUT}}
    <3>1. Redirected \in {{STDIN}, {STDOUT}, {STDOUT, STDERR}, {STDERR}} BY <1>1, <1>2, <2>2, MoreFacts
    <3>2. Assigned \subseteq Redirected BY DEF Assigned
    <3> QED BY <2>1, <2>2, <3>1, <3>2 DEF STDIN, STDOUT, STDERR
  <2>4. PICK q : q = Saves(before) OBVIOUS
  <2>5. PICK w : w = Call("save", STDOUT) OBVIOUS
  <2>6. q = <<>> \/ q = <<w>> BY <2>3, <2>4, <2>5, SavesAre
  <2>7. \A x \in Elems(q) : x.f # "move" BY <2>5, <2>6 DEF Elems, Call
  <2>8. PICK d : d = [c EXCEPT !.at = "failed", !.todo = q] OBVIOUS
  <2>9. SameStage(c, d) /\ d.at = "failed" /\ d.todo = q BY <1>2, <2>8 DEF Activations, SameStage
  <2>10. MovesTo(d, t, STDIN, d.pszInPipe) BY <2>7, <2>9 DEF MovesTo
  <2>11. Flows(d, t) BY <2>9, <2>10 DEF Flows, InputFlows, OutputFlows, Staged
  <2>12. Put(d) BY <2>2, <2>4, <2>8
  <2> QED BY <1>6, <2>9, <2>11, <2>12
<1>9. CASE RedirSave
  <2>1. PICK q : q = Saves(Redirected) \o Closes(Redirected) OBVIOUS
  <2>2. Put([c EXCEPT !.at = "open", !.todo = q]) /\ Assigned = {} /\ More
    BY <1>1, <1>9, <2>1, Zenon DEF RedirSave
  <2>3. c.at = "redir" BY <1>1, <2>2 DEF More, At
  <2>4. Redirected = RedirectedOf(c) BY <1>1, OpIs
  <2>5. \A i \in RedirectedOf(c) : c.naStd[i] = 0 BY <1>1, <2>2, <2>4 DEF Assigned
  <2>6. PICK d : d = [c EXCEPT !.at = "open", !.todo = q] OBVIOUS
  <2>7. SameStage(c, d) /\ d.at = "open" /\ d.n = c.n BY <1>2, <2>6 DEF Activations, SameStage
  <2>8. InputKept(d) => InputKept(c)
    <3>1. c.n \in Nat BY <1>2 DEF Activations
    <3>2. IOOf(d) = IOOf(c) BY <2>7, SameStageFacts
    <3>3. Begun(c) \subseteq Begun(d)
      <4>1. ASSUME NEW j \in Begun(c) PROVE j \in Begun(d)
        <5>1. j \in DOMAIN IOOf(c) /\ j < c.n BY <2>3, <4>1 DEF Begun
        <5>2. j <= c.n
          <6>1. j \in Nat
            <7>1. InLine(c) BY <1>1, <1>2, <2>2, MoreFacts
            <7>2. IOOf(c) \in Seq(DOMAIN Targets)
              <8>1. c.line[c.k] \in Stages BY <1>2, <7>1, LineFacts
              <8>2. c.line[c.k].io \in Seq(DOMAIN Targets) BY <8>1, Zenon DEF Stages
              <8>3. CASE OpOf(c) \in {"cmd", "group"} BY <8>2, <8>3, Zenon DEF IOOf
              <8>4. CASE OpOf(c) \notin {"cmd", "group"}
                <9>1. IOOf(c) = <<>> BY <8>4, Zenon DEF IOOf
                <9> QED BY <9>1, EmptySequence, Zenon
              <8> QED BY <8>3, <8>4
            <7>3. PICK io \in Seq(DOMAIN Targets) : io = IOOf(c) BY <7>2
            <7> QED BY <5>1, <7>3
          <6> QED BY <3>1, <5>1, <6>1
        <5> QED BY <2>7, <3>2, <5>1, <5>2 DEF Begun
      <4> QED BY <4>1
    <3> QED BY <3>2, <3>3 DEF InputKept
  <2>9. InputFlows(d, t) BY <1>5, <2>7, <2>8 DEF InputFlows, SameStage
  <2>10. RedirectedOf(d) = RedirectedOf(c) BY <2>7, SameStageFacts, Zenon DEF RedirectedOf
  <2>11. ASSUME c.fPipeOpen
         PROVE  STDOUT \notin RedirectedOf(c) /\ (BothPiped(c) => STDERR \notin RedirectedOf(c))
    <3>1. c.pszOutPipe \in Pipes /\ c.pszOutPipe \in Owned(c)
      <4>1. c.pszOutPipe # NULL BY <1>2, <1>4, <2>11 DEF Names
      <4> QED BY <1>2, <1>4, <4>1 DEF Piped, Activations
    <3>2. STDOUT \in Std /\ STDERR \in Std BY DEF Std
    <3>3. t[STDOUT] = c.pszOutPipe => c.naStd[STDOUT] # 0 BY <1>2, <1>4, <3>1, <3>2, PipedSaved
    <3>4. t[STDERR] = c.pszOutPipe => c.naStd[STDERR] # 0 BY <1>2, <1>4, <3>1, <3>2, PipedSaved
    <3> QED BY <1>5, <2>5, <2>11, <3>3, <3>4
  <2>12. OutputFlows(d, t) BY <1>5, <2>7, <2>10, <2>11, SameStageFacts DEF OutputFlows, SameStage
  <2>13. Flows(d, t) BY <2>7, <2>9, <2>12 DEF Flows
  <2>14. Put(d) BY <2>2, <2>6
  <2> QED BY <1>6, <2>7, <2>13, <2>14
<1>10. CASE RedirOpenFails /\ Redirected = {STDIN}
  <2>1. PICK d : d = [c EXCEPT !.at = "failed"] OBVIOUS
  <2>2. Put(d) BY <1>1, <1>10, <2>1 DEF RedirOpenFails
  <2>3. SameStage(c, d) /\ d.at = "failed" /\ d.todo = <<>> BY <1>2, <2>1 DEF Activations, SameStage
  <2>4. Flows(d, t) BY <2>3, NoneQueued DEF Flows, InputFlows, OutputFlows, Staged
  <2> QED BY <1>6, <2>2, <2>3, <2>4
<1> QED BY <1>7, <1>8, <1>9, <1>10

\* After a command, the files are those that the stage had.
LEMMA ExecutedPipes ==
  ASSUME NEW c \in Activations, InLine(c), NEW r \in {"0", "error", "ctrlc", "abort"}
  PROVE  \E e \in Activations : /\ e.entry = c.entry /\ e.pszInPipe = c.pszInPipe /\ e.pszOutPipe = c.pszOutPipe
                                /\ e.fPipeOpen = c.fPipeOpen /\ Executed(c, r) = Unredir(e, "top")
<1>1. PICK k \in Nat \ {0}, x \in BOOLEAN : k = After(c.line, c.k, r).k /\ x = After(c.line, c.k, r).empty BY AfterType
<1>2. PICK e : e = [c EXCEPT !.ret = r, !.k = k, !.empty = x] OBVIOUS
<1>3. e \in Activations
  <2>1. PICK a : a = [c EXCEPT !.ret = r] OBVIOUS
  <2>2. a \in Activations BY <2>1 DEF Activations
  <2>3. PICK b : b = [a EXCEPT !.k = k] OBVIOUS
  <2>4. b \in Activations BY <2>2, <2>3 DEF Activations
  <2>5. e = [b EXCEPT !.empty = x] BY <1>2, <2>1, <2>3
  <2> QED BY <2>4, <2>5 DEF Activations
<1>4. /\ e.entry = c.entry /\ e.pszInPipe = c.pszInPipe /\ e.pszOutPipe = c.pszOutPipe /\ e.fPipeOpen = c.fPipeOpen
  BY <1>2 DEF Activations
<1>5. Executed(c, r) = Unredir(e, "top") BY <1>1, <1>2, Zenon DEF Executed
<1> QED BY <1>3, <1>4, <1>5

\* The command of a stage, but for a group; and an output file that does not open.
LEMMA RunFlows ==
  ASSUME IInv, FInv, Run \/ RunIff \/ (RedirOpenFails /\ Redirected # {STDIN})
  PROVE  FInv'
<1>1. PICK c, t, l : c = Cur /\ t = fd /\ l = Below(Len(cmds)) OBVIOUS
<1>2. c \in Activations /\ t \in Tables /\ c.at \in {"run", "open"} /\ c.todo = <<>>
  BY <1>1, CurFacts, Zenon DEF Run, RunIff, RedirOpenFails, At
<1>3. fd' = fd /\ disk' = disk
  <2>1. UNCHANGED <<fd, disk, flow>> \/ UNCHANGED <<fd, disk, signals, fException, breaks>>
    BY Zenon DEF Run, RunIff, RedirOpenFails
  <2> QED BY <2>1
<1>4. InLine(c) /\ (c.at = "run" /\ OpOf(c) = "iff" => Plain(c)) BY <1>1, <1>2, CurIdle DEF Idle
<1>5. l \cup Piped(c) \subseteq disk' /\ Flows(c, t) BY <1>1, <1>2, <1>3, CurFlows DEF Owned
<1>6. CASE Run
  <2>1. PICK r \in {"0", "error", "ctrlc", "abort"} : Put(Executed(c, r))
    <3>1. \E r \in (IF Op = "empty" \/ (Op = "else" /\ iff = "true") THEN {"0"} ELSE {"0", "error", "abort"}) :
             Put(Executed(Cur, r))
      BY <1>6, Zenon DEF Run
    <3>2. (IF Op = "empty" \/ (Op = "else" /\ iff = "true") THEN {"0"} ELSE {"0", "error", "abort"})
             \subseteq {"0", "error", "ctrlc", "abort"}
      OBVIOUS
    <3> QED BY <1>1, <3>1, <3>2, Zenon
  <2>2. PICK e \in Activations : /\ e.entry = c.entry /\ e.pszInPipe = c.pszInPipe /\ e.pszOutPipe = c.pszOutPipe
                                 /\ e.fPipeOpen = c.fPipeOpen /\ Executed(c, r) = Unredir(e, "top")
    BY <1>2, <1>4, ExecutedPipes
  <2>3. Put(Unredir(e, "top")) BY <2>1, <2>2
  <2> QED BY <1>1, <1>2, <1>3, <1>5, <2>2, <2>3, BackFlows
<1>7. CASE RedirOpenFails /\ Redirected # {STDIN}
  <2>1. Put(Unredir(c, "failed")) BY <1>1, <1>7 DEF RedirOpenFails
  <2> QED BY <1>1, <1>2, <1>3, <1>5, <2>1, BackFlows
<1>8. CASE RunIff
  <2>1. Op = "iff" /\ c.at = "run" BY <1>1, <1>8 DEF RunIff, At
  <2>2. OpOf(c) = "iff" BY <1>1, <2>1, OpIs
  <2>3. IOOf(c) = <<>> BY <2>2 DEF IOOf
  <2>4. InputKept(c) BY <2>3 DEF InputKept, Begun
  <2>5. c.naStd[STDIN] # 0 => t[STDIN] = c.pszInPipe BY <1>2, <1>5, <2>1, <2>4 DEF Flows, InputFlows, Staged
  <2>6. PICK k : k = c.k + 1 OBVIOUS
  <2>7. PICK d : d = [c EXCEPT !.at = "top", !.k = k] OBVIOUS
  <2>8. Put(d)
    <3>1. Put([Cur EXCEPT !.at = "top", !.k = @ + 1]) BY <1>8, Zenon DEF RunIff
    <3> QED BY <1>1, <2>6, <2>7, <3>1
  <2>9. /\ d.entry = c.entry /\ d.naStd = c.naStd /\ d.todo = <<>> /\ d.at = "top" /\ d.fPipeOpen = c.fPipeOpen
        /\ d.pszInPipe = c.pszInPipe /\ d.pszOutPipe = c.pszOutPipe
    BY <1>2, <2>7 DEF Activations
  <2>10. Flows(d, t) BY <2>5, <2>9, NoneQueued DEF Flows, InputFlows, OutputFlows, Staged
  <2>11. Alongside(c, d) BY <2>1, <2>9 DEF Alongside
  <2> QED BY <1>1, <1>3, <2>8, <2>10, <2>11, StayFlows
<1> QED BY <1>6, <1>7, <1>8

\* What is queued to make the file opened as n handle i.
LEMMA TakeQueueHas ==
  ASSUME NEW i \in Std, NEW n \in Handles \ Std, NEW e \in Seq(Calls), \A x \in Elems(e) : x.f # "move"
  PROVE  /\ Call2("move", n, i) \in Elems(TakeQueue(i, n, e)) /\ Elems(e) \subseteq Elems(TakeQueue(i, n, e))
         /\ \A x \in Elems(TakeQueue(i, n, e)) : x.f = "move" => x = Call2("move", n, i)
<1>1. i \in Handles /\ n # STDIN BY HandleFacts DEF Std
<1>2. PICK w \in Calls, y \in Calls, v \in Calls, p \in Calls, q \in Calls :
        /\ w = Call("save", i) /\ y = Call("close", n) /\ v = Call2("move", n, i) /\ p = Call("spare", i)
        /\ q = Call("unspare", i)
  BY <1>1, CallTypes
<1>3. w.f # "move" /\ y.f # "move" /\ p.f # "move" /\ q.f # "move" BY <1>2 DEF Call
<1>4. PICK a \in Seq(Calls) : a = DupHandle(n, i, y) BY <1>1, DupHandleIs
<1>5. v \in Elems(a) /\ Elems(a) \subseteq {p, q, v, y}
  <2>1. PICK c : c = NULL OBVIOUS
  <2>2. Moving(c, a, n, i, y, {}) BY <1>4 DEF Moving
  <2>3. MovingHas(c, a, n, i, y, {}) BY <2>2, MovingIs
  <2> QED BY <1>2, <2>3 DEF MovingHas
<1>6. PICK b \in Seq(Calls) : b = <<w>> \o a BY ConsIs
<1>7. Elems(b) = {w} \cup Elems(a)
  <2>1. <<w>> \in Seq(Calls) /\ Elems(<<w>>) = {w} BY OneCall
  <2>2. Elems(<<w>> \o a) = Elems(<<w>>) \cup Elems(a) BY <2>1, CallElems
  <2> QED BY <1>6, <2>1, <2>2
<1>8. TakeQueue(i, n, e) = b \o e BY <1>2, <1>4, <1>6 DEF TakeQueue
<1>9. Elems(b \o e) = Elems(b) \cup Elems(e) BY CallElems
<1> QED BY <1>2, <1>3, <1>5, <1>7, <1>8, <1>9

\* The file of a pipe is opened to be the output of the stage.
LEMMA OpeningPipeFlows ==
  ASSUME IInv, FInv, OpenPipe
  PROVE  FInv'
<1>1. PICK c, t, n, u, x, l : /\ c = Cur /\ t = fd /\ n = NewHandle /\ u = fd' /\ x = c.file
                              /\ l = Below(Len(cmds))
  OBVIOUS
<1>2. c \in Activations /\ t \in Tables /\ Keeps(c, t) BY <1>1, CurFacts
<1>3. c.at = "openpipe" /\ c.todo = <<>> /\ NeverFull BY <1>1, Zenon DEF OpenPipe, At, NeverFull
<1>4. Plain(c) /\ OpenStd(t) BY <1>1, <1>3, CurIdle DEF Idle
<1>5. Fresh(t, n) BY <1>1, <1>3, NewHandleFresh DEF IInv
<1>6. n \in Handles \ Std BY <1>2, <1>4, <1>5, FreshWritable
<1>7. u = [t EXCEPT ![n] = x] /\ disk' = disk
  <2>1. fd' = With(NewHandle, Cur.file) /\ UNCHANGED <<disk, flow>> BY Zenon DEF OpenPipe
  <2> QED BY <1>1, <1>6, <2>1 DEF With
<1>8. u[n] = x /\ \A i \in Std : u[i] = t[i] BY <1>2, <1>6, <1>7, HandleFacts DEF Tables
<1>9. PICK e : e = IF Sep = "|&" THEN SaveErr ELSE <<>> OBVIOUS
<1>10. /\ e \in Seq(Calls) /\ (\A y \in Elems(e) : y.f # "move")
       /\ Sep = "|&" => ErrToOut \in Elems(e)
  <2>1. PICK y \in Calls, z \in Calls : y = Call("save", STDERR) /\ z = ErrToOut
    BY CallTypes, HandleFacts DEF Std, ErrToOut
  <2>2. y.f = "save" /\ z.f = "dup2" BY <2>1 DEF Call, Call2, ErrToOut
  <2>3. <<y, z>> \in Seq(Calls) /\ <<>> \in Seq(Calls) /\ Elems(<<y, z>>) = {y, z} /\ Elems(<<>>) = {}
    <3> HIDE DEF Calls
    <3>1. DOMAIN <<y, z>> = 1 .. 2 /\ <<y, z>>[1] = y /\ <<y, z>>[2] = z OBVIOUS
    <3> QED BY <3>1 DEF Elems
  <2> QED BY <1>9, <2>1, <2>2, <2>3 DEF SaveErr
<1>11. PICK q : q = TakeQueue(STDOUT, n, e) OBVIOUS
<1>12. STDIN \in Std /\ STDOUT \in Std /\ STDERR \in Std /\ Std = {STDIN, STDOUT, STDERR} BY DEF Std
<1>13. /\ Call2("move", n, STDOUT) \in Elems(q) /\ Elems(e) \subseteq Elems(q)
       /\ \A y \in Elems(q) : y.f = "move" => y = Call2("move", n, STDOUT)
  BY <1>6, <1>10, <1>11, <1>12, TakeQueueHas
<1>14. PICK d : d = [c EXCEPT !.at = "redir", !.pszOutPipe = x, !.fPipeOpen = TRUE, !.fIsPiped = TRUE, !.todo = q]
  OBVIOUS
<1>15. Put(d)
  <2>1. Put([Cur EXCEPT !.at = "redir", !.pszOutPipe = Cur.file, !.fPipeOpen = TRUE, !.fIsPiped = TRUE,
                        !.todo = <<Call("save", STDOUT)>>
                                   \o DupHandle(NewHandle, STDOUT, Call("close", NewHandle))
                                   \o IF Sep = "|&" THEN <<Call("save", STDERR), Call2("dup2", STDOUT, STDERR)>>
                                      ELSE <<>>])
    BY Zenon DEF OpenPipe
  <2>2. q = <<Call("save", STDOUT)>>
              \o DupHandle(NewHandle, STDOUT, Call("close", NewHandle))
              \o IF Sep = "|&" THEN <<Call("save", STDERR), Call2("dup2", STDOUT, STDERR)>> ELSE <<>>
    BY <1>1, <1>9, <1>11, Zenon DEF TakeQueue, SaveErr, ErrToOut
  <2> QED BY <1>1, <1>14, <2>1, <2>2, Zenon
<1>16. /\ d.at = "redir" /\ d.todo = q /\ d.entry = c.entry /\ d.naStd = c.naStd /\ d.fPipeOpen = TRUE
       /\ d.pszInPipe = c.pszInPipe /\ d.pszOutPipe = x /\ d.line = c.line /\ d.k = c.k
  BY <1>2, <1>14 DEF Activations
<1>17. /\ Owned(c) \cap l = {} /\ StdFrom(c, t) /\ Names(c) /\ l \subseteq disk /\ Owned(c) \subseteq disk
       /\ Flows(c, t)
  BY <1>1, CurFlows
<1>18. x # NULL /\ x # c.pszInPipe BY <1>1, <1>3, <1>17 DEF Names
<1>19. Owned(d) \subseteq Owned(c) BY <1>1, <1>3, <1>16 DEF Owned, Piped
<1>20. Names(d) BY <1>16, <1>18 DEF Names
<1>21. c.naStd[STDIN] # 0 => t[STDIN] = c.pszInPipe BY <1>3, <1>17 DEF Flows, InputFlows
<1>22. StdFrom(d, u)
  <2>1. t[STDOUT] = c.entry[STDOUT] /\ t[STDERR] = c.entry[STDERR] BY <1>2, <1>4, <1>12 DEF Plain, Keeps
  <2>2. t[STDIN] = c.entry[STDIN] \/ t[STDIN] = c.pszInPipe BY <1>2, <1>12, <1>21 DEF Keeps
  <2> QED BY <1>8, <1>12, <1>16, <2>1, <2>2 DEF StdFrom, Piped
<1>23. MovesTo(d, u, STDOUT, d.pszOutPipe)
  <2>1. Call2("move", n, STDOUT).h = n /\ Call2("move", n, STDOUT).to = STDOUT BY DEF Call2
  <2> QED BY <1>6, <1>8, <1>13, <1>16, <1>18, <2>1 DEF MovesTo
<1>24. InputFlows(d, u) BY <1>8, <1>12, <1>16, <1>21 DEF InputFlows
<1>25. OutputFlows(d, u)
  <2>1. ~None(d, "move")
    <3>1. Call2("move", n, STDOUT).f = "move" BY DEF Call2
    <3> QED BY <1>13, <1>16, <3>1 DEF None
  <2>2. BothPiped(d) => ~None(d, "dup2")
    <3>1. BothPiped(d) => Sep = "|&" BY <1>1, <1>16 DEF BothPiped, Sep, Stage
    <3>2. ErrToOut.f = "dup2" BY DEF ErrToOut, Call2
    <3> QED BY <1>10, <1>13, <1>16, <3>1, <3>2 DEF None
  <2> QED BY <1>16, <2>1, <2>2 DEF OutputFlows
<1>26. Flows(d, u) BY <1>16, <1>23, <1>24, <1>25 DEF Flows
<1>27. Owned(d) \cap l = {} /\ l \cup Owned(d) \subseteq disk' BY <1>7, <1>17, <1>19
<1> QED BY <1>1, <1>15, <1>16, <1>20, <1>22, <1>26, <1>27, PutFlows

\* The file that the last stage wrote is opened to be the input of the next.
LEMMA OpeningInputFlows ==
  ASSUME IInv, FInv, UnredirOpen
  PROVE  FInv'
<1>1. PICK c, t, n, u, x, l : /\ c = Cur /\ t = fd /\ n = NewHandle /\ u = fd' /\ x = c.pszInPipe
                              /\ l = Below(Len(cmds))
  OBVIOUS
<1>2. c \in Activations /\ t \in Tables /\ Keeps(c, t) /\ disk \subseteq Pipes BY <1>1, CurFacts
<1>3. c.at = "openin" /\ c.todo = <<>> /\ NeverFull /\ x \in disk BY <1>1, Zenon DEF UnredirOpen, At, NeverFull
<1>4. c.then \in {"top", "failed"} /\ Unsaved(c, Std) /\ OpenStd(t) BY <1>1, <1>3, CurIdle DEF Idle
<1>5. Fresh(t, n) BY <1>1, <1>3, NewHandleFresh DEF IInv
<1>6. n \in Handles \ Std /\ n # STDIN
  <2>1. n \in Handles \ Std BY <1>2, <1>4, <1>5, FreshWritable
  <2> QED BY <2>1 DEF Std
<1>7. u = [t EXCEPT ![n] = x] /\ disk' = disk
  <2>1. fd' = With(NewHandle, Cur.pszInPipe) /\ UNCHANGED <<disk, flow>> BY Zenon DEF UnredirOpen
  <2> QED BY <1>1, <1>6, <2>1 DEF With
<1>8. u[n] = x /\ \A i \in Std : u[i] = t[i] BY <1>2, <1>6, <1>7, HandleFacts DEF Tables
<1>9. PICK q : q = <<Call("save", STDIN)>> \o DupHandle(n, STDIN, Call("close", n)) OBVIOUS
<1>10. STDIN \in Std /\ STDIN \in Handles BY HandleFacts DEF Std
<1>11. /\ Call2("move", n, STDIN) \in Elems(q)
       /\ \A y \in Elems(q) : y.f = "move" => y = Call2("move", n, STDIN)
  <2>1. PICK w \in Calls, y \in Calls : w = Call("save", STDIN) /\ y = Call("close", n) BY <1>6, <1>10, CallTypes
  <2>2. PICK a \in Seq(Calls) : a = DupHandle(n, STDIN, y) BY <1>6, <1>10, <2>1, DupHandleIs
  <2>3. (<<w>> \o a) \o <<>> = <<w>> \o a
    <3> HIDE DEF Calls
    <3>1. <<w>> \o a \in Seq(Calls) OBVIOUS
    <3> QED BY <3>1, ConcatEmptySeq
  <2>4. q = TakeQueue(STDIN, n, <<>>) BY <1>9, <2>1, <2>2, <2>3 DEF TakeQueue
  <2>5. <<>> \in Seq(Calls) /\ \A z \in Elems(<<>>) : z.f # "move" BY EmptySequence DEF Elems
  <2> QED BY <1>6, <1>10, <2>4, <2>5, TakeQueueHas
<1>12. PICK d : d = [c EXCEPT !.at = c.then, !.fPipeOpen = FALSE, !.todo = q] OBVIOUS
<1>13. Put(d)
  <2>1. Put([Cur EXCEPT !.at = Cur.then, !.fPipeOpen = FALSE,
                        !.todo = <<Call("save", STDIN)>> \o DupHandle(NewHandle, STDIN, Call("close", NewHandle))])
    BY Zenon DEF UnredirOpen
  <2> QED BY <1>1, <1>9, <1>12, <2>1, Zenon
<1>14. /\ d.at = c.then /\ d.todo = q /\ d.entry = c.entry /\ d.naStd = c.naStd /\ d.fPipeOpen = FALSE
       /\ d.pszInPipe = x /\ d.pszOutPipe = c.pszOutPipe
  BY <1>1, <1>2, <1>12 DEF Activations
<1>15. Owned(c) \cap l = {} /\ l \subseteq disk /\ Owned(c) \subseteq disk
  BY <1>1, CurFlows
<1>16. Owned(d) = Owned(c) BY <1>1, <1>3, <1>4, <1>14 DEF Owned, Piped
<1>17. Names(d) BY <1>4, <1>14 DEF Names
<1>18. StdFrom(d, u)
  <2>1. \A i \in Std : t[i] = c.entry[i] BY <1>2, <1>4 DEF Keeps, Unsaved
  <2> QED BY <1>8, <1>14, <2>1 DEF StdFrom
<1>19. MovesTo(d, u, STDIN, d.pszInPipe)
  <2>1. Call2("move", n, STDIN).h = n /\ Call2("move", n, STDIN).to = STDIN BY DEF Call2
  <2>2. x # NULL BY <1>2, <1>3, NullAssumption
  <2> QED BY <1>6, <1>8, <1>11, <1>14, <2>1, <2>2 DEF MovesTo
<1>20. ~None(d, "move")
  <2>1. Call2("move", n, STDIN).f = "move" BY DEF Call2
  <2> QED BY <1>11, <1>14, <2>1 DEF None
<1>21. Flows(d, u) BY <1>4, <1>14, <1>19, <1>20 DEF Flows, InputFlows, OutputFlows, Staged
<1>22. Owned(d) \cap l = {} /\ l \cup Owned(d) \subseteq disk' BY <1>7, <1>15, <1>16
<1> QED BY <1>1, <1>13, <1>14, <1>17, <1>18, <1>21, <1>22, PutFlows

\* redir() opens a file in place of the handle it closed.
LEMMA OpeningFileFlows ==
  ASSUME IInv, FInv, RedirOpen
  PROVE  FInv'
<1>1. PICK c, t, red, n, u, l : /\ c = Cur /\ t = fd /\ red = RedirectedOf(c) /\ n = NewHandle /\ u = fd'
                                /\ l = Below(Len(cmds))
  OBVIOUS
<1>2. c \in Activations /\ t \in Tables /\ Keeps(c, t) BY <1>1, CurFacts
<1>3. c.at = "open" /\ c.todo = <<>> /\ NeverFull BY <1>1, Zenon DEF RedirOpen, At, NeverFull
<1>4. InLine(c) /\ c.n \in DOMAIN IOOf(c) /\ Opening(c, t, red) BY <1>1, <1>3, CurIdle DEF Idle
<1>5. Fresh(t, n) BY <1>1, <1>3, NewHandleFresh DEF IInv
<1>6. u = [t EXCEPT ![n] = "file"] /\ disk' = disk
  <2>1. fd' = With(NewHandle, "file") /\ UNCHANGED <<disk, flow>> BY Zenon DEF RedirOpen
  <2> QED BY <1>1, <1>5, <2>1 DEF With, Fresh
<1>7. u[n] = "file" /\ \A g : g # n => u[g] = t[g] BY <1>2, <1>5, <1>6 DEF Fresh, Tables
<1>8. n \in red
  <2>1. Opened(c, red, n, u)
    <3>1. Opens(c, t, red, n, u) BY <1>2, <1>3, <1>4, <1>5, <1>6 DEF Opens
    <3> QED BY <3>1, OpenedAt
  <2>2. CASE red = {STDOUT, STDERR} BY <2>1, <2>2 DEF Opened
  <2>3. ASSUME NEW i \in Std, red = {i}, OpeningOne(c, t, i) PROVE n \in red
    <3>1. <<Call("save", i), Call("close", i)>> # <<>> /\ <<Call("close", i)>> # <<>>
      <4>1. PICK x, y : x = Call("save", i) /\ y = Call("close", i) OBVIOUS
      <4>2. <<x, y>> # <<>> /\ <<y>> # <<>> OBVIOUS
      <4> QED BY <4>1, <4>2
    <3>2. t[i] = NULL BY <1>3, <2>3, <3>1 DEF OpeningOne, OpenBut
    <3>3. CASE red = {STDOUT, STDERR} BY <2>2, <3>3
    <3>4. CASE red # {STDOUT, STDERR}
      <4>1. u[i] # NULL BY <2>1, <3>4 DEF Opened, OpenStd
      <4> QED BY <1>7, <2>3, <3>2, <4>1
    <3> QED BY <3>3, <3>4
  <2> QED BY <1>4, <2>2, <2>3 DEF Opening
<1>9. PICK q : q = IF red = {STDOUT, STDERR} THEN <<Call2("dup2", n, STDERR)>> ELSE <<>> OBVIOUS
<1>10. \A x \in Elems(q) : x.f # "move"
  <2>1. PICK y : y = Call2("dup2", n, STDERR) OBVIOUS
  <2>2. y.f # "move" BY <2>1 DEF Call2
  <2>3. Elems(<<y>>) = {y} /\ Elems(<<>>) = {} BY DEF Elems
  <2> QED BY <1>9, <2>1, <2>2, <2>3
<1>11. PICK m : m = c.n + 1 OBVIOUS
<1>12. PICK d : d = [c EXCEPT !.at = "redir", !.n = m, !.todo = q] OBVIOUS
<1>13. Put(d)
  <2>1. Put([Cur EXCEPT !.at = "redir", !.n = @ + 1,
                        !.todo = IF Redirected = {STDOUT, STDERR} THEN <<Call2("dup2", NewHandle, STDERR)>> ELSE <<>>])
    BY Zenon DEF RedirOpen
  <2>2. Redirected = red BY <1>1, OpIs
  <2> QED BY <1>1, <1>9, <1>11, <1>12, <2>1, <2>2
<1>14. SameStage(c, d) /\ d.at = "redir" /\ d.n = m /\ d.todo = q BY <1>2, <1>12 DEF Activations, SameStage
<1>15. /\ d.naStd = c.naStd /\ d.entry = c.entry /\ d.fPipeOpen = c.fPipeOpen /\ d.pszInPipe = c.pszInPipe
       /\ d.pszOutPipe = c.pszOutPipe
  BY <1>14 DEF SameStage
<1>16. /\ Owned(c) \cap l = {} /\ StdFrom(c, t) /\ Names(c) /\ l \subseteq disk /\ Owned(c) \subseteq disk
       /\ InputFlows(c, t) /\ OutputFlows(c, t)
  BY <1>1, CurFlows DEF Flows
<1>17. Piped(d) = Piped(c) BY <1>15 DEF Piped
<1>18. Owned(d) = Owned(c) BY <1>3, <1>14, <1>17 DEF Owned
<1>19. Names(d) BY <1>3, <1>14, <1>15, <1>16 DEF Names
<1>20. StdFrom(d, u) BY <1>7, <1>15, <1>16, <1>17 DEF StdFrom
<1>21. InputKept(d) => InputKept(c) /\ n # STDIN
  <2>1. c.n \in Nat BY <1>2 DEF Activations
  <2>2. STDIN \in red => ~InputKept(c) BY <1>1, <1>2, <1>3, <1>4, InputBegun
  <2>3. IOOf(d) = IOOf(c) BY <1>14, SameStageFacts
  <2>4. Begun(c) \subseteq Begun(d)
    <3>1. IOOf(c) \in Seq(DOMAIN Targets)
      <4>1. c.line[c.k] \in Stages BY <1>2, <1>4, LineFacts
      <4>2. c.line[c.k].io \in Seq(DOMAIN Targets) BY <4>1, Zenon DEF Stages
      <4>3. CASE OpOf(c) \in {"cmd", "group"} BY <4>2, <4>3, Zenon DEF IOOf
      <4>4. CASE OpOf(c) \notin {"cmd", "group"}
        <5>1. IOOf(c) = <<>> BY <4>4, Zenon DEF IOOf
        <5> QED BY <5>1, EmptySequence, Zenon
      <4> QED BY <4>3, <4>4
    <3>2. PICK io \in Seq(DOMAIN Targets) : io = IOOf(c) BY <3>1
    <3>3. \A j \in DOMAIN io : j <= c.n => j < m BY <1>11, <2>1
    <3> QED BY <1>3, <1>14, <2>3, <3>2, <3>3 DEF Begun
  <2> QED BY <1>8, <2>2, <2>3, <2>4 DEF InputKept
<1>22. InputFlows(d, u) BY <1>3, <1>7, <1>14, <1>15, <1>16, <1>21 DEF InputFlows, Staged
<1>23. OutputFlows(d, u)
  <2>1. BothPiped(d) <=> BothPiped(c) BY <1>14, SameStageFacts
  <2>2. c.fPipeOpen => /\ t[STDOUT] = c.pszOutPipe /\ STDOUT \notin red
                       /\ BothPiped(c) => t[STDERR] = c.pszOutPipe /\ STDERR \notin red
    BY <1>1, <1>3, <1>16, NoneQueued DEF OutputFlows, Staged
  <2> QED BY <1>7, <1>8, <1>14, <1>15, <2>1, <2>2 DEF OutputFlows
<1>24. MovesTo(d, u, STDOUT, d.pszOutPipe) BY <1>10, <1>14 DEF MovesTo
<1>25. Flows(d, u) BY <1>14, <1>22, <1>23, <1>24 DEF Flows
<1>26. Owned(d) \cap l = {} /\ l \cup Owned(d) \subseteq disk' BY <1>6, <1>16, <1>18
<1> QED BY <1>1, <1>13, <1>15, <1>19, <1>20, <1>25, <1>26, PutFlows

-----------------------------------------------------------------------------
(***************************************************************************)
(* The stack of activations.                                               *)
(***************************************************************************)
\* A standard handle that is open on a pipe is open on a file of the line.
LEMMA StdInFiles ==
  ASSUME NEW c, NEW t, NEW l, StdFrom(c, t), Inherits(c, l)
  PROVE  \A i \in Std : t[i] \in Pipes => t[i] \in l \cup Piped(c)
<1> TAKE i \in Std
<1> HAVE t[i] \in Pipes
<1>1. "file" \notin Pipes /\ NULL \notin Pipes BY PipesAssumption, NullAssumption
<1>2. t[i] \in Piped(c) \cup {c.entry[j] : j \in Std} BY <1>1 DEF StdFrom
<1> QED BY <1>2 DEF Inherits

\* An activation begins with nothing of its own.
LEMMA NewFlows ==
  ASSUME NEW t, t = fd, NEW l, NEW s, \A i \in Std : t[i] \in Pipes => t[i] \in s, NEW d, d = NewCmd(l)
  PROVE  /\ d.entry = t /\ Owned(d) = {} /\ Inherits(d, s) /\ StdFrom(d, t) /\ Names(d) /\ Flows(d, t)
<1>1. PICK f : f = [i \in Std |-> 0] OBVIOUS
<1>2. \A i \in Std : f[i] = 0 BY <1>1
<1>3. d = [line |-> l, k |-> 1, n |-> 1, at |-> "top", then |-> NULL, todo |-> <<>>,
           empty |-> FALSE, ret |-> "0", file |-> NULL, spare |-> -1,
           naStd |-> f, fPipeOpen |-> FALSE, fIsPiped |-> FALSE,
           pszOutPipe |-> NULL, pszInPipe |-> NULL, entry |-> t]
  BY <1>1 DEF NewCmd
<1>4. /\ d.entry = t /\ d.naStd = f /\ d.at = "top" /\ d.todo = <<>> /\ d.fPipeOpen = FALSE
      /\ d.pszInPipe = NULL /\ d.pszOutPipe = NULL
  BY <1>3
<1>5. Owned(d) = {} BY <1>4 DEF Owned, Piped
<1>6. StdFrom(d, t) BY <1>4 DEF StdFrom
<1>7. Flows(d, t)
  <2>1. d.naStd[STDIN] = 0 BY <1>2, <1>4 DEF Std
  <2> QED BY <1>4, <2>1, NoneQueued DEF Flows, InputFlows, OutputFlows, Staged
<1> QED BY <1>4, <1>5, <1>6, <1>7 DEF Inherits, Names

\* A group begins: the files of its caller stay its caller's.
LEMMA GroupFlows ==
  ASSUME IInv, FInv, RunGroup
  PROVE  FInv'
<1>1. PICK c, t, n, l : c = Cur /\ t = fd /\ n = Len(cmds) /\ l = Below(n) OBVIOUS
<1>2. c \in Activations /\ n \in Nat \ {0} /\ cmds \in Seq(Activations) /\ cmds[n] = c
  BY <1>1, CurFacts DEF IInv, TypeOK, Cur
<1>3. c.at = "run" BY <1>1, Zenon DEF RunGroup, At
<1>4. PICK g \in Groups : cmds' = Append([cmds EXCEPT ![Len(cmds)].at = "ran"], NewCmd(g)) BY Zenon DEF RunGroup
<1>5. PICK b, d : b = [c EXCEPT !.at = "ran"] /\ d = NewCmd(g) OBVIOUS
<1>6. b \in Activations
  <2>1. c \in Activations BY <1>2
  <2> QED BY <1>5, <2>1 DEF Activations, Places
<1>7. cmds' = Append([cmds EXCEPT ![n] = b], d) BY <1>1, <1>4, <1>5, Zenon DEF Cur
<1>8. /\ Len(cmds') = n + 1 /\ cmds'[n + 1] = d /\ cmds'[n] = b
      /\ \A a \in 1 .. n - 1 : cmds'[a] = cmds[a]
  <2>1. PICK q : q = [cmds EXCEPT ![n] = b] OBVIOUS
  <2> HIDE DEF Activations
  <2>2. q \in Seq(Activations) /\ Len(q) = n /\ q[n] = b /\ \A a \in 1 .. n - 1 : q[a] = cmds[a]
    BY <1>1, <1>2, <1>6, <2>1
  <2>3. cmds' = Append(q, d) BY <1>7, <2>1
  <2> QED BY <1>2, <2>2, <2>3
<1>9. fd' = t /\ disk' = disk
  <2>1. UNCHANGED <<fd, disk, signals, fException, breaks>> BY Zenon DEF RunGroup
  <2> QED BY <1>1, <2>1
<1>10. Apart(c, l, t) /\ l \subseteq disk /\ Piped(c) \subseteq disk /\ Owned(c) = Piped(c)
  BY <1>1, <1>3, CurFlows DEF Apart, Owned
<1>11. /\ b.at = "ran" /\ b.entry = c.entry /\ b.pszInPipe = c.pszInPipe /\ b.pszOutPipe = c.pszOutPipe
       /\ b.fPipeOpen = c.fPipeOpen
  BY <1>2, <1>5 DEF Activations
<1>12. Piped(b) = Piped(c) /\ Owned(b) = Piped(c) BY <1>11 DEF Piped, Owned
<1>13. Apart(b, l, t)
  <2>1. Owned(c) \cap l = {} /\ Inherits(c, l) /\ StdFrom(c, t) /\ Names(c) BY <1>10 DEF Apart
  <2>2. Inherits(b, l) /\ StdFrom(b, t) BY <1>11, <1>12, <2>1 DEF Inherits, StdFrom
  <2>3. Names(b) BY <1>3, <1>11, <2>1 DEF Names
  <2> QED BY <1>10, <1>12, <2>1, <2>2, <2>3 DEF Apart
<1>14. /\ d.entry = t /\ Owned(d) = {} /\ Inherits(d, l \cup Piped(c)) /\ StdFrom(d, t) /\ Names(d) /\ Flows(d, t)
  <2>1. \A i \in Std : t[i] \in Pipes => t[i] \in l \cup Piped(c) BY <1>10, StdInFiles DEF Apart
  <2> QED BY <1>1, <1>5, <2>1, NewFlows
<1>15. \A a \in 1 .. n : Below(a)' = Below(a)
  <2> TAKE a \in 1 .. n
  <2>1. \A e \in 1 .. a - 1 : e \in 1 .. n - 1 BY <1>2
  <2>2. \A e \in 1 .. a - 1 : cmds'[e] = cmds[e] BY <1>8, <2>1
  <2>3. {Owned(cmds'[e]) : e \in 1 .. a - 1} = {Owned(cmds[e]) : e \in 1 .. a - 1} BY <2>2
  <2>4. Below(a)' = UNION {Owned(cmds'[e]) : e \in 1 .. a - 1} BY DEF Below, Owned, Piped
  <2>5. Below(a) = UNION {Owned(cmds[e]) : e \in 1 .. a - 1} BY Zenon DEF Below
  <2> QED BY <2>3, <2>4, <2>5
<1>16. Below(n + 1)' = l \cup Piped(c)
  <2>1. Below(n + 1)' = UNION {Owned(cmds'[e]) : e \in 1 .. n}
    <3>1. Below(n + 1)' = UNION {Owned(cmds'[e]) : e \in 1 .. (n + 1) - 1} BY DEF Below, Owned, Piped
    <3>2. (n + 1) - 1 = n BY <1>2
    <3> QED BY <3>1, <3>2
  <2>2. Below(n)' = UNION {Owned(cmds'[e]) : e \in 1 .. n - 1} BY DEF Below, Owned, Piped
  <2>3. Below(n)' = l BY <1>1, <1>2, <1>15
  <2>4. 1 .. n = 1 .. n - 1 \cup {n} BY <1>2
  <2>5. Owned(cmds'[n]) = Piped(c) BY <1>8, <1>12
  <2>6. UNION {Owned(cmds'[e]) : e \in 1 .. n} = (UNION {Owned(cmds'[e]) : e \in 1 .. n - 1}) \cup Owned(cmds'[n])
    BY <2>4
  <2> QED BY <2>1, <2>2, <2>3, <2>5, <2>6
<1>17. \A a \in 1 .. n : Apart(cmds'[a], Below(a)', cmds'[a + 1].entry)
  <2> TAKE a \in 1 .. n
  <2>1. CASE a = n BY <1>1, <1>8, <1>13, <1>14, <1>15, <2>1
  <2>2. CASE a # n
    <3>1. a \in 1 .. n - 1 BY <1>2, <2>2
    <3>2. Apart(cmds[a], Below(a), cmds[a + 1].entry) BY <1>1, <3>1 DEF FInv
    <3>3. cmds'[a + 1].entry = cmds[a + 1].entry
      <4>1. a + 1 = n \/ a + 1 \in 1 .. n - 1 BY <1>2, <3>1
      <4>2. CASE a + 1 = n BY <1>2, <1>8, <1>11, <4>2
      <4>3. CASE a + 1 \in 1 .. n - 1 BY <1>8, <4>3
      <4> QED BY <4>1, <4>2, <4>3
    <3> QED BY <1>8, <1>15, <3>1, <3>2, <3>3
  <2> QED BY <2>1, <2>2
<1>18. \A a \in 1 .. Len(cmds') - 1 : Apart(cmds[a], Below(a), cmds[a + 1].entry)'
  <2> TAKE a \in 1 .. Len(cmds') - 1
  <2>1. Len(cmds') - 1 = n BY <1>2, <1>8
  <2>2. Apart(cmds'[a], Below(a)', cmds'[a + 1].entry) BY <1>17, <2>1
  <2> QED BY <2>2
<1>19. Cur' = d BY <1>8 DEF Cur
<1>20. Apart(d, Below(n + 1)', t) BY <1>14, <1>16 DEF Apart
<1> QED BY <1>8, <1>9, <1>10, <1>14, <1>16, <1>18, <1>19, <1>20 DEF FInv

\* A group has ended: its caller has the handles that it had before.
LEMMA ReturningFlows ==
  ASSUME IInv, FInv, Return
  PROVE  FInv'
<1>1. PICK c, t, n, b : c = Cur /\ t = fd /\ n = Len(cmds) - 1 /\ b = cmds[n] OBVIOUS
<1>2. c \in Activations /\ t \in Tables /\ Keeps(c, t) BY <1>1, CurFacts
<1>3. c.at = "done" /\ c.todo = <<>> /\ Len(cmds) > 1 BY <1>1, Zenon DEF Return, At
<1>4. Unsaved(c, Std) BY <1>1, <1>3, CurIdle DEF Idle
<1>5. /\ n \in 1 .. Len(cmds) - 1 /\ n + 1 = Len(cmds) /\ b \in Activations /\ n \in Nat \ {0}
      /\ cmds \in Seq(Activations)
  <2>1. cmds \in Seq(Activations) /\ Len(cmds) \in Nat BY CurFacts DEF IInv, TypeOK
  <2> HIDE DEF Activations
  <2> QED BY <1>1, <1>3, <2>1
<1>6. Waits(b, c.entry) /\ Apart(b, Below(n), c.entry) BY <1>1, <1>5 DEF IInv, FInv, Cur
<1>7. InLine(b) /\ b.at = "ran" BY <1>6 DEF Waits
<1>8. cmds' = Append(SubSeq(cmds, 1, Len(cmds) - 2), IF fException THEN Aborts(b) ELSE Executed(b, c.ret))
  BY <1>1, Zenon DEF Return
<1>9. fd' = t /\ disk' = disk
  <2>1. UNCHANGED <<fd, disk, flow>> BY Zenon DEF Return
  <2> QED BY <1>1, <2>1
<1>10. Below(n) \cup Piped(b) \subseteq disk
  <2>1. Below(n + 1) \subseteq disk BY <1>5 DEF FInv
  <2>2. Below(n) \subseteq Below(n + 1)
    <3>1. 1 .. n - 1 \subseteq 1 .. (n + 1) - 1 BY <1>5
    <3> QED BY <3>1 DEF Below
  <2>3. Owned(b) \subseteq Below(n + 1)
    <3>1. n \in 1 .. (n + 1) - 1 BY <1>5
    <3> QED BY <1>1, <3>1 DEF Below
  <2> QED BY <1>7, <2>1, <2>2, <2>3 DEF Owned
<1>11. \A i \in Std : t[i] = c.entry[i] BY <1>2, <1>4 DEF Keeps, Unsaved
<1>12. ASSUME NEW e \in Activations, e.entry = b.entry, e.pszInPipe = b.pszInPipe, e.pszOutPipe = b.pszOutPipe,
              e.fPipeOpen => b.fPipeOpen, NEW then \in {"top", "kill"},
              cmds' = Append(SubSeq(cmds, 1, Len(cmds) - 2), Unredir(e, then))
       PROVE  FInv'
  <2>1. PICK d : d = Unredir(e, then) OBVIOUS
  <2>2. /\ d.at = "unredir" /\ d.entry = b.entry /\ d.pszInPipe = b.pszInPipe /\ d.pszOutPipe = b.pszOutPipe
        /\ d.fPipeOpen = e.fPipeOpen
    <3>1. PICK q : q = Restores(e) OBVIOUS
    <3>2. d = [e EXCEPT !.at = "unredir", !.then = then, !.todo = q] BY <2>1, <3>1, Zenon DEF Unredir
    <3> QED BY <1>12, <3>2 DEF Activations
  <2>3. Piped(d) = Piped(b) BY <2>2 DEF Piped
  <2>4. Owned(d) = Piped(b) /\ Owned(b) = Piped(b) BY <1>7, <2>2, <2>3 DEF Owned
  <2>5. Apart(d, Below(n), t)
    <3>1. Owned(b) \cap Below(n) = {} /\ Inherits(b, Below(n)) /\ StdFrom(b, c.entry) /\ Names(b)
      BY <1>6 DEF Apart
    <3>2. Inherits(d, Below(n)) /\ StdFrom(d, t) BY <1>11, <2>2, <2>3, <3>1 DEF Inherits, StdFrom
    <3>3. Names(d) BY <1>7, <1>12, <2>2, <3>1 DEF Names
    <3> QED BY <2>4, <3>1, <3>2, <3>3 DEF Apart
  <2>6. Flows(d, t) BY <2>2, FlowsAway
  <2>7. Len(cmds') = n /\ cmds'[n] = d /\ \A a \in 1 .. n - 1 : cmds'[a] = cmds[a]
    <3>1. PICK q : q = SubSeq(cmds, 1, n - 1) OBVIOUS
    <3> HIDE DEF Activations
    <3>2. q \in Seq(Activations) /\ Len(q) = n - 1 /\ \A a \in 1 .. n - 1 : q[a] = cmds[a] BY <1>5, <3>1
    <3>3. cmds' = Append(q, d)
      <4>1. Len(cmds) - 2 = n - 1 BY <1>5
      <4> QED BY <1>12, <2>1, <3>1, <4>1
    <3> QED BY <1>5, <3>2, <3>3
  <2>8. d.entry = cmds[n].entry BY <1>1, <2>2
  <2>9. Len(cmds) \in Nat /\ n <= Len(cmds) BY <1>5
  <2> QED BY <1>5, <1>9, <1>10, <2>4, <2>5, <2>6, <2>7, <2>8, <2>9, FlowsFrame
<1>13. CASE fException
  <2>1. PICK e : e = [[b EXCEPT !.ret = "ctrlc"] EXCEPT !.fPipeOpen = FALSE] OBVIOUS
  <2>2. /\ e \in Activations /\ e.entry = b.entry /\ e.pszInPipe = b.pszInPipe /\ e.pszOutPipe = b.pszOutPipe
        /\ e.fPipeOpen = FALSE
    BY <1>5, <2>1 DEF Activations
  <2>3. Aborts(b) = Unredir(e, "kill") BY <2>1, Zenon DEF Aborts, Break
  <2>4. cmds' = Append(SubSeq(cmds, 1, Len(cmds) - 2), Unredir(e, "kill")) BY <1>8, <1>13, <2>3, Zenon
  <2> QED BY <1>12, <2>2, <2>4
<1>14. CASE ~fException
  <2>1. PICK r \in {"0", "error", "ctrlc", "abort"} : r = c.ret BY <1>2 DEF Activations
  <2>2. PICK e \in Activations : /\ e.entry = b.entry /\ e.pszInPipe = b.pszInPipe /\ e.pszOutPipe = b.pszOutPipe
                                 /\ e.fPipeOpen = b.fPipeOpen /\ Executed(b, r) = Unredir(e, "top")
    BY <1>5, <1>7, ExecutedPipes
  <2>3. cmds' = Append(SubSeq(cmds, 1, Len(cmds) - 2), Unredir(e, "top")) BY <1>8, <1>14, <2>1, <2>2, Zenon
  <2> QED BY <1>12, <2>2, <2>3
<1> QED BY <1>13, <1>14

\* A line begins, with no activation below it.
LEMMA FirstFlows ==
  ASSUME NEW t, t = fd, \A i \in Std : t[i] \notin Pipes, NEW l, NEW d, d = NewCmd(l)
  PROVE  Owned(d) = {} /\ Apart(d, {}, t) /\ Flows(d, t)
<1>1. \A i \in Std : t[i] \in Pipes => t[i] \in {} OBVIOUS
<1>2. /\ d.entry = t /\ Owned(d) = {} /\ Inherits(d, {}) /\ StdFrom(d, t) /\ Names(d) /\ Flows(d, t)
  BY <1>1, NewFlows
<1> QED BY <1>2 DEF Apart

LEMMA PromptingFlows ==
  ASSUME IInv, FInv, Prompt
  PROVE  FInv'
<1>1. PICK c, t : c = Cur /\ t = fd OBVIOUS
<1>2. Len(cmds) = 1 /\ c.at = "done" /\ c.todo = <<>> BY <1>1, Zenon DEF Prompt, At
<1>3. Unsaved(c, Std) /\ Keeps(c, t) BY <1>1, <1>2, CurFacts, CurIdle DEF Idle
<1>4. Below(1) = {} BY DEF Below
<1>5. \A i \in Std : t[i] \notin Pipes
  <2>1. \A i \in Std : t[i] = c.entry[i] BY <1>3 DEF Keeps, Unsaved
  <2>2. Inherits(c, {}) BY <1>1, <1>2, <1>4, CurFlows
  <2> QED BY <2>1, <2>2 DEF Inherits
<1>6. PICK l \in Lines : cmds' = <<NewCmd(l)>> BY Zenon DEF Prompt
<1>7. PICK d : d = NewCmd(l) OBVIOUS
<1>8. Len(cmds') = 1 /\ cmds'[1] = d BY <1>6, <1>7
<1>9. Cur' = d BY <1>8 DEF Cur
<1>10. fd' = t BY <1>1, Zenon DEF Prompt
<1>11. Owned(d) = {} /\ Apart(d, {}, t) /\ Flows(d, t) BY <1>1, <1>5, <1>7, FirstFlows
<1>12. Below(Len(cmds))' = {} BY <1>8 DEF Below
<1>13. \A a \in 1 .. Len(cmds') - 1 : Apart(cmds[a], Below(a), cmds[a + 1].entry)' BY <1>8
<1> QED BY <1>9, <1>10, <1>11, <1>12, <1>13 DEF FInv

LEMMA StartingFlows ==
  ASSUME Init
  PROVE  FInv
<1>1. PICK t : t = fd OBVIOUS
<1>2. \A i \in Std : t[i] \notin Pipes
  <2>1. t = [h \in Handles |-> CASE h = STDIN -> "in" [] h = STDOUT -> "out" [] h = STDERR -> "err" [] OTHER -> NULL]
    BY <1>1, Zenon DEF Init
  <2>2. \A h \in Std : h \in Handles /\ t[h] \in {"in", "out", "err"} BY <2>1, HandleFacts DEF Std, STDIN, STDOUT, STDERR
  <2> QED BY <2>2, PipesAssumption
<1>3. PICK l \in Lines : cmds = <<NewCmd(l)>> BY Zenon DEF Init
<1>4. PICK d : d = NewCmd(l) OBVIOUS
<1>5. Len(cmds) = 1 /\ cmds[1] = d BY <1>3, <1>4
<1>6. Cur = d BY <1>5 DEF Cur
<1>7. Owned(d) = {} /\ Apart(d, {}, t) /\ Flows(d, t) BY <1>1, <1>2, <1>4, FirstFlows
<1>8. Below(Len(cmds)) = {} BY <1>5 DEF Below
<1> QED BY <1>1, <1>5, <1>6, <1>7, <1>8 DEF FInv

-----------------------------------------------------------------------------
LEMMA NextFlows ==
  ASSUME IInv, FInv, NeverFull, [Next]_vars
  PROVE  FInv'
<1>1. CASE DosCall BY <1>1, CallKeepsFlows
<1>2. CASE \/ TopEnd \/ TopFails \/ CreatePipeFails \/ RedirBadName \/ RedirFailed \/ RunRaises
           \/ OpenPipeFails \/ Interrupt
  BY <1>2, FailingFlows
<1>3. CASE TopSkip \/ TopStart BY <1>3, TopFlows
<1>4. CASE CreatePipe BY <1>4, CreatingFlows
<1>5. CASE UnredirDone \/ UnredirNext \/ Kill \/ Remove BY <1>5, EndingFlows
<1>6. CASE UnredirOpenFails BY <1>6, EndingFlows, FailingFlows
<1>7. CASE OpenPipe BY <1>7, OpeningPipeFlows
<1>8. CASE RedirDone \/ RedirAssigned \/ RedirSave BY <1>8, RedirFlows
<1>9. CASE RedirOpenFails BY <1>9, RedirFlows, RunFlows
<1>10. CASE RedirOpen BY <1>10, OpeningFileFlows
<1>11. CASE Run \/ RunIff BY <1>11, RunFlows
<1>12. CASE RunGroup BY <1>12, GroupFlows
<1>13. CASE Return BY <1>13, ReturningFlows
<1>14. CASE UnredirOpen BY <1>14, OpeningInputFlows
<1>15. CASE Prompt BY <1>15, PromptingFlows
<1>16. CASE UNCHANGED vars
  <2>1. fd' = fd /\ disk' = disk /\ cmds' = cmds BY <1>16 DEF vars
  <2>2. Cur' = Cur BY <2>1 DEF Cur
  <2>3. \A a : Below(a)' = Below(a) BY <2>1 DEF Below, Owned, Piped
  <2>4. \A a \in 1 .. Len(cmds) - 1 : Apart(cmds[a], Below(a), cmds[a + 1].entry)' BY <2>1, <2>3 DEF FInv
  <2>5. Apart(Cur, Below(Len(cmds)), fd)' BY <2>1, <2>2, <2>3 DEF FInv
  <2>6. (Below(Len(cmds)) \cup Owned(Cur) \subseteq disk)' /\ Flows(Cur, fd)' BY <2>1, <2>2, <2>3 DEF FInv
  <2> QED BY <2>1, <2>4, <2>5, <2>6 DEF FInv
<1>17. Next => DosCall \/ Command \/ Interrupt \/ Prompt BY DEF Next
<1>18. Command => \/ TopEnd \/ TopFails \/ TopSkip \/ TopStart \/ CreatePipe \/ CreatePipeFails \/ OpenPipe
                  \/ OpenPipeFails \/ RedirDone \/ RedirBadName \/ RedirAssigned \/ RedirSave \/ RedirOpen
                  \/ RedirOpenFails \/ RedirFailed \/ Run \/ RunRaises \/ RunIff \/ RunGroup \/ Return
                  \/ UnredirDone \/ UnredirNext \/ UnredirOpen \/ UnredirOpenFails \/ Kill \/ Remove
  BY Zenon DEF Command
<1> QED BY <1>1, <1>2, <1>3, <1>4, <1>5, <1>6, <1>7, <1>8, <1>9, <1>10, <1>11, <1>12, <1>13, <1>14, <1>15, <1>16,
           <1>17, <1>18

\* The files of two activations of command() always differ, and a standard
\* handle is open on a file of the activation that works, or on what it was
\* open on when that began: open_pipe(), redir(), unredir() and killpipes()
\* never mix up the pipes of a line and of the groups in it.
THEOREM FilesKeptApart == Spec /\ NoIffPipes /\ []NeverFull => []FInv
<1>1. Init => FInv BY StartingFlows
<1>2. IInv /\ FInv /\ NeverFull /\ [Next]_vars => FInv' BY NextFlows
<1> QED BY <1>1, <1>2, Invariant, PTL DEF Spec

\* While a stage runs, its output goes to the pipe that was opened for it and
\* its input comes from the pipe of the stage before, and these are two files;
\* no pipe file is deleted while a standard handle is open on it.
THEOREM PipesKeepTheirFiles == Spec /\ NoIffPipes /\ []NeverFull => []PipesFlow
<1>1. IInv /\ FInv => PipesFlow
  <2> SUFFICES ASSUME IInv, FInv PROVE PipesFlow OBVIOUS
  <2>1. PICK c, t, l : c = Cur /\ t = fd /\ l = Below(Len(cmds)) OBVIOUS
  <2>2. c \in Activations /\ disk \subseteq Pipes BY <2>1, CurFacts
  <2>3. /\ Inherits(c, l) /\ StdFrom(c, t) /\ Names(c) /\ l \subseteq disk /\ Owned(c) \subseteq disk
        /\ InputFlows(c, t) /\ OutputFlows(c, t)
    BY <2>1, CurFlows DEF Flows
  <2>4. ASSUME At("run")
        PROVE  /\ c.fPipeOpen => /\ t[STDOUT] = c.pszOutPipe
                                 /\ Sep = "|&" => t[STDERR] = c.pszOutPipe
                                 /\ c.pszOutPipe # c.pszInPipe
               /\ c.naStd[STDIN] # 0 /\ (\A i \in DOMAIN IO : IO[i] # "<") => t[STDIN] = c.pszInPipe
    <3>1. c.at = "run" /\ c.todo = <<>> BY <2>1, <2>4 DEF At
    <3>2. Sep = "|&" => BothPiped(c) BY <2>1 DEF Sep, Stage, BothPiped
    <3>3. IO = IOOf(c) BY <2>1, OpIs
    <3>4. (\A i \in DOMAIN IO : IO[i] # "<") => InputKept(c) BY <3>3 DEF InputKept, Begun
    <3>5. c.fPipeOpen => t[STDOUT] = c.pszOutPipe /\ (BothPiped(c) => t[STDERR] = c.pszOutPipe)
      BY <2>3, <3>1, NoneQueued DEF OutputFlows, Staged
    <3>6. c.fPipeOpen => c.pszOutPipe # c.pszInPipe BY <2>3, <3>1 DEF Names
    <3>7. InputKept(c) /\ c.naStd[STDIN] # 0 => t[STDIN] = c.pszInPipe BY <2>3, <3>1 DEF InputFlows, Staged
    <3> QED BY <3>2, <3>4, <3>5, <3>6, <3>7
  <2>5. ASSUME NEW i \in Std, t[i] \in Pipes PROVE t[i] \in disk
    <3>1. t[i] \in l \cup Piped(c) BY <2>3, <2>5, StdInFiles
    <3>2. CASE c.at # "done" BY <2>3, <3>1, <3>2 DEF Owned
    <3>3. CASE c.at = "done"
      <4>1. c.todo = <<>>
        <5>1. PICK s \in SUBSET (HandlesOrNone) : Doing(c, t, s) BY <2>1 DEF IInv
        <5> QED BY <3>3, <5>1 DEF Doing
      <4>2. Unsaved(c, Std) /\ Keeps(c, t) BY <2>1, <3>3, <4>1, CurFacts, CurIdle DEF Idle
      <4>3. t[i] = c.entry[i] BY <4>2 DEF Keeps, Unsaved
      <4> QED BY <2>3, <2>5, <4>3 DEF Inherits
    <3> QED BY <3>2, <3>3
  <2> QED BY <2>1, <2>4, <2>5 DEF PipesFlow
<1> QED BY <1>1, Invariant, FilesKeptApart, PTL
=============================================================================
