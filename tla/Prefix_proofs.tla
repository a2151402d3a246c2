--------------------------- MODULE Prefix_proofs ---------------------------
(***************************************************************************)
(* GLOBAL comes to every directory of any tree, unless it is told to stop, *)
(* and ends where it began; EXCEPT leaves no file hidden: whatever the     *)
(* commands that they run do, and wherever ^C strikes.                     *)
(*                                                                         *)
(* That all directories were visited is not inductive.  It must be known,  *)
(* of each directory that was visited, that those in it were too, or are   *)
(* being visited, or are still to be found by its own activation of        *)
(* _global() (Walk): for which the path that all activations share must be *)
(* one to search with whenever one of them goes on to search (Searching).  *)
(***************************************************************************)
EXTENDS Prefix, SequenceTheorems, WellFoundedInduction, TLAPS

Frames == [dir : Below, at : {"enter", "ask", "command", "next", "find", "stop"},
           prompt : BOOLEAN, seen : SUBSET Below, open : BOOLEAN]

TypeInv ==
  /\ line \in Lines
  /\ at \in {"start", "global", "restore", "hide", "unhide", "done"}
  /\ disk \in SUBSET Below /\ visited \in SUBSET Below /\ gone \in SUBSET Below
  /\ stack \in Seq(Frames)
  /\ mask \in BOOLEAN /\ jumped \in BOOLEAN /\ exception \in BOOLEAN

\* Which command runs, and what it begins with.
Begun ==
  /\ at = "global" <=> stack # <<>>
  /\ at \in {"global", "restore"} => line.op = "GLOBAL"
  /\ at \in {"hide", "unhide"} => line.op = "EXCEPT"
  /\ at = "start" => ~jumped /\ rc = "0" /\ visited = {}

\* The activations that wait are in their loops; only the last one may be about
\* to give back an error.
Waiting ==
  /\ \A i \in DOMAIN stack :
       /\ i < Len(stack) => stack[i].at = "find" /\ stack[i].open
       /\ stack[i].at \in {"next", "find", "stop"} => stack[i].dir \in visited
  /\ stack # <<>> => (rc # "0" <=> Cur.at = "stop")

\* The shared path has no wildcard between a directory and its search, and has
\* none in a loop only when a batch file went elsewhere or a directory is gone.
Searching ==
  stack # <<>> =>
    /\ Len(stack) > 1 /\ Cur.at \in {"enter", "ask", "command", "next"} => ~mask
    /\ Cur.at = "find" /\ ~mask => Cur.open /\ (jumped \/ gone # {})
    /\ jumped => Cur.at \in {"next", "stop"} \/ (Cur.at = "find" /\ ~mask)

\* The directories in d that are to be visited, and whether that was begun.
Children(d) == {c \in Told : Len(c) = Len(d) + 1 /\ IsPrefix(d, c)}
Covered(d) == d \in visited \/ \E i \in DOMAIN stack : stack[i].dir = d

Undisturbed == rc = "0" /\ ~jumped /\ gone = {}

\* Undisturbed, GLOBAL forgets no directory.
Walk ==
  line.op = "GLOBAL" /\ at # "start" /\ Undisturbed =>
    /\ Covered(Top)
    /\ \A i \in DOMAIN stack : \A c \in stack[i].seen : Covered(c)
    /\ \A d \in visited : \A c \in Children(d) :
         Covered(c) \/ \E i \in DOMAIN stack : stack[i].dir = d /\ c \notin stack[i].seen

\* While a command runs no file of it is hidden but those still to be unhidden,
\* and those that cannot be.
Hiding ==
  /\ hidden \in SUBSET Files /\ todo \in SUBSET Files
  /\ at = "unhide" => hidden \cap Meant \subseteq todo \cup stuck
  /\ Finished("EXCEPT") => hidden \cap Meant \subseteq stuck

IInv ==
  /\ TypeInv /\ Begun /\ Waiting /\ Searching /\ Walk /\ Hiding
  /\ gone = {} => disk = Below
  /\ Finished("GLOBAL") => cwd = Top \/ Top \in gone
-----------------------------------------------------------------------------
(* The activation at hand. *)
CurIs ==
  /\ Len(stack) \in Nat \ {0} /\ DOMAIN stack = 1 .. Len(stack)
  /\ \A i \in DOMAIN stack : stack[i] \in Frames
  /\ Len(stack) \in DOMAIN stack /\ Cur = stack[Len(stack)] /\ Cur \in Frames

LEMMA CurFacts ==
  ASSUME TypeInv, stack # <<>>
  PROVE  CurIs
BY DEF TypeInv, Cur, CurIs

(* Put() changes it, *)
Becomes(f) ==
  /\ stack' \in Seq(Frames) /\ stack' # <<>> /\ Len(stack') = Len(stack)
  /\ DOMAIN stack' = DOMAIN stack /\ stack'[Len(stack)] = f /\ Cur' = f
  /\ \A i \in DOMAIN stack : i # Len(stack) => stack'[i] = stack[i]

LEMMA PutFacts ==
  ASSUME TypeInv, stack # <<>>, NEW f \in Frames, Put(f)
  PROVE  Becomes(f)
BY CurFacts DEF TypeInv, Put, Cur, CurIs, Becomes

(* and Leave() ends it and gives its value to the one before. *)
LeftWith(r) ==
  /\ stack' \in Seq(Frames) /\ Len(stack') = Len(stack) - 1
  /\ DOMAIN stack' = 1 .. Len(stack) - 1 /\ DOMAIN stack' \subseteq DOMAIN stack
  /\ \A i \in DOMAIN stack' :
       /\ stack'[i].dir = stack[i].dir /\ stack'[i].seen = stack[i].seen
       /\ stack'[i].open = stack[i].open
       /\ i < Len(stack) - 1 => stack'[i] = stack[i]
  /\ stack' # <<>> => Cur'.at = IF r = "0" THEN "find" ELSE "stop"
  /\ stack' # <<>> => Cur' = stack'[Len(stack) - 1]
  /\ stack' = <<>> <=> Len(stack) = 1
  /\ rc' = r /\ at' = IF stack' = <<>> THEN "restore" ELSE at

LEMMA LeaveFacts ==
  ASSUME TypeInv, stack # <<>>, NEW r, Leave(r)
  PROVE  LeftWith(r)
<1> DEFINE n == Len(stack) - 1
           up == SubSeq(stack, 1, n)
           Given(i) == IF i = n THEN [up[i] EXCEPT !.at = IF r = "0" THEN "find" ELSE "stop"] ELSE up[i]
<1>1. n \in Nat /\ stack \in Seq(Frames) /\ \A i \in 1 .. n : i \in DOMAIN stack /\ stack[i] \in Frames
  BY CurFacts DEF TypeInv, CurIs
<1>2. \A i \in 1 .. n : up[i] = stack[i] BY <1>1
<1>3. stack' = [i \in 1 .. n |-> Given(i)] /\ rc' = r /\ at' = IF n = 0 THEN "restore" ELSE at BY DEF Leave
<1> HIDE DEF up
<1>4. \A i \in 1 .. n : Given(i) \in Frames BY <1>1, <1>2 DEF Frames
<1>5. \A i \in 1 .. n : /\ Given(i).dir = stack[i].dir /\ Given(i).seen = stack[i].seen /\ Given(i).open = stack[i].open
                        /\ i < n => Given(i) = stack[i]
                        /\ i = n => Given(i).at = IF r = "0" THEN "find" ELSE "stop"
  BY <1>1, <1>2 DEF Frames
<1> HIDE DEF Given
<1>6. stack' \in Seq(Frames) /\ Len(stack') = n /\ DOMAIN stack' = 1 .. n /\ \A i \in 1 .. n : stack'[i] = Given(i)
  BY <1>1, <1>3, <1>4
<1>7. stack' = <<>> <=> n = 0 BY <1>1, <1>6
<1>8. stack' # <<>> => n \in 1 .. n /\ Cur' = stack'[n] BY <1>1, <1>6, <1>7 DEF Cur
<1>9. DOMAIN stack' \subseteq DOMAIN stack BY <1>1, <1>6
<1>10. stack' # <<>> => Cur'.at = IF r = "0" THEN "find" ELSE "stop"
  <2> SUFFICES ASSUME stack' # <<>> PROVE Cur'.at = IF r = "0" THEN "find" ELSE "stop"
    OBVIOUS
  <2>1. n \in 1 .. n /\ Cur' = Given(n) BY <1>6, <1>8
  <2> QED BY <2>1, <1>5
<1>11. \A i \in DOMAIN stack' :
         /\ stack'[i].dir = stack[i].dir /\ stack'[i].seen = stack[i].seen
         /\ stack'[i].open = stack[i].open
         /\ i < n => stack'[i] = stack[i]
  BY <1>5, <1>6
<1>12. Len(stack) = n + 1 /\ (n = 0 <=> Len(stack) = 1) BY CurFacts DEF CurIs
<1> QED BY <1>3, <1>6, <1>7, <1>8, <1>9, <1>10, <1>11, <1>12 DEF LeftWith

(* A directory that GLOBAL has come to stays so, if one whose activation ends *)
(* was visited.                                                               *)
LEMMA StaysCovered ==
  ASSUME visited \subseteq visited', NEW c, Covered(c),
         \A i \in DOMAIN stack : stack[i].dir \in visited' \/ (i \in DOMAIN stack' /\ stack'[i].dir = stack[i].dir)
  PROVE  Covered(c)'
BY DEF Covered

-----------------------------------------------------------------------------
(***************************************************************************)
(* Every step keeps the invariant: GLOBAL.                                 *)
(***************************************************************************)
(* The steps of GLOBAL have nothing to do with hidden files. *)
LEMMA HidesNothing ==
  ASSUME IInv, UNCHANGED except, at' # "unhide", line' = line, line.op = "GLOBAL"
  PROVE  Hiding'
BY DEF IInv, Hiding, Finished, except

(* An activation ends with an error, which the ones before it pass on. *)
LEMMA LeavesWithError ==
  ASSUME IInv, at = "global", NEW r, r # "0", Leave(r), UNCHANGED <<line, mask, except>>,
         visited \subseteq visited', visited' \in SUBSET Below, gone' \in SUBSET Below, disk' \in SUBSET Below,
         gone' = {} => disk' = Below, jumped' \in BOOLEAN, exception' \in BOOLEAN
  PROVE  IInv'
<1>1. stack # <<>> /\ line.op = "GLOBAL" /\ TypeInv /\ Waiting BY DEF IInv, Begun
<1>2. CurIs /\ LeftWith(r) BY <1>1, CurFacts, LeaveFacts
<1>3. TypeInv' BY <1>1, <1>2 DEF TypeInv, LeftWith
<1>4. Begun' BY <1>1, <1>2 DEF Begun, LeftWith
<1>5. Waiting'
  <2>1. ASSUME NEW i \in DOMAIN stack'
        PROVE  /\ i < Len(stack') => stack'[i].at = "find" /\ stack'[i].open
               /\ stack'[i].dir \in visited'
    <3>1. i \in DOMAIN stack /\ i < Len(stack) BY <1>2, <2>1 DEF LeftWith, CurIs
    <3>2. stack[i].at = "find" /\ stack[i].open /\ stack[i].dir \in visited BY <1>1, <3>1 DEF Waiting
    <3> QED BY <1>2, <2>1, <3>2 DEF LeftWith
  <2>2. stack' # <<>> => (rc' # "0" <=> Cur'.at = "stop") BY <1>2 DEF LeftWith
  <2> QED BY <2>1, <2>2 DEF Waiting, Cur
<1>6. Searching' BY <1>2 DEF Searching, LeftWith, Cur
<1>7. Walk' BY <1>2 DEF Walk, Undisturbed, LeftWith
<1>8. at' # "unhide" /\ at' # "done" BY <1>2 DEF LeftWith
<1>9. Hiding' BY <1>1, <1>8, HidesNothing
<1> QED BY <1>3, <1>4, <1>5, <1>6, <1>7, <1>8, <1>9 DEF IInv, Finished

LEMMA StartsStep == ASSUME IInv, GlobalStarts PROVE IInv'
<1> DEFINE f == NewFrame(Top, Opt("P"))
<1>1. Top \in Below BY PrefixAssumption DEF Top
<1>2. f \in Frames /\ f.at = "enter" /\ f.dir = Top /\ f.seen = {} BY <1>1 DEF Frames, NewFrame, Opt
<1>3. /\ stack' = <<f>> /\ at = "start" /\ at' = "global" /\ line.op = "GLOBAL"
      /\ UNCHANGED <<line, disk, cwd, mask, jumped, exception, rc, visited, gone, except>>
  BY DEF GlobalStarts
<1>4. visited = {} /\ ~jumped /\ rc = "0" /\ TypeInv BY <1>3 DEF IInv, Begun
<1> HIDE DEF f
<1>5. stack' # <<>> /\ Len(stack') = 1 /\ DOMAIN stack' = {1} /\ stack'[1] = f /\ stack' \in Seq(Frames) BY <1>2, <1>3
<1>6. Cur' = f BY <1>5 DEF Cur
<1>7. TypeInv' BY <1>3, <1>4, <1>5 DEF TypeInv
<1>8. Begun' BY <1>3, <1>5 DEF Begun
<1>9. Waiting' BY <1>2, <1>3, <1>4, <1>5, <1>6 DEF Waiting, Cur
<1>10. Searching' BY <1>2, <1>3, <1>4, <1>5, <1>6 DEF Searching, Cur
<1>11. Walk' BY <1>2, <1>3, <1>4, <1>5 DEF Walk, Covered
<1>12. Hiding' BY <1>3, HidesNothing
<1> QED BY <1>3, <1>7, <1>8, <1>9, <1>10, <1>11, <1>12 DEF IInv, Finished
(* An activation ends well: the one before it goes on to search. *)
LEMMA LeavesWell ==
  ASSUME IInv, at = "global", Leave("0"), UNCHANGED <<line, mask, jumped, exception, disk, visited, except>>,
         gone \subseteq gone', gone' \in SUBSET Below,
         Len(stack) > 1 /\ ~mask => jumped \/ gone' # {},
         Len(stack) > 1 /\ jumped => ~mask,
         Undisturbed' => Walk'
  PROVE  IInv'
<1>1. stack # <<>> /\ line.op = "GLOBAL" /\ TypeInv /\ Waiting BY DEF IInv, Begun
<1>2. CurIs /\ LeftWith("0") BY <1>1, CurFacts, LeaveFacts
<1>3. TypeInv' BY <1>1, <1>2 DEF TypeInv, LeftWith
<1>4. Begun' BY <1>1, <1>2 DEF Begun, LeftWith
<1>5. ASSUME NEW i \in DOMAIN stack'
      PROVE  stack'[i].at = "find" /\ stack'[i].open /\ stack'[i].dir \in visited
  <2>1. i \in DOMAIN stack /\ i < Len(stack) BY <1>2, <1>5 DEF LeftWith, CurIs
  <2>2. stack[i].at = "find" /\ stack[i].open /\ stack[i].dir \in visited BY <1>1, <2>1 DEF Waiting
  <2>3. CASE i < Len(stack) - 1 BY <1>2, <1>5, <2>2, <2>3 DEF LeftWith
  <2>4. CASE i = Len(stack) - 1
    <3>1. stack' # <<>> /\ Cur' = stack'[i] BY <1>2, <1>5, <2>1, <2>4 DEF LeftWith, CurIs
    <3> QED BY <1>2, <1>5, <2>2, <3>1 DEF LeftWith
  <2> QED BY <1>2, <2>1, <2>3, <2>4 DEF CurIs
<1>6. stack' # <<>> => Cur'.at = "find" /\ Cur'.open /\ Len(stack) > 1
  <2> SUFFICES ASSUME stack' # <<>> PROVE Cur'.at = "find" /\ Cur'.open /\ Len(stack) > 1
    OBVIOUS
  <2>1. Cur' = stack'[Len(stack) - 1] /\ Len(stack) - 1 \in DOMAIN stack' /\ Len(stack) > 1 BY <1>2 DEF LeftWith, CurIs
  <2> QED BY <1>5, <2>1
<1>7. rc' = "0" BY <1>2 DEF LeftWith
<1>8. Waiting'
  <2>1. stack' # <<>> => (rc' # "0" <=> Cur'.at = "stop") BY <1>6, <1>7
  <2> QED BY <1>5, <2>1 DEF Waiting, Cur
<1>9. Searching'
  <2> SUFFICES ASSUME stack' # <<>>
               PROVE  /\ ~mask' => jumped' \/ gone' # {}
                      /\ jumped' => ~mask'
    BY <1>6 DEF Searching, Cur
  <2> QED BY <1>6
<1>10. Walk' BY DEF Walk
<1>11. at' # "unhide" /\ at' # "done" BY <1>2 DEF LeftWith
<1>12. Hiding' BY <1>1, <1>11, HidesNothing
<1>13. gone' = {} => disk' = Below BY DEF IInv
<1> QED BY <1>3, <1>4, <1>8, <1>9, <1>10, <1>11, <1>12, <1>13 DEF IInv, Finished

(* An activation goes on in its own directory, which it may now have visited. *)
LEMMA GoesOn ==
  ASSUME IInv, at = "global", Cur.at # "stop", NEW f \in Frames, Put(f), f.dir = Cur.dir, f.seen = Cur.seen,
         f.at # "stop", f.at \in {"next", "find"} => Cur.dir \in visited',
         UNCHANGED <<line, at, rc, except>>, visited' \in {visited, visited \cup {Cur.dir}},
         gone \subseteq gone', gone' \in SUBSET Below, disk' \in SUBSET Below, gone' = {} => disk' = Below,
         mask' \in BOOLEAN, jumped' \in BOOLEAN, exception' \in BOOLEAN,
         Undisturbed' => ~jumped, Searching'
  PROVE  IInv'
<1>1. stack # <<>> /\ line.op = "GLOBAL" /\ TypeInv /\ Waiting BY DEF IInv, Begun
<1>2. CurIs /\ Becomes(f) BY <1>1, CurFacts, PutFacts
<1>3. TypeInv' BY <1>1, <1>2 DEF TypeInv, Becomes, CurIs, Frames
<1>4. Begun' BY <1>1, <1>2 DEF IInv, Begun, Becomes
<1>5. Waiting'
  <2>1. ASSUME NEW i \in DOMAIN stack'
        PROVE  /\ i < Len(stack') => stack'[i].at = "find" /\ stack'[i].open
               /\ stack'[i].at \in {"next", "find", "stop"} => stack'[i].dir \in visited'
    <3>1. CASE i = Len(stack) BY <1>2, <3>1 DEF Becomes, CurIs
    <3>2. CASE i # Len(stack)
      <4>1. i \in DOMAIN stack /\ stack'[i] = stack[i] /\ i < Len(stack) /\ Len(stack') = Len(stack)
        BY <1>2, <2>1, <3>2 DEF Becomes, CurIs
      <4>2. /\ i < Len(stack) => stack[i].at = "find" /\ stack[i].open
            /\ stack[i].at \in {"next", "find", "stop"} => stack[i].dir \in visited
        BY <1>1, <4>1 DEF Waiting
      <4> QED BY <4>1, <4>2
    <3> QED BY <3>1, <3>2
  <2>2. rc = "0" BY <1>1 DEF Waiting
  <2>3. Cur'.at # "stop" /\ rc' = "0" BY <1>2, <2>2 DEF Becomes
  <2> QED BY <2>1, <2>3 DEF Waiting, Cur
<1>6. \A i \in DOMAIN stack : stack'[i].dir = stack[i].dir /\ stack'[i].seen = stack[i].seen
  BY <1>2 DEF Becomes, CurIs
<1>7. DOMAIN stack' = DOMAIN stack BY <1>2 DEF Becomes
<1>8. Walk'
  <2> SUFFICES ASSUME Undisturbed'
               PROVE  /\ Covered(Top)'
                      /\ \A i \in DOMAIN stack' : \A c \in stack'[i].seen : Covered(c)'
                      /\ \A d \in visited' : \A c \in Children(d) :
                           Covered(c)' \/ \E i \in DOMAIN stack' : stack'[i].dir = d /\ c \notin stack'[i].seen
    BY DEF Walk, Children, Told, Opt, Covered
  <2>1. /\ Covered(Top)
        /\ \A i \in DOMAIN stack : \A c \in stack[i].seen : Covered(c)
        /\ \A d \in visited : \A c \in Children(d) :
             Covered(c) \/ \E i \in DOMAIN stack : stack[i].dir = d /\ c \notin stack[i].seen
    BY <1>1 DEF IInv, Walk, Undisturbed
  <2>2. \A c : Covered(c) => Covered(c)' BY <1>6, <1>7 DEF Covered
  <2>3. \A i \in DOMAIN stack' : \A c \in stack'[i].seen : Covered(c)' BY <1>6, <1>7, <2>1, <2>2
  <2>4. ASSUME NEW d \in visited', NEW c \in Children(d)
        PROVE  Covered(c)' \/ \E i \in DOMAIN stack' : stack'[i].dir = d /\ c \notin stack'[i].seen
    <3>1. CASE d \in visited BY <1>6, <1>7, <2>1, <2>2, <3>1
    <3>2. CASE d = Cur.dir
      <4>1. Len(stack) \in DOMAIN stack' /\ stack'[Len(stack)].dir = d BY <1>2, <3>2 DEF Becomes, CurIs
      <4> QED BY <2>3, <4>1
    <3> QED BY <3>1, <3>2
  <2> QED BY <2>1, <2>2, <2>3, <2>4
<1>9. Hiding' BY <1>1, HidesNothing
<1> QED BY <1>3, <1>4, <1>5, <1>8, <1>9 DEF IInv, Finished

(* What is known of the activation at hand, where it is at p. *)
LEMMA InFacts ==
  ASSUME IInv, NEW p, In(p)
  PROVE  /\ at = "global" /\ line.op = "GLOBAL" /\ stack # <<>> /\ Cur.at = p /\ TypeInv /\ CurIs
         /\ rc # "0" <=> p = "stop"
         /\ p \in {"enter", "ask", "command"} => ~jumped
         /\ p \in {"next", "find", "stop"} => Cur.dir \in visited
BY CurFacts DEF IInv, Begun, Waiting, Searching, In, CurIs

LEMMA CannotEnterStep == ASSUME IInv, GlobalCannotEnter PROVE IInv'
<1>1. /\ In("enter") /\ Leave(IF Opt("I") THEN "0" ELSE "err") /\ gone' = gone \cup {Cur.dir}
      /\ UNCHANGED <<line, disk, mask, jumped, exception, visited, except>>
  BY DEF GlobalCannotEnter, except
<1>2. at = "global" /\ ~jumped /\ TypeInv /\ CurIs BY <1>1, InFacts
<1>3. gone' \in SUBSET Below /\ gone' # {} /\ gone \subseteq gone' /\ jumped \in BOOLEAN /\ exception \in BOOLEAN
      /\ visited \in SUBSET Below /\ disk \in SUBSET Below
  BY <1>1, <1>2 DEF TypeInv, CurIs, Frames
<1>4. CASE Opt("I")
  <2>1. ~Undisturbed' BY <1>3 DEF Undisturbed
  <2> QED BY <1>1, <1>2, <1>3, <1>4, <2>1, LeavesWell
<1>5. CASE ~Opt("I")
  <2>1. Leave("err") BY <1>1, <1>5
  <2> QED BY <1>1, <1>2, <1>3, <2>1, LeavesWithError
<1> QED BY <1>4, <1>5

LEMMA EntersStep == ASSUME IInv, GlobalEnters PROVE IInv'
<1> DEFINE f == [Cur EXCEPT !.at = IF Cur.prompt THEN "ask" ELSE "command"]
<1>1. /\ In("enter") /\ Put(f)
      /\ UNCHANGED <<line, at, disk, mask, jumped, exception, rc, visited, gone, except>>
  BY DEF GlobalEnters, except
<1>2. at = "global" /\ Cur.at = "enter" /\ ~jumped /\ TypeInv /\ CurIs /\ stack # <<>> BY <1>1, InFacts
<1>3. f \in Frames /\ f.dir = Cur.dir /\ f.seen = Cur.seen /\ f.at \in {"ask", "command"} BY <1>2 DEF CurIs, Frames
<1> HIDE DEF f
<1>4. Becomes(f) BY <1>1, <1>2, <1>3, PutFacts
<1>5. Searching'
  <2>1. Len(stack) > 1 => ~mask BY <1>2 DEF IInv, Searching
  <2> QED BY <1>1, <1>2, <1>3, <1>4, <2>1 DEF Searching, Becomes, Cur
<1>6. gone' = {} => disk' = Below BY <1>1 DEF IInv
<1> QED BY <1>1, <1>2, <1>3, <1>5, <1>6, GoesOn DEF TypeInv

LEMMA AsksStep == ASSUME IInv, GlobalAsks PROVE IInv'
<1>1. In("ask") /\ UNCHANGED <<line, disk, mask, jumped, exception, gone, except>> BY DEF GlobalAsks
<1>2. at = "global" /\ Cur.at = "ask" /\ ~jumped /\ TypeInv /\ CurIs /\ stack # <<>> BY <1>1, InFacts
<1>3. Len(stack) > 1 => ~mask BY <1>2 DEF IInv, Searching
<1>4. gone' = {} => disk' = Below BY <1>1 DEF IInv
<1>5. ASSUME NEW p \in BOOLEAN, Put(Answered(p)), UNCHANGED <<at, rc, visited>>
      PROVE  IInv'
  <2> DEFINE f == Answered(p)
  <2>1. f \in Frames /\ f.dir = Cur.dir /\ f.seen = Cur.seen /\ f.at = "command" BY <1>2 DEF CurIs, Frames, Answered
  <2>2. Put(f) BY <1>5
  <2> HIDE DEF f
  <2>3. Becomes(f) BY <1>2, <2>1, <2>2, PutFacts
  <2>4. Searching' BY <1>1, <1>2, <1>3, <2>1, <2>3 DEF Searching, Becomes, Cur
  <2> QED BY <1>1, <1>2, <1>4, <1>5, <2>1, <2>2, <2>4, GoesOn DEF TypeInv
<1>6. ASSUME Put([Cur EXCEPT !.at = "next"]), visited' = visited \cup {Cur.dir}, UNCHANGED <<at, rc>>
      PROVE  IInv'
  <2> DEFINE f == [Cur EXCEPT !.at = "next"]
  <2>1. f \in Frames /\ f.dir = Cur.dir /\ f.seen = Cur.seen /\ f.at = "next" BY <1>2 DEF CurIs, Frames
  <2>2. Put(f) BY <1>6
  <2> HIDE DEF f
  <2>3. Becomes(f) BY <1>2, <2>1, <2>2, PutFacts
  <2>4. Searching' BY <1>1, <1>2, <1>3, <2>1, <2>3 DEF Searching, Becomes, Cur
  <2> QED BY <1>1, <1>2, <1>4, <1>6, <2>1, <2>2, <2>4, GoesOn DEF TypeInv
<1>7. ASSUME Leave("err"), UNCHANGED visited PROVE IInv' BY <1>1, <1>2, <1>4, <1>7, LeavesWithError DEF TypeInv
<1>8. \/ /\ \E p \in BOOLEAN : Put(Answered(p))
         /\ UNCHANGED <<at, rc, visited>>
      \/ /\ Put([Cur EXCEPT !.at = "next"]) /\ visited' = visited \cup {Cur.dir}
         /\ UNCHANGED <<at, rc>>
      \/ Leave("err") /\ UNCHANGED visited
  BY DEF GlobalAsks
<1> QED BY <1>5, <1>6, <1>7, <1>8

(* What a command may give. *)
LEMMA ResultTypes ==
  ASSUME NEW r \in Results
  PROVE  r[2] \in BOOLEAN /\ r[3] \in BOOLEAN /\ (r[3] => r[1] # "0")
<1>1. r \in {<<"0", FALSE, FALSE>>, <<"err", FALSE, FALSE>>, <<"0", TRUE, FALSE>>, <<"CTRLC", FALSE, TRUE>>}
  BY DEF Results
<1>2. CASE r = <<"0", FALSE, FALSE>> BY <1>2
<1>3. CASE r = <<"err", FALSE, FALSE>> BY <1>3
<1>4. CASE r = <<"0", TRUE, FALSE>> BY <1>4
<1>5. CASE r = <<"CTRLC", FALSE, TRUE>> BY <1>5
<1> QED BY <1>1, <1>2, <1>3, <1>4, <1>5

LEMMA CommandStep == ASSUME IInv, GlobalCommand PROVE IInv'
<1>1. PICK r \in Results, removed \in SUBSET {d \in disk : Cur.dir # d /\ Front(d) = Cur.dir} :
        /\ jumped' = r[2] /\ exception' = r[3]
        /\ disk' = {d \in disk : \A x \in removed : ~IsPrefix(x, d)}
        /\ gone' = gone \cup {d \in disk : \E x \in removed : IsPrefix(x, d)}
                        \cup (IF away THEN {Cur.dir} ELSE {})
        /\ IF r[3] \/ (r[1] # "0" /\ ~Opt("I")) THEN Leave(r[1])
           ELSE Put([Cur EXCEPT !.at = "next"]) /\ UNCHANGED <<at, rc>>
  BY DEF GlobalCommand
<1>2. In("command") /\ visited' = visited \cup {Cur.dir} /\ UNCHANGED <<line, mask, except>> BY DEF GlobalCommand
<1>3. r[2] \in BOOLEAN /\ r[3] \in BOOLEAN /\ (r[3] => r[1] # "0") BY ResultTypes
<1>4. at = "global" /\ Cur.at = "command" /\ ~jumped /\ TypeInv /\ CurIs /\ stack # <<>> BY <1>2, InFacts
<1>5. /\ disk' \in SUBSET Below /\ gone' \in SUBSET Below /\ visited' \in SUBSET Below /\ gone \subseteq gone'
      /\ visited \subseteq visited'
  BY <1>1, <1>2, <1>4 DEF TypeInv, CurIs, Frames
<1>6. gone' = {} => disk' = Below BY <1>1 DEF IInv
<1>7. CASE r[3] \/ (r[1] # "0" /\ ~Opt("I"))
  <2>1. Leave(r[1]) /\ r[1] # "0" BY <1>1, <1>3, <1>7
  <2> QED BY <1>1, <1>2, <1>3, <1>4, <1>5, <1>6, <2>1, LeavesWithError
<1>8. CASE ~(r[3] \/ (r[1] # "0" /\ ~Opt("I")))
  <2> DEFINE f == [Cur EXCEPT !.at = "next"]
  <2>1. f \in Frames /\ f.dir = Cur.dir /\ f.seen = Cur.seen /\ f.at = "next" BY <1>4 DEF CurIs, Frames
  <2>2. Put(f) /\ UNCHANGED <<at, rc>> BY <1>1, <1>8
  <2> HIDE DEF f
  <2>3. Becomes(f) BY <1>4, <2>1, <2>2, PutFacts
  <2>4. Len(stack) > 1 => ~mask BY <1>4 DEF IInv, Searching
  <2>5. Searching' BY <1>2, <2>1, <2>3, <2>4 DEF Searching, Becomes, Cur
  <2> QED BY <1>1, <1>2, <1>3, <1>4, <1>5, <1>6, <2>1, <2>2, <2>5, GoesOn DEF TypeInv
<1> QED BY <1>7, <1>8

LEMMA NextStep == ASSUME IInv, GlobalNext PROVE IInv'
<1>1. /\ In("next") /\ UNCHANGED <<line, disk, jumped, exception, visited, gone, except>>
      /\ IF jumped THEN Leave("0") /\ UNCHANGED mask
         ELSE Put([Cur EXCEPT !.at = "find"]) /\ mask' = TRUE /\ UNCHANGED <<at, rc>>
  BY DEF GlobalNext
<1>2. at = "global" /\ Cur.at = "next" /\ TypeInv /\ CurIs /\ stack # <<>> /\ Cur.dir \in visited BY <1>1, InFacts
<1>3. gone' = {} => disk' = Below BY <1>1 DEF IInv
<1>4. CASE jumped
  <2>1. Len(stack) > 1 => ~mask BY <1>2 DEF IInv, Searching
  <2>2. ~Undisturbed' BY <1>1, <1>4 DEF Undisturbed
  <2> QED BY <1>1, <1>2, <1>4, <2>1, <2>2, LeavesWell DEF TypeInv
<1>5. CASE ~jumped
  <2> DEFINE f == [Cur EXCEPT !.at = "find"]
  <2>1. f \in Frames /\ f.dir = Cur.dir /\ f.seen = Cur.seen /\ f.at = "find" BY <1>2 DEF CurIs, Frames
  <2>2. Put(f) /\ mask' = TRUE /\ UNCHANGED <<at, rc>> BY <1>1, <1>5
  <2> HIDE DEF f
  <2>3. Becomes(f) BY <1>2, <2>1, <2>2, PutFacts
  <2>4. Searching' BY <1>1, <1>5, <2>1, <2>2, <2>3 DEF Searching, Becomes, Cur
  <2> QED BY <1>1, <1>2, <1>3, <1>5, <2>1, <2>2, <2>4, GoesOn DEF TypeInv
<1> QED BY <1>4, <1>5

LEMMA FindsStep == ASSUME IInv, GlobalFinds PROVE IInv'
<1>1. PICK d \in Subdirectories :
        stack' = Append([stack EXCEPT ![Len(stack)] = Goes(d)], NewFrame(d, Cur.prompt))
  BY DEF GlobalFinds
<1>2. /\ In("find") /\ mask' = FALSE
      /\ UNCHANGED <<line, at, disk, jumped, exception, rc, visited, gone, except>>
  BY <1>1 DEF GlobalFinds
<1>3. /\ at = "global" /\ line.op = "GLOBAL" /\ Cur.at = "find" /\ TypeInv /\ CurIs /\ stack # <<>>
      /\ rc = "0" /\ Cur.dir \in visited
  BY <1>2, InFacts
<1> DEFINE n == Len(stack)
           f == Goes(d)
           g == NewFrame(d, Cur.prompt)
<1>4. d \in disk /\ d \in Below /\ ~(Cur.open /\ ~mask) BY <1>1, <1>3 DEF Subdirectories, TypeInv
<1>5. /\ f \in Frames /\ f.dir = Cur.dir /\ f.seen = Cur.seen \cup {d} /\ f.open /\ f.at = "find"
      /\ g \in Frames /\ g.dir = d /\ g.seen = {} /\ g.at = "enter"
  BY <1>3, <1>4 DEF CurIs, Frames, Goes, NewFrame
<1>6. stack' = Append([stack EXCEPT ![n] = f], g) /\ stack \in Seq(Frames) /\ n \in 1 .. Len(stack) /\ n \in Nat
  BY <1>1, <1>3 DEF TypeInv, CurIs
<1> HIDE DEF f, g
<1>7. /\ stack' \in Seq(Frames) /\ stack' # <<>> /\ Len(stack') = n + 1 /\ DOMAIN stack' = 1 .. n + 1
      /\ stack'[n] = f /\ stack'[n + 1] = g
      /\ \A i \in 1 .. n - 1 : stack'[i] = stack[i]
  BY <1>5, <1>6
<1>8. Cur' = g BY <1>7 DEF Cur
<1>9. \A i \in DOMAIN stack : i \in DOMAIN stack' /\ stack'[i].dir = stack[i].dir /\ stack'[i].at = stack[i].at
  <2> SUFFICES ASSUME NEW i \in DOMAIN stack
               PROVE  i \in DOMAIN stack' /\ stack'[i].dir = stack[i].dir /\ stack'[i].at = stack[i].at
    OBVIOUS
  <2>1. CASE i = n BY <1>3, <1>5, <1>7, <2>1 DEF CurIs
  <2>2. CASE i # n
    <3>1. i \in 1 .. n - 1 BY <1>3, <2>2 DEF CurIs
    <3> QED BY <1>6, <1>7, <3>1
  <2> QED BY <2>1, <2>2
<1>9a. \A i \in 1 .. n - 1 : stack'[i] = stack[i] /\ i \in DOMAIN stack /\ i < Len(stack)
  <2>1. \A i \in 1 .. n - 1 : i \in DOMAIN stack /\ i < Len(stack) BY <1>3 DEF CurIs
  <2> QED BY <1>7, <2>1
<1>10. ~jumped BY <1>3, <1>4 DEF IInv, Searching
<1>11. TypeInv' BY <1>2, <1>3, <1>7 DEF TypeInv
<1>12. Begun' BY <1>2, <1>3, <1>7 DEF Begun
<1>13. Waiting'
  <2>1. ASSUME NEW i \in DOMAIN stack'
        PROVE  /\ i < Len(stack') => stack'[i].at = "find" /\ stack'[i].open
               /\ stack'[i].at \in {"next", "find", "stop"} => stack'[i].dir \in visited'
    <3>1. CASE i = n + 1 BY <1>5, <1>6, <1>7, <3>1
    <3>2. CASE i = n BY <1>2, <1>3, <1>5, <1>7, <3>2
    <3>3. CASE i \in 1 .. n - 1
      <4>1. stack'[i] = stack[i] /\ i \in DOMAIN stack /\ i < Len(stack) BY <1>9a, <3>3
      <4>2. stack[i].at = "find" /\ stack[i].open /\ stack[i].dir \in visited BY <4>1 DEF IInv, Waiting
      <4> QED BY <1>2, <4>1, <4>2
    <3> QED BY <1>6, <1>7, <2>1, <3>1, <3>2, <3>3
  <2>2. rc' = "0" /\ Cur'.at = "enter" BY <1>2, <1>3, <1>5, <1>8
  <2> QED BY <2>1, <2>2 DEF Waiting, Cur
<1>14. Searching' BY <1>2, <1>5, <1>8, <1>10 DEF Searching, Cur
<1>15. Walk'
  <2> SUFFICES ASSUME Undisturbed'
               PROVE  /\ Covered(Top)'
                      /\ \A i \in DOMAIN stack' : \A c \in stack'[i].seen : Covered(c)'
                      /\ \A x \in visited' : \A c \in Children(x) :
                           Covered(c)' \/ \E i \in DOMAIN stack' : stack'[i].dir = x /\ c \notin stack'[i].seen
    BY <1>2 DEF Walk, Children, Told, Opt, Covered
  <2>1. /\ Covered(Top)
        /\ \A i \in DOMAIN stack : \A c \in stack[i].seen : Covered(c)
        /\ \A x \in visited : \A c \in Children(x) :
             Covered(c) \/ \E i \in DOMAIN stack : stack[i].dir = x /\ c \notin stack[i].seen
    BY <1>2, <1>3 DEF IInv, Walk, Undisturbed
  <2>2. \A c : Covered(c) => Covered(c)' BY <1>2, <1>9 DEF Covered
  <2>3. Covered(d)' BY <1>5, <1>6, <1>7 DEF Covered
  <2>4. \A i \in DOMAIN stack' : \A c \in stack'[i].seen : c = d \/ Covered(c)
    <3> SUFFICES ASSUME NEW i \in DOMAIN stack', NEW c \in stack'[i].seen PROVE c = d \/ Covered(c)
      OBVIOUS
    <3>1. CASE i = n + 1 BY <1>5, <1>7, <3>1
    <3>2. CASE i = n BY <1>3, <1>5, <1>7, <2>1, <3>2 DEF CurIs
    <3>3. CASE i \in 1 .. n - 1
      <4>1. stack'[i] = stack[i] /\ i \in DOMAIN stack BY <1>9a, <3>3
      <4> QED BY <2>1, <4>1
    <3> QED BY <1>6, <1>7, <3>1, <3>2, <3>3
  <2>5. ASSUME NEW x \in visited', NEW c \in Children(x)
        PROVE  Covered(c)' \/ \E i \in DOMAIN stack' : stack'[i].dir = x /\ c \notin stack'[i].seen
    <3>1. CASE Covered(c) BY <2>2, <3>1
    <3>2. CASE ~Covered(c) /\ c # d
      <4>1. PICK i \in DOMAIN stack : stack[i].dir = x BY <1>2, <2>1, <3>2
      <4>2. i \in DOMAIN stack' /\ stack'[i].dir = x BY <1>9, <4>1
      <4>3. c \notin stack'[i].seen BY <2>4, <3>2, <4>2
      <4> QED BY <4>2, <4>3
    <3> QED BY <2>3, <3>1, <3>2
  <2> QED BY <2>1, <2>2, <2>3, <2>4, <2>5
<1>16. Hiding' BY <1>2, <1>3, HidesNothing
<1>17. gone' = {} => disk' = Below BY <1>2 DEF IInv
<1> QED BY <1>2, <1>3, <1>11, <1>12, <1>13, <1>14, <1>15, <1>16, <1>17 DEF IInv, Finished

LEMMA FindsNoneStep == ASSUME IInv, GlobalFindsNone PROVE IInv'
<1>1. /\ In("find") /\ (exception \/ Subdirectories = {}) /\ Leave(IF exception THEN "CTRLC" ELSE "0")
      /\ UNCHANGED <<line, disk, mask, jumped, exception, visited, gone, except>>
  BY DEF GlobalFindsNone
<1>2. at = "global" /\ line.op = "GLOBAL" /\ Cur.at = "find" /\ TypeInv /\ CurIs /\ stack # <<>> /\ Cur.dir \in visited
  BY <1>1, InFacts
<1>3. gone' = {} => disk' = Below BY <1>1 DEF IInv
<1>4. CASE exception
  <2>1. Leave("CTRLC") BY <1>1, <1>4
  <2> QED BY <1>1, <1>2, <1>3, <2>1, LeavesWithError DEF TypeInv
<1>5. CASE ~exception
  <2>1. Leave("0") /\ Subdirectories = {} BY <1>1, <1>5
  <2>2. LeftWith("0") BY <1>2, <2>1, LeaveFacts
  <2>3. ~mask => Cur.open /\ (jumped \/ gone # {}) BY <1>2 DEF IInv, Searching
  <2>4. jumped => ~mask BY <1>2 DEF IInv, Searching
  <2>5. ASSUME Undisturbed' PROVE Walk'
    <3>1. rc = "0" BY <1>1, InFacts
    <3>2. Undisturbed /\ mask /\ disk = Below BY <1>1, <2>3, <2>5, <3>1 DEF Undisturbed, IInv
    <3>3. /\ Covered(Top)
          /\ \A i \in DOMAIN stack : \A c \in stack[i].seen : Covered(c)
          /\ \A d \in visited : \A c \in Children(d) :
               Covered(c) \/ \E i \in DOMAIN stack : stack[i].dir = d /\ c \notin stack[i].seen
      BY <1>2, <3>2 DEF IInv, Walk
    <3>4. ASSUME NEW i \in DOMAIN stack
          PROVE  \/ i = Len(stack) /\ stack[i].dir = Cur.dir /\ stack[i].seen = Cur.seen
                 \/ i \in DOMAIN stack' /\ stack'[i].dir = stack[i].dir /\ stack'[i].seen = stack[i].seen
      <4>1. CASE i = Len(stack) BY <1>2, <4>1 DEF CurIs
      <4>2. CASE i # Len(stack)
        <5>1. i \in DOMAIN stack' BY <1>2, <2>2, <4>2 DEF CurIs, LeftWith
        <5> QED BY <2>2, <5>1 DEF LeftWith
      <4> QED BY <4>1, <4>2
    <3>5. ASSUME NEW c, Covered(c) PROVE Covered(c)'
      <4>1. \A i \in DOMAIN stack : stack[i].dir \in visited' \/ (i \in DOMAIN stack' /\ stack'[i].dir = stack[i].dir)
        BY <1>1, <1>2, <3>4
      <4> QED BY <1>1, <3>5, <4>1, StaysCovered
    <3>6. \A i \in DOMAIN stack' : \A c \in stack'[i].seen : Covered(c)'
      <4>1. \A i \in DOMAIN stack' : i \in DOMAIN stack /\ stack'[i].seen = stack[i].seen BY <2>2 DEF LeftWith
      <4> QED BY <3>3, <3>5, <4>1
    <3>7. ASSUME NEW d \in visited, NEW c \in Children(d)
          PROVE  Covered(c)' \/ \E i \in DOMAIN stack' : stack'[i].dir = d /\ c \notin stack'[i].seen
      <4>1. CASE Covered(c) BY <3>5, <4>1
      <4>2. CASE ~Covered(c)
        <5>1. PICK i \in DOMAIN stack : stack[i].dir = d /\ c \notin stack[i].seen BY <3>3, <4>2
        <5>2. ~(d = Cur.dir /\ c \notin Cur.seen)
          <6> SUFFICES ASSUME d = Cur.dir, c \notin Cur.seen PROVE c \in Subdirectories
            BY <2>1
          <6>1. c \in Told /\ Len(c) = Len(Cur.dir) + 1 /\ IsPrefix(Cur.dir, c) BY DEF Children
          <6>2. c \in disk \ Cur.seen /\ (c \in HiddenDirs => Opt("H")) BY <3>2, <6>1 DEF Told
          <6> QED BY <3>2, <6>1, <6>2 DEF Subdirectories
        <5> QED BY <3>4, <5>1, <5>2
      <4> QED BY <4>1, <4>2
    <3>8. Covered(Top)' BY <3>3, <3>5
    <3> QED BY <1>1, <3>6, <3>7, <3>8 DEF Walk, Children, Told, Opt, Covered
  <2> QED BY <1>1, <1>2, <2>1, <2>3, <2>4, <2>5, LeavesWell DEF TypeInv
<1> QED BY <1>4, <1>5

LEMMA StopsStep == ASSUME IInv, GlobalStops PROVE IInv'
<1>1. UNCHANGED <<line, disk, mask, jumped, visited, gone, except>> BY DEF GlobalStops
<1>2. gone' = {} => disk' = Below BY <1>1 DEF IInv
<1>3. CASE In("stop")
  <2>1. Leave(rc) /\ exception' = exception BY <1>3 DEF GlobalStops
  <2>2. at = "global" /\ rc # "0" /\ TypeInv BY <1>3, InFacts
  <2> QED BY <1>1, <1>2, <2>1, <2>2, LeavesWithError DEF TypeInv
<1>4. CASE ~In("stop")
  <2>1. In("find") /\ Leave("CTRLC") /\ exception' = TRUE BY <1>4 DEF GlobalStops
  <2>2. at = "global" /\ TypeInv BY <2>1, InFacts
  <2> QED BY <1>1, <1>2, <2>1, <2>2, LeavesWithError DEF TypeInv
<1> QED BY <1>3, <1>4

LEMMA RestoresStep == ASSUME IInv, GlobalRestores PROVE IInv'
<1>1. /\ at = "restore" /\ line.op = "GLOBAL" /\ at' = "done" /\ (cwd' = Top \/ Top \in gone')
      /\ gone' \in {gone, gone \cup {Top}}
      /\ UNCHANGED <<line, exception, rc, disk, stack, mask, jumped, visited, except>>
  BY DEF GlobalRestores
<1>0. Top \in Below BY PrefixAssumption DEF Top
<1>2. TypeInv' BY <1>0, <1>1 DEF IInv, TypeInv
<1>3. Begun' BY <1>1 DEF IInv, Begun
<1>4. stack' = <<>> BY <1>1 DEF IInv, Begun
<1>5. Waiting' BY <1>4 DEF Waiting
<1>6. Searching' BY <1>4 DEF Searching
<1>7. Walk' BY <1>1 DEF IInv, Walk, Undisturbed, Covered, Children, Told, Opt
<1>8. Hiding' BY <1>1, HidesNothing
<1>9. gone' = {} => disk' = Below BY <1>1 DEF IInv
<1> QED BY <1>1, <1>2, <1>3, <1>5, <1>6, <1>7, <1>8, <1>9 DEF IInv, Finished

-----------------------------------------------------------------------------
(***************************************************************************)
(* Every step keeps the invariant: EXCEPT.                                 *)
(***************************************************************************)
(* Its steps have nothing to do with the directories. *)
LEMMA ExceptSteps ==
  ASSUME IInv, ExceptStep, line.op = "EXCEPT", stack = <<>>, at' \in {"hide", "unhide", "done"},
         exception' \in BOOLEAN, Hiding'
  PROVE  IInv'
<1>1. UNCHANGED <<line, disk, stack, mask, jumped, visited, gone>> BY DEF ExceptStep, global
<1>2. TypeInv' BY <1>1 DEF IInv, TypeInv
<1>3. Begun' BY <1>1 DEF Begun
<1>4. Waiting' /\ Searching' /\ Walk' BY <1>1 DEF Waiting, Searching, Walk
<1> QED BY <1>1, <1>2, <1>3, <1>4 DEF IInv, Finished

LEMMA ExceptKeeps ==
  ASSUME IInv,
         \/ ExceptStarts \/ ExceptHides \/ ExceptCannotHide \/ ExceptBreak \/ ExceptCommand
         \/ ExceptUnhides \/ ExceptAgain \/ ExceptEnds
  PROVE  IInv'
<1>1. ExceptStep /\ at \in {"start", "hide", "unhide"} /\ line.op = "EXCEPT" /\ at' \in {"hide", "unhide", "done"}
  BY DEF ExceptStarts, ExceptHides, ExceptCannotHide, ExceptBreak, ExceptCommand, ExceptUnhides, ExceptAgain,
         ExceptEnds, IInv, Begun
<1>2. stack = <<>> /\ exception \in BOOLEAN BY <1>1 DEF IInv, Begun, TypeInv
<1>3. exception' \in BOOLEAN
  <2>1. CASE ExceptCommand
    <3>1. PICK r \in Results : exception' = r[3] BY <2>1 DEF ExceptCommand
    <3> QED BY <3>1, ResultTypes
  <2> QED BY <1>2, <2>1 DEF ExceptStarts, ExceptHides, ExceptCannotHide, ExceptBreak, ExceptUnhides, ExceptAgain,
                            ExceptEnds
<1>4. line' = line BY <1>1 DEF ExceptStep
<1>5. hidden \in SUBSET Files /\ todo \in SUBSET Files /\ (at = "unhide" => hidden \cap Meant \subseteq todo \cup stuck) BY DEF IInv, Hiding
<1>6. Hiding'
  <2>1. CASE ExceptStarts BY <1>5, <2>1 DEF ExceptStarts, Hiding, Finished
  <2>2. CASE ExceptHides
    <3>1. PICK f \in todo : hidden' = hidden \cup {f} BY <2>2 DEF ExceptHides
    <3> QED BY <1>5, <2>2, <3>1 DEF ExceptHides, Hiding, Finished
  <2>3. CASE ExceptCannotHide BY <1>5, <2>3 DEF ExceptCannotHide, Hiding, Finished
  <2>4. CASE ExceptBreak BY <1>5, <2>4 DEF ExceptBreak, Hiding, Finished
  <2>5. CASE ExceptCommand BY <1>5, <2>5 DEF ExceptCommand, Hiding, Finished
  <2>6. CASE ExceptUnhides
    <3>1. Meant' = Meant BY <2>6 DEF ExceptUnhides, Meant
    <3>2. hidden' \in SUBSET Files /\ todo' \in SUBSET Files BY <1>5, <2>6 DEF ExceptUnhides
    <3>3. hidden' \cap Meant \subseteq todo' \cup stuck' BY <1>5, <2>6 DEF ExceptUnhides
    <3> QED BY <2>6, <3>1, <3>2, <3>3 DEF ExceptUnhides, Hiding, Finished
  <2>7. CASE ExceptAgain BY <1>5, <2>7 DEF ExceptAgain, Hiding, Finished
  <2>8. CASE ExceptEnds
    <3>1. Meant' = Meant BY <2>8 DEF ExceptEnds, Meant
    <3> QED BY <1>5, <2>8, <3>1 DEF ExceptEnds, Hiding, Finished
  <2> QED BY <2>1, <2>2, <2>3, <2>4, <2>5, <2>6, <2>7, <2>8
<1> QED BY <1>1, <1>2, <1>3, <1>6, ExceptSteps

-----------------------------------------------------------------------------
LEMMA InitInv == PrefixInit => IInv
<1> SUFFICES ASSUME PrefixInit PROVE IInv
  OBVIOUS
<1>1. Top \in Below BY PrefixAssumption DEF Top
<1>2. TypeInv
  <2>1. <<>> \in Seq(Frames) OBVIOUS
  <2> QED BY <2>1 DEF PrefixInit, TypeInv
<1>3. Begun BY DEF PrefixInit, Begun
<1>4. Waiting /\ Searching /\ Walk BY DEF PrefixInit, Waiting, Searching, Walk
<1>5. Hiding BY DEF PrefixInit, Hiding, Finished
<1> QED BY <1>2, <1>3, <1>4, <1>5 DEF IInv, PrefixInit, Finished

\* Each action of GLOBAL and EXCEPT keeps the invariant.
THEOREM Invariant == PrefixSpec => []IInv
<1>1. PrefixInit => IInv BY InitInv
<1>2. IInv /\ [PrefixNext]_prefixVars => IInv'
  <2> SUFFICES ASSUME IInv, [PrefixNext]_prefixVars PROVE IInv'
    OBVIOUS
  <2>1. CASE PrefixNext
    BY <2>1, StartsStep, CannotEnterStep, EntersStep, AsksStep, CommandStep, NextStep, FindsStep, FindsNoneStep,
       StopsStep, RestoresStep, ExceptKeeps DEF PrefixNext
  <2>2. CASE UNCHANGED prefixVars
    <3>1. TypeInv' BY <2>2 DEF IInv, TypeInv, prefixVars
    <3>2. Begun' BY <2>2 DEF IInv, Begun, prefixVars
    <3>3. Waiting' BY <2>2 DEF IInv, Waiting, Cur, prefixVars
    <3>4. Searching' BY <2>2 DEF IInv, Searching, Cur, prefixVars
    <3>5. Walk' BY <2>2 DEF IInv, Walk, Undisturbed, Covered, Children, Told, Opt, prefixVars
    <3>6. Hiding'
      <4>1. Meant' = Meant BY <2>2 DEF Meant, prefixVars
      <4>2. Hiding BY DEF IInv
      <4> QED BY <2>2, <4>1, <4>2 DEF Hiding, Finished, prefixVars
    <3> QED BY <2>2, <3>1, <3>2, <3>3, <3>4, <3>5, <3>6 DEF IInv, Finished, prefixVars
  <2> QED BY <2>1, <2>2
<1> QED BY <1>1, <1>2, PTL DEF PrefixSpec

(* The directory that one to be visited is in is the top one, or to be visited *)
(* itself.                                                                     *)
LEMMA ParentReachable ==
  ASSUME NEW d \in Reachable({}), d # Top
  PROVE  /\ Len(d) \in Nat \ {0} /\ Len(Front(d)) = Len(d) - 1
         /\ Front(d) = Top \/ Front(d) \in Reachable({})
         /\ d \in Children(Front(d))
<1> DEFINE S == UNION {Range(x) : x \in Below}
           n == Len(d) - 1
           p == SubSeq(d, 1, n)
<1>1. d \in Told /\ d \in Below BY DEF Reachable, Told
<1>2. Below \subseteq Seq(S) /\ Front(d) \in Below BY <1>1, PrefixAssumption
<1>3. Top \in Below /\ \A x \in Below : IsPrefix(Top, x) BY PrefixAssumption DEF Top
<1> HIDE DEF S
<1>4. d \in Seq(S) /\ Top \in Seq(S) /\ Len(d) \in Nat BY <1>1, <1>2, <1>3
<1>5. Len(d) > 0
  <2> SUFFICES ASSUME Len(d) = 0 PROVE FALSE
    BY <1>4
  <2>1. Len(Top) = 0 BY <1>1, <1>3, <1>4 DEF IsPrefix
  <2>2. Top = <<>> /\ d = <<>> BY <1>4, <2>1
  <2> QED BY <2>2
<1>6. n \in Nat /\ p \in Seq(S) /\ Len(p) = n
  <2>1. n \in Nat /\ n \in Int /\ 1 \in Int /\ \A i \in 1 .. n : d[i] \in S BY <1>4, <1>5
  <2>2. p \in Seq(S) BY <2>1, SubSeqProperties
  <2>3. Len(p) = IF 1 <= n THEN n - 1 + 1 ELSE 0 BY <2>1, SubSeqProperties
  <2> HIDE DEF p, n
  <2>4. Len(p) = n BY <2>1, <2>3
  <2> QED BY <2>1, <2>2, <2>4
<1>7. Front(d) = p BY DEF Front
<1>8. \A i \in 1 .. n : i \in 1 .. Len(d) /\ SubSeq(p, 1, i) = SubSeq(d, 1, i) BY <1>4, <1>5, <1>6
<1>9. SubSeq(p, 1, n) = p BY <1>4, <1>5, <1>6
<1> HIDE DEF p
<1>10. p = Top \/ p \in Reachable({})
  <2>1. CASE n = 0
    <3>1. p = <<>> BY <1>6, <2>1, EmptySeq
    <3>2. Len(Top) = 0 BY <1>2, <1>3, <1>4, <1>6, <1>7, <2>1 DEF IsPrefix
    <3> QED BY <1>4, <3>1, <3>2
  <2>2. CASE n # 0
    <3>1. n \in 1 .. n /\ p = SubSeq(d, 1, n) BY <1>6, <1>8, <1>9, <2>2
    <3>2. p \in Told BY <1>2, <1>7, <1>8, <3>1 DEF Reachable
    <3>3. \A i \in 1 .. Len(p) : SubSeq(p, 1, i) \in Below => SubSeq(p, 1, i) \in Told \ {}
      BY <1>6, <1>8 DEF Reachable
    <3> QED BY <3>2, <3>3 DEF Reachable
  <2> QED BY <2>1, <2>2
<1>11. IsPrefix(p, d) BY <1>4, <1>6, <1>9 DEF IsPrefix, p
<1> QED BY <1>1, <1>4, <1>5, <1>6, <1>7, <1>10, <1>11 DEF Children
(* Every set of natural numbers that is not empty has a least element. *)
LEMMA LeastElement ==
  ASSUME NEW T, T \subseteq Nat, T # {}
  PROVE  \E n \in T : \A m \in T : n <= m
<1> DEFINE R == {ss \in Nat \X Nat : ss[1] < ss[2]}
<1>1. IsWellFoundedOn(R, Nat) BY NatLessThanWellFounded, Zenon DEF OpToRel
<1>2. \E x \in T : \A y \in T : <<y, x>> \notin R
  <2> HIDE DEF R
  <2> QED BY <1>1, WFMin
<1>3. PICK x \in T : \A y \in T : <<y, x>> \notin R BY <1>2
<1>4. ASSUME NEW y \in T PROVE x <= y
  <2>1. ~(<<y, x>> \in Nat \X Nat /\ <<y, x>>[1] < <<y, x>>[2]) BY <1>3
  <2> QED BY <2>1
<1> QED BY <1>4

(* When nothing is left to be done GLOBAL was everywhere. *)
LEMMA AllVisited ==
  ASSUME IInv, Finished("GLOBAL"), Undisturbed
  PROVE  Reachable({}) \subseteq visited
<1> DEFINE Missed == {d \in Reachable({}) : d \notin visited}
           Lengths == {Len(d) : d \in Missed}
<1>1. stack = <<>> BY DEF IInv, Begun, Finished
<1>2. Top \in visited /\ \A d \in visited : \A c \in Children(d) : c \in visited
  <2>1. Covered(Top) /\ \A d \in visited : \A c \in Children(d) : Covered(c) BY <1>1 DEF IInv, Walk, Finished
  <2> QED BY <1>1, <2>1 DEF Covered
<1> SUFFICES ASSUME NEW e \in Missed PROVE FALSE
  OBVIOUS
<1>3. \A d \in Missed : d # Top /\ Len(d) \in Nat BY <1>2, ParentReachable
<1> HIDE DEF Missed
<1>4. Lengths \in SUBSET Nat /\ Lengths # {} BY <1>3
<1>5. \A n \in Lengths : \E d \in Missed : Len(d) = n OBVIOUS
<1>6. \A d \in Missed : Len(d) \in Lengths OBVIOUS
<1> HIDE DEF Lengths
<1>7. PICK d \in Missed : \A x \in Missed : Len(x) >= Len(d)
  <2>1. PICK n \in Lengths : \A m \in Lengths : n <= m BY <1>4, LeastElement
  <2>2. PICK d \in Missed : Len(d) = n BY <1>5
  <2>3. \A x \in Missed : Len(x) >= Len(d) BY <1>3, <1>6, <2>1, <2>2
  <2> QED BY <2>3
<1>8. /\ d \in Reachable({}) /\ d # Top /\ d \notin visited BY <1>3 DEF Missed
<1>9. /\ Len(Front(d)) = Len(d) - 1 /\ Len(d) \in Nat
      /\ Front(d) = Top \/ Front(d) \in Reachable({})
      /\ d \in Children(Front(d))
  BY <1>8, ParentReachable
<1>10. Front(d) \notin visited BY <1>2, <1>8, <1>9
<1>11. Front(d) \in Missed BY <1>2, <1>9, <1>10 DEF Missed
<1> QED BY <1>7, <1>9, <1>11

\* Both commands put back what they changed, but for a directory that cannot be
\* entered again and for the files that EXCEPT's list does not mean any more when the
\* directory was changed, and GLOBAL misses no directory:
\* however deep the tree is, whatever the commands that they run return, change
\* and remove, and wherever ^C is pressed.
THEOREM PrefixesPutBack == PrefixSpec => []PrefixesReturn
<1>1. IInv => PrefixesReturn
  <2> SUFFICES ASSUME IInv PROVE GlobalVisits /\ NoneStaysHidden
    BY DEF PrefixesReturn
  <2>1. GlobalVisits BY AllVisited DEF GlobalVisits, IInv, Undisturbed
  <2>2. NoneStaysHidden BY DEF NoneStaysHidden, IInv, Hiding
  <2> QED BY <2>1, <2>2
<1> QED BY <1>1, Invariant, PTL

=============================================================================
