------------------------- MODULE Environment_proofs -------------------------
(***************************************************************************)
(* Proofs about the lists of the shell and SETLOCAL: every list stays      *)
(* within its memory and every entry is found by its name; ENDLOCAL brings *)
(* back what SETLOCAL saved.                                               *)
(*                                                                         *)
(* The first part is about the functions on lists, the second about the    *)
(* inductive invariant.                                                    *)
(***************************************************************************)
EXTENDS Environment, SequenceTheorems, FiniteSetTheorems, WellFoundedInduction, TLAPS

-----------------------------------------------------------------------------
(***************************************************************************)
(* Searching a list.                                                       *)
(***************************************************************************)
\* Every set of natural numbers that is not empty has a least element.
LEMMA LeastElement ==
  ASSUME NEW T, T \subseteq Nat, T # {}
  PROVE  \E n \in T : \A m \in T : n <= m
<1> DEFINE R == {ss \in Nat \X Nat : ss[1] < ss[2]}
<1>1. IsWellFoundedOn(R, Nat) BY NatLessThanWellFounded, Zenon DEF OpToRel
<1>2. \E x \in T : \A y \in T : <<y, x>> \notin R BY <1>1, WFMin
<1>3. PICK n \in T : \A y \in T : <<y, n>> \notin R BY <1>2
<1>4. \A m \in T : n <= m
  <2> TAKE m \in T
  <2>1. m \in Nat /\ n \in Nat OBVIOUS
  <2>2. m < n => <<m, n>> \in R BY <2>1
  <2> QED BY <1>3, <2>1, <2>2
<1> QED BY <1>4

\* What get_list() finds is the first entry that the name matches.
LEMMA FoundFirst ==
  ASSUME NEW l, NEW s \in Seq(Entry), NEW n
  PROVE  /\ Found(l, s, n) \in 0 .. Len(s)
         /\ Found(l, s, n) = 0 => \A i \in DOMAIN s : ~Matches(l, n, s[i][1])
         /\ Found(l, s, n) # 0 => Matches(l, n, s[Found(l, s, n)][1])
         /\ \A i \in DOMAIN s : i < Found(l, s, n) => ~Matches(l, n, s[i][1])
<1> DEFINE I == {i \in 1 .. Len(s) : Matches(l, n, s[i][1])}
<1>1. Len(s) \in Nat /\ DOMAIN s = 1 .. Len(s) OBVIOUS
<1>2. Found(l, s, n) = IF I # {} THEN CHOOSE x \in I : \A y \in I : x <= y ELSE 0
  BY DEF Found, SelectInSeq, Min
<1>3. CASE I = {}
  <2>1. Found(l, s, n) = 0 BY <1>2, <1>3
  <2>2. \A i \in 1 .. Len(s) : ~Matches(l, n, s[i][1]) BY <1>3
  <2> HIDE DEF I
  <2> QED BY <1>1, <2>1, <2>2
<1>4. CASE I # {}
  <2>1. I \subseteq Nat BY <1>1
  <2>2. \E x \in I : \A y \in I : x <= y BY <1>4, <2>1, LeastElement
  <2> DEFINE f == CHOOSE x \in I : \A y \in I : x <= y
  <2>3. f \in I /\ \A y \in I : f <= y BY <2>2
  <2>4. Found(l, s, n) = f BY <1>2, <1>4
  <2> HIDE DEF f
  <2>5. f \in 1 .. Len(s) /\ Matches(l, n, s[f][1]) BY <2>3
  <2>6. \A i \in 1 .. Len(s) : i < f => ~Matches(l, n, s[i][1])
    <3> SUFFICES ASSUME NEW i \in 1 .. Len(s), i < f, Matches(l, n, s[i][1]) PROVE FALSE
      OBVIOUS
    <3>1. i \in I OBVIOUS
    <3>2. f <= i BY <2>3, <3>1
    <3> HIDE DEF I
    <3> QED BY <1>1, <2>5, <3>2
  <2> HIDE DEF I
  <2> QED BY <1>1, <2>4, <2>5, <2>6
<1> QED BY <1>3, <1>4

\* What is left when an entry is deleted.
LEMMA Removed ==
  ASSUME NEW s \in Seq(Entry), NEW i \in 1 .. Len(s)
  PROVE  /\ RemoveAt(s, i) \in Seq(Entry)
         /\ Len(RemoveAt(s, i)) = Len(s) - 1
         /\ \A j \in 1 .. Len(s) - 1 : RemoveAt(s, i)[j] = IF j < i THEN s[j] ELSE s[j + 1]
<1> DEFINE a == SubSeq(s, 1, i - 1)
           b == SubSeq(s, i + 1, Len(s))
<1>1. Len(s) \in Nat /\ i \in Nat /\ i - 1 \in Int /\ i + 1 \in Int OBVIOUS
<1>2. \A j \in 1 .. Len(s) : s[j] \in Entry OBVIOUS
<1>3. /\ a \in Seq(Entry) /\ Len(a) = i - 1
      /\ \A j \in 1 .. i - 1 : a[j] = s[j]
  <2>1. \A j \in 1 .. i - 1 : s[j] \in Entry BY <1>1, <1>2
  <2>2. /\ a \in Seq(Entry) /\ Len(a) = (IF 1 <= i - 1 THEN (i - 1) - 1 + 1 ELSE 0)
        /\ \A j \in 1 .. (i - 1) - 1 + 1 : a[j] = s[1 + j - 1]
    BY <1>1, <2>1, SubSeqProperties
  <2> HIDE DEF a
  <2>3. \A j \in 1 .. i - 1 : 1 + j - 1 = j /\ j \in 1 .. (i - 1) - 1 + 1 BY <1>1
  <2> QED BY <1>1, <2>2, <2>3
<1>4. /\ b \in Seq(Entry) /\ Len(b) = Len(s) - i
      /\ \A j \in 1 .. Len(s) - i : b[j] = s[i + j]
  <2>1. \A j \in i + 1 .. Len(s) : s[j] \in Entry BY <1>1, <1>2
  <2>2. /\ b \in Seq(Entry) /\ Len(b) = (IF i + 1 <= Len(s) THEN Len(s) - (i + 1) + 1 ELSE 0)
        /\ \A j \in 1 .. Len(s) - (i + 1) + 1 : b[j] = s[(i + 1) + j - 1]
    BY <1>1, <2>1, SubSeqProperties
  <2> HIDE DEF b
  <2>3. \A j \in 1 .. Len(s) - i : (i + 1) + j - 1 = i + j /\ j \in 1 .. Len(s) - (i + 1) + 1 BY <1>1
  <2> QED BY <1>1, <2>2, <2>3
<1>5. RemoveAt(s, i) = a \o b BY DEF RemoveAt
<1> HIDE DEF a, b
<1>6. /\ a \o b \in Seq(Entry) /\ Len(a \o b) = Len(a) + Len(b)
      /\ \A j \in 1 .. Len(a) + Len(b) : (a \o b)[j] = IF j <= Len(a) THEN a[j] ELSE b[j - Len(a)]
  BY <1>3, <1>4, ConcatProperties
<1>7. \A j \in 1 .. Len(s) - 1 : (a \o b)[j] = IF j < i THEN s[j] ELSE s[j + 1]
  <2> TAKE j \in 1 .. Len(s) - 1
  <2>1. j \in 1 .. Len(a) + Len(b) BY <1>1, <1>3, <1>4
  <2>2. CASE j < i
    <3>1. j \in 1 .. i - 1 /\ j <= Len(a) BY <1>1, <1>3, <2>2
    <3> QED BY <1>3, <1>6, <2>1, <2>2, <3>1
  <2>3. CASE ~(j < i)
    <3>1. ~(j <= Len(a)) /\ j - Len(a) \in 1 .. Len(s) - i /\ i + (j - Len(a)) = j + 1 BY <1>1, <1>3, <2>3
    <3> QED BY <1>4, <1>6, <2>1, <2>3, <3>1
  <2> QED BY <2>2, <2>3
<1>8. Len(a \o b) = Len(s) - 1 BY <1>1, <1>3, <1>4, <1>6
<1> QED BY <1>5, <1>6, <1>7, <1>8

-----------------------------------------------------------------------------
(***************************************************************************)
(* How much memory a list takes.  Used() is a fold, whose value is the     *)
(* number of the bytes <<i, k>>: the k-th byte of the i-th entry.          *)
(***************************************************************************)
Cells(s, S) == {c \in S \X Nat : c[2] \in 1 .. Bytes(s[c[1]])}

\* An entry has at least three bytes.
LEMMA BytesType ==
  ASSUME NEW e \in Entry
  PROVE  Bytes(e) \in Nat
BY DEF Entry, Bytes

\* The bytes of one entry are as many as Bytes says.
LEMMA CellsOfOne ==
  ASSUME NEW x, NEW n \in Nat
  PROVE  IsFiniteSet({x} \X (1 .. n)) /\ Cardinality({x} \X (1 .. n)) = n
<1>1. IsFiniteSet({x}) /\ Cardinality({x}) = 1 BY FS_Singleton
<1>2. IsFiniteSet(1 .. n) /\ Cardinality(1 .. n) = n BY FS_Interval
<1>3. /\ IsFiniteSet({x} \X (1 .. n))
      /\ Cardinality({x} \X (1 .. n)) = Cardinality({x}) * Cardinality(1 .. n)
  BY <1>1, <1>2, FS_Product
<1> QED BY <1>1, <1>2, <1>3

\* Lists have finitely many bytes.
LEMMA CellsFinite ==
  ASSUME NEW s \in Seq(Entry), NEW S \in SUBSET DOMAIN s
  PROVE  IsFiniteSet(Cells(s, S)) /\ IsFiniteSet(S) /\ Cardinality(Cells(s, S)) \in Nat
<1>1. Len(s) \in Nat /\ DOMAIN s = 1 .. Len(s) OBVIOUS
<1>2. IsFiniteSet(S)
  <2>1. IsFiniteSet(1 .. Len(s)) BY <1>1, FS_Interval
  <2> QED BY <1>1, <2>1, FS_Subset
<1> DEFINE Of(x) == {x} \X (1 .. Bytes(s[x]))
           C == {Of(x) : x \in S}
           f == [x \in S |-> Of(x)]
<1>3. f \in Surjection(S, C) BY DEF Surjection
<1>4. IsFiniteSet(C)
  <2> HIDE DEF f, C
  <2> QED BY <1>2, <1>3, FS_Surjection
<1>5. \A T \in C : IsFiniteSet(T)
  <2>1. \A x \in S : IsFiniteSet(Of(x))
    <3> TAKE x \in S
    <3>1. s[x] \in Entry BY <1>1
    <3>2. Bytes(s[x]) \in Nat BY <3>1, BytesType
    <3> QED BY <3>2, CellsOfOne
  <2> QED BY <2>1
<1>6. IsFiniteSet(UNION C)
  <2> HIDE DEF C
  <2> QED BY <1>4, <1>5, FS_UNION
<1>7. Cells(s, S) \subseteq UNION C
  <2> SUFFICES ASSUME NEW c \in Cells(s, S) PROVE \E x \in S : c \in Of(x)
    OBVIOUS
  <2>1. c \in S \X Nat /\ c[2] \in 1 .. Bytes(s[c[1]]) BY DEF Cells
  <2>2. c = <<c[1], c[2]>> /\ c[1] \in S BY <2>1
  <2>3. c \in Of(c[1]) BY <2>1, <2>2
  <2> QED BY <2>2, <2>3
<1>8. IsFiniteSet(Cells(s, S))
  <2> HIDE DEF C
  <2> QED BY <1>6, <1>7, FS_Subset
<1> QED BY <1>2, <1>8, FS_CardinalityType

\* One entry more, or less.
LEMMA CellsSplit ==
  ASSUME NEW s \in Seq(Entry), NEW S \in SUBSET DOMAIN s, NEW x \in S
  PROVE  Cardinality(Cells(s, S)) = Cardinality(Cells(s, S \ {x})) + Bytes(s[x])
<1> DEFINE A == Cells(s, S \ {x})
           B == {x} \X (1 .. Bytes(s[x]))
<1>1. s[x] \in Entry OBVIOUS
<1>2. Bytes(s[x]) \in Nat BY <1>1, BytesType
<1>3. IsFiniteSet(B) /\ Cardinality(B) = Bytes(s[x]) BY <1>2, CellsOfOne
<1>4. IsFiniteSet(A) /\ Cardinality(A) \in Nat BY CellsFinite
<1>5. A \cap B = {}
  <2> SUFFICES ASSUME NEW c \in A, c \in B PROVE FALSE OBVIOUS
  <2>1. c[1] \in S \ {x} BY DEF Cells
  <2>2. c[1] = x OBVIOUS
  <2> QED BY <2>1, <2>2
<1>6. Cells(s, S) = A \cup B
  <2>1. ASSUME NEW c \in Cells(s, S) PROVE c \in A \cup B
    <3>1. c \in S \X Nat /\ c[2] \in 1 .. Bytes(s[c[1]]) BY <2>1 DEF Cells
    <3>2. c = <<c[1], c[2]>> /\ c[1] \in S /\ c[2] \in Nat BY <3>1
    <3>3. CASE c[1] = x BY <3>1, <3>2, <3>3
    <3>4. CASE c[1] # x
      <4>1. c \in (S \ {x}) \X Nat BY <3>2, <3>4
      <4> QED BY <3>1, <4>1 DEF Cells
    <3> QED BY <3>3, <3>4
  <2>2. A \subseteq Cells(s, S) BY DEF Cells
  <2>3. B \subseteq Cells(s, S)
    <3> SUFFICES ASSUME NEW k \in 1 .. Bytes(s[x]) PROVE <<x, k>> \in Cells(s, S) OBVIOUS
    <3>1. k \in Nat BY <1>2
    <3> QED BY <3>1 DEF Cells
  <2> HIDE DEF A, B
  <2> QED BY <2>1, <2>2, <2>3
<1> HIDE DEF A, B
<1>7. Cardinality(A \cup B) = Cardinality(A) + Cardinality(B) - Cardinality(A \cap B)
  BY <1>3, <1>4, FS_Union
<1>8. Cardinality({}) = 0 BY FS_EmptySet
<1>9. Cardinality(A \cup B) = Cardinality(A) + Bytes(s[x])
  <2>1. Cardinality(A \cap B) = 0 BY <1>5, <1>8
  <2> DEFINE a == Cardinality(A)
             b == Cardinality(B)
             u == Cardinality(A \cup B)
             z == Cardinality(A \cap B)
  <2>2. a \in Nat /\ b \in Nat /\ z = 0 /\ u = a + b - z /\ b = Bytes(s[x]) BY <1>2, <1>3, <1>4, <1>7, <2>1
  <2> HIDE DEF a, b, u, z
  <2>3. u = a + b BY <2>2
  <2> QED BY <2>2, <2>3 DEF a, b, u
<1> QED BY <1>6, <1>9 DEF A

\* The fold adds the entries up, in whatever order it takes them.
LEMMA UsedCells ==
  ASSUME NEW s \in Seq(Entry)
  PROVE  Used(s) = Cardinality(Cells(s, DOMAIN s))
<1> DEFINE D == DOMAIN s
           ch(S) == CHOOSE x \in S : TRUE
           Eq(f) == f = [S \in SUBSET D |-> IF S = {} THEN 0 ELSE f[S \ {ch(S)}] + Bytes(s[ch(S)])]
           total == [S \in SUBSET D |-> Cardinality(Cells(s, S))]
           iter == CHOOSE f : Eq(f)
<1>1. Used(s) = iter[D]
  BY DEF Used, FoldSeq, FoldFunction, FoldFunctionOnSet, MapThenFoldSet
<1>2. \A S \in SUBSET D : S # {} => ch(S) \in S /\ S \ {ch(S)} \in SUBSET D
  OBVIOUS
<1>3. \A S \in SUBSET D :
        Cardinality(Cells(s, S)) = IF S = {} THEN 0 ELSE Cardinality(Cells(s, S \ {ch(S)})) + Bytes(s[ch(S)])
  <2> TAKE S \in SUBSET D
  <2>1. CASE S = {}
    <3>1. Cells(s, S) = {} BY <2>1 DEF Cells
    <3> QED BY <2>1, <3>1, FS_EmptySet
  <2>2. CASE S # {}
    <3> DEFINE x == ch(S)
    <3>1. x \in S BY <1>2, <2>2
    <3> HIDE DEF x
    <3>2. Cardinality(Cells(s, S)) = Cardinality(Cells(s, S \ {x})) + Bytes(s[x]) BY <3>1, CellsSplit
    <3> QED BY <2>2, <3>2 DEF x
  <2> QED BY <2>1, <2>2
<1> HIDE DEF ch
<1>4. Eq(total)
  <2>1. \A S \in SUBSET D : S # {} => total[S \ {ch(S)}] = Cardinality(Cells(s, S \ {ch(S)})) BY <1>2
  <2>2. \A S \in SUBSET D : Cardinality(Cells(s, S)) = (IF S = {} THEN 0 ELSE total[S \ {ch(S)}] + Bytes(s[ch(S)]))
    <3> HIDE DEF total
    <3> QED BY <1>3, <2>1
  <2> QED BY <2>2, Zenon
<1>5. Eq(iter)
  <2> HIDE DEF Eq, total
  <2> QED BY <1>4, Zenon
<1>6. \A S \in SUBSET D : iter[S] = IF S = {} THEN 0 ELSE iter[S \ {ch(S)}] + Bytes(s[ch(S)])
  <2> HIDE DEF iter
  <2> QED BY <1>5
<1> DEFINE Bad == {n \in Nat : \E S \in SUBSET D : Cardinality(S) = n /\ iter[S] # Cardinality(Cells(s, S))}
<1>7. Bad = {}
  <2> SUFFICES ASSUME Bad # {} PROVE FALSE OBVIOUS
  <2>1. PICK n \in Bad : \A m \in Bad : n <= m
    <3>1. Bad \subseteq Nat OBVIOUS
    <3> HIDE DEF Bad
    <3> QED BY <3>1, LeastElement
  <2>2. PICK S \in SUBSET D : Cardinality(S) = n /\ iter[S] # Cardinality(Cells(s, S)) BY <2>1
  <2>3. S # {}
    <3> SUFFICES ASSUME S = {} PROVE FALSE OBVIOUS
    <3> HIDE DEF iter
    <3> QED BY <1>3, <1>6, <2>2
  <2> DEFINE x == ch(S)
             T == S \ {x}
  <2>4. x \in S /\ T \in SUBSET D BY <1>2, <2>3
  <2>5. IsFiniteSet(S) BY CellsFinite
  <2>6. Cardinality(T) = Cardinality(S) - 1 BY <2>4, <2>5, FS_RemoveElement
  <2>7. Cardinality(T) \in Nat
    <3>1. IsFiniteSet(T) BY <2>5, FS_RemoveElement
    <3> QED BY <3>1, FS_CardinalityType
  <2>8. iter[T] = Cardinality(Cells(s, T))
    <3> SUFFICES ASSUME iter[T] # Cardinality(Cells(s, T)) PROVE FALSE OBVIOUS
    <3>1. Cardinality(T) \in Bad
      <4> HIDE DEF iter, T
      <4> QED BY <2>4, <2>7
    <3>2. n <= Cardinality(T) BY <2>1, <3>1
    <3>3. n \in Nat OBVIOUS
    <3> DEFINE c == Cardinality(T)
    <3>4. c \in Nat /\ n <= c /\ c = n - 1 BY <2>2, <2>6, <2>7, <3>2
    <3> HIDE DEF c
    <3> QED BY <3>3, <3>4
  <2>9. iter[S] = iter[T] + Bytes(s[x])
    <3> HIDE DEF iter
    <3> QED BY <1>6, <2>3
  <2>10. Cardinality(Cells(s, S)) = Cardinality(Cells(s, T)) + Bytes(s[x])
    <3> HIDE DEF x
    <3> QED BY <2>4, CellsSplit
  <2> HIDE DEF iter, T, x
  <2> QED BY <2>2, <2>8, <2>9, <2>10
<1>8. \A S \in SUBSET D : iter[S] = Cardinality(Cells(s, S))
  <2> SUFFICES ASSUME NEW S \in SUBSET D, iter[S] # Cardinality(Cells(s, S)) PROVE FALSE OBVIOUS
  <2>1. IsFiniteSet(S) BY CellsFinite
  <2>2. Cardinality(S) \in Nat BY <2>1, FS_CardinalityType
  <2>3. Cardinality(S) \in Bad
    <3> HIDE DEF iter
    <3> QED BY <2>2
  <2> QED BY <1>7, <2>3
<1> HIDE DEF iter
<1> QED BY <1>1, <1>8

\* Lists take bytes, the empty one none.
LEMMA UsedType ==
  /\ \A s \in Seq(Entry) : Used(s) \in Nat
  /\ Used(<<>>) = 0
<1>1. ASSUME NEW s \in Seq(Entry) PROVE Used(s) \in Nat
  <2>1. Cardinality(Cells(s, DOMAIN s)) \in Nat BY CellsFinite
  <2> QED BY <2>1, UsedCells
<1>2. Used(<<>>) = 0
  <2>1. <<>> \in Seq(Entry) /\ DOMAIN <<>> = {} OBVIOUS
  <2>2. Cells(<<>>, {}) = {} BY DEF Cells
  <2>3. Used(<<>>) = Cardinality({}) BY <2>1, <2>2, UsedCells
  <2> QED BY <2>3, FS_EmptySet
<1> QED BY <1>1, <1>2

\* Lists that agree on some entries take as much for them.
LEMMA SameCells ==
  ASSUME NEW s, NEW t, NEW S, \A i \in S : s[i] = t[i]
  PROVE  Cells(s, S) = Cells(t, S)
<1>1. \A c \in S \X Nat : Bytes(s[c[1]]) = Bytes(t[c[1]]) OBVIOUS
<1> QED BY <1>1, Zenon DEF Cells

\* A new entry takes its own bytes.
LEMMA UsedAppend ==
  ASSUME NEW s \in Seq(Entry), NEW e \in Entry
  PROVE  Append(s, e) \in Seq(Entry) /\ Used(Append(s, e)) = Used(s) + Bytes(e)
<1> DEFINE t == Append(s, e)
           n == Len(s) + 1
<1>1. /\ t \in Seq(Entry) /\ Len(t) = n /\ \A i \in 1 .. Len(s) : t[i] = s[i]
      /\ t[n] = e
  BY AppendProperties
<1>2. Len(s) \in Nat /\ DOMAIN s = 1 .. Len(s) OBVIOUS
<1> HIDE DEF t
<1>3. DOMAIN t = 1 .. n BY <1>1
<1>4. DOMAIN t \ {n} = DOMAIN s /\ n \in DOMAIN t BY <1>2, <1>3
<1> HIDE DEF n
<1>5. Cardinality(Cells(t, DOMAIN t)) = Cardinality(Cells(t, DOMAIN t \ {n})) + Bytes(t[n])
  BY <1>1, <1>4, CellsSplit
<1>6. Cells(t, DOMAIN s) = Cells(s, DOMAIN s)
  <2>1. \A i \in DOMAIN s : t[i] = s[i] BY <1>1, <1>2
  <2> QED BY <2>1, SameCells
<1>7. Used(t) = Used(s) + Bytes(e) BY <1>1, <1>4, <1>5, <1>6, UsedCells
<1> QED BY <1>1, <1>7 DEF t

\* Put(s, i, e) is s with another i-th entry.
Put(s, i, e) == [s EXCEPT ![i] = e]

\* The new entry takes its own bytes in place of the old one's.
LEMMA UsedPut ==
  ASSUME NEW s \in Seq(Entry), NEW i \in DOMAIN s, NEW e \in Entry
  PROVE  /\ Put(s, i, e) \in Seq(Entry) /\ Len(Put(s, i, e)) = Len(s)
         /\ \A j \in DOMAIN s : Put(s, i, e)[j] = IF j = i THEN e ELSE s[j]
         /\ Used(Put(s, i, e)) = Used(s) + Bytes(e) - Bytes(s[i])
<1> DEFINE t == Put(s, i, e)
<1>1. /\ t \in Seq(Entry) /\ Len(t) = Len(s)
      /\ \A j \in DOMAIN s : t[j] = IF j = i THEN e ELSE s[j]
  BY ExceptSeq DEF Put
<1> HIDE DEF t
<1>2. DOMAIN t = DOMAIN s BY <1>1
<1>3. Cardinality(Cells(t, DOMAIN s)) = Cardinality(Cells(t, DOMAIN s \ {i})) + Bytes(t[i])
  BY <1>1, <1>2, CellsSplit
<1>4. Cardinality(Cells(s, DOMAIN s)) = Cardinality(Cells(s, DOMAIN s \ {i})) + Bytes(s[i])
  BY CellsSplit
<1>5. Cells(t, DOMAIN s \ {i}) = Cells(s, DOMAIN s \ {i})
  <2>1. \A j \in DOMAIN s \ {i} : t[j] = s[j] BY <1>1
  <2> QED BY <2>1, SameCells
<1>6. Used(t) = Cardinality(Cells(t, DOMAIN s)) BY <1>1, <1>2, UsedCells
<1>7. Used(s) = Cardinality(Cells(s, DOMAIN s)) BY UsedCells
<1>8. Cardinality(Cells(s, DOMAIN s \ {i})) \in Nat BY CellsFinite
<1>9. Bytes(e) \in Nat /\ Bytes(s[i]) \in Nat /\ t[i] = e BY <1>1, BytesType
<1>10. Used(t) = Used(s) + Bytes(e) - Bytes(s[i])
  BY <1>3, <1>4, <1>5, <1>6, <1>7, <1>8, <1>9
<1> QED BY <1>1, <1>10 DEF t

\* A list takes no more when an entry is deleted.
LEMMA UsedRemoved ==
  ASSUME NEW s \in Seq(Entry), NEW i \in 1 .. Len(s)
  PROVE  Used(RemoveAt(s, i)) <= Used(s)
<1> DEFINE t == RemoveAt(s, i)
           to(j) == IF j < i THEN j ELSE j + 1
           f == [c \in Cells(t, DOMAIN t) |-> <<to(c[1]), c[2]>>]
<1>1. /\ t \in Seq(Entry) /\ Len(t) = Len(s) - 1
      /\ \A j \in 1 .. Len(s) - 1 : t[j] = IF j < i THEN s[j] ELSE s[j + 1]
  BY Removed
<1>2. Len(s) \in Nat /\ DOMAIN s = 1 .. Len(s) OBVIOUS
<1> HIDE DEF t
<1>3. DOMAIN t = 1 .. Len(s) - 1 BY <1>1
<1>4. \A j \in DOMAIN t : to(j) \in DOMAIN s /\ s[to(j)] = t[j] BY <1>1, <1>2, <1>3
<1>5. \A j, k \in DOMAIN t : to(j) = to(k) => j = k BY <1>2, <1>3
<1> HIDE DEF to
<1>6. \A c \in Cells(t, DOMAIN t) :
        /\ c[1] \in DOMAIN t /\ c[2] \in Nat /\ c = <<c[1], c[2]>>
        /\ c[2] \in 1 .. Bytes(t[c[1]])
  BY DEF Cells
<1>7. \A c \in Cells(t, DOMAIN t) : <<to(c[1]), c[2]>> \in Cells(s, DOMAIN s)
  <2> TAKE c \in Cells(t, DOMAIN t)
  <2>1. to(c[1]) \in DOMAIN s /\ s[to(c[1])] = t[c[1]] BY <1>4, <1>6
  <2> QED BY <1>6, <2>1 DEF Cells
<1>8. f \in Injection(Cells(t, DOMAIN t), Cells(s, DOMAIN s))
  <2>1. f \in [Cells(t, DOMAIN t) -> Cells(s, DOMAIN s)] BY <1>7
  <2>2. ASSUME NEW c \in Cells(t, DOMAIN t), NEW d \in Cells(t, DOMAIN t), f[c] = f[d] PROVE c = d
    <3>1. to(c[1]) = to(d[1]) /\ c[2] = d[2] BY <2>2
    <3>2. c[1] = d[1] BY <1>5, <1>6, <3>1
    <3> QED BY <1>6, <3>1, <3>2
  <2> HIDE DEF f
  <2> QED BY <2>1, <2>2 DEF Injection, IsInjective
<1> HIDE DEF f
<1>9. IsFiniteSet(Cells(s, DOMAIN s)) BY CellsFinite
<1>10. Cardinality(Cells(t, DOMAIN t)) <= Cardinality(Cells(s, DOMAIN s)) BY <1>8, <1>9, FS_Injection
<1> QED BY <1>1, <1>10, UsedCells DEF t

-----------------------------------------------------------------------------
(***************************************************************************)
(* The lists that add_list() makes.  No entry is found in place of one     *)
(* behind it, and each has a value.                                        *)
(***************************************************************************)
Distinct(l, s) == \A i, j \in DOMAIN s : i < j => ~Matches(l, s[j][1], s[i][1])
Positive(s) == \A i \in DOMAIN s : s[i][2] > 0
Good(l, s) == s \in Seq(Entry) /\ Distinct(l, s) /\ Positive(s)
Fits(l, s) == Used(s) + 1 <= ListSize(l)

\* A name finds its own entry.
LEMMA MatchesItself ==
  ASSUME EnvironmentAssumption, NEW l, NEW n \in Names
  PROVE  Matches(l, n, n)
BY DEF EnvironmentAssumption, Matches

\* Entries are found by their names exactly if none hides another.
LEMMA DistinctFound ==
  ASSUME EnvironmentAssumption, NEW l, NEW s \in Seq(Entry)
  PROVE  Distinct(l, s) <=> \A i \in DOMAIN s : Found(l, s, s[i][1]) = i
<1>1. Len(s) \in Nat /\ DOMAIN s = 1 .. Len(s) OBVIOUS
<1>2. \A i \in DOMAIN s : Matches(l, s[i][1], s[i][1])
  <2> TAKE i \in DOMAIN s
  <2>1. s[i] \in Entry OBVIOUS
  <2>2. s[i][1] \in Names BY <2>1 DEF Entry
  <2> QED BY <2>2, MatchesItself
<1>3. ASSUME Distinct(l, s), NEW i \in DOMAIN s PROVE Found(l, s, s[i][1]) = i
  <2> DEFINE f == Found(l, s, s[i][1])
  <2>1. /\ f \in 0 .. Len(s)
        /\ f = 0 => \A j \in DOMAIN s : ~Matches(l, s[i][1], s[j][1])
        /\ f # 0 => Matches(l, s[i][1], s[f][1])
        /\ \A j \in DOMAIN s : j < f => ~Matches(l, s[i][1], s[j][1])
    BY FoundFirst
  <2> HIDE DEF f
  <2>2. f # 0 /\ ~(i < f) BY <1>2, <2>1
  <2>3. ~(f < i)
    <3> SUFFICES ASSUME f < i PROVE FALSE OBVIOUS
    <3>1. f \in DOMAIN s BY <1>1, <2>1, <2>2
    <3>2. ~Matches(l, s[i][1], s[f][1]) BY <1>3, <3>1 DEF Distinct
    <3> QED BY <2>1, <2>2, <3>2
  <2>4. f = i BY <1>1, <2>1, <2>2, <2>3
  <2> QED BY <2>4 DEF f
<1>4. ASSUME \A i \in DOMAIN s : Found(l, s, s[i][1]) = i PROVE Distinct(l, s)
  <2> SUFFICES ASSUME NEW i \in DOMAIN s, NEW j \in DOMAIN s, i < j PROVE ~Matches(l, s[j][1], s[i][1])
    BY DEF Distinct
  <2>1. \A k \in DOMAIN s : k < Found(l, s, s[j][1]) => ~Matches(l, s[j][1], s[k][1]) BY FoundFirst
  <2>2. Found(l, s, s[j][1]) = j BY <1>4
  <2> QED BY <2>1, <2>2
<1> QED BY <1>3, <1>4

\* A value is changed.
LEMMA Changed ==
  ASSUME NEW s \in Seq(Entry), NEW i \in DOMAIN s, NEW v \in Nat
  PROVE  [s EXCEPT ![i][2] = v] = Put(s, i, <<s[i][1], v>>) /\ <<s[i][1], v>> \in Entry
<1>1. s[i] \in Entry OBVIOUS
<1>2. PICK n \in Names, m \in Nat : s[i] = <<n, m>> BY <1>1 DEF Entry
<1>3. [s[i] EXCEPT ![2] = v] = <<n, v>> BY <1>2
<1>4. s[i][1] = n BY <1>2
<1>5. [s EXCEPT ![i][2] = v] = [s EXCEPT ![i] = <<n, v>>]
  <2>1. [s EXCEPT ![i][2] = v] = [s EXCEPT ![i] = [s[i] EXCEPT ![2] = v]] OBVIOUS
  <2> QED BY <1>3, <2>1
<1>6. <<n, v>> \in Entry BY DEF Entry
<1> QED BY <1>4, <1>5, <1>6 DEF Put

\* A deletion leaves the others distinct.
LEMMA RemovedGood ==
  ASSUME NEW l, NEW s, Good(l, s), NEW i \in 1 .. Len(s)
  PROVE  Good(l, RemoveAt(s, i))
<1> DEFINE t == RemoveAt(s, i)
           to(j) == IF j < i THEN j ELSE j + 1
<1>1. s \in Seq(Entry) /\ Distinct(l, s) /\ Positive(s) BY DEF Good
<1>2. /\ t \in Seq(Entry) /\ Len(t) = Len(s) - 1
      /\ \A j \in 1 .. Len(s) - 1 : t[j] = IF j < i THEN s[j] ELSE s[j + 1]
  BY <1>1, Removed
<1>3. Len(s) \in Nat /\ DOMAIN s = 1 .. Len(s) BY <1>1
<1> HIDE DEF t
<1>4. DOMAIN t = 1 .. Len(s) - 1 BY <1>2
<1>5. \A j \in DOMAIN t : to(j) \in DOMAIN s /\ s[to(j)] = t[j] BY <1>2, <1>3, <1>4
<1>6. \A j, k \in DOMAIN t : j < k => to(j) < to(k) BY <1>3, <1>4
<1> HIDE DEF to
<1>7. Distinct(l, t)
  <2> SUFFICES ASSUME NEW j \in DOMAIN t, NEW k \in DOMAIN t, j < k PROVE ~Matches(l, t[k][1], t[j][1])
    BY DEF Distinct
  <2>1. to(j) \in DOMAIN s /\ to(k) \in DOMAIN s /\ to(j) < to(k) BY <1>5, <1>6
  <2>2. ~Matches(l, s[to(k)][1], s[to(j)][1]) BY <1>1, <2>1 DEF Distinct
  <2>3. s[to(k)] = t[k] /\ s[to(j)] = t[j] BY <1>5
  <2> QED BY <2>2, <2>3
<1>8. Positive(t)
  <2> SUFFICES ASSUME NEW j \in DOMAIN t PROVE t[j][2] > 0 BY DEF Positive
  <2>1. to(j) \in DOMAIN s /\ s[to(j)] = t[j] BY <1>5
  <2>2. s[to(j)][2] > 0 BY <1>1, <2>1 DEF Positive
  <2> QED BY <2>1, <2>2
<1> QED BY <1>2, <1>7, <1>8 DEF Good, t

\* An entry whose name finds none is put behind the others.
LEMMA AppendGood ==
  ASSUME NEW l, NEW s, Good(l, s), NEW n \in Names, NEW v \in Nat, v > 0,
         \A i \in DOMAIN s : ~Matches(l, n, s[i][1])
  PROVE  Good(l, Append(s, <<n, v>>))
<1> DEFINE t == Append(s, <<n, v>>)
           m == Len(s) + 1
<1>1. s \in Seq(Entry) /\ Distinct(l, s) /\ Positive(s) BY DEF Good
<1>2. Len(s) \in Nat /\ DOMAIN s = 1 .. Len(s) BY <1>1
<1>3. <<n, v>> \in Entry BY DEF Entry
<1>4. /\ t \in Seq(Entry) /\ Len(t) = m /\ \A i \in 1 .. Len(s) : t[i] = s[i]
      /\ t[m] = <<n, v>>
  BY <1>1, <1>3, AppendProperties
<1> HIDE DEF t
<1>5. DOMAIN t = 1 .. m BY <1>4
<1>6. Distinct(l, t)
  <2> SUFFICES ASSUME NEW i \in DOMAIN t, NEW j \in DOMAIN t, i < j PROVE ~Matches(l, t[j][1], t[i][1])
    BY DEF Distinct
  <2>1. i \in DOMAIN s /\ t[i] = s[i] BY <1>2, <1>4, <1>5
  <2>2. CASE j = m
    <3>1. t[j][1] = n BY <1>4, <2>2
    <3> QED BY <2>1, <3>1
  <2>3. CASE j # m
    <3>1. j \in DOMAIN s BY <1>2, <1>5, <2>3
    <3>2. t[j] = s[j] BY <1>2, <1>4, <3>1
    <3>3. ~Matches(l, s[j][1], s[i][1]) BY <1>1, <2>1, <3>1 DEF Distinct
    <3> QED BY <2>1, <3>2, <3>3
  <2> QED BY <2>2, <2>3
<1>7. Positive(t)
  <2> SUFFICES ASSUME NEW i \in DOMAIN t PROVE t[i][2] > 0 BY DEF Positive
  <2>1. CASE i = m BY <1>4, <2>1
  <2>2. CASE i # m
    <3>1. i \in DOMAIN s /\ t[i] = s[i] BY <1>2, <1>4, <1>5, <2>2
    <3>2. s[i][2] > 0 BY <1>1, <3>1 DEF Positive
    <3> QED BY <3>1, <3>2
  <2> QED BY <2>1, <2>2
<1> QED BY <1>4, <1>6, <1>7 DEF Good, t

\* An entry that is changed keeps its name.
LEMMA PutGood ==
  ASSUME NEW l, NEW s, Good(l, s), NEW i \in DOMAIN s, NEW v \in Nat, v > 0
  PROVE  Good(l, Put(s, i, <<s[i][1], v>>))
<1> DEFINE t == Put(s, i, <<s[i][1], v>>)
<1>1. s \in Seq(Entry) /\ Distinct(l, s) /\ Positive(s) BY DEF Good
<1>2. PICK e \in Entry : e = <<s[i][1], v>> BY <1>1, Changed
<1>3. /\ t \in Seq(Entry) /\ Len(t) = Len(s)
      /\ \A j \in DOMAIN s : t[j] = IF j = i THEN <<s[i][1], v>> ELSE s[j]
  <2>1. /\ Put(s, i, e) \in Seq(Entry) /\ Len(Put(s, i, e)) = Len(s)
        /\ \A j \in DOMAIN s : Put(s, i, e)[j] = IF j = i THEN e ELSE s[j]
    BY <1>1, UsedPut
  <2> QED BY <1>2, <2>1
<1> HIDE DEF t
<1>4. DOMAIN t = DOMAIN s BY <1>1, <1>3
<1>5. \A j \in DOMAIN s : t[j][1] = s[j][1] /\ (j # i => t[j][2] = s[j][2]) /\ (j = i => t[j][2] = v) BY <1>3
<1>6. Distinct(l, t) BY <1>1, <1>4, <1>5 DEF Distinct
<1>7. Positive(t) BY <1>1, <1>4, <1>5 DEF Positive
<1> QED BY <1>3, <1>6, <1>7 DEF Good, t

\* The first entries of a list are one.
LEMMA FirstGood ==
  ASSUME NEW l, NEW s, Good(l, s), NEW m \in DOMAIN s
  PROVE  Good(l, SubSeq(s, 1, m))
<1> DEFINE t == SubSeq(s, 1, m)
<1>1. s \in Seq(Entry) /\ Distinct(l, s) /\ Positive(s) BY DEF Good
<1>2. Len(s) \in Nat /\ DOMAIN s = 1 .. Len(s) /\ m \in Nat /\ 1 <= m BY <1>1
<1>3. \A i \in 1 .. m : s[i] \in Entry BY <1>1, <1>2
<1>4. /\ t \in Seq(Entry) /\ Len(t) = (IF 1 <= m THEN m - 1 + 1 ELSE 0)
      /\ \A i \in 1 .. m - 1 + 1 : t[i] = s[1 + i - 1]
  BY <1>2, <1>3, SubSeqProperties
<1> HIDE DEF t
<1>5. Len(t) = m /\ DOMAIN t = 1 .. m BY <1>2, <1>4
<1>6. \A i \in DOMAIN t : i \in DOMAIN s /\ t[i] = s[i]
  <2> TAKE i \in DOMAIN t
  <2>1. i \in 1 .. m - 1 + 1 /\ 1 + i - 1 = i /\ i \in DOMAIN s BY <1>2, <1>5
  <2> QED BY <1>4, <2>1
<1>7. Distinct(l, t) BY <1>1, <1>6 DEF Distinct
<1>8. Positive(t) BY <1>1, <1>6 DEF Positive
<1> QED BY <1>4, <1>7, <1>8 DEF Good, t

\* add_list() keeps a list good, and when there is space within its memory.
LEMMA AddedGood ==
  ASSUME EnvironmentAssumption, NEW l, NEW s, Good(l, s), Fits(l, s),
         NEW n \in Names, NEW v \in Nat, ~NoSpace(l, s, n, v)
  PROVE  Good(l, Added(l, s, n, v)) /\ Fits(l, Added(l, s, n, v))
<1> DEFINE i == Found(l, s, n)
<1>1. s \in Seq(Entry) BY DEF Good
<1>2. Len(s) \in Nat /\ DOMAIN s = 1 .. Len(s) BY <1>1
<1>3. /\ i \in 0 .. Len(s)
      /\ i = 0 => \A j \in DOMAIN s : ~Matches(l, n, s[j][1])
  BY <1>1, FoundFirst
<1>4. Used(s) \in Nat BY <1>1, UsedType
<1>5. ListSize(l) \in Nat BY DEF EnvironmentAssumption, ListSize
<1>6. Added(l, s, n, v) = IF v = 0 THEN (IF i = 0 THEN s ELSE RemoveAt(s, i))
                          ELSE IF i = 0 THEN Append(s, <<n, v>>) ELSE [s EXCEPT ![i][2] = v]
  BY DEF Added
<1>7. v > 0 => Used(s) + Growth(s, i, v) < ListSize(l) - 4
  <2>1. Growth(s, i, v) \in Int
    <3>1. CASE i = 0 BY <3>1 DEF Growth
    <3>2. CASE i # 0
      <4>1. s[i] \in Entry BY <1>1, <1>2, <1>3, <3>2
      <4>2. s[i][2] \in Nat BY <4>1 DEF Entry
      <4> QED BY <3>2, <4>2 DEF Growth
    <3> QED BY <3>1, <3>2
  <2>2. v > 0 => ~(Used(s) + Growth(s, i, v) >= ListSize(l) - 4) BY DEF NoSpace, Limit
  <2> HIDE DEF i
  <2> QED BY <1>4, <1>5, <2>1, <2>2
<1> HIDE DEF i
<1>8. CASE v = 0 /\ i = 0 BY <1>6, <1>8
<1>9. CASE v = 0 /\ i # 0
  <2>1. i \in 1 .. Len(s) BY <1>2, <1>3, <1>9
  <2>2. Good(l, RemoveAt(s, i)) BY <2>1, RemovedGood
  <2>3. Used(RemoveAt(s, i)) <= Used(s) BY <1>1, <2>1, UsedRemoved
  <2>4. Used(RemoveAt(s, i)) \in Nat BY <2>2, UsedType DEF Good
  <2>5. Fits(l, RemoveAt(s, i)) BY <1>4, <1>5, <2>3, <2>4 DEF Fits
  <2> QED BY <1>6, <1>9, <2>2, <2>5
<1>10. CASE v # 0 /\ i = 0
  <2>1. v > 0 BY <1>10
  <2>2. Good(l, Append(s, <<n, v>>)) BY <1>3, <1>10, <2>1, AppendGood
  <2>3. <<n, v>> \in Entry BY DEF Entry
  <2>4. Used(Append(s, <<n, v>>)) = Used(s) + Bytes(<<n, v>>) BY <1>1, <2>3, UsedAppend
  <2>5. Bytes(<<n, v>>) = v + 3 /\ Growth(s, i, v) = v + 3 BY <1>10 DEF Bytes, Growth
  <2>6. Fits(l, Append(s, <<n, v>>)) BY <1>4, <1>5, <1>7, <2>1, <2>4, <2>5 DEF Fits
  <2> QED BY <1>6, <1>10, <2>2, <2>6
<1>11. CASE v # 0 /\ i # 0
  <2> DEFINE e == <<s[i][1], v>>
  <2>1. v > 0 /\ i \in DOMAIN s BY <1>2, <1>3, <1>11
  <2>2. [s EXCEPT ![i][2] = v] = Put(s, i, e) /\ e \in Entry BY <1>1, <2>1, Changed
  <2>3. Good(l, Put(s, i, e)) BY <2>1, PutGood
  <2>4. Used(Put(s, i, e)) = Used(s) + Bytes(e) - Bytes(s[i]) BY <1>1, <2>1, <2>2, UsedPut
  <2>5. s[i] \in Entry BY <1>1, <2>1
  <2>6. s[i][2] \in Nat BY <2>5 DEF Entry
  <2>7. Bytes(e) = v + 3 /\ Bytes(s[i]) = s[i][2] + 3 BY <2>6 DEF Bytes
  <2>8. Growth(s, i, v) = v - s[i][2] BY <1>11 DEF Growth
  <2>9. Used(s) + (v - s[i][2]) < ListSize(l) - 4 BY <1>7, <2>1, <2>8
  <2> DEFINE w == s[i][2]
             u == Used(Put(s, i, e))
  <2>10. u = Used(s) + (v + 3) - (w + 3) BY <2>4, <2>7
  <2> HIDE DEF e
  <2>11. u + 1 <= ListSize(l)
    <3>1. Used(s) + (v - w) < ListSize(l) - 4 /\ w \in Nat BY <2>6, <2>9
    <3> HIDE DEF w, u
    <3> QED BY <1>4, <1>5, <2>10, <3>1
  <2> QED BY <1>6, <1>11, <2>2, <2>3, <2>11 DEF Fits
<1> QED BY <1>8, <1>9, <1>10, <1>11

-----------------------------------------------------------------------------
(***************************************************************************)
(* The inductive invariant.                                                *)
(***************************************************************************)
\* The lists are good and within their memory.
ListsOK == \A l \in Lists : Good(l, lists[l]) /\ Fits(l, lists[l])

\* What is saved was such a list once, though the block may hold a part of it.
SlotsOK ==
  \A i \in 0 .. Nest - 1 :
    /\ slots[i].env # NULL => Good("env", slots[i].env) /\ slots[i].place \in Kept
    /\ slots[i].alias # NULL => Good("alias", slots[i].alias) /\ Fits("alias", slots[i].alias)

\* An ENDLOCAL that is at work has its save; what is left of it is its end.
InEndlocal == Running("remove") \/ Running("restore")
Done == Len(Slot.env) - Len(job.left)
EndingOK ==
  InEndlocal =>
    /\ job \in Ending /\ offset < Nest /\ NULL \notin {Slot.env, Slot.alias}
    /\ Done >= 0 /\ \A i \in DOMAIN job.left : job.left[i] = Slot.env[Done + i]
    /\ \A e \in job.was : e[1] \in job.exports

\* While variables are removed, the exported ones stay.
RemoveOK ==
  Running("remove") =>
    Done = 0 /\ ~job.short /\ job.was = {e \in AsSet(lists["env"]) : e[1] \in job.exports}

\* While variables are restored, the environment has the exported ones and
\* what was put back.
PutBack == {Slot.env[i] : i \in {k \in 1 .. Done : Slot.env[k][1] \notin job.exports}}
RestoreOK == Running("restore") /\ ~job.short => AsSet(lists["env"]) = job.was \cup PutBack

IInv == TypeOK /\ ListsOK /\ SlotsOK /\ SlotsInUse /\ EndingOK /\ RemoveOK /\ RestoreOK

\* What is saved are lists, and the slot of the next SETLOCAL exists.
LEMMA SlotTypes ==
  ASSUME EnvironmentAssumption, TypeOK
  PROVE  /\ Nest \in Nat /\ offset \in Nat /\ offset <= Nest
         /\ slots \in [0 .. Nest - 1 -> SlotType]
         /\ \A i \in 0 .. Nest - 1 :
              /\ slots[i] = [env |-> slots[i].env, alias |-> slots[i].alias,
                             place |-> slots[i].place, whole |-> slots[i].whole]
              /\ slots[i].env # NULL => slots[i].env \in Seq(Entry)
              /\ slots[i].alias # NULL => slots[i].alias \in Seq(Entry)
<1>1. /\ Nest \in Nat /\ offset \in Nat /\ offset <= Nest
      /\ slots \in [0 .. Nest - 1 -> SlotType]
  BY DEF EnvironmentAssumption, TypeOK
<1>2. ASSUME NEW i \in 0 .. Nest - 1
      PROVE  /\ slots[i] = [env |-> slots[i].env, alias |-> slots[i].alias,
                            place |-> slots[i].place, whole |-> slots[i].whole]
             /\ slots[i].env # NULL => slots[i].env \in Seq(Entry)
             /\ slots[i].alias # NULL => slots[i].alias \in Seq(Entry)
  <2>1. slots[i] \in SlotType BY <1>1
  <2> QED BY <2>1 DEF SlotType
<1> QED BY <1>1, <1>2

\* The commands and their fields.
LEMMA JobFields ==
  ASSUME TypeOK
  PROVE  /\ Running("set") => job \in [op : {"set"}, list : Lists, lines : Seq(Entry)]
         /\ Running("eset") => job.list \in Lists /\ job.name \in Names /\ job.value \in Nat
         /\ Running("clear") => job.list \in Lists
         /\ Running("delete") => job.list \in Lists /\ job.name \in Names
         /\ Running("unset") => job \in Unset
         /\ Running("endlocal") => job.exports \in SUBSET Names /\ job.exit \in BOOLEAN
         /\ InEndlocal => job \in Ending
<1>1. job # NULL => job \in Command \cup Unset \cup Ending BY DEF TypeOK
<1>2. Running("set") => job \in [op : {"set"}, list : Lists, lines : Seq(Entry)]
  BY <1>1 DEF Running, Command, Unset, Ending
<1>3. Running("eset") => job \in [op : {"eset"}, list : Lists, name : Names, value : Nat]
  BY <1>1 DEF Running, Command, Unset, Ending
<1>4. Running("clear") => job \in [op : {"clear"}, list : Lists]
  BY <1>1 DEF Running, Command, Unset, Ending
<1>5. Running("delete") => job \in [op : {"delete"}, list : Lists, name : Names]
  BY <1>1 DEF Running, Command, Unset, Ending
<1>6. Running("unset") => job \in Unset
  <2>1. \A c \in [op : {"unset"}, list : Lists, names : SUBSET Names, at : {1}] : c \in Unset
    BY DEF Unset
  <2>2. Running("unset") => job \in [op : {"unset"}, list : Lists, names : SUBSET Names, at : {1}] \cup Unset
    BY <1>1 DEF Running, Command, Unset, Ending
  <2> QED BY <2>1, <2>2
<1>7. Running("endlocal") => job \in [op : {"endlocal"}, exports : SUBSET Names, exit : BOOLEAN]
  BY <1>1 DEF Running, Command, Unset, Ending
<1>8. InEndlocal => job \in Ending
  BY <1>1 DEF InEndlocal, Running, Command, Unset, Ending
<1> QED BY <1>2, <1>3, <1>4, <1>5, <1>6, <1>7, <1>8

\* Other commands than ENDLOCAL have to keep the lists good, and that is all.
LEMMA OtherJob ==
  ASSUME IInv, lists' \in [Lists -> Seq(Entry)], ListsOK', place' \in Here,
         nReturn' \in {"0", "error", "raised"}, critical' \in BOOLEAN, UNCHANGED Saving,
         job' # NULL => job' \in Command \cup Unset
  PROVE  IInv'
<1>1. TypeOK /\ SlotsOK /\ SlotsInUse BY DEF IInv
<1>2. slots' = slots /\ offset' = offset /\ session' = session BY DEF Saving
<1>3. TypeOK' BY <1>1, <1>2 DEF TypeOK
<1>4. SlotsOK' BY <1>1, <1>2 DEF SlotsOK
<1>5. SlotsInUse' BY <1>1, <1>2 DEF SlotsInUse
<1>6. ~Running("remove")' /\ ~Running("restore")'
  <2>1. \A c \in Command \cup Unset : c.op # "remove" /\ c.op # "restore" BY DEF Command, Unset
  <2> QED BY <2>1 DEF Running
<1>7. EndingOK' /\ RemoveOK' /\ RestoreOK' BY <1>6 DEF EndingOK, InEndlocal, RemoveOK, RestoreOK
<1> QED BY <1>3, <1>4, <1>5, <1>7 DEF IInv

\* add_list() in a step.
LEMMA AddStep ==
  ASSUME EnvironmentAssumption, IInv, NEW l \in Lists, NEW n \in Names, NEW v \in Nat,
         AddOK(l, n, v)
  PROVE  lists' \in [Lists -> Seq(Entry)] /\ ListsOK' /\ critical' = critical
<1>1. /\ ~NoSpace(l, lists[l], n, v) /\ critical' = critical
      /\ lists' = [lists EXCEPT ![l] = Added(l, lists[l], n, v)]
  BY DEF AddOK
<1>2. lists \in [Lists -> Seq(Entry)] /\ ListsOK BY DEF IInv, TypeOK
<1>3. Good(l, lists[l]) /\ Fits(l, lists[l]) BY <1>2 DEF ListsOK
<1>4. PICK s : s = lists[l] OBVIOUS
<1>5. Good(l, Added(l, s, n, v)) /\ Fits(l, Added(l, s, n, v))
  <2>1. Good(l, s) /\ Fits(l, s) /\ ~NoSpace(l, s, n, v) BY <1>1, <1>3, <1>4
  <2> QED BY <2>1, AddedGood
<1>6. PICK t : t = Added(l, s, n, v) OBVIOUS
<1>7. t \in Seq(Entry) BY <1>5, <1>6 DEF Good
<1>8. lists' = [lists EXCEPT ![l] = t] BY <1>1, <1>4, <1>6
<1>9. lists' \in [Lists -> Seq(Entry)] BY <1>2, <1>7, <1>8
<1>10. \A k \in Lists : lists'[k] = IF k = l THEN t ELSE lists[k] BY <1>2, <1>8
<1>11. ListsOK' BY <1>2, <1>5, <1>6, <1>10 DEF ListsOK
<1> QED BY <1>1, <1>9, <1>11

\* When nothing is added.
LEMMA SameLists ==
  ASSUME IInv, UNCHANGED lists
  PROVE  lists' \in [Lists -> Seq(Entry)] /\ ListsOK'
BY DEF IInv, TypeOK, ListsOK

-----------------------------------------------------------------------------
(***************************************************************************)
(* One lemma per command.                                                  *)
(***************************************************************************)
\* What a step keeps the type of when it does not change it.
LEMMA StaysTyped ==
  ASSUME IInv
  PROVE  /\ UNCHANGED place => place' \in Here
         /\ UNCHANGED nReturn => nReturn' \in {"0", "error", "raised"}
         /\ UNCHANGED critical => critical' \in BOOLEAN
         /\ UNCHANGED job /\ ~InEndlocal => (job' # NULL => job' \in Command \cup Unset)
<1>1. TypeOK BY DEF IInv
<1>2. job \in Ending => job.op = "remove" \/ job.op = "restore" BY DEF Ending
<1>3. job # NULL /\ ~InEndlocal => job \in Command \cup Unset
  BY <1>1, <1>2 DEF TypeOK, InEndlocal, Running
<1> QED BY <1>1, <1>3 DEF TypeOK

LEMMA BeginStep ==
  ASSUME EnvironmentAssumption, IInv, Begin
  PROVE  IInv'
<1>1. job' \in session /\ nReturn' = "0" /\ UNCHANGED <<lists, place, Saving, critical>> BY DEF Begin
<1>2. session \in Sessions BY DEF IInv, TypeOK
<1>3. job' \in Command BY <1>1, <1>2 DEF EnvironmentAssumption
<1>4. lists' \in [Lists -> Seq(Entry)] /\ ListsOK' BY <1>1, SameLists
<1>5. place' \in Here /\ critical' \in BOOLEAN BY <1>1, StaysTyped
<1> QED BY <1>1, <1>3, <1>4, <1>5, OtherJob

LEMMA SetLineStep ==
  ASSUME EnvironmentAssumption, IInv, SetLine
  PROVE  IInv'
<1>1. Running("set") /\ job.lines # <<>> /\ UNCHANGED <<place, Saving>> BY DEF SetLine
<1>2. job \in [op : {"set"}, list : Lists, lines : Seq(Entry)] BY <1>1, JobFields DEF IInv
<1>3. PICK l \in Lists, e \in Entry, t \in Seq(Entry) :
        l = job.list /\ e = Head(job.lines) /\ t = Tail(job.lines)
  BY <1>1, <1>2, HeadTailProperties
<1>4. PICK n \in Names, v \in Nat : e = <<n, v>> BY DEF Entry
<1>5. Head(job.lines)[1] = n /\ Head(job.lines)[2] = v BY <1>3, <1>4
<1>6. \/ AddOK(l, n, v) /\ job' = [job EXCEPT !.lines = Tail(job.lines)] /\ UNCHANGED nReturn
      \/ AddFails(l, n, v) /\ Return("error")
      \/ AddRaises(l, n, v)
  BY <1>3, <1>5 DEF SetLine
<1>7. place' \in Here BY <1>1, StaysTyped
<1>8. UNCHANGED Saving BY <1>1
<1>9. CASE AddOK(l, n, v) /\ job' = [job EXCEPT !.lines = Tail(job.lines)] /\ UNCHANGED nReturn
  <2>1. lists' \in [Lists -> Seq(Entry)] /\ ListsOK' /\ critical' = critical BY <1>9, AddStep
  <2>2. job' = [job EXCEPT !.lines = t] BY <1>3, <1>9
  <2>3. job' \in [op : {"set"}, list : Lists, lines : Seq(Entry)] BY <1>2, <2>2
  <2>4. job' \in Command BY <2>3 DEF Command
  <2> QED BY <1>7, <1>8, <1>9, <2>1, <2>4, StaysTyped, OtherJob
<1>10. CASE AddFails(l, n, v) /\ Return("error")
  <2>1. UNCHANGED <<lists, critical>> /\ job' = NULL /\ nReturn' = "error" BY <1>10 DEF AddFails, Return
  <2>2. lists' \in [Lists -> Seq(Entry)] /\ ListsOK' BY <2>1, SameLists
  <2> QED BY <1>7, <1>8, <2>1, <2>2, StaysTyped, OtherJob
<1>11. CASE AddRaises(l, n, v)
  <2>1. UNCHANGED lists /\ job' = NULL /\ nReturn' = "raised" /\ critical' = (critical \/ l # "env")
    BY <1>11 DEF AddRaises, Return
  <2>2. lists' \in [Lists -> Seq(Entry)] /\ ListsOK' BY <2>1, SameLists
  <2>3. critical' \in BOOLEAN BY <2>1
  <2> QED BY <1>7, <1>8, <2>1, <2>2, <2>3, OtherJob
<1> QED BY <1>6, <1>9, <1>10, <1>11

\* Commands that end and leave the lists as they are.
LEMMA EndStep ==
  ASSUME IInv, job' = NULL, nReturn' \in {"0", "error", "raised"}, place' \in Here,
         UNCHANGED <<lists, Saving, critical>>
  PROVE  IInv'
<1>1. lists' \in [Lists -> Seq(Entry)] /\ ListsOK' BY SameLists
<1>2. critical' \in BOOLEAN BY StaysTyped
<1> QED BY <1>1, <1>2, OtherJob

LEMMA SetDoneStep ==
  ASSUME IInv, SetDone
  PROVE  IInv'
<1>1. job' = NULL /\ nReturn' = "0" /\ UNCHANGED <<lists, place, Saving, critical>> BY DEF SetDone, Return
<1> QED BY <1>1, StaysTyped, EndStep

LEMMA UnsetDoneStep ==
  ASSUME IInv, UnsetDone
  PROVE  IInv'
<1>1. job' = NULL /\ nReturn' = "0" /\ UNCHANGED <<lists, place, Saving, critical>> BY DEF UnsetDone, Return
<1> QED BY <1>1, StaysTyped, EndStep

LEMMA MoveStep ==
  ASSUME IInv, Move
  PROVE  IInv'
<1>1. job' = NULL /\ nReturn' = "0" /\ place' \in Here /\ UNCHANGED <<lists, Saving, critical>>
  BY DEF Move, Return
<1> QED BY <1>1, EndStep

LEMMA SetlocalRefusedStep ==
  ASSUME IInv, SetlocalRefused
  PROVE  IInv'
<1>1. job' = NULL /\ nReturn' = "error" /\ UNCHANGED <<lists, place, Saving, critical>>
  BY DEF SetlocalRefused, Return
<1> QED BY <1>1, StaysTyped, EndStep

LEMMA EndlocalNothingStep ==
  ASSUME IInv, EndlocalNothing
  PROVE  IInv'
<1>1. job' = NULL /\ nReturn' \in {"0", "error"} /\ UNCHANGED <<lists, place, Saving, critical>>
  BY DEF EndlocalNothing, Return
<1> QED BY <1>1, StaysTyped, EndStep

LEMMA UnsetAllStep ==
  ASSUME EnvironmentAssumption, IInv, UnsetAll
  PROVE  IInv'
<1>1. /\ Running("clear") /\ lists' = [lists EXCEPT ![job.list] = <<>>]
      /\ job' = NULL /\ nReturn' = "0" /\ UNCHANGED <<place, Saving, critical>>
  BY DEF UnsetAll, Return
<1>2. PICK l \in Lists : l = job.list BY <1>1, JobFields DEF IInv
<1>3. lists \in [Lists -> Seq(Entry)] /\ ListsOK BY DEF IInv, TypeOK
<1>4. <<>> \in Seq(Entry) OBVIOUS
<1>5. lists' \in [Lists -> Seq(Entry)] BY <1>1, <1>2, <1>3, <1>4
<1>6. Good(l, <<>>) BY <1>4 DEF Good, Distinct, Positive
<1>7. Fits(l, <<>>)
  <2>1. Good(l, lists[l]) /\ Fits(l, lists[l]) BY <1>3 DEF ListsOK
  <2>2. Used(lists[l]) \in Nat BY <2>1, UsedType DEF Good
  <2>3. ListSize(l) \in Nat BY DEF EnvironmentAssumption, ListSize
  <2> QED BY <2>1, <2>2, <2>3, UsedType DEF Fits
<1>8. \A k \in Lists : lists'[k] = IF k = l THEN <<>> ELSE lists[k] BY <1>1, <1>2, <1>3
<1>9. ListsOK' BY <1>3, <1>6, <1>7, <1>8 DEF ListsOK
<1> QED BY <1>1, <1>5, <1>9, StaysTyped, OtherJob

LEMMA UnsetNameStep ==
  ASSUME EnvironmentAssumption, IInv, UnsetName
  PROVE  IInv'
<1>1. Running("delete") /\ UNCHANGED <<place, Saving>> BY DEF UnsetName
<1>2. PICK l \in Lists, n \in Names : l = job.list /\ n = job.name BY <1>1, JobFields DEF IInv
<1>3. \/ Return("error") /\ UNCHANGED <<lists, critical>>
      \/ AddOK(l, n, 0) /\ Return("0")
  BY <1>2 DEF UnsetName
<1>4. place' \in Here BY <1>1, StaysTyped
<1>5. CASE Return("error") /\ UNCHANGED <<lists, critical>> BY <1>1, <1>4, <1>5, EndStep DEF Return
<1>6. CASE AddOK(l, n, 0) /\ Return("0")
  <2>1. 0 \in Nat OBVIOUS
  <2>2. lists' \in [Lists -> Seq(Entry)] /\ ListsOK' /\ critical' = critical BY <1>6, <2>1, AddStep
  <2>3. job' = NULL /\ nReturn' = "0" BY <1>6 DEF Return
  <2> QED BY <1>1, <1>4, <2>2, <2>3, StaysTyped, OtherJob
<1> QED BY <1>3, <1>5, <1>6

LEMMA EsetStep ==
  ASSUME EnvironmentAssumption, IInv, Eset
  PROVE  IInv'
<1>1. Running("eset") /\ UNCHANGED <<place, Saving>> BY DEF Eset
<1>2. PICK l \in Lists, m \in Names, v \in Nat : l = job.list /\ m = job.name /\ v = job.value
  BY <1>1, JobFields DEF IInv
<1>3. PICK i : i = Found(l, lists[l], m) OBVIOUS
<1>4. lists[l] \in Seq(Entry) BY DEF IInv, TypeOK
<1>5. place' \in Here /\ UNCHANGED Saving BY <1>1, StaysTyped
<1>6. CASE i = 0
  <2>1. Return("error") /\ UNCHANGED <<lists, critical>> BY <1>2, <1>3, <1>6 DEF Eset
  <2> QED BY <1>5, <2>1, EndStep DEF Return
<1>7. CASE i # 0
  <2>1. i \in DOMAIN lists[l]
    <3>1. PICK s \in Seq(Entry) : s = lists[l] BY <1>4
    <3>2. Found(l, s, m) \in 0 .. Len(s) BY FoundFirst
    <3> QED BY <1>3, <1>7, <3>1, <3>2
  <2>2. lists[l][i] \in Entry BY <1>4, <2>1
  <2>3. PICK n \in Names : n = lists[l][i][1] BY <2>2 DEF Entry
  <2>4. \/ AddOK(l, n, v) /\ Return("0")
        \/ AddFails(l, n, v) /\ Return("error")
        \/ AddRaises(l, n, v)
    BY <1>2, <1>3, <1>7, <2>3 DEF Eset
  <2>5. CASE AddOK(l, n, v) /\ Return("0")
    <3>1. lists' \in [Lists -> Seq(Entry)] /\ ListsOK' /\ critical' = critical BY <2>5, AddStep
    <3>2. job' = NULL /\ nReturn' = "0" BY <2>5 DEF Return
    <3> QED BY <1>5, <3>1, <3>2, StaysTyped, OtherJob
  <2>6. CASE AddFails(l, n, v) /\ Return("error")
    <3>1. UNCHANGED <<lists, critical>> BY <2>6 DEF AddFails
    <3> QED BY <1>5, <2>6, <3>1, EndStep DEF Return
  <2>7. CASE AddRaises(l, n, v)
    <3>1. UNCHANGED lists /\ job' = NULL /\ nReturn' = "raised" /\ critical' = (critical \/ l # "env")
      BY <2>7 DEF AddRaises, Return
    <3>2. lists' \in [Lists -> Seq(Entry)] /\ ListsOK' BY <3>1, SameLists
    <3>3. critical' \in BOOLEAN BY <3>1
    <3> QED BY <1>5, <3>1, <3>2, <3>3, OtherJob
  <2> QED BY <2>4, <2>5, <2>6, <2>7
<1> QED BY <1>6, <1>7

LEMMA UnsetWildStep ==
  ASSUME EnvironmentAssumption, IInv, UnsetWild
  PROVE  IInv'
<1>1. Running("unset") /\ job.at <= Len(lists[job.list]) /\ UNCHANGED <<place, Saving, nReturn>>
  BY DEF UnsetWild
<1>2. job \in Unset BY <1>1, JobFields DEF IInv
<1>3. PICK l \in Lists, k \in Nat \ {0} : l = job.list /\ k = job.at BY <1>2 DEF Unset
<1>4. lists[l] \in Seq(Entry) BY DEF IInv, TypeOK
<1>5. k \in DOMAIN lists[l] BY <1>1, <1>3, <1>4
<1>6. lists[l][k] \in Entry BY <1>4, <1>5
<1>7. PICK n \in Names : n = lists[l][k][1] BY <1>6 DEF Entry
<1>8. \/ AddOK(l, n, 0) /\ UNCHANGED job
      \/ job' = [job EXCEPT !.at = job.at + 1] /\ UNCHANGED <<lists, critical>>
  BY <1>3, <1>7 DEF UnsetWild
<1>9. place' \in Here /\ nReturn' \in {"0", "error", "raised"} BY <1>1, StaysTyped
<1>10. CASE AddOK(l, n, 0) /\ UNCHANGED job
  <2>1. 0 \in Nat OBVIOUS
  <2>2. lists' \in [Lists -> Seq(Entry)] /\ ListsOK' /\ critical' = critical BY <1>10, <2>1, AddStep
  <2>3. job' \in Unset BY <1>2, <1>10
  <2> QED BY <1>1, <1>9, <2>2, <2>3, StaysTyped, OtherJob
<1>11. CASE job' = [job EXCEPT !.at = job.at + 1] /\ UNCHANGED <<lists, critical>>
  <2>1. PICK m \in Nat \ {0} : m = job.at + 1 BY <1>3
  <2>2. job' = [job EXCEPT !.at = m] BY <1>11, <2>1
  <2>3. job' \in Unset BY <1>2, <2>2 DEF Unset
  <2>4. lists' \in [Lists -> Seq(Entry)] /\ ListsOK' BY <1>11, SameLists
  <2> QED BY <1>1, <1>9, <1>11, <2>3, <2>4, StaysTyped, OtherJob
<1> QED BY <1>8, <1>10, <1>11

\* What AllocMem() may give is a list, and none of them is out of its memory.
LEMMA CopiesGood ==
  ASSUME IInv
  PROVE  /\ \A e \in Copies("env") : e # NULL => Good("env", e)
         /\ \A a \in Copies("alias") : a # NULL => Good("alias", a) /\ Fits("alias", a)
<1>1. Good("env", lists["env"]) /\ Good("alias", lists["alias"]) /\ Fits("alias", lists["alias"])
  BY DEF IInv, ListsOK, Lists
<1>2. PICK s : s = lists["env"] OBVIOUS
<1>3. \A i \in DOMAIN s : Good("env", SubSeq(s, 1, i))
  <2> TAKE i \in DOMAIN s
  <2>1. Good("env", s) BY <1>1, <1>2
  <2> QED BY <2>1, FirstGood
<1>4. Copies("env") = {NULL, s} \cup {SubSeq(s, 1, i) : i \in {1} \cap DOMAIN s} BY <1>2 DEF Copies
<1>5. Copies("alias") = {NULL, lists["alias"]} BY DEF Copies
<1>6. \A e \in Copies("env") : e # NULL => Good("env", e)
  <2> TAKE e \in Copies("env")
  <2>1. CASE e \in {NULL, s} BY <1>1, <1>2, <2>1
  <2>2. CASE e \in {SubSeq(s, 1, i) : i \in {1} \cap DOMAIN s} BY <1>3, <2>2
  <2> QED BY <1>4, <2>1, <2>2
<1> QED BY <1>1, <1>5, <1>6

LEMMA SetlocalStep ==
  ASSUME EnvironmentAssumption, IInv, Setlocal
  PROVE  IInv'
<1>1. ~Refused /\ UNCHANGED <<lists, place, session, critical>> BY DEF Setlocal
<1>2. offset < Nest BY <1>1 DEF Refused
<1>3. TypeOK /\ ListsOK /\ SlotsOK /\ SlotsInUse BY DEF IInv
<1>4. /\ Nest \in Nat /\ offset \in Nat
      /\ slots \in [0 .. Nest - 1 -> SlotType]
  BY <1>3, SlotTypes
<1>5. PICK k \in 0 .. Nest - 1 : k = offset BY <1>2, <1>4
<1>6. slots[k] \in SlotType BY <1>4
<1>7. PICK e \in Copies("env"), a \in Copies("alias"), d \in {place.dir, NULL} :
        /\ e = NULL => a = NULL
        /\ slots' = [slots EXCEPT ![offset] =
             [env |-> e, alias |-> IF e = NULL THEN slots[offset].alias ELSE a,
              place |-> [place EXCEPT !.dir = d], whole |-> e = lists["env"]]]
        /\ IF NULL \in {e, a} THEN offset' = offset /\ Return("error")
           ELSE offset' = offset + 1 /\ Return("0")
  BY DEF Setlocal
<1>8. PICK b : b = IF e = NULL THEN slots[k].alias ELSE a OBVIOUS
<1>9. PICK w \in BOOLEAN : w = (e = lists["env"]) OBVIOUS
<1>0. PICK p \in Kept : p = [place EXCEPT !.dir = d]
  <2>1. place \in Here BY <1>3 DEF TypeOK
  <2> QED BY <2>1 DEF Here, Kept
<1>10. PICK new : new = [env |-> e, alias |-> b, place |-> p, whole |-> w] OBVIOUS
<1>11. slots' = [slots EXCEPT ![k] = new] BY <1>0, <1>5, <1>7, <1>8, <1>9, <1>10
<1>12. /\ e # NULL => Good("env", e)
       /\ b # NULL => Good("alias", b) /\ Fits("alias", b)
  <2>1. e # NULL => Good("env", e) BY CopiesGood
  <2>2. a # NULL => Good("alias", a) /\ Fits("alias", a) BY CopiesGood
  <2>3. slots[k].alias # NULL => Good("alias", slots[k].alias) /\ Fits("alias", slots[k].alias)
    BY <1>3 DEF SlotsOK
  <2> QED BY <1>8, <2>1, <2>2, <2>3
<1>13. new \in SlotType
  <2>1. e \in {NULL} \cup Seq(Entry) /\ b \in {NULL} \cup Seq(Entry) BY <1>12 DEF Good
  <2> QED BY <1>10, <2>1 DEF SlotType
<1>14. slots' \in [0 .. Nest - 1 -> SlotType] BY <1>4, <1>11, <1>13
<1>15. \A i \in 0 .. Nest - 1 : slots'[i] = IF i = k THEN new ELSE slots[i] BY <1>4, <1>11
<1>16. new.env = e /\ new.alias = b /\ new.place \in Kept BY <1>10
<1>17. job' = NULL /\ nReturn' \in {"0", "error", "raised"} /\ offset' \in {k, k + 1}
       /\ (offset' # k => NULL \notin {e, a})
  BY <1>5, <1>7 DEF Return
<1>18. offset' \in 0 .. Nest BY <1>4, <1>5, <1>17
<1>19. TypeOK' BY <1>1, <1>3, <1>14, <1>17, <1>18 DEF TypeOK
<1>20. ListsOK' BY <1>1, <1>3 DEF ListsOK
<1>21. SlotsOK'
  <2> SUFFICES ASSUME NEW i \in 0 .. Nest - 1
               PROVE  /\ slots'[i].env # NULL => Good("env", slots'[i].env) /\ slots'[i].place \in Kept
                      /\ slots'[i].alias # NULL => Good("alias", slots'[i].alias) /\ Fits("alias", slots'[i].alias)
    BY DEF SlotsOK
  <2>1. CASE i = k BY <1>12, <1>15, <1>16, <2>1
  <2>2. CASE i # k
    <3>1. slots'[i] = slots[i] BY <1>15, <2>2
    <3> QED BY <1>3, <3>1 DEF SlotsOK
  <2> QED BY <2>1, <2>2
<1>22. SlotsInUse'
  <2> SUFFICES ASSUME NEW i \in 0 .. offset' - 1 PROVE NULL \notin {slots'[i].env, slots'[i].alias}
    BY DEF SlotsInUse
  <2>1. CASE i = k
    <3>1. offset' # k BY <1>4, <1>5, <2>1
    <3>2. e # NULL /\ a # NULL BY <1>17, <3>1
    <3>3. b = a BY <1>8, <3>2
    <3> QED BY <1>15, <1>16, <2>1, <3>2, <3>3
  <2>2. CASE i # k
    <3>0. k \in Nat /\ (offset' = k \/ offset' = k + 1) BY <1>4, <1>5, <1>17
    <3>1. i \in 0 .. offset - 1 /\ i \in 0 .. Nest - 1 BY <1>2, <1>4, <1>5, <2>2, <3>0
    <3>2. slots'[i] = slots[i] BY <1>15, <2>2, <3>1
    <3> QED BY <1>3, <3>1, <3>2 DEF SlotsInUse
  <2> QED BY <2>1, <2>2
<1>23. ~Running("remove")' /\ ~Running("restore")' BY <1>17 DEF Running
<1> QED BY <1>19, <1>20, <1>21, <1>22, <1>23 DEF IInv, EndingOK, InEndlocal, RemoveOK, RestoreOK

\* The first variable that is not exported, if there is one.
LEMMA UnexportedFirst ==
  ASSUME lists["env"] \in Seq(Entry)
  PROVE  /\ Unexported \in 0 .. Len(lists["env"])
         /\ Unexported = 0 => \A i \in DOMAIN lists["env"] : lists["env"][i][1] \in job.exports
         /\ Unexported # 0 => lists["env"][Unexported][1] \notin job.exports
<1>1. PICK s \in Seq(Entry) : s = lists["env"] OBVIOUS
<1>2. PICK X : X = job.exports OBVIOUS
<1> DEFINE I == {i \in 1 .. Len(s) : s[i][1] \notin X}
           f == CHOOSE x \in I : \A y \in I : x <= y
<1>3. Len(s) \in Nat /\ DOMAIN s = 1 .. Len(s) OBVIOUS
<1>4. Unexported = IF I # {} THEN f ELSE 0 BY <1>1, <1>2 DEF Unexported, SelectInSeq, Min
<1>5. CASE I = {}
  <2>1. Unexported = 0 BY <1>4, <1>5
  <2>2. \A i \in 1 .. Len(s) : s[i][1] \in X BY <1>5
  <2> HIDE DEF I
  <2> QED BY <1>1, <1>2, <1>3, <2>1, <2>2
<1>6. CASE I # {}
  <2>1. I \subseteq Nat BY <1>3
  <2>2. \E x \in I : \A y \in I : x <= y BY <1>6, <2>1, LeastElement
  <2>3. f \in I BY <2>2
  <2>4. Unexported = f BY <1>4, <1>6
  <2> HIDE DEF f
  <2>5. f \in 1 .. Len(s) /\ s[f][1] \notin X BY <2>3
  <2> HIDE DEF I
  <2> QED BY <1>1, <1>2, <1>3, <2>4, <2>5
<1> QED BY <1>5, <1>6

\* The entries that are left, and the one that was deleted.
LEMMA RemovedSet ==
  ASSUME NEW s \in Seq(Entry), NEW i \in 1 .. Len(s)
  PROVE  AsSet(s) = AsSet(RemoveAt(s, i)) \cup {s[i]}
<1> DEFINE t == RemoveAt(s, i)
<1>1. /\ t \in Seq(Entry) /\ Len(t) = Len(s) - 1
      /\ \A j \in 1 .. Len(s) - 1 : t[j] = IF j < i THEN s[j] ELSE s[j + 1]
  BY Removed
<1>2. Len(s) \in Nat /\ DOMAIN s = 1 .. Len(s) OBVIOUS
<1> HIDE DEF t
<1>3. DOMAIN t = 1 .. Len(s) - 1 BY <1>1
<1>4. ASSUME NEW j \in DOMAIN s PROVE s[j] \in AsSet(t) \cup {s[i]}
  <2>1. CASE j < i
    <3>1. j \in DOMAIN t /\ t[j] = s[j] BY <1>1, <1>2, <1>3, <2>1
    <3> QED BY <3>1 DEF AsSet
  <2>2. CASE j > i
    <3>1. PICK k \in DOMAIN t : k = j - 1 BY <1>2, <1>3, <2>2
    <3>2. ~(k < i) /\ k + 1 = j BY <1>2, <2>2, <3>1
    <3>3. t[k] = s[j] BY <1>1, <1>3, <3>2
    <3> QED BY <3>3 DEF AsSet
  <2>3. j = i \/ j < i \/ j > i BY <1>2
  <2> QED BY <2>1, <2>2, <2>3
<1>5. ASSUME NEW j \in DOMAIN t PROVE t[j] \in AsSet(s)
  <2>1. j \in DOMAIN s /\ j + 1 \in DOMAIN s BY <1>2, <1>3
  <2>2. t[j] = s[j] \/ t[j] = s[j + 1] BY <1>1, <1>3
  <2> QED BY <2>1, <2>2 DEF AsSet
<1>6. AsSet(t) = {t[j] : j \in DOMAIN t} /\ AsSet(s) = {s[j] : j \in DOMAIN s} BY DEF AsSet
<1>7. s[i] \in AsSet(s) BY <1>2, <1>6
<1>8. AsSet(s) = AsSet(t) \cup {s[i]} BY <1>4, <1>5, <1>6, <1>7
<1> QED BY <1>8 DEF t

\* The entries with one more.
LEMMA AppendedSet ==
  ASSUME NEW s \in Seq(Entry), NEW e \in Entry
  PROVE  AsSet(Append(s, e)) = AsSet(s) \cup {e}
<1> DEFINE t == Append(s, e)
           n == Len(s) + 1
<1>1. /\ t \in Seq(Entry) /\ Len(t) = n /\ \A i \in 1 .. Len(s) : t[i] = s[i]
      /\ t[n] = e
  BY AppendProperties
<1>2. Len(s) \in Nat /\ DOMAIN s = 1 .. Len(s) OBVIOUS
<1> HIDE DEF t
<1>3. DOMAIN t = 1 .. n BY <1>1
<1>4. DOMAIN t = DOMAIN s \cup {n} BY <1>2, <1>3
<1> HIDE DEF n
<1>5. \A i \in DOMAIN s : t[i] = s[i] BY <1>1, <1>2
<1>6. {t[i] : i \in DOMAIN t} = {s[i] : i \in DOMAIN s} \cup {e} BY <1>1, <1>4, <1>5
<1> QED BY <1>6 DEF AsSet, t

LEMMA EndlocalBeginsStep ==
  ASSUME EnvironmentAssumption, IInv, EndlocalBegins
  PROVE  IInv'
<1>1. /\ Running("endlocal") /\ offset > 0 /\ offset' = offset - 1
      /\ UNCHANGED <<lists, place, slots, session, critical>>
  BY DEF EndlocalBegins
<1>2. TypeOK /\ ListsOK /\ SlotsOK /\ SlotsInUse BY DEF IInv
<1>3. Nest \in Nat /\ offset \in Nat /\ offset <= Nest BY <1>2, SlotTypes
<1>4. PICK k \in 0 .. Nest - 1 : k = offset - 1 BY <1>1, <1>3
<1>5. PICK X \in SUBSET Names, q \in BOOLEAN : X = job.exports /\ q = job.exit BY <1>1, <1>2, JobFields
<1>6. PICK left, was : left = slots[k].env /\ was = {e \in AsSet(lists["env"]) : e[1] \in X} OBVIOUS
<1>7. \/ NULL \in {slots[k].env, slots[k].alias} /\ job' = NULL /\ nReturn' = "error"
      \/ /\ NULL \notin {slots[k].env, slots[k].alias}
         /\ job' = [op |-> "remove", exports |-> X, exit |-> q, left |-> left, was |-> was, short |-> FALSE]
         /\ UNCHANGED nReturn
  BY <1>4, <1>5, <1>6 DEF EndlocalBegins, Return
<1>8. ListsOK' /\ SlotsOK' BY <1>1, <1>2 DEF ListsOK, SlotsOK
<1>9. SlotsInUse'
  <2>1. \A i \in 0 .. offset' - 1 : i \in 0 .. offset - 1 BY <1>1, <1>3
  <2> QED BY <1>1, <1>2, <2>1 DEF SlotsInUse
<1>10. offset' \in 0 .. Nest BY <1>1, <1>3, <1>4
<1>11. CASE job' = NULL /\ nReturn' = "error"
  <2>1. TypeOK' BY <1>1, <1>2, <1>10, <1>11 DEF TypeOK
  <2>2. ~Running("remove")' /\ ~Running("restore")' BY <1>11 DEF Running
  <2> QED BY <1>8, <1>9, <2>1, <2>2 DEF IInv, EndingOK, InEndlocal, RemoveOK, RestoreOK
<1>12. CASE /\ NULL \notin {slots[k].env, slots[k].alias}
            /\ job' = [op |-> "remove", exports |-> X, exit |-> q, left |-> left, was |-> was, short |-> FALSE]
            /\ UNCHANGED nReturn
  <2>1. left \in Seq(Entry) BY <1>2, <1>6, <1>12, SlotTypes
  <2>2. was \subseteq Entry
    <3>1. lists["env"] \in Seq(Entry) BY <1>2 DEF TypeOK, Lists
    <3>2. AsSet(lists["env"]) \subseteq Entry BY <3>1 DEF AsSet
    <3> QED BY <1>6, <3>2
  <2>3. job' \in Ending BY <1>12, <2>1, <2>2 DEF Ending
  <2>4. job'.op = "remove" /\ job'.exports = X /\ job'.left = left /\ job'.was = was /\ job'.short = FALSE
    BY <1>12
  <2>5. TypeOK' BY <1>1, <1>2, <1>10, <1>12, <2>3 DEF TypeOK
  <2>6. Slot' = slots[k] BY <1>1, <1>4 DEF Slot
  <2>7. Slot'.env = left /\ Slot'.alias = slots[k].alias BY <1>6, <2>6
  <2>8. Len(left) \in Nat BY <2>1
  <2>9. Done' = 0
    <3>1. Done' = Len(Slot'.env) - Len(job'.left) BY DEF Done
    <3> QED BY <2>4, <2>7, <2>8, <3>1
  <2>10. EndingOK'
    <3>1. offset' < Nest BY <1>1, <1>3, <1>4
    <3>2. NULL \notin {Slot'.env, Slot'.alias} BY <1>6, <1>12, <2>7
    <3>3. \A i \in DOMAIN job'.left : job'.left[i] = Slot'.env[Done' + i]
      <4>1. \A i \in DOMAIN left : 0 + i = i BY <2>1
      <4> QED BY <2>4, <2>7, <2>9, <4>1
    <3>4. \A e \in job'.was : e[1] \in job'.exports BY <1>6, <2>4
    <3>5. Done' >= 0 BY <2>9
    <3> QED BY <2>3, <3>1, <3>2, <3>3, <3>4, <3>5 DEF EndingOK
  <2>11. RemoveOK' BY <1>1, <1>6, <2>4, <2>9 DEF RemoveOK
  <2>12. RestoreOK' BY <2>4 DEF RestoreOK, Running
  <2> QED BY <1>8, <1>9, <2>5, <2>10, <2>11, <2>12 DEF IInv
<1> QED BY <1>7, <1>11, <1>12

\* An ENDLOCAL that is at work: its save and what is left of it.
LEMMA AtWork ==
  ASSUME EnvironmentAssumption, IInv, InEndlocal
  PROVE  /\ job \in Ending /\ job # NULL
         /\ offset \in 0 .. Nest - 1
         /\ Slot.env \in Seq(Entry) /\ Good("env", Slot.env) /\ Slot.env # NULL
         /\ Good("alias", Slot.alias) /\ Fits("alias", Slot.alias) /\ Slot.alias # NULL
         /\ Slot.place \in Kept
         /\ Done \in Nat /\ Len(Slot.env) = Done + Len(job.left)
         /\ \A i \in DOMAIN job.left : job.left[i] = Slot.env[Done + i]
         /\ \A e \in job.was : e[1] \in job.exports
<1>1. TypeOK /\ SlotsOK BY DEF IInv
<1>2. /\ job \in Ending /\ offset < Nest /\ NULL \notin {Slot.env, Slot.alias}
      /\ Done >= 0 /\ \A i \in DOMAIN job.left : job.left[i] = Slot.env[Done + i]
      /\ \A e \in job.was : e[1] \in job.exports
  BY DEF IInv, EndingOK
<1>3. Nest \in Nat /\ offset \in Nat BY <1>1, SlotTypes
<1>4. offset \in 0 .. Nest - 1 BY <1>2, <1>3
<1>5. /\ Good("env", Slot.env) /\ Slot.place \in Kept
      /\ Good("alias", Slot.alias) /\ Fits("alias", Slot.alias)
  BY <1>1, <1>2, <1>4 DEF SlotsOK, Slot
<1>6. Slot.env \in Seq(Entry) BY <1>5 DEF Good
<1>7. job.left \in Seq(Entry) BY <1>2 DEF Ending
<1>8. Len(Slot.env) \in Nat /\ Len(job.left) \in Nat BY <1>6, <1>7
<1>9. Done \in Nat /\ Len(Slot.env) = Done + Len(job.left) BY <1>2, <1>8 DEF Done
<1>10. job # NULL BY DEF InEndlocal, Running
<1> QED BY <1>2, <1>4, <1>5, <1>6, <1>9, <1>10

LEMMA EndlocalRemovesStep ==
  ASSUME EnvironmentAssumption, IInv, EndlocalRemoves
  PROVE  IInv'
<1>1. Running("remove") /\ UNCHANGED <<place, Saving, nReturn>> BY DEF EndlocalRemoves
<1>2. InEndlocal BY <1>1 DEF InEndlocal
<1>3. TypeOK /\ ListsOK /\ SlotsOK /\ SlotsInUse BY DEF IInv
<1>4. PICK env \in Seq(Entry) : env = lists["env"] BY <1>3 DEF TypeOK, Lists
<1>5. PICK u : u = Unexported OBVIOUS
<1>6. job \in Ending BY <1>2, AtWork
<1>7. PICK X, left, was : X = job.exports /\ left = job.left /\ was = job.was OBVIOUS
<1>8. /\ u \in 0 .. Len(env)
      /\ u = 0 => \A i \in DOMAIN env : env[i][1] \in X
      /\ u # 0 => env[u][1] \notin X
  BY <1>4, <1>5, <1>7, UnexportedFirst
<1>9. Done = 0 /\ ~job.short /\ was = {e \in AsSet(env) : e[1] \in X}
  BY <1>1, <1>4, <1>7 DEF IInv, RemoveOK
<1>10. slots' = slots /\ offset' = offset /\ session' = session BY <1>1 DEF Saving
<1>11. SlotsOK' /\ SlotsInUse' BY <1>3, <1>10 DEF SlotsOK, SlotsInUse
<1>12. Slot' = Slot BY <1>10 DEF Slot
<1>13. place' \in Here /\ nReturn' \in {"0", "error", "raised"} BY <1>1, StaysTyped
<1>14. CASE u = 0
  <2>1. job' = [job EXCEPT !.op = "restore"] /\ UNCHANGED <<lists, critical>> BY <1>5, <1>14 DEF EndlocalRemoves
  <2>2. /\ job' \in Ending /\ job'.op = "restore" /\ job'.left = left /\ job'.was = was
        /\ job'.exports = X /\ job'.short = job.short
    BY <1>6, <1>7, <2>1 DEF Ending
  <2>3. TypeOK' BY <1>3, <1>10, <1>13, <2>1, <2>2 DEF TypeOK
  <2>4. ListsOK' BY <1>3, <2>1 DEF ListsOK
  <2>5. Done' = 0 BY <1>7, <1>9, <1>12, <2>2 DEF Done
  <2>6. EndingOK'
    <3>1. offset' < Nest /\ NULL \notin {Slot'.env, Slot'.alias}
      BY <1>2, <1>10, <1>12 DEF IInv, EndingOK
    <3>2. \A i \in DOMAIN left : left[i] = Slot.env[0 + i] BY <1>2, <1>7, <1>9, AtWork
    <3>3. \A e \in was : e[1] \in X BY <1>9
    <3> QED BY <1>12, <2>2, <2>5, <3>1, <3>2, <3>3 DEF EndingOK
  <2>7. RemoveOK' BY <2>2 DEF RemoveOK, Running
  <2>8. AsSet(env) = was
    <3>1. \A e \in AsSet(env) : e[1] \in X BY <1>8, <1>14 DEF AsSet
    <3> QED BY <1>9, <3>1
  <2>9. PutBack' = {} BY <2>5 DEF PutBack
  <2>10. RestoreOK' BY <1>4, <2>1, <2>2, <2>8, <2>9 DEF RestoreOK
  <2> QED BY <1>11, <2>3, <2>4, <2>6, <2>7, <2>10 DEF IInv
<1>15. CASE u # 0
  <2>1. u \in DOMAIN env BY <1>8, <1>15
  <2>2. env[u] \in Entry BY <2>1
  <2>3. PICK n \in Names : n = env[u][1] BY <2>2 DEF Entry
  <2>4. AddOK("env", n, 0) /\ UNCHANGED job BY <1>4, <1>5, <1>15, <2>3 DEF EndlocalRemoves
  <2>5. 0 \in Nat /\ "env" \in Lists BY DEF Lists
  <2>6. lists' \in [Lists -> Seq(Entry)] /\ ListsOK' /\ critical' = critical BY <2>4, <2>5, AddStep
  <2>7. TypeOK'
    <3>1. critical' \in BOOLEAN BY <2>6, StaysTyped
    <3> QED BY <1>3, <1>6, <1>10, <1>13, <2>4, <2>6, <3>1 DEF TypeOK
  <2>8. PICK i : i = Found("env", env, n) OBVIOUS
  <2>9. i \in 1 .. Len(env) /\ env[i][1] = n
    <3>1. /\ i \in 0 .. Len(env)
          /\ i = 0 => \A j \in DOMAIN env : ~Matches("env", n, env[j][1])
          /\ i # 0 => Matches("env", n, env[i][1])
      BY <2>8, FoundFirst
    <3>2. Matches("env", n, env[u][1]) BY <2>3 DEF Matches
    <3>3. i # 0 BY <2>1, <3>1, <3>2
    <3>4. Matches("env", n, env[i][1]) BY <3>1, <3>3
    <3> QED BY <3>1, <3>3, <3>4 DEF Matches
  <2>10. lists'["env"] = RemoveAt(env, i)
    <3>1. lists' = [lists EXCEPT !["env"] = Added("env", env, n, 0)] BY <1>4, <2>4 DEF AddOK
    <3>2. lists'["env"] = Added("env", env, n, 0) BY <1>3, <2>5, <3>1 DEF TypeOK
    <3>3. Added("env", env, n, 0) = RemoveAt(env, i) BY <2>8, <2>9 DEF Added
    <3> QED BY <3>2, <3>3
  <2>11. AsSet(env) = AsSet(lists'["env"]) \cup {env[i]} BY <2>9, <2>10, RemovedSet
  <2>12. env[i][1] \notin X BY <1>8, <1>15, <2>3, <2>9
  <2>13. was = {e \in AsSet(lists'["env"]) : e[1] \in X} BY <1>9, <2>11, <2>12
  <2>14. Done' = Done BY <1>12, <2>4 DEF Done
  <2>15. EndingOK' BY <1>2, <1>10, <1>12, <2>4, <2>14 DEF IInv, EndingOK, InEndlocal, Running
  <2>16. RemoveOK' BY <1>7, <1>9, <2>4, <2>13, <2>14 DEF RemoveOK
  <2>17. RestoreOK' BY <1>1, <2>4 DEF RestoreOK, Running
  <2> QED BY <1>11, <2>6, <2>7, <2>15, <2>16, <2>17 DEF IInv
<1> QED BY <1>14, <1>15

LEMMA RestoredStep ==
  ASSUME EnvironmentAssumption, IInv, Restored
  PROVE  IInv'
<1>1. /\ Running("restore")
      /\ lists' = [lists EXCEPT !["alias"] = Slot.alias]
      /\ slots' = [slots EXCEPT ![offset] = Freed(slots[offset])]
      /\ UNCHANGED <<offset, session, critical>>
  BY DEF Restored
<1>2. InEndlocal BY <1>1 DEF InEndlocal
<1>3. TypeOK /\ ListsOK /\ SlotsOK /\ SlotsInUse BY DEF IInv
<1>4. PICK k \in 0 .. Nest - 1 : k = offset BY <1>2, AtWork
<1>5. PICK a : a = Slot.alias OBVIOUS
<1>6. Good("alias", a) /\ Fits("alias", a) BY <1>1, <1>2, <1>5, AtWork
<1>0. place' \in Here
  <2>1. Slot.place \in Kept BY <1>2, AtWork
  <2>2. place \in Here BY <1>3 DEF TypeOK
  <2>3. \E d : /\ place' = [dir |-> d, chars |-> Slot.place.chars]
               /\ d = place.dir \/ (d = Slot.place.dir /\ d # NULL)
    BY DEF Restored
  <2> QED BY <2>1, <2>2, <2>3 DEF Here, Kept
<1>7. a \in Seq(Entry) BY <1>6 DEF Good
<1>8. lists \in [Lists -> Seq(Entry)] /\ "alias" \in Lists BY <1>3 DEF TypeOK, Lists
<1>9. lists' \in [Lists -> Seq(Entry)] BY <1>1, <1>5, <1>7, <1>8
<1>10. \A l \in Lists : lists'[l] = IF l = "alias" THEN a ELSE lists[l] BY <1>1, <1>5, <1>8
<1>11. ListsOK' BY <1>3, <1>6, <1>10 DEF ListsOK
<1>12. /\ Nest \in Nat /\ offset \in Nat
       /\ slots \in [0 .. Nest - 1 -> SlotType]
  BY <1>3, SlotTypes
<1>13. PICK free : free = Freed(slots[k]) OBVIOUS
<1>14. free \in SlotType /\ free.env = NULL /\ free.alias = NULL
  <2>1. slots[k] \in SlotType BY <1>12
  <2> QED BY <1>13, <2>1 DEF Freed, SlotType
<1>15. slots' = [slots EXCEPT ![k] = free] BY <1>1, <1>4, <1>13
<1>16. slots' \in [0 .. Nest - 1 -> SlotType] BY <1>12, <1>14, <1>15
<1>17. \A i \in 0 .. Nest - 1 : slots'[i] = IF i = k THEN free ELSE slots[i] BY <1>12, <1>15
<1>18. SlotsOK' BY <1>3, <1>14, <1>17 DEF SlotsOK
<1>19. SlotsInUse'
  <2> SUFFICES ASSUME NEW i \in 0 .. offset - 1 PROVE NULL \notin {slots'[i].env, slots'[i].alias}
    BY <1>1 DEF SlotsInUse
  <2>1. i \in 0 .. Nest - 1 /\ i # k BY <1>4, <1>12
  <2>2. slots'[i] = slots[i] BY <1>17, <2>1
  <2> QED BY <1>3, <2>2 DEF SlotsInUse
<1>20. (job' = NULL \/ job' = [op |-> "endlocal", exports |-> {}, exit |-> TRUE])
       /\ nReturn' \in {"0", "error", "raised"}
  BY <1>3 DEF Restored, Return, TypeOK
<1>21. [op |-> "endlocal", exports |-> {}, exit |-> TRUE] \in Command BY DEF Command
<1>22. TypeOK' BY <1>0, <1>1, <1>3, <1>6, <1>9, <1>16, <1>20, <1>21 DEF TypeOK
<1>23. ~Running("remove")' /\ ~Running("restore")' BY <1>20 DEF Running
<1> QED BY <1>11, <1>18, <1>19, <1>22, <1>23 DEF IInv, EndingOK, InEndlocal, RemoveOK, RestoreOK

\* The first variable that is left is taken.
LEMMA OneFurther ==
  ASSUME EnvironmentAssumption, IInv, Running("restore"), job.left # <<>>,
         UNCHANGED <<slots, offset>>, job' \in Ending, job'.op = "restore",
         job'.exports = job.exports, job'.was = job.was, job'.left = Tail(job.left)
  PROVE  /\ EndingOK' /\ RemoveOK' /\ Done' = Done + 1
         /\ Done + 1 \in DOMAIN Slot.env /\ Head(job.left) = Slot.env[Done + 1]
         /\ PutBack' = PutBack \cup {e \in {Head(job.left)} : e[1] \notin job.exports}
<1>1. InEndlocal BY DEF InEndlocal
<1>2. PICK env, left, d, X : env = Slot.env /\ left = job.left /\ d = Done /\ X = job.exports
  OBVIOUS
<1>3. /\ d \in Nat /\ job \in Ending /\ env \in Seq(Entry) /\ Len(env) = d + Len(left)
      /\ \A i \in DOMAIN left : left[i] = env[d + i]
      /\ \A e \in job.was : e[1] \in X
  BY <1>1, <1>2, AtWork
<1>4. left \in Seq(Entry) /\ left # <<>> BY <1>2, <1>3 DEF Ending
<1>5. PICK t \in Seq(Entry) : t = Tail(left)
  <2>1. Tail(left) \in Seq(Entry) BY <1>4, HeadTailProperties
  <2> QED BY <2>1
<1>6. Len(left) \in Nat /\ Len(left) >= 1 /\ Len(t) = Len(left) - 1 /\ DOMAIN t = 1 .. Len(left) - 1
      /\ \A i \in 1 .. Len(left) - 1 : t[i] = left[i + 1]
  BY <1>4, <1>5, HeadTailProperties
<1>7. Head(left) = left[1] BY <1>4
<1>8. Slot' = Slot BY DEF Slot
<1>9. job'.left = t BY <1>2, <1>5
<1>10. Done' = d + 1
  <2>1. Done' = Len(env) - Len(t) BY <1>2, <1>8, <1>9 DEF Done
  <2> QED BY <1>3, <1>6, <2>1
<1>11. 1 \in DOMAIN left /\ d + 1 \in DOMAIN env /\ Head(left) = env[d + 1]
  BY <1>3, <1>4, <1>6, <1>7
<1>12. EndingOK'
  <2>1. offset' < Nest /\ NULL \notin {Slot'.env, Slot'.alias} BY <1>1, <1>8 DEF IInv, EndingOK
  <2>2. \A i \in DOMAIN t : t[i] = env[(d + 1) + i]
    <3> TAKE i \in DOMAIN t
    <3>1. i + 1 \in DOMAIN left /\ t[i] = left[i + 1] /\ d + (i + 1) = (d + 1) + i
      BY <1>3, <1>4, <1>6
    <3>2. left[i + 1] = env[d + (i + 1)] BY <1>3, <3>1
    <3> QED BY <3>1, <3>2
  <2>3. d + 1 >= 0 BY <1>3
  <2> QED BY <1>2, <1>3, <1>8, <1>9, <1>10, <2>1, <2>2, <2>3 DEF EndingOK
<1>13. RemoveOK' BY DEF RemoveOK, Running
<1>14. PutBack' = PutBack \cup {e \in {Head(left)} : e[1] \notin X}
  <2> DEFINE K(m) == {k \in 1 .. m : env[k][1] \notin X}
  <2>1. PutBack = {env[i] : i \in K(d)} BY <1>2 DEF PutBack
  <2>2. PutBack' = {env[i] : i \in K(d + 1)} BY <1>2, <1>8, <1>10 DEF PutBack
  <2>3. 1 .. d + 1 = (1 .. d) \cup {d + 1} BY <1>3
  <2>4. K(d + 1) = K(d) \cup {k \in {d + 1} : env[k][1] \notin X} BY <2>3
  <2> HIDE DEF K
  <2>5. {env[i] : i \in K(d + 1)} = {env[i] : i \in K(d)} \cup {e \in {env[d + 1]} : e[1] \notin X}
    BY <2>4
  <2> QED BY <1>11, <2>1, <2>2, <2>5
<1> QED BY <1>2, <1>10, <1>11, <1>12, <1>13, <1>14

LEMMA RestoreStep ==
  ASSUME EnvironmentAssumption, IInv, Restore
  PROVE  IInv'
<1>1. Running("restore") /\ job.left # <<>> /\ UNCHANGED <<place, Saving>> BY DEF Restore
<1>2. InEndlocal BY <1>1 DEF InEndlocal
<1>3. TypeOK /\ ListsOK /\ SlotsOK /\ SlotsInUse BY DEF IInv
<1>4. slots' = slots /\ offset' = offset /\ session' = session BY <1>1 DEF Saving
<1>5. SlotsOK' /\ SlotsInUse' BY <1>3, <1>4 DEF SlotsOK, SlotsInUse
<1>6. job \in Ending /\ job # NULL /\ job.op = "restore" BY <1>1, <1>2, AtWork DEF Running
<1>7. job.left \in Seq(Entry) BY <1>6 DEF Ending
<1>8. PICK e \in Entry, t \in Seq(Entry) : e = Head(job.left) /\ t = Tail(job.left)
  BY <1>1, <1>7, HeadTailProperties
<1>9. PICK n \in Names, v \in Nat : e = <<n, v>>
  <2>1. e = <<e[1], e[2]>> /\ e[1] \in Names /\ e[2] \in Nat BY DEF Entry
  <2> QED BY <2>1, Zenon
<1>10. Head(job.left)[1] = n /\ Head(job.left)[2] = v BY <1>8, <1>9
<1>11. PICK on : on = [job EXCEPT !.left = Tail(job.left)] OBVIOUS
<1>12. /\ on \in Ending /\ on.op = "restore" /\ on.left = Tail(job.left) /\ on.was = job.was
       /\ on.exports = job.exports /\ on.short = job.short
  <2>1. on = [job EXCEPT !.left = t] BY <1>8, <1>11
  <2> QED BY <1>6, <1>8, <2>1 DEF Ending
<1>13. \/ n \in job.exports /\ job' = on /\ UNCHANGED <<lists, critical, nReturn>>
       \/ n \notin job.exports /\ AddOK("env", n, v) /\ job' = on /\ UNCHANGED nReturn
       \/ /\ n \notin job.exports /\ AddFails("env", n, v) /\ UNCHANGED nReturn
          /\ job' = [job EXCEPT !.left = Tail(job.left), !.short = TRUE]
       \/ n \notin job.exports /\ AddRaises("env", n, v)
  BY <1>10, <1>11 DEF Restore
<1>14. place' \in Here BY <1>1, StaysTyped
<1>15. PICK env \in Seq(Entry) : env = lists["env"] BY <1>3 DEF TypeOK, Lists
<1>16. CASE n \in job.exports /\ job' = on /\ UNCHANGED <<lists, critical, nReturn>>
  <2>1. TypeOK' BY <1>3, <1>4, <1>12, <1>14, <1>16 DEF TypeOK
  <2>2. ListsOK' BY <1>3, <1>16 DEF ListsOK
  <2>3. EndingOK' /\ RemoveOK' /\ PutBack' = PutBack \cup {x \in {e} : x[1] \notin job.exports}
    BY <1>1, <1>4, <1>8, <1>12, <1>16, OneFurther
  <2>4. PutBack' = PutBack BY <1>9, <1>16, <2>3
  <2>5. RestoreOK' BY <1>1, <1>12, <1>16, <2>4 DEF IInv, RestoreOK
  <2> QED BY <1>5, <2>1, <2>2, <2>3, <2>5 DEF IInv
<1>17. CASE n \notin job.exports /\ AddOK("env", n, v) /\ job' = on /\ UNCHANGED nReturn
  <2>1. "env" \in Lists BY DEF Lists
  <2>2. lists' \in [Lists -> Seq(Entry)] /\ ListsOK' /\ critical' = critical BY <1>17, <2>1, AddStep
  <2>3. TypeOK'
    <3>1. critical' \in BOOLEAN BY <2>2, StaysTyped
    <3>2. nReturn' \in {"0", "error", "raised"} BY <1>17, StaysTyped
    <3> QED BY <1>3, <1>4, <1>12, <1>14, <1>17, <2>2, <3>1, <3>2 DEF TypeOK
  <2>4. /\ EndingOK' /\ RemoveOK' /\ PutBack' = PutBack \cup {x \in {e} : x[1] \notin job.exports}
        /\ Done + 1 \in DOMAIN Slot.env /\ e = Slot.env[Done + 1]
    BY <1>1, <1>4, <1>8, <1>12, <1>17, OneFurther
  <2>5. PutBack' = PutBack \cup {e} BY <1>9, <1>17, <2>4
  <2>6. RestoreOK'
    <3> SUFFICES ASSUME ~job.short PROVE AsSet(lists'["env"]) = job.was \cup PutBack'
      BY <1>12, <1>17 DEF RestoreOK
    <3>1. AsSet(env) = job.was \cup PutBack BY <1>1, <1>15 DEF IInv, RestoreOK
    <3>2. PICK s \in Seq(Entry), d \in Nat : s = Slot.env /\ d = Done /\ Good("env", s)
      BY <1>2, AtWork
    <3>3. d + 1 \in DOMAIN s /\ e = s[d + 1] BY <2>4, <3>2
    <3>4. v > 0
      <4>1. s[d + 1][2] > 0 BY <3>2, <3>3 DEF Good, Positive
      <4>2. e[2] = v BY <1>9
      <4> QED BY <3>3, <4>1, <4>2
    <3>5. \A x \in AsSet(env) : x[1] # n
      <4> SUFFICES ASSUME NEW x \in AsSet(env), x[1] = n PROVE FALSE OBVIOUS
      <4>1. CASE x \in job.was BY <1>2, <1>17, <4>1, AtWork
      <4>2. CASE x \in PutBack
        <5>1. PICK i \in 1 .. d : x = s[i] BY <3>2, <4>2 DEF PutBack
        <5>2. i \in DOMAIN s /\ i < d + 1 BY <3>2, <3>3, <5>1
        <5>3. ~Matches("env", s[d + 1][1], s[i][1]) BY <3>2, <3>3, <5>2 DEF Good, Distinct
        <5>4. s[d + 1][1] = n BY <1>9, <3>3
        <5> QED BY <5>1, <5>3, <5>4 DEF Matches
      <4> QED BY <3>1, <4>1, <4>2
    <3>6. Found("env", env, n) = 0
      <4>1. PICK i : i = Found("env", env, n) OBVIOUS
      <4>2. i \in 0 .. Len(env) /\ (i # 0 => Matches("env", n, env[i][1])) BY <4>1, FoundFirst
      <4>3. ASSUME i # 0 PROVE FALSE
        <5>1. i \in DOMAIN env /\ env[i][1] = n BY <4>2, <4>3 DEF Matches
        <5>2. env[i] \in AsSet(env) BY <5>1 DEF AsSet
        <5> QED BY <3>5, <5>1, <5>2
      <4> QED BY <4>1, <4>3
    <3>7. Added("env", env, n, v) = Append(env, e) BY <1>9, <3>4, <3>6 DEF Added
    <3>8. lists' = [lists EXCEPT !["env"] = Added("env", env, n, v)] BY <1>15, <1>17 DEF AddOK
    <3>9. lists'["env"] = Append(env, e) BY <1>3, <2>1, <3>7, <3>8 DEF TypeOK
    <3>10. AsSet(lists'["env"]) = AsSet(env) \cup {e} BY <3>9, AppendedSet
    <3> QED BY <2>5, <3>1, <3>10
  <2> QED BY <1>5, <2>2, <2>3, <2>4, <2>6 DEF IInv
<1>18. CASE /\ n \notin job.exports /\ AddFails("env", n, v) /\ UNCHANGED nReturn
            /\ job' = [job EXCEPT !.left = Tail(job.left), !.short = TRUE]
  <2>1. UNCHANGED <<lists, critical>> BY <1>18 DEF AddFails
  <2>2. job' = [job EXCEPT !.left = t, !.short = TRUE] BY <1>8, <1>18
  <2>3. /\ job' \in Ending /\ job'.op = "restore" /\ job'.left = Tail(job.left) /\ job'.was = job.was
        /\ job'.exports = job.exports /\ job'.short = TRUE
    BY <1>6, <1>8, <2>2 DEF Ending
  <2>4. TypeOK' BY <1>3, <1>4, <1>14, <1>18, <2>1, <2>3 DEF TypeOK
  <2>5. ListsOK' BY <1>3, <2>1 DEF ListsOK
  <2>6. EndingOK' /\ RemoveOK' BY <1>1, <1>4, <2>3, OneFurther
  <2>7. RestoreOK' BY <2>3 DEF RestoreOK
  <2> QED BY <1>5, <2>4, <2>5, <2>6, <2>7 DEF IInv
<1>19. CASE n \notin job.exports /\ AddRaises("env", n, v)
  <2>1. UNCHANGED lists /\ job' = NULL /\ nReturn' = "raised" /\ critical' = (critical \/ "env" # "env")
    BY <1>19 DEF AddRaises, Return
  <2>2. lists' \in [Lists -> Seq(Entry)] /\ ListsOK' BY <2>1, SameLists
  <2>3. critical' \in BOOLEAN BY <2>1
  <2> QED BY <1>1, <1>14, <2>1, <2>2, <2>3, OtherJob
<1> QED BY <1>13, <1>16, <1>17, <1>18, <1>19

-----------------------------------------------------------------------------
(***************************************************************************)
(* All commands.                                                           *)
(***************************************************************************)
LEMMA InitInv ==
  ASSUME EnvironmentAssumption, Init
  PROVE  IInv
<1>1. /\ Nest \in Nat /\ Start \in [Lists -> Seq(Entry)]
      /\ \A l \in Lists :
           /\ Used(Start[l]) + 1 <= ListSize(l)
           /\ \A i \in DOMAIN Start[l] :
                Start[l][i][2] > 0 /\ Found(l, Start[l], Start[l][i][1]) = i
  BY DEF EnvironmentAssumption
<1>2. /\ lists = Start /\ place \in Here /\ offset = 0 /\ session \in Sessions
      /\ job = NULL /\ nReturn = "0" /\ critical = FALSE
      /\ slots = [i \in 0 .. Nest - 1 |-> [env |-> NULL, alias |-> NULL, place |-> NULL, whole |-> TRUE]]
  BY DEF Init
<1>3. TypeOK
  <2>1. slots \in [0 .. Nest - 1 -> SlotType] BY <1>2 DEF SlotType
  <2>2. lists \in [Lists -> Seq(Entry)] BY <1>1, <1>2
  <2>3. offset \in 0 .. Nest BY <1>1, <1>2
  <2>4. critical \in BOOLEAN BY <1>2
  <2> QED BY <1>2, <2>1, <2>2, <2>3, <2>4 DEF TypeOK
<1>4. ListsOK
  <2> SUFFICES ASSUME NEW l \in Lists PROVE Good(l, lists[l]) /\ Fits(l, lists[l]) BY DEF ListsOK
  <2>1. PICK s \in Seq(Entry) : s = lists[l] BY <1>1, <1>2
  <2>2. \A i \in DOMAIN s : s[i][2] > 0 /\ Found(l, s, s[i][1]) = i BY <1>1, <1>2, <2>1
  <2>3. Distinct(l, s) BY <2>2, DistinctFound
  <2>4. Fits(l, s) BY <1>1, <1>2, <2>1 DEF Fits
  <2> QED BY <2>1, <2>2, <2>3, <2>4 DEF Good, Positive
<1>5. SlotsOK BY <1>2 DEF SlotsOK
<1>6. SlotsInUse BY <1>2 DEF SlotsInUse
<1>7. ~Running("remove") /\ ~Running("restore") BY <1>2 DEF Running
<1> QED BY <1>3, <1>4, <1>5, <1>6, <1>7 DEF IInv, EndingOK, InEndlocal, RemoveOK, RestoreOK

LEMMA StutterStep ==
  ASSUME IInv, UNCHANGED vars
  PROVE  IInv'
BY DEF IInv, vars, TypeOK, ListsOK, SlotsOK, SlotsInUse, EndingOK, RemoveOK, RestoreOK, InEndlocal,
       Running, Done, PutBack, Slot, AsSet

LEMMA StepInv ==
  ASSUME EnvironmentAssumption, IInv, [Next]_vars
  PROVE  IInv'
<1>1. CASE Begin BY <1>1, BeginStep
<1>2. CASE SetLine BY <1>2, SetLineStep
<1>3. CASE SetDone BY <1>3, SetDoneStep
<1>4. CASE Eset BY <1>4, EsetStep
<1>5. CASE UnsetAll BY <1>5, UnsetAllStep
<1>6. CASE UnsetName BY <1>6, UnsetNameStep
<1>7. CASE UnsetWild BY <1>7, UnsetWildStep
<1>8. CASE UnsetDone BY <1>8, UnsetDoneStep
<1>9. CASE Move BY <1>9, MoveStep
<1>10. CASE SetlocalRefused BY <1>10, SetlocalRefusedStep
<1>11. CASE Setlocal BY <1>11, SetlocalStep
<1>12. CASE EndlocalNothing BY <1>12, EndlocalNothingStep
<1>13. CASE EndlocalBegins BY <1>13, EndlocalBeginsStep
<1>14. CASE EndlocalRemoves BY <1>14, EndlocalRemovesStep
<1>15. CASE Restore BY <1>15, RestoreStep
<1>16. CASE Restored BY <1>16, RestoredStep
<1>17. CASE UNCHANGED vars BY <1>17, StutterStep
<1> QED
  BY <1>1, <1>2, <1>3, <1>4, <1>5, <1>6, <1>7, <1>8, <1>9, <1>10, <1>11, <1>12, <1>13, <1>14,
     <1>15, <1>16, <1>17 DEF Next, Step

\* The inductive invariant holds in every run, for lists of any size, names of
\* any kind and any commands that are typed.
THEOREM Invariant ==
  ASSUME EnvironmentAssumption
  PROVE  Spec => []IInv
<1>1. Init => IInv BY InitInv
<1>2. IInv /\ [Next]_vars => IInv' BY StepInv
<1> QED BY <1>1, <1>2, PTL DEF Spec

\* Lists remain lists, at most SETLOCAL_NEST saves count, and a command that
\* runs is one of the commands.
THEOREM TypeCorrect ==
  ASSUME EnvironmentAssumption
  PROVE  Spec => []TypeOK
<1>1. IInv => TypeOK BY DEF IInv
<1> QED BY <1>1, Invariant, PTL

\* Whatever SET, ESET, UNSET, SETLOCAL and ENDLOCAL do to them, the lists stay
\* within their memory (those that add_list() bounds with their own size) and
\* no entry hides behind another one; every SETLOCAL that counts has its save.
THEOREM ListsStayWhole ==
  ASSUME EnvironmentAssumption
  PROVE  Spec => []ListsWhole
<1>1. ASSUME IInv PROVE ListsWhole
  <2>1. /\ Room \in [Lists -> Nat] /\ Room["alias"] >= AliasSize
        /\ EnvSize \in Nat /\ AliasSize \in Nat
    BY DEF EnvironmentAssumption
  <2>2. ListsOK /\ SlotsInUse /\ DOMAIN lists = Lists BY <1>1 DEF IInv, TypeOK
  <2>3. ASSUME NEW l \in Lists
        PROVE  /\ Room[l] >= EnvSize \/ l = "alias" => Used(lists[l]) + 1 <= Room[l]
               /\ \A i \in DOMAIN lists[l] : Found(l, lists[l], lists[l][i][1]) = i
    <3>1. Good(l, lists[l]) /\ Fits(l, lists[l]) BY <2>2 DEF ListsOK
    <3>2. PICK s : s = lists[l] OBVIOUS
    <3>3. s \in Seq(Entry) /\ Distinct(l, s) BY <3>1, <3>2 DEF Good
    <3>4. \A i \in DOMAIN s : Found(l, s, s[i][1]) = i BY <3>3, DistinctFound
    <3>5. PICK u : u = Used(s) OBVIOUS
    <3>6. u \in Nat BY <3>3, <3>5, UsedType
    <3>7. u + 1 <= ListSize(l) BY <3>1, <3>2, <3>5 DEF Fits
    <3>8. Room[l] >= EnvSize \/ l = "alias" => u + 1 <= Room[l]
      <4>1. PICK r \in Nat : r = Room[l] BY <2>1
      <4>2. CASE l = "alias" BY <2>1, <3>6, <3>7, <4>1, <4>2 DEF ListSize
      <4>3. CASE l # "alias" BY <2>1, <3>6, <3>7, <4>1, <4>3 DEF ListSize
      <4> QED BY <4>2, <4>3
    <3> QED BY <3>2, <3>4, <3>5, <3>8
  <2> QED BY <2>2, <2>3 DEF ListsWhole
<1> QED BY <1>1, Invariant, PTL

\* The last step of an ENDLOCAL: everything is back.
LEMMA EverythingIsBack ==
  ASSUME EnvironmentAssumption, IInv
  PROVE  Restores
<1> SUFFICES ASSUME Restored, Slot.whole, ~job.short
             PROVE  /\ AsSet(lists["env"]) =
                         job.was \cup {e \in AsSet(Slot.env) : e[1] \notin job.exports}
                    /\ lists'["alias"] = Slot.alias /\ place'.chars = Slot.place.chars
                    /\ place'.dir \in {Slot.place.dir, place.dir}
                    /\ ~job.exit /\ nReturn' = "0" /\ Slot.place.dir # NULL => place'.dir = Slot.place.dir
  BY DEF Restores
<1>1. /\ Running("restore") /\ job.left = <<>>
      /\ lists' = [lists EXCEPT !["alias"] = Slot.alias]
  BY DEF Restored
<1>2. InEndlocal BY <1>1 DEF InEndlocal
<1>3. PICK s \in Seq(Entry), d \in Nat : s = Slot.env /\ d = Done /\ Len(s) = d + Len(job.left)
  BY <1>2, AtWork
<1>4. d = Len(s) BY <1>1, <1>3
<1>5. PutBack = {e \in AsSet(s) : e[1] \notin job.exports}
  <2>1. PutBack = {s[i] : i \in {k \in 1 .. Len(s) : s[k][1] \notin job.exports}}
    BY <1>3, <1>4 DEF PutBack
  <2>2. AsSet(s) = {s[i] : i \in 1 .. Len(s)} BY DEF AsSet
  <2> QED BY <2>1, <2>2
<1>6. AsSet(lists["env"]) = job.was \cup PutBack BY <1>1 DEF IInv, RestoreOK
<1>7. lists'["alias"] = Slot.alias BY <1>1 DEF IInv, TypeOK, Lists
<1>8. PICK r \in {"0", "error"} :
        /\ place' = [dir |-> IF r = "error" \/ Slot.place.dir = NULL THEN place.dir ELSE Slot.place.dir,
                     chars |-> Slot.place.chars]
        /\ ~job.exit => nReturn' = r
  BY DEF Restored, Return
<1>9. place'.chars = Slot.place.chars /\ place'.dir \in {Slot.place.dir, place.dir} BY <1>8
<1>10. ~job.exit /\ nReturn' = "0" /\ Slot.place.dir # NULL => place'.dir = Slot.place.dir BY <1>8
<1> QED BY <1>3, <1>5, <1>6, <1>7, <1>9, <1>10

\* ENDLOCAL, when everything has room, brings back exactly the variables that
\* SETLOCAL saved, with the exported ones as they are now, and the aliases and the
\* settings; and the directory, if SETLOCAL could save it and ENDLOCAL returns 0.
THEOREM EndlocalBringsBack ==
  ASSUME EnvironmentAssumption
  PROVE  Spec => EndlocalRestores
<1>1. IInv /\ [Next]_vars => [Restores]_vars BY EverythingIsBack
<1> QED BY <1>1, Invariant, PTL DEF Spec, EndlocalRestores
=============================================================================
