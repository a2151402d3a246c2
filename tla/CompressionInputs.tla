------------------------- MODULE CompressionInputs --------------------------
(***************************************************************************)
(* What Compression is checked with: files of two lines of all kinds, with *)
(* and without CR, ^Z and an end of line at the end of the file, and more  *)
(* different characters than the table holds.                              *)
(***************************************************************************)
EXTENDS Integers, Sequences

Blank == 1    CR == 2    LF == 3    EoF == 4    Colons == 5    Rem == 6    Greater == 7    A == 8

Ends == {<<LF>>, <<CR, LF>>}
Lines == {<<>>, <<A>>, <<A, Blank>>, <<Blank, A>>, <<Colons, A>>, <<Rem, A>>, <<Rem, Greater>>, <<Rem>>,
          <<Greater, A, Colons, Blank, Rem, A, A>>}
Sources == {l \o e \o m \o f : l \in Lines, e \in Ends, m \in Lines, f \in {<<>>, <<CR, LF>>, <<LF, EoF, A>>}}
           \cup {<<>>, <<EoF>>, <<LF, LF, LF, A>>, <<A, LF, LF, LF, LF, A, A, A, A, A, A>>}

NoFile == [kind |-> "none"]
Old == [compressed |-> FALSE, text |-> <<A>>]
Work(s, k, e, o, old) == [source |-> s, kill |-> k, encrypt |-> e, overwrite |-> o, old |-> old]
MCWorks == {Work(s, k, e, TRUE, NoFile) : s \in Sources, k \in BOOLEAN, e \in BOOLEAN}
           \cup {Work(<<A, LF>>, FALSE, FALSE, o, Old) : o \in BOOLEAN}
=============================================================================
