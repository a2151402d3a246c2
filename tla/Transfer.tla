------------------------------ MODULE Transfer ------------------------------
(***************************************************************************)
(* What commands that copy and move files promise: the contents of a file  *)
(* may be in one place or in several, and may be dropped from one when     *)
(* they are in another, but they are always somewhere.                     *)
(***************************************************************************)
CONSTANTS Valuable, Places

VARIABLE where    \* for each of the Valuable contents the Places that hold them

Init == where \in [Valuable -> (SUBSET Places) \ {{}}]

Put(c, p) == where'[c] = where[c] \cup {p}
Drop(c, p) == where[c] # {p} /\ where'[c] = where[c] \ {p}
Rename(c, p, q) == p \in where[c] /\ where'[c] = (where[c] \ {p}) \cup {q}

\* A directory is renamed with everything in it.
Next == \A c \in Valuable :
          \/ where'[c] = where[c]
          \/ \E p \in Places : Put(c, p) \/ Drop(c, p) \/ \E q \in Places : Rename(c, p, q)

Spec == Init /\ [][Next]_where
=============================================================================
