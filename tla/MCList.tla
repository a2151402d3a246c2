------------------------------- MODULE MCList -------------------------------
(* A file whose last block, three bytes, does not fill half a buffer. *)
EXTENDS List

MCTail == << <<"b", "lf", "b", "a", "b", "a", "b", "lf", "lf", "a", "lf">> >>

MCPatterns == {<<"a", "b">>, <<"b">>}

MCGotos == {0, 2, 0 - 1}

=============================================================================
