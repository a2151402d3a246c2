------------------------------ MODULE MCEditor ------------------------------
(* The command line alone. *)
EXTENDS Editor, EditorInputs
=============================================================================
