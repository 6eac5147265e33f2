--------------------------- MODULE MCOperatorView ---------------------------
(* OperatorView with small tables. *)
EXTENDS OperatorView
=============================================================================
