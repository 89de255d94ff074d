------------------------------ MODULE Optional ------------------------------
(***************************************************************************)
(* The value of an Option that holds nothing.                              *)
(***************************************************************************)
CONSTANT None
=============================================================================
