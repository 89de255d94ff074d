----------------------------- MODULE ThreadSet ------------------------------
(***************************************************************************)
(* The threads that use a lock or a queue: as many as there are, and any.  *)
(***************************************************************************)
EXTENDS FiniteSets

CONSTANT Threads

ASSUME ThreadsFinite == IsFiniteSet(Threads)
=============================================================================
