----------------------- MODULE MCBoundedMessageQueue -----------------------
(***************************************************************************)
(* Three threads on one bounded queue.                                     *)
(***************************************************************************)
EXTENDS BoundedMessageQueue
=============================================================================
