------------------------------- MODULE MCSync -------------------------------
(***************************************************************************)
(* The locks of src/src/sync, the resource pool, and the bounded queue     *)
(* over its semaphores, each on its own: the initial state picks the one   *)
(* that is used, and the others stay untouched.                            *)
(***************************************************************************)
EXTENDS BoundedMessageQueue, RwLock, SeqLock, TicketLock, IrqSpinlock, ResourcePool

VARIABLE subject

all == <<subject, vars, rwVars, seqVars, ticketVars, irqVars, poolVars>>

\* What is not used starts in one way only.
MCInit ==
  /\ Init /\ RwInit /\ SeqInit /\ TicketInit /\ IrqInit /\ PoolInit
  /\ subject \in {"queue", "RwLock", "SeqLock", "TicketLock", "Spinlock", "pool"}
  /\ subject = "Spinlock" \/ (kind = "Spinlock" /\ enabled = CPUs)

\* The calls on a queue may all wait for ever.
Stopped == subject = "queue" /\ UNCHANGED all

MCNext ==
  \/ Stopped
  \/ /\ UNCHANGED subject
     /\ \/ subject = "queue" /\ Next
        \/ subject # "queue" /\ UNCHANGED vars
     /\ \/ subject = "RwLock" /\ RwNext
        \/ subject # "RwLock" /\ UNCHANGED rwVars
     /\ \/ subject = "SeqLock" /\ SeqNext
        \/ subject # "SeqLock" /\ UNCHANGED seqVars
     /\ \/ subject = "TicketLock" /\ TicketNext
        \/ subject # "TicketLock" /\ UNCHANGED ticketVars
     /\ \/ subject = "Spinlock" /\ IrqNext
        \/ subject # "Spinlock" /\ UNCHANGED irqVars
     /\ \/ subject = "pool" /\ PoolNext
        \/ subject # "pool" /\ UNCHANGED poolVars

\* Fairness is about calls under way: it asks nothing of what is not used.
MCSpec == MCInit /\ [][MCNext]_all /\ Fairness /\ RwFairness /\ TicketFairness
=============================================================================
