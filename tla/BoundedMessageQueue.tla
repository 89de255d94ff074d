------------------------ MODULE BoundedMessageQueue ------------------------
(***************************************************************************)
(* BoundedMessageQueue of src/src/ipc/message_queue.rs, also the channel   *)
(* behind Sender and Receiver: a deque under a mutex, a counter beside it, *)
(* and one semaphore each for free slots and for messages.                 *)
(*                                                                         *)
(* A step is an atomic access or a critical section of the mutex.  The     *)
(* bodies of the messages play no part, so the deque is its length.        *)
(***************************************************************************)
EXTENDS Integers, ThreadSet

CONSTANT Capacity

ASSUME CapacityAssumption == Capacity \in Nat

VARIABLES
  queue,      \* number of messages in the deque
  count,      \* the counter beside it: -1 stands for the wrapped usize
  closed,
  sem_slots, sem_items,
  pc,         \* where each thread is
  seen,       \* the semaphore value a try_ form loaded
  loop        \* iterations close() has still to do

vars == <<queue, count, closed, sem_slots, sem_items, pc, seen, loop>>

Init ==
  /\ queue = 0 /\ count = 0 /\ closed = FALSE
  /\ sem_slots = Capacity /\ sem_items = 0
  /\ pc = [p \in Threads |-> "idle"]
  /\ seen = [p \in Threads |-> 0]
  /\ loop = 0

Goto(p, l) == pc' = [pc EXCEPT ![p] = l]
At(S) == {p \in Threads : pc[p] \in S}

-----------------------------------------------------------------------------
(* send_message() and try_send_message() *)

BeginSend(p) ==
  /\ pc[p] = "idle"
  /\ ~closed
  /\ Goto(p, "s_slot") \/ Goto(p, "s_try")
  /\ UNCHANGED <<queue, count, closed, sem_slots, sem_items, seen, loop>>

\* Semaphore::acquire() spins until its swap from a positive value succeeds.
AcquireSlot(p) ==
  /\ pc[p] = "s_slot" /\ sem_slots > 0
  /\ sem_slots' = sem_slots - 1
  /\ Goto(p, "s_recheck")
  /\ UNCHANGED <<queue, count, closed, sem_items, seen, loop>>

\* Semaphore::try_acquire() loads once and swaps once.
TrySlotLoad(p) ==
  /\ pc[p] = "s_try"
  /\ seen' = [seen EXCEPT ![p] = sem_slots]
  /\ Goto(p, IF sem_slots > 0 THEN "s_cas" ELSE "idle")
  /\ UNCHANGED <<queue, count, closed, sem_slots, sem_items, loop>>

TrySlotCas_NoPermit(p) ==
  /\ pc[p] = "s_cas"
  /\ Goto(p, "s_push")
  /\ seen' = [seen EXCEPT ![p] = 0]
  /\ UNCHANGED <<queue, count, closed, sem_slots, sem_items, loop>>

TrySlotCas(p) ==
  /\ pc[p] = "s_cas"
  /\ IF sem_slots = seen[p]
     THEN sem_slots' = sem_slots - 1 /\ Goto(p, "s_push")
     ELSE UNCHANGED sem_slots /\ Goto(p, "idle")
  /\ seen' = [seen EXCEPT ![p] = 0]
  /\ UNCHANGED <<queue, count, closed, sem_items, loop>>

\* send_message() looks at the flag again once it has its slot; the slot goes
\* back when the queue has been closed meanwhile.
SendRecheck(p) ==
  /\ pc[p] = "s_recheck"
  /\ Goto(p, IF closed THEN "s_undo" ELSE "s_push")
  /\ UNCHANGED <<queue, count, closed, sem_slots, sem_items, seen, loop>>

ReturnSlot(p) ==
  /\ pc[p] = "s_undo"
  /\ sem_slots' = sem_slots + 1
  /\ Goto(p, "idle")
  /\ UNCHANGED <<queue, count, closed, sem_items, seen, loop>>

Push(p) ==
  /\ pc[p] = "s_push"
  /\ queue' = queue + 1
  /\ Goto(p, "s_count")
  /\ UNCHANGED <<count, closed, sem_slots, sem_items, seen, loop>>

SendCount(p) ==
  /\ pc[p] = "s_count"
  /\ count' = count + 1
  /\ Goto(p, "s_items")
  /\ UNCHANGED <<queue, closed, sem_slots, sem_items, seen, loop>>

SendItems(p) ==
  /\ pc[p] = "s_items"
  /\ sem_items' = sem_items + 1
  /\ Goto(p, "idle")
  /\ UNCHANGED <<queue, count, closed, sem_slots, seen, loop>>

-----------------------------------------------------------------------------
(* receive() and try_receive() *)

\* The call returns Closed when the queue is closed and counted empty.
Drained == closed /\ count = 0

BeginReceive(p) ==
  /\ pc[p] = "idle"
  /\ ~Drained
  /\ Goto(p, "r_items") \/ Goto(p, "r_try")
  /\ UNCHANGED <<queue, count, closed, sem_slots, sem_items, seen, loop>>

AcquireItem_AboveOne(p) ==
  /\ pc[p] = "r_items" /\ sem_items > 1
  /\ sem_items' = sem_items - 1
  /\ Goto(p, "r_recheck")
  /\ UNCHANGED <<queue, count, closed, sem_slots, seen, loop>>

AcquireItem(p) ==
  /\ pc[p] = "r_items" /\ sem_items > 0
  /\ sem_items' = sem_items - 1
  /\ Goto(p, "r_recheck")
  /\ UNCHANGED <<queue, count, closed, sem_slots, seen, loop>>

TryItemLoad(p) ==
  /\ pc[p] = "r_try"
  /\ seen' = [seen EXCEPT ![p] = sem_items]
  /\ Goto(p, IF sem_items > 0 THEN "r_cas" ELSE "idle")
  /\ UNCHANGED <<queue, count, closed, sem_slots, sem_items, loop>>

TryItemCas(p) ==
  /\ pc[p] = "r_cas"
  /\ IF sem_items = seen[p]
     THEN sem_items' = sem_items - 1 /\ Goto(p, "r_pop")
     ELSE UNCHANGED sem_items /\ Goto(p, "idle")
  /\ seen' = [seen EXCEPT ![p] = 0]
  /\ UNCHANGED <<queue, count, closed, sem_slots, loop>>

ReceiveRecheck(p) ==
  /\ pc[p] = "r_recheck"
  /\ Goto(p, IF Drained THEN "idle" ELSE "r_pop")
  /\ UNCHANGED <<queue, count, closed, sem_slots, sem_items, seen, loop>>

\* The counter and the slot follow after the mutex is released; an empty deque
\* ends the call with Empty.
Pop(p) ==
  /\ pc[p] = "r_pop"
  /\ queue' = IF queue > 0 THEN queue - 1 ELSE 0
  /\ Goto(p, IF queue > 0 THEN "r_count" ELSE "idle")
  /\ UNCHANGED <<count, closed, sem_slots, sem_items, seen, loop>>

ReceiveCount(p) ==
  /\ pc[p] = "r_count"
  /\ count' = count - 1
  /\ Goto(p, "r_slots")
  /\ UNCHANGED <<queue, closed, sem_slots, sem_items, seen, loop>>

ReceiveSlots(p) ==
  /\ pc[p] = "r_slots"
  /\ sem_slots' = sem_slots + 1
  /\ Goto(p, "idle")
  /\ UNCHANGED <<queue, count, closed, sem_items, seen, loop>>

-----------------------------------------------------------------------------
(* close(); the bound is one call *)

Close(p) ==
  /\ pc[p] = "idle" /\ ~closed
  /\ closed' = TRUE
  /\ loop' = Capacity
  /\ Goto(p, IF Capacity > 0 THEN "c_slots" ELSE "idle")
  /\ UNCHANGED <<queue, count, sem_slots, sem_items, seen>>

CloseSlots(p) ==
  /\ pc[p] = "c_slots"
  /\ sem_slots' = sem_slots + 1
  /\ Goto(p, "c_items")
  /\ UNCHANGED <<queue, count, closed, sem_items, seen, loop>>

CloseItems(p) ==
  /\ pc[p] = "c_items"
  /\ sem_items' = sem_items + 1
  /\ loop' = loop - 1
  /\ Goto(p, IF loop > 1 THEN "c_slots" ELSE "idle")
  /\ UNCHANGED <<queue, count, closed, sem_slots, seen>>

-----------------------------------------------------------------------------
Send(p) ==
  \/ BeginSend(p) \/ AcquireSlot(p) \/ TrySlotLoad(p) \/ TrySlotCas(p)
  \/ SendRecheck(p) \/ ReturnSlot(p) \/ Push(p) \/ SendCount(p) \/ SendItems(p)

Receive(p) ==
  \/ BeginReceive(p) \/ AcquireItem(p) \/ TryItemLoad(p) \/ TryItemCas(p)
  \/ ReceiveRecheck(p) \/ Pop(p) \/ ReceiveCount(p) \/ ReceiveSlots(p)

CloseStep(p) == Close(p) \/ CloseSlots(p) \/ CloseItems(p)

Next == \E p \in Threads : Send(p) \/ Receive(p) \/ CloseStep(p)

Spec == Init /\ [][Next]_vars

\* A thread in the middle of a call runs on.
Fairness ==
  \A p \in Threads :
    /\ WF_vars(Send(p) /\ pc[p] # "idle")
    /\ WF_vars(Receive(p) /\ pc[p] # "idle")
    /\ WF_vars(CloseStep(p) /\ pc[p] # "idle")

FairSpec == Spec /\ Fairness

-----------------------------------------------------------------------------
(* Properties *)

Num(S) == Cardinality(At(S))   \* how many threads are at the labels in S

SlotHolders == {"s_recheck", "s_undo", "s_push"}  \* took a slot, nothing pushed
Pushed      == {"s_count", "s_items"}             \* pushed, permit to come
Uncounted   == {"s_count"}                        \* pushed, not in the counter
Permitted   == {"r_recheck", "r_pop"}             \* took a permit, nothing popped
Popped      == {"r_count", "r_slots"}             \* popped, slot to be returned
StillCounted == {"r_count"}                       \* popped, still in the counter

\* Every variable stays in its type.
TypeOK ==
  /\ queue \in Nat /\ count \in Int /\ closed \in BOOLEAN
  /\ sem_slots \in Nat /\ sem_items \in Nat
  /\ pc \in [Threads -> {"idle", "s_slot", "s_try", "s_cas", "s_recheck", "s_undo",
                         "s_push", "s_count", "s_items", "r_items", "r_try", "r_cas",
                         "r_recheck", "r_pop", "r_count", "r_slots", "c_slots", "c_items"}]
  /\ seen \in [Threads -> Nat]
  /\ loop \in 0 .. Capacity

\* Slots that close() has added to wake the senders.
Phantoms == IF closed THEN Capacity - loop + Num({"c_items"}) ELSE 0

\* No slot is lost or made up: the free slots, the slots of senders that have
\* not pushed yet, the messages and the slots that receivers have not returned
\* yet add up to the capacity, plus what close() added.
SlotsConserved ==
  sem_slots + Num(SlotHolders) + queue + Num(Popped) = Capacity + Phantoms

\* An open queue never exceeds its capacity, however many senders race; close()
\* can at most double it, through try_send() calls that are under way.
WithinCapacity == queue <= IF closed THEN 2 * Capacity ELSE Capacity

\* The counter differs from the length only by the threads between the deque
\* and the counter.
CountTracksQueue == count = queue - Num(Uncounted) + Num(StillCounted)

\* No message is stranded: each one in the deque has a permit that is free, with
\* a receiver about to pop or with a sender about to release it, even after
\* close() has let receivers go with Closed.
MessagesHavePermits == queue <= sem_items + Num(Permitted) + Num(Pushed)

\* In an open queue a permit is worth a message, so that a receiver with a
\* permit finds the deque not empty and receive() never fails with Empty.
PermitsAreMessages ==
  ~closed => sem_items + Num(Permitted) + Num(Pushed) <= queue

\* The queue neither loses nor makes up slots, messages and permits, whichever
\* threads are in the middle of send(), receive(), their try forms and close().
QueueSound ==
  /\ TypeOK /\ SlotsConserved /\ WithinCapacity /\ CountTracksQueue
  /\ MessagesHavePermits /\ PermitsAreMessages

\* No wakeup is lost in an open queue: while a receiver waits and there is a
\* message, somebody takes one; while a sender waits and there is room, somebody
\* puts one in.
NoLostWakeup ==
  /\ (At({"r_items"}) # {} /\ queue > 0) ~> (closed \/ At({"r_count"}) # {})
  /\ (At({"s_slot"}) # {} /\ queue < Capacity) ~> (closed \/ At({"s_count"}) # {})

\* close() wakes the threads that wait: no receiver stays blocked in receive()
\* on a closed queue.
CloseWakesReceivers ==
  \A p \in Threads : (closed /\ pc[p] = "r_items") ~> pc[p] # "r_items"

=============================================================================
