----------------------------- MODULE SyncProofs -----------------------------
(***************************************************************************)
(* Synchronisation, src/src/sync, for every set of threads: what MCSync    *)
(* checks on a small instance, proved.                                     *)
(*                                                                         *)
(* The locks, of which the lemmas start with the name of the lock, and the *)
(* conservation laws of BoundedMessageQueue, for every capacity.           *)
(***************************************************************************)
EXTENDS BoundedMessageQueue, RwLock, SeqLock, TicketLock, IrqSpinlock, FiniteSetTheorems, TLAPS

-----------------------------------------------------------------------------
(* The bounded message queue *)

\* One thread is in close() while it has iterations to do, on a closed queue.
Closing ==
  /\ Num({"c_slots", "c_items"}) = IF loop > 0 THEN 1 ELSE 0
  /\ ~closed => loop = 0

\* A try_ form goes on to its swap only from a positive value.
SeenPositive == \A p \in Threads : pc[p] \in {"s_cas", "r_cas"} => seen[p] > 0

\* The inductive invariant.
Inv ==
  /\ TypeOK /\ Closing /\ SeenPositive
  /\ SlotsConserved /\ CountTracksQueue
  /\ MessagesHavePermits /\ PermitsAreMessages

-----------------------------------------------------------------------------
\* The threads at given labels can be counted.
LEMMA Countable ==
  ASSUME NEW S
  PROVE  IsFiniteSet(At(S)) /\ Num(S) \in Nat
<1>1. IsFiniteSet(At(S))
  BY ThreadsFinite, FS_Subset DEF At
<1> QED BY <1>1, FS_CardinalityType DEF Num

\* What moving one thread from label a to label b does to the threads at S.
Change(S, a, b) == (IF b \in S THEN 1 ELSE 0) - (IF a \in S THEN 1 ELSE 0)

LEMMA Moved ==
  ASSUME TypeOK, NEW p \in Threads, NEW l, Goto(p, l), NEW S
  PROVE  /\ Num(S) \in Nat /\ Num(S)' \in Nat
         /\ Num(S)' = Num(S) + Change(S, pc[p], l)
         /\ pc[p] \in S => Num(S) >= 1
<1>1. \A q \in Threads : pc'[q] = IF q = p THEN l ELSE pc[q]
  BY DEF TypeOK, Goto
<1>2. At(S)' = IF l \in S THEN At(S) \cup {p} ELSE At(S) \ {p}
  BY <1>1 DEF At
<1>3. p \in At(S) <=> pc[p] \in S
  BY DEF At
<1>4. Num(S) \in Nat /\ IsFiniteSet(At(S))
  BY Countable
<1>5. p \in At(S) => Num(S) >= 1
  BY <1>4, FS_EmptySet DEF Num
<1>6. CASE l \in S
  <2>1. Num(S)' = IF p \in At(S) THEN Num(S) ELSE Num(S) + 1
    BY <1>2, <1>4, <1>6, FS_AddElement, Zenon DEF Num
  <2> QED BY <1>3, <1>4, <1>5, <1>6, <2>1 DEF Change
<1>7. CASE l \notin S
  <2>1. Num(S)' = IF p \in At(S) THEN Num(S) - 1 ELSE Num(S)
    BY <1>2, <1>4, <1>7, FS_RemoveElement, Zenon DEF Num
  <2> QED BY <1>3, <1>4, <1>5, <1>7, <2>1 DEF Change
<1> QED BY <1>6, <1>7

\* The same for all the sets of labels the invariant counts.
Counts(p, l) ==
  /\ Num(SlotHolders)' = Num(SlotHolders) + Change(SlotHolders, pc[p], l)
  /\ Num(Pushed)' = Num(Pushed) + Change(Pushed, pc[p], l)
  /\ Num(Uncounted)' = Num(Uncounted) + Change(Uncounted, pc[p], l)
  /\ Num(Permitted)' = Num(Permitted) + Change(Permitted, pc[p], l)
  /\ Num(Popped)' = Num(Popped) + Change(Popped, pc[p], l)
  /\ Num(StillCounted)' = Num(StillCounted) + Change(StillCounted, pc[p], l)
  /\ Num({"c_items"})' = Num({"c_items"}) + Change({"c_items"}, pc[p], l)
  /\ Num({"c_slots", "c_items"})'
       = Num({"c_slots", "c_items"}) + Change({"c_slots", "c_items"}, pc[p], l)

Numbers ==
  /\ Num(SlotHolders) \in Nat /\ Num(Pushed) \in Nat /\ Num(Uncounted) \in Nat
  /\ Num(Permitted) \in Nat /\ Num(Popped) \in Nat /\ Num(StillCounted) \in Nat
  /\ Num({"c_items"}) \in Nat /\ Num({"c_slots", "c_items"}) \in Nat
  /\ Num(Uncounted) <= Num(Pushed) /\ Num({"c_items"}) <= Num({"c_slots", "c_items"})

LEMMA NumbersOK == Numbers
<1>1. \A S : Num(S) \in Nat
  BY Countable
<1>2. Num(Uncounted) <= Num(Pushed)
  <2>1. At(Uncounted) \in SUBSET At(Pushed)
    BY DEF At, Uncounted, Pushed
  <2> QED BY <2>1, Countable, FS_Subset DEF Num
<1>3. Num({"c_items"}) <= Num({"c_slots", "c_items"})
  <2>1. At({"c_items"}) \in SUBSET At({"c_slots", "c_items"})
    BY DEF At
  <2> QED BY <2>1, Countable, FS_Subset DEF Num
<1> QED BY <1>1, <1>2, <1>3 DEF Numbers

LEMMA CountsMove ==
  ASSUME TypeOK, NEW p \in Threads, NEW l, Goto(p, l)
  PROVE  Counts(p, l) /\ Numbers'
<1>1. Counts(p, l)
  BY Moved DEF Counts
<1>2. Numbers'
  BY NumbersOK, PTL
<1> QED BY <1>1, <1>2

-----------------------------------------------------------------------------
\* The part of the invariant that counts threads.
Laws ==
  /\ Closing /\ SlotsConserved /\ CountTracksQueue
  /\ MessagesHavePermits /\ PermitsAreMessages

\* Every step of a sender keeps the laws.
LEMMA SendLaws ==
  ASSUME Inv, NEW p \in Threads, Send(p)
  PROVE  Laws'
<1> USE NumbersOK DEF Inv, Laws, Closing, SlotsConserved, CountTracksQueue,
        MessagesHavePermits, PermitsAreMessages, Phantoms, Numbers, Counts, Change,
        SlotHolders, Pushed, Uncounted, Permitted, Popped, StillCounted
<1>0. TypeOK
  BY Zenon
<1>1. CASE BeginSend(p)
  <2>1. CASE Goto(p, "s_slot")
    <3>1. Counts(p, "s_slot") /\ Numbers'
      BY <1>0, <2>1, CountsMove, Zenon
    <3> QED BY <1>1, <2>1, <3>1 DEF BeginSend, TypeOK, Goto, Drained
  <2>2. CASE Goto(p, "s_try")
    <3>1. Counts(p, "s_try") /\ Numbers'
      BY <1>0, <2>2, CountsMove, Zenon
    <3> QED BY <1>1, <2>2, <3>1 DEF BeginSend, TypeOK, Goto, Drained
  <2> QED BY <1>1, <2>1, <2>2, Zenon DEF BeginSend
<1>2. CASE AcquireSlot(p)
  <2>1. Goto(p, "s_recheck")
    BY <1>2, Zenon DEF AcquireSlot
  <2>2. Counts(p, "s_recheck") /\ Numbers'
    BY <1>0, <2>1, CountsMove, Zenon
  <2> QED BY <1>2, <2>2 DEF AcquireSlot, TypeOK
<1>3. CASE TrySlotLoad(p)
  <2>1. CASE Goto(p, "s_cas")
    <3>1. Counts(p, "s_cas") /\ Numbers'
      BY <1>0, <2>1, CountsMove, Zenon
    <3> QED BY <1>3, <2>1, <3>1 DEF TrySlotLoad, TypeOK, Goto, Drained
  <2>2. CASE Goto(p, "idle")
    <3>1. Counts(p, "idle") /\ Numbers'
      BY <1>0, <2>2, CountsMove, Zenon
    <3> QED BY <1>3, <2>2, <3>1 DEF TrySlotLoad, TypeOK, Goto, Drained
  <2> QED BY <1>3, <2>1, <2>2, Zenon DEF TrySlotLoad
<1>4. CASE TrySlotCas(p)
  <2>1. CASE Goto(p, "s_push")
    <3>1. Counts(p, "s_push") /\ Numbers'
      BY <1>0, <2>1, CountsMove, Zenon
    <3> QED BY <1>4, <2>1, <3>1 DEF TrySlotCas, TypeOK, Goto, Drained
  <2>2. CASE Goto(p, "idle")
    <3>1. Counts(p, "idle") /\ Numbers'
      BY <1>0, <2>2, CountsMove
    <3> QED BY <1>4, <2>2, <3>1 DEF TrySlotCas, TypeOK, Goto, Drained
  <2> QED BY <1>4, <2>1, <2>2, Zenon DEF TrySlotCas
<1>5. CASE SendRecheck(p)
  <2>1. CASE Goto(p, "s_undo")
    <3>1. Counts(p, "s_undo") /\ Numbers'
      BY <1>0, <2>1, CountsMove, Zenon
    <3> QED BY <1>5, <2>1, <3>1 DEF SendRecheck, TypeOK, Goto, Drained
  <2>2. CASE Goto(p, "s_push")
    <3>1. Counts(p, "s_push") /\ Numbers'
      BY <1>0, <2>2, CountsMove
    <3> QED BY <1>5, <2>2, <3>1 DEF SendRecheck, TypeOK, Goto, Drained
  <2> QED BY <1>5, <2>1, <2>2, Zenon DEF SendRecheck
<1>6. CASE ReturnSlot(p)
  <2>1. Goto(p, "idle")
    BY <1>6, Zenon DEF ReturnSlot
  <2>2. Counts(p, "idle") /\ Numbers'
    BY <1>0, <2>1, CountsMove, Zenon
  <2> QED BY <1>6, <2>2 DEF ReturnSlot, TypeOK
<1>7. CASE Push(p)
  <2>1. Goto(p, "s_count")
    BY <1>7, Zenon DEF Push
  <2>2. Counts(p, "s_count") /\ Numbers'
    BY <1>0, <2>1, CountsMove, Zenon
  <2> QED BY <1>7, <2>2 DEF Push, TypeOK
<1>8. CASE SendCount(p)
  <2>1. Goto(p, "s_items")
    BY <1>8, Zenon DEF SendCount
  <2>2. Counts(p, "s_items") /\ Numbers'
    BY <1>0, <2>1, CountsMove, Zenon
  <2> QED BY <1>8, <2>2 DEF SendCount, TypeOK
<1>9. CASE SendItems(p)
  <2>1. Goto(p, "idle")
    BY <1>9, Zenon DEF SendItems
  <2>2. Counts(p, "idle") /\ Numbers'
    BY <1>0, <2>1, CountsMove
  <2> QED BY <1>9, <2>2 DEF SendItems, TypeOK
<1> QED BY <1>1, <1>2, <1>3, <1>4, <1>5, <1>6, <1>7, <1>8, <1>9, Zenon DEF Send

\* Every step of a receiver keeps them: in particular a receiver that gives up
\* its permit with Closed strands no message, because a counter of 0 means that
\* every message in the deque has a sender about to release its permit.
LEMMA ReceiveLaws ==
  ASSUME Inv, NEW p \in Threads, Receive(p)
  PROVE  Laws'
<1> USE NumbersOK DEF Inv, Laws, Closing, SlotsConserved, CountTracksQueue,
        MessagesHavePermits, PermitsAreMessages, Phantoms, Numbers, Counts, Change,
        SlotHolders, Pushed, Uncounted, Permitted, Popped, StillCounted
<1>0. TypeOK
  OBVIOUS
<1>1. CASE BeginReceive(p)
  <2>1. CASE Goto(p, "r_items")
    <3>1. Counts(p, "r_items") /\ Numbers'
      BY <1>0, <2>1, CountsMove, Zenon
    <3> QED BY <1>1, <2>1, <3>1 DEF BeginReceive, TypeOK, Goto, Drained
  <2>2. CASE Goto(p, "r_try")
    <3>1. Counts(p, "r_try") /\ Numbers'
      BY <1>0, <2>2, CountsMove, Zenon
    <3> QED BY <1>1, <2>2, <3>1 DEF BeginReceive, TypeOK, Goto, Drained
  <2> QED BY <1>1, <2>1, <2>2, Zenon DEF BeginReceive
<1>2. CASE AcquireItem(p)
  <2>1. Goto(p, "r_recheck")
    BY <1>2, Zenon DEF AcquireItem
  <2>2. Counts(p, "r_recheck") /\ Numbers'
    BY <1>0, <2>1, CountsMove
  <2> QED BY <1>2, <2>2 DEF AcquireItem, TypeOK
<1>3. CASE TryItemLoad(p)
  <2>1. CASE Goto(p, "r_cas")
    <3>1. Counts(p, "r_cas") /\ Numbers'
      BY <1>0, <2>1, CountsMove, Zenon
    <3> QED BY <1>3, <2>1, <3>1 DEF TryItemLoad, TypeOK, Goto, Drained
  <2>2. CASE Goto(p, "idle")
    <3>1. Counts(p, "idle") /\ Numbers'
      BY <1>0, <2>2, CountsMove
    <3> QED BY <1>3, <2>2, <3>1 DEF TryItemLoad, TypeOK, Goto, Drained
  <2> QED BY <1>3, <2>1, <2>2, Zenon DEF TryItemLoad
<1>4. CASE TryItemCas(p)
  <2>1. CASE Goto(p, "r_pop")
    <3>1. Counts(p, "r_pop") /\ Numbers'
      BY <1>0, <2>1, CountsMove, Zenon
    <3> QED BY <1>4, <2>1, <3>1 DEF TryItemCas, TypeOK, Goto, Drained
  <2>2. CASE Goto(p, "idle")
    <3>1. Counts(p, "idle") /\ Numbers'
      BY <1>0, <2>2, CountsMove
    <3> QED BY <1>4, <2>2, <3>1 DEF TryItemCas, TypeOK, Goto, Drained
  <2> QED BY <1>4, <2>1, <2>2, Zenon DEF TryItemCas
<1>5. CASE ReceiveRecheck(p)
  <2>1. CASE Drained
    <3>1. Goto(p, "idle")
      BY <1>5, <2>1, Zenon DEF ReceiveRecheck, TypeOK, Drained
    <3>2. Counts(p, "idle") /\ Numbers'
      BY <1>0, <3>1, CountsMove
    <3>3. queue <= Num(Pushed)
      BY <1>0, <2>1 DEF TypeOK, Drained
    <3>4. MessagesHavePermits'
      BY <1>0, <1>5, <3>2, <3>3 DEF ReceiveRecheck, TypeOK
    <3>5. closed /\ closed'
      BY <1>5, <2>1, Zenon DEF ReceiveRecheck, Drained
    <3>6. Closing' /\ SlotsConserved' /\ CountTracksQueue'
      BY <1>0, <1>5, <3>2, <3>5, CapacityAssumption DEF ReceiveRecheck, TypeOK
    <3> QED BY <3>4, <3>5, <3>6, Zenon
  <2>2. CASE ~Drained
    <3>1. Goto(p, "r_pop")
      BY <1>5, <2>2, Zenon DEF ReceiveRecheck, TypeOK, Drained
    <3>2. Counts(p, "r_pop") /\ Numbers'
      BY <1>0, <3>1, CountsMove, Zenon
    <3> QED BY <1>5, <2>2, <3>2, CapacityAssumption DEF ReceiveRecheck, TypeOK, Drained
  <2> QED BY <1>0, <2>1, <2>2, CapacityAssumption, Zenon DEF TypeOK
<1>6. CASE Pop(p)
  <2>1. CASE queue > 0
    <3>1. Goto(p, "r_count")
      BY <1>6, <2>1, Zenon DEF Pop, TypeOK, Drained
    <3>2. Counts(p, "r_count") /\ Numbers'
      BY <1>0, <3>1, CountsMove, Zenon
    <3> QED BY <1>6, <2>1, <3>2, CapacityAssumption DEF Pop, TypeOK, Drained
  <2>2. CASE queue = 0
    <3>1. Goto(p, "idle")
      BY <1>6, <2>2 DEF Pop, TypeOK, Drained
    <3>2. Counts(p, "idle") /\ Numbers'
      BY <1>0, <3>1, CountsMove
    <3> QED BY <1>6, <2>2, <3>2, CapacityAssumption DEF Pop, TypeOK, Drained
  <2> QED BY <1>0, <2>1, <2>2, CapacityAssumption DEF TypeOK
<1>7. CASE ReceiveCount(p)
  <2>1. Goto(p, "r_slots")
    BY <1>7, Zenon DEF ReceiveCount
  <2>2. Counts(p, "r_slots") /\ Numbers'
    BY <1>0, <2>1, CountsMove, Zenon
  <2> QED BY <1>7, <2>2 DEF ReceiveCount, TypeOK
<1>8. CASE ReceiveSlots(p)
  <2>1. Goto(p, "idle")
    BY <1>8 DEF ReceiveSlots
  <2>2. Counts(p, "idle") /\ Numbers'
    BY <1>0, <2>1, CountsMove
  <2> QED BY <1>8, <2>2 DEF ReceiveSlots, TypeOK
<1> QED BY <1>1, <1>2, <1>3, <1>4, <1>5, <1>6, <1>7, <1>8, Zenon DEF Receive

\* Every step of close() keeps them.
LEMMA CloseLaws ==
  ASSUME Inv, NEW p \in Threads, CloseStep(p)
  PROVE  Laws'
<1> USE NumbersOK DEF Inv, Laws, Closing, SlotsConserved, CountTracksQueue,
        MessagesHavePermits, PermitsAreMessages, Phantoms, Numbers, Counts, Change,
        SlotHolders, Pushed, Uncounted, Permitted, Popped, StillCounted
<1>0. TypeOK
  OBVIOUS
<1>1. CASE Close(p)
  <2>1. CASE Capacity > 0
    <3>1. Goto(p, "c_slots")
      BY <1>1, <2>1, Zenon DEF Close, TypeOK, Drained
    <3>2. Counts(p, "c_slots") /\ Numbers'
      BY <1>0, <3>1, CountsMove, Zenon
    <3> QED BY <1>1, <2>1, <3>2, CapacityAssumption DEF Close, TypeOK, Drained
  <2>2. CASE Capacity = 0
    <3>1. Goto(p, "idle")
      BY <1>1, <2>2 DEF Close, TypeOK, Drained
    <3>2. Counts(p, "idle") /\ Numbers'
      BY <1>0, <3>1, CountsMove
    <3> QED BY <1>1, <2>2, <3>2, CapacityAssumption DEF Close, TypeOK, Drained
  <2> QED BY <1>0, <2>1, <2>2, CapacityAssumption DEF TypeOK
<1>2. CASE CloseSlots(p)
  <2>1. Goto(p, "c_items")
    BY <1>2, Zenon DEF CloseSlots
  <2>2. Counts(p, "c_items") /\ Numbers'
    BY <1>0, <2>1, CountsMove, Zenon
  <2>3. Num({"c_slots", "c_items"}) >= 1
    BY <1>0, <1>2, <2>1, Moved DEF CloseSlots
  <2> QED BY <1>2, <2>2, <2>3, CapacityAssumption DEF CloseSlots, TypeOK
<1>3. CASE CloseItems(p)
  <2>0. loop > 0 /\ closed
    <3>1. \E l : Goto(p, l)
      BY <1>3, Zenon DEF CloseItems
    <3>2. Num({"c_slots", "c_items"}) >= 1
      BY <1>0, <1>3, <3>1, Moved DEF CloseItems
    <3> QED BY <1>0, <3>2 DEF TypeOK
  <2>1. CASE loop > 1
    <3>1. Goto(p, "c_slots")
      BY <1>3, <2>1, Zenon DEF CloseItems, TypeOK, Drained
    <3>2. Counts(p, "c_slots") /\ Numbers'
      BY <1>0, <3>1, CountsMove, Zenon
    <3> QED BY <1>3, <2>0, <2>1, <3>2, CapacityAssumption DEF CloseItems, TypeOK, Drained
  <2>2. CASE loop <= 1
    <3>1. Goto(p, "idle")
      BY <1>3, <2>2 DEF CloseItems, TypeOK, Drained
    <3>2. Counts(p, "idle") /\ Numbers'
      BY <1>0, <3>1, CountsMove
    <3> QED BY <1>3, <2>0, <2>2, <3>2, CapacityAssumption DEF CloseItems, TypeOK, Drained
  <2> QED BY <1>0, <2>1, <2>2, CapacityAssumption DEF TypeOK
<1> QED BY <1>1, <1>2, <1>3, Zenon DEF CloseStep

-----------------------------------------------------------------------------
\* Every step keeps the types; a try_ form swaps only from a positive value.
LEMMA TypeStep ==
  ASSUME Inv, NEW p \in Threads, Send(p) \/ Receive(p) \/ CloseStep(p)
  PROVE  TypeOK' /\ SeenPositive'
<1> USE CapacityAssumption DEF Inv, TypeOK, SeenPositive, Goto
<1>1. CASE BeginSend(p)      BY <1>1 DEF BeginSend
<1>2. CASE AcquireSlot(p)    BY <1>2 DEF AcquireSlot
<1>3. CASE TrySlotLoad(p)    BY <1>3 DEF TrySlotLoad
<1>4. CASE TrySlotCas(p)     BY <1>4 DEF TrySlotCas
<1>5. CASE SendRecheck(p)    BY <1>5 DEF SendRecheck
<1>6. CASE ReturnSlot(p)     BY <1>6 DEF ReturnSlot
<1>7. CASE Push(p)           BY <1>7 DEF Push
<1>8. CASE SendCount(p)      BY <1>8 DEF SendCount
<1>9. CASE SendItems(p)      BY <1>9 DEF SendItems
<1>10. CASE BeginReceive(p)   BY <1>10, Zenon DEF BeginReceive
<1>11. CASE AcquireItem(p)    BY <1>11 DEF AcquireItem
<1>12. CASE TryItemLoad(p)    BY <1>12, Zenon DEF TryItemLoad
<1>13. CASE TryItemCas(p)     BY <1>13 DEF TryItemCas
<1>14. CASE ReceiveRecheck(p) BY <1>14, Zenon DEF ReceiveRecheck
<1>15. CASE Pop(p)            BY <1>15 DEF Pop
<1>16. CASE ReceiveCount(p)   BY <1>16 DEF ReceiveCount
<1>17. CASE ReceiveSlots(p)   BY <1>17 DEF ReceiveSlots
<1>18. CASE Close(p)          BY <1>18 DEF Close
<1>19. CASE CloseSlots(p)     BY <1>19 DEF CloseSlots
<1>20. CASE CloseItems(p)
  <2>1. loop > 0
    <3>1. \E l : Goto(p, l)
      BY <1>20, Zenon DEF CloseItems
    <3>2. Num({"c_slots", "c_items"}) >= 1
      BY <1>20, <3>1, Moved, Zenon DEF CloseItems
    <3> QED BY <3>2 DEF Closing
  <2> QED BY <1>20, <2>1 DEF CloseItems
<1> QED BY <1>1, <1>2, <1>3, <1>4, <1>5, <1>6, <1>7, <1>8, <1>9, <1>10, <1>11, <1>12,
           <1>13, <1>14, <1>15, <1>16, <1>17, <1>18, <1>19, <1>20, Zenon
        DEF Send, Receive, CloseStep

LEMMA InitInv == Init => Inv
<1> SUFFICES ASSUME Init PROVE Inv
  OBVIOUS
<1>1. TypeOK
  <2>1. closed \in BOOLEAN
    BY Zenon DEF Init
  <2> QED BY <2>1, CapacityAssumption DEF Init, TypeOK
<1>2. ASSUME NEW S, "idle" \notin S PROVE Num(S) = 0
  <2>1. At(S) = {}
    BY <1>2 DEF Init, At
  <2> QED BY <2>1, FS_EmptySet DEF Num
<1>3. /\ Num(SlotHolders) = 0 /\ Num(Pushed) = 0 /\ Num(Uncounted) = 0
      /\ Num(Permitted) = 0 /\ Num(Popped) = 0 /\ Num(StillCounted) = 0
      /\ Num({"c_slots", "c_items"}) = 0
  BY <1>2 DEF SlotHolders, Pushed, Uncounted, Permitted, Popped, StillCounted
<1>4. ~closed /\ Phantoms = 0
  BY DEF Init, Phantoms
<1>5. Closing /\ SeenPositive
  BY <1>3 DEF Init, Closing, SeenPositive
<1>6. SlotsConserved /\ CountTracksQueue /\ MessagesHavePermits /\ PermitsAreMessages
  BY <1>3, <1>4, CapacityAssumption
     DEF Init, SlotsConserved, CountTracksQueue, MessagesHavePermits, PermitsAreMessages
<1> QED BY <1>1, <1>5, <1>6 DEF Inv

LEMMA NextInv == Inv /\ [Next]_vars => Inv'
<1> SUFFICES ASSUME Inv, [Next]_vars PROVE Inv'
  OBVIOUS
<1>1. CASE Next
  <2>1. PICK p \in Threads : Send(p) \/ Receive(p) \/ CloseStep(p)
    BY <1>1 DEF Next
  <2>2. Laws'
    BY <2>1, SendLaws, ReceiveLaws, CloseLaws
  <2>3. TypeOK' /\ SeenPositive'
    BY <2>1, TypeStep, Zenon
  <2> QED BY <2>2, <2>3 DEF Inv, Laws
<1>2. CASE UNCHANGED vars
  <2>1. \A S : Num(S)' = Num(S)
    BY <1>2 DEF vars, Num, At
  <2> QED BY <1>2, <2>1
          DEF vars, Inv, TypeOK, Closing, SeenPositive, SlotsConserved, CountTracksQueue,
              MessagesHavePermits, PermitsAreMessages, Phantoms
<1> QED BY <1>1, <1>2

\* Slots are neither lost nor made up in any interleaving of send(), try_send(),
\* receive(), try_receive() and close().
THEOREM SlotsAreConserved == Spec => []SlotsConserved
<1>1. Inv => SlotsConserved
  BY Zenon DEF Inv
<1> QED BY InitInv, NextInv, <1>1, PTL DEF Spec

\* An open queue never holds more messages than its capacity, and a closed one
\* never more than twice as many.
THEOREM CapacityHolds == Spec => []WithinCapacity
<1>1. Inv => WithinCapacity
  <2> SUFFICES ASSUME Inv PROVE WithinCapacity
    OBVIOUS
  <2>1. TypeOK /\ SlotsConserved /\ Closing
    BY DEF Inv
  <2>2. Phantoms <= IF closed THEN Capacity ELSE 0
    BY <2>1, NumbersOK, CapacityAssumption DEF Phantoms, Closing, Numbers, TypeOK
  <2>3. Phantoms \in Int
    BY <2>1, NumbersOK, CapacityAssumption DEF Phantoms, Numbers, TypeOK
  <2>4. queue <= Capacity + Phantoms
    BY <2>1, <2>3, NumbersOK, CapacityAssumption DEF SlotsConserved, Numbers, TypeOK
  <2> QED BY <2>1, <2>2, <2>3, <2>4, CapacityAssumption DEF WithinCapacity, TypeOK
<1> QED BY InitInv, NextInv, <1>1, PTL DEF Spec

\* No message is ever stranded without a permit, even while close() and the
\* receivers that it wakes race with senders.
THEOREM NoMessageStranded == Spec => []MessagesHavePermits
<1>1. Inv => MessagesHavePermits
  BY DEF Inv
<1> QED BY InitInv, NextInv, <1>1, PTL DEF Spec

\* While the queue is open, no receiver with a permit finds the deque empty.
THEOREM PermitsAreBacked == Spec => []PermitsAreMessages
<1>1. Inv => PermitsAreMessages
  BY DEF Inv
<1> QED BY InitInv, NextInv, <1>1, PTL DEF Spec

\* Slots, messages, permits and the counter of the queue agree in every state,
\* for every capacity and every finite set of threads.
THEOREM QueueIsSound == Spec => []QueueSound
<1>1. Inv => TypeOK /\ CountTracksQueue
  BY DEF Inv
<1>2. Spec => []Inv
  BY InitInv, NextInv, PTL DEF Spec
<1>3. QueueSound <=> /\ TypeOK /\ CountTracksQueue /\ SlotsConserved /\ WithinCapacity
                     /\ MessagesHavePermits /\ PermitsAreMessages
  BY Zenon DEF QueueSound
<1> QED BY <1>1, <1>2, <1>3, SlotsAreConserved, CapacityHolds, NoMessageStranded,
           PermitsAreBacked, PTL

-----------------------------------------------------------------------------
(* The reader-writer lock *)

\* The inductive invariant.
RwInv == RwTypeOK /\ StateCounts /\ FlagHasWriter

\* Moving one thread changes who is inside by that thread at most.
LEMMA RwMoves ==
  ASSUME RwTypeOK, NEW p \in Threads, NEW l, RwGoto(p, l)
  PROVE  /\ Readers' = IF l = "reading" THEN Readers \cup {p} ELSE Readers \ {p}
         /\ Writers' = IF l \in {"w_clear", "writing"}
                       THEN Writers \cup {p} ELSE Writers \ {p}
<1>1. \A q \in Threads : rwpc'[q] = IF q = p THEN l ELSE rwpc[q]
  BY DEF RwTypeOK, RwGoto
<1> QED BY <1>1 DEF Readers, Writers

\* The read guards can be counted.
LEMMA RwReadersCount ==
  /\ IsFiniteSet(Readers) /\ Cardinality(Readers) \in Nat
  /\ Cardinality(Readers) = 0 <=> Readers = {}
  /\ Cardinality(Readers) = 1 => \E p : Readers = {p}
<1>1. IsFiniteSet(Readers)
  BY ThreadsFinite, FS_Subset DEF Readers
<1> QED BY <1>1, FS_CardinalityType, FS_EmptySet, FS_Singleton

\* A step that moves p without touching the word keeps the count when p is
\* neither a reader nor a writer before and after it, or a writer before and
\* after it.
LEMMA RwBystander ==
  ASSUME RwInv, NEW p \in Threads, NEW l, RwGoto(p, l), state' = state,
         rwpc[p] # "reading", l # "reading",
         rwpc[p] \in {"w_clear", "writing"} <=> l \in {"w_clear", "writing"}
  PROVE  /\ StateCounts'
         /\ Readers' = Readers /\ Writers' = Writers
<1>1. Readers' = Readers /\ Writers' = Writers
  BY RwMoves, Zenon DEF RwInv, Readers, Writers
<1> QED BY <1>1, Zenon DEF RwInv, StateCounts

\* Every step of a thread keeps the type.
LEMMA RwTypeStep ==
  ASSUME RwTypeOK, NEW p \in Threads,
         state = WRITER \/ state \in Nat, RwStep(p)
  PROVE  RwTypeOK'
<1> USE DEF RwTypeOK, RwGoto, Retry, WRITER
<1>1. CASE BeginRead(p)      BY <1>1, Zenon DEF BeginRead
<1>2. CASE ReadFlag(p)       BY <1>2, Zenon DEF ReadFlag
<1>3. CASE ReadLoad(p)       BY <1>3 DEF ReadLoad
<1>4. CASE ReadCas(p)        BY <1>4 DEF ReadCas
<1>5. CASE ReadCasFails(p)   BY <1>5 DEF ReadCasFails
<1>6. CASE BeginWrite(p)     BY <1>6 DEF BeginWrite
<1>7. CASE WriteCas(p)       BY <1>7 DEF WriteCas
<1>8. CASE WriteClear(p)     BY <1>8, Zenon DEF WriteClear
<1>9. CASE TryWrite(p)       BY <1>9 DEF TryWrite
<1>10. CASE DropReadGuard(p)  BY <1>10 DEF DropReadGuard
<1>11. CASE DropWriteGuard(p) BY <1>11 DEF DropWriteGuard
<1>12. CASE TryUpgrade(p)     BY <1>12 DEF TryUpgrade
<1> QED BY <1>1, <1>2, <1>3, <1>4, <1>5, <1>6, <1>7, <1>8, <1>9, <1>10, <1>11, <1>12, Zenon
       DEF RwStep

\* The flag goes up only with a writer in its loop, and that writer leaves only
\* by taking it down.
LEMMA RwFlagStep ==
  ASSUME RwInv, NEW p \in Threads, RwStep(p)
  PROVE  FlagHasWriter'
<1>1. CASE BeginWrite(p) \/ WriteCas(p)
  <2>1. rwpc'[p] \in {"w_cas", "w_clear"}
    BY <1>1, Zenon DEF BeginWrite, WriteCas, RwGoto, RwInv, RwTypeOK
  <2> QED BY <2>1 DEF FlagHasWriter
<1>2. CASE WriteClear(p)
  BY <1>2, Zenon DEF WriteClear, FlagHasWriter
<1>3. CASE ~(BeginWrite(p) \/ WriteCas(p) \/ WriteClear(p))
  <2>1. writer_waiting' = writer_waiting
    BY <1>3, Zenon DEF RwStep, BeginRead, ReadFlag, ReadLoad, ReadCas, ReadCasFails, TryWrite,
                DropReadGuard, DropWriteGuard, TryUpgrade
  <2>2. rwpc[p] \notin {"w_cas", "w_clear"}
    BY <1>3, Zenon DEF RwStep, BeginRead, ReadFlag, ReadLoad, ReadCas, ReadCasFails, TryWrite,
                DropReadGuard, DropWriteGuard, TryUpgrade
  <2>3. \A q \in Threads : q # p => rwpc'[q] = rwpc[q]
    BY <1>3, SMTT(30) DEF RwStep, BeginRead, ReadFlag, ReadLoad, ReadCas, ReadCasFails, TryWrite,
                DropReadGuard, DropWriteGuard, TryUpgrade, RwGoto, Retry, RwInv, RwTypeOK
  <2> QED BY <2>1, <2>2, <2>3, Zenon DEF FlagHasWriter, RwInv
<1> QED BY <1>1, <1>2, <1>3, Zenon

\* A step of the abstract lock by thread p, or none.
RwAbstractStep(p) ==
  \/ Abstract!AcquireRead(p) \/ Abstract!AcquireWrite(p) \/ Abstract!Upgrade(p)
  \/ Abstract!ReleaseRead(p) \/ Abstract!ReleaseWrite(p)
  \/ Readers' = Readers /\ Writers' = Writers

\* The heart of the argument, one case per action: the word keeps its meaning
\* and the step is one the abstract lock allows.
LEMMA RwGuardStep ==
  ASSUME RwInv, NEW p \in Threads, RwStep(p)
  PROVE  StateCounts' /\ RwAbstractStep(p)
<1> USE DEF RwAbstractStep
<1>0. RwTypeOK /\ StateCounts
  BY DEF RwInv
<1>1. CASE BeginRead(p)
  BY <1>1, RwBystander, Zenon DEF BeginRead
<1>2. CASE ReadFlag(p)
  BY <1>2, RwBystander, Zenon DEF ReadFlag, Retry
<1>3. CASE ReadLoad(p)
  BY <1>3, RwBystander, Zenon DEF ReadLoad, Retry
<1>4. CASE ReadCas(p)
  <2>1. state = rwseen[p] /\ state # WRITER /\ state' = state + 1
    BY <1>0, <1>4 DEF ReadCas, RwTypeOK, WRITER
  <2>2. Writers = {} /\ p \notin Readers /\ state = Cardinality(Readers)
    BY <1>0, <1>4, <2>1, Zenon DEF ReadCas, StateCounts, Readers
  <2>3. Readers' = Readers \cup {p} /\ Writers' = Writers
    BY <1>0, <1>4, <2>2, RwMoves DEF ReadCas
  <2>4. Cardinality(Readers') = Cardinality(Readers) + 1
    BY <2>2, <2>3, RwReadersCount, FS_AddElement, Zenon
  <2> QED BY <2>1, <2>2, <2>3, <2>4, RwReadersCount
           DEF StateCounts, WRITER, Abstract!AcquireRead
<1>5. CASE ReadCasFails(p)
  BY <1>5, RwBystander, Zenon DEF ReadCasFails, Retry
<1>6. CASE BeginWrite(p)
  BY <1>6, RwBystander DEF BeginWrite
<1>7. CASE WriteCas(p) \/ TryWrite(p)
  <2>1. state = 0 /\ state' = WRITER /\ (RwGoto(p, "w_clear") \/ RwGoto(p, "writing"))
    BY <1>7 DEF WriteCas, TryWrite
  <2>2. Readers = {} /\ Writers = {}
    BY <1>0, <2>1, RwReadersCount DEF StateCounts, WRITER
  <2>3. Readers' = {} /\ Writers' = {p}
    <3>1. CASE RwGoto(p, "w_clear")
      BY <1>0, <2>2, <3>1, RwMoves, Zenon
    <3>2. CASE RwGoto(p, "writing")
      BY <1>0, <2>2, <3>2, RwMoves
    <3> QED BY <2>1, <3>1, <3>2, Zenon
  <2> QED BY <2>1, <2>2, <2>3, Zenon DEF StateCounts, Abstract!AcquireWrite
<1>8. CASE WriteClear(p)
  BY <1>8, RwBystander, Zenon DEF WriteClear
<1>9. CASE DropReadGuard(p)
  <2>1. p \in Readers /\ state' = state - 1 /\ RwGoto(p, "idle")
    BY <1>9 DEF DropReadGuard, Readers
  <2>2. state # WRITER /\ Writers = {} /\ state = Cardinality(Readers)
    BY <1>0, <2>1 DEF StateCounts
  <2>3. Readers' = Readers \ {p} /\ Writers' = {}
    BY <1>0, <2>1, <2>2, RwMoves
  <2>4. Cardinality(Readers') = Cardinality(Readers) - 1 /\ Cardinality(Readers) # 0
    BY <2>1, <2>3, RwReadersCount, FS_RemoveElement, Zenon
  <2> QED BY <2>1, <2>2, <2>3, <2>4, RwReadersCount
           DEF StateCounts, WRITER, Abstract!ReleaseRead
<1>10. CASE DropWriteGuard(p)
  <2>1. p \in Writers /\ state' = 0 /\ RwGoto(p, "idle")
    BY <1>10 DEF DropWriteGuard, Writers
  <2>2. Readers = {} /\ Writers = {p}
    BY <1>0, <2>1 DEF StateCounts
  <2>3. Readers' = {} /\ Writers' = {}
    BY <1>0, <2>1, <2>2, RwMoves
  <2> QED BY <2>1, <2>2, <2>3, FS_EmptySet
           DEF StateCounts, WRITER, Abstract!ReleaseWrite
<1>11. CASE TryUpgrade(p)
  <2>1. p \in Readers /\ state = 1 /\ state' = WRITER /\ RwGoto(p, "writing")
    BY <1>11 DEF TryUpgrade, Readers
  <2>2. Writers = {} /\ Readers = {p}
    BY <1>0, <2>1, RwReadersCount DEF StateCounts, WRITER
  <2>3. Readers' = {} /\ Writers' = {p}
    BY <1>0, <2>1, <2>2, RwMoves
  <2> QED BY <2>1, <2>2, <2>3 DEF StateCounts, Abstract!Upgrade
<1> QED BY <1>1, <1>2, <1>3, <1>4, <1>5, <1>6, <1>7, <1>8, <1>9, <1>10, <1>11, Zenon
       DEF RwStep

\* Init establishes the invariant, with nobody inside.
LEMMA RwInitInv ==
  RwInit => RwInv /\ Readers = {} /\ Writers = {}
<1> SUFFICES ASSUME RwInit PROVE RwInv /\ Readers = {} /\ Writers = {}
  OBVIOUS
<1>1. Readers = {} /\ Writers = {}
  BY DEF RwInit, Readers, Writers
<1>2. RwTypeOK /\ FlagHasWriter
  <2>1. writer_waiting \in BOOLEAN /\ FlagHasWriter
    BY Zenon DEF RwInit, FlagHasWriter
  <2>2. blocking \in [Threads -> BOOLEAN]
    BY Zenon DEF RwInit
  <2>3. state \in Int /\ rwseen \in [Threads -> Nat]
    BY DEF RwInit
  <2> QED BY <2>1, <2>2, <2>3 DEF RwInit, RwTypeOK
<1>3. StateCounts
  <2>1. state = Cardinality(Readers) /\ state # WRITER
    BY <1>1, FS_EmptySet DEF RwInit, WRITER
  <2> QED BY <1>1, <2>1 DEF StateCounts
<1> QED BY <1>1, <1>2, <1>3 DEF RwInv

\* Every step keeps the invariant and is a step of the abstract lock or none.
LEMMA RwNextInv ==
  RwInv /\ [RwNext]_rwVars => RwInv' /\ [Abstract!Next]_<<Readers, Writers>>
<1> SUFFICES ASSUME RwInv, [RwNext]_rwVars
             PROVE  RwInv' /\ [Abstract!Next]_<<Readers, Writers>>
  OBVIOUS
<1>1. CASE RwNext
  <2>1. PICK p \in Threads : RwStep(p)
    BY <1>1 DEF RwNext
  <2>2. state = WRITER \/ state \in Nat
    BY RwReadersCount DEF RwInv, StateCounts
  <2>3. RwTypeOK'
    BY <2>1, <2>2, RwTypeStep DEF RwInv
  <2>4. FlagHasWriter'
    BY <2>1, RwFlagStep
  <2>5. StateCounts' /\ RwAbstractStep(p)
    BY <2>1, RwGuardStep
  <2> QED BY <2>3, <2>4, <2>5 DEF RwInv, RwAbstractStep, Abstract!Next
<1>2. CASE UNCHANGED rwVars
  BY <1>2 DEF rwVars, RwInv, RwTypeOK, StateCounts, FlagHasWriter, Readers, Writers
<1> QED BY <1>1, <1>2

\* The word of the lock always says who is inside: at most one writer, never
\* with a reader, and an exact count of the readers, whatever the interleaving
\* of read(), write(), the try_ forms, try_upgrade() and the guards' drops.
THEOREM WordCountsGuards == RwSpec => []StateCounts
<1>1. RwInv => StateCounts
  BY DEF RwInv
<1> QED BY RwInitInv, RwNextInv, <1>1, PTL DEF RwSpec

\* Readers are held back only on behalf of a writer that is on its way in.
THEOREM FlagNeverStaysUp == RwSpec => []FlagHasWriter
<1>1. RwInv => FlagHasWriter
  BY DEF RwInv
<1> QED BY RwInitInv, RwNextInv, <1>1, PTL DEF RwSpec

\* The word and the flag agree with the guards and the waiting writers, for
\* every finite set of threads.
THEOREM GuardsAreCounted == RwSpec => []GuardsCounted
<1>1. RwInv => GuardsCounted
  BY DEF RwInv, GuardsCounted
<1> QED BY RwInitInv, RwNextInv, <1>1, PTL DEF RwSpec

\* The lock implements the abstract reader-writer lock.
THEOREM RwLockRefinement == RwSpec => ImplementsRwLock
<1>1. RwInit => Abstract!Init
  BY RwInitInv DEF Abstract!Init
<1>2. RwInv /\ [RwNext]_rwVars => [Abstract!Next]_(Abstract!vars)
  BY RwNextInv DEF Abstract!vars
<1> QED BY RwInitInv, RwNextInv, <1>1, <1>2, PTL 
       DEF RwSpec, ImplementsRwLock, Abstract!Spec

-----------------------------------------------------------------------------
(* The test-and-set locks *)

IrqTypeOK ==
  /\ kind \in {"Spinlock", "IrqSpinlock"}
  /\ locked \in BOOLEAN
  /\ enabled \in SUBSET CPUs
  /\ irqpc \in [Contexts -> {"idle", "call", "spin", "held", "restore", "field"}]

\* A Spinlock: the flag is up while somebody holds it, and its guard has no
\* second drop.
IrqOneHolder ==
  kind = "Spinlock" =>
    /\ \A c \in Contexts : irqpc[c] \notin {"restore", "field"}
    /\ \A c \in Holders : locked
    /\ \A c, d \in Holders : c = d

\* An IrqSpinlock: from lock() to the restoring of the interrupts they are
\* disabled, and no handler is there.
IrqMasked ==
  kind = "IrqSpinlock" => \A cpu \in CPUs :
    irqpc[Thread(cpu)] \in {"spin", "held", "restore"} =>
      cpu \notin enabled /\ irqpc[Handler(cpu)] = "idle"

\* The inductive invariant.
IrqInv == IrqTypeOK /\ IrqOneHolder /\ IrqMasked

\* The contexts, and what is not the same context.
LEMMA IrqPairs ==
  /\ \A cpu \in CPUs : Thread(cpu) \in Contexts /\ Handler(cpu) \in Contexts
  /\ \A cpu \in CPUs : Cpu(Thread(cpu)) = cpu /\ Cpu(Handler(cpu)) = cpu
  /\ \A cpu, other \in CPUs : Thread(cpu) # Handler(other)
  /\ \A cpu, other \in CPUs : Thread(cpu) = Thread(other) => cpu = other
  /\ \A cpu, other \in CPUs : Handler(cpu) = Handler(other) => cpu = other
  /\ \A c \in Contexts : /\ Cpu(c) \in CPUs
                         /\ \/ c = Thread(Cpu(c)) /\ c[2] # "handler"
                            \/ c = Handler(Cpu(c)) /\ c[2] = "handler"
BY DEF Contexts, Thread, Handler, Cpu

\* Every step keeps the type.
LEMMA IrqTypeStep ==
  ASSUME IrqTypeOK, IrqNext
  PROVE  IrqTypeOK'
<1> USE DEF IrqTypeOK, IrqGoto, Return
<1>1. ASSUME NEW cpu \in CPUs, Interrupt(cpu)  PROVE IrqTypeOK'
  BY <1>1, IrqPairs DEF Interrupt
<1>2. ASSUME NEW cpu \in CPUs, IrqCall(cpu)  PROVE IrqTypeOK'
  BY <1>2, IrqPairs DEF IrqCall
<1>3. ASSUME NEW c \in Contexts, Enter(c)  PROVE IrqTypeOK'
  BY <1>3, IrqPairs DEF Enter
<1>4. ASSUME NEW c \in Contexts, lock(c)  PROVE IrqTypeOK'
  BY <1>4, IrqPairs, Zenon DEF lock
<1>5. ASSUME NEW c \in Contexts, try_lock(c)  PROVE IrqTypeOK'
  <2>1. CASE locked = TRUE
    BY <1>5, <2>1, IrqPairs DEF try_lock
  <2>2. CASE locked = FALSE
    BY <1>5, <2>2, IrqPairs DEF try_lock
  <2> QED BY <2>1, <2>2, Zenon
<1>6. ASSUME NEW c \in Contexts, drop(c)  PROVE IrqTypeOK'
  <2>1. CASE kind = "IrqSpinlock"
    BY <1>6, <2>1, IrqPairs, Zenon DEF drop
  <2>2. CASE kind = "Spinlock"
    <3>1. Return(c) /\ locked' = FALSE /\ kind' = kind
      BY <1>6, <2>2 DEF drop
    <3>2. enabled' \in SUBSET CPUs
      BY <3>1, IrqPairs
    <3> QED BY <3>1, <3>2, Zenon
  <2> QED BY <2>1, <2>2
<1>7. ASSUME NEW c \in Contexts, Restore(c)  PROVE IrqTypeOK'
  BY <1>7, IrqPairs DEF Restore
<1>8. ASSUME NEW c \in Contexts, DropField(c)  PROVE IrqTypeOK'
  BY <1>8, IrqPairs, Zenon DEF DropField
<1> QED BY <1>1, <1>2, <1>3, <1>4, <1>5, <1>6, <1>7, <1>8, SMTT(30) DEF IrqNext

\* The holder of a Spinlock stays alone.
LEMMA IrqHolderStep ==
  ASSUME IrqTypeOK, IrqOneHolder, IrqNext
  PROVE  IrqOneHolder'
<1> USE DEF IrqTypeOK, IrqOneHolder, Holders, IrqGoto, Return, IrqAt
<1>1. ASSUME NEW cpu \in CPUs, Interrupt(cpu)  PROVE IrqOneHolder'
  BY <1>1, IrqPairs DEF Interrupt
<1>2. ASSUME NEW cpu \in CPUs, IrqCall(cpu)  PROVE IrqOneHolder'
  BY <1>2, IrqPairs DEF IrqCall
<1>3. ASSUME NEW c \in Contexts, Enter(c)  PROVE IrqOneHolder'
  BY <1>3 DEF Enter
<1>4. ASSUME NEW c \in Contexts, lock(c)  PROVE IrqOneHolder'
  BY <1>4 DEF lock
<1>5. ASSUME NEW c \in Contexts, try_lock(c)  PROVE IrqOneHolder'
  BY <1>5 DEF try_lock
<1>6. ASSUME NEW c \in Contexts, drop(c)  PROVE IrqOneHolder'
  BY <1>6 DEF drop
<1>7. ASSUME NEW c \in Contexts, Restore(c)  PROVE IrqOneHolder'
  BY <1>7 DEF Restore
<1>8. ASSUME NEW c \in Contexts, DropField(c)  PROVE IrqOneHolder'
  BY <1>8 DEF DropField
<1> QED BY <1>1, <1>2, <1>3, <1>4, <1>5, <1>6, <1>7, <1>8, Zenon DEF IrqNext

\* The interrupts of a CPU stay disabled while its thread is in the lock.
LEMMA IrqMaskStep ==
  ASSUME IrqTypeOK, IrqOneHolder, IrqMasked, IrqNext
  PROVE  IrqMasked'
<1> SUFFICES ASSUME kind' = "IrqSpinlock", NEW cpu \in CPUs,
                    irqpc'[Thread(cpu)] \in {"spin", "held", "restore"}
             PROVE  cpu \notin enabled' /\ irqpc'[Handler(cpu)] = "idle"
  BY DEF IrqMasked
<1> USE DEF IrqTypeOK, IrqMasked, IrqGoto, Return, IrqAt, Runs
<1>1. ASSUME NEW x \in CPUs, Interrupt(x)
      PROVE  cpu \notin enabled' /\ irqpc'[Handler(cpu)] = "idle"
  BY <1>1, IrqPairs DEF Interrupt
<1>2. ASSUME NEW x \in CPUs, IrqCall(x)
      PROVE  cpu \notin enabled' /\ irqpc'[Handler(cpu)] = "idle"
  BY <1>2, IrqPairs DEF IrqCall
<1>3. ASSUME NEW c \in Contexts, Enter(c)
      PROVE  cpu \notin enabled' /\ irqpc'[Handler(cpu)] = "idle"
  BY <1>3, IrqPairs DEF Enter
<1>4. ASSUME NEW c \in Contexts, lock(c)
      PROVE  cpu \notin enabled' /\ irqpc'[Handler(cpu)] = "idle"
  BY <1>4, IrqPairs DEF lock
<1>5. ASSUME NEW c \in Contexts, try_lock(c)
      PROVE  cpu \notin enabled' /\ irqpc'[Handler(cpu)] = "idle"
  BY <1>5 DEF try_lock
<1>6. ASSUME NEW c \in Contexts, drop(c)
      PROVE  cpu \notin enabled' /\ irqpc'[Handler(cpu)] = "idle"
  BY <1>6, IrqPairs DEF drop
<1>7. ASSUME NEW c \in Contexts, Restore(c)
      PROVE  cpu \notin enabled' /\ irqpc'[Handler(cpu)] = "idle"
  BY <1>7, IrqPairs DEF Restore
<1>8. ASSUME NEW c \in Contexts, DropField(c)
      PROVE  cpu \notin enabled' /\ irqpc'[Handler(cpu)] = "idle"
  BY <1>8, IrqPairs DEF DropField
<1> QED BY <1>1, <1>2, <1>3, <1>4, <1>5, <1>6, <1>7, <1>8, Zenon DEF IrqNext

\* For every set of CPUs a Spinlock has one holder at most among all threads
\* and handlers; and no handler runs on the CPU of a thread that holds an
\* IrqSpinlock, so none can wait there for what it interrupted.
THEOREM LocksAreSound == IrqSpec => []LockSound
<1>1. IrqInit => IrqInv
  BY IrqPairs, Zenon DEF IrqInit, IrqInv, IrqTypeOK, IrqOneHolder, IrqMasked, Holders
<1>2. IrqInv /\ [IrqNext]_irqVars => IrqInv'
  <2>1. ASSUME IrqInv, IrqNext  PROVE IrqInv'
    BY <2>1, IrqTypeStep, IrqHolderStep, IrqMaskStep DEF IrqInv
  <2>2. ASSUME IrqInv, UNCHANGED irqVars  PROVE IrqInv'
    BY <2>2 DEF irqVars, IrqInv, IrqTypeOK, IrqOneHolder, IrqMasked, Holders
  <2> QED BY <2>1, <2>2
<1>3. IrqInv => LockSound
  <2> SUFFICES ASSUME IrqInv PROVE LockSound
    OBVIOUS
  <2>1. ASSUME kind = "Spinlock"  PROVE Cardinality(Holders) <= 1
    <3>1. Holders = {} \/ \E c : Holders = {c}
      BY <2>1 DEF IrqInv, IrqOneHolder
    <3>2. CASE Holders = {}
      BY <3>2, FS_EmptySet
    <3>3. ASSUME NEW c, Holders = {c}  PROVE Cardinality(Holders) <= 1
      <4>1. Cardinality({c}) = 1
        BY FS_Singleton, Zenon
      <4> QED BY <3>3, <4>1
    <3> QED BY <3>1, <3>2, <3>3
  <2>2. ASSUME kind = "IrqSpinlock", NEW cpu \in CPUs, Thread(cpu) \in Holders
        PROVE  irqpc[Handler(cpu)] = "idle"
    BY <2>2 DEF IrqInv, IrqMasked, Holders
  <2> QED BY <2>1, <2>2 DEF LockSound
<1> QED BY <1>1, <1>2, <1>3, PTL DEF IrqSpec

-----------------------------------------------------------------------------
(* The sequence lock *)

SeqTimes == [sec : Int, nsec : Int]

\* Where a thread holds the spinlock, and where it has made the number odd.
SeqLocked == {"w_begin", "u_begin", "store_sec", "store_nsec", "w_end",
           "u_read", "u_end", "w_unlock", "u_unlock"}
SeqOdd == {"store_sec", "store_nsec", "w_end", "u_read", "u_end"}
SeqReading == {"copy_sec", "copy_nsec", "validate", "returned"}

SeqTypeOK ==
  /\ sequence \in Nat /\ sec \in Int /\ nsec \in Int
  /\ seqpc \in [SeqThreads -> SeqLocked \cup SeqReading \cup {"idle", "u_write"}]
  /\ seq1 \in [SeqThreads -> Nat]
  /\ time \in [SeqThreads -> SeqTimes]
  /\ versions \in Seq(SeqTimes)

\* The spinlock keeps writers apart.
SeqOneWriter == \A p \in SeqThreads : seqpc[p] \in SeqLocked => write_lock = p

\* The number counts the stable values; between writers the last of them is
\* what the two words hold.
SeqCounted ==
  \/ /\ \E p \in SeqThreads : seqpc[p] \in SeqOdd
     /\ sequence = 2 * Len(versions) - 1
  \/ /\ \A p \in SeqThreads : seqpc[p] \notin SeqOdd
     /\ sequence = 2 * Len(versions) - 2
     /\ versions[Len(versions)] = [sec |-> sec, nsec |-> nsec]

\* A reader started from an even number that has been reached; as long as it
\* is still the number, what the reader copied is what the words hold.
SeqCopied ==
  \A p \in SeqThreads : seqpc[p] \in SeqReading =>
    /\ seq1[p] % 2 = 0 /\ seq1[p] <= sequence
    /\ seqpc[p] = "copy_nsec" /\ seq1[p] = sequence => time[p].sec = sec
    /\ seqpc[p] = "validate" /\ seq1[p] = sequence =>
         time[p].sec = sec /\ time[p].nsec = nsec

\* The inductive invariant.
SeqInv == SeqTypeOK /\ SeqOneWriter /\ SeqCounted /\ SeqCopied /\ NoTornRead

\* What update_time() stores is a time again.
LEMMA SeqCarry ==
  ASSUME NEW a \in Int
  PROVE  a \div NSEC \in Int /\ a % NSEC \in Int
BY SeqAssumption, SMT

\* Every step of a thread keeps the type.
LEMMA SeqTypeStep ==
  ASSUME SeqTypeOK, NEW p \in SeqThreads, SeqStep(p)
  PROVE  SeqTypeOK'
<1> USE SeqAssumption
    DEF SeqTypeOK, SeqGoto, Data, LockFor, SeqTimes, SeqLocked, SeqReading, Zero
<1>1. CASE ReadBegin(p)    BY <1>1 DEF ReadBegin
<1>2. CASE CopySec(p)      BY <1>2, Zenon DEF CopySec
<1>3. CASE CopyNsec(p)     BY <1>3, Zenon DEF CopyNsec
<1>4. CASE ReadValidate(p) BY <1>4 DEF ReadValidate
<1>5. CASE Forget(p)       BY <1>5 DEF Forget
<1>6. CASE SetTime(p)      BY <1>6 DEF SetTime, SetTimes
<1>7. CASE UpdateTime(p)   BY <1>7 DEF UpdateTime
<1>8. CASE UpdateWrite(p)  BY <1>8 DEF UpdateWrite
<1>9. CASE WriteBegin(p)   BY <1>9 DEF WriteBegin
<1>10. CASE StoreSec(p)    BY <1>10 DEF StoreSec
<1>11. CASE StoreNsec(p)   BY <1>11 DEF StoreNsec
<1>12. CASE UpdateRead(p)
  <2>1. PICK add \in 0 .. NSEC :
          time' = [time EXCEPT ![p] = [sec |-> sec + (nsec + add) \div NSEC,
                                       nsec |-> (nsec + add) % NSEC]]
    BY <1>12, Zenon DEF UpdateRead
  <2>2. nsec + add \in Int
    OBVIOUS
  <2>3. (nsec + add) \div NSEC \in Int /\ (nsec + add) % NSEC \in Int
    BY <2>2, SeqCarry
  <2>4. [sec |-> sec + (nsec + add) \div NSEC, nsec |-> (nsec + add) % NSEC] \in SeqTimes
    BY <2>3
  <2>5. time' \in [SeqThreads -> SeqTimes]
    BY <2>1, <2>4
  <2> QED BY <1>12, <2>5 DEF UpdateRead
<1>13. CASE WriteEnd(p)
  <2>1. versions' \in Seq(SeqTimes)
    BY <1>13 DEF WriteEnd
  <2> QED BY <1>13, <2>1 DEF WriteEnd
<1>14. CASE SeqUnlock(p)
  <2>1. CASE seqpc[p] = "w_unlock"
    <3>1. Zero \in SeqTimes
      OBVIOUS
    <3>2. time' = [time EXCEPT ![p] = Zero] /\ seqpc' = [seqpc EXCEPT ![p] = "idle"]
      BY <1>14, <2>1 DEF SeqUnlock
    <3>3. time' \in [SeqThreads -> SeqTimes]
      BY <3>1, <3>2
    <3> QED BY <1>14, <3>2, <3>3 DEF SeqUnlock
  <2>2. CASE seqpc[p] # "w_unlock"
    BY <1>14, <2>2, Zenon DEF SeqUnlock
  <2> QED BY <2>1, <2>2, Zenon
<1> QED BY <1>1, <1>2, <1>3, <1>4, <1>5, <1>6, <1>7, <1>8, <1>9, <1>10, <1>11,
           <1>12, <1>13, <1>14, Zenon DEF SeqStep

\* The spinlock is taken when nobody has it and given back by who has it.
LEMMA SeqLockStep ==
  ASSUME SeqTypeOK, SeqOneWriter, NEW p \in SeqThreads, SeqStep(p)
  PROVE  SeqOneWriter'
<1> USE SeqAssumption DEF SeqTypeOK, SeqOneWriter, SeqGoto, Data, LockFor, SeqLocked
<1>1. CASE ReadBegin(p)    BY <1>1 DEF ReadBegin
<1>2. CASE CopySec(p)      BY <1>2 DEF CopySec
<1>3. CASE CopyNsec(p)     BY <1>3 DEF CopyNsec
<1>4. CASE ReadValidate(p) BY <1>4 DEF ReadValidate
<1>5. CASE Forget(p)       BY <1>5 DEF Forget
<1>6. CASE SetTime(p)      BY <1>6 DEF SetTime
<1>7. CASE UpdateTime(p)   BY <1>7 DEF UpdateTime
<1>8. CASE UpdateWrite(p)  BY <1>8 DEF UpdateWrite
<1>9. CASE WriteBegin(p)   BY <1>9 DEF WriteBegin
<1>10. CASE StoreSec(p)    BY <1>10 DEF StoreSec
<1>11. CASE StoreNsec(p)   BY <1>11 DEF StoreNsec
<1>12. CASE UpdateRead(p)  BY <1>12 DEF UpdateRead
<1>13. CASE WriteEnd(p)    BY <1>13 DEF WriteEnd
<1>14. CASE SeqUnlock(p)
  <2>1. \A q \in SeqThreads : seqpc[q] \in SeqLocked => q = p
    BY <1>14 DEF SeqUnlock
  <2>2. \A q \in SeqThreads : seqpc'[q] \notin SeqLocked
    BY <1>14, <2>1, Zenon DEF SeqUnlock
  <2> QED BY <2>2
<1> QED BY <1>1, <1>2, <1>3, <1>4, <1>5, <1>6, <1>7, <1>8, <1>9, <1>10, <1>11,
           <1>12, <1>13, <1>14, Zenon DEF SeqStep

\* A step of a thread that neither stores, nor begins or ends a write.
SeqQuiet(p) ==
  /\ UNCHANGED <<sequence, sec, nsec, versions>>
  /\ seqpc[p] \notin SeqOdd /\ seqpc'[p] \notin SeqOdd
  /\ \A q \in SeqThreads \ {p} :
       seqpc'[q] = seqpc[q] /\ seq1'[q] = seq1[q] /\ time'[q] = time[q]

\* The number keeps counting the stable values.
LEMMA SeqCountStep ==
  ASSUME SeqTypeOK, SeqOneWriter, SeqCounted, NEW p \in SeqThreads, SeqStep(p)
  PROVE  SeqCounted'
<1> USE DEF SeqTypeOK, SeqGoto, Data, LockFor, SeqOdd, SeqLocked
<1>1. CASE SeqQuiet(p)
  BY <1>1, Zenon DEF SeqCounted, SeqQuiet
<1>2. ASSUME seqpc[p] \in SeqOdd  PROVE sequence = 2 * Len(versions) - 1
  BY <1>2 DEF SeqCounted
<1>3. ASSUME seqpc[p] \in SeqLocked, NEW q \in SeqThreads, q # p  PROVE seqpc[q] \notin SeqOdd
  BY <1>3, Zenon DEF SeqOneWriter
<1>4. CASE WriteBegin(p)
  BY <1>3, <1>4 DEF WriteBegin, SeqCounted
<1>5. CASE StoreSec(p)
  BY <1>2, <1>5, Zenon DEF StoreSec, SeqCounted
<1>6. CASE StoreNsec(p)
  BY <1>2, <1>6, Zenon DEF StoreNsec, SeqCounted
<1>7. CASE UpdateRead(p)
  BY <1>2, <1>7, Zenon DEF UpdateRead, SeqCounted
<1>8. CASE WriteEnd(p)
  <2>1. [sec |-> sec, nsec |-> nsec] \in SeqTimes
    BY DEF SeqTimes
  <2>2. /\ Len(versions') = Len(versions) + 1
        /\ versions'[Len(versions')] = [sec |-> sec, nsec |-> nsec]
    BY <1>8, <2>1 DEF WriteEnd
  <2>3. \A q \in SeqThreads : seqpc'[q] \notin SeqOdd
    BY <1>3, <1>8 DEF WriteEnd
  <2>4. sequence = 2 * Len(versions) - 1 /\ sequence' = sequence + 1
    BY <1>2, <1>8, SMTT(30) DEF WriteEnd
  <2>5. sequence' = 2 * Len(versions') - 2
    BY <2>2, <2>4
  <2> QED BY <1>8, <2>2, <2>3, <2>5 DEF WriteEnd, SeqCounted
<1>9. CASE ReadBegin(p) \/ CopySec(p) \/ CopyNsec(p) \/ ReadValidate(p) \/ Forget(p)
  BY <1>1, <1>9 DEF ReadBegin, CopySec, CopyNsec, ReadValidate, Forget, SeqQuiet
<1>10. CASE SetTime(p) \/ UpdateTime(p) \/ UpdateWrite(p)
  BY <1>1, <1>10 DEF SetTime, UpdateTime, UpdateWrite, SeqQuiet
<1>11. CASE SeqUnlock(p)
  <2>1. CASE seqpc[p] = "w_unlock"
    BY <1>1, <1>11, <2>1 DEF SeqUnlock, SeqQuiet
  <2>2. CASE seqpc[p] = "u_unlock"
    BY <1>1, <1>11, <2>2 DEF SeqUnlock, SeqQuiet
  <2> QED BY <1>11, <2>1, <2>2 DEF SeqUnlock
<1> QED BY <1>4, <1>5, <1>6, <1>7, <1>8, <1>9, <1>10, <1>11, Zenon DEF SeqStep

\* Where a number is odd, and which value an even one belongs to.
LEMMA SeqParity ==
  \A n \in Nat : (2 * n - 1) % 2 = 1 /\ (2 * n - 2) \div 2 + 1 = n
OBVIOUS

\* No step of another thread spoils what a reader has: the words change only
\* under an odd number, the number only grows, and stable values stay.
LEMMA SeqOthersStep ==
  ASSUME SeqInv, NEW p \in SeqThreads, SeqStep(p)
  PROVE  /\ sequence <= sequence'
         /\ sequence % 2 = 0 => sec' = sec /\ nsec' = nsec
         /\ \A i \in 1 .. Len(versions) : versions'[i] = versions[i]
         /\ \A q \in SeqThreads \ {p} :
              seqpc'[q] = seqpc[q] /\ seq1'[q] = seq1[q] /\ time'[q] = time[q]
<1> USE DEF SeqInv, SeqTypeOK, SeqGoto, Data, LockFor
<1>1. ASSUME seqpc[p] \in SeqOdd  PROVE sequence % 2 = 1
  <2>1. sequence = 2 * Len(versions) - 1
    BY <1>1, Zenon DEF SeqCounted
  <2>2. Len(versions) \in Nat
    OBVIOUS
  <2> QED BY <2>1, <2>2, SeqParity
<1>2. CASE WriteBegin(p)   BY <1>2 DEF WriteBegin
<1>3. CASE StoreSec(p)     BY <1>1, <1>3 DEF StoreSec, SeqOdd
<1>4. CASE StoreNsec(p)    BY <1>1, <1>4, SMTT(30) DEF StoreNsec, SeqOdd
<1>5. CASE WriteEnd(p)
  <2>1. [sec |-> sec, nsec |-> nsec] \in SeqTimes
    BY DEF SeqTimes
  <2>2. \A i \in 1 .. Len(versions) : versions'[i] = versions[i]
    BY <1>5, <2>1 DEF WriteEnd
  <2> QED BY <1>5, <2>2 DEF WriteEnd
<1>6. CASE ReadBegin(p) \/ CopySec(p) \/ CopyNsec(p) \/ ReadValidate(p) \/ Forget(p)
  BY <1>6 DEF ReadBegin, CopySec, CopyNsec, ReadValidate, Forget
<1>7. CASE SetTime(p) \/ UpdateTime(p) \/ UpdateWrite(p) \/ UpdateRead(p)
  BY <1>7 DEF SetTime, UpdateTime, UpdateWrite, UpdateRead
<1>8. CASE SeqUnlock(p)
  BY <1>8 DEF SeqUnlock
<1> QED BY <1>2, <1>3, <1>4, <1>5, <1>6, <1>7, <1>8, Zenon DEF SeqStep

\* A number that a reader started from belongs to a stable value.
LEMMA SeqReached ==
  ASSUME SeqInv, NEW q \in SeqThreads, seqpc[q] \in SeqReading
  PROVE  seq1[q] \div 2 + 1 \in 1 .. Len(versions)
<1>1. seq1[q] \in Nat /\ seq1[q] % 2 = 0 /\ seq1[q] <= sequence
  BY DEF SeqInv, SeqTypeOK, SeqCopied
<1>2. Len(versions) \in Nat /\ sequence \in Nat /\ sequence <= 2 * Len(versions) - 1
  BY SMTT(30) DEF SeqInv, SeqTypeOK, SeqCounted
<1> QED BY <1>1, <1>2

\* read_validate() lets a copy through that is the last stable value.
LEMMA SeqValidates ==
  ASSUME SeqInv, NEW p \in SeqThreads, ReadValidate(p), sequence = seq1[p]
  PROVE  /\ seqpc'[p] = "returned" /\ seq1'[p] % 2 = 0 /\ seq1'[p] <= sequence'
         /\ time'[p] = versions'[seq1'[p] \div 2 + 1]
<1>1. /\ seqpc'[p] = "returned" /\ seq1' = seq1 /\ time' = time
      /\ sequence' = sequence /\ versions' = versions
  BY Zenon DEF SeqInv, SeqTypeOK, ReadValidate, SeqGoto, Data
<1>2. /\ seq1[p] % 2 = 0 /\ seq1[p] <= sequence
      /\ time[p].sec = sec /\ time[p].nsec = nsec
  BY DEF SeqInv, SeqCopied, SeqReading, ReadValidate
<1>3. time[p] = [sec |-> sec, nsec |-> nsec]
  BY <1>2 DEF SeqInv, SeqTypeOK, SeqTimes
<1>4. Len(versions) \in Nat
  BY SMTT(30) DEF SeqInv, SeqTypeOK
<1>5. /\ sequence = 2 * Len(versions) - 2
      /\ versions[Len(versions)] = [sec |-> sec, nsec |-> nsec]
  <2>1. sequence % 2 = 0
    BY <1>2, Zenon
  <2>2. \/ /\ sequence = 2 * Len(versions) - 2
           /\ versions[Len(versions)] = [sec |-> sec, nsec |-> nsec]
        \/ sequence = 2 * Len(versions) - 1
    BY Zenon DEF SeqInv, SeqCounted
  <2> QED BY <1>4, <2>1, <2>2, SeqParity
<1>6. seq1[p] \div 2 + 1 = Len(versions)
  BY <1>4, <1>5, SeqParity, Zenon
<1> QED BY <1>1, <1>2, <1>3, <1>5, <1>6

\* Every step keeps what readers have copied and returned.
LEMMA SeqReadStep ==
  ASSUME SeqInv, NEW p \in SeqThreads, SeqStep(p), SeqTypeOK', SeqCounted'
  PROVE  SeqCopied' /\ NoTornRead'
<1>1. ASSUME NEW q \in SeqThreads, q # p
      PROVE  /\ seqpc'[q] \in SeqReading =>
                  /\ seq1'[q] % 2 = 0 /\ seq1'[q] <= sequence'
                  /\ seqpc'[q] = "copy_nsec" /\ seq1'[q] = sequence' => time'[q].sec = sec'
                  /\ seqpc'[q] = "validate" /\ seq1'[q] = sequence' =>
                       time'[q].sec = sec' /\ time'[q].nsec = nsec'
             /\ seqpc'[q] = "returned" => time'[q] = versions'[seq1'[q] \div 2 + 1]
  <2>1. seqpc'[q] = seqpc[q] /\ seq1'[q] = seq1[q] /\ time'[q] = time[q]
    BY <1>1, SeqOthersStep, Zenon
  <2>2. sequence \in Nat /\ sequence' \in Nat /\ seq1[q] \in Nat
    BY Zenon DEF SeqInv, SeqTypeOK
  <2>3. CASE seqpc[q] \in SeqReading
    <3>1. seq1[q] = sequence' => seq1[q] = sequence /\ sec' = sec /\ nsec' = nsec
      <4>1. seq1[q] % 2 = 0 /\ seq1[q] <= sequence
        BY <2>3, Zenon DEF SeqInv, SeqCopied
      <4>2. sequence <= sequence' /\ (sequence % 2 = 0 => sec' = sec /\ nsec' = nsec)
        BY SeqOthersStep, Zenon
      <4>3. seq1[q] = sequence' => seq1[q] = sequence
        BY <2>2, <4>1, <4>2, SMTT(30)
      <4> QED BY <4>1, <4>2, <4>3, Zenon
    <3>2. seq1[q] % 2 = 0 /\ seq1[q] <= sequence'
      BY <2>2, <2>3, SeqOthersStep DEF SeqInv, SeqCopied
    <3>3. versions'[seq1[q] \div 2 + 1] = versions[seq1[q] \div 2 + 1]
      BY <2>3, SeqReached, SeqOthersStep, ZenonT(40)
    <3> QED BY <2>1, <2>3, <3>1, <3>2, <3>3, Zenon DEF SeqInv, SeqCopied, NoTornRead
  <2>4. CASE seqpc[q] \notin SeqReading
    BY <2>1, <2>4, Zenon DEF SeqReading
  <2> QED BY <2>3, <2>4, ZenonT(40)
<1>2. /\ seqpc'[p] \in SeqReading =>
           /\ seq1'[p] % 2 = 0 /\ seq1'[p] <= sequence'
           /\ seqpc'[p] = "copy_nsec" /\ seq1'[p] = sequence' => time'[p].sec = sec'
           /\ seqpc'[p] = "validate" /\ seq1'[p] = sequence' =>
                time'[p].sec = sec' /\ time'[p].nsec = nsec'
      /\ seqpc'[p] = "returned" => time'[p] = versions'[seq1'[p] \div 2 + 1]
  <2> USE DEF SeqInv, SeqTypeOK, SeqGoto, Data, LockFor, SeqReading
  <2>1. CASE ReadBegin(p)
    <3>1. seqpc'[p] = "copy_sec" /\ seq1'[p] = sequence /\ sequence' = sequence
      BY <2>1, Zenon DEF ReadBegin
    <3>2. sequence % 2 = 0 /\ sequence \in Nat
      BY <2>1, Zenon DEF ReadBegin
    <3>3. sequence <= sequence
      BY <3>2
    <3> QED BY <3>1, <3>2, <3>3
  <2>2. CASE CopySec(p)
    <3>1. time'[p].sec = sec
      BY <2>2 DEF CopySec, SeqTimes
    <3> QED BY <2>2, <3>1 DEF CopySec, SeqCopied
  <2>3. CASE CopyNsec(p)
    <3>1. time'[p].sec = time[p].sec /\ time'[p].nsec = nsec
      BY <2>3, Zenon DEF CopyNsec, SeqTimes
    <3> QED BY <2>3, <3>1 DEF CopyNsec, SeqCopied
  <2>4. CASE ReadValidate(p)
    <3>1. CASE sequence # seq1[p]
      BY <2>4, <3>1, Zenon DEF ReadValidate
    <3>2. CASE sequence = seq1[p]
      BY <2>4, <3>2, SeqValidates, Zenon
    <3> QED BY <3>1, <3>2, Zenon
  <2>5. CASE Forget(p) \/ SetTime(p) \/ UpdateTime(p) \/ UpdateWrite(p) \/ UpdateRead(p)
    BY <2>5, Zenon DEF Forget, SetTime, UpdateTime, UpdateWrite, UpdateRead
  <2>6. CASE WriteBegin(p) \/ StoreSec(p) \/ StoreNsec(p) \/ WriteEnd(p)
    BY <2>6, Zenon DEF WriteBegin, StoreSec, StoreNsec, WriteEnd
  <2>7. CASE SeqUnlock(p)
    BY <2>7, Zenon DEF SeqUnlock
  <2> QED BY <2>1, <2>2, <2>3, <2>4, <2>5, <2>6, <2>7, ZenonT(40) DEF SeqStep
<1> QED BY <1>1, <1>2, Zenon DEF SeqCopied, NoTornRead

\* A torn time is never returned, for any number of readers and writers and
\* however long they go on: while the number a reader started from stands, no
\* writer has touched the words, and afterwards read_validate() sends it back.
THEOREM ReadsAreNotTorn == SeqSpec => []NoTornRead
<1>1. SeqInit => SeqInv
  BY SeqAssumption
     DEF SeqInit, SeqInv, SeqTypeOK, SeqOneWriter, SeqCounted, SeqCopied, NoTornRead,
         Zero, SeqTimes, SeqLocked, SeqOdd, SeqReading
<1>2. SeqInv /\ [SeqNext]_seqVars => SeqInv'
  <2>1. ASSUME SeqInv, NEW p \in SeqThreads, SeqStep(p)  PROVE SeqInv'
    <3>1. SeqTypeOK'
      BY <2>1, SeqTypeStep DEF SeqInv
    <3>2. SeqOneWriter' /\ SeqCounted'
      BY <2>1, SeqLockStep, SeqCountStep, ZenonT(40) DEF SeqInv
    <3> QED BY <2>1, <3>1, <3>2, SeqReadStep DEF SeqInv
  <2>2. ASSUME SeqInv, UNCHANGED seqVars  PROVE SeqInv'
    BY <2>2, Zenon DEF seqVars, SeqInv, SeqTypeOK, SeqOneWriter, SeqCounted, SeqCopied, NoTornRead
  <2> QED BY <2>1, <2>2 DEF SeqNext
<1>3. SeqInv => NoTornRead
  BY DEF SeqInv
<1> QED BY <1>1, <1>2, <1>3, PTL DEF SeqSpec

-----------------------------------------------------------------------------
(* The ticket lock *)

\* The number k places behind the one that is served.
TicketAt(k) ==
  IF now_serving + k < Wrap THEN now_serving + k ELSE now_serving + k - Wrap

TicketTypeOK ==
  /\ next_ticket \in 0 .. Wrap - 1 /\ now_serving \in 0 .. Wrap - 1
  /\ ticketpc \in [Threads -> {"idle", "spin", "held"}]
  /\ ticket \in [Threads -> 0 .. Wrap - 1]
  /\ arrived \in Seq(Threads)

\* The threads in lock() or with the guard are those that drew, each once.
TicketQueue ==
  /\ \A i, j \in 1 .. Len(arrived) : arrived[i] = arrived[j] => i = j
  /\ \A p \in Threads :
       ticketpc[p] # "idle" <=> \E i \in 1 .. Len(arrived) : arrived[i] = p

\* Their numbers follow each other from the one that is served to the next one
\* that will be drawn.
TicketOrder ==
  /\ \A i \in 1 .. Len(arrived) : ticket[arrived[i]] = TicketAt(i - 1)
  /\ next_ticket = TicketAt(Len(arrived))

\* The inductive invariant.
TicketInv == TicketTypeOK /\ TicketQueue /\ TicketOrder /\ FirstComeFirstServed

\* A counter goes on to the next number, or back to zero.
LEMMA TicketWraps ==
  \A n \in 0 .. Wrap - 1 : (n + 1) % Wrap = IF n + 1 = Wrap THEN 0 ELSE n + 1
BY TicketsSuffice

\* A sequence without repetitions is no longer than the set it is taken from.
LEMMA NoRepeats ==
  ASSUME NEW T, IsFiniteSet(T), NEW n \in Nat, NEW s \in [1 .. n -> T],
         \A i, j \in 1 .. n : s[i] = s[j] => i = j
  PROVE  n <= Cardinality(T)
<1>1. Cardinality(1 .. n) = n
  BY FS_Interval
<1>2. s \in Injection(1 .. n, T)
  BY DEF Injection, IsInjective
<1> QED BY <1>1, <1>2, FS_Injection

\* No more threads wait than there are numbers.
LEMMA TicketFew ==
  ASSUME TicketInv
  PROVE  Len(arrived) \in Nat /\ Len(arrived) <= Wrap
<1>1. Len(arrived) \in Nat
  BY DEF TicketInv, TicketTypeOK
<1>2. arrived \in [1 .. Len(arrived) -> Threads]
  BY DEF TicketInv, TicketTypeOK
<1>3. Len(arrived) <= Cardinality(Threads)
  BY <1>1, <1>2, ThreadsFinite, NoRepeats, Zenon DEF TicketInv, TicketQueue
<1>4. Cardinality(Threads) \in Nat
  BY ThreadsFinite, FS_CardinalityType
<1> QED BY <1>1, <1>3, <1>4, TicketsSuffice

\* A thread that draws gets the number after the last, and goes to the end.
LEMMA TicketDraw ==
  ASSUME TicketInv, NEW p \in Threads, Draw(p)
  PROVE  TicketInv'
<1> DEFINE n == Len(arrived)
<1>1. n \in Nat /\ n <= Wrap
  BY TicketFew
<1>2. /\ arrived' = Append(arrived, p) /\ now_serving' = now_serving
      /\ ticket' = [ticket EXCEPT ![p] = next_ticket]
      /\ ticketpc' = [ticketpc EXCEPT ![p] = "spin"]
      /\ next_ticket' = (next_ticket + 1) % Wrap /\ ticketpc[p] = "idle"
  BY Zenon DEF Draw
<1>3. /\ arrived' \in Seq(Threads) /\ Len(arrived') = n + 1
      /\ \A i \in 1 .. n : arrived'[i] = arrived[i]
      /\ arrived'[n + 1] = p
  BY <1>2 DEF TicketInv, TicketTypeOK
<1>4. \A i \in 1 .. n : arrived[i] # p /\ arrived[i] \in Threads
  BY <1>2, SMTT(30) DEF TicketInv, TicketTypeOK, TicketQueue
<1>5. next_ticket' = IF next_ticket + 1 = Wrap THEN 0 ELSE next_ticket + 1
  BY <1>2, TicketWraps, Zenon DEF TicketInv, TicketTypeOK
<1>6. TicketTypeOK'
  BY <1>2, <1>3, <1>5, TicketsSuffice DEF TicketInv, TicketTypeOK
<1>7. TicketQueue'
  <2>1. \A i, j \in 1 .. n + 1 : arrived'[i] = arrived'[j] => i = j
    BY <1>1, <1>3, <1>4 DEF TicketInv, TicketQueue
  <2>2. ASSUME NEW q \in Threads
        PROVE  ticketpc'[q] # "idle" <=> \E i \in 1 .. n + 1 : arrived'[i] = q
    <3>1. CASE q = p
      BY <1>1, <1>2, <1>3, <3>1, SMTT(30) DEF TicketInv, TicketTypeOK
    <3>2. CASE q # p
      BY <1>1, <1>2, <1>3, <3>2, SMTT(30) DEF TicketInv, TicketTypeOK, TicketQueue
    <3> QED BY <3>1, <3>2, Zenon
  <2> QED BY <1>3, <2>1, <2>2, Zenon DEF TicketQueue
<1>8. n < Wrap
  <2>1. arrived' \in [1 .. n + 1 -> Threads] /\ n + 1 \in Nat
    BY <1>1, <1>3, SMTT(30)
  <2>2. n + 1 <= Cardinality(Threads)
    BY <1>3, <1>7, <2>1, ThreadsFinite, NoRepeats DEF TicketQueue
  <2>3. Cardinality(Threads) \in Nat
    BY ThreadsFinite, FS_CardinalityType, Zenon
  <2> QED BY <1>1, <2>2, <2>3, TicketsSuffice
<1>9. TicketOrder'
  <2>1. ASSUME NEW i \in 1 .. n + 1
        PROVE  ticket'[arrived'[i]] = TicketAt(i - 1)
    <3>1. CASE i = n + 1
      BY <1>1, <1>2, <1>3, <3>1, SMTT(30) DEF TicketInv, TicketTypeOK, TicketOrder
    <3>2. CASE i # n + 1
      BY <1>1, <1>2, <1>3, <1>4, <3>2 DEF TicketInv, TicketTypeOK, TicketOrder
    <3> QED BY <3>1, <3>2, Zenon
  <2>2. next_ticket' = TicketAt(n + 1)
    <3>1. next_ticket = TicketAt(n) /\ now_serving \in 0 .. Wrap - 1
      BY DEF TicketInv, TicketTypeOK, TicketOrder
    <3> HIDE DEF n
    <3> QED BY <1>1, <1>5, <1>8, <3>1, TicketsSuffice, SMTT(30) DEF TicketAt
  <2> QED BY <1>3, <2>1, <2>2, <1>2, Zenon DEF TicketOrder, TicketAt
<1>10. FirstComeFirstServed'
  <2>1. ASSUME NEW q \in Threads, ticketpc'[q] = "held"  PROVE arrived'[1] = q
    <3>1. ticketpc[q] = "held" /\ n >= 1
      BY <1>1, <1>2, <2>1 DEF TicketInv, TicketTypeOK, TicketQueue
    <3> QED BY <1>1, <1>3, <3>1 DEF TicketInv, FirstComeFirstServed
  <2> QED BY <2>1 DEF FirstComeFirstServed
<1> QED BY <1>6, <1>7, <1>9, <1>10 DEF TicketInv

\* Only the first can find its own number: the others are fewer than Wrap
\* places behind.
LEMMA TicketServe ==
  ASSUME TicketInv, NEW p \in Threads, Serve(p)
  PROVE  TicketInv'
<1>1. PICK i \in 1 .. Len(arrived) : arrived[i] = p
  BY DEF TicketInv, TicketQueue, Serve
<1>2. i \in Nat /\ i >= 1 /\ i <= Wrap
  BY TicketFew, TicketsSuffice
<1>3. now_serving = TicketAt(i - 1)
  BY <1>1 DEF TicketInv, TicketOrder, Serve
<1>4. i = 1
  BY <1>2, <1>3, TicketsSuffice DEF TicketAt, TicketInv, TicketTypeOK
<1>5. TicketTypeOK' /\ TicketOrder'
  BY Zenon DEF Serve, TicketInv, TicketTypeOK, TicketOrder, TicketAt
<1>6. TicketQueue'
  BY SMTT(30) DEF Serve, TicketInv, TicketTypeOK, TicketQueue
<1>7. FirstComeFirstServed'
  BY <1>1, <1>4, Zenon DEF Serve, TicketInv, TicketTypeOK, FirstComeFirstServed
<1> QED BY <1>5, <1>6, <1>7, Zenon DEF TicketInv

\* The holder leaves from the front, and all others move up.
LEMMA TicketUnlock ==
  ASSUME TicketInv, NEW p \in Threads, Unlock(p)
  PROVE  TicketInv'
<1> DEFINE n == Len(arrived)
<1>1. n \in Nat /\ n <= Wrap
  BY TicketFew
<1>2. /\ ticketpc[p] = "held" /\ next_ticket' = next_ticket
      /\ ticketpc' = [ticketpc EXCEPT ![p] = "idle"]
      /\ ticket' = [ticket EXCEPT ![p] = 0]
  BY DEF Unlock
<1>3. arrived[1] = p /\ n >= 1
  BY <1>1, <1>2 DEF TicketInv, TicketTypeOK, TicketQueue, FirstComeFirstServed
<1>4. arrived' = Without(1)
  <2>1. PICK i \in DOMAIN arrived : arrived[i] = p /\ arrived' = Without(i)
    BY DEF Unlock
  <2>2. i \in 1 .. n /\ 1 \in 1 .. n
    BY <1>1, <1>3 DEF TicketInv, TicketTypeOK
  <2>3. i = 1
    BY <1>3, <2>1, <2>2, Zenon DEF TicketInv, TicketQueue
  <2> QED BY <2>1, <2>3
<1>5. /\ arrived' \in Seq(Threads) /\ Len(arrived') = n - 1
      /\ \A j \in 1 .. n - 1 : arrived'[j] = arrived[j + 1]
  <2>1. arrived \in Seq(Threads)
    BY DEF TicketInv, TicketTypeOK
  <2>2. arrived' = SubSeq(arrived, 1, 0) \o SubSeq(arrived, 2, n)
    BY <1>4 DEF Without
  <2>3. /\ SubSeq(arrived, 1, 0) \in Seq(Threads) /\ Len(SubSeq(arrived, 1, 0)) = 0
    BY <1>1, <2>1
  <2>4. /\ SubSeq(arrived, 2, n) \in Seq(Threads) /\ Len(SubSeq(arrived, 2, n)) = n - 1
        /\ \A j \in 1 .. n - 1 : SubSeq(arrived, 2, n)[j] = arrived[j + 1]
    <3> DEFINE rest == SubSeq(arrived, 2, n)
    <3>1. \A j \in 2 .. n : arrived[j] \in Threads
      BY <1>1, <2>1
    <3>2. /\ rest \in Seq(Threads) /\ Len(rest) = IF 2 <= n THEN n - 2 + 1 ELSE 0
          /\ \A j \in 1 .. n - 2 + 1 : rest[j] = arrived[2 + j - 1]
      BY <1>1, <3>1
    <3> HIDE DEF rest, n
    <3>3. Len(rest) = n - 1
      BY <1>1, <1>3, <3>2
    <3>4. ASSUME NEW j \in 1 .. n - 1  PROVE rest[j] = arrived[j + 1]
      <4>1. j \in 1 .. n - 2 + 1 /\ 2 + j - 1 = j + 1
        BY <1>1
      <4> QED BY <3>2, <4>1
    <3> QED BY <3>2, <3>3, <3>4 DEF rest
  <2> QED BY <1>1, <1>3, <2>2, <2>3, <2>4
<1>6. now_serving' = IF now_serving + 1 = Wrap THEN 0 ELSE now_serving + 1
  BY TicketWraps, Zenon DEF Unlock, TicketInv, TicketTypeOK
<1>7. TicketTypeOK'
  BY <1>2, <1>5, <1>6, TicketsSuffice DEF TicketInv, TicketTypeOK
<1>8. TicketQueue'
  <2>1. \A i, j \in 1 .. n - 1 : arrived'[i] = arrived'[j] => i = j
    <3> TAKE i, j \in 1 .. n - 1
    <3>1. /\ i + 1 \in 1 .. n /\ j + 1 \in 1 .. n
          /\ arrived'[i] = arrived[i + 1] /\ arrived'[j] = arrived[j + 1]
      BY <1>1, <1>5
    <3>2. arrived[i + 1] = arrived[j + 1] => i + 1 = j + 1
      BY <3>1, Zenon DEF TicketInv, TicketQueue
    <3> QED BY <3>1, <3>2
  <2>2. ASSUME NEW q \in Threads
        PROVE  ticketpc'[q] # "idle" <=> \E i \in 1 .. n - 1 : arrived'[i] = q
    <3>1. CASE q = p
      <4>1. \A i \in 1 .. n - 1 : arrived[i + 1] # p
        BY <1>1, <1>3 DEF TicketInv, TicketQueue
      <4> QED BY <1>2, <1>5, <3>1, <4>1, Zenon DEF TicketInv, TicketTypeOK
    <3>2. CASE q # p
      <4>1. ticketpc'[q] = ticketpc[q]
        BY <1>2, <3>2 DEF TicketInv, TicketTypeOK
      <4>2. (\E i \in 1 .. n : arrived[i] = q) <=> \E i \in 1 .. n - 1 : arrived[i + 1] = q
        <5>1. ASSUME NEW i \in 1 .. n, arrived[i] = q
              PROVE  \E j \in 1 .. n - 1 : arrived[j + 1] = q
          <6>1. i - 1 \in 1 .. n - 1 /\ (i - 1) + 1 = i
            BY <1>1, <1>3, <3>2, <5>1
          <6> QED BY <5>1, <6>1
        <5> QED BY <1>1, <5>1
      <4>3. ticketpc[q] # "idle" <=> \E i \in 1 .. n : arrived[i] = q
        BY Zenon DEF TicketInv, TicketQueue
      <4> QED BY <1>5, <4>1, <4>2, <4>3, Zenon
    <3> QED BY <3>1, <3>2
  <2> QED BY <1>5, <2>1, <2>2, Zenon DEF TicketQueue
<1>9. TicketOrder'
  <2>1. ASSUME NEW k \in 0 .. Wrap - 1  PROVE TicketAt(k)' = TicketAt(k + 1)
    BY <1>6, TicketsSuffice DEF TicketAt, TicketInv, TicketTypeOK
  <2>2. ASSUME NEW i \in 1 .. n - 1
        PROVE  ticket'[arrived'[i]] = TicketAt(i - 1)'
    <3>1. i + 1 \in 1 .. n /\ i - 1 \in 0 .. Wrap - 1 /\ (i - 1) + 1 = i
      BY <1>1, TicketsSuffice
    <3>2. arrived[i + 1] # p /\ arrived[i + 1] \in Threads
      BY <1>1, <1>3, <3>1 DEF TicketInv, TicketTypeOK, TicketQueue
    <3>3. ticket'[arrived'[i]] = ticket[arrived[i + 1]]
      BY <1>2, <1>5, <3>2, Zenon DEF TicketInv, TicketTypeOK
    <3>4. ticket[arrived[i + 1]] = TicketAt(i)
      BY <3>1 DEF TicketInv, TicketOrder
    <3> QED BY <2>1, <3>1, <3>3, <3>4, Zenon
  <2>3. next_ticket' = TicketAt(Len(arrived))'
    <3>1. PICK k \in 0 .. Wrap - 1 : n = k + 1
      BY <1>1, <1>3, TicketsSuffice, SMTT(30)
    <3>2. Len(arrived)' = k
      BY <1>5, <3>1
    <3>3. next_ticket = TicketAt(k + 1)
      BY <3>1, Zenon DEF TicketInv, TicketOrder
    <3> QED BY <1>2, <2>1, <3>2, <3>3, Zenon DEF TicketAt
  <2> QED BY <1>5, <2>2, <2>3, Zenon DEF TicketOrder
<1>10. FirstComeFirstServed'
  <2>1. \A q \in Threads : ticketpc[q] = "held" => q = p
    BY <1>3, SMTT(30) DEF TicketInv, FirstComeFirstServed
  <2> QED BY <1>2, <2>1 DEF FirstComeFirstServed, TicketInv, TicketTypeOK
<1> QED BY <1>7, <1>8, <1>9, <1>10 DEF TicketInv

\* The ticket lock is first come, first served, for every finite set of threads
\* and every width of its counters that gives each thread a number: the counters
\* may wrap any number of times.
THEOREM TicketsAreInOrder == TicketSpec => []FirstComeFirstServed
<1>1. TicketInit => TicketInv
  <2>1. ASSUME TicketInit  PROVE TicketInv
    <3>1. arrived \in Seq(Threads) /\ Len(arrived) = 0
      BY <2>1 DEF TicketInit
    <3> QED BY <2>1, <3>1, TicketsSuffice
            DEF TicketInit, TicketInv, TicketTypeOK, TicketQueue, TicketOrder, TicketAt,
                FirstComeFirstServed
  <2> QED BY <2>1
<1>2. TicketInv /\ [TicketNext]_ticketVars => TicketInv'
  <2>1. ASSUME TicketInv, TicketNext  PROVE TicketInv'
    BY <2>1, TicketDraw, TicketServe, TicketUnlock, Zenon DEF TicketNext
  <2>2. ASSUME TicketInv, UNCHANGED ticketVars  PROVE TicketInv'
    BY <2>2 DEF ticketVars, TicketInv, TicketTypeOK, TicketQueue, TicketOrder, TicketAt,
                FirstComeFirstServed
  <2> QED BY <2>1, <2>2
<1>3. TicketInv => FirstComeFirstServed
  BY DEF TicketInv
<1> QED BY <1>1, <1>2, <1>3, PTL DEF TicketSpec
=============================================================================
