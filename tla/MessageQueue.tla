---------------------------- MODULE MessageQueue ----------------------------
(***************************************************************************)
(* The unbounded MessageQueue of src/src/ipc/message_queue.rs: a deque     *)
(* under a mutex that receivers search for the most urgent message, a      *)
(* counter beside it, and a semaphore that counts messages.                *)
(*                                                                         *)
(* A step is an atomic access, or a critical section up to the next atomic *)
(* access outside the deque.  A message is its priority.                   *)
(***************************************************************************)
EXTENDS Integers, Sequences, FiniteSets

CONSTANTS QueueThreads,
          Priorities,      \* levels of Priority, as numbers
          CloseReleases,   \* how often close() releases the semaphore: 10
          MaxQueue         \* bound: nothing is pushed past this many messages,
                           \* in the deque or in the counter, nor past this
                           \* many permits

Nobody == "none"

ASSUME QueueAssumption ==
  IsFiniteSet(QueueThreads) /\ Nobody \notin QueueThreads /\ Priorities \subseteq Int

VARIABLES
  queue,      \* the deque: priorities, oldest first
  lock,       \* holder of its mutex between two steps, or Nobody
  count,      \* the counter: -1 stands for the wrapped usize
  closed,
  sem_items,
  queuepc,         \* where each thread is
  seen,       \* the semaphore value try_acquire() loaded
  loop        \* iterations close() or clear() has still to do

queueVars == <<queue, lock, count, closed, sem_items, queuepc, seen, loop>>

QueueInit ==
  /\ queue = <<>> /\ lock = Nobody
  /\ count = 0 /\ closed = FALSE /\ sem_items = 0
  /\ queuepc = [p \in QueueThreads |-> "idle"]
  /\ seen = [p \in QueueThreads |-> 0]
  /\ loop = [p \in QueueThreads |-> 0]

QueueGoto(p, l) == queuepc' = [queuepc EXCEPT ![p] = l]

-----------------------------------------------------------------------------
(* send_message() *)

BeginSend(p) ==
  /\ queuepc[p] = "idle" /\ ~closed
  /\ QueueGoto(p, "s_push")
  /\ UNCHANGED <<queue, lock, count, closed, sem_items, seen, loop>>

Push(p) ==
  /\ queuepc[p] = "s_push" /\ lock = Nobody
  /\ Len(queue) < MaxQueue /\ count < MaxQueue /\ sem_items < MaxQueue
  /\ \E priority \in Priorities : queue' = Append(queue, priority)
  /\ QueueGoto(p, "s_count")
  /\ UNCHANGED <<lock, count, closed, sem_items, seen, loop>>

SendCount(p) ==
  /\ queuepc[p] = "s_count"
  /\ count' = count + 1
  /\ QueueGoto(p, "s_items")
  /\ UNCHANGED <<queue, lock, closed, sem_items, seen, loop>>

SendItems(p) ==
  /\ queuepc[p] = "s_items"
  /\ sem_items' = sem_items + 1
  /\ QueueGoto(p, "idle")
  /\ UNCHANGED <<queue, lock, count, closed, seen, loop>>

-----------------------------------------------------------------------------
(* receive() and try_receive() *)

\* The index the loop of find_highest_priority() ends with, for a deque that is
\* not empty.
find_highest_priority_LastWins(q) ==
  LET best_idx[i \in 1 .. Len(q)] ==
        IF i = 1 THEN 1
        ELSE IF q[i] >= q[best_idx[i - 1]] THEN i ELSE best_idx[i - 1]
  IN  best_idx[Len(q)]

find_highest_priority(q) ==
  LET best_idx[i \in 1 .. Len(q)] ==
        IF i = 1 THEN 1
        ELSE IF q[i] > q[best_idx[i - 1]] THEN i ELSE best_idx[i - 1]
  IN  best_idx[Len(q)]

\* The call returns Closed when the queue is closed and counted empty.
Drained == closed /\ count = 0

BeginReceive(p) ==
  /\ queuepc[p] = "idle" /\ ~Drained
  /\ QueueGoto(p, "r_items") \/ QueueGoto(p, "r_try")
  /\ UNCHANGED <<queue, lock, count, closed, sem_items, seen, loop>>

AcquireItem(p) ==
  /\ queuepc[p] = "r_items" /\ sem_items > 0
  /\ sem_items' = sem_items - 1
  /\ QueueGoto(p, "r_recheck")
  /\ UNCHANGED <<queue, lock, count, closed, seen, loop>>

ReceiveRecheck(p) ==
  /\ queuepc[p] = "r_recheck"
  /\ QueueGoto(p, IF Drained THEN "idle" ELSE "r_take")
  /\ UNCHANGED <<queue, lock, count, closed, sem_items, seen, loop>>

TryItemLoad(p) ==
  /\ queuepc[p] = "r_try"
  /\ seen' = [seen EXCEPT ![p] = sem_items]
  /\ QueueGoto(p, IF sem_items > 0 THEN "r_cas" ELSE "idle")
  /\ UNCHANGED <<queue, lock, count, closed, sem_items, loop>>

TryItemCas(p) ==
  /\ queuepc[p] = "r_cas"
  /\ IF sem_items = seen[p]
     THEN sem_items' = sem_items - 1 /\ QueueGoto(p, "r_take")
     ELSE UNCHANGED sem_items /\ QueueGoto(p, "idle")
  /\ seen' = [seen EXCEPT ![p] = 0]
  /\ UNCHANGED <<queue, lock, count, closed, loop>>

\* The message leaves the deque, and the counter follows under the same lock;
\* an empty deque ends the call with Empty.
Take(p) ==
  /\ queuepc[p] = "r_take" /\ lock = Nobody
  /\ IF queue = <<>>
     THEN QueueGoto(p, "idle") /\ UNCHANGED <<queue, lock>>
     ELSE LET i == find_highest_priority(queue)
          IN  /\ queue' = SubSeq(queue, 1, i - 1) \o SubSeq(queue, i + 1, Len(queue))
              /\ lock' = p
              /\ QueueGoto(p, "r_count")
  /\ UNCHANGED <<count, closed, sem_items, seen, loop>>

TakeCount(p) ==
  /\ queuepc[p] = "r_count"
  /\ count' = count - 1
  /\ lock' = Nobody
  /\ QueueGoto(p, "idle")
  /\ UNCHANGED <<queue, closed, sem_items, seen, loop>>

-----------------------------------------------------------------------------
(* close(), bounded to one call, and clear() *)

Close(p) ==
  /\ queuepc[p] = "idle" /\ ~closed
  /\ closed' = TRUE
  /\ loop' = [loop EXCEPT ![p] = CloseReleases]
  /\ QueueGoto(p, "k_items")
  /\ UNCHANGED <<queue, lock, count, sem_items, seen>>

CloseItems(p) ==
  /\ queuepc[p] = "k_items"
  /\ sem_items' = sem_items + 1
  /\ loop' = [loop EXCEPT ![p] = @ - 1]
  /\ QueueGoto(p, IF loop[p] > 1 THEN "k_items" ELSE "idle")
  /\ UNCHANGED <<queue, lock, count, closed, seen>>

\* clear() empties the deque and keeps its mutex to the end.
Clear(p) ==
  /\ queuepc[p] = "idle" /\ lock = Nobody
  /\ queue' = <<>> /\ lock' = p
  /\ loop' = [loop EXCEPT ![p] = Len(queue)]
  /\ QueueGoto(p, "x_count")
  /\ UNCHANGED <<count, closed, sem_items, seen>>

\* The end of a turn of its loop, or of the call.
ClearGoesOn(p, left) ==
  IF left > 0 THEN QueueGoto(p, "x_try") /\ UNCHANGED lock
  ELSE QueueGoto(p, "idle") /\ lock' = Nobody

ClearCount_UnlocksFirst(p) ==
  /\ queuepc[p] = "x_count"
  /\ IF lock = p THEN lock' = Nobody /\ UNCHANGED <<count, queuepc>>
     ELSE count' = 0 /\ QueueGoto(p, IF loop[p] > 0 THEN "x_try" ELSE "idle") /\ UNCHANGED lock
  /\ UNCHANGED <<queue, closed, sem_items, seen, loop>>

ClearCount(p) ==
  /\ queuepc[p] = "x_count"
  /\ count' = 0
  /\ ClearGoesOn(p, loop[p])
  /\ UNCHANGED <<queue, closed, sem_items, seen, loop>>

\* One try_acquire() for each message removed, its result ignored.
ClearLoad(p) ==
  /\ queuepc[p] = "x_try"
  /\ IF sem_items > 0
     THEN /\ seen' = [seen EXCEPT ![p] = sem_items]
          /\ QueueGoto(p, "x_cas")
          /\ UNCHANGED <<lock, loop>>
     ELSE /\ loop' = [loop EXCEPT ![p] = @ - 1]
          /\ ClearGoesOn(p, loop[p] - 1)
          /\ UNCHANGED seen
  /\ UNCHANGED <<queue, count, closed, sem_items>>

ClearCas(p) ==
  /\ queuepc[p] = "x_cas"
  /\ sem_items' = IF sem_items = seen[p] THEN sem_items - 1 ELSE sem_items
  /\ seen' = [seen EXCEPT ![p] = 0]
  /\ loop' = [loop EXCEPT ![p] = @ - 1]
  /\ ClearGoesOn(p, loop[p] - 1)
  /\ UNCHANGED <<queue, count, closed>>

-----------------------------------------------------------------------------
QueueNext ==
  \E p \in QueueThreads :
    \/ BeginSend(p) \/ Push(p) \/ SendCount(p) \/ SendItems(p)
    \/ BeginReceive(p) \/ AcquireItem(p) \/ ReceiveRecheck(p)
    \/ TryItemLoad(p) \/ TryItemCas(p) \/ Take(p) \/ TakeCount(p)
    \/ Close(p) \/ CloseItems(p)
    \/ Clear(p) \/ ClearCount(p) \/ ClearLoad(p) \/ ClearCas(p)

QueueSpec == QueueInit /\ [][QueueNext]_queueVars

-----------------------------------------------------------------------------
(* Properties *)

Quiet == \A p \in QueueThreads : queuepc[p] \in {"idle", "r_items"}

\* receive() hands out the oldest of the most urgent messages, whatever was
\* sent, taken and cleared before.
OldestOfMostUrgent ==
  queue # <<>> =>
    LET i == find_highest_priority(queue)
    IN  \A j \in 1 .. Len(queue) :
          queue[j] <= queue[i] /\ (queue[j] = queue[i] => i <= j)

\* close() leaves the remaining messages receivable, although clear() may have
\* reset the counter and taken permits among senders on their way: once the
\* calls under way are over, a receiver is neither turned away nor blocked.
RemainingReceivable ==
  closed /\ Quiet /\ queue # <<>> => ~Drained /\ sem_items >= Len(queue)

\* len() is the number of messages in the queue when no call is under way.
LenIsExact == Quiet => count = Len(queue)

=============================================================================
