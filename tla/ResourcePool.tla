----------------------------- MODULE ResourcePool ---------------------------
(***************************************************************************)
(* Semaphore and ResourcePool of src/src/sync/semaphore.rs: a counting     *)
(* semaphore and, for each slot of the pool, a flag `available' and a      *)
(* resource.  Every atomic operation is a step.                            *)
(***************************************************************************)
EXTENDS Integers, ThreadSet

CONSTANTS
  N,       \* slots of the pool
  Refill   \* TRUE when callers also add to a pool that is in use

ASSUME PoolAssumption == N \in Nat

VARIABLES
  permits,   \* of the semaphore
  available, \* the slots whose flag is set
  filled,    \* the slots whose resource is Some
  poolpc,
  poolseen,  \* the count that a thread has loaded
  index      \* the slot at hand: the next of a loop, or that of the guard

poolVars == <<permits, available, filled, poolpc, poolseen, index>>

Slots == 1 .. N

PoolInit ==
  /\ permits = 0
  /\ available = {} /\ filled = {}
  /\ poolpc = [t \in Threads |-> "idle"]
  /\ poolseen = [t \in Threads |-> 0]
  /\ index = [t \in Threads |-> 0]

PoolAt(t, label) == poolpc[t] = label
PoolGoto(t, label) == poolpc' = [poolpc EXCEPT ![t] = label]
Go(t, label, i) == PoolGoto(t, label) /\ index' = [index EXCEPT ![t] = i]

-----------------------------------------------------------------------------
(* Semaphore *)

\* acquire() loads the count until it is positive; try_acquire() once.
Load(t) ==
  /\ \/ /\ PoolAt(t, "acquire")
        /\ PoolGoto(t, IF permits > 0 THEN "acquire_cas" ELSE "acquire")
     \/ /\ PoolAt(t, "try")
        /\ PoolGoto(t, IF permits > 0 THEN "try_cas" ELSE "idle")
  /\ poolseen' = [poolseen EXCEPT ![t] = IF permits > 0 THEN permits ELSE 0]
  /\ UNCHANGED <<permits, available, filled, index>>

CompareExchange_Stale(t) ==
  /\ PoolAt(t, "acquire_cas") \/ PoolAt(t, "try_cas")
  /\ permits' = poolseen[t] - 1
  /\ Go(t, IF PoolAt(t, "acquire_cas") THEN "choose" ELSE "try_choose", 1)
  /\ poolseen' = [poolseen EXCEPT ![t] = 0]
  /\ UNCHANGED <<available, filled>>

\* The compare-and-exchange: acquire() loads again when it fails, try_acquire()
\* gives up.  A thread with a permit looks for a slot.
CompareExchange(t) ==
  /\ PoolAt(t, "acquire_cas") \/ PoolAt(t, "try_cas")
  /\ IF permits = poolseen[t]
     THEN /\ permits' = permits - 1
          /\ Go(t, IF PoolAt(t, "acquire_cas") THEN "choose" ELSE "try_choose", 1)
     ELSE /\ PoolGoto(t, IF PoolAt(t, "acquire_cas") THEN "acquire" ELSE "idle")
          /\ UNCHANGED <<permits, index>>
  /\ poolseen' = [poolseen EXCEPT ![t] = 0]
  /\ UNCHANGED <<available, filled>>

\* release(), at the end of add(), of a guard and of a try_acquire() in vain.
release(t) ==
  /\ PoolAt(t, "release")
  /\ permits' = permits + 1
  /\ Go(t, "idle", 0)
  /\ UNCHANGED <<available, filled, poolseen>>

-----------------------------------------------------------------------------
(* ResourcePool *)

\* A pool is not filled and used at the same time, unless Refill.
MayAdd == Refill \/ \A t \in Threads : poolpc[t] = "idle"
MayUse == Refill \/ \A t \in Threads : poolpc[t] \notin {"add", "store", "set"}

PoolCall(t) ==
  /\ PoolAt(t, "idle")
  /\ \/ MayUse /\ PoolGoto(t, "acquire") /\ UNCHANGED index
     \/ MayUse /\ PoolGoto(t, "try") /\ UNCHANGED index
     \/ MayAdd /\ Go(t, "add", 1)
  /\ UNCHANGED <<permits, available, filled, poolseen>>

\* add() looks for a slot whose flag is not set ...
Add(t) ==
  /\ PoolAt(t, "add")
  /\ IF index[t] > N THEN Go(t, "idle", 0)
     ELSE IF index[t] \in available THEN Go(t, "add", index[t] + 1)
     ELSE PoolGoto(t, "store") /\ UNCHANGED index
  /\ UNCHANGED <<permits, available, filled, poolseen>>

\* ... stores the resource there ...
Store(t) ==
  /\ PoolAt(t, "store")
  /\ filled' = filled \union {index[t]}
  /\ PoolGoto(t, "set")
  /\ UNCHANGED <<permits, available, poolseen, index>>

\* ... and sets the flag, as the drop of a guard does; release() follows.
SetAvailable(t) ==
  /\ PoolAt(t, "set") \/ PoolAt(t, "guard")
  /\ available' = available \union {index[t]}
  /\ Go(t, "release", 0)
  /\ UNCHANGED <<permits, filled, poolseen>>

\* The loop over the slots: acquire() starts over at its end, try_acquire()
\* gives its permit back.  (The end is reached only with Refill.)
Choose(t) ==
  /\ PoolAt(t, "choose") \/ PoolAt(t, "try_choose")
  /\ LET i == index[t]
     IN  \/ i <= N /\ i \in available
            /\ available' = available \ {i} /\ Go(t, "guard", i)
         \/ i <= N /\ i \notin available
            /\ Go(t, poolpc[t], i + 1) /\ UNCHANGED available
         \/ i > N /\ PoolAt(t, "choose")
            /\ Go(t, "choose", 1) /\ UNCHANGED available
         \/ i > N /\ PoolAt(t, "try_choose")
            /\ Go(t, "release", 0) /\ UNCHANGED available
  /\ UNCHANGED <<permits, filled, poolseen>>

PoolNext == \E t \in Threads :
  Load(t) \/ CompareExchange(t) \/ release(t) \/ PoolCall(t) \/ Add(t) \/ Store(t)
  \/ SetAvailable(t) \/ Choose(t)

PoolSpec == PoolInit /\ [][PoolNext]_poolVars

-----------------------------------------------------------------------------
(* Properties *)

AtAny(labels) == {t \in Threads : poolpc[t] \in labels}

\* A slot belongs to one guard at most, holds a resource while it does (the
\* guard unwraps it) and is then not available; the permits of the semaphore,
\* those under way included, are exactly the available slots; and a thread with
\* a permit finds a slot in one pass, whatever slots others take and give back
\* behind it and ahead of it: neither loop over the slots reaches its end.
PoolConserved ==
  /\ \A t \in AtAny({"guard"}) :
       /\ index[t] \in filled \ available
       /\ \A u \in AtAny({"guard", "store", "set"}) \ {t} : index[u] # index[t]
  /\ Cardinality(available)
       = permits + Cardinality(AtAny({"choose", "try_choose", "release"}))
  /\ \A t \in AtAny({"choose", "try_choose"}) : index[t] <= N
=============================================================================
