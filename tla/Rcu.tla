--------------------------------- MODULE Rcu --------------------------------
(***************************************************************************)
(* RcuCell, RcuList and SrcuDomain of src/src/sync/rcu.rs.  Boxes are      *)
(* numbers; a freed box may be allocated again.  The cell and the list     *)
(* share the allocator and synchronize_rcu(), which waits for nobody; an   *)
(* SRCU reader uses the cell inside read_lock() ... read_unlock(), and a   *)
(* writer of that kind calls SrcuDomain::synchronize() before it frees.    *)
(***************************************************************************)
EXTENDS Integers, Sequences, Functions, Optional

CONSTANTS
  RcuThreads,
  Boxes,    \* the boxes of the heap
  Poppers   \* the threads that call pop_front(): one at most

ASSUME RcuAssumption ==
  Boxes # {} /\ None \notin Boxes /\ \A t, u \in Poppers : t = u

VARIABLES
  used,     \* what the threads use: "cell", "srcu" or "list"
  ptr,      \* of the cell, or the head of the list
  live,     \* the boxes that are allocated
  next,     \* of the nodes of the list
  rcupc,
  box,      \* the box a thread is about to publish, to free or to read
  loaded,   \* the head that it has loaded, and then what it has read there
  counters, epoch, \* of the SrcuDomain
  idx,      \* the counter a reader or a writer of the domain uses
  stack,    \* history: what the list holds, by the order of its exchanges
  freed     \* history: boxes freed while they were not allocated, or in use

rcuVars == <<used, ptr, live, next, rcupc, box, loaded, counters, epoch, idx, stack, freed>>

First == CHOOSE b \in Boxes : TRUE

RcuInit ==
  /\ used \in {"cell", "srcu", "list"}
  /\ ptr = IF used = "list" THEN None ELSE First
  /\ live = IF used = "list" THEN {} ELSE {First}
  /\ next = [b \in Boxes |-> None]
  /\ rcupc = [t \in RcuThreads |-> "idle"]
  /\ box = [t \in RcuThreads |-> None]
  /\ loaded = [t \in RcuThreads |-> None]
  /\ counters = [i \in 0 .. 1 |-> 0] /\ epoch = 0
  /\ idx = [t \in RcuThreads |-> 0]
  /\ stack = <<>>
  /\ freed = {}

RcuAt(t, label) == rcupc[t] = label
RcuGo(t, label, b) == rcupc' = [rcupc EXCEPT ![t] = label] /\ box' = [box EXCEPT ![t] = b]
domain == <<counters, epoch, idx>>

free(b) ==
  /\ live' = live \ {b}
  /\ freed' = IF b \notin live \/ b = ptr THEN freed \union {b} ELSE freed

-----------------------------------------------------------------------------
(* RcuCell *)

\* read(): the fence of rcu_read_lock() leaves no trace; the guard has the
\* pointer until it is dropped.
read(t) ==
  /\ used = "cell" /\ RcuAt(t, "idle")
  /\ RcuGo(t, "guard", ptr)
  /\ UNCHANGED <<used, ptr, live, next, loaded, domain, stack, freed>>

DropGuard(t) ==
  /\ used = "cell" /\ RcuAt(t, "guard")
  /\ RcuGo(t, "idle", None)
  /\ UNCHANGED <<used, ptr, live, next, loaded, domain, stack, freed>>

\* update() and replace(): the new value is in a box of its own; update() has
\* cloned the one it found.
Prepare(t, b) ==
  /\ used \in {"cell", "srcu"} /\ RcuAt(t, "idle")
  /\ b \notin live
  /\ live' = live \union {b}
  /\ RcuGo(t, "swap", b)
  /\ loaded' = [loaded EXCEPT ![t] = ptr]
  /\ UNCHANGED <<used, ptr, next, domain, stack, freed>>

Swap_Loaded(t) ==
  /\ RcuAt(t, "swap")
  /\ ptr' = box[t]
  /\ RcuGo(t, "synchronize", loaded[t])
  /\ loaded' = [loaded EXCEPT ![t] = None]
  /\ UNCHANGED <<used, live, next, domain, stack, freed>>

\* The exchange gives the writer the box that it replaced.
Swap(t) ==
  /\ RcuAt(t, "swap")
  /\ ptr' = box[t]
  /\ RcuGo(t, "synchronize", ptr)
  /\ loaded' = [loaded EXCEPT ![t] = None]
  /\ UNCHANGED <<used, live, next, domain, stack, freed>>

\* synchronize_rcu() is a fence and a delay.
synchronize_rcu(t) ==
  /\ used \in {"cell", "list"} /\ RcuAt(t, "synchronize")
  /\ RcuGo(t, "free", box[t])
  /\ UNCHANGED <<used, ptr, live, next, loaded, domain, stack, freed>>

Free(t) ==
  /\ RcuAt(t, "free")
  /\ free(box[t])
  /\ RcuGo(t, "idle", None)
  /\ UNCHANGED <<used, ptr, next, loaded, domain, stack>>

-----------------------------------------------------------------------------
(* SrcuDomain *)

\* read_lock(): the epoch is loaded, then its counter is incremented; the
\* reader then takes the pointer.
LoadEpoch(t) ==
  /\ used = "srcu" /\ RcuAt(t, "idle")
  /\ idx' = [idx EXCEPT ![t] = epoch]
  /\ RcuGo(t, "count", None)
  /\ UNCHANGED <<used, ptr, live, next, loaded, counters, epoch, stack, freed>>

CountReader(t) ==
  /\ RcuAt(t, "count")
  /\ counters' = [counters EXCEPT ![idx[t]] = @ + 1]
  /\ RcuGo(t, "section", None)
  /\ UNCHANGED <<used, ptr, live, next, loaded, epoch, idx, stack, freed>>

ReadInSection(t) ==
  /\ RcuAt(t, "section")
  /\ RcuGo(t, "srcu_guard", ptr)
  /\ UNCHANGED <<used, ptr, live, next, loaded, domain, stack, freed>>

read_unlock(t) ==
  /\ RcuAt(t, "srcu_guard")
  /\ counters' = [counters EXCEPT ![idx[t]] = @ - 1]
  /\ idx' = [idx EXCEPT ![t] = 0]
  /\ RcuGo(t, "idle", None)
  /\ UNCHANGED <<used, ptr, live, next, loaded, epoch, stack, freed>>

\* synchronize(): the epoch goes on (only its parity is used), and the writer
\* waits for the readers of the old one.
Flip(t) ==
  /\ used = "srcu" /\ RcuAt(t, "synchronize")
  /\ idx' = [idx EXCEPT ![t] = epoch]
  /\ epoch' = 1 - epoch
  /\ RcuGo(t, "wait", box[t])
  /\ UNCHANGED <<used, ptr, live, next, loaded, counters, stack, freed>>

Wait(t) ==
  /\ RcuAt(t, "wait") /\ counters[idx[t]] = 0
  /\ idx' = [idx EXCEPT ![t] = 0]
  /\ RcuGo(t, "free", box[t])
  /\ UNCHANGED <<used, ptr, live, next, loaded, counters, epoch, stack, freed>>

-----------------------------------------------------------------------------
(* RcuList *)

PushAlloc(t, b) ==
  /\ used = "list" /\ RcuAt(t, "idle")
  /\ b \notin live
  /\ live' = live \union {b}
  /\ RcuGo(t, "push", b)
  /\ UNCHANGED <<used, ptr, next, loaded, domain, stack, freed>>

\* push_front(): the head is loaded and stored as the next of the new node ...
PushLoad(t) ==
  /\ RcuAt(t, "push")
  /\ loaded' = [loaded EXCEPT ![t] = ptr]
  /\ next' = [next EXCEPT ![box[t]] = ptr]
  /\ RcuGo(t, "push_cas", box[t])
  /\ UNCHANGED <<used, ptr, live, domain, stack, freed>>

\* ... and the exchange succeeds if the head is still that one.
PushExchange(t) ==
  /\ RcuAt(t, "push_cas")
  /\ IF ptr = loaded[t]
     THEN ptr' = box[t] /\ stack' = <<box[t]>> \o stack /\ RcuGo(t, "idle", None)
     ELSE RcuGo(t, "push", box[t]) /\ UNCHANGED <<ptr, stack>>
  /\ loaded' = [loaded EXCEPT ![t] = None]
  /\ UNCHANGED <<used, live, next, domain, freed>>

\* pop_front(): the head is loaded, its next is read, and both are exchanged.
PopLoad(t) ==
  /\ used = "list" /\ t \in Poppers /\ RcuAt(t, "idle") /\ ptr # None
  /\ loaded' = [loaded EXCEPT ![t] = ptr]
  /\ RcuGo(t, "pop_next", None)
  /\ UNCHANGED <<used, ptr, live, next, domain, stack, freed>>

PopNext(t) ==
  /\ RcuAt(t, "pop_next")
  /\ RcuGo(t, "pop_cas", next[loaded[t]])
  /\ UNCHANGED <<used, ptr, live, next, loaded, domain, stack, freed>>

PopExchange(t) ==
  /\ RcuAt(t, "pop_cas")
  /\ IF ptr = loaded[t]
     THEN ptr' = box[t] /\ stack' = Tail(stack) /\ RcuGo(t, "synchronize", loaded[t])
     ELSE RcuGo(t, "idle", None) /\ UNCHANGED <<ptr, stack>>
  /\ loaded' = [loaded EXCEPT ![t] = None]
  /\ UNCHANGED <<used, live, next, domain, freed>>

RcuNext == \E t \in RcuThreads :
  \/ read(t) \/ DropGuard(t) \/ Swap(t) \/ synchronize_rcu(t) \/ Free(t)
  \/ LoadEpoch(t) \/ CountReader(t) \/ ReadInSection(t) \/ read_unlock(t) \/ Flip(t) \/ Wait(t)
  \/ PushLoad(t) \/ PushExchange(t) \/ PopLoad(t) \/ PopNext(t) \/ PopExchange(t)
  \/ \E b \in Boxes : Prepare(t, b) \/ PushAlloc(t, b)

RcuSpec == RcuInit /\ [][RcuNext]_rcuVars

-----------------------------------------------------------------------------
(* Properties *)

\* The nodes from the head on, each one's next being the following one.
Linked ==
  /\ ptr = IF stack = <<>> THEN None ELSE stack[1]
  /\ \A i \in 1 .. Len(stack) :
       next[stack[i]] = IF i = Len(stack) THEN None ELSE stack[i + 1]

\* With any number of concurrent writers, no box is freed twice or while the
\* cell points to it; and the nodes of the list are, in order, the ones that
\* push_front() put there and pop_front() did not take, whatever exchanges
\* failed on the way and however soon a freed node is used again, as long as
\* one thread pops.
RcuConserves ==
  /\ freed = {}
  /\ used = "list" => Linked /\ Range(stack) \subseteq live

\* "이 가드가 살아있는 동안 데이터는 해제되지 않음" (sync/rcu.rs): what a guard
\* points to is not freed while the guard lives.
GuardKeepsData == \A t \in RcuThreads : RcuAt(t, "guard") => box[t] \in live

\* "이전 epoch의 모든 reader가 끝날 때까지 대기" (sync/rcu.rs): what a reader
\* found in its section of the domain is not freed before the section ends.
SectionKeepsData == \A t \in RcuThreads : RcuAt(t, "srcu_guard") => box[t] \in live
=============================================================================
