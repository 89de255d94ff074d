----------------------------- MODULE Virtqueue ------------------------------
(***************************************************************************)
(* A split virtqueue, src/src/virtio/queue.rs: the descriptor table with   *)
(* its free list, the available ring the driver fills, and the used ring   *)
(* the device fills.  The driver's calls are made under a mutex; the       *)
(* device is modelled from what the driver expects of it, and completes    *)
(* requests in any order.                                                  *)
(*                                                                         *)
(* A ring is the sequence of its entries that the other side has not       *)
(* taken: it is never overrun, as an entry is the head of a chain of its   *)
(* own and the ring has a place for each descriptor.  A descriptor that is *)
(* freed keeps its flags and its address in the code; nothing reads them,  *)
(* and here they are cleared.                                              *)
(***************************************************************************)
EXTENDS Integers, FiniteSets, Sequences

CONSTANT queue_size

\* The device offers at least one descriptor.
ASSUME QueueAssumption == queue_size \in Nat \ {0}

Descs == 0 .. queue_size - 1

VARIABLES
  next, has_next, buf,      \* VirtqDesc: next, the NEXT flag, the buffer
  free_head, num_free,
  avail,                    \* VirtqAvail, from what the device has seen on
  used,                     \* VirtqUsed, from last_used_idx on
  serving                   \* the chains the device works on

queueVars == <<next, has_next, buf, free_head, num_free, avail, used, serving>>

NoBuffer == <<>>

QueueInit ==
  /\ next = [d \in Descs |-> IF d + 1 < queue_size THEN d + 1 ELSE 0]
  /\ has_next = [d \in Descs |-> FALSE]
  /\ buf = [d \in Descs |-> NoBuffer]
  /\ free_head = 0 /\ num_free = queue_size
  /\ avail = <<>> /\ used = <<>> /\ serving = {}

\* The i-th descriptor from d on, along the next links.
Along(d) ==
  LET at[i \in 0 .. queue_size] == IF i = 0 THEN d ELSE next[at[i - 1]]
  IN  at

\* The length of the chain at head: it ends with the first descriptor that has
\* no NEXT flag.
ChainLength(head) ==
  CHOOSE n \in 1 .. queue_size :
    /\ n = queue_size \/ ~has_next[Along(head)[n - 1]]
    /\ \A i \in 1 .. n - 1 : has_next[Along(head)[i - 1]]

-----------------------------------------------------------------------------
\* The first descriptors of the free list become the chain, in that order; they
\* are linked already.  All but the last have the NEXT flag.
add_buffer_chain(bufs, total) ==
  LET at == Along(free_head)
      place(d) == CHOOSE i \in 1 .. total : at[i - 1] = d
      taken == {at[i - 1] : i \in 1 .. total}
  IN  /\ num_free >= total
      /\ has_next' = [d \in Descs |-> IF d \in taken THEN place(d) < total ELSE has_next[d]]
      /\ buf' = [d \in Descs |-> IF d \in taken THEN bufs[place(d)] ELSE buf[d]]
      /\ free_head' = at[total]
      /\ num_free' = num_free - total
      /\ avail' = Append(avail, free_head)
      /\ UNCHANGED <<next, used, serving>>

free_descriptor_chain_HeadOnly(head) ==
  /\ next' = [next EXCEPT ![head] = free_head]
  /\ free_head' = head
  /\ num_free' = num_free + 1
  /\ has_next' = [has_next EXCEPT ![head] = FALSE]
  /\ buf' = [buf EXCEPT ![head] = NoBuffer]

\* The chain is pushed on the free list from its head on, so it is reversed.
free_descriptor_chain(head) ==
  LET at == Along(head)
      n == ChainLength(head)
      freed == {at[i - 1] : i \in 1 .. n}
      place(d) == CHOOSE i \in 1 .. n : at[i - 1] = d
  IN  /\ next' = [d \in Descs |->
                    IF d = head THEN free_head
                    ELSE IF d \in freed THEN at[place(d) - 2] ELSE next[d]]
      /\ free_head' = at[n - 1]
      /\ num_free' = num_free + n
      /\ has_next' = [d \in Descs |-> d \notin freed /\ has_next[d]]
      /\ buf' = [d \in Descs |-> IF d \in freed THEN NoBuffer ELSE buf[d]]

poll_used ==
  /\ used # <<>>
  /\ free_descriptor_chain(Head(used))
  /\ used' = Tail(used)
  /\ UNCHANGED <<avail, serving>>

-----------------------------------------------------------------------------
(* The device *)

DeviceTakes ==
  /\ avail # <<>>
  /\ serving' = serving \cup {Head(avail)}
  /\ avail' = Tail(avail)
  /\ UNCHANGED <<next, has_next, buf, free_head, num_free, used>>

DeviceReturns(head) ==
  /\ head \in serving
  /\ serving' = serving \ {head}
  /\ used' = Append(used, head)
  /\ UNCHANGED <<next, has_next, buf, free_head, num_free, avail>>

-----------------------------------------------------------------------------
(* Properties *)

\* The heads of the chains that were added and are not yet freed.
Outstanding ==
  {avail[i] : i \in 1 .. Len(avail)} \cup serving \cup {used[i] : i \in 1 .. Len(used)}

ChainDescs(head) == {Along(head)[i] : i \in 0 .. ChainLength(head) - 1}
FreeDescs == {Along(free_head)[i] : i \in 0 .. num_free - 1}

\* Every descriptor is on the free list or in one outstanding chain, and
\* num_free is the length of the list: none is lost, handed out twice or freed
\* while the device has it, in whatever order chains are returned.
DescriptorsAccounted ==
  /\ Cardinality(FreeDescs) = num_free
  /\ \A h \in Outstanding : ChainDescs(h) \cap FreeDescs = {}
  /\ \A g, h \in Outstanding : g # h => ChainDescs(g) \cap ChainDescs(h) = {}
  /\ Descs = FreeDescs \cup UNION {ChainDescs(h) : h \in Outstanding}
=============================================================================
