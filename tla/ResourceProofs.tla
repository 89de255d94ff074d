--------------------------- MODULE ResourceProofs ---------------------------
(***************************************************************************)
(* What is handed out and given back: the descriptors of the virtqueue,    *)
(* with the block driver on it, and the slots of a pool.                   *)
(*                                                                         *)
(* The free list and the chains are paths along the next links of one      *)
(* table.  The invariant names the free list, a function from positions to *)
(* descriptors, and says that the paths do not meet and together are the   *)
(* table; add_buffer_chain() cuts three descriptors off the list and       *)
(* free_descriptor_chain() reverses three onto it.                         *)
(*                                                                         *)
(* In the pool the permits are counted against the slots, and the slots    *)
(* ahead of a thread against the threads that look for one there.          *)
(***************************************************************************)
EXTENDS VirtioBlk, ResourcePool, FiniteSetTheorems, WellFoundedInduction, TLAPS

\* A set of natural numbers that is not empty has a least element.
LEMMA LeastNumber ==
  ASSUME NEW T \in SUBSET Nat, T # {}
  PROVE  \E x \in T : \A y \in T : x <= y
<1> DEFINE Less == OpToRel(<, Nat)
<1>1. IsWellFoundedOn(Less, Nat)
  BY NatLessThanWellFounded, Zenon
<1>2. \A a, b \in Nat : a < b => <<a, b>> \in Less
  BY DEF OpToRel
<1> HIDE DEF Less
<1>3. PICK x \in T : \A y \in T : ~ (<<y, x>> \in Less)
  BY <1>1, WFMin, Zenon
<1>4. \A y \in T : x <= y
  <2> TAKE y \in T
  <2>1. x \in Nat /\ y \in Nat
    OBVIOUS
  <2>2. ~ (y < x)
    BY <1>2, <1>3, <2>1, Zenon
  <2> QED BY <2>1, <2>2
<1> QED BY <1>4

-----------------------------------------------------------------------------
(* The virtqueue *)

\* f follows the links of nx from d on, m times.
Follows(f, nx, d, m) ==
  /\ DOMAIN f = 0 .. m /\ f = [i \in 0 .. m |-> f[i]]
  /\ f[0] = d
  /\ \A i \in 1 .. m : f[i] = nx[f[i - 1]]

\* Links can be followed any number of times.
LEMMA LinksCanBeFollowed ==
  ASSUME NEW nx, NEW d
  PROVE  \A m \in Nat : \E f : Follows(f, nx, d, m)
<1> DEFINE Bad == {m \in Nat : \A f : ~Follows(f, nx, d, m)}
<1> SUFFICES ASSUME Bad # {} PROVE FALSE
  OBVIOUS
<1>1. PICK m \in Bad : \A k \in Bad : m <= k
  <2>1. Bad \subseteq Nat
    OBVIOUS
  <2> HIDE DEF Bad
  <2> QED BY <2>1, LeastNumber
<1>2. m # 0
  <2>1. Follows([i \in 0 .. 0 |-> d], nx, d, 0)
    BY DEF Follows
  <2> QED BY <2>1
<1>3. m - 1 \in Nat /\ ~(m <= m - 1)
  BY <1>2
<1>4. PICK f : Follows(f, nx, d, m - 1)
  BY <1>1, <1>3
<1> DEFINE g == [i \in 0 .. m |-> IF i = m THEN nx[f[m - 1]] ELSE f[i]]
<1>5. DOMAIN g = 0 .. m /\ g = [i \in 0 .. m |-> g[i]]
  OBVIOUS
<1>6. g[0] = d
  BY <1>2, <1>4 DEF Follows
<1>7. ASSUME NEW i \in 1 .. m PROVE g[i] = nx[g[i - 1]]
  <2>1. g[i - 1] = f[i - 1]
    BY <1>3
  <2>2. CASE i = m
    BY <2>1, <2>2
  <2>3. CASE i # m
    <3>1. i \in 1 .. m - 1 /\ g[i] = f[i]
      BY <1>3, <2>3
    <3> QED BY <1>4, <2>1, <3>1, Zenon DEF Follows
  <2> QED BY <2>2, <2>3
<1>8. Follows(g, nx, d, m)
  <2> HIDE DEF g
  <2> QED BY <1>5, <1>6, <1>7, Zenon DEF Follows
<1> QED BY <1>8

\* Along() follows the next links: the recursion that defines it has a solution.
LEMMA AlongFollows ==
  ASSUME NEW d
  PROVE  Along(d)[0] = d /\ \A i \in 1 .. queue_size : Along(d)[i] = next[Along(d)[i - 1]]
<1> DEFINE Loop(f) == [i \in 0 .. queue_size |-> IF i = 0 THEN d ELSE next[f[i - 1]]]
           at == CHOOSE f : f = Loop(f)
<1>1. Along(d) = at
  BY DEF Along
<1>2. PICK f : Follows(f, next, d, queue_size)
  BY QueueAssumption, LinksCanBeFollowed
<1>3. f = Loop(f)
  <2>1. \A i \in 0 .. queue_size : f[i] = Loop(f)[i]
    <3> SUFFICES ASSUME NEW i \in 0 .. queue_size PROVE f[i] = IF i = 0 THEN d ELSE next[f[i - 1]]
      OBVIOUS
    <3>1. i = 0 \/ i \in 1 .. queue_size
      OBVIOUS
    <3> QED BY <1>2, <3>1, Zenon DEF Follows
  <2>2. f = [i \in 0 .. queue_size |-> f[i]]
    BY <1>2 DEF Follows
  <2> QED BY <2>1, <2>2
<1>4. at = Loop(at)
  <2> HIDE DEF Loop
  <2> QED BY <1>3
<1> HIDE DEF at
<1>5. at[0] = d
  <2>1. at[0] = Loop(at)[0]
    BY <1>4, Zenon
  <2>2. 0 \in 0 .. queue_size
    BY QueueAssumption
  <2> QED BY <2>1, <2>2
<1>6. ASSUME NEW i \in 1 .. queue_size PROVE at[i] = next[at[i - 1]]
  <2>1. at[i] = Loop(at)[i]
    BY <1>4
  <2>2. i \in 0 .. queue_size /\ i # 0
    BY QueueAssumption
  <2> QED BY <2>1, <2>2
<1> QED BY <1>1, <1>5, <1>6

\* The free list, from its head on.
FreeList(fl) ==
  /\ fl \in [1 .. num_free -> Descs]
  /\ \A i, j \in 1 .. num_free : fl[i] = fl[j] => i = j
  /\ num_free > 0 => free_head = fl[1]
  /\ \A i \in 1 .. num_free - 1 : next[fl[i]] = fl[i + 1]

\* The chain of a request has three descriptors: these.
Chain(h) == {h, next[h], next[next[h]]}

\* At h is the chain of one request: the header, the data and the status of a
\* call, the last descriptor without the NEXT flag.
RequestAt(h) ==
  /\ h \in Descs /\ next[h] # h /\ next[next[h]] # h /\ next[next[h]] # next[h]
  /\ has_next[h] /\ has_next[next[h]] /\ ~has_next[next[next[h]]]
  /\ \E p \in Threads, n \in 1 .. MaxCalls :
       /\ buf[h] = <<p, n, "header">>
       /\ buf[next[h]] = <<p, n, "data">>
       /\ buf[next[next[h]]] = <<p, n, "status">>

\* Every descriptor is in one place: on the free list or in one chain.
Placed(fl) ==
  /\ \A g, h \in Outstanding : g # h => Chain(g) \cap Chain(h) = {}
  /\ \A h \in Outstanding : \A i \in 1 .. num_free : fl[i] \notin Chain(h)
  /\ \A d \in Descs : \/ \E i \in 1 .. num_free : fl[i] = d
                      \/ \E h \in Outstanding : d \in Chain(h)

\* A head is once in one of the rings.
Rings ==
  /\ avail \in Seq(Descs) /\ used \in Seq(Descs) /\ serving \subseteq Descs
  /\ \A i, j \in 1 .. Len(avail) : avail[i] = avail[j] => i = j
  /\ \A i, j \in 1 .. Len(used) : used[i] = used[j] => i = j
  /\ \A i \in 1 .. Len(avail) : avail[i] \notin serving
  /\ \A i \in 1 .. Len(used) : used[i] \notin serving
  /\ \A i \in 1 .. Len(avail), j \in 1 .. Len(used) : avail[i] # used[j]

\* The table and the head of the free list are well-formed.
Descriptors ==
  /\ next \in [Descs -> Descs]
  /\ free_head \in Descs /\ num_free \in Nat

\* The inductive invariant of the virtqueue.
RingInv ==
  /\ Descriptors /\ Rings /\ calls \in Nat
  /\ \A h \in Outstanding : RequestAt(h)
  /\ \E fl : FreeList(fl) /\ Placed(fl)

\* The free list is no longer than the table.
LEMMA FreeIsBounded ==
  ASSUME Descriptors, NEW fl, FreeList(fl)
  PROVE  num_free <= queue_size
<1>1. num_free \in Nat /\ queue_size \in Nat \ {0}
  BY QueueAssumption DEF Descriptors
<1>2. fl \in Injection(1 .. num_free, Descs)
  BY DEF FreeList, Injection, IsInjective
<1>3. IsFiniteSet(Descs) /\ Cardinality(Descs) = queue_size
  <2>1. /\ IsFiniteSet(0 .. queue_size - 1)
        /\ Cardinality(0 .. queue_size - 1)
             = IF 0 > queue_size - 1 THEN 0 ELSE (queue_size - 1) - 0 + 1
    BY <1>1, FS_Interval
  <2> QED BY <1>1, <2>1 DEF Descs
<1>4. Cardinality(1 .. num_free) = num_free
  <2>1. Cardinality(1 .. num_free) = IF 1 > num_free THEN 0 ELSE num_free - 1 + 1
    BY <1>1, FS_Interval
  <2> QED BY <1>1, <2>1
<1>5. Cardinality(1 .. num_free) <= Cardinality(Descs)
  BY <1>2, <1>3, FS_Injection
<1> QED BY <1>3, <1>4, <1>5

\* The free list as add_buffer_chain() sees it.
LEMMA FreeAlong ==
  ASSUME Descriptors, NEW fl, FreeList(fl)
  PROVE  \A i \in 1 .. num_free : Along(free_head)[i - 1] = fl[i]
<1> PICK at : at = Along(free_head)
  OBVIOUS
<1>1. at[0] = free_head /\ \A i \in 1 .. queue_size : at[i] = next[at[i - 1]]
  BY AlongFollows
<1> DEFINE Bad == {i \in 1 .. num_free : at[i - 1] # fl[i]}
<1> SUFFICES ASSUME Bad # {} PROVE FALSE
  OBVIOUS
<1>2. PICK i \in Bad : \A k \in Bad : i <= k
  <2>1. Bad \subseteq Nat
    BY DEF Descriptors
  <2> HIDE DEF Bad
  <2> QED BY <2>1, LeastNumber
<1>3. i \in 1 .. num_free /\ num_free \in Nat /\ at[i - 1] # fl[i]
  BY DEF Descriptors
<1>4. i # 1
  BY <1>1, <1>3 DEF FreeList
<1>5. /\ i - 1 \in 1 .. num_free /\ i - 1 \in 1 .. num_free - 1 /\ i - 1 \in 1 .. queue_size
      /\ ~(i <= i - 1) /\ (i - 1) + 1 = i
  BY <1>3, <1>4, FreeIsBounded, QueueAssumption
<1>6. at[(i - 1) - 1] = fl[i - 1]
  BY <1>2, <1>5
<1>7. at[i - 1] = next[fl[i - 1]]
  BY <1>1, <1>5, <1>6
<1>8. next[fl[i - 1]] = fl[i]
  BY <1>5 DEF FreeList
<1> QED BY <1>3, <1>7, <1>8

\* A chain as the device and free_descriptor_chain() see it.
LEMMA ChainAlong ==
  ASSUME Descriptors, NEW h, RequestAt(h)
  PROVE  /\ queue_size >= 3
         /\ Along(h)[0] = h /\ Along(h)[1] = next[h] /\ Along(h)[2] = next[next[h]]
         /\ ChainLength(h) = 3
         /\ ChainDescs(h) = Chain(h)
<1> PICK at : at = Along(h)
  OBVIOUS
<1>1. h \in Descs /\ next[h] \in Descs /\ next[next[h]] \in Descs
  BY DEF RequestAt, Descriptors
<1>2. queue_size >= 3
  BY <1>1, QueueAssumption DEF RequestAt, Descs
<1>3. at[0] = h /\ at[1] = next[h] /\ at[2] = next[next[h]]
  <2>1. at[0] = h /\ \A i \in 1 .. queue_size : at[i] = next[at[i - 1]]
    BY AlongFollows
  <2>2. at[1] = next[at[1 - 1]] /\ at[2] = next[at[2 - 1]] /\ 1 - 1 = 0 /\ 2 - 1 = 1
    BY <1>2, <2>1, QueueAssumption
  <2> QED BY <2>1, <2>2
<1> DEFINE Ends(n) == /\ n = queue_size \/ ~has_next[at[n - 1]]
                      /\ \A i \in 1 .. n - 1 : has_next[at[i - 1]]
<1>4. ChainLength(h) = CHOOSE n \in 1 .. queue_size : Ends(n)
  BY DEF ChainLength
<1>5. \A i \in 1 .. 2 : has_next[at[i - 1]]
  BY <1>3 DEF RequestAt
<1>6. ~has_next[at[2]]
  BY <1>3 DEF RequestAt
<1>7. 3 \in 1 .. queue_size /\ Ends(3)
  BY <1>2, <1>5, <1>6, QueueAssumption
<1>8. ASSUME NEW n \in 1 .. queue_size, Ends(n) PROVE n = 3
  <2>1. ~(n > 3)
    <3> SUFFICES ASSUME n > 3 PROVE FALSE
      OBVIOUS
    <3>1. 3 \in 1 .. n - 1
      OBVIOUS
    <3>2. has_next[at[3 - 1]]
      BY <1>8, <3>1
    <3> QED BY <1>6, <3>2
  <2>2. ~(n < 3)
    <3> SUFFICES ASSUME n < 3 PROVE FALSE
      OBVIOUS
    <3>1. n \in 1 .. 2 /\ n # queue_size
      BY <1>2, QueueAssumption
    <3> QED BY <1>5, <1>8, <3>1
  <2> QED BY <2>1, <2>2, QueueAssumption
<1>9. ChainLength(h) = 3
  <2> HIDE DEF Ends
  <2> QED BY <1>4, <1>7, <1>8
<1>10. ChainDescs(h) = Chain(h)
  <2>1. ChainDescs(h) = {at[i] : i \in 0 .. 2}
    BY <1>9 DEF ChainDescs
  <2>2. 0 .. 2 = {0, 1, 2}
    OBVIOUS
  <2> QED BY <1>3, <2>1, <2>2 DEF Chain
<1> QED BY <1>2, <1>3, <1>9, <1>10

\* add_buffer_chain() takes the first three free descriptors, which become the
\* chain of a request that was not outstanding.
LEMMA AddKeepsRing ==
  ASSUME RingInv, NEW p \in Threads, NEW n \in 1 .. MaxCalls,
         add_buffer_chain(Buffers(p, n), 3), calls' \in Nat
  PROVE  RingInv' /\ free_head \notin Outstanding /\ Outstanding' = Outstanding \cup {free_head}
<1> PICK at : at = Along(free_head)
  OBVIOUS
<1> PICK bufs : bufs = Buffers(p, n)
  OBVIOUS
<1> PICK fl : FreeList(fl) /\ Placed(fl)
  BY DEF RingInv
<1> DEFINE place(d) == CHOOSE i \in 1 .. 3 : at[i - 1] = d
           taken == {at[i - 1] : i \in 1 .. 3}
<1>1. /\ num_free >= 3
      /\ has_next' = [d \in Descs |-> IF d \in taken THEN place(d) < 3 ELSE has_next[d]]
      /\ buf' = [d \in Descs |-> IF d \in taken THEN bufs[place(d)] ELSE buf[d]]
      /\ free_head' = at[3]
      /\ num_free' = num_free - 3
      /\ avail' = Append(avail, free_head)
      /\ next' = next /\ used' = used /\ serving' = serving
  BY DEF add_buffer_chain
<1>2. num_free \in Nat /\ queue_size \in Nat /\ queue_size >= 3
  BY <1>1, FreeIsBounded, QueueAssumption DEF RingInv, Descriptors
<1>3. PICK a, b, c : a = fl[1] /\ b = fl[2] /\ c = fl[3]
  OBVIOUS
<1>4. a \in Descs /\ b \in Descs /\ c \in Descs /\ a # b /\ a # c /\ b # c
  <2>1. 1 \in 1 .. num_free /\ 2 \in 1 .. num_free /\ 3 \in 1 .. num_free
    BY <1>1, <1>2
  <2> QED BY <1>3, <2>1 DEF FreeList
<1>5. free_head = a /\ next[a] = b /\ next[b] = c
  <2>1. 1 \in 1 .. num_free - 1 /\ 2 \in 1 .. num_free - 1 /\ num_free > 0 /\ 1 + 1 = 2 /\ 2 + 1 = 3
    BY <1>1, <1>2
  <2> QED BY <1>3, <2>1 DEF FreeList
<1>6. at[0] = a /\ at[1] = b /\ at[2] = c /\ at[3] = next[c]
  <2>1. at[0] = free_head /\ \A i \in 1 .. queue_size : at[i] = next[at[i - 1]]
    BY AlongFollows
  <2>2. at[1] = next[at[1 - 1]] /\ at[2] = next[at[2 - 1]] /\ at[3] = next[at[3 - 1]]
    BY <1>2, <2>1
  <2>3. 1 - 1 = 0 /\ 2 - 1 = 1 /\ 3 - 1 = 2
    OBVIOUS
  <2> QED BY <1>5, <2>1, <2>2, <2>3
<1>7. taken = {a, b, c}
  <2>1. 1 .. 3 = {1, 2, 3}
    OBVIOUS
  <2>2. taken = {at[1 - 1], at[2 - 1], at[3 - 1]}
    BY <2>1
  <2>3. 1 - 1 = 0 /\ 2 - 1 = 1 /\ 3 - 1 = 2
    OBVIOUS
  <2> QED BY <1>6, <2>2, <2>3
<1>8. place(a) = 1 /\ place(b) = 2 /\ place(c) = 3
  <2>1. \A i \in 1 .. 3 : /\ at[i - 1] = a <=> i = 1
                          /\ at[i - 1] = b <=> i = 2
                          /\ at[i - 1] = c <=> i = 3
    <3>1. \A i \in 1 .. 3 : i = 1 \/ i = 2 \/ i = 3
      OBVIOUS
    <3>2. 1 - 1 = 0 /\ 2 - 1 = 1 /\ 3 - 1 = 2
      OBVIOUS
    <3> QED BY <1>4, <1>6, <3>1, <3>2
  <2> QED BY <2>1
<1> HIDE DEF place, taken
<1>9. /\ has_next'[a] /\ has_next'[b] /\ ~has_next'[c]
      /\ \A d \in Descs \ {a, b, c} : has_next'[d] = has_next[d]
  <2>2. ASSUME NEW d \in Descs
        PROVE  has_next'[d] = IF d \in {a, b, c} THEN place(d) < 3 ELSE has_next[d]
    BY <1>1, <1>7
  <2>3. 1 < 3 /\ 2 < 3 /\ ~(3 < 3)
    OBVIOUS
  <2>4. has_next'[a] /\ has_next'[b] /\ ~has_next'[c]
    BY <1>4, <1>8, <2>2, <2>3, Zenon
  <2>5. \A d \in Descs \ {a, b, c} : has_next'[d] = has_next[d]
    BY <2>2
  <2> QED BY <2>4, <2>5
<1>10. /\ buf'[a] = <<p, n, "header">> /\ buf'[b] = <<p, n, "data">> /\ buf'[c] = <<p, n, "status">>
       /\ \A d \in Descs \ {a, b, c} : buf'[d] = buf[d]
  <2>1. bufs[1] = <<p, n, "header">> /\ bufs[2] = <<p, n, "data">> /\ bufs[3] = <<p, n, "status">>
    BY Zenon DEF Buffers
  <2> QED BY <1>1, <1>4, <1>7, <1>8, <2>1
<1>11. Descriptors'
  BY <1>1, <1>2, <1>4, <1>6 DEF RingInv, Descriptors
<1>12. /\ avail' \in Seq(Descs) /\ Len(avail') = Len(avail) + 1 /\ Len(avail) \in Nat
       /\ \A i \in 1 .. Len(avail) : avail'[i] = avail[i]
       /\ avail'[Len(avail) + 1] = a
  BY <1>1, <1>4, <1>5 DEF RingInv, Rings
<1>13. a \notin Outstanding
  <2>1. 1 \in 1 .. num_free
    BY <1>1, <1>2
  <2> QED BY <1>3, <2>1, Zenon DEF Placed, Chain
<1>14. Outstanding' = Outstanding \cup {a}
  <2>1. {avail'[i] : i \in 1 .. Len(avail')} = {avail[i] : i \in 1 .. Len(avail)} \cup {a}
    BY <1>12
  <2> QED BY <1>1, <2>1, Zenon DEF Outstanding
<1>15. Rings'
  <2>1. /\ a \notin serving /\ \A i \in 1 .. Len(avail) : avail[i] # a
        /\ \A i \in 1 .. Len(used) : used[i] # a
    BY <1>13 DEF Outstanding
  <2>2. \A i \in 1 .. Len(avail') : i \in 1 .. Len(avail) \/ i = Len(avail) + 1
    BY <1>12
  <2>3. /\ avail' \in Seq(Descs) /\ used' \in Seq(Descs) /\ serving' \subseteq Descs
        /\ \A i, j \in 1 .. Len(used') : used'[i] = used'[j] => i = j
        /\ \A i \in 1 .. Len(used') : used'[i] \notin serving'
    BY <1>1, <1>12 DEF RingInv, Rings
  <2>4. \A i, j \in 1 .. Len(avail') : avail'[i] = avail'[j] => i = j
    BY <1>12, <2>1, <2>2, Zenon DEF RingInv, Rings
  <2>5. \A i \in 1 .. Len(avail') : avail'[i] \notin serving'
    BY <1>1, <1>12, <2>1, <2>2 DEF RingInv, Rings
  <2>6. \A i \in 1 .. Len(avail'), j \in 1 .. Len(used') : avail'[i] # used'[j]
    BY <1>1, <1>12, <2>1, <2>2 DEF RingInv, Rings
  <2> QED BY <2>3, <2>4, <2>5, <2>6, SMTT(30) DEF Rings
<1>16. ASSUME NEW h \in Outstanding
       PROVE  /\ RequestAt(h)' /\ Chain(h)' = Chain(h)
              /\ a \notin Chain(h) /\ b \notin Chain(h) /\ c \notin Chain(h)
  <2>1. RequestAt(h)
    BY DEF RingInv
  <2>2. 1 \in 1 .. num_free /\ 2 \in 1 .. num_free /\ 3 \in 1 .. num_free
    BY <1>1, <1>2
  <2>3. a \notin Chain(h) /\ b \notin Chain(h) /\ c \notin Chain(h)
    BY <1>3, <2>2, Zenon DEF Placed
  <2>4. h \in Descs /\ next[h] \in Descs /\ next[next[h]] \in Descs
    BY <2>1 DEF RequestAt, RingInv, Descriptors
  <2>5. {h, next[h], next[next[h]]} \subseteq Descs \ {a, b, c}
    BY <2>3, <2>4 DEF Chain
  <2>6. RequestAt(h)'
    <3>1. \A d \in Chain(h) : has_next'[d] = has_next[d] /\ buf'[d] = buf[d] /\ next'[d] = next[d]
      BY <1>1, <1>9, <1>10, <2>5, Zenon DEF Chain
    <3>2. /\ has_next'[h] = has_next[h] /\ has_next'[next[h]] = has_next[next[h]]
          /\ has_next'[next[next[h]]] = has_next[next[next[h]]]
          /\ buf'[h] = buf[h] /\ buf'[next[h]] = buf[next[h]]
          /\ buf'[next[next[h]]] = buf[next[next[h]]]
      BY <3>1, Zenon DEF Chain
    <3> QED BY <1>1, <2>1, <3>2, Zenon DEF RequestAt
  <2> QED BY <1>1, <2>3, <2>6 DEF Chain
<1>17. RequestAt(a)' /\ Chain(a)' = {a, b, c}
  BY <1>1, <1>4, <1>5, <1>9, <1>10 DEF RequestAt, Chain
<1> PICK g : g = [i \in 1 .. num_free - 3 |-> fl[i + 3]]
  BY Zenon
<1>18. /\ \A i \in 1 .. num_free - 3 : i + 3 \in 1 .. num_free /\ g[i] = fl[i + 3]
       /\ \A i \in 1 .. num_free : \/ i = 1 \/ i = 2 \/ i = 3
                                   \/ i - 3 \in 1 .. num_free - 3 /\ (i - 3) + 3 = i
  BY <1>1, <1>2
<1>19. g \in [1 .. num_free' -> Descs]
  <2>1. \A i \in 1 .. num_free - 3 : fl[i + 3] \in Descs
    BY <1>18 DEF FreeList
  <2> QED BY <1>1, <2>1
<1>20. FreeList(g)'
  <2>1. \A i, j \in 1 .. num_free' : g[i] = g[j] => i = j
    <3> SUFFICES ASSUME NEW i \in 1 .. num_free - 3, NEW j \in 1 .. num_free - 3, g[i] = g[j]
                 PROVE  i = j
      BY <1>1
    <3>1. i + 3 = j + 3
      BY <1>18 DEF FreeList
    <3> QED BY <1>2, <3>1
  <2>2. num_free' > 0 => free_head' = g[1]
    <3> SUFFICES ASSUME num_free > 3 PROVE at[3] = g[1]
      BY <1>1, <1>2
    <3>1. 3 \in 1 .. num_free - 1 /\ 3 + 1 = 1 + 3 /\ 1 \in 1 .. num_free - 3
      BY <1>2
    <3>2. next[c] = fl[3 + 1]
      BY <1>3, <3>1 DEF FreeList
    <3> QED BY <1>6, <1>18, <3>1, <3>2, Zenon
  <2>3. \A i \in 1 .. num_free' - 1 : next'[g[i]] = g[i + 1]
    <3> SUFFICES ASSUME NEW i \in 1 .. (num_free - 3) - 1 PROVE next[g[i]] = g[i + 1]
      BY <1>1, Zenon
    <3>1. /\ i \in 1 .. num_free - 3 /\ i + 1 \in 1 .. num_free - 3
          /\ i + 3 \in 1 .. num_free - 1 /\ (i + 1) + 3 = (i + 3) + 1
      BY <1>2
    <3>2. next[fl[i + 3]] = fl[(i + 3) + 1]
      BY <3>1 DEF FreeList
    <3> QED BY <1>18, <3>1, <3>2
  <2> QED BY <1>19, <2>1, <2>2, <2>3, Zenon DEF FreeList
<1>21. Placed(g)'
  <2>1. ASSUME NEW x \in Outstanding', NEW y \in Outstanding', x # y
        PROVE  Chain(x)' \cap Chain(y)' = {}
    BY <1>14, <1>16, <1>17, <2>1 DEF Placed
  <2>2. ASSUME NEW x \in Outstanding', NEW i \in 1 .. num_free' PROVE g[i] \notin Chain(x)'
    <3>1. i \in 1 .. num_free - 3 /\ i + 3 \in 1 .. num_free /\ g[i] = fl[i + 3]
      BY <1>1, <1>18
    <3>2. i + 3 # 1 /\ i + 3 # 2 /\ i + 3 # 3
      BY <1>2, <3>1
    <3>3. g[i] # a /\ g[i] # b /\ g[i] # c
      <4>1. 1 \in 1 .. num_free /\ 2 \in 1 .. num_free /\ 3 \in 1 .. num_free
        BY <1>1, <1>2
      <4> QED BY <1>3, <3>1, <3>2, <4>1, Zenon DEF FreeList
    <3> QED BY <1>14, <1>16, <1>17, <3>1, <3>3 DEF Placed
  <2>3. ASSUME NEW d \in Descs
        PROVE  \/ \E i \in 1 .. num_free' : g[i] = d
               \/ \E h \in Outstanding' : d \in Chain(h)'
    <3>1. CASE \E h \in Outstanding : d \in Chain(h)
      BY <1>14, <1>16, <3>1
    <3>2. CASE d \in {a, b, c}
      BY <1>14, <1>17, <3>2, SMTT(30)
    <3>3. CASE \E i \in 1 .. num_free : fl[i] = d /\ d \notin {a, b, c}
      <4>1. PICK i \in 1 .. num_free : fl[i] = d /\ d \notin {a, b, c}
        BY <3>3
      <4>2. i - 3 \in 1 .. num_free - 3 /\ (i - 3) + 3 = i
        BY <1>3, <1>18, <4>1
      <4>3. g[i - 3] = d
        BY <1>18, <4>1, <4>2
      <4> QED BY <1>1, <4>2, <4>3, Zenon
    <3> QED BY <3>1, <3>2, <3>3, Zenon DEF Placed
  <2> QED BY <2>1, <2>2, <2>3 DEF Placed
<1>22. \A h \in Outstanding' : RequestAt(h)'
  BY <1>14, <1>16, <1>17
<1>23. RingInv'
  BY <1>11, <1>15, <1>20, <1>21, <1>22 DEF RingInv
<1> QED BY <1>5, <1>13, <1>14, <1>23

\* poll_used() puts the three descriptors of a chain back on the free list, and
\* that chain is no longer outstanding.
LEMMA FreeKeepsRing ==
  ASSUME RingInv, poll_used, calls' \in Nat
  PROVE  /\ RingInv'
         /\ \E a \in Outstanding : Outstanding' = Outstanding \ {a}
<1> PICK fl : FreeList(fl) /\ Placed(fl)
  BY DEF RingInv
<1>1. used \in Seq(Descs) /\ used # <<>>
  BY DEF RingInv, Rings, poll_used
<1>2. PICK a : a = Head(used)
  OBVIOUS
<1>3. /\ a = used[1] /\ 1 \in 1 .. Len(used) /\ Len(used) \in Nat
      /\ Tail(used) \in Seq(Descs) /\ Len(Tail(used)) = Len(used) - 1
      /\ \A i \in 1 .. Len(used) - 1 : Tail(used)[i] = used[i + 1]
  BY <1>1, <1>2
<1>4. a \in Outstanding
  BY <1>3 DEF Outstanding
<1>5. RequestAt(a) /\ Descriptors
  BY <1>4 DEF RingInv
<1>6. PICK b, c : b = next[a] /\ c = next[b]
  OBVIOUS
<1>7. a \in Descs /\ b \in Descs /\ c \in Descs /\ a # b /\ a # c /\ b # c /\ Chain(a) = {a, b, c}
  BY <1>5, <1>6 DEF RequestAt, Descriptors, Chain
<1> PICK at : at = Along(a)
  OBVIOUS
<1>8. at[0] = a /\ at[1] = b /\ at[2] = c /\ ChainLength(a) = 3
  BY <1>5, <1>6, ChainAlong, Zenon
<1> DEFINE freed == {at[i - 1] : i \in 1 .. 3}
           place(d) == CHOOSE i \in 1 .. 3 : at[i - 1] = d
<1>9. /\ next' = [d \in Descs |-> IF d = a THEN free_head
                                  ELSE IF d \in freed THEN at[place(d) - 2] ELSE next[d]]
      /\ free_head' = at[3 - 1]
      /\ num_free' = num_free + 3
      /\ has_next' = [d \in Descs |-> d \notin freed /\ has_next[d]]
      /\ buf' = [d \in Descs |-> IF d \in freed THEN NoBuffer ELSE buf[d]]
      /\ used' = Tail(used) /\ avail' = avail /\ serving' = serving
  <2>1. /\ free_descriptor_chain(a)
        /\ used' = Tail(used) /\ avail' = avail /\ serving' = serving
    BY <1>2, Zenon DEF poll_used
  <2>2. PICK m : m = ChainLength(a)
    OBVIOUS
  <2>3. m = 3
    BY <1>8, <2>2
  <2> QED BY <2>1, <2>2, <2>3 DEF free_descriptor_chain
<1>10. freed = {a, b, c}
  <2>1. 1 .. 3 = {1, 2, 3}
    OBVIOUS
  <2>2. freed = {at[1 - 1], at[2 - 1], at[3 - 1]}
    BY <2>1
  <2>3. 1 - 1 = 0 /\ 2 - 1 = 1 /\ 3 - 1 = 2
    OBVIOUS
  <2> QED BY <1>8, <2>2, <2>3
<1>11. place(b) = 2 /\ place(c) = 3
  <2>1. \A i \in 1 .. 3 : (at[i - 1] = b <=> i = 2) /\ (at[i - 1] = c <=> i = 3)
    <3>1. \A i \in 1 .. 3 : i = 1 \/ i = 2 \/ i = 3
      OBVIOUS
    <3>2. 1 - 1 = 0 /\ 2 - 1 = 1 /\ 3 - 1 = 2
      OBVIOUS
    <3> QED BY <1>7, <1>8, <3>1, <3>2
  <2> QED BY <2>1
<1> HIDE DEF place, freed
<1>12. /\ next'[a] = free_head /\ next'[b] = a /\ next'[c] = b /\ free_head' = c
       /\ next' \in [Descs -> Descs]
       /\ \A d \in Descs \ {a, b, c} : /\ next'[d] = next[d] /\ buf'[d] = buf[d]
                                       /\ has_next'[d] <=> has_next[d]
  <2>1. 2 - 2 = 0 /\ 3 - 2 = 1 /\ 3 - 1 = 2
    OBVIOUS
  <2>2. /\ next'[a] = free_head /\ next'[b] = a /\ next'[c] = b /\ free_head' = c
        /\ \A d \in Descs \ {a, b, c} : next'[d] = next[d]
    BY <1>7, <1>8, <1>9, <1>10, <1>11, <2>1, Zenon
  <2>3. \A d \in Descs \ {a, b, c} : buf'[d] = buf[d]
    BY <1>9, <1>10
  <2>4. \A d \in Descs \ {a, b, c} : has_next'[d] <=> has_next[d]
    BY <1>9, <1>10, Zenon
  <2>5. \A d \in Descs : next'[d] \in Descs
    BY <1>5, <1>7, <2>2, Zenon DEF Descriptors
  <2>6. next' \in [Descs -> Descs]
    BY <1>9, <2>5
  <2> QED BY <2>2, <2>3, <2>4, <2>6
<1>13. num_free \in Nat /\ num_free' = num_free + 3
  BY <1>5, <1>9 DEF Descriptors
<1>14. Descriptors'
  BY <1>7, <1>12, <1>13 DEF Descriptors
<1>15. /\ a \notin serving /\ \A i \in 1 .. Len(avail) : avail[i] # a
       /\ \A i \in 2 .. Len(used) : used[i] # a
  BY <1>3 DEF RingInv, Rings
<1>16. /\ Len(used') = Len(used) - 1
       /\ \A i \in 1 .. Len(used') :
            i + 1 \in 2 .. Len(used) /\ i + 1 \in 1 .. Len(used) /\ used'[i] = used[i + 1]
       /\ \A i \in 2 .. Len(used) : i - 1 \in 1 .. Len(used') /\ used'[i - 1] = used[i]
  <2>1. Len(used') = Len(used) - 1 /\ \A i \in 1 .. Len(used) - 1 : used'[i] = used[i + 1]
    BY <1>3, <1>9
  <2>2. \A i \in 2 .. Len(used) : i - 1 \in 1 .. Len(used) - 1 /\ (i - 1) + 1 = i
    BY <1>3
  <2>3. \A i \in 1 .. Len(used) - 1 : i + 1 \in 2 .. Len(used) /\ i + 1 \in 1 .. Len(used)
    BY <1>3
  <2> QED BY <2>1, <2>2, <2>3
<1>17. Outstanding' = Outstanding \ {a}
  <2>1. {used'[i] : i \in 1 .. Len(used')} = {used[i] : i \in 1 .. Len(used)} \ {a}
    <3>1. \A i \in 1 .. Len(used) : i = 1 \/ i \in 2 .. Len(used)
      BY <1>3
    <3>2. ASSUME NEW i \in 1 .. Len(used')
          PROVE  used'[i] \in {used[j] : j \in 1 .. Len(used)} /\ used'[i] # a
      BY <1>15, <1>16, Zenon
    <3>3. ASSUME NEW i \in 1 .. Len(used), used[i] # a
          PROVE  used[i] \in {used'[j] : j \in 1 .. Len(used')}
      <4>1. i \in 2 .. Len(used)
        BY <1>3, <3>1, <3>3, SMTT(30)
      <4> QED BY <1>16, <4>1, Zenon
    <3> QED BY <3>2, <3>3, Zenon
  <2> QED BY <1>9, <1>15, <2>1, Zenon DEF Outstanding
<1>18. Rings'
  <2>1. used' \in Seq(Descs) /\ avail' = avail /\ serving' = serving
    BY <1>3, <1>9
  <2>2. \A i, j \in 1 .. Len(used') : used'[i] = used'[j] => i = j
    <3> SUFFICES ASSUME NEW i \in 1 .. Len(used'), NEW j \in 1 .. Len(used'), used'[i] = used'[j]
                 PROVE  i = j
      OBVIOUS
    <3>1. i + 1 = j + 1
      BY <1>16 DEF RingInv, Rings
    <3> QED BY <1>3, <1>16, <3>1
  <2>3. \A i \in 1 .. Len(used') : used'[i] \notin serving'
    BY <1>16, <2>1, Zenon DEF RingInv, Rings
  <2>4. \A i \in 1 .. Len(avail'), j \in 1 .. Len(used') : avail'[i] # used'[j]
    BY <1>16, <2>1 DEF RingInv, Rings
  <2> QED BY <2>1, <2>2, <2>3, <2>4, Zenon DEF RingInv, Rings
<1>19. ASSUME NEW h \in Outstanding'
       PROVE  RequestAt(h)' /\ Chain(h)' = Chain(h) /\ Chain(h) \cap {a, b, c} = {}
  <2>1. h \in Outstanding /\ h # a
    BY <1>17
  <2>2. Chain(h) \cap {a, b, c} = {}
    BY <1>4, <1>7, <2>1 DEF Placed
  <2>3. RequestAt(h)
    BY <2>1, Zenon DEF RingInv
  <2>4. h \in Descs /\ next[h] \in Descs /\ next[next[h]] \in Descs
    BY <1>5, <2>3 DEF RequestAt, Descriptors
  <2>5. {h, next[h], next[next[h]]} \subseteq Descs \ {a, b, c}
    BY <2>2, <2>4, ZenonT(30) DEF Chain
  <2>6. /\ next'[h] = next[h] /\ next'[next[h]] = next[next[h]]
        /\ (has_next'[h] <=> has_next[h]) /\ (has_next'[next[h]] <=> has_next[next[h]])
        /\ (has_next'[next[next[h]]] <=> has_next[next[next[h]]])
        /\ buf'[h] = buf[h] /\ buf'[next[h]] = buf[next[h]]
        /\ buf'[next[next[h]]] = buf[next[next[h]]]
    BY <1>12, <2>5, Zenon
  <2>7. RequestAt(h)'
    BY <2>3, <2>6, Zenon DEF RequestAt
  <2> QED BY <2>2, <2>6, <2>7 DEF Chain
<1> PICK g : g = [i \in 1 .. num_free + 3 |-> IF i = 1 THEN c ELSE IF i = 2 THEN b
                                              ELSE IF i = 3 THEN a ELSE fl[i - 3]]
  BY Zenon
<1>20. /\ g[1] = c /\ g[2] = b /\ g[3] = a
       /\ \A i \in 4 .. num_free + 3 : i - 3 \in 1 .. num_free /\ g[i] = fl[i - 3]
       /\ \A i \in 1 .. num_free : i + 3 \in 4 .. num_free + 3 /\ g[i + 3] = fl[i]
       /\ \A i \in 1 .. num_free + 3 : i = 1 \/ i = 2 \/ i = 3 \/ i \in 4 .. num_free + 3
       /\ {1, 2, 3} \subseteq 1 .. num_free + 3 /\ 4 .. num_free + 3 \subseteq 1 .. num_free + 3
  <2>1. {1, 2, 3} \subseteq 1 .. num_free + 3 /\ 4 .. num_free + 3 \subseteq 1 .. num_free + 3
    BY <1>13
  <2>2. \A i \in 4 .. num_free + 3 : i - 3 \in 1 .. num_free /\ g[i] = fl[i - 3]
    BY <1>13, <2>1
  <2>3. \A i \in 1 .. num_free : i + 3 \in 4 .. num_free + 3 /\ (i + 3) - 3 = i
    BY <1>13
  <2>4. \A i \in 1 .. num_free + 3 : i = 1 \/ i = 2 \/ i = 3 \/ i \in 4 .. num_free + 3
    BY <1>13
  <2>5. g[1] = c /\ g[2] = b /\ g[3] = a
    BY <2>1
  <2>6. \A i \in 1 .. num_free : g[i + 3] = fl[i]
    BY <2>2, <2>3, Zenon
  <2> QED BY <2>1, <2>2, <2>3, <2>4, <2>5, <2>6, Zenon
<1>21. \A i \in 1 .. num_free : fl[i] \in Descs \ {a, b, c}
  BY <1>4, <1>7 DEF FreeList, Placed
<1>22. FreeList(g)'
  <2>1. g \in [1 .. num_free' -> Descs]
    <3>1. \A i \in 1 .. num_free + 3 : g[i] \in Descs
      BY <1>7, <1>20, <1>21, Zenon
    <3> QED BY <1>13, <3>1
  <2>2. ASSUME NEW i \in 1 .. num_free + 3, NEW j \in 1 .. num_free + 3, g[i] = g[j] PROVE i = j
    <3>1. CASE i \in 4 .. num_free + 3 /\ j \in 4 .. num_free + 3
      <4>1. /\ i - 3 \in 1 .. num_free /\ j - 3 \in 1 .. num_free
            /\ g[i] = fl[i - 3] /\ g[j] = fl[j - 3]
        BY <1>20, <3>1, Zenon
      <4>2. i - 3 = j - 3
        BY <2>2, <4>1 DEF FreeList
      <4> QED BY <1>13, <4>2
    <3>2. CASE ~(i \in 4 .. num_free + 3 /\ j \in 4 .. num_free + 3)
      BY <1>7, <1>20, <1>21, <2>2, <3>2, Zenon
    <3> QED BY <3>1, <3>2
  <2>3. free_head' = g[1]
    BY <1>12, <1>20, Zenon
  <2>4. ASSUME NEW i \in 1 .. (num_free + 3) - 1 PROVE next'[g[i]] = g[i + 1]
    <3>1. i = 1 \/ i = 2 \/ i = 3 \/ i \in 4 .. num_free + 3
      BY <1>13
    <3>2. CASE i = 1 \/ i = 2
      <4>1. 1 + 1 = 2 /\ 2 + 1 = 3
        OBVIOUS
      <4> QED BY <1>12, <1>20, <3>2, <4>1
    <3>3. CASE i = 3
      <4>1. num_free > 0 /\ 1 \in 1 .. num_free /\ 1 + 3 = i + 1
        BY <1>13, <3>3
      <4>2. g[i + 1] = fl[1]
        BY <1>20, <4>1, SMTT(30)
      <4> QED BY <1>12, <1>20, <3>3, <4>1, <4>2, Zenon DEF FreeList
    <3>4. CASE i \in 4 .. num_free + 3
      <4>1. /\ i - 3 \in 1 .. num_free - 1 /\ (i - 3) + 1 \in 1 .. num_free
            /\ ((i - 3) + 1) + 3 = i + 1
        BY <1>13, <3>4
      <4>2. i - 3 \in 1 .. num_free /\ g[i] = fl[i - 3] /\ g[i + 1] = fl[(i - 3) + 1]
        BY <1>20, <3>4, <4>1
      <4>3. next[fl[i - 3]] = fl[(i - 3) + 1]
        BY <4>1 DEF FreeList
      <4> QED BY <1>12, <1>21, <4>2, <4>3, Zenon
    <3> QED BY <3>1, <3>2, <3>3, <3>4
  <2> QED BY <1>13, <2>1, <2>2, <2>3, <2>4, Zenon DEF FreeList
<1>23. Placed(g)'
  <2>1. \A x, y \in Outstanding' : x # y => Chain(x)' \cap Chain(y)' = {}
    BY <1>17, <1>19 DEF Placed
  <2>2. ASSUME NEW x \in Outstanding', NEW i \in 1 .. num_free + 3 PROVE g[i] \notin Chain(x)'
    <3>1. x \in Outstanding
      BY <1>17
    <3>2. \A j \in 1 .. num_free : fl[j] \notin Chain(x)
      BY <3>1 DEF Placed
    <3>3. Chain(x)' = Chain(x) /\ a \notin Chain(x) /\ b \notin Chain(x) /\ c \notin Chain(x)
      BY <1>19
    <3>4. CASE i \in 4 .. num_free + 3
      BY <1>20, <3>2, <3>3, <3>4, Zenon
    <3>5. CASE i = 1 \/ i = 2 \/ i = 3
      BY <1>20, <3>3, <3>5
    <3> QED BY <1>20, <3>4, <3>5
  <2>3. ASSUME NEW d \in Descs
        PROVE  \/ \E i \in 1 .. num_free + 3 : g[i] = d
               \/ \E h \in Outstanding' : d \in Chain(h)'
    <3>1. CASE \E h \in Outstanding : d \in Chain(h)
      BY <1>7, <1>17, <1>19, <1>20, <3>1
    <3>2. CASE \E i \in 1 .. num_free : fl[i] = d
      BY <1>20, <3>2
    <3> QED BY <3>1, <3>2, Zenon DEF Placed
  <2> QED BY <1>13, <2>1, <2>2, <2>3 DEF Placed
<1>24. RingInv'
  BY <1>14, <1>18, <1>19, <1>22, <1>23 DEF RingInv
<1> QED BY <1>4, <1>17, <1>24

\* A step that leaves the table alone and moves heads between the rings.
LEMMA DescriptorsKept ==
  ASSUME RingInv, UNCHANGED <<next, has_next, buf, free_head, num_free>>,
         Outstanding' = Outstanding, Rings', calls' \in Nat
  PROVE  RingInv'
<1>1. \A h : Chain(h)' = Chain(h)
  BY Zenon DEF Chain
<1>2. \A h : RequestAt(h)' <=> RequestAt(h)
  BY DEF RequestAt
<1>3. Descriptors'
  BY DEF RingInv, Descriptors
<1>4. \A fl : (FreeList(fl)' <=> FreeList(fl)) /\ (Placed(fl)' <=> Placed(fl))
  BY <1>1 DEF FreeList, Placed
<1> QED BY <1>2, <1>3, <1>4, SMTT(30) DEF RingInv

\* The device takes a head from the available ring.
LEMMA TakenKeepsRing ==
  ASSUME RingInv, DeviceTakes, calls' \in Nat
  PROVE  RingInv' /\ Outstanding' = Outstanding
<1>1. avail \in Seq(Descs) /\ avail # <<>>
  BY DEF RingInv, Rings, DeviceTakes
<1>2. PICK a : a = Head(avail)
  OBVIOUS
<1>3. /\ a = avail[1] /\ 1 \in 1 .. Len(avail) /\ Len(avail) \in Nat /\ a \in Descs
      /\ avail' \in Seq(Descs) /\ Len(avail') = Len(avail) - 1
      /\ \A i \in 1 .. Len(avail) - 1 : avail'[i] = avail[i + 1]
  BY <1>1, <1>2 DEF DeviceTakes
<1>4. /\ \A i \in 1 .. Len(avail') : i + 1 \in 2 .. Len(avail) /\ i + 1 \in 1 .. Len(avail)
      /\ \A i \in 2 .. Len(avail) : i - 1 \in 1 .. Len(avail') /\ (i - 1) + 1 = i
      /\ \A i \in 1 .. Len(avail) : i = 1 \/ i \in 2 .. Len(avail)
  BY <1>3
<1>5. /\ \A i \in 1 .. Len(avail') : avail'[i] = avail[i + 1]
      /\ \A i \in 2 .. Len(avail) : avail'[i - 1] = avail[i]
  BY <1>3, <1>4
<1>6. serving' = serving \cup {a} /\ used' = used
  BY <1>2 DEF DeviceTakes
<1>7. Outstanding' = Outstanding
  <2>1. {avail[i] : i \in 1 .. Len(avail)} \subseteq {avail'[i] : i \in 1 .. Len(avail')} \cup {a}
    <3> SUFFICES ASSUME NEW i \in 1 .. Len(avail), avail[i] # a
                 PROVE  avail[i] \in {avail'[j] : j \in 1 .. Len(avail')}
      OBVIOUS
    <3>1. i \in 2 .. Len(avail)
      BY <1>3, <1>4
    <3> QED BY <1>4, <1>5, <3>1, Zenon
  <2>2. {avail'[i] : i \in 1 .. Len(avail')} \cup {a} \subseteq {avail[i] : i \in 1 .. Len(avail)}
    BY <1>3, <1>4, <1>5
  <2> QED BY <1>6, <2>1, <2>2, Zenon DEF Outstanding
<1>8. Rings'
  <2>1. /\ used' \in Seq(Descs) /\ serving' \subseteq Descs
        /\ \A i, j \in 1 .. Len(used') : used'[i] = used'[j] => i = j
    BY <1>3, <1>6 DEF RingInv, Rings
  <2>2. \A i, j \in 1 .. Len(avail') : avail'[i] = avail'[j] => i = j
    <3> SUFFICES ASSUME NEW i \in 1 .. Len(avail'), NEW j \in 1 .. Len(avail'),
                        avail'[i] = avail'[j]
                 PROVE  i = j
      BY SMTT(30)
    <3>1. i + 1 = j + 1
      BY <1>4, <1>5, Zenon DEF RingInv, Rings
    <3> QED BY <1>3, <3>1
  <2>3. \A i \in 1 .. Len(avail') : avail'[i] \notin serving'
    <3> SUFFICES ASSUME NEW i \in 1 .. Len(avail') PROVE avail[i + 1] \notin serving \cup {a}
      BY <1>5, <1>6, Zenon
    <3>1. i + 1 \in 1 .. Len(avail) /\ i + 1 # 1
      BY <1>3, <1>4, SMTT(30)
    <3> QED BY <1>3, <3>1, Zenon DEF RingInv, Rings
  <2>4. \A i \in 1 .. Len(used') : used'[i] \notin serving'
    BY <1>3, <1>6, Zenon DEF RingInv, Rings
  <2>5. \A i \in 1 .. Len(avail'), j \in 1 .. Len(used') : avail'[i] # used'[j]
    BY <1>4, <1>5, <1>6 DEF RingInv, Rings
  <2> QED BY <1>3, <2>1, <2>2, <2>3, <2>4, <2>5, Zenon DEF Rings
<1> QED BY <1>7, <1>8, DescriptorsKept DEF DeviceTakes

\* The device puts a head on the used ring.
LEMMA ReturnedKeepsRing ==
  ASSUME RingInv, NEW a, DeviceReturns(a), calls' \in Nat
  PROVE  RingInv' /\ Outstanding' = Outstanding
<1>1. /\ a \in serving /\ a \in Descs /\ serving' = serving \ {a} /\ avail' = avail
      /\ used' = Append(used, a) /\ used \in Seq(Descs)
  BY Zenon DEF RingInv, Rings, DeviceReturns
<1>2. /\ used' \in Seq(Descs) /\ Len(used') = Len(used) + 1 /\ Len(used) \in Nat
      /\ \A i \in 1 .. Len(used) : used'[i] = used[i]
      /\ used'[Len(used) + 1] = a
  BY <1>1
<1>3. \A i \in 1 .. Len(used') : i \in 1 .. Len(used) \/ i = Len(used) + 1
  BY <1>2
<1>4. Outstanding' = Outstanding
  <2>1. {used'[i] : i \in 1 .. Len(used')} = {used[i] : i \in 1 .. Len(used)} \cup {a}
    BY <1>2
  <2> QED BY <1>1, <2>1 DEF Outstanding
<1>5. Rings'
  <2>1. /\ avail' \in Seq(Descs) /\ serving' \subseteq Descs
        /\ \A i, j \in 1 .. Len(avail') : avail'[i] = avail'[j] => i = j
        /\ \A i \in 1 .. Len(avail') : avail'[i] \notin serving'
    BY <1>1, Zenon DEF RingInv, Rings
  <2>2. \A i \in 1 .. Len(used) : used[i] # a
    BY <1>1, SMTT(30) DEF RingInv, Rings
  <2>3. \A i, j \in 1 .. Len(used') : used'[i] = used'[j] => i = j
    BY <1>2, <1>3, <2>2, Zenon DEF RingInv, Rings
  <2>4. \A i \in 1 .. Len(used') : used'[i] \notin serving'
    BY <1>1, <1>2, <1>3, Zenon DEF RingInv, Rings
  <2>5. \A i \in 1 .. Len(avail'), j \in 1 .. Len(used') : avail'[i] # used'[j]
    BY <1>1, <1>2, <1>3 DEF RingInv, Rings
  <2> QED BY <1>2, <2>1, <2>3, <2>4, <2>5 DEF Rings
<1> QED BY <1>4, <1>5, DescriptorsKept, Zenon DEF DeviceReturns

\* VirtQueue::new() links all descriptors into the free list.
LEMMA RingStarts ==
  ASSUME BlkInit
  PROVE  RingInv /\ Outstanding = {}
<1> DEFINE fl == [i \in 1 .. queue_size |-> i - 1]
<1>1. /\ next = [d \in Descs |-> IF d + 1 < queue_size THEN d + 1 ELSE 0]
      /\ free_head = 0 /\ num_free = queue_size
      /\ avail = <<>> /\ used = <<>> /\ serving = {} /\ calls = 0
      /\ queue_size \in Nat \ {0}
  BY QueueAssumption DEF BlkInit, QueueInit
<1>2. Outstanding = {}
  BY <1>1 DEF Outstanding
<1>3. Descriptors
  BY <1>1 DEF Descriptors, Descs
<1>4. Rings
  BY <1>1 DEF Rings
<1>5. FreeList(fl)
  <2>1. fl \in [1 .. num_free -> Descs]
    BY <1>1 DEF Descs
  <2>2. \A i, j \in 1 .. num_free : fl[i] = fl[j] => i = j
    BY <1>1
  <2>3. free_head = fl[1]
    BY <1>1
  <2>4. ASSUME NEW i \in 1 .. num_free - 1 PROVE next[fl[i]] = fl[i + 1]
    <3>1. /\ fl[i] = i - 1 /\ fl[i + 1] = i /\ i - 1 \in Descs
          /\ (i - 1) + 1 < queue_size /\ (i - 1) + 1 = i
      BY <1>1 DEF Descs
    <3> QED BY <1>1, <3>1
  <2> QED BY <2>1, <2>2, <2>3, <2>4, Zenon DEF FreeList
<1>6. Placed(fl)
  <2>1. ASSUME NEW d \in Descs PROVE \E i \in 1 .. num_free : fl[i] = d
    <3>1. d + 1 \in 1 .. num_free /\ fl[d + 1] = d
      BY <1>1 DEF Descs
    <3> QED BY <3>1, Zenon
  <2> QED BY <1>2, <2>1 DEF Placed
<1> QED BY <1>1, <1>2, <1>3, <1>4, <1>5, <1>6 DEF RingInv

\* The inductive invariant is strong enough.
LEMMA RingIsSound ==
  ASSUME RingInv
  PROVE  RingSound
<1> PICK fl : FreeList(fl) /\ Placed(fl)
  BY DEF RingInv
<1>1. Descriptors /\ num_free \in Nat
  BY DEF RingInv, Descriptors
<1>2. FreeDescs = {fl[i] : i \in 1 .. num_free}
  <2> PICK at : at = Along(free_head)
    OBVIOUS
  <2>1. \A i \in 1 .. num_free : at[i - 1] = fl[i]
    BY <1>1, FreeAlong
  <2>2. \A i \in 0 .. num_free - 1 : i + 1 \in 1 .. num_free /\ (i + 1) - 1 = i
    BY <1>1
  <2>3. \A i \in 1 .. num_free : i - 1 \in 0 .. num_free - 1
    BY <1>1
  <2>4. \A i \in 0 .. num_free - 1 : at[i] = fl[i + 1]
    BY <2>1, <2>2
  <2>5. FreeDescs = {at[i] : i \in 0 .. num_free - 1}
    BY DEF FreeDescs
  <2> QED BY <2>1, <2>2, <2>3, <2>4, <2>5
<1>3. Cardinality(FreeDescs) = num_free
  <2>1. fl \in Bijection(1 .. num_free, FreeDescs)
    BY <1>2 DEF FreeList, Bijection, Injection, Surjection, IsInjective
  <2> QED BY <1>1, <2>1, FS_CountingElements DEF ExistsBijection
<1>4. ASSUME NEW h \in Outstanding PROVE ChainLength(h) = 3 /\ ChainDescs(h) = Chain(h)
  BY <1>1, ChainAlong DEF RingInv
<1>5. \A h \in Outstanding : ChainDescs(h) \cap FreeDescs = {}
  BY <1>2, <1>4 DEF Placed
<1>6. \A g, h \in Outstanding : g # h => ChainDescs(g) \cap ChainDescs(h) = {}
  BY <1>4 DEF Placed
<1>7. Descs = FreeDescs \cup UNION {ChainDescs(h) : h \in Outstanding}
  <2>1. FreeDescs \subseteq Descs
    BY <1>2 DEF FreeList
  <2>2. \A h \in Outstanding : Chain(h) \subseteq Descs
    BY DEF RingInv, RequestAt, Descriptors, Chain
  <2>3. \A d \in Descs : d \in FreeDescs \/ \E h \in Outstanding : d \in ChainDescs(h)
    BY <1>2, <1>4 DEF Placed
  <2> QED BY <1>4, <2>1, <2>2, <2>3
<1>8. ASSUME NEW h \in Outstanding
      PROVE  \E p \in Threads, n \in 1 .. MaxCalls :
               \A i \in 1 .. 3 : buf[Along(h)[i - 1]] = Buffers(p, n)[i]
  <2>1. RequestAt(h)
    BY DEF RingInv
  <2> PICK at : at = Along(h)
    OBVIOUS
  <2>2. at[0] = h /\ at[1] = next[h] /\ at[2] = next[next[h]]
    BY <1>1, <2>1, ChainAlong, SMTT(30)
  <2>3. PICK p \in Threads : \E n \in 1 .. MaxCalls :
           /\ buf[at[0]] = <<p, n, "header">> /\ buf[at[1]] = <<p, n, "data">>
           /\ buf[at[2]] = <<p, n, "status">>
    BY <2>1, <2>2, Zenon DEF RequestAt
  <2>4. PICK n \in 1 .. MaxCalls :
           /\ buf[at[0]] = <<p, n, "header">> /\ buf[at[1]] = <<p, n, "data">>
           /\ buf[at[2]] = <<p, n, "status">>
    BY <2>3, Zenon
  <2>5. \A i \in 1 .. 3 : buf[at[i - 1]] = Buffers(p, n)[i]
    <3>1. \A i \in 1 .. 3 : i = 1 \/ i = 2 \/ i = 3
      OBVIOUS
    <3>2. 1 - 1 = 0 /\ 2 - 1 = 1 /\ 3 - 1 = 2
      OBVIOUS
    <3>3. /\ Buffers(p, n)[1] = <<p, n, "header">> /\ Buffers(p, n)[2] = <<p, n, "data">>
          /\ Buffers(p, n)[3] = <<p, n, "status">>
      BY DEF Buffers
    <3> QED BY <2>4, <3>1, <3>2, <3>3
  <2> QED BY <2>5
<1>9. DescriptorsAccounted
  BY <1>3, <1>5, <1>6, <1>7, SMTT(30) DEF DescriptorsAccounted
<1>10. ChainsIntact
  BY <1>4, <1>8, Zenon DEF ChainsIntact
<1> QED BY <1>9, <1>10 DEF RingSound

-----------------------------------------------------------------------------
(* Completions *)

\* The calls that wait for a completion.
Waiting == {p \in Threads : pc[p] \in {"wait", "flagged", "check", "poll"}}

\* The inductive invariant of the driver.
CompletionInv == RingInv /\ DOMAIN pc = Threads /\ NoCompletionMissing

\* One more on the right, and at most one on the left.
LEMMA OneMoreEach ==
  ASSUME NEW S, NEW T, IsFiniteSet(S), IsFiniteSet(T), Cardinality(S) <= Cardinality(T),
         NEW x, NEW y, y \notin T
  PROVE  Cardinality(S \cup {x}) <= Cardinality(T \cup {y})
<1>1. Cardinality(S) \in Nat /\ Cardinality(T) \in Nat
  BY FS_CardinalityType
<1>2. Cardinality(T \cup {y}) = Cardinality(T) + 1
  BY FS_AddElement
<1>3. Cardinality(S \cup {x}) \in {Cardinality(S), Cardinality(S) + 1}
  BY FS_AddElement
<1> QED BY <1>1, <1>2, <1>3

\* One less on the left, or on both sides.
LEMMA OneLess ==
  ASSUME NEW S, NEW T, IsFiniteSet(S), IsFiniteSet(T), Cardinality(S) <= Cardinality(T), NEW x \in S
  PROVE  /\ Cardinality(S \ {x}) <= Cardinality(T)
         /\ \A y \in T : Cardinality(S \ {x}) <= Cardinality(T \ {y})
<1>1. Cardinality(S) \in Nat /\ Cardinality(T) \in Nat
  BY FS_CardinalityType
<1>2. Cardinality(S \ {x}) = Cardinality(S) - 1
  BY FS_RemoveElement
<1>3. ASSUME NEW y \in T PROVE Cardinality(T \ {y}) = Cardinality(T) - 1
  BY FS_RemoveElement, Zenon
<1> QED BY <1>1, <1>2, <1>3

\* There are finitely many calls and chains.
LEMMA AllFinite ==
  ASSUME RingInv
  PROVE  IsFiniteSet(Waiting) /\ IsFiniteSet(Outstanding)
<1>1. IsFiniteSet(Waiting)
  BY ThreadsFinite, FS_Subset, Zenon DEF Waiting
<1>2. Outstanding \subseteq Descs
  BY DEF RingInv, RequestAt
<1>3. IsFiniteSet(Descs)
  BY QueueAssumption, FS_Interval DEF Descs
<1> QED BY <1>1, <1>2, <1>3, FS_Subset

\* What a thread's step to l does to the set of those that wait.
LEMMA WaitersAfter ==
  ASSUME NEW p \in Threads, NEW l, DOMAIN pc = Threads, Goto(p, l)
  PROVE  /\ DOMAIN pc' = Threads
         /\ l \in {"wait", "flagged", "check", "poll"} => Waiting' = Waiting \cup {p}
         /\ l \notin {"wait", "flagged", "check", "poll"} => Waiting' = Waiting \ {p}
<1>1. DOMAIN pc' = Threads /\ pc'[p] = l /\ \A q \in Threads \ {p} : pc'[q] = pc[q]
  BY DEF Goto
<1> QED BY <1>1 DEF Waiting

\* The queue is as it was.
LEMMA RingStays ==
  ASSUME RingInv, UNCHANGED <<queueVars, calls>>
  PROVE  RingInv' /\ Outstanding' = Outstanding
<1>1. UNCHANGED <<next, has_next, buf, free_head, num_free, avail, used, serving, calls>>
  BY DEF queueVars
<1>2. Outstanding' = Outstanding
  BY <1>1, Zenon DEF Outstanding
<1>3. Rings' /\ calls' \in Nat
  BY <1>1, Zenon DEF RingInv, Rings
<1> QED BY <1>1, <1>2, <1>3, DescriptorsKept

\* A step of a waiting call, or one to where no call waits, with the queue as it was.
LEMMA StayingKeepsCompletions ==
  ASSUME CompletionInv, UNCHANGED <<queueVars, calls>>, NEW p \in Threads, NEW l, Goto(p, l),
         p \in Waiting \/ l \notin {"wait", "flagged", "check", "poll"}
  PROVE  CompletionInv'
<1>1. RingInv' /\ Outstanding' = Outstanding
  BY RingStays DEF CompletionInv
<1>2. DOMAIN pc' = Threads /\ (Waiting' = Waiting \/ (p \in Waiting /\ Waiting' = Waiting \ {p}))
  BY WaitersAfter DEF CompletionInv
<1>3. Cardinality(Waiting) <= Cardinality(Outstanding)
  BY DEF CompletionInv, NoCompletionMissing, Waiting
<1>4. Cardinality(Waiting') <= Cardinality(Outstanding')
  BY <1>1, <1>2, <1>3, AllFinite, OneLess, Zenon DEF CompletionInv
<1> QED BY <1>1, <1>2, <1>4 DEF CompletionInv, NoCompletionMissing, Waiting

\* A waiting call takes a completion, its own or another's, and waits no longer.
LEMMA PollingKeepsCompletions ==
  ASSUME CompletionInv, poll_used, calls' = calls, NEW p \in Waiting, NEW l, Goto(p, l),
         l \notin {"wait", "flagged", "check", "poll"}
  PROVE  CompletionInv'
<1>0. p \in Threads /\ calls' \in Nat
  BY DEF Waiting, CompletionInv, RingInv
<1>1. RingInv' /\ \E a \in Outstanding : Outstanding' = Outstanding \ {a}
  BY <1>0, FreeKeepsRing DEF CompletionInv
<1>2. DOMAIN pc' = Threads /\ Waiting' = Waiting \ {p}
  BY <1>0, WaitersAfter DEF CompletionInv
<1>3. Cardinality(Waiting) <= Cardinality(Outstanding)
  BY DEF CompletionInv, NoCompletionMissing, Waiting
<1>4. Cardinality(Waiting') <= Cardinality(Outstanding')
  BY <1>1, <1>2, <1>3, AllFinite, OneLess, Zenon DEF CompletionInv
<1> QED BY <1>1, <1>2, <1>4 DEF CompletionInv, NoCompletionMissing, Waiting

\* A call adds its chain and begins to wait.
LEMMA RequestKeepsCompletions ==
  ASSUME CompletionInv, NEW p \in Threads, Request(p)
  PROVE  CompletionInv'
<1>1. /\ calls' = calls + 1 /\ calls < MaxCalls /\ calls \in Nat /\ MaxCalls \in Nat
      /\ Goto(p, "wait")
  BY CallsAssumption DEF Request, CompletionInv, RingInv
<1>2. PICK n \in 1 .. MaxCalls : n = calls'
  BY <1>1
<1>3. add_buffer_chain(Buffers(p, n), 3)
  BY <1>2 DEF Request
<1>4. RingInv' /\ free_head \notin Outstanding /\ Outstanding' = Outstanding \cup {free_head}
  BY <1>2, <1>3, AddKeepsRing DEF CompletionInv
<1>5. DOMAIN pc' = Threads /\ Waiting' = Waiting \cup {p}
  BY <1>1, WaitersAfter DEF CompletionInv
<1>6. Cardinality(Waiting) <= Cardinality(Outstanding)
  BY DEF CompletionInv, NoCompletionMissing, Waiting
<1>7. Cardinality(Waiting') <= Cardinality(Outstanding')
  BY <1>4, <1>5, <1>6, AllFinite, OneMoreEach, Zenon DEF CompletionInv
<1> QED BY <1>4, <1>5, <1>7, Zenon DEF CompletionInv, NoCompletionMissing, Waiting

\* The device's steps and the interrupt leave the threads where they are.
LEMMA DeviceKeepsCompletions ==
  ASSUME CompletionInv, pc' = pc, RingInv', Outstanding' = Outstanding
  PROVE  CompletionInv'
BY DEF CompletionInv, NoCompletionMissing

\* Every step keeps the invariant.
LEMMA CompletionStep ==
  ASSUME CompletionInv, [BlkNext]_<<blkVars, queueVars>>
  PROVE  CompletionInv'
<1>0. RingInv /\ calls \in Nat
  BY DEF CompletionInv, RingInv
<1>1. ASSUME NEW p \in Threads, Request(p) PROVE CompletionInv'
  BY <1>1, RequestKeepsCompletions
<1>2. ASSUME NEW p \in Threads, RequestFails(p) \/ WaitAck(p) \/ CheckStatus(p) \/ Timeout(p)
      PROVE  CompletionInv'
  <2>1. UNCHANGED <<queueVars, calls>>
    BY <1>2, Zenon DEF RequestFails, WaitAck, CheckStatus, Timeout
  <2>2. PICK l \in {"idle", "status"} : Goto(p, l)
    BY <1>2 DEF RequestFails, WaitAck, CheckStatus, Timeout, Return
  <2> QED BY <2>1, <2>2, StayingKeepsCompletions, Zenon
<1>3. ASSUME NEW p \in Threads, WaitFlag(p) PROVE CompletionInv'
  <2>1. UNCHANGED <<queueVars, calls>> /\ p \in Waiting
    BY <1>3 DEF WaitFlag, Waiting
  <2>2. \E l : Goto(p, l)
    BY <1>3 DEF WaitFlag
  <2> QED BY <2>1, <2>2, StayingKeepsCompletions
<1>4. ASSUME NEW p \in Threads, WaitFlagged(p) PROVE CompletionInv'
  <2>1. p \in Waiting /\ calls' = calls
    BY <1>4 DEF WaitFlagged, Waiting
  <2>2. CASE poll_used /\ Goto(p, "status")
    BY <2>1, <2>2, PollingKeepsCompletions
  <2>3. CASE Goto(p, "check") /\ UNCHANGED queueVars
    BY <2>1, <2>3, StayingKeepsCompletions, Zenon
  <2> QED BY <1>4, <2>2, <2>3 DEF WaitFlagged
<1>5. ASSUME NEW p \in Threads, WaitCheck(p) PROVE CompletionInv'
  <2>1. p \in Waiting /\ calls' = calls
    BY <1>5 DEF WaitCheck, Waiting
  <2>2. CASE poll_used /\ Goto(p, "ack")
    BY <2>1, <2>2, PollingKeepsCompletions
  <2>3. CASE UNCHANGED queueVars /\ \E l \in {"poll", "wait"} : Goto(p, l)
    BY <2>1, <2>3, StayingKeepsCompletions
  <2> QED BY <1>5, <2>2, <2>3 DEF WaitCheck
<1>6. CASE Interrupt
  <2>1. pc' = pc /\ UNCHANGED <<queueVars, calls>>
    BY <1>6 DEF Interrupt
  <2> QED BY <1>0, <2>1, RingStays, DeviceKeepsCompletions
<1>7. CASE DeviceTakes /\ UNCHANGED blkVars
  <2>1. pc' = pc /\ calls' = calls
    BY <1>7 DEF blkVars
  <2> QED BY <1>0, <1>7, <2>1, TakenKeepsRing, DeviceKeepsCompletions, Zenon
<1>8. ASSUME NEW h \in serving, DeviceServes(h) PROVE CompletionInv'
  <2>1. pc' = pc /\ calls' = calls /\ DeviceReturns(h)
    BY <1>8, Zenon DEF DeviceServes
  <2> QED BY <1>0, <2>1, ReturnedKeepsRing, DeviceKeepsCompletions, SMTT(30)
<1>9. CASE UNCHANGED <<blkVars, queueVars>>
  <2>1. pc' = pc /\ UNCHANGED <<queueVars, calls>>
    BY <1>9 DEF blkVars
  <2> QED BY <1>0, <2>1, RingStays, DeviceKeepsCompletions
<1> QED BY <1>1, <1>2, <1>3, <1>4, <1>5, <1>6, <1>7, <1>8, <1>9, Zenon DEF BlkNext, BlkStep, BlkDevice

\* At the start nobody waits.
LEMMA CompletionsStart ==
  ASSUME BlkInit
  PROVE  CompletionInv
<1>1. RingInv /\ Outstanding = {}
  BY RingStarts
<1>2. DOMAIN pc = Threads /\ Waiting = {}
  BY DEF BlkInit, Waiting
<1>3. Cardinality({}) <= Cardinality({})
  BY FS_EmptySet
<1> QED BY <1>1, <1>2, <1>3 DEF CompletionInv, NoCompletionMissing, Waiting

\* In every behaviour of the driver, its callers and the device, for every queue
\* size and any number of callers, every descriptor is on the free list or in one
\* outstanding chain, and every chain is the three buffers of one call: none is
\* lost, handed out twice or freed while the device has it, also when callers give
\* up and completions come in any order.
THEOREM RingStaysSound == BlkSpec => []RingSound
<1>1. BlkInit => CompletionInv
  BY CompletionsStart
<1>2. CompletionInv /\ [BlkNext]_<<blkVars, queueVars>> => CompletionInv'
  BY CompletionStep
<1>3. CompletionInv => RingSound
  BY RingIsSound, Zenon DEF CompletionInv
<1> QED BY <1>1, <1>2, <1>3, PTL DEF BlkSpec

\* A call that waits in wait_for_completion() always has a completion to come: the
\* calls that wait are never more than the chains outstanding, although a call
\* takes whatever completion is next.
THEOREM NoCompletionIsLost == BlkSpec => []NoCompletionMissing
<1>1. BlkInit => CompletionInv
  BY CompletionsStart
<1>2. CompletionInv /\ [BlkNext]_<<blkVars, queueVars>> => CompletionInv'
  BY CompletionStep
<1>3. CompletionInv => NoCompletionMissing
  BY DEF CompletionInv
<1> QED BY <1>1, <1>2, <1>3, PTL DEF BlkSpec

-----------------------------------------------------------------------------
(* The resource pool *)

PoolFilling == {"add", "store", "set"}
PoolChoosing == {"choose", "try_choose"}
PoolCounted == {"choose", "try_choose", "release"}

PoolTypeOK ==
  /\ permits \in Nat /\ available \subseteq filled /\ filled \subseteq Slots
  /\ poolpc \in [Threads -> {"idle", "acquire", "acquire_cas", "try", "try_cas", "choose",
                             "try_choose", "guard", "release", "add", "store", "set"}]
  /\ poolseen \in [Threads -> Nat]
  /\ index \in [Threads -> 0 .. N + 1]
  /\ \A t \in Threads : poolpc[t] \in {"acquire_cas", "try_cas"} => poolseen[t] > 0

\* Who fills the pool is alone.
PoolAlone ==
  \A t, u \in Threads : poolpc[t] \in PoolFilling /\ u # t => poolpc[u] = "idle"

\* The slots at hand: those of guards are each other's and of nobody else.
PoolSlots ==
  /\ \A t \in Threads :
       /\ poolpc[t] \in PoolChoosing \cup {"add"} => index[t] \in 1 .. N + 1
       /\ poolpc[t] = "store" => index[t] \in Slots \ available
       /\ poolpc[t] \in {"set", "guard"} => index[t] \in filled \ available
  /\ \A t, u \in Threads :
       poolpc[t] = "guard" /\ poolpc[u] = "guard" /\ index[t] = index[u] => t = u

\* The available slots are the permits, those under way included.
PoolPermits == Cardinality(available) = permits + Cardinality(AtAny(PoolCounted))

\* From every slot on there are as many available slots ahead as threads that
\* have still to find one there.
PoolSeeking(k) == {t \in AtAny(PoolChoosing) : index[t] >= k}
PoolLeft(k) == available \cap (k .. N)
PoolAhead == \A k \in 1 .. N + 1 : Cardinality(PoolSeeking(k)) <= Cardinality(PoolLeft(k))

\* The inductive invariant.
PoolInv == PoolTypeOK /\ PoolAlone /\ PoolSlots /\ PoolPermits /\ PoolAhead

LEMMA SlotsFinite == IsFiniteSet(Slots)
BY PoolAssumption, FS_Interval DEF Slots

\* What is counted can be counted.
LEMMA PoolFinite ==
  ASSUME PoolTypeOK
  PROVE  /\ IsFiniteSet(available) /\ Cardinality(available) \in Nat
         /\ \A L : IsFiniteSet(AtAny(L)) /\ Cardinality(AtAny(L)) \in Nat
         /\ \A k : IsFiniteSet(PoolSeeking(k)) /\ Cardinality(PoolSeeking(k)) \in Nat
         /\ \A k : IsFiniteSet(PoolLeft(k)) /\ Cardinality(PoolLeft(k)) \in Nat
<1>1. IsFiniteSet(available)
  <2>1. available \subseteq Slots
    BY DEF PoolTypeOK
  <2> QED BY <2>1, SlotsFinite, FS_Subset
<1>2. \A L : IsFiniteSet(AtAny(L))
  <2> TAKE L
  <2>1. AtAny(L) \subseteq Threads
    BY DEF AtAny
  <2> QED BY <2>1, ThreadsFinite, FS_Subset
<1>3. \A k : IsFiniteSet(PoolSeeking(k))
  <2> TAKE k
  <2>1. PoolSeeking(k) \subseteq Threads
    BY DEF PoolSeeking, AtAny
  <2> QED BY <2>1, ThreadsFinite, FS_Subset
<1>4. \A k : IsFiniteSet(PoolLeft(k))
  <2> TAKE k
  <2>1. PoolLeft(k) \subseteq available
    BY DEF PoolLeft
  <2> QED BY <1>1, <2>1, FS_Subset
<1> QED BY <1>1, <1>2, <1>3, <1>4, FS_CardinalityType

\* Moving one thread changes a count by that thread.
LEMMA PoolMoves ==
  ASSUME PoolTypeOK, NEW t \in Threads, NEW l, PoolGoto(t, l), NEW CONSTANT L
  PROVE  Cardinality(AtAny(L))' = Cardinality(AtAny(L))
           + (IF l \in L THEN 1 ELSE 0) - (IF poolpc[t] \in L THEN 1 ELSE 0)
<1>1. \A u \in Threads : poolpc'[u] = IF u = t THEN l ELSE poolpc[u]
  BY DEF PoolTypeOK, PoolGoto
<1>2. IsFiniteSet(AtAny(L)) /\ Cardinality(AtAny(L)) \in Nat
  BY PoolFinite
<1>3. CASE l \in L /\ poolpc[t] \in L
  <2>1. AtAny(L)' = AtAny(L)
    BY <1>1, <1>3 DEF AtAny
  <2> QED BY <1>2, <1>3, <2>1
<1>4. CASE l \notin L /\ poolpc[t] \notin L
  <2>1. AtAny(L)' = AtAny(L)
    BY <1>1, <1>4 DEF AtAny
  <2> QED BY <1>2, <1>4, <2>1
<1>5. CASE l \in L /\ poolpc[t] \notin L
  <2>1. AtAny(L)' = AtAny(L) \cup {t} /\ t \notin AtAny(L)
    BY <1>1, <1>5 DEF AtAny
  <2>2. Cardinality(AtAny(L) \cup {t}) = Cardinality(AtAny(L)) + 1
    BY <1>2, <2>1, FS_AddElement, Zenon
  <2> QED BY <1>2, <1>5, <2>1, <2>2
<1>6. CASE l \notin L /\ poolpc[t] \in L
  <2>1. AtAny(L)' = AtAny(L) \ {t} /\ t \in AtAny(L)
    BY <1>1, <1>6 DEF AtAny
  <2>2. Cardinality(AtAny(L) \ {t}) = Cardinality(AtAny(L)) - 1
    BY <1>2, <2>1, FS_RemoveElement, Zenon
  <2> QED BY <1>2, <1>6, <2>1, <2>2
<1> QED BY <1>3, <1>4, <1>5, <1>6

\* Nobody starts to look, goes on looking or takes a slot.
LEMMA PoolAheadKept ==
  ASSUME PoolInv, PoolTypeOK',
         \A u \in Threads : poolpc'[u] \in PoolChoosing =>
           poolpc[u] \in PoolChoosing /\ index'[u] = index[u],
         available \subseteq available'
  PROVE  PoolAhead'
<1> SUFFICES ASSUME NEW k \in 1 .. N + 1
             PROVE  Cardinality(PoolSeeking(k))' <= Cardinality(PoolLeft(k))'
  BY DEF PoolAhead
<1>1. PoolSeeking(k)' \subseteq PoolSeeking(k) /\ PoolLeft(k) \subseteq PoolLeft(k)'
  BY DEF PoolSeeking, PoolLeft, AtAny
<1>2. /\ IsFiniteSet(PoolSeeking(k)) /\ Cardinality(PoolSeeking(k)) \in Nat
      /\ IsFiniteSet(PoolLeft(k)) /\ Cardinality(PoolLeft(k)) \in Nat
  BY PoolFinite DEF PoolInv
<1>3. /\ IsFiniteSet(PoolLeft(k))' /\ Cardinality(PoolLeft(k))' \in Nat
      /\ Cardinality(PoolSeeking(k))' \in Nat
  <2>1. PoolLeft(k)' \subseteq Slots
    BY DEF PoolLeft, PoolTypeOK, Slots
  <2>2. IsFiniteSet(PoolLeft(k)') /\ IsFiniteSet(PoolSeeking(k)')
    BY <1>1, <1>2, <2>1, SlotsFinite, FS_Subset, Zenon
  <2> QED BY <2>2, FS_CardinalityType
<1>4. Cardinality(PoolSeeking(k))' <= Cardinality(PoolSeeking(k))
  BY <1>1, <1>2, FS_Subset, Zenon
<1>5. Cardinality(PoolLeft(k)) <= Cardinality(PoolLeft(k))'
  BY <1>1, <1>3, FS_Subset
<1>6. Cardinality(PoolSeeking(k)) <= Cardinality(PoolLeft(k))
  BY DEF PoolInv, PoolAhead
<1> QED BY <1>2, <1>3, <1>4, <1>5, <1>6

\* Loads, failed exchanges and calls move one thread, and nothing else.
LEMMA PoolQuietStep ==
  ASSUME PoolInv, NEW t \in Threads, NEW l, PoolGoto(t, l),
         UNCHANGED <<permits, available, filled>>, PoolTypeOK',
         poolpc[t] \notin PoolCounted, l \notin PoolCounted \cup {"guard", "store", "set"},
         index' = [index EXCEPT ![t] = index'[t]],
         l = "add" => index'[t] \in 1 .. N + 1,
         l \in PoolFilling => \A u \in Threads \ {t} : poolpc[u] = "idle",
         l # "idle" => \A u \in Threads \ {t} : poolpc[u] \notin PoolFilling
  PROVE  PoolInv'
<1>1. \A u \in Threads : /\ poolpc'[u] = IF u = t THEN l ELSE poolpc[u]
                         /\ u # t => index'[u] = index[u]
  BY DEF PoolInv, PoolTypeOK, PoolGoto
<1>2. PoolAlone'
  BY <1>1 DEF PoolInv, PoolAlone, PoolFilling
<1>3. PoolSlots'
  BY <1>1 DEF PoolInv, PoolSlots, PoolCounted, PoolChoosing
<1>4. PoolPermits'
  <2>1. Cardinality(AtAny(PoolCounted))' = Cardinality(AtAny(PoolCounted)) + 0 - 0
    BY PoolMoves DEF PoolInv
  <2>2. Cardinality(AtAny(PoolCounted)) \in Nat
    BY PoolFinite DEF PoolInv
  <2> QED BY <2>1, <2>2 DEF PoolInv, PoolPermits
<1>5. PoolAhead'
  BY <1>1, PoolAheadKept DEF PoolChoosing, PoolCounted
<1> QED BY <1>2, <1>3, <1>4, <1>5, Zenon DEF PoolInv

\* A load.
LEMMA PoolLoad ==
  ASSUME PoolInv, NEW t \in Threads, Load(t)
  PROVE  PoolInv'
<1>1. PICK l \in {"acquire_cas", "acquire", "try_cas", "idle"} :
        /\ PoolGoto(t, l)
        /\ l \in {"acquire_cas", "try_cas"} => permits > 0
  BY DEF Load
<1>2. /\ UNCHANGED <<permits, available, filled, index>>
      /\ poolseen' = [poolseen EXCEPT ![t] = IF permits > 0 THEN permits ELSE 0]
      /\ poolpc[t] \in {"acquire", "try"}
  BY DEF Load, PoolAt
<1>3. PoolTypeOK'
  BY <1>1, <1>2 DEF PoolInv, PoolTypeOK, PoolGoto
<1>4. \A u \in Threads \ {t} : poolpc[u] \notin PoolFilling
  BY <1>2 DEF PoolInv, PoolAlone
<1>5. index' = [index EXCEPT ![t] = index'[t]]
  BY <1>2 DEF PoolInv, PoolTypeOK
<1> QED BY <1>1, <1>2, <1>3, <1>4, <1>5, PoolQuietStep DEF PoolCounted, PoolFilling

\* An exchange that succeeds takes a permit, so the thread starts with a slot to
\* spare; one that fails changes nothing.
LEMMA PoolCompareExchange ==
  ASSUME PoolInv, NEW t \in Threads, CompareExchange(t)
  PROVE  PoolInv'
<1>1. /\ poolpc[t] \in {"acquire_cas", "try_cas"} /\ UNCHANGED <<available, filled>>
      /\ poolseen' = [poolseen EXCEPT ![t] = 0]
  BY DEF CompareExchange, PoolAt
<1>2. \A u \in Threads \ {t} : poolpc[u] \notin PoolFilling
  BY <1>1 DEF PoolInv, PoolAlone
<1>3. CASE permits # poolseen[t]
  <2>1. PICK l \in {"acquire", "idle"} : PoolGoto(t, l)
    BY <1>3 DEF CompareExchange
  <2>2. UNCHANGED <<permits, index>>
    BY <1>3 DEF CompareExchange
  <2>3. PoolTypeOK'
    BY <1>1, <2>1, <2>2 DEF PoolInv, PoolTypeOK, PoolGoto
  <2>4. index' = [index EXCEPT ![t] = index'[t]]
    BY <2>2 DEF PoolInv, PoolTypeOK
  <2> QED BY <1>1, <1>2, <2>1, <2>2, <2>3, <2>4, PoolQuietStep DEF PoolCounted, PoolFilling
<1>4. CASE permits = poolseen[t]
  <2>1. PICK l \in PoolChoosing : PoolGoto(t, l) /\ index' = [index EXCEPT ![t] = 1]
    BY <1>4 DEF CompareExchange, PoolChoosing, Go
  <2>2. permits > 0 /\ permits' = permits - 1
    BY <1>1, <1>4 DEF CompareExchange, PoolInv, PoolTypeOK
  <2>3. PoolTypeOK'
    BY <1>1, <2>1, <2>2, PoolAssumption DEF PoolInv, PoolTypeOK, PoolGoto, PoolChoosing
  <2>4. \A u \in Threads : /\ poolpc'[u] = IF u = t THEN l ELSE poolpc[u]
                           /\ index'[u] = IF u = t THEN 1 ELSE index[u]
    BY <2>1, Zenon DEF PoolInv, PoolTypeOK, PoolGoto
  <2>5. PoolAlone'
    BY <1>1, <2>1, <2>4, Zenon DEF PoolInv, PoolAlone, PoolFilling, PoolChoosing
  <2>6. PoolSlots'
    BY <1>1, <2>1, <2>4, PoolAssumption DEF PoolInv, PoolSlots, PoolChoosing
  <2>7. Cardinality(AtAny(PoolCounted)) \in Nat /\ Cardinality(available) \in Nat
    BY PoolFinite DEF PoolInv
  <2>8. PoolPermits'
    <3>1. Cardinality(AtAny(PoolCounted))' = Cardinality(AtAny(PoolCounted)) + 1 - 0
      BY <1>1, <2>1, PoolMoves DEF PoolInv, PoolCounted, PoolChoosing
    <3> QED BY <1>1, <2>2, <2>7, <3>1 DEF PoolInv, PoolTypeOK, PoolPermits
  <2>9. ASSUME NEW k \in 1 .. N + 1
        PROVE  Cardinality(PoolSeeking(k))' <= Cardinality(PoolLeft(k))'
    <3>1. PoolLeft(k)' = PoolLeft(k)
      BY <1>1 DEF PoolLeft
    <3>2. CASE k = 1
      <4>1. AtAny(PoolChoosing) \subseteq AtAny(PoolCounted)
        BY DEF AtAny, PoolChoosing, PoolCounted
      <4>2. Cardinality(AtAny(PoolChoosing)) <= Cardinality(AtAny(PoolCounted))
        BY <4>1, PoolFinite, FS_Subset DEF PoolInv
      <4>3. PoolSeeking(k)' = AtAny(PoolChoosing) \cup {t}
        BY <2>1, <2>4, <3>2 DEF PoolSeeking, AtAny, PoolInv, PoolSlots
      <4>4. t \notin AtAny(PoolChoosing)
        BY <1>1 DEF AtAny, PoolChoosing
      <4>5. /\ Cardinality(AtAny(PoolChoosing) \cup {t}) = Cardinality(AtAny(PoolChoosing)) + 1
            /\ Cardinality(AtAny(PoolChoosing)) \in Nat
        BY <4>4, PoolFinite, FS_AddElement, Zenon DEF PoolInv
      <4>6. PoolLeft(k) = available
        BY <3>2, Zenon DEF PoolLeft, PoolInv, PoolTypeOK, Slots
      <4> QED BY <2>2, <2>7, <3>1, <4>2, <4>3, <4>5, <4>6 DEF PoolInv, PoolTypeOK, PoolPermits
    <3>3. CASE k # 1
      <4>1. PoolSeeking(k)' = PoolSeeking(k)
        BY <1>1, <2>1, <2>4, <3>3 DEF PoolSeeking, AtAny, PoolChoosing
      <4> QED BY <3>1, <4>1, Zenon DEF PoolInv, PoolAhead
    <3> QED BY <3>2, <3>3
  <2> QED BY <2>3, <2>5, <2>6, <2>8, <2>9 DEF PoolInv, PoolAhead
<1> QED BY <1>3, <1>4

\* A permit that is given back was counted as under way.
LEMMA PoolRelease ==
  ASSUME PoolInv, NEW t \in Threads, release(t)
  PROVE  PoolInv'
<1>1. /\ poolpc[t] = "release" /\ UNCHANGED <<available, filled, poolseen>>
      /\ permits' = permits + 1 /\ PoolGoto(t, "idle")
      /\ index' = [index EXCEPT ![t] = 0]
  BY DEF release, PoolAt, Go
<1>2. PoolTypeOK'
  BY <1>1, PoolAssumption DEF PoolInv, PoolTypeOK, PoolGoto
<1>3. \A u \in Threads : /\ poolpc'[u] = IF u = t THEN "idle" ELSE poolpc[u]
                         /\ u # t => index'[u] = index[u]
  BY <1>1, Zenon DEF PoolInv, PoolTypeOK, PoolGoto
<1>4. PoolAlone' /\ PoolSlots'
  BY <1>1, <1>3 DEF PoolInv, PoolAlone, PoolFilling, PoolSlots, PoolChoosing
<1>5. PoolPermits'
  <2>1. Cardinality(AtAny(PoolCounted))' = Cardinality(AtAny(PoolCounted)) + 0 - 1
    BY <1>1, PoolMoves DEF PoolInv, PoolCounted
  <2>2. Cardinality(AtAny(PoolCounted)) \in Nat
    BY PoolFinite, Zenon DEF PoolInv
  <2> QED BY <1>1, <2>1, <2>2 DEF PoolInv, PoolTypeOK, PoolPermits
<1>6. PoolAhead'
  BY <1>1, <1>2, <1>3, PoolAheadKept DEF PoolChoosing
<1> QED BY <1>2, <1>4, <1>5, <1>6 DEF PoolInv

\* A call begins: the pool is filled by one thread while no other uses it.
LEMMA PoolBegin ==
  ASSUME PoolInv, Refill = FALSE, NEW t \in Threads, PoolCall(t)
  PROVE  PoolInv'
<1>1. poolpc[t] = "idle" /\ UNCHANGED <<permits, available, filled, poolseen>>
  BY DEF PoolCall, PoolAt
<1>2. CASE MayUse /\ (PoolGoto(t, "acquire") \/ PoolGoto(t, "try")) /\ UNCHANGED index
  <2>1. PICK l \in {"acquire", "try"} : PoolGoto(t, l)
    BY <1>2
  <2>2. PoolTypeOK'
    BY <1>1, <1>2, <2>1 DEF PoolInv, PoolTypeOK, PoolGoto
  <2>3. index' = [index EXCEPT ![t] = index'[t]]
    BY <1>2 DEF PoolInv, PoolTypeOK
  <2>4. \A u \in Threads : poolpc[u] \notin PoolFilling
    BY <1>2 DEF MayUse, PoolFilling
  <2> QED BY <1>1, <2>1, <2>2, <2>3, <2>4, PoolQuietStep DEF PoolCounted, PoolFilling
<1>3. CASE MayAdd /\ Go(t, "add", 1)
  <2>1. PoolGoto(t, "add") /\ index' = [index EXCEPT ![t] = 1]
    BY <1>3 DEF Go
  <2>2. PoolTypeOK'
    BY <1>1, <2>1, PoolAssumption DEF PoolInv, PoolTypeOK, PoolGoto
  <2>3. index'[t] \in 1 .. N + 1 /\ index' = [index EXCEPT ![t] = index'[t]]
    BY <2>1, PoolAssumption DEF PoolInv, PoolTypeOK
  <2>4. \A u \in Threads : poolpc[u] = "idle"
    BY <1>3 DEF MayAdd
  <2> QED BY <1>1, <2>1, <2>2, <2>3, <2>4, PoolQuietStep, Zenon DEF PoolCounted, PoolFilling
<1> QED BY <1>2, <1>3 DEF PoolCall

\* add() looks at the next slot.
LEMMA PoolAdd ==
  ASSUME PoolInv, NEW t \in Threads, Add(t)
  PROVE  PoolInv'
<1>1. poolpc[t] = "add" /\ UNCHANGED <<permits, available, filled, poolseen>>
  BY DEF Add, PoolAt
<1>2. /\ index[t] \in 1 .. N + 1
      /\ \A u \in Threads \ {t} : poolpc[u] = "idle"
  BY <1>1 DEF PoolInv, PoolSlots, PoolAlone, PoolFilling
<1>3. CASE index[t] > N \/ index[t] \in available
  <2>1. PICK l \in {"idle", "add"}, i \in 0 .. N + 1 :
          /\ PoolGoto(t, l) /\ index' = [index EXCEPT ![t] = i]
          /\ l = "add" => i >= 1
    <3>1. CASE index[t] > N
      BY <1>3, <3>1, PoolAssumption DEF Add, Go
    <3>2. CASE ~(index[t] > N)
      <4>1. index[t] + 1 \in 0 .. N + 1 /\ index[t] + 1 >= 1
        BY <1>2, <3>2, PoolAssumption
      <4>2. PoolGoto(t, "add") /\ index' = [index EXCEPT ![t] = index[t] + 1]
        BY <1>3, <3>2 DEF Add, Go
      <4> QED BY <4>1, <4>2, Zenon
    <3> QED BY <3>1, <3>2
  <2>2. PoolTypeOK'
    BY <1>1, <2>1 DEF PoolInv, PoolTypeOK, PoolGoto
  <2>3. index'[t] = i /\ index' = [index EXCEPT ![t] = index'[t]]
    BY <2>1 DEF PoolInv, PoolTypeOK
  <2>4. l = "add" => index'[t] \in 1 .. N + 1
    BY <2>1, <2>3, PoolAssumption
  <2> QED BY <1>1, <1>2, <2>1, <2>2, <2>3, <2>4, PoolQuietStep, Zenon DEF PoolCounted, PoolFilling
<1>4. CASE ~(index[t] > N) /\ index[t] \notin available
  <2>1. PoolGoto(t, "store") /\ UNCHANGED index
    BY <1>4 DEF Add
  <2>2. PoolTypeOK'
    BY <1>1, <2>1 DEF PoolInv, PoolTypeOK, PoolGoto
  <2>3. \A u \in Threads : poolpc'[u] = IF u = t THEN "store" ELSE poolpc[u]
    BY <2>1 DEF PoolInv, PoolTypeOK, PoolGoto
  <2>4. PoolAlone'
    BY <1>2, <2>3 DEF PoolAlone, PoolFilling
  <2>5. index[t] \in Slots \ available
    BY <1>2, <1>4, PoolAssumption DEF Slots
  <2>6. PoolSlots'
    BY <1>1, <2>1, <2>3, <2>5, Zenon DEF PoolInv, PoolSlots, PoolChoosing
  <2>7. PoolPermits'
    <3>1. Cardinality(AtAny(PoolCounted))' = Cardinality(AtAny(PoolCounted)) + 0 - 0
      BY <1>1, <2>1, PoolMoves DEF PoolInv, PoolCounted
    <3>2. Cardinality(AtAny(PoolCounted)) \in Nat
      BY PoolFinite DEF PoolInv
    <3> QED BY <1>1, <3>1, <3>2 DEF PoolInv, PoolPermits
  <2>8. PoolAhead'
    BY <1>1, <2>1, <2>2, <2>3, PoolAheadKept, Zenon DEF PoolChoosing
  <2> QED BY <2>2, <2>4, <2>6, <2>7, <2>8 DEF PoolInv
<1> QED BY <1>3, <1>4

\* The resource is stored, under no flag.
LEMMA PoolStore ==
  ASSUME PoolInv, NEW t \in Threads, Store(t)
  PROVE  PoolInv'
<1>1. /\ poolpc[t] = "store" /\ UNCHANGED <<permits, available, poolseen, index>>
      /\ filled' = filled \cup {index[t]} /\ PoolGoto(t, "set")
  BY DEF Store, PoolAt
<1>2. /\ index[t] \in Slots \ available
      /\ \A u \in Threads \ {t} : poolpc[u] = "idle"
  BY <1>1 DEF PoolInv, PoolSlots, PoolAlone, PoolFilling
<1>3. PoolTypeOK'
  BY <1>1, <1>2 DEF PoolInv, PoolTypeOK, PoolGoto
<1>4. \A u \in Threads : poolpc'[u] = IF u = t THEN "set" ELSE poolpc[u]
  BY <1>1, Zenon DEF PoolInv, PoolTypeOK, PoolGoto
<1>5. PoolAlone'
  BY <1>2, <1>4, Zenon DEF PoolAlone, PoolFilling
<1>6. PoolSlots'
  BY <1>1, <1>2, <1>4, Zenon DEF PoolInv, PoolSlots, PoolChoosing
<1>7. PoolPermits'
  <2>1. Cardinality(AtAny(PoolCounted))' = Cardinality(AtAny(PoolCounted)) + 0 - 0
    BY <1>1, PoolMoves DEF PoolInv, PoolCounted
  <2>2. Cardinality(AtAny(PoolCounted)) \in Nat
    BY PoolFinite DEF PoolInv
  <2> QED BY <1>1, <2>1, <2>2 DEF PoolInv, PoolPermits
<1>8. PoolAhead'
  BY <1>1, <1>3, <1>4, PoolAheadKept, Zenon DEF PoolChoosing
<1> QED BY <1>3, <1>5, <1>6, <1>7, <1>8 DEF PoolInv

\* A flag is set: one more slot, and one more permit under way.
LEMMA PoolSetAvailable ==
  ASSUME PoolInv, NEW t \in Threads, SetAvailable(t)
  PROVE  PoolInv'
<1>1. /\ poolpc[t] \in {"set", "guard"} /\ UNCHANGED <<permits, filled, poolseen>>
      /\ available' = available \cup {index[t]} /\ PoolGoto(t, "release")
      /\ index' = [index EXCEPT ![t] = 0]
  BY DEF SetAvailable, PoolAt, Go
<1>2. index[t] \in filled \ available
  BY <1>1 DEF PoolInv, PoolSlots
<1>3. PoolTypeOK'
  BY <1>1, <1>2, PoolAssumption DEF PoolInv, PoolTypeOK, PoolGoto
<1>4. \A u \in Threads : /\ poolpc'[u] = IF u = t THEN "release" ELSE poolpc[u]
                         /\ u # t => index'[u] = index[u]
  BY <1>1 DEF PoolInv, PoolTypeOK, PoolGoto
<1>5. PoolAlone'
  BY <1>1, <1>4, Zenon DEF PoolInv, PoolAlone, PoolFilling
<1>6. PoolSlots'
  <2>1. ASSUME NEW u \in Threads, u # t, poolpc[u] \in {"store", "set", "guard"}
        PROVE  index[u] # index[t]
    BY <1>1, <2>1, Zenon DEF PoolInv, PoolSlots, PoolAlone, PoolFilling
  <2> QED BY <1>1, <1>4, <2>1 DEF PoolInv, PoolSlots, PoolChoosing
<1>7. PoolPermits'
  <2>1. Cardinality(AtAny(PoolCounted))' = Cardinality(AtAny(PoolCounted)) + 1 - 0
    BY <1>1, PoolMoves DEF PoolInv, PoolCounted
  <2>2. /\ Cardinality(AtAny(PoolCounted)) \in Nat
        /\ IsFiniteSet(available) /\ Cardinality(available) \in Nat
    BY PoolFinite DEF PoolInv
  <2>3. Cardinality(available \cup {index[t]}) = Cardinality(available) + 1
    BY <1>2, <2>2, FS_AddElement, Zenon
  <2>4. PICK a, c : a = Cardinality(available) /\ c = Cardinality(AtAny(PoolCounted))
    OBVIOUS
  <2>5. Cardinality(AtAny(PoolCounted))' = c + 1 - 0 /\ Cardinality(available)' = a + 1
    BY <1>1, <2>1, <2>3, <2>4, Zenon
  <2>6. a = permits + c /\ permits \in Nat /\ c \in Nat
    BY <2>2, <2>4, Zenon DEF PoolInv, PoolTypeOK, PoolPermits
  <2>7. a + 1 = permits + (c + 1 - 0)
    BY <2>6
  <2>8. permits' = permits
    BY <1>1
  <2> QED BY <2>5, <2>7, <2>8, Zenon DEF PoolPermits
<1>8. PoolAhead'
  BY <1>1, <1>3, <1>4, PoolAheadKept DEF PoolChoosing
<1> QED BY <1>3, <1>5, <1>6, <1>7, <1>8 DEF PoolInv

\* A thread that looks has not passed the last slot: none would be left for it.
LEMMA PoolFinds ==
  ASSUME PoolInv, NEW t \in Threads, poolpc[t] \in PoolChoosing
  PROVE  index[t] \in Slots
<1>1. PoolLeft(N + 1) = {}
  BY PoolAssumption DEF PoolLeft
<1>2. Cardinality(PoolLeft(N + 1)) = 0
  BY <1>1, FS_EmptySet
<1>3. Cardinality(PoolSeeking(N + 1)) <= 0
  BY <1>2, PoolAssumption DEF PoolInv, PoolAhead
<1>4. PoolSeeking(N + 1) = {}
  BY <1>3, PoolFinite, FS_EmptySet DEF PoolInv
<1>5. ~(index[t] >= N + 1) /\ index[t] \in 1 .. N + 1
  BY <1>4, Zenon DEF PoolSeeking, AtAny, PoolInv, PoolSlots
<1> QED BY <1>5, PoolAssumption DEF Slots

\* A slot is taken by one that looked for it ...
LEMMA PoolTake ==
  ASSUME PoolInv, NEW t \in Threads, poolpc[t] \in PoolChoosing, index[t] \in available,
         available' = available \ {index[t]}, Go(t, "guard", index[t]),
         UNCHANGED <<permits, filled, poolseen>>
  PROVE  PoolInv'
<1>1. PoolGoto(t, "guard") /\ index' = index
  BY DEF Go, PoolInv, PoolTypeOK
<1>2. PoolTypeOK'
  BY <1>1 DEF PoolInv, PoolTypeOK, PoolGoto
<1>3. \A u \in Threads : poolpc'[u] = IF u = t THEN "guard" ELSE poolpc[u]
  BY <1>1, Zenon DEF PoolInv, PoolTypeOK, PoolGoto
<1>4. PoolAlone'
  BY <1>3, Zenon DEF PoolInv, PoolAlone, PoolFilling, PoolChoosing
<1>5. PoolSlots'
  BY <1>1, <1>3, Zenon DEF PoolInv, PoolTypeOK, PoolSlots, PoolChoosing
<1>6. /\ Cardinality(AtAny(PoolCounted)) \in Nat
      /\ IsFiniteSet(available) /\ Cardinality(available) \in Nat
  BY PoolFinite, Zenon DEF PoolInv
<1>7. PoolPermits'
  <2>1. Cardinality(AtAny(PoolCounted))' = Cardinality(AtAny(PoolCounted)) + 0 - 1
    BY <1>1, PoolMoves DEF PoolInv, PoolCounted, PoolChoosing
  <2>2. Cardinality(available \ {index[t]}) = Cardinality(available) - 1
    BY <1>6, FS_RemoveElement, Zenon
  <2>3. PICK a, c : a = Cardinality(available) /\ c = Cardinality(AtAny(PoolCounted))
    OBVIOUS
  <2>4. Cardinality(AtAny(PoolCounted))' = c + 0 - 1 /\ Cardinality(available)' = a - 1
    BY <2>1, <2>2, <2>3, Zenon
  <2>5. a = permits + c /\ permits \in Nat /\ c \in Nat
    BY <1>6, <2>3, Zenon DEF PoolInv, PoolTypeOK, PoolPermits
  <2>6. a - 1 = permits + (c + 0 - 1)
    BY <2>5
  <2>7. permits' = permits
    OBVIOUS
  <2> QED BY <2>4, <2>6, <2>7, Zenon DEF PoolPermits
<1>8. ASSUME NEW k \in 1 .. N + 1
      PROVE  Cardinality(PoolSeeking(k))' <= Cardinality(PoolLeft(k))'
  <2>1. /\ IsFiniteSet(PoolSeeking(k)) /\ Cardinality(PoolSeeking(k)) \in Nat
        /\ IsFiniteSet(PoolLeft(k)) /\ Cardinality(PoolLeft(k)) \in Nat
        /\ Cardinality(PoolSeeking(k)) <= Cardinality(PoolLeft(k))
    BY PoolFinite, Zenon DEF PoolInv, PoolAhead
  <2>2. index[t] \in 1 .. N
    BY PoolFinds, Zenon DEF Slots
  <2>3. CASE k <= index[t]
    <3>1. PoolSeeking(k)' = PoolSeeking(k) \ {t} /\ t \in PoolSeeking(k)
      BY <1>1, <1>3, <2>2, <2>3, Zenon DEF PoolSeeking, AtAny, PoolChoosing
    <3>2. PoolLeft(k)' = PoolLeft(k) \ {index[t]} /\ index[t] \in PoolLeft(k)
      BY <2>2, <2>3 DEF PoolLeft
    <3>3. Cardinality(PoolSeeking(k) \ {t}) = Cardinality(PoolSeeking(k)) - 1
      BY <2>1, <3>1, FS_RemoveElement, Zenon
    <3>4. Cardinality(PoolLeft(k) \ {index[t]}) = Cardinality(PoolLeft(k)) - 1
      BY <2>1, <3>2, FS_RemoveElement, Zenon
    <3>5. PICK s, l : s = Cardinality(PoolSeeking(k)) /\ l = Cardinality(PoolLeft(k))
      OBVIOUS
    <3>6. Cardinality(PoolSeeking(k))' = s - 1 /\ Cardinality(PoolLeft(k))' = l - 1
      BY <3>1, <3>2, <3>3, <3>4, <3>5, Zenon
    <3>7. s \in Nat /\ l \in Nat /\ s <= l
      BY <2>1, <3>5, Zenon
    <3>8. s - 1 <= l - 1
      BY <3>7
    <3> QED BY <3>6, <3>8, Zenon
  <2>4. CASE ~(k <= index[t])
    <3>1. PoolSeeking(k)' = PoolSeeking(k)
      BY <1>1, <1>3, <2>2, <2>4, Zenon DEF PoolSeeking, AtAny, PoolChoosing
    <3>2. PoolLeft(k)' = PoolLeft(k)
      BY <2>2, <2>4 DEF PoolLeft
    <3> QED BY <2>1, <3>1, <3>2, Zenon
  <2> QED BY <2>3, <2>4, Zenon
<1> QED BY <1>2, <1>4, <1>5, <1>7, <1>8, Zenon DEF PoolInv, PoolAhead

\* ... or is passed over when its flag is not set, which leaves as many ahead.
LEMMA PoolPass ==
  ASSUME PoolInv, NEW t \in Threads, poolpc[t] \in PoolChoosing, index[t] \notin available,
         Go(t, poolpc[t], index[t] + 1), UNCHANGED <<permits, available, filled, poolseen>>
  PROVE  PoolInv'
<1>1. poolpc' = poolpc /\ index' = [index EXCEPT ![t] = index[t] + 1]
  BY Zenon DEF Go, PoolGoto, PoolInv, PoolTypeOK
<1>2. index[t] \in 1 .. N
  BY PoolFinds DEF Slots
<1>3. PoolTypeOK'
  BY <1>1, <1>2, PoolAssumption DEF PoolInv, PoolTypeOK
<1>4. \A u \in Threads : index'[u] = IF u = t THEN index[t] + 1 ELSE index[u]
  BY <1>1 DEF PoolInv, PoolTypeOK
<1>5. PoolAlone'
  BY <1>1 DEF PoolInv, PoolAlone
<1>6. PoolSlots'
  BY <1>1, <1>2, <1>4, PoolAssumption DEF PoolInv, PoolSlots, PoolChoosing
<1>7. PoolPermits'
  BY <1>1 DEF PoolInv, PoolPermits, AtAny
<1>8. ASSUME NEW k \in 1 .. N + 1
      PROVE  Cardinality(PoolSeeking(k))' <= Cardinality(PoolLeft(k))'
  <2>1. PoolLeft(k)' = PoolLeft(k)
    BY DEF PoolLeft
  <2>2. CASE k = index[t] + 1
    <3>1. PoolSeeking(k)' \subseteq PoolSeeking(index[t])
      BY <1>1, <1>2, <1>4, <2>2 DEF PoolSeeking, AtAny, PoolInv, PoolTypeOK
    <3>2. PoolLeft(k) = PoolLeft(index[t])
      BY <1>2, <2>2, PoolAssumption DEF PoolLeft
    <3>3. /\ IsFiniteSet(PoolSeeking(index[t])) /\ Cardinality(PoolSeeking(index[t])) \in Nat
          /\ Cardinality(PoolLeft(k)) \in Nat
      BY PoolFinite, Zenon DEF PoolInv
    <3>4. /\ Cardinality(PoolSeeking(k)') <= Cardinality(PoolSeeking(index[t]))
          /\ IsFiniteSet(PoolSeeking(k)')
      BY <3>1, <3>3, FS_Subset, Zenon
    <3>5. Cardinality(PoolSeeking(index[t])) <= Cardinality(PoolLeft(index[t]))
      BY <1>2, PoolAssumption DEF PoolInv, PoolAhead
    <3>6. Cardinality(PoolSeeking(k)') \in Nat
      BY <3>4, FS_CardinalityType
    <3>7. PICK x, y, z : /\ x = Cardinality(PoolSeeking(k)') /\ z = Cardinality(PoolLeft(k))
                         /\ y = Cardinality(PoolSeeking(index[t]))
      OBVIOUS
    <3>8. x \in Nat /\ y \in Nat /\ z \in Nat /\ x <= y /\ y <= z
      BY <3>2, <3>3, <3>4, <3>5, <3>6, <3>7, Zenon
    <3>9. x <= z
      BY <3>8
    <3> QED BY <2>1, <3>7, <3>9, Zenon
  <2>3. CASE k # index[t] + 1
    <3>1. PoolSeeking(k)' = PoolSeeking(k)
      BY <1>1, <1>2, <1>4, <2>3 DEF PoolSeeking, AtAny, PoolInv, PoolTypeOK
    <3> QED BY <2>1, <3>1 DEF PoolInv, PoolAhead
  <2> QED BY <2>2, <2>3
<1> QED BY <1>3, <1>5, <1>6, <1>7, <1>8, Zenon DEF PoolInv, PoolAhead

\* Every step of the loop over the slots is one of the two.
LEMMA PoolChoose ==
  ASSUME PoolInv, NEW t \in Threads, Choose(t)
  PROVE  PoolInv'
<1>1. poolpc[t] \in PoolChoosing /\ UNCHANGED <<permits, filled, poolseen>>
  BY Zenon DEF Choose, PoolAt, PoolChoosing
<1>2. ~(index[t] > N)
  BY <1>1, PoolFinds, PoolAssumption DEF Slots
<1>3. \/ /\ index[t] \in available /\ available' = available \ {index[t]}
         /\ Go(t, "guard", index[t])
      \/ /\ index[t] \notin available /\ UNCHANGED available
         /\ Go(t, poolpc[t], index[t] + 1)
  BY <1>2, Zenon DEF Choose
<1> QED BY <1>1, <1>3, PoolTake, PoolPass, Zenon

\* A pool that is not filled and used at the same time keeps its slots, for
\* every number of slots and every finite set of threads: a guard has a slot to
\* itself, the permits match the available slots, and a thread with a permit
\* finds a slot in one pass.
THEOREM PoolIsConserved ==
  ASSUME Refill = FALSE
  PROVE  PoolSpec => []PoolConserved
<1>1. PoolInit => PoolInv
  <2>1. ASSUME PoolInit  PROVE PoolInv
    <3>1. PoolTypeOK /\ PoolAlone /\ PoolSlots
      BY <2>1, PoolAssumption
         DEF PoolInit, PoolTypeOK, PoolAlone, PoolSlots, PoolFilling, PoolChoosing
    <3>2. /\ AtAny(PoolCounted) = {} /\ available = {} /\ permits = 0
          /\ \A k : PoolSeeking(k) = {}
      BY <2>1 DEF PoolInit, AtAny, PoolSeeking, PoolCounted, PoolChoosing
    <3>3. \A k : PoolLeft(k) = {}
      BY <3>2 DEF PoolLeft
    <3>4. Cardinality({}) = 0
      BY FS_EmptySet
    <3>5. PoolPermits /\ PoolAhead
      BY <3>2, <3>3, <3>4 DEF PoolPermits, PoolAhead
    <3> QED BY <3>1, <3>5, Zenon DEF PoolInv
  <2> QED BY <2>1
<1>2. PoolInv /\ [PoolNext]_poolVars => PoolInv'
  <2>1. ASSUME PoolInv, NEW t \in Threads,
               \/ Load(t) \/ CompareExchange(t) \/ release(t) \/ PoolCall(t) \/ Add(t)
               \/ Store(t) \/ SetAvailable(t) \/ Choose(t)
        PROVE  PoolInv'
    BY <2>1, PoolLoad, PoolCompareExchange, PoolRelease, PoolBegin, PoolAdd, PoolStore,
       PoolSetAvailable, PoolChoose, Zenon
  <2>2. ASSUME PoolInv, UNCHANGED poolVars  PROVE PoolInv'
    BY <2>2 DEF poolVars, PoolInv, PoolTypeOK, PoolAlone, PoolSlots, PoolPermits, PoolAhead,
                PoolSeeking, PoolLeft, AtAny
  <2> QED BY <2>1, <2>2 DEF PoolNext
<1>3. PoolInv => PoolConserved
  <2>1. ASSUME PoolInv  PROVE PoolConserved
    <3>1. \A t \in AtAny({"guard"}) :
            /\ index[t] \in filled \ available
            /\ \A u \in AtAny({"guard", "store", "set"}) \ {t} : index[u] # index[t]
      BY <2>1, Zenon DEF PoolInv, PoolSlots, PoolAlone, PoolFilling, AtAny
    <3>2. \A t \in AtAny({"choose", "try_choose"}) : index[t] <= N
      BY <2>1, PoolFinds, PoolAssumption DEF AtAny, PoolChoosing, Slots
    <3> QED BY <2>1, <3>1, <3>2, Zenon DEF PoolConserved, PoolInv, PoolPermits, PoolCounted
  <2> QED BY <2>1
<1> QED BY <1>1, <1>2, <1>3, PTL DEF PoolSpec
=============================================================================
