--------------------------- MODULE FatFileProofs ----------------------------
(***************************************************************************)
(* Files and their chains, for every number of clusters, handles and names *)
(* and every size of a cluster: the chains of Fat32 stay apart and long    *)
(* enough, and what was written is read back.                              *)
(***************************************************************************)
EXTENDS FatTableProofs

-----------------------------------------------------------------------------
(* Writing and truncating *)

\* A step of a handle on its file, of which the chain may come to start elsewhere.
LEMMA HandleStep ==
  ASSUME FatInv, NEW h \in Handles, handle[h] # NoHandle,
         NEW d, NEW i, IsOn(h, d, i),
         NEW e, SetAt(dir', dir, d, i, e), IsEntry(e), e.kind = "file",
         NEW file, SetAt(content', content, d, i, file), file \in Seq(Int),
         DOMAIN data' = Clusters,
         DOMAIN handle' = Handles, \A g \in Handles : g # h => handle'[g] = handle[g],
         handle'[h] \in OpenHandle, IsOn(h, d, i)', handle'[h].size = e.size,
         e.cluster = handle'[h].start \/ (e.cluster = 0 /\ e.size = 0),
         NEW Gone, \A b \in Gone : b = handle[h].start,
         NEW Come, \A b \in Clusters : b = handle'[h].start => b \in Come,
         Come \cap (Heads \ Gone) = {},
         LinksSound(fat', (Heads \ Gone) \cup Come),
         \A c \in Heads \ Gone :
           /\ ReadChain(fat', c) = ReadChain(fat, c)
           /\ \A b \in InChain(fat, c) : SameData(b),
         HoldsFile(ReadChain(fat', e.cluster), data', e.size, file)
  PROVE  FatInv'
<1>1. FatTypes /\ HandlesSound /\ DirectoryEntries /\ HandleSound(h)
  BY Zenon DEF FatInv, HandlesSound
<1>2. d \in Clusters /\ i \in 1 .. Slots
  BY <1>1 DEF FatTypes, OpenHandle, IsOn
<1>3. d \in Directories /\ dir[d][i].kind = "file"
  BY <1>1, Zenon DEF HandleSound, IsOn
<1>4. /\ dir'[d][i] = e /\ content'[d][i] = file
      /\ \A c \in Clusters, j \in 1 .. Slots :
           ~(c = d /\ j = i) => dir'[c][j] = dir[c][j] /\ content'[c][j] = content[c][j]
  BY Zenon DEF SetAt
<1>5. FatTypes'
  <2>1. \A g \in Handles : handle'[g] = NoHandle \/ handle'[g] \in OpenHandle
    BY <1>1, Zenon DEF FatTypes
  <2> QED BY <1>1, <1>2, <2>1, TypesKept, Zenon
<1>6. "file" # "dir"
  OBVIOUS
<1>7. DirectoryEntries'
  BY <1>1, <1>4, <1>6 DEF DirectoryEntries
<1>8. Directories \subseteq Directories'
  <2>1. root_cluster \in Clusters
    BY <1>1, DirectoriesAreClusters, Zenon
  <2> QED BY <1>2, <1>3, <1>4, <1>6, <2>1, DirectoriesKept, Zenon
<1>9. \A g \in Handles : g # h /\ handle[g] # NoHandle => ~IsOn(g, d, i)
  BY <1>1, Zenon DEF HandlesSound, IsOn
<1>10. HandlesSound'
  <2>1. HandleSound(h)'
    <3>1. handle'[h].dir = d /\ handle'[h].slot = i
      BY Zenon DEF IsOn
    <3> QED BY <1>3, <1>4, <1>8, <3>1 DEF HandleSound
  <2>2. \A c \in Clusters, j \in 1 .. Slots :
          ~(c = d /\ j = i) /\ dir[c][j].kind = "file" => dir'[c][j] = dir[c][j]
    BY <1>4, Zenon
  <2> QED BY <1>1, <1>8, <1>9, <2>1, <2>2, HandlesKept
<1>11. \A b \in Gone : Leads(d, i, b)
  BY <1>2, <1>3 DEF Leads, InUseKinds, IsOn
<1>12. ASSUME NEW b \in Clusters, Leads(d, i, b)' PROVE b \in Come
  <2>1. b # 0
    BY NoCluster
  <2>2. CASE dir'[d][i].cluster = b
    BY <1>4, <2>1, <2>2
  <2>3. CASE \E g \in Handles : IsOn(g, d, i)' /\ handle'[g].start = b
    <3>1. PICK g \in Handles : IsOn(g, d, i)' /\ handle'[g].start = b
      BY <2>3
    <3>2. CASE g = h
      BY <3>1, <3>2
    <3>3. CASE g # h
      <4>1. IsOn(g, d, i) /\ handle'[g] = handle[g]
        BY <3>1, <3>3, Zenon DEF IsOn
      <4>2. handle[g] # NoHandle
        BY <1>1, <1>2, <4>1, NoHandleFacts, Zenon
      <4> QED BY <1>9, <3>3, <4>1, <4>2, Zenon
    <3> QED BY <3>2, <3>3
  <2> QED BY <1>12, <2>2, <2>3, Zenon DEF Leads
<1>13. \A g \in Handles : handle'[g] # NoHandle /\ ~IsOn(g, d, i)' => handle'[g] = handle[g]
  OBVIOUS
<1>14. \A c \in Clusters, j \in 1 .. Slots :
         ~(c = d /\ j = i) /\ dir'[c][j].kind \in InUseKinds
           => dir'[c][j] = dir[c][j] /\ content'[c][j] = content[c][j]
  BY <1>4, Zenon
<1>15. HoldsFile(ReadChain(fat', dir'[d][i].cluster), data', dir'[d][i].size, content'[d][i])
  BY <1>4
<1> QED BY <1>5, <1>7, <1>10, <1>11, <1>12, <1>13, <1>14, <1>15, OneEntryStep, Zenon

\* A chain of this many clusters has room for the size.
LEMMA NeededFacts ==
  ASSUME NEW size \in Nat
  PROVE  /\ Needed(size) \in Nat /\ size <= Needed(size) * cluster_size
         /\ size # 0 => Needed(size) # 0
<1>1. cluster_size \in Nat /\ cluster_size > 0
  BY FatAssumption
<1>2. PICK q : q = (size + cluster_size - 1) \div cluster_size
  OBVIOUS
<1>3. PICK r : r = (size + cluster_size - 1) % cluster_size
  OBVIOUS
<1>4. q \in Int /\ r \in 0 .. cluster_size - 1 /\ size + cluster_size - 1 = cluster_size * q + r
  BY <1>1, <1>2, <1>3
<1>5. PICK p : p = cluster_size * q
  OBVIOUS
<1>6. p \in Int /\ size <= p
  BY <1>1, <1>4, <1>5
<1>7. q >= 0
  BY <1>1, <1>4, <1>5, <1>6
<1>8. size # 0 => q # 0
  BY <1>1, <1>4, <1>5, <1>6
<1>9. q * cluster_size = p
  BY <1>1, <1>4, <1>5
<1> QED BY <1>2, <1>4, <1>6, <1>7, <1>8, <1>9 DEF Needed

\* A position of the file is in a cluster that the file fills.
LEMMA WithinChain ==
  ASSUME NEW k \in Nat, k # 0, NEW j \in 1 .. cluster_size, NEW len \in Nat,
         (k - 1) * cluster_size + j <= len * cluster_size
  PROVE  k <= len
<1>1. cluster_size \in Nat
  BY FatAssumption
<1>2. SUFFICES ASSUME k > len PROVE FALSE
  OBVIOUS
<1>3. (k - 1) * cluster_size >= len * cluster_size
  BY <1>1, <1>2
<1>4. (k - 1) * cluster_size \in Int /\ len * cluster_size \in Int
  BY <1>1
<1> QED BY <1>1, <1>3, <1>4

LEMMA PositionFacts ==
  ASSUME NEW k \in Nat, k # 0, NEW j \in 1 .. cluster_size, NEW n \in Nat,
         NEW p, p = (k - 1) * cluster_size + j
  PROVE  p \in Nat /\ p >= 1 /\ (p <= n => p \in 1 .. n)
<1>1. cluster_size \in Nat
  BY FatAssumption
<1>2. PICK q : q = (k - 1) * cluster_size
  OBVIOUS
<1>3. q \in Nat
  BY <1>1, <1>2
<1> QED BY <1>2, <1>3

\* A byte that was written is in the chain.
At(p, k, j) == p = (k - 1) * cluster_size + j

LEMMA OldByte ==
  ASSUME NEW s, NEW D, NEW size, NEW file, HoldsFile(s, D, size, file), Len(file) \in Nat,
         Len(s) \in Nat, NEW k \in Nat, k # 0, NEW j \in 1 .. cluster_size,
         NEW p, At(p, k, j), p <= Len(file), file[p] \in 1 .. Slots
  PROVE  k \in 1 .. Len(s) /\ D[s[k]][j] = file[p]
<1>0. p = (k - 1) * cluster_size + j
  BY DEF At
<1>1. p \in Nat
  BY <1>0, PositionFacts
<1>2. PICK room : room = Len(s) * cluster_size
  OBVIOUS
<1>3. room \in Int /\ size <= room /\ size = Len(file)
  BY <1>2, FatAssumption DEF HoldsFile
<1>4. p <= Len(s) * cluster_size
  BY <1>1, <1>2, <1>3
<1>5. k \in 1 .. Len(s)
  BY <1>0, <1>4, WithinChain
<1>6. D[s[k]][j] = file[(k - 1) * cluster_size + j]
  BY <1>0, <1>5, Zenon DEF HoldsFile
<1> QED BY <1>0, <1>5, <1>6

\* The chain t has the clusters of s, as far as it goes.
HasRoom(t, n) == n <= Len(t) * cluster_size
Follows(t, s) == \A k \in 1 .. Len(s) : k <= Len(t) => t[k] = s[k]

\* The file cut or extended: the chain keeps what it has of the clusters.
LEMMA ResizedHeld ==
  ASSUME NEW s, NEW D, NEW size, NEW file, HoldsFile(s, D, size, file), file \in Seq(Int),
         Len(s) \in Nat, NEW t, Len(t) \in Nat, Follows(t, s),
         NEW n \in Nat, n <= Len(t) * cluster_size
  PROVE  HoldsFile(t, D, n, Resized(file, n)) /\ Resized(file, n) \in Seq(Int)
<1>1. PICK new : new = Resized(file, n)
  OBVIOUS
<1>2. /\ new \in Seq(Int) /\ Len(new) = n
      /\ \A p \in 1 .. n : new[p] = IF p <= Len(file) THEN file[p] ELSE Unwritten
  BY <1>1 DEF Resized, Unwritten
<1>3. ASSUME NEW k \in 1 .. Len(t), NEW j \in 1 .. cluster_size,
             NEW p, p = (k - 1) * cluster_size + j, p <= n, new[p] \in 1 .. Slots
      PROVE  D[t[k]][j] = new[p]
  <2>1. p \in 1 .. n
    BY <1>3, PositionFacts
  <2>2. p <= Len(file) /\ new[p] = file[p]
    BY <1>2, <1>3, <2>1 DEF Unwritten
  <2>3. k \in 1 .. Len(s) /\ D[s[k]][j] = file[p]
    <3>1. At(p, k, j) /\ new[p] \in 1 .. Slots
      BY <1>3, Zenon DEF At
    <3> QED BY <2>2, <3>1, OldByte
  <2> QED BY <2>2, <2>3 DEF Follows
<1>4. \A k \in 1 .. Len(t), j \in 1 .. cluster_size :
        (k - 1) * cluster_size + j <= Len(new) /\ new[(k - 1) * cluster_size + j] \in 1 .. Slots
          => D[t[k]][j] = new[(k - 1) * cluster_size + j]
  BY <1>2, <1>3
<1> QED BY <1>1, <1>2, <1>4, Zenon DEF HoldsFile

\* A longer chain has more room.
LEMMA MoreRoom ==
  ASSUME NEW n \in Nat, NEW a \in Nat, NEW b \in Nat, a <= b, n <= a * cluster_size
  PROVE  n <= b * cluster_size
<1>1. cluster_size \in Nat
  BY FatAssumption
<1>2. a * cluster_size <= b * cluster_size
  BY <1>1
<1>3. a * cluster_size \in Int /\ b * cluster_size \in Int
  BY <1>1
<1> QED BY <1>2, <1>3

LEMMA MaxOfTwo ==
  ASSUME NEW a \in Nat, NEW b \in Nat, NEW n, n = Max({a, b})
  PROVE  n \in Nat /\ n >= a /\ n >= b /\ (n = a \/ n = b)
<1>1. \E x \in {a, b} : \A y \in {a, b} : x >= y
  OBVIOUS
<1> QED BY <1>1 DEF Max

Writes(t, c, j, offset, len) ==
  \E k \in 1 .. Len(t) : t[k] = c /\ (k - 1) * cluster_size + j \in offset + 1 .. offset + len

Distinct(t) == \A k, l \in 1 .. Len(t) : t[k] = t[l] => k = l

\* The bytes E after v was written to the chain t, and D before.
IsWritten(E, D, t, offset, len, v) ==
  \A k \in 1 .. Len(t), j \in 1 .. cluster_size :
    E[t[k]][j] = IF Writes(t, t[k], j, offset, len) THEN v ELSE D[t[k]][j]

\* The file written to: the bytes v, and the others as they were.
LEMMA WrittenHeld ==
  ASSUME NEW s, NEW D, NEW size \in Nat, NEW file, HoldsFile(s, D, size, file), file \in Seq(Int),
         Len(s) \in Nat, NEW t, Len(t) \in Nat, Len(t) >= Len(s), Follows(t, s), Distinct(t),
         NEW offset \in Nat, NEW len \in Nat, offset + len <= Len(t) * cluster_size, NEW v \in Int,
         NEW E, IsWritten(E, D, t, offset, len, v)
  PROVE  /\ HoldsFile(t, E, Max({size, offset + len}), Overwritten(file, offset, len, v))
         /\ Overwritten(file, offset, len, v) \in Seq(Int)
<1>n. PICK n : n = Max({size, offset + len})
  OBVIOUS
<1>new. PICK new : new = Overwritten(file, offset, len, v)
  OBVIOUS
<1>1. size = Len(file) /\ size <= Len(s) * cluster_size /\ offset + len \in Nat
  BY DEF HoldsFile
<1>2. n \in Nat /\ n >= size /\ n >= offset + len /\ (n = size \/ n = offset + len)
  BY <1>n, <1>1, MaxOfTwo
<1>3. /\ new \in Seq(Int) /\ Len(new) = n
      /\ \A p \in 1 .. n : new[p] = IF p \in offset + 1 .. offset + len THEN v
                                    ELSE IF p <= Len(file) THEN file[p] ELSE Unwritten
  <2>1. n = Max({Len(file), offset + len})
    BY <1>n, <1>1
  <2>2. new = [p \in 1 .. n |-> IF p \in offset + 1 .. offset + len THEN v
                                ELSE IF p <= Len(file) THEN file[p] ELSE Unwritten]
    BY <1>new, <2>1, Zenon DEF Overwritten
  <2> QED BY <1>2, <2>2 DEF Unwritten
<1>4. n <= Len(t) * cluster_size
  BY <1>1, <1>2, MoreRoom
<1>5. ASSUME NEW k \in 1 .. Len(t), NEW j \in 1 .. cluster_size,
             NEW p, p = (k - 1) * cluster_size + j, p <= n, new[p] \in 1 .. Slots
      PROVE  E[t[k]][j] = new[p]
  <2>1. p \in 1 .. n
    BY <1>2, <1>5, PositionFacts
  <2>2. Writes(t, t[k], j, offset, len) <=> p \in offset + 1 .. offset + len
    BY <1>5, Zenon DEF Writes, Distinct
  <2>3. CASE p \in offset + 1 .. offset + len
    <3>1. E[t[k]][j] = v
      BY <2>2, <2>3, Zenon DEF IsWritten
    <3> QED BY <1>3, <2>1, <2>3, <3>1, Zenon
  <2>4. CASE p \notin offset + 1 .. offset + len
    <3>1. new[p] \in 1 .. Slots
      BY <1>5
    <3>2. p <= Len(file) /\ new[p] = file[p]
      BY <1>3, <2>1, <2>4, <3>1 DEF Unwritten
    <3>3. k \in Nat /\ k # 0 /\ Len(file) \in Nat /\ file[p] \in 1 .. Slots
      BY <3>1, <3>2
    <3>4. k \in 1 .. Len(s) /\ D[s[k]][j] = file[p]
      <4>1. At(p, k, j)
        BY <1>5, Zenon DEF At
      <4> QED BY <3>2, <3>3, <4>1, OldByte
    <3>5. E[t[k]][j] = D[t[k]][j]
      BY <2>2, <2>4, Zenon DEF IsWritten
    <3>6. t[k] = s[k]
      BY <3>4 DEF Follows
    <3> QED BY <3>2, <3>4, <3>5, <3>6, Zenon
  <2> QED BY <2>3, <2>4
<1>6. ASSUME NEW k \in 1 .. Len(t), NEW j \in 1 .. cluster_size,
             (k - 1) * cluster_size + j <= Len(new), new[(k - 1) * cluster_size + j] \in 1 .. Slots
      PROVE  E[t[k]][j] = new[(k - 1) * cluster_size + j]
  <2>1. PICK p : p = (k - 1) * cluster_size + j
    OBVIOUS
  <2>2. p <= n /\ new[p] \in 1 .. Slots
    BY <1>3, <1>6, <2>1, Zenon
  <2>3. E[t[k]][j] = new[p]
    BY <1>5, <2>1, <2>2
  <2> QED BY <2>1, <2>3, Zenon
<1>7. HoldsFile(t, E, n, new)
  BY <1>3, <1>4, <1>6, Zenon DEF HoldsFile
<1> QED BY <1>n, <1>new, <1>3, <1>7

LEMMA FirstSound ==
  ASSUME NEW f, NEW S, LinksSound(f, S), NEW old \in S \cup {0},
         old \in Clusters \/ Free(f) # {},
         NEW start, start = FirstOf(f, old), NEW g, g = WithFirst(f, old)
  PROVE  /\ start \in Clusters /\ LinksSound(g, S \cup {start})
         /\ old \in Clusters => start = old /\ g = f
         /\ old \notin Clusters => start \notin S
         /\ \A b \in Clusters : g[b] = f[b] \/ f[b] = FAT_FREE
<1>1. CASE old \in Clusters
  <2>1. start = old /\ g = f
    BY <1>1, Zenon DEF FirstOf, WithFirst
  <2>2. old \in S
    BY <1>1, NoCluster
  <2>3. S \cup {start} = S
    BY <2>1, <2>2
  <2> QED BY <1>1, <2>1, <2>3
<1>2. CASE old \notin Clusters
  <2>1. start = Min(Free(f)) /\ g = alloc_clusters(f, 1) /\ Free(f) # {}
    BY <1>2, Zenon DEF FirstOf, WithFirst
  <2>2. start \in Clusters /\ IsAllocated(f, Lowest(f, 1), g, start)
    BY <2>1, AllocOne
  <2> QED BY <1>2, <2>2, AllocSound
<1> QED BY <1>1, <1>2

LEMMA GrowSound ==
  ASSUME NEW f, NEW S, LinksSound(f, S), NEW start \in S, NEW need \in Nat,
         Room(f, start, need), NEW g, g = Grown(f, start, need), NEW s, s = ReadChain(f, start)
  PROVE  /\ LinksSound(g, S)
         /\ \A b \in Clusters : g[b] = f[b] \/ f[b] = FAT_FREE \/ b \in InChain(f, start)
         /\ Len(ReadChain(g, start)) >= need /\ Len(ReadChain(g, start)) >= Len(s)
         /\ \A k \in 1 .. Len(s) : ReadChain(g, start)[k] = s[k]
<1>1. IsChain(f, start, s) /\ IsChain(g, start, ReadChain(g, start))
  BY ChainFacts
<1>2. Len(s) \in Nat /\ Len(ReadChain(g, start)) \in Nat
  BY <1>1, Zenon DEF IsChain
<1>3. CASE need > Len(s)
  <2>1. PICK count : count = need - Len(s)
    OBVIOUS
  <2>2. count \in Nat /\ count # 0 /\ Len(s) + count = need
    BY <1>2, <1>3, <2>1
  <2>3. count <= Cardinality(Free(f))
    BY <1>2, <1>3, <2>1, FreeIsFinite, FS_CardinalityType DEF Room
  <2>4. g = extend_chain(f, s[Len(s)], count)
    BY <1>3, <2>1, Zenon DEF Grown
  <2>5. /\ LinksSound(g, S)
        /\ \A b \in Clusters : g[b] = f[b] \/ f[b] = FAT_FREE \/ b \in InChain(f, start)
        /\ Len(ReadChain(g, start)) >= Len(s) + count
        /\ \A k \in 1 .. Len(s) : ReadChain(g, start)[k] = s[k]
    BY <2>2, <2>3, <2>4, ExtendSound
  <2> QED BY <1>2, <2>2, <2>5
<1>4. CASE ~(need > Len(s))
  <2>1. g = f
    BY <1>4, Zenon DEF Grown
  <2> QED BY <1>2, <1>4, <2>1
<1> QED BY <1>3, <1>4

\* The chain t of a file that was at old, after it was extended in the table g.
Extended(g, t, old, start, need) ==
  /\ start \in Clusters
  /\ LinksSound(g, (Heads \ {b \in Clusters : b = old}) \cup {start})
  /\ {start} \cap (Heads \ {b \in Clusters : b = old}) = {}
  /\ \A c \in Heads \ {b \in Clusters : b = old} :
       ReadChain(g, c) = ReadChain(fat, c) /\ \A k \in 1 .. Len(t) : t[k] \notin InChain(fat, c)
  /\ t = ReadChain(g, start) /\ Len(t) \in Nat /\ Len(t) >= need
  /\ Distinct(t)
  /\ Len(t) >= Len(ReadChain(fat, old)) /\ Follows(t, ReadChain(fat, old))

LEMMA ExtendedFacts ==
  ASSUME LinksSound(fat, Heads), NEW old \in Heads \cup {0}, NEW need \in Nat,
         old \in Clusters \/ Free(fat) # {},
         NEW start, start = FirstOf(fat, old), NEW f, f = WithFirst(fat, old),
         Room(f, start, need), NEW g, g = Grown(f, start, need),
         NEW t, t = ReadChain(g, start)
  PROVE  Extended(g, t, old, start, need)
<1>1. PICK S : S = Heads \cup {start}
  BY Zenon
<1>2. PICK Gone : Gone = {b \in Clusters : b = old}
  BY Zenon
<1>3. /\ start \in Clusters /\ LinksSound(f, S)
      /\ old \in Clusters => start = old /\ f = fat
      /\ old \notin Clusters => start \notin Heads
      /\ \A b \in Clusters : f[b] = fat[b] \/ fat[b] = FAT_FREE
  BY <1>1, FirstSound
<1>4. start \in S
  BY <1>1
<1>5. PICK s : s = ReadChain(f, start)
  OBVIOUS
<1>6. /\ LinksSound(g, S)
      /\ \A b \in Clusters : g[b] = f[b] \/ f[b] = FAT_FREE \/ b \in InChain(f, start)
      /\ Len(t) >= need /\ Len(t) >= Len(s)
      /\ \A k \in 1 .. Len(s) : t[k] = s[k]
  BY <1>3, <1>4, <1>5, GrowSound
<1>13. IsChain(g, start, t)
  BY ChainFacts
<1>7. Len(t) \in Nat
  BY <1>13, Zenon DEF IsChain
<1>8. \A k, l \in 1 .. Len(t) : t[k] = t[l] => k = l
  <2>1. Injective(g) /\ NotLinked(g, start)
    BY <1>4, <1>6, Zenon DEF LinksSound
  <2> QED BY <1>13, <2>1, ChainEnds
<1>9. Heads \subseteq Clusters /\ old \in Clusters \cup {0}
  BY DEF Heads
<1>10. S = (Heads \ Gone) \cup {start} /\ {start} \cap (Heads \ Gone) = {}
  BY <1>1, <1>2, <1>3, <1>9, NoCluster
<1>11. ASSUME NEW c \in Heads \ Gone
       PROVE  ReadChain(g, c) = ReadChain(fat, c) /\ \A k \in 1 .. Len(t) : t[k] \notin InChain(fat, c)
  <2>1. c \in Heads /\ c \in S /\ c # start /\ c # 0 /\ 0 \in Heads \cup {0} /\ start \in S \cup {0}
    BY <1>1, <1>9, <1>10, NoCluster
  <2>2. ReadChain(f, c) = ReadChain(fat, c)
    BY <1>3, <2>1, Elsewhere
  <2>3. ReadChain(g, c) = ReadChain(f, c)
    BY <1>3, <1>6, <2>1, Elsewhere
  <2>4. InChain(g, c) \cap InChain(g, start) = {}
    BY <1>6, <2>1, Elsewhere
  <2>5. InChain(g, c) = InChain(fat, c) /\ \A k \in 1 .. Len(t) : t[k] \in InChain(g, start)
    BY <2>2, <2>3, Zenon DEF InChain
  <2> QED BY <2>2, <2>3, <2>4, <2>5
<1>12. /\ Len(t) >= Len(ReadChain(fat, old))
       /\ \A k \in 1 .. Len(ReadChain(fat, old)) : t[k] = ReadChain(fat, old)[k]
  <2>1. CASE old \in Clusters
    BY <1>3, <1>5, <1>6, <2>1
  <2>2. CASE old \notin Clusters
    <3>1. old = 0 /\ Len(ReadChain(fat, 0)) = 0
      BY <1>9, <2>2, EmptyChain
    <3> QED BY <1>7, <3>1
  <2> QED BY <2>1, <2>2
<1>14. Distinct(t) /\ Follows(t, ReadChain(fat, old))
  BY <1>8, <1>12, Zenon DEF Distinct, Follows
<1> QED BY <1>2, <1>3, <1>6, <1>7, <1>10, <1>11, <1>12, <1>14 DEF Extended

\* The entry and the handle after update_dir_entry().
LEMMA Updated ==
  ASSUME FatTypes, NEW h \in Handles, handle[h] # NoHandle, NEW start \in MaybeCluster,
         NEW size \in Nat, UpdateEntry(h, start, size), NEW d, NEW i, IsOn(h, d, i)
  PROVE  /\ \E e : /\ SetAt(dir', dir, d, i, e) /\ IsEntry(e)
                   /\ e.kind = dir[d][i].kind /\ e.cluster = start /\ e.size = size
         /\ DOMAIN handle' = Handles /\ \A g \in Handles : g # h => handle'[g] = handle[g]
         /\ handle'[h] \in OpenHandle /\ IsOn(h, d, i)'
         /\ handle'[h].start = start /\ handle'[h].size = size
<1>1. handle[h] \in OpenHandle /\ DOMAIN handle = Handles
  BY Zenon DEF FatTypes
<1>2. handle[h].dir = d /\ handle[h].slot = i
  BY Zenon DEF IsOn
<1>3. d \in Clusters /\ i \in 1 .. Slots
  BY <1>1, <1>2 DEF OpenHandle
<1>4. handle' = [handle EXCEPT ![h].start = start, ![h].size = size]
  BY Zenon DEF UpdateEntry
<1>5. dir' = [dir EXCEPT ![d][i].cluster = start, ![d][i].size = size]
  BY <1>2, Zenon DEF UpdateEntry
<1>6. PICK k : k = handle[h]
  OBVIOUS
<1>7. PICK m : m = [k EXCEPT !.start = start, !.size = size]
  OBVIOUS
<1>8. /\ m \in OpenHandle /\ m.dir = k.dir /\ m.slot = k.slot /\ m.start = start /\ m.size = size
  BY <1>1, <1>6, <1>7, Zenon DEF OpenHandle
<1>9. handle'[h] = m /\ DOMAIN handle' = Handles /\ \A g \in Handles : g # h => handle'[g] = handle[g]
  BY <1>1, <1>4, <1>6, <1>7
<1>10. PICK o : o = dir[d][i]
  OBVIOUS
<1>11. PICK e : e = [o EXCEPT !.cluster = start, !.size = size]
  OBVIOUS
<1>12. IsEntry(o)
  BY <1>3, <1>10, Zenon DEF FatTypes, IsEntry
<1>13. IsEntry(e) /\ e.kind = o.kind /\ e.cluster = start /\ e.size = size
  BY <1>11, <1>12 DEF IsEntry, EntryFields
<1>14. DOMAIN dir = Clusters /\ \A c \in Clusters : DOMAIN dir[c] = 1 .. Slots
  BY Zenon DEF FatTypes
<1>15. SetAt(dir', dir, d, i, e)
  BY <1>3, <1>5, <1>10, <1>11, <1>14, Zenon DEF SetAt
<1> QED BY <1>2, <1>6, <1>8, <1>9, <1>10, <1>13, <1>15, Zenon DEF IsOn

\* What a handle says of its file.
LEMMA HandleFacts ==
  ASSUME FatInv, NEW h \in Handles, handle[h] # NoHandle
  PROVE  \E d \in Clusters, i \in 1 .. Slots :
           /\ d = handle[h].dir /\ i = handle[h].slot
           /\ IsOn(h, d, i) /\ dir[d][i].kind = "file"
           /\ IsEntry(dir[d][i]) /\ content[d][i] \in Seq(Int)
           /\ handle[h].start \in Heads \cup {0} /\ handle[h].start \in MaybeCluster
           /\ handle[h].size \in Nat /\ dir[d][i].size = handle[h].size
           /\ HoldsFile(ReadChain(fat, handle[h].start), data, handle[h].size, content[d][i])
           /\ dir[d][i].cluster = handle[h].start \/ (dir[d][i].cluster = 0 /\ handle[h].size = 0)
<1>1. FatTypes /\ HandlesSound /\ HandleSound(h) /\ FilesSound
  BY Zenon DEF FatInv, HandlesSound
<1>2. PICK d, i : d = handle[h].dir /\ i = handle[h].slot
  OBVIOUS
<1>3. /\ handle[h] \in OpenHandle /\ d \in Clusters /\ i \in 1 .. Slots
      /\ handle[h].start \in MaybeCluster /\ handle[h].size \in Nat
  BY <1>1, <1>2 DEF FatTypes, OpenHandle
<1>4. /\ IsOn(h, d, i) /\ dir[d][i].kind = "file" /\ dir[d][i].size = handle[h].size
      /\ dir[d][i].cluster = handle[h].start \/ (dir[d][i].cluster = 0 /\ handle[h].size = 0)
  BY <1>1, <1>2, Zenon DEF HandleSound, IsOn
<1>5. IsEntry(dir[d][i]) /\ content[d][i] \in Seq(Int)
  BY <1>1, <1>3, Zenon DEF FatTypes, IsEntry
<1>6. handle[h].start \in Clusters => Leads(d, i, handle[h].start)
  BY <1>3, <1>4, Zenon DEF Leads, InUseKinds
<1>7. handle[h].start \in Heads \cup {0}
  BY <1>3, <1>6 DEF Heads, MaybeCluster
<1>8. HoldsFile(ReadChain(fat, dir[d][i].cluster), data, handle[h].size, content[d][i])
  BY <1>1, <1>3, <1>4, Zenon DEF FilesSound
<1>9. HoldsFile(ReadChain(fat, handle[h].start), data, handle[h].size, content[d][i])
  <2>1. CASE dir[d][i].cluster = handle[h].start
    BY <1>8, <2>1
  <2>2. CASE dir[d][i].cluster = 0 /\ handle[h].size = 0
    <3>1. PICK s : s = ReadChain(fat, handle[h].start)
      OBVIOUS
    <3>2. Len(s) \in Nat
      BY <3>1, ChainFacts DEF IsChain
    <3>3. Len(content[d][i]) = 0
      BY <1>8, <2>2, Zenon DEF HoldsFile
    <3>4. 0 <= Len(s) * cluster_size
      BY <3>2, FatAssumption
    <3>5. ASSUME NEW k \in 1 .. Len(s), NEW j \in 1 .. cluster_size, (k - 1) * cluster_size + j <= 0
          PROVE FALSE
      BY <3>2, <3>5, PositionFacts
    <3> QED BY <2>2, <3>1, <3>3, <3>4, <3>5 DEF HoldsFile
  <2> QED BY <1>4, <2>1, <2>2
<1> QED BY <1>2, <1>3, <1>4, <1>5, <1>7, <1>9, Zenon

LEMMA WriteStep ==
  ASSUME FatInv, NEW h \in Handles, NEW offset \in Nat, NEW len \in Nat, write(h, offset, len)
  PROVE  FatInv'
<1>1. PICK old : old = handle[h].start
  OBVIOUS
<1>2. PICK start : start = FirstOf(fat, old)
  OBVIOUS
<1>3. PICK f : f = WithFirst(fat, old)
  OBVIOUS
<1>4. PICK need : need = Needed(offset + len)
  OBVIOUS
<1>5. PICK t : t = ReadChain(Grown(f, start, need), start)
  OBVIOUS
<1>6. PICK size : size = Max({handle[h].size, offset + len})
  OBVIOUS
<1>7. /\ handle[h] # NoHandle /\ (old \in Clusters \/ Free(fat) # {})
      /\ Room(f, start, need) /\ fat' = Grown(f, start, need)
      /\ UpdateEntry(h, start, size)
  BY <1>1, <1>2, <1>3, <1>4, <1>6 DEF write
<1>a. data' = [c \in Clusters |-> [i \in 1 .. cluster_size |->
           IF Writes(t, c, i, offset, len) THEN handle[h].slot ELSE data[c][i]]]
  BY <1>1, <1>2, <1>3, <1>4, <1>5 DEF write, Writes
<1>b. content' = [content EXCEPT ![handle[h].dir][handle[h].slot] =
                    Overwritten(@, offset, len, handle[h].slot)]
  BY DEF write
<1>8. PICK d \in Clusters, i \in 1 .. Slots :
        /\ d = handle[h].dir /\ i = handle[h].slot
        /\ IsOn(h, d, i) /\ dir[d][i].kind = "file"
        /\ IsEntry(dir[d][i]) /\ content[d][i] \in Seq(Int)
        /\ old \in Heads \cup {0} /\ old \in MaybeCluster
        /\ handle[h].size \in Nat /\ dir[d][i].size = handle[h].size
        /\ HoldsFile(ReadChain(fat, old), data, handle[h].size, content[d][i])
  BY <1>1, <1>7, HandleFacts, Zenon
<1>9. FatTypes /\ LinksSound(fat, Heads)
  BY Zenon DEF FatInv
<1>10. offset + len \in Nat /\ need \in Nat /\ offset + len <= need * cluster_size
  BY <1>4, NeededFacts
<1>11. Extended(fat', t, old, start, need)
  BY <1>2, <1>3, <1>5, <1>7, <1>8, <1>9, <1>10, ExtendedFacts, Zenon
<1>12. PICK Gone : Gone = {b \in Clusters : b = old}
  BY Zenon
<1>13. PICK Come : Come = {start}
  BY Zenon
<1>14. /\ start \in Clusters /\ t = ReadChain(fat', start) /\ Len(t) \in Nat /\ Len(t) >= need
       /\ LinksSound(fat', (Heads \ Gone) \cup Come) /\ Come \cap (Heads \ Gone) = {}
       /\ \A c \in Heads \ Gone : ReadChain(fat', c) = ReadChain(fat, c)
                                  /\ \A k \in 1 .. Len(t) : t[k] \notin InChain(fat, c)
       /\ Distinct(t)
       /\ Len(t) >= Len(ReadChain(fat, old)) /\ Follows(t, ReadChain(fat, old))
  BY <1>11, <1>12, <1>13 DEF Extended
<1>15. PICK file : file = Overwritten(content[d][i], offset, len, i)
  OBVIOUS
<1>16. SetAt(content', content, d, i, file)
  <2>1. content' = [content EXCEPT ![d][i] = file]
    BY <1>b, <1>8, <1>15, Zenon
  <2> QED BY <1>9, <2>1, EntriesSet, Zenon
<1>17. Len(ReadChain(fat, old)) \in Nat
  BY ChainFacts DEF IsChain
<1>18. \A k \in 1 .. Len(t) : t[k] \in Clusters
  BY <1>14, ChainFacts DEF IsChain
<1>19. \A c \in Clusters, j \in 1 .. cluster_size :
         data'[c][j] = IF Writes(t, c, j, offset, len) THEN i ELSE data[c][j]
  BY <1>a, <1>8, Zenon
<1>20. HoldsFile(t, data', size, file) /\ file \in Seq(Int)
  <2>1. offset + len <= Len(t) * cluster_size
    BY <1>10, <1>14, MoreRoom
  <2>2. IsWritten(data', data, t, offset, len, i)
    BY <1>18, <1>19, Zenon DEF IsWritten
  <2>3. i \in Int
    OBVIOUS
  <2>4. /\ HoldsFile(t, data', Max({handle[h].size, offset + len}),
                     Overwritten(content[d][i], offset, len, i))
        /\ Overwritten(content[d][i], offset, len, i) \in Seq(Int)
    BY <1>8, <1>14, <1>17, <2>1, <2>2, <2>3, WrittenHeld, Zenon
  <2> QED BY <1>6, <1>15, <2>4, Zenon
<1>21. size \in Nat
  BY <1>6, <1>8, <1>10, MaxOfTwo
<1>22. start \in MaybeCluster
  BY <1>14 DEF MaybeCluster
<1>23. /\ \E e : /\ SetAt(dir', dir, d, i, e) /\ IsEntry(e)
                 /\ e.kind = dir[d][i].kind /\ e.cluster = start /\ e.size = size
       /\ DOMAIN handle' = Handles /\ \A g \in Handles : g # h => handle'[g] = handle[g]
       /\ handle'[h] \in OpenHandle /\ IsOn(h, d, i)'
       /\ handle'[h].start = start /\ handle'[h].size = size
  <2>1. handle[h] # NoHandle /\ UpdateEntry(h, start, size) /\ IsOn(h, d, i) /\ FatTypes
    BY <1>7, <1>8, <1>9, Zenon
  <2> QED BY <1>21, <1>22, <2>1, Updated, Zenon
<1>24. PICK e : /\ SetAt(dir', dir, d, i, e) /\ IsEntry(e)
                /\ e.kind = "file" /\ e.cluster = start /\ e.size = size
  BY <1>8, <1>23, Zenon
<1>25. DOMAIN data' = Clusters
  BY <1>a, Zenon
<1>26. ASSUME NEW c \in Heads \ Gone
       PROVE  /\ ReadChain(fat', c) = ReadChain(fat, c)
              /\ \A b \in InChain(fat, c) : SameData(b)
  <2>1. c \in Heads \cup {0}
    OBVIOUS
  <2>2. InChain(fat, c) \subseteq Clusters
    BY <1>9, <2>1, InChainFacts
  <2>3. \A b \in InChain(fat, c), j \in 1 .. cluster_size : ~Writes(t, b, j, offset, len)
    BY <1>14, Zenon DEF Writes
  <2> QED BY <1>14, <1>19, <2>2, <2>3, Zenon DEF SameData
<1>27. HoldsFile(ReadChain(fat', e.cluster), data', e.size, file)
  BY <1>14, <1>20, <1>24
<1>28. /\ \A b \in Gone : b = handle[h].start
       /\ \A b \in Clusters : b = handle'[h].start => b \in Come
       /\ e.cluster = handle'[h].start /\ handle'[h].size = e.size
  BY <1>1, <1>12, <1>13, <1>23, <1>24
<1>29. LinksSound(fat', (Heads \ Gone) \cup Come) /\ Come \cap (Heads \ Gone) = {}
  BY <1>14
<1> QED BY <1>7, <1>8, <1>16, <1>20, <1>23, <1>24, <1>25, <1>26, <1>27, <1>28, <1>29, HandleStep, Zenon

\* A step of a handle that cuts or extends the file, of which the bytes stay.
LEMMA ResizeStep ==
  ASSUME FatInv, NEW h \in Handles, handle[h] # NoHandle, NEW start \in MaybeCluster,
         NEW n \in Nat, UpdateEntry(h, start, n), data' = data,
         content' = [content EXCEPT ![handle[h].dir][handle[h].slot] =
                       Resized(content[handle[h].dir][handle[h].slot], n)],
         Follows(ReadChain(fat', start), ReadChain(fat, handle[h].start)),
         HasRoom(ReadChain(fat', start), n),
         NEW Gone, \A b \in Gone : b = handle[h].start,
         NEW Come, \A b \in Clusters : b = start => b \in Come,
         Come \cap (Heads \ Gone) = {},
         LinksSound(fat', (Heads \ Gone) \cup Come),
         \A c \in Heads \ Gone : ReadChain(fat', c) = ReadChain(fat, c)
  PROVE  FatInv'
<1>1. PICK d \in Clusters, i \in 1 .. Slots :
        /\ d = handle[h].dir /\ i = handle[h].slot
        /\ IsOn(h, d, i) /\ dir[d][i].kind = "file"
        /\ content[d][i] \in Seq(Int)
        /\ HoldsFile(ReadChain(fat, handle[h].start), data, handle[h].size, content[d][i])
  BY HandleFacts
<1>2. FatTypes
  BY Zenon DEF FatInv
<1>3. Len(ReadChain(fat, handle[h].start)) \in Nat /\ Len(ReadChain(fat', start)) \in Nat
  BY ChainFacts DEF IsChain
<1>4. PICK file : file = Resized(content[d][i], n)
  OBVIOUS
<1>5. SetAt(content', content, d, i, file)
  <2>1. content' = [content EXCEPT ![d][i] = file]
    BY <1>1, <1>4, Zenon
  <2> QED BY <1>2, <2>1, EntriesSet, Zenon
<1>6. HoldsFile(ReadChain(fat', start), data, n, file) /\ file \in Seq(Int)
  <2>1. /\ HoldsFile(ReadChain(fat', start), data, n, Resized(content[d][i], n))
        /\ Resized(content[d][i], n) \in Seq(Int)
    BY <1>1, <1>3, ResizedHeld, Zenon DEF HasRoom
  <2> QED BY <1>4, <2>1, Zenon
<1>7. /\ \E e : /\ SetAt(dir', dir, d, i, e) /\ IsEntry(e)
                /\ e.kind = dir[d][i].kind /\ e.cluster = start /\ e.size = n
      /\ DOMAIN handle' = Handles /\ \A g \in Handles : g # h => handle'[g] = handle[g]
      /\ handle'[h] \in OpenHandle /\ IsOn(h, d, i)'
      /\ handle'[h].start = start /\ handle'[h].size = n
  BY <1>1, <1>2, Updated DEF IsOn
<1>8. PICK e : /\ SetAt(dir', dir, d, i, e) /\ IsEntry(e)
               /\ e.kind = "file" /\ e.cluster = start /\ e.size = n
  BY <1>1, <1>7, Zenon
<1>9. DOMAIN data' = Clusters
  BY <1>2, Zenon DEF FatTypes
<1>10. \A c \in Heads \ Gone :
         /\ ReadChain(fat', c) = ReadChain(fat, c)
         /\ \A b \in InChain(fat, c) : SameData(b)
  BY Zenon DEF SameData
<1>11. HoldsFile(ReadChain(fat', e.cluster), data', e.size, file)
  BY <1>6, <1>8, Zenon
<1>12. /\ \A b \in Clusters : b = handle'[h].start => b \in Come
       /\ e.cluster = handle'[h].start /\ handle'[h].size = e.size
  BY <1>7, <1>8, Zenon
<1> QED BY <1>1, <1>5, <1>6, <1>7, <1>8, <1>9, <1>10, <1>11, <1>12, HandleStep, Zenon

LEMMA CutStep ==
  ASSUME FatInv, NEW h \in Handles, handle[h] # NoHandle, NEW n \in Nat, 0 < n, n < handle[h].size,
         fat' = truncate_chain(fat, handle[h].start, Needed(n)),
         UpdateEntry(h, handle[h].start, n), data' = data,
         content' = [content EXCEPT ![handle[h].dir][handle[h].slot] =
                       Resized(content[handle[h].dir][handle[h].slot], n)]
  PROVE  FatInv'
<1>1. PICK old : old = handle[h].start
  OBVIOUS
<1>2. PICK keep : keep = Needed(n)
  OBVIOUS
<1>3. PICK s : s = ReadChain(fat, old)
  OBVIOUS
<1>4. PICK t : t = ReadChain(fat', old)
  OBVIOUS
<1>5. PICK size : size = handle[h].size
  OBVIOUS
<1>6. /\ old \in Heads \cup {0} /\ old \in MaybeCluster /\ size \in Nat
      /\ size <= Len(s) * cluster_size
  <2>1. PICK d \in Clusters, i \in 1 .. Slots :
          /\ old \in Heads \cup {0} /\ old \in MaybeCluster /\ size \in Nat
          /\ HoldsFile(s, data, size, content[d][i])
    BY <1>1, <1>3, <1>5, HandleFacts
  <2> QED BY <2>1, Zenon DEF HoldsFile
<1>7. LinksSound(fat, Heads)
  BY Zenon DEF FatInv
<1>8. keep \in Nat /\ n <= keep * cluster_size /\ keep # 0
  BY <1>2, NeededFacts
<1>9. Len(s) \in Nat
  BY <1>3, ChainFacts DEF IsChain
<1>10. old \in Heads
  <2>1. CASE old = 0
    <3>1. Len(s) = 0
      BY <1>3, <2>1, EmptyChain
    <3>2. Len(s) * cluster_size = 0
      BY <3>1, FatAssumption
    <3> QED BY <1>5, <1>6, <3>2
  <2> QED BY <1>6, <2>1
<1>11. old \in Clusters
  BY <1>10 DEF Heads
<1>12. PICK Gone : Gone = {b \in Clusters : b = old}
  BY Zenon
<1>13. (Heads \ Gone) \cup Gone = Heads /\ Gone \cap (Heads \ Gone) = {}
  BY <1>10, <1>12
<1>14. /\ LinksSound(fat', Heads)
       /\ \A b \in Clusters : fat'[b] = fat[b] \/ b \in InChain(fat, old)
       /\ n <= Len(t) * cluster_size
       /\ \A k \in 1 .. Len(s) : k <= Len(t) => t[k] = s[k]
  <2>1. CASE keep >= Len(s)
    <3>1. fat' = fat
      BY <1>1, <1>2, <1>3, <2>1, Zenon DEF truncate_chain
    <3>2. t = s
      BY <1>3, <1>4, <3>1
    <3>3. n <= Len(s) * cluster_size
      <4>1. PICK m : m = Len(s) * cluster_size
        OBVIOUS
      <4>2. m \in Int
        BY <1>9, <4>1, FatAssumption
      <4> QED BY <1>5, <1>6, <4>1, <4>2
    <3> QED BY <1>7, <3>1, <3>2, <3>3
  <2>2. CASE keep < Len(s)
    <3>1. keep \in 1 .. Len(s) - 1
      BY <1>8, <1>9, <2>2
    <3>2. /\ LinksSound(fat', Heads)
          /\ \A b \in Clusters : fat'[b] = fat[b] \/ b \in InChain(fat, old)
          /\ Len(t) = keep
          /\ \A k \in 1 .. keep : t[k] = s[k]
      BY <1>1, <1>2, <1>3, <1>4, <1>7, <1>10, <3>1, CutSound
    <3> QED BY <1>8, <1>9, <3>2
  <2> QED BY <1>8, <1>9, <2>1, <2>2
<1>15. ASSUME NEW c \in Heads \ Gone
       PROVE  ReadChain(fat', c) = ReadChain(fat, c)
  <2>1. c \in Heads /\ c # old
    BY <1>11, <1>12
  <2>2. \A b \in Clusters : fat'[b] = fat[b] \/ fat[b] = FAT_FREE \/ b \in InChain(fat, old)
    BY <1>14, Zenon
  <2> QED BY <1>6, <1>7, <2>1, <2>2, Elsewhere, Zenon
<1>16. /\ Follows(ReadChain(fat', old), ReadChain(fat, handle[h].start))
       /\ HasRoom(ReadChain(fat', old), n)
  BY <1>1, <1>3, <1>4, <1>14, Zenon DEF Follows, HasRoom
<1>17. /\ \A b \in Gone : b = handle[h].start
       /\ \A b \in Clusters : b = old => b \in Gone
       /\ UpdateEntry(h, old, n) /\ old \in MaybeCluster
  BY <1>1, <1>6, <1>12
<1>18. LinksSound(fat', (Heads \ Gone) \cup Gone)
  BY <1>13, <1>14, Zenon
<1> QED BY <1>13, <1>15, <1>16, <1>17, <1>18, ResizeStep, Zenon

LEMMA ExtendStep ==
  ASSUME FatInv, NEW h \in Handles, handle[h] # NoHandle, NEW n \in Nat,
         NEW old, old = handle[h].start, old \in Clusters \/ Free(fat) # {},
         Room(WithFirst(fat, old), FirstOf(fat, old), Needed(n)),
         fat' = Grown(WithFirst(fat, old), FirstOf(fat, old), Needed(n)),
         UpdateEntry(h, FirstOf(fat, old), n), data' = data,
         content' = [content EXCEPT ![handle[h].dir][handle[h].slot] =
                       Resized(content[handle[h].dir][handle[h].slot], n)]
  PROVE  FatInv'
<1>1. PICK start : start = FirstOf(fat, old)
  OBVIOUS
<1>2. PICK f : f = WithFirst(fat, old)
  OBVIOUS
<1>3. PICK need : need = Needed(n)
  OBVIOUS
<1>4. PICK t : t = ReadChain(fat', start)
  OBVIOUS
<1>5. Room(f, start, need) /\ fat' = Grown(f, start, need) /\ UpdateEntry(h, start, n)
  BY <1>1, <1>2, <1>3
<1>6. old \in Heads \cup {0} /\ LinksSound(fat, Heads)
  BY HandleFacts, Zenon DEF FatInv
<1>7. need \in Nat /\ n <= need * cluster_size
  BY <1>3, NeededFacts
<1>8. Extended(fat', t, old, start, need)
  BY <1>1, <1>2, <1>4, <1>5, <1>6, <1>7, ExtendedFacts
<1>9. PICK Gone : Gone = {b \in Clusters : b = old}
  BY Zenon
<1>10. PICK Come : Come = {start}
  BY Zenon
<1>11. /\ LinksSound(fat', (Heads \ Gone) \cup Come) /\ Come \cap (Heads \ Gone) = {}
       /\ \A c \in Heads \ Gone : ReadChain(fat', c) = ReadChain(fat, c)
  BY <1>8, <1>9, <1>10 DEF Extended
<1>12. start \in Clusters /\ Len(t) \in Nat /\ Len(t) >= need /\ Follows(t, ReadChain(fat, old))
  BY <1>8, Zenon DEF Extended
<1>13. n <= Len(t) * cluster_size
  BY <1>7, <1>12, MoreRoom
<1>14. Follows(ReadChain(fat', start), ReadChain(fat, handle[h].start))
       /\ HasRoom(ReadChain(fat', start), n)
  BY <1>4, <1>12, <1>13, Zenon DEF HasRoom
<1>15. /\ \A b \in Gone : b = handle[h].start
       /\ \A b \in Clusters : b = start => b \in Come
       /\ UpdateEntry(h, start, n) /\ start \in MaybeCluster
  BY <1>5, <1>9, <1>10, <1>12 DEF MaybeCluster
<1> QED BY <1>11, <1>14, <1>15, ResizeStep, Zenon

LEMMA FreeStep ==
  ASSUME FatInv, NEW h \in Handles, handle[h] # NoHandle, NEW n, n = 0,
         NEW old, old = handle[h].start, fat' = free_chain(fat, old),
         UpdateEntry(h, 0, 0), data' = data,
         content' = [content EXCEPT ![handle[h].dir][handle[h].slot] =
                       Resized(content[handle[h].dir][handle[h].slot], n)]
  PROVE  FatInv'
<1>1. PICK start : start = 0
  OBVIOUS
<1>2. old \in Heads \cup {0} /\ LinksSound(fat, Heads)
  BY HandleFacts, Zenon DEF FatInv
<1>3. /\ LinksSound(fat', Heads \ {old})
      /\ \A b \in Clusters : fat'[b] = fat[b] \/ b \in InChain(fat, old)
  BY <1>2, FreeSound, Zenon
<1>4. PICK Gone : Gone = {b \in Clusters : b = old}
  BY Zenon
<1>5. PICK Come : Come = {b \in Clusters : b = start}
  BY Zenon
<1>6. Come = {}
  BY <1>1, <1>5, NoCluster
<1>7. (Heads \ Gone) \cup Come = Heads \ {old} /\ Come \cap (Heads \ Gone) = {}
  BY <1>4, <1>6 DEF Heads
<1>8. LinksSound(fat', (Heads \ Gone) \cup Come)
  BY <1>3, <1>7, Zenon
<1>9. ASSUME NEW c \in Heads \ Gone
      PROVE  ReadChain(fat', c) = ReadChain(fat, c)
  <2>1. c \in Heads /\ c # old
    BY <1>4 DEF Heads
  <2>2. \A b \in Clusters : fat'[b] = fat[b] \/ fat[b] = FAT_FREE \/ b \in InChain(fat, old)
    BY <1>3, Zenon
  <2> QED BY <1>2, <2>1, <2>2, Elsewhere
<1>10. Follows(ReadChain(fat', start), ReadChain(fat, handle[h].start))
       /\ HasRoom(ReadChain(fat', start), n)
  <2>1. Len(ReadChain(fat', start)) = 0
    BY <1>1, EmptyChain
  <2>2. Len(ReadChain(fat, handle[h].start)) \in Nat /\ cluster_size \in Nat
    BY ChainFacts, FatAssumption DEF IsChain
  <2> QED BY <2>1, <2>2 DEF Follows, HasRoom
<1>11. /\ \A b \in Gone : b = handle[h].start
       /\ \A b \in Clusters : b = start => b \in Come
       /\ start \in MaybeCluster /\ n \in Nat /\ UpdateEntry(h, start, n)
  BY <1>1, <1>4, <1>5 DEF MaybeCluster
<1> QED BY <1>7, <1>8, <1>9, <1>10, <1>11, ResizeStep, Zenon

LEMMA TruncateStep ==
  ASSUME FatInv, NEW h \in Handles, NEW n \in Nat, truncate(h, n)
  PROVE  FatInv'
<1>1. PICK old : old = handle[h].start
  OBVIOUS
<1>2. handle[h] # NoHandle /\ data' = data
  BY Zenon DEF truncate
<1>3. content' = [content EXCEPT ![handle[h].dir][handle[h].slot] =
                    Resized(content[handle[h].dir][handle[h].slot], n)]
  BY Zenon DEF truncate
<1>4. PICK d \in Clusters, i \in 1 .. Slots :
        /\ old \in Heads \cup {0} /\ old \in MaybeCluster /\ handle[h].size \in Nat
        /\ HoldsFile(ReadChain(fat, old), data, handle[h].size, content[d][i])
  BY <1>1, <1>2, HandleFacts
<1>5. LinksSound(fat, Heads)
  BY Zenon DEF FatInv
<1>6. PICK s : s = ReadChain(fat, old)
  OBVIOUS
<1>7. PICK Gone : Gone = {b \in Clusters : b = old}
  BY Zenon
<1>8. Len(s) \in Nat /\ cluster_size \in Nat
  BY <1>6, ChainFacts, FatAssumption DEF IsChain
<1>9. CASE n = 0 /\ fat' = free_chain(fat, old) /\ UpdateEntry(h, 0, 0)
  BY <1>1, <1>2, <1>3, <1>9, FreeStep, Zenon
<1>10. CASE /\ 0 < n /\ n < handle[h].size
            /\ fat' = truncate_chain(fat, old, Needed(n)) /\ UpdateEntry(h, old, n)
  BY <1>1, <1>2, <1>3, <1>10, CutStep, Zenon
<1>11. CASE 0 < n /\ n = handle[h].size /\ UNCHANGED fat /\ UpdateEntry(h, old, n)
  <2>1. PICK t : t = ReadChain(fat', old)
    OBVIOUS
  <2>2. t = s
    BY <1>6, <1>11, <2>1
  <2>3. n <= Len(t) * cluster_size
    BY <1>4, <1>6, <1>11, <2>2, Zenon DEF HoldsFile
  <2>4. old \in Heads
    <3>1. CASE old = 0
      <4>1. Len(s) = 0
        BY <1>6, <3>1, EmptyChain
      <4>2. Len(t) * cluster_size = 0
        BY <1>8, <2>2, <4>1
      <4> QED BY <1>11, <2>3, <4>2
    <3> QED BY <1>4, <3>1
  <2>5. (Heads \ Gone) \cup Gone = Heads /\ Gone \cap (Heads \ Gone) = {}
    BY <1>7, <2>4 DEF Heads
  <2>6. LinksSound(fat', (Heads \ Gone) \cup Gone)
    BY <1>5, <1>11, <2>5
  <2>7. \A k \in 1 .. Len(s) : k <= Len(t) => t[k] = s[k]
    BY <2>2
  <2>8. \A c \in Heads \ Gone : ReadChain(fat', c) = ReadChain(fat, c)
    BY <1>11
  <2>9. Follows(ReadChain(fat', old), ReadChain(fat, handle[h].start))
        /\ HasRoom(ReadChain(fat', old), n)
    BY <1>1, <1>6, <2>1, <2>3, <2>7, Zenon DEF Follows, HasRoom
  <2>10. /\ \A b \in Gone : b = handle[h].start
         /\ \A b \in Clusters : b = old => b \in Gone
    BY <1>1, <1>7
  <2>11. UpdateEntry(h, old, n) /\ Gone \cap (Heads \ Gone) = {}
    BY <1>11, <2>5, Zenon
  <2> QED BY <1>2, <1>3, <1>4, <2>6, <2>8, <2>9, <2>10, <2>11, ResizeStep, Zenon
<1>12. ASSUME /\ n > handle[h].size /\ (old \in Clusters \/ Free(fat) # {})
              /\ Room(WithFirst(fat, old), FirstOf(fat, old), Needed(n))
              /\ fat' = Grown(WithFirst(fat, old), FirstOf(fat, old), Needed(n))
              /\ UpdateEntry(h, FirstOf(fat, old), n)
       PROVE  FatInv'
  BY <1>1, <1>2, <1>3, <1>12, ExtendStep, Zenon
<1> QED BY <1>1, <1>9, <1>10, <1>11, <1>12, Zenon DEF truncate

LEMMA NoSpaceStep ==
  ASSUME FatInv, NEW h \in Handles, NEW end \in Nat, NoSpace(h, end)
  PROVE  FatInv'
<1>1. PICK old : old = handle[h].start
  OBVIOUS
<1>2. PICK start : start = FirstOf(fat, old)
  OBVIOUS
<1>3. /\ handle[h] # NoHandle /\ (old \in Clusters \/ Free(fat) # {})
      /\ fat' = WithFirst(fat, old) /\ handle' = [handle EXCEPT ![h].start = start]
      /\ UNCHANGED <<data, dir, content>>
  BY <1>1, <1>2, Zenon DEF NoSpace
<1>4. PICK d \in Clusters, i \in 1 .. Slots :
        /\ IsOn(h, d, i) /\ dir[d][i].kind = "file"
        /\ IsEntry(dir[d][i]) /\ content[d][i] \in Seq(Int)
        /\ old \in Heads \cup {0} /\ old \in MaybeCluster
        /\ handle[h].size \in Nat /\ dir[d][i].size = handle[h].size
        /\ HoldsFile(ReadChain(fat, old), data, handle[h].size, content[d][i])
        /\ dir[d][i].cluster = old \/ (dir[d][i].cluster = 0 /\ handle[h].size = 0)
  BY <1>1, <1>3, HandleFacts
<1>5. FatTypes /\ LinksSound(fat, Heads) /\ FilesSound
  BY Zenon DEF FatInv
<1>6. PICK e : e = dir[d][i]
  OBVIOUS
<1>7. PICK file : file = content[d][i]
  OBVIOUS
<1>8. SetAt(dir', dir, d, i, e) /\ SetAt(content', content, d, i, file)
  BY <1>3, <1>5, <1>6, <1>7, Zenon DEF SetAt, FatTypes
<1>9. IsEntry(e) /\ e.kind = "file" /\ file \in Seq(Int)
  BY <1>4, <1>6, <1>7, Zenon
<1>10. /\ start \in Clusters /\ LinksSound(fat', Heads \cup {start})
       /\ old \in Clusters => start = old /\ fat' = fat
       /\ old \notin Clusters => start \notin Heads
       /\ \A b \in Clusters : fat'[b] = fat[b] \/ fat[b] = FAT_FREE
  <2>1. PICK g : g = WithFirst(fat, old)
    OBVIOUS
  <2>2. /\ start \in Clusters /\ LinksSound(g, Heads \cup {start})
        /\ old \in Clusters => start = old /\ g = fat
        /\ old \notin Clusters => start \notin Heads
        /\ \A b \in Clusters : g[b] = fat[b] \/ fat[b] = FAT_FREE
    <3>1. old \in Heads \cup {0} /\ (old \in Clusters \/ Free(fat) # {}) /\ LinksSound(fat, Heads)
      BY <1>3, <1>4, <1>5
    <3> QED BY <1>2, <2>1, <3>1, FirstSound
  <2> QED BY <1>3, <2>1, <2>2, Zenon
<1>11. /\ DOMAIN handle' = Handles /\ \A g \in Handles : g # h => handle'[g] = handle[g]
       /\ handle'[h] \in OpenHandle /\ IsOn(h, d, i)'
       /\ handle'[h].start = start /\ handle'[h].size = e.size
  <2>1. handle[h] \in OpenHandle /\ DOMAIN handle = Handles
    BY <1>3, <1>5, Zenon DEF FatTypes
  <2>2. start \in MaybeCluster
    BY <1>10 DEF MaybeCluster
  <2> QED BY <1>3, <1>4, <1>6, <2>1, <2>2 DEF OpenHandle, IsOn
<1>12. e.cluster = start \/ (e.cluster = 0 /\ e.size = 0)
  <2>1. CASE old \in Clusters
    BY <1>4, <1>6, <1>10, <2>1
  <2>2. CASE old = 0
    <3>1. Len(ReadChain(fat, old)) * cluster_size = 0
      BY <2>2, EmptyChain, FatAssumption
    <3>2. handle[h].size <= 0
      BY <1>4, <3>1 DEF HoldsFile
    <3> QED BY <1>4, <1>6, <2>2, <3>2
  <2> QED BY <1>4, <2>1, <2>2 DEF MaybeCluster
<1>13. PICK Gone : Gone = {b \in Clusters : b = old}
  BY Zenon
<1>14. PICK Come : Come = {start}
  BY Zenon
<1>15. LinksSound(fat', (Heads \ Gone) \cup Come) /\ Come \cap (Heads \ Gone) = {}
  <2>1. (Heads \ Gone) \cup Come \subseteq Heads \cup {start}
    BY <1>14
  <2>2. Come \cap (Heads \ Gone) = {}
    BY <1>10, <1>13, <1>14
  <2> QED BY <1>10, <2>1, <2>2, FewerHeads
<1>16. ASSUME NEW c \in Heads \ Gone
       PROVE  ReadChain(fat', c) = ReadChain(fat, c) /\ \A b \in InChain(fat, c) : SameData(b)
  <2>1. c \in Heads /\ c # 0 /\ 0 \in Heads \cup {0}
    BY NoCluster DEF Heads
  <2>2. \A b \in Clusters : fat'[b] = fat[b] \/ fat[b] = FAT_FREE \/ b \in InChain(fat, 0)
    BY <1>10, Zenon
  <2>3. ReadChain(fat', c) = ReadChain(fat, c)
    BY <1>5, <2>1, <2>2, Elsewhere
  <2> QED BY <1>3, <2>3, Zenon DEF SameData
<1>17. HoldsFile(ReadChain(fat', e.cluster), data', e.size, file)
  <2>1. HoldsFile(ReadChain(fat, e.cluster), data, e.size, file)
    BY <1>4, <1>5, <1>6, <1>7, Zenon DEF FilesSound
  <2>2. ReadChain(fat', e.cluster) = ReadChain(fat, e.cluster)
    <3>1. CASE old \in Clusters
      BY <1>10, <3>1
    <3>2. CASE e.cluster = 0
      BY <3>2, EmptyChain
    <3> QED BY <1>4, <1>6, <3>1, <3>2 DEF MaybeCluster
  <2> QED BY <1>3, <2>1, <2>2
<1>18. /\ \A b \in Gone : b = handle[h].start
       /\ \A b \in Clusters : b = handle'[h].start => b \in Come
       /\ e.cluster = handle'[h].start \/ (e.cluster = 0 /\ e.size = 0)
  BY <1>1, <1>11, <1>12, <1>13, <1>14
<1>19. DOMAIN data' = Clusters
  BY <1>3, <1>5, Zenon DEF FatTypes
<1> QED BY <1>3, <1>4, <1>8, <1>9, <1>11, <1>15, <1>16, <1>17, <1>18, <1>19, HandleStep, Zenon

(* The invariant and what it says *)

LEMMA FatInitInv ==
  ASSUME FatInit
  PROVE  FatInv
<1>1. root_cluster \in Clusters
  BY FatAssumption DEF root_cluster, Clusters
<1>2. \A d \in Clusters, i \in 1 .. Slots : dir[d][i] = EndEntry /\ content[d][i] = <<>>
  BY Zenon DEF FatInit, Blank
<1>3. \A h \in Handles : handle[h] = NoHandle
  BY Zenon DEF FatInit
<1>4. FatTypes
  <2>1. /\ DOMAIN EndEntry = EntryFields /\ EndEntry.cluster \in MaybeCluster /\ EndEntry.size \in Nat
    BY DEF EndEntry, EntryFields, MaybeCluster
  <2>2. /\ DOMAIN dir = Clusters /\ DOMAIN data = Clusters /\ DOMAIN content = Clusters
        /\ DOMAIN handle = Handles
        /\ \A d \in Clusters : DOMAIN dir[d] = 1 .. Slots /\ DOMAIN content[d] = 1 .. Slots
    BY Zenon DEF FatInit, Blank
  <2> QED BY <1>2, <1>3, <2>1, <2>2, EmptyFile, Zenon DEF FatTypes
<1>5. \A d \in Clusters, i \in 1 .. Slots : dir[d][i].kind = "end"
  <2>1. EndEntry.kind = "end"
    BY DEF EndEntry
  <2> QED BY <1>2, <2>1, Zenon
<1>6. Heads = {} /\ \A d, i, c : ~Leads(d, i, c)
  BY <1>5 DEF Heads, Leads, InUseKinds
<1>7. LinksSound(fat, Heads)
  <2>1. /\ fat \in [Clusters -> Clusters \cup {FAT_FREE, FAT_EOC}]
        /\ fat[root_cluster] = FAT_EOC
        /\ \A b \in Clusters : fat[b] \notin Clusters
    BY <1>1, NoCluster DEF FatInit
  <2>2. FAT_EOC # FAT_FREE
    BY DEF FAT_EOC, FAT_FREE
  <2> QED BY <1>6, <2>1, <2>2, Zenon DEF LinksSound, Injective
<1>8. OneOwner /\ DirectoryEntries
  BY <1>5, <1>6 DEF OneOwner, DirectoryEntries
<1>9. HandlesSound /\ FilesSound
  BY <1>3, <1>5 DEF HandlesSound, FilesSound
<1> QED BY <1>4, <1>7, <1>8, <1>9, Zenon DEF FatInv

LEMMA FatUnchanged ==
  ASSUME FatInv, UNCHANGED fatVars
  PROVE  FatInv'
<1>1. fat' = fat /\ data' = data /\ dir' = dir /\ handle' = handle /\ content' = content
  BY DEF fatVars
<1>2. Heads' = Heads /\ Directories' = Directories
  BY <1>1 DEF Heads, Leads, IsOn, Directories
<1>3. FatTypes' /\ LinksSound(fat, Heads)'
  BY <1>1, <1>2 DEF FatInv, FatTypes
<1>4. OneOwner' /\ DirectoryEntries'
  BY <1>1 DEF FatInv, OneOwner, Leads, IsOn, DirectoryEntries
<1>5. HandlesSound' /\ FilesSound'
  BY <1>1, <1>2, Zenon DEF FatInv, HandlesSound, HandleSound, IsOn, FilesSound
<1> QED BY <1>3, <1>4, <1>5, Zenon DEF FatInv

LEMMA FatNextInv ==
  ASSUME FatInv, [FatNext]_fatVars
  PROVE  FatInv'
<1>1. Directories \subseteq Clusters
  BY DirectoriesAreClusters, Zenon DEF FatInv
<1>2. MaxSize \in Nat
  BY FatAssumption
<1>3. ASSUME NEW d \in Directories, NEW n \in Names, unlink(d, n) PROVE FatInv'
  BY <1>1, <1>3, UnlinkStep
<1>4. ASSUME NEW d \in Directories, NEW n \in Names, NEW h \in Handles, CreateFile(h, d, n)
      PROVE  FatInv'
  BY <1>1, <1>4, CreateFileStep
<1>5. ASSUME NEW d \in Directories, NEW n \in Names, NEW h \in Handles, Open(h, d, n)
      PROVE  FatInv'
  BY <1>1, <1>5, OpenStep
<1>6. ASSUME NEW n \in Names, CreateDirectory(n) PROVE FatInv'
  BY <1>6, CreateDirectoryStep
<1>7. ASSUME NEW n \in Names, rmdir(n) PROVE FatInv'
  BY <1>7, RmdirStep
<1>8. ASSUME NEW h \in Handles, Close(h) PROVE FatInv'
  BY <1>8, CloseStep
<1>9. ASSUME NEW h \in Handles, NEW size \in 0 .. MaxSize, truncate(h, size) PROVE FatInv'
  <2>1. size \in Nat
    BY <1>2
  <2> QED BY <1>9, <2>1, TruncateStep
<1>10. ASSUME NEW h \in Handles, NEW end \in 1 .. MaxSize, NoSpace(h, end) PROVE FatInv'
  <2>1. end \in Nat
    BY <1>2
  <2> QED BY <1>10, <2>1, NoSpaceStep
<1>11. ASSUME NEW h \in Handles, NEW offset \in 0 .. MaxSize - 1, NEW len \in 1 .. MaxSize - offset,
              write(h, offset, len)
       PROVE  FatInv'
  <2>1. offset \in Nat /\ len \in Nat
    BY <1>2
  <2> QED BY <1>11, <2>1, WriteStep
<1>12. CASE FatNext
  BY <1>3, <1>4, <1>5, <1>6, <1>7, <1>8, <1>9, <1>10, <1>11, <1>12, Zenon DEF FatNext
<1> QED BY <1>12, FatUnchanged

LEMMA AtMostOne ==
  ASSUME NEW S, \A x, y \in S : x = y
  PROVE  (S = {} /\ Cardinality(S) = 0) \/ (S # {} /\ Cardinality(S) = 1)
<1>1. CASE S = {}
  BY <1>1, FS_EmptySet
<1>2. CASE S # {}
  <2>1. PICK x : S = {x}
    BY <1>2
  <2> QED BY <1>2, <2>1, FS_Singleton
<1> QED BY <1>1, <1>2

LEMMA InvChainsSound ==
  ASSUME FatInv
  PROVE  ChainsSound
<1>1. FatTypes /\ LinksSound(fat, Heads) /\ OneOwner /\ DirectoryEntries /\ FilesSound
  BY Zenon DEF FatInv
<1>2. Directories \subseteq Clusters
  BY <1>1, DirectoriesAreClusters
<1>3. \A e \in Live : /\ e[1] \in Clusters /\ e[2] \in 1 .. Slots /\ e = <<e[1], e[2]>>
                      /\ dir[e[1]][e[2]].kind \in InUseKinds
  BY <1>2 DEF Live, InUseKinds
<1>4. ASSUME NEW c \in Clusters,
             NEW n, n = Cardinality({e \in Live : StartOf(e) = c})
                        + Cardinality({b \in Clusters : fat[b] = c}), n > 0
      PROVE  n = 1 /\ fat[c] # FAT_FREE /\ c # root_cluster
  <2>1. PICK E : E = {e \in Live : StartOf(e) = c}
    BY Zenon
  <2>2. PICK B : B = {b \in Clusters : fat[b] = c}
    BY Zenon
  <2>3. \A e \in E : Leads(e[1], e[2], c) /\ e = <<e[1], e[2]>>
                     /\ e[1] \in Clusters /\ e[2] \in 1 .. Slots
    BY <1>3, <2>1 DEF StartOf, Leads
  <2>4. \A x, y \in E : x = y
    BY <1>1, <2>3 DEF OneOwner
  <2>5. \A x, y \in B : x = y
    <3>1. Injective(fat)
      BY <1>1, Zenon DEF LinksSound
    <3> QED BY <2>2, <3>1 DEF Injective
  <2>6. E # {} => c \in Heads
    BY <2>3, Zenon DEF Heads
  <2>7. c \in Heads => B = {} /\ fat[c] # FAT_FREE /\ c # root_cluster
    BY <1>1, <2>2, Zenon DEF LinksSound, NotLinked
  <2>8. B # {} => fat[c] # FAT_FREE /\ c # root_cluster
    BY <1>1, <2>2, Zenon DEF LinksSound
  <2>9. (E = {} /\ Cardinality(E) = 0) \/ (E # {} /\ Cardinality(E) = 1)
    BY <2>4, AtMostOne
  <2>10. (B = {} /\ Cardinality(B) = 0) \/ (B # {} /\ Cardinality(B) = 1)
    BY <2>5, AtMostOne
  <2>11. n = Cardinality(E) + Cardinality(B)
    BY <1>4, <2>1, <2>2
  <2> QED BY <1>4, <2>6, <2>7, <2>8, <2>9, <2>10, <2>11
<1>5. ASSUME NEW e \in Live
      PROVE  Len(ReadChain(fat, StartOf(e))) * cluster_size >= dir[e[1]][e[2]].size
  <2>1. PICK d \in Clusters, i \in 1 .. Slots : d = e[1] /\ i = e[2]
    BY <1>3
  <2>2. PICK s : s = ReadChain(fat, dir[d][i].cluster)
    OBVIOUS
  <2>3. Len(s) \in Nat /\ Len(s) * cluster_size \in Nat
    BY <2>2, ChainFacts, FatAssumption DEF IsChain
  <2>4. dir[d][i].size <= Len(s) * cluster_size
    <3>1. CASE dir[d][i].kind = "file"
      BY <1>1, <2>2, <3>1, Zenon DEF FilesSound, HoldsFile
    <3>2. CASE dir[d][i].kind = "dir"
      BY <1>1, <2>3, <3>2 DEF DirectoryEntries
    <3> QED BY <1>3, <2>1, <3>1, <3>2 DEF InUseKinds
  <2>5. dir[d][i].size \in Nat
    BY <1>1, Zenon DEF FatTypes
  <2> QED BY <2>1, <2>2, <2>3, <2>4, <2>5 DEF StartOf
<1> QED BY <1>4, <1>5, Zenon DEF ChainsSound

\* Where a position of a file is.
LEMMA Located ==
  ASSUME NEW pos \in Nat, NEW len \in Nat, pos < len * cluster_size
  PROVE  \E k \in Nat, j \in 1 .. cluster_size :
           /\ k # 0 /\ k = (pos \div cluster_size) + 1 /\ j = (pos % cluster_size) + 1
           /\ pos + 1 = (k - 1) * cluster_size + j
           /\ pos \div cluster_size < len
<1>1. cluster_size \in Nat /\ cluster_size > 0
  BY FatAssumption
<1>q. PICK q : q = pos \div cluster_size
  OBVIOUS
<1>r. PICK r : r = pos % cluster_size
  OBVIOUS
<1>2. q \in Int /\ r \in 0 .. cluster_size - 1 /\ pos = cluster_size * q + r
  BY <1>1, <1>q, <1>r
<1>p. PICK p : p = cluster_size * q
  OBVIOUS
<1>3. q >= 0
  <2>1. SUFFICES ASSUME q <= -1 PROVE FALSE
    BY <1>2
  <2>2. p <= -cluster_size /\ p \in Int
    BY <1>1, <1>2, <1>p, <2>1
  <2> QED BY <1>1, <1>2, <1>p, <2>2
<1>4. PICK k : k = q + 1
  OBVIOUS
<1>5. PICK j : j = r + 1
  OBVIOUS
<1>6. k \in Nat /\ k # 0 /\ j \in 1 .. cluster_size /\ k - 1 = q
  BY <1>1, <1>2, <1>3, <1>4, <1>5
<1>7. (k - 1) * cluster_size + j = pos + 1
  <2>1. (k - 1) * cluster_size = p /\ p \in Int
    BY <1>1, <1>2, <1>6, <1>p
  <2>2. pos = p + r
    BY <1>2, <1>p
  <2> QED BY <1>2, <1>5, <2>1, <2>2
<1>8. pos + 1 <= len * cluster_size
  <2>1. len * cluster_size \in Nat
    BY <1>1
  <2> QED BY <2>1
<1>9. k <= len
  BY <1>6, <1>7, <1>8, WithinChain
<1>10. q < len
  BY <1>2, <1>4, <1>9
<1> QED BY <1>q, <1>r, <1>4, <1>5, <1>6, <1>7, <1>10, Zenon

LEMMA InvReadsBack ==
  ASSUME FatInv
  PROVE  ReadsBack
<1>1. FatTypes /\ DirectoryEntries /\ FilesSound
  BY Zenon DEF FatInv
<1>2. Directories \subseteq Clusters
  BY <1>1, DirectoriesAreClusters
<1>3. \A e \in Live : e[1] \in Clusters /\ e[2] \in 1 .. Slots
  BY <1>2 DEF Live
<1>4. \A e \in Live : dir[e[1]][e[2]].kind = "file" =>
        HoldsFile(ReadChain(fat, StartOf(e)), data, dir[e[1]][e[2]].size, content[e[1]][e[2]])
        /\ content[e[1]][e[2]] \in Seq(Int)
  BY <1>1, <1>3, Zenon DEF FilesSound, FatTypes, StartOf
<1>5. ASSUME NEW chain, Len(chain) \in Nat, NEW size, NEW file \in Seq(Int),
             HoldsFile(chain, data, size, file), NEW pos \in 0 .. Len(file) - 1,
             file[pos + 1] \in 1 .. Slots
      PROVE  /\ pos \div cluster_size < Len(chain)
             /\ data[chain[(pos \div cluster_size) + 1]][(pos % cluster_size) + 1] = file[pos + 1]
  <2>1. Len(file) \in Nat /\ Len(file) <= Len(chain) * cluster_size
    BY <1>5 DEF HoldsFile
  <2>2. Len(chain) * cluster_size \in Nat
    BY <1>5, FatAssumption
  <2>3. pos \in Nat /\ pos + 1 <= Len(file) /\ pos < Len(chain) * cluster_size
    BY <2>1, <2>2
  <2>4. PICK k \in Nat, j \in 1 .. cluster_size :
          /\ k # 0 /\ k = (pos \div cluster_size) + 1 /\ j = (pos % cluster_size) + 1
          /\ pos + 1 = (k - 1) * cluster_size + j
          /\ pos \div cluster_size < Len(chain)
    BY <1>5, <2>3, Located, Zenon
  <2>5. PICK p : p = pos + 1
    OBVIOUS
  <2>6. At(p, k, j) /\ p <= Len(file) /\ file[p] \in 1 .. Slots /\ k # 0
    BY <1>5, <2>3, <2>4, <2>5, Zenon DEF At
  <2>7. data[chain[k]][j] = file[p]
    BY <1>5, <2>1, <2>6, OldByte
  <2> QED BY <2>4, <2>5, <2>7, Zenon
<1>6. \A e \in Live : Len(ReadChain(fat, StartOf(e))) \in Nat
  BY ChainFacts DEF IsChain
<1>7. Agree(1 .. Slots, LAMBDA v : v)
  BY <1>4, <1>5, <1>6, Zenon DEF Agree
<1>8. \A e \in Live : dir[e[1]][e[2]].kind = "file" =>
        dir[e[1]][e[2]].size = Len(content[e[1]][e[2]])
  BY <1>4, Zenon DEF HoldsFile
<1> QED BY <1>7, <1>8, Zenon DEF ReadsBack

\* Chains are not shared, do not run in circles, and are long enough, whatever
\* files are created, written, truncated and deleted and however often the disk
\* is full: by FatInv, in which the clusters that only a handle knows count too.
THEOREM FatChainsAreSound == FatSpec => []ChainsSound
<1>1. FatInit => FatInv
  BY FatInitInv
<1>2. FatInv /\ [FatNext]_fatVars => FatInv'
  BY FatNextInv
<1>3. FatInv => ChainsSound
  BY InvChainsSound
<1> QED BY <1>1, <1>2, <1>3, PTL DEF FatSpec

\* read() finds every byte that a write() put into the file, and the size.
THEOREM FatReadsBack == FatSpec => []ReadsBack
<1>1. FatInit => FatInv
  BY FatInitInv
<1>2. FatInv /\ [FatNext]_fatVars => FatInv'
  BY FatNextInv
<1>3. FatInv => ReadsBack
  BY InvReadsBack
<1> QED BY <1>1, <1>2, <1>3, PTL DEF FatSpec
=============================================================================
