--------------------------- MODULE FatTableProofs ---------------------------
(***************************************************************************)
(* The table and the directories of Fat32, for every number of clusters,   *)
(* slots and names.                                                        *)
(*                                                                         *)
(* The table.  A chain is a path along the links, read_chain() finds the   *)
(* whole of it, and freeing, cutting and extending one chain keeps         *)
(* LinksSound and leaves the others alone.                                 *)
(*                                                                         *)
(* The directories.  A look-up stops at the first end mark, so a name is   *)
(* unique only as long as nothing in use lies behind one; that is the      *)
(* second half of the invariant.                                           *)
(*                                                                         *)
(* Chains and their owners.  The invariant that entries, handles and the   *)
(* table keep together, through all steps that do not touch the bytes of   *)
(* a file; FatFileProofs goes on from there.                               *)
(***************************************************************************)
EXTENDS Fat32, FiniteSetTheorems, WellFoundedInduction, TLAPS

\* A set of natural numbers that is not empty has a least element.
LEMMA LeastNumber ==
  ASSUME NEW T \in SUBSET Nat, T # {}
  PROVE  \E x \in T : \A y \in T : x <= y
<1> DEFINE Less == OpToRel(<, Nat)
<1>1. IsWellFoundedOn(Less, Nat)
  BY NatLessThanWellFounded, Zenon
<1>2. \A a, b \in Nat : a < b => <<a, b>> \in Less
  BY DEF OpToRel
<1> HIDE DEF Less
<1>3. PICK x \in T : \A y \in T : ~ (<<y, x>> \in Less)
  BY <1>1, WFMin, Zenon
<1>4. \A y \in T : x <= y
  <2> TAKE y \in T
  <2>1. x \in Nat /\ y \in Nat
    OBVIOUS
  <2>2. ~ (y < x)
    BY <1>2, <1>3, <2>1, Zenon
  <2> QED BY <2>1, <2>2
<1> QED BY <1>4

-----------------------------------------------------------------------------
(* Chains of clusters *)

\* One round of read_chain(), the n-th.
Round(f, start, s, n) ==
  LET c == IF s = <<>> THEN start ELSE f[s[Len(s)]]
  IN  IF c \in Clusters /\ Len(s) = n - 1 THEN Append(s, c) ELSE s

Rounds(r, f, start, m) ==
  /\ DOMAIN r = 0 .. m /\ r = [n \in 0 .. m |-> r[n]]
  /\ r[0] = <<>>
  /\ \A n \in 1 .. m : r[n] = Round(f, start, r[n - 1], n)

\* The loop can be run for any number of rounds.
LEMMA RoundsExist ==
  ASSUME NEW f, NEW start
  PROVE  \A m \in Nat : \E r : Rounds(r, f, start, m)
<1> DEFINE Bad == {m \in Nat : \A r : ~Rounds(r, f, start, m)}
<1> SUFFICES ASSUME Bad # {} PROVE FALSE
  OBVIOUS
<1>1. PICK m \in Bad : \A k \in Bad : m <= k
  <2>1. Bad \subseteq Nat
    OBVIOUS
  <2> HIDE DEF Bad
  <2> QED BY <2>1, LeastNumber
<1>2. m # 0
  <2>1. Rounds([n \in 0 .. 0 |-> <<>>], f, start, 0)
    BY DEF Rounds
  <2> QED BY <2>1
<1>3. m - 1 \in Nat /\ ~(m <= m - 1)
  BY <1>2
<1>4. PICK r : Rounds(r, f, start, m - 1)
  BY <1>1, <1>3
<1> DEFINE g == [n \in 0 .. m |-> IF n = m THEN Round(f, start, r[m - 1], m) ELSE r[n]]
<1>5. DOMAIN g = 0 .. m /\ g = [n \in 0 .. m |-> g[n]]
  OBVIOUS
<1>6. g[0] = <<>>
  BY <1>2, <1>4 DEF Rounds
<1>7. ASSUME NEW n \in 1 .. m PROVE g[n] = Round(f, start, g[n - 1], n)
  <2>1. g[n - 1] = r[n - 1]
    BY <1>3
  <2>2. CASE n = m
    BY <2>1, <2>2
  <2>3. CASE n # m
    <3>1. n \in 1 .. m - 1 /\ g[n] = r[n]
      BY <1>3, <2>3
    <3> QED BY <1>4, <2>1, <3>1, Zenon DEF Rounds
  <2> QED BY <2>2, <2>3
<1>8. Rounds(g, f, start, m)
  <2> HIDE DEF g
  <2> QED BY <1>5, <1>6, <1>7, Zenon DEF Rounds
<1> QED BY <1>8

\* Followed() is what the loop computes: the recursion that defines it has a solution.
LEMMA FollowedRounds ==
  ASSUME NEW f, NEW start
  PROVE  /\ Followed(f, start)[0] = <<>>
         /\ \A n \in 1 .. total_clusters + 1 :
              Followed(f, start)[n] = Round(f, start, Followed(f, start)[n - 1], n)
<1> DEFINE D == 0 .. total_clusters + 1
           Loop(r) == [n \in D |-> IF n = 0 THEN <<>> ELSE Round(f, start, r[n - 1], n)]
           upto == CHOOSE r : r = Loop(r)
<1>1. Followed(f, start) = upto
  BY DEF Followed, Round
<1>2. PICK r : Rounds(r, f, start, total_clusters + 1)
  <2>1. total_clusters + 1 \in Nat
    BY FatAssumption
  <2> QED BY <2>1, RoundsExist, Zenon
<1>3. r = Loop(r)
  <2>1. \A n \in D : r[n] = Loop(r)[n]
    <3> SUFFICES ASSUME NEW n \in D
                 PROVE  r[n] = IF n = 0 THEN <<>> ELSE Round(f, start, r[n - 1], n)
      BY Zenon
    <3>1. n = 0 \/ n \in 1 .. total_clusters + 1
      BY FatAssumption
    <3>2. 0 \notin 1 .. total_clusters + 1
      OBVIOUS
    <3> QED BY <1>2, <3>1, <3>2, Zenon DEF Rounds
  <2>2. r = [n \in D |-> r[n]]
    BY <1>2 DEF Rounds
  <2> QED BY <2>1, <2>2, Zenon
<1>4. upto = Loop(upto)
  <2> HIDE DEF Loop
  <2> QED BY <1>3, Zenon
<1>5. \A n \in D : upto[n] = IF n = 0 THEN <<>> ELSE Round(f, start, upto[n - 1], n)
  <2> HIDE DEF upto
  <2> QED BY <1>4, Zenon
<1>6. 0 \in D /\ \A n \in 1 .. total_clusters + 1 : n \in D /\ n # 0
  BY FatAssumption
<1> QED
  <2> HIDE DEF upto
  <2> QED BY <1>1, <1>5, <1>6, Zenon

\* s goes along the links of f, from start.
IsPath(f, start, s) ==
  /\ s \in Seq(Clusters)
  /\ s # <<>> => s[1] = start
  /\ \A k \in 1 .. Len(s) - 1 : s[k + 1] = f[s[k]]

\* There is no cluster after s.
IsEnded(f, start, s) == IF s = <<>> THEN start \notin Clusters ELSE f[s[Len(s)]] \notin Clusters

\* read_chain() returns a path that ends where no cluster follows, or is too long.
LEMMA ChainIsPath ==
  ASSUME NEW f, NEW start
  PROVE  /\ IsPath(f, start, ReadChain(f, start))
         /\ Len(ReadChain(f, start)) <= total_clusters + 1
         /\ \/ Len(ReadChain(f, start)) = total_clusters + 1
            \/ IsEnded(f, start, ReadChain(f, start))
<1> DEFINE T == total_clusters + 1
           r == Followed(f, start)
           Good(n) == /\ IsPath(f, start, r[n]) /\ Len(r[n]) <= n
                      /\ Len(r[n]) = n \/ IsEnded(f, start, r[n])
           Bad == {n \in 0 .. T : ~Good(n)}
<1>0. T \in Nat
  BY FatAssumption
<1>1. Good(0)
  <2>1. <<>> \in Seq(Clusters) /\ Len(<<>>) = 0
    OBVIOUS
  <2>2. \A k : ~(k \in 1 .. 0 - 1)
    OBVIOUS
  <2>3. 0 <= 0
    OBVIOUS
  <2>4. r[0] = <<>>
    BY FollowedRounds
  <2> HIDE DEF r
  <2> QED BY <2>1, <2>2, <2>3, <2>4, Zenon DEF IsPath
<1>2. ASSUME NEW n \in 1 .. T, Good(n - 1) PROVE Good(n)
  <2> DEFINE s == r[n - 1]
             c == IF s = <<>> THEN start ELSE f[s[Len(s)]]
  <2>1. r[n] = IF c \in Clusters /\ Len(s) = n - 1 THEN Append(s, c) ELSE s
    BY FollowedRounds DEF Round
  <2>2. IsPath(f, start, s) /\ Len(s) <= n - 1 /\ (Len(s) = n - 1 \/ IsEnded(f, start, s))
    BY <1>2
  <2>3. s \in Seq(Clusters) /\ Len(s) \in Nat
    BY <2>2 DEF IsPath
  <2> HIDE DEF r
  <2>4. CASE c \in Clusters /\ Len(s) = n - 1
    <3>1. r[n] = Append(s, c)
      BY <2>1, <2>4, Zenon
    <3> HIDE DEF s
    <3>2. /\ Append(s, c) \in Seq(Clusters) /\ Len(Append(s, c)) = Len(s) + 1
          /\ \A k \in 1 .. Len(s) : Append(s, c)[k] = s[k]
          /\ Append(s, c)[Len(s) + 1] = c
      <4> HIDE DEF c
      <4> QED BY <2>3, <2>4
    <3>3. Append(s, c)[1] = start
      <4>1. CASE s = <<>>
        BY <3>2, <4>1
      <4>2. CASE s # <<>>
        <5>1. 1 \in 1 .. Len(s)
          BY <2>3, <4>2
        <5> QED BY <2>2, <3>2, <4>2, <5>1, Zenon DEF IsPath
      <4> QED BY <4>1, <4>2
    <3>4. \A k \in 1 .. Len(s) : Append(s, c)[k + 1] = f[Append(s, c)[k]]
      <4> SUFFICES ASSUME NEW k \in 1 .. Len(s)
                   PROVE  Append(s, c)[k + 1] = f[Append(s, c)[k]]
        OBVIOUS
      <4>1. s # <<>>
        BY <2>3
      <4>2. CASE k = Len(s)
        BY <3>2, <4>1, <4>2, Zenon
      <4>3. CASE k # Len(s)
        <5>1. k \in 1 .. Len(s) - 1 /\ k + 1 \in 1 .. Len(s)
          BY <2>3, <4>3
        <5> QED BY <2>2, <3>2, <5>1, Zenon DEF IsPath
      <4> QED BY <4>2, <4>3
    <3>5. Len(Append(s, c)) = n /\ Len(Append(s, c)) - 1 = Len(s)
      BY <2>3, <2>4, <3>2
    <3>6. n <= n
      OBVIOUS
    <3> HIDE DEF c
    <3> QED BY <3>1, <3>2, <3>3, <3>4, <3>5, <3>6, Zenon DEF IsPath
  <2>5. CASE ~(c \in Clusters /\ Len(s) = n - 1)
    <3>1. r[n] = s
      BY <2>1, <2>5, Zenon
    <3>2. IsEnded(f, start, s)
      <4>1. c \notin Clusters \/ IsEnded(f, start, s)
        BY <2>2, <2>5, Zenon
      <4> QED BY <4>1, Zenon DEF IsEnded
    <3>3. Len(s) <= n
      <4> HIDE DEF s
      <4> QED BY <2>2, <2>3
    <3> HIDE DEF s
    <3> QED BY <2>2, <3>1, <3>2, <3>3, Zenon
  <2> QED BY <2>4, <2>5, Zenon
<1>3. Bad = {}
  <2> SUFFICES ASSUME Bad # {} PROVE FALSE
    OBVIOUS
  <2>1. Bad \subseteq Nat /\ Bad \subseteq 0 .. T
    BY <1>0
  <2>2. PICK n \in Bad : \A k \in Bad : n <= k
    <3> HIDE DEF Bad
    <3> QED BY <2>1, LeastNumber
  <2>3. n # 0
    <3>1. n = 0 => Good(n)
      BY <1>1, Zenon
    <3> QED BY <3>1, Zenon
  <2>4. n \in 1 .. T /\ n - 1 \in 0 .. T /\ ~(n <= n - 1)
    BY <1>0, <2>1, <2>3
  <2>5. n - 1 \notin Bad
    BY <2>2, <2>4, Zenon
  <2>6. Good(n - 1)
    <3> HIDE DEF Good
    <3> QED BY <2>4, <2>5
  <2> HIDE DEF Good
  <2> QED BY <1>2, <2>2, <2>4, <2>6
<1>4. Good(T)
  <2> HIDE DEF Good
  <2>1. T \in 0 .. T
    BY <1>0
  <2> QED BY <1>3, <2>1
<1>5. ReadChain(f, start) = r[T]
  BY DEF ReadChain
<1> HIDE DEF r
<1> QED BY <1>4, <1>5, Zenon

\* The same, for the uses of it: s is what read_chain() returns.
IsChain(f, start, s) ==
  /\ s \in Seq(Clusters) /\ Len(s) \in Nat /\ Len(s) <= total_clusters + 1
  /\ \A k \in 1 .. Len(s) : s[k] \in Clusters
  /\ start \notin Clusters => Len(s) = 0
  /\ start \in Clusters => Len(s) >= 1
  /\ Len(s) >= 1 => s[1] = start
  /\ \A k \in 1 .. Len(s) - 1 : s[k + 1] = f[s[k]]
  /\ Len(s) = total_clusters + 1 \/ Len(s) = 0 \/ f[s[Len(s)]] \notin Clusters

LEMMA ChainFacts ==
  ASSUME NEW f, NEW start
  PROVE  IsChain(f, start, ReadChain(f, start))
<1> DEFINE s == ReadChain(f, start)
<1>0. /\ IsPath(f, start, s)
      /\ Len(s) <= total_clusters + 1
      /\ Len(s) = total_clusters + 1 \/ IsEnded(f, start, s)
  BY ChainIsPath, Zenon
<1> HIDE DEF s
<1>1. s \in Seq(Clusters) /\ Len(s) \in Nat /\ total_clusters + 1 \in Nat \ {0}
  BY <1>0, FatAssumption DEF IsPath
<1>2. Len(s) = 0 <=> s = <<>>
  BY <1>1
<1>3. \A k \in 1 .. Len(s) : s[k] \in Clusters
  BY <1>1
<1>4. Len(s) >= 1 => Len(s) # 0 /\ 1 \in 1 .. Len(s)
  BY <1>1
<1>5. /\ Len(s) <= total_clusters + 1
      /\ s # <<>> => s[1] = start
      /\ \A k \in 1 .. Len(s) - 1 : s[k + 1] = f[s[k]]
      /\ Len(s) = total_clusters + 1
         \/ (IF s = <<>> THEN start \notin Clusters ELSE f[s[Len(s)]] \notin Clusters)
  BY <1>0, Zenon DEF IsPath, IsEnded
<1>6. start \notin Clusters => Len(s) = 0
  BY <1>2, <1>3, <1>4, <1>5, <1>1
<1>7. start \in Clusters => Len(s) >= 1
  <2>1. start \in Clusters => Len(s) # 0
    BY <1>1, <1>2, <1>5
  <2> QED BY <1>1, <2>1
<1>8. IsChain(f, start, s)
  BY <1>1, <1>2, <1>3, <1>4, <1>5, <1>6, <1>7, Zenon DEF IsChain
<1> QED BY <1>8 DEF s

\* Two tables that agree on the first n - 1 clusters of a chain have its first n
\* in common; and when the second has no cluster there, that is all.
LEMMA ChainUpTo ==
  ASSUME NEW f, NEW g, NEW start, NEW s, IsChain(f, start, s),
         NEW t, IsChain(g, start, t), NEW n \in 0 .. Len(s),
         \A k \in 1 .. n - 1 : g[s[k]] = f[s[k]]
  PROVE  /\ Len(t) >= n /\ \A k \in 1 .. n : t[k] = s[k]
         /\ n >= 1 /\ g[s[n]] \notin Clusters => Len(t) = n
<1> DEFINE T == total_clusters + 1
           Bad == {k \in 1 .. n : ~(k <= Len(t) /\ t[k] = s[k])}
<1>1. /\ Len(s) \in Nat /\ Len(t) \in Nat /\ Len(s) <= T /\ Len(t) <= T /\ T \in Nat /\ n \in Nat
      /\ \A k \in 1 .. Len(s) : s[k] \in Clusters
      /\ \A k \in 1 .. Len(t) : t[k] \in Clusters
  BY FatAssumption DEF IsChain
<1>2. /\ start \in Clusters => Len(t) >= 1
      /\ start \notin Clusters => Len(s) = 0
      /\ Len(s) >= 1 => s[1] = start
      /\ Len(t) >= 1 => t[1] = start
      /\ \A k \in 1 .. Len(s) - 1 : s[k + 1] = f[s[k]]
      /\ \A k \in 1 .. Len(t) - 1 : t[k + 1] = g[t[k]]
      /\ Len(t) = T \/ Len(t) = 0 \/ g[t[Len(t)]] \notin Clusters
  BY Zenon DEF IsChain
<1>3. Bad = {}
  <2> SUFFICES ASSUME Bad # {} PROVE FALSE
    OBVIOUS
  <2>1. Bad \subseteq Nat
    OBVIOUS
  <2>2. PICK k \in Bad : \A j \in Bad : k <= j
    <3> HIDE DEF Bad
    <3> QED BY <2>1, LeastNumber
  <2>3. k # 1
    <3>1. n >= 1 => Len(s) >= 1
      BY <1>1
    <3> QED BY <1>1, <1>2, <3>1
  <2>4. k - 1 \in 1 .. n /\ k - 1 \notin Bad /\ k - 1 \in 1 .. n - 1 /\ k - 1 \in 1 .. Len(s) - 1
    BY <1>1, <2>2, <2>3
  <2>5. k - 1 <= Len(t) /\ t[k - 1] = s[k - 1]
    BY <2>4
  <2>6. g[t[k - 1]] = s[k] /\ s[k] \in Clusters
    <3>1. k - 1 + 1 = k /\ k \in 1 .. Len(s)
      BY <1>1, <2>4
    <3>2. g[s[k - 1]] = f[s[k - 1]]
      BY <2>4
    <3>3. s[k - 1 + 1] = f[s[k - 1]]
      BY <1>2, <2>4, Zenon
    <3> QED BY <1>1, <2>5, <3>1, <3>2, <3>3
  <2>7. k - 1 # Len(t)
    <3> SUFFICES ASSUME k - 1 = Len(t) PROVE FALSE
      OBVIOUS
    <3>1. Len(t) # T /\ Len(t) # 0
      BY <1>1, <2>4
    <3> QED BY <1>2, <2>6, <3>1
  <2>8. k - 1 \in 1 .. Len(t) - 1 /\ k <= Len(t) /\ k - 1 + 1 = k
    BY <1>1, <2>4, <2>5, <2>7
  <2>9. t[k] = s[k]
    BY <1>2, <2>6, <2>8, Zenon
  <2> QED BY <2>2, <2>8, <2>9
<1>4. \A k \in 1 .. n : k <= Len(t) /\ t[k] = s[k]
  BY <1>3
<1>5. Len(t) >= n
  <2>1. CASE n = 0
    BY <1>1, <2>1
  <2>2. CASE n # 0
    <3>1. n \in 1 .. n
      BY <1>1, <2>2
    <3> QED BY <1>1, <1>4, <3>1
  <2> QED BY <2>1, <2>2
<1>6. ASSUME n >= 1, g[s[n]] \notin Clusters, Len(t) # n PROVE FALSE
  <2>1. n \in 1 .. n /\ n \in 1 .. Len(t) - 1 /\ n + 1 \in 1 .. Len(t)
    BY <1>1, <1>5, <1>6
  <2>2. t[n + 1] = g[t[n]] /\ t[n] = s[n] /\ t[n + 1] \in Clusters
    BY <1>1, <1>2, <1>4, <2>1, Zenon
  <2> QED BY <1>6, <2>2
<1> QED BY <1>4, <1>5, <1>6

\* No two clusters lead to the same, and none to start.
Injective(f) == \A a, b \in Clusters : f[a] = f[b] /\ f[a] \in Clusters => a = b
NotLinked(f, start) == \A b \in Clusters : f[b] # start

\* Then two chains have no cluster in common, in different places or from
\* different starts.
LEMMA ChainsMeet ==
  ASSUME NEW f, Injective(f), NEW start, NEW other, NotLinked(f, start), NotLinked(f, other),
         NEW s, IsChain(f, start, s), NEW t, IsChain(f, other, t)
  PROVE  \A i \in 1 .. Len(s), j \in 1 .. Len(t) : s[i] = t[j] => i = j /\ start = other
<1> DEFINE Bad == {i \in 1 .. Len(s) : \E j \in 1 .. Len(t) : s[i] = t[j] /\ ~(i = j /\ start = other)}
<1>1. /\ Len(s) \in Nat /\ Len(t) \in Nat
      /\ \A k \in 1 .. Len(s) : s[k] \in Clusters
      /\ \A k \in 1 .. Len(t) : t[k] \in Clusters
      /\ Len(s) >= 1 => s[1] = start
      /\ Len(t) >= 1 => t[1] = other
      /\ \A k \in 1 .. Len(s) - 1 : s[k + 1] = f[s[k]]
      /\ \A k \in 1 .. Len(t) - 1 : t[k + 1] = f[t[k]]
  BY Zenon DEF IsChain
<1>2. \A k \in 1 .. Len(s) : k # 1 => k - 1 \in 1 .. Len(s) /\ s[k] = f[s[k - 1]]
  <2> TAKE k \in 1 .. Len(s)
  <2> HAVE k # 1
  <2>1. k - 1 \in 1 .. Len(s) - 1 /\ k - 1 + 1 = k /\ k - 1 \in 1 .. Len(s)
    BY <1>1
  <2>2. s[k - 1 + 1] = f[s[k - 1]]
    BY <1>1, <2>1, Zenon
  <2> QED BY <2>1, <2>2
<1>3. \A k \in 1 .. Len(t) : k # 1 => k - 1 \in 1 .. Len(t) /\ t[k] = f[t[k - 1]]
  <2> TAKE k \in 1 .. Len(t)
  <2> HAVE k # 1
  <2>1. k - 1 \in 1 .. Len(t) - 1 /\ k - 1 + 1 = k /\ k - 1 \in 1 .. Len(t)
    BY <1>1
  <2>2. t[k - 1 + 1] = f[t[k - 1]]
    BY <1>1, <2>1, Zenon
  <2> QED BY <2>1, <2>2
<1>4. Bad = {}
  <2> SUFFICES ASSUME Bad # {} PROVE FALSE
    OBVIOUS
  <2>1. Bad \subseteq Nat
    OBVIOUS
  <2>2. PICK i \in Bad : \A k \in Bad : i <= k
    <3> HIDE DEF Bad
    <3> QED BY <2>1, LeastNumber
  <2>3. PICK j \in 1 .. Len(t) : s[i] = t[j] /\ ~(i = j /\ start = other)
    OBVIOUS
  <2>4. i \in 1 .. Len(s) /\ Len(s) >= 1 /\ Len(t) >= 1
    BY <1>1
  <2>5. s[1] = start /\ t[1] = other
    BY <1>1, <2>4
  <2>6. CASE i = 1 /\ j = 1
    BY <2>3, <2>5, <2>6
  <2>7. CASE i = 1 /\ j # 1
    <3>1. t[j - 1] \in Clusters /\ f[t[j - 1]] = start
      BY <1>1, <1>3, <2>3, <2>5, <2>7, Zenon
    <3> QED BY <3>1 DEF NotLinked
  <2>8. CASE i # 1 /\ j = 1
    <3>1. s[i - 1] \in Clusters /\ f[s[i - 1]] = other
      BY <1>1, <1>2, <2>3, <2>4, <2>5, <2>8, Zenon
    <3> QED BY <3>1 DEF NotLinked
  <2>9. CASE i # 1 /\ j # 1
    <3>1. i - 1 \in 1 .. Len(s) /\ j - 1 \in 1 .. Len(t) /\ f[s[i - 1]] = f[t[j - 1]]
          /\ f[s[i - 1]] \in Clusters
      BY <1>1, <1>2, <1>3, <2>3, <2>4, <2>9, Zenon
    <3>2. s[i - 1] = t[j - 1]
      BY <1>1, <3>1, Zenon DEF Injective
    <3>3. (i - 1 = j - 1 => i = j) /\ ~(i <= i - 1)
      BY <2>4
    <3>4. i - 1 \in Bad
      BY <2>3, <3>1, <3>2, <3>3, Zenon
    <3> QED BY <2>2, <3>3, <3>4, Zenon
  <2> QED BY <2>6, <2>7, <2>8, <2>9
<1> QED BY <1>4

\* A chain does not run in a circle, and so it ends within the disk.
LEMMA ChainEnds ==
  ASSUME NEW f, Injective(f), NEW start, NotLinked(f, start), NEW s, IsChain(f, start, s)
  PROVE  /\ \A i, j \in 1 .. Len(s) : s[i] = s[j] => i = j
         /\ Len(s) # 0 => f[s[Len(s)]] \notin Clusters
<1>1. \A i, j \in 1 .. Len(s) : s[i] = s[j] => i = j
  BY ChainsMeet
<1>2. /\ s \in Seq(Clusters) /\ Len(s) \in Nat
      /\ Len(s) = total_clusters + 1 \/ Len(s) = 0 \/ f[s[Len(s)]] \notin Clusters
  BY Zenon DEF IsChain
<1>3. Len(s) # total_clusters + 1
  <2> SUFFICES ASSUME Len(s) = total_clusters + 1 PROVE FALSE
    OBVIOUS
  <2>1. IsFiniteSet(Clusters) /\ Cardinality(Clusters) = total_clusters
    <3>1. PICK n \in Int : n = total_clusters + 1
      BY FatAssumption
    <3>2. IsFiniteSet(2 .. n) /\ Cardinality(2 .. n) = IF 2 > n THEN 0 ELSE n - 2 + 1
      BY FS_Interval
    <3> QED BY <3>1, <3>2, FatAssumption DEF Clusters
  <2>2. IsFiniteSet(1 .. Len(s)) /\ Cardinality(1 .. Len(s)) = total_clusters + 1
    <3>1. 1 \in Int /\ Len(s) \in Int
      BY <1>2
    <3>2. IsFiniteSet(1 .. Len(s))
          /\ Cardinality(1 .. Len(s)) = IF 1 > Len(s) THEN 0 ELSE Len(s) - 1 + 1
      BY <3>1, FS_Interval, Zenon
    <3> QED BY <3>2, FatAssumption
  <2>3. s \in [1 .. Len(s) -> Clusters]
    BY <1>2
  <2>4. Cardinality(Clusters) < Cardinality(1 .. Len(s))
    BY <2>1, <2>2, FatAssumption
  <2>5. \E i, j \in 1 .. Len(s) : i # j /\ s[i] = s[j]
    <3> DEFINE S == 1 .. Len(s)
    <3>1. /\ IsFiniteSet(S) /\ IsFiniteSet(Clusters)
          /\ Cardinality(Clusters) < Cardinality(S) /\ s \in [S -> Clusters]
      BY <2>1, <2>2, <2>3, <2>4, Zenon
    <3> HIDE DEF S
    <3>2. \E i, j \in S : i # j /\ s[i] = s[j]
      BY <3>1, FS_PigeonHole, Zenon
    <3> QED BY <3>2, Zenon DEF S
  <2> QED BY <1>1, <2>5
<1> QED BY <1>1, <1>2, <1>3

\* A chain stays as it is when none of its clusters is linked to another.
LEMMA ChainKept ==
  ASSUME NEW f, Injective(f), NEW start, NotLinked(f, start), NEW s, s = ReadChain(f, start),
         NEW g, \A k \in 1 .. Len(s) : g[s[k]] = f[s[k]]
  PROVE  ReadChain(g, start) = s
<1> DEFINE t == ReadChain(g, start)
<1>1. IsChain(f, start, s) /\ IsChain(g, start, t)
  BY ChainFacts
<1> HIDE DEF t
<1>2. s \in Seq(Clusters) /\ t \in Seq(Clusters) /\ Len(s) \in Nat /\ Len(s) \in 0 .. Len(s)
  BY <1>1 DEF IsChain
<1>3. \A k \in 1 .. Len(s) - 1 : g[s[k]] = f[s[k]]
  BY <1>2
<1>4. \A k \in 1 .. Len(s) : t[k] = s[k]
  <2>1. PICK n \in 0 .. Len(s) : n = Len(s)
    BY <1>2
  <2>2. \A k \in 1 .. n - 1 : g[s[k]] = f[s[k]]
    BY <1>3, <2>1
  <2>3. Len(t) >= n /\ \A k \in 1 .. n : t[k] = s[k]
    BY <1>1, <2>2, ChainUpTo
  <2> QED BY <2>1, <2>3
<1>5. Len(t) = Len(s)
  <2>1. CASE Len(s) = 0
    <3>1. start \notin Clusters
      BY <1>1, <2>1 DEF IsChain
    <3> QED BY <1>1, <2>1, <3>1, Zenon DEF IsChain
  <2>2. CASE Len(s) # 0
    <3>1. Len(s) \in 1 .. Len(s) /\ Len(s) >= 1
      BY <1>2, <2>2
    <3>2. g[s[Len(s)]] \notin Clusters
      BY <1>1, <2>2, <3>1, ChainEnds
    <3> QED BY <1>1, <1>2, <1>3, <3>1, <3>2, ChainUpTo, SMTT(30)
  <2> QED BY <2>1, <2>2
<1>6. t = s
  BY <1>2, <1>4, <1>5
<1> QED BY <1>6 DEF t

-----------------------------------------------------------------------------
(* What keeps the chains apart *)

\* In the table f, no cluster is led to by two others, none in use leads to a free
\* one or to the root, and nothing leads to the clusters of S, which are in use:
\* they are those that files and directories start with.
LinksSound(f, S) ==
  /\ f \in [Clusters -> Clusters \cup {FAT_FREE, FAT_EOC}]
  /\ f[root_cluster] # FAT_FREE
  /\ Injective(f)
  /\ \A b \in Clusters : f[b] \in Clusters => f[f[b]] # FAT_FREE /\ f[b] # root_cluster
  /\ \A c \in S : c \in Clusters /\ f[c] # FAT_FREE /\ c # root_cluster /\ NotLinked(f, c)

LEMMA NoCluster == FAT_FREE \notin Clusters /\ FAT_EOC \notin Clusters /\ 0 \notin Clusters
BY DEF Clusters, FAT_FREE, FAT_EOC

\* The clusters of a chain are in use, and lead to each other and to no other.
LEMMA InChainFacts ==
  ASSUME NEW f, NEW S, LinksSound(f, S), NEW start \in S \cup {0},
         NEW R, R = InChain(f, start)
  PROVE  /\ R \subseteq Clusters
         /\ \A c \in R : f[c] # FAT_FREE /\ c # root_cluster
         /\ \A c \in R : f[c] \in Clusters => f[c] \in R
         /\ \A c \in R : c = start \/ \E b \in R : f[b] = c
         /\ start \in Clusters => start \in R
<1> DEFINE s == ReadChain(f, start)
<1>1. IsChain(f, start, s)
  BY ChainFacts
<1>2. R = {s[k] : k \in 1 .. Len(s)}
  BY Zenon DEF InChain
<1> HIDE DEF s
<1>3. /\ Len(s) \in Nat
      /\ \A k \in 1 .. Len(s) : s[k] \in Clusters
      /\ start \notin Clusters => Len(s) = 0
      /\ Len(s) >= 1 => s[1] = start
      /\ start \in Clusters => Len(s) >= 1
      /\ \A k \in 1 .. Len(s) - 1 : s[k + 1] = f[s[k]]
  BY <1>1, Zenon DEF IsChain
<1>4. \A k \in 1 .. Len(s) : k # 1 => k - 1 \in 1 .. Len(s) /\ f[s[k - 1]] = s[k]
  <2> TAKE k \in 1 .. Len(s)
  <2> HAVE k # 1
  <2>1. k - 1 \in 1 .. Len(s) - 1 /\ k - 1 + 1 = k /\ k - 1 \in 1 .. Len(s)
    BY <1>3
  <2>2. s[k - 1 + 1] = f[s[k - 1]]
    BY <1>3, <2>1, Zenon
  <2> QED BY <2>1, <2>2
<1>5. R \subseteq Clusters
  BY <1>2, <1>3
<1>6. \A c \in R : c = start \/ \E b \in R : f[b] = c
  <2> TAKE c \in R
  <2>1. PICK k \in 1 .. Len(s) : c = s[k]
    BY <1>2
  <2>2. CASE k = 1
    BY <1>3, <2>1, <2>2
  <2>3. CASE k # 1
    BY <1>2, <1>4, <2>1, <2>3, Zenon
  <2> QED BY <2>2, <2>3
<1>7. start \in Clusters => start \in R
  <2>1. start \in Clusters => 1 \in 1 .. Len(s) /\ s[1] = start
    BY <1>3
  <2> QED BY <1>2, <2>1
<1>8. R = {} \/ start \in S
  <2>1. CASE start \in Clusters
    BY <2>1, NoCluster
  <2>2. CASE start \notin Clusters
    <3>1. 1 .. Len(s) = {}
      BY <1>3, <2>2
    <3> QED BY <1>2, <3>1
  <2> QED BY <2>1, <2>2
<1>9. \A c \in R : f[c] # FAT_FREE /\ c # root_cluster
  <2> TAKE c \in R
  <2>1. CASE c = start
    BY <1>8, <2>1, Zenon DEF LinksSound
  <2>2. CASE \E b \in R : f[b] = c
    BY <1>5, <2>2, Zenon DEF LinksSound
  <2> QED BY <1>6, <2>1, <2>2
<1>10. \A c \in R : f[c] \in Clusters => f[c] \in R
  <2> TAKE c \in R
  <2> HAVE f[c] \in Clusters
  <2>1. PICK k \in 1 .. Len(s) : c = s[k]
    BY <1>2
  <2>2. Len(s) # 0 => f[s[Len(s)]] \notin Clusters
    <3>1. NotLinked(f, start) /\ Injective(f)
      BY <1>8, Zenon DEF LinksSound
    <3> QED BY <1>1, <3>1, ChainEnds
  <2>3. k \in 1 .. Len(s) - 1 /\ k + 1 \in 1 .. Len(s)
    BY <1>3, <2>1, <2>2
  <2> QED BY <1>2, <1>3, <2>1, <2>3, Zenon
<1> QED BY <1>5, <1>6, <1>7, <1>9, <1>10, Zenon

\* An operation that changes one chain, and clusters that are free, leaves the
\* others alone.
LEMMA Elsewhere ==
  ASSUME NEW f, NEW S, LinksSound(f, S), NEW start \in S \cup {0}, NEW c \in S, c # start,
         NEW g, \A b \in Clusters : g[b] = f[b] \/ f[b] = FAT_FREE \/ b \in InChain(f, start)
  PROVE  /\ ReadChain(g, c) = ReadChain(f, c)
         /\ InChain(f, c) \cap InChain(f, start) = {}
<1> DEFINE s == ReadChain(f, start)
           t == ReadChain(f, c)
<1>1. IsChain(f, start, s) /\ IsChain(f, c, t)
  BY ChainFacts
<1>2. InChain(f, start) = {s[k] : k \in 1 .. Len(s)} /\ InChain(f, c) = {t[k] : k \in 1 .. Len(t)}
  BY Zenon DEF InChain
<1>3. /\ InChain(f, c) \subseteq Clusters
      /\ \A b \in InChain(f, c) : f[b] # FAT_FREE
  BY InChainFacts
<1>4. Injective(f) /\ NotLinked(f, c)
  BY DEF LinksSound
<1> HIDE DEF s
<1>5. InChain(f, c) \cap InChain(f, start) = {}
  <2> HIDE DEF t
  <2>1. CASE start \in S
    <3>1. NotLinked(f, start)
      BY <2>1 DEF LinksSound
    <3>2. \A i \in 1 .. Len(t), j \in 1 .. Len(s) : t[i] # s[j]
      BY <1>1, <1>4, <3>1, ChainsMeet
    <3> QED BY <1>2, <3>2
  <2>2. CASE start \notin S
    <3>1. Len(s) = 0
      BY <1>1, <2>2, NoCluster DEF IsChain
    <3>2. 1 .. Len(s) = {}
      BY <3>1
    <3> QED BY <1>2, <3>2, Zenon
  <2> QED BY <2>1, <2>2
<1>6. \A k \in 1 .. Len(t) : g[t[k]] = f[t[k]]
  <2> HIDE DEF t
  <2> TAKE k \in 1 .. Len(t)
  <2>1. t[k] \in InChain(f, c)
    BY <1>2
  <2> QED BY <1>3, <1>5, <2>1
<1>7. ReadChain(g, c) = t
  BY <1>4, <1>6, ChainKept
<1> QED BY <1>5, <1>7

\* free_chain(): the other chains stay apart.
LEMMA FreeSound ==
  ASSUME NEW f, NEW S, LinksSound(f, S), NEW start \in S \cup {0},
         NEW g, g = free_chain(f, start)
  PROVE  /\ LinksSound(g, S \ {start})
         /\ \A b \in Clusters : g[b] = f[b] \/ b \in InChain(f, start)
<1> DEFINE R == InChain(f, start)
<1>1. /\ R \subseteq Clusters
      /\ \A c \in R : f[c] # FAT_FREE /\ c # root_cluster
      /\ \A c \in R : c = start \/ \E b \in R : f[b] = c
  BY InChainFacts, Zenon
<1>2. g = [c \in Clusters |-> IF c \in R THEN FAT_FREE ELSE f[c]]
  BY Zenon DEF free_chain
<1> HIDE DEF R
<1>3. \A b \in Clusters : b \in R => g[b] = FAT_FREE
  BY <1>2, Zenon
<1>4. \A b \in Clusters : b \notin R => g[b] = f[b]
  BY <1>2, Zenon
<1>5. /\ f \in [Clusters -> Clusters \cup {FAT_FREE, FAT_EOC}] /\ f[root_cluster] # FAT_FREE
      /\ Injective(f)
      /\ \A b \in Clusters : f[b] \in Clusters => f[f[b]] # FAT_FREE /\ f[b] # root_cluster
      /\ \A c \in S : c \in Clusters /\ f[c] # FAT_FREE /\ c # root_cluster /\ NotLinked(f, c)
  BY Zenon DEF LinksSound
<1>6. \A b \in Clusters : g[b] \in Clusters => b \notin R /\ g[b] = f[b]
  BY <1>3, <1>4, NoCluster, Zenon
<1>7. \A b \in Clusters : b \notin R /\ f[b] \in Clusters => f[b] \notin R
  <2> SUFFICES ASSUME NEW b \in Clusters, b \notin R, f[b] \in R PROVE FALSE
    BY Zenon
  <2>1. CASE f[b] = start
    <3>1. start \in S
      BY <1>1, <2>1, NoCluster
    <3> QED BY <1>5, <2>1, <3>1, Zenon DEF NotLinked
  <2>2. CASE \E a \in R : f[a] = f[b]
    BY <1>1, <1>5, <2>2 DEF Injective
  <2> QED BY <1>1, <2>1, <2>2
<1>8. \A c \in S \ {start} : c \notin R
  <2> SUFFICES ASSUME NEW c \in S, c # start, c \in R PROVE FALSE
    BY Zenon
  <2>1. PICK b \in R : f[b] = c
    BY <1>1
  <2> QED BY <1>1, <1>5, <2>1 DEF NotLinked
<1>9. g \in [Clusters -> Clusters \cup {FAT_FREE, FAT_EOC}]
  BY <1>2, <1>5
<1>10. root_cluster \in Clusters
  BY FatAssumption DEF root_cluster, Clusters
<1>11. g[root_cluster] # FAT_FREE
  BY <1>1, <1>4, <1>5, <1>10, Zenon
<1>12. Injective(g)
  BY <1>5, <1>6 DEF Injective
<1>13. \A b \in Clusters : g[b] \in Clusters => g[g[b]] # FAT_FREE /\ g[b] # root_cluster
  BY <1>4, <1>5, <1>6, <1>7
<1>14. \A c \in S \ {start} : c \in Clusters /\ g[c] # FAT_FREE /\ c # root_cluster
  BY <1>4, <1>5, <1>8, Zenon
<1>15. \A c \in S \ {start} : NotLinked(g, c)
  <2> SUFFICES ASSUME NEW c \in S, NEW b \in Clusters, g[b] = c PROVE FALSE
    BY Zenon DEF NotLinked
  <2>1. f[b] = c
    BY <1>5, <1>6, Zenon
  <2> QED BY <1>5, <2>1, Zenon DEF NotLinked
<1>16. \A b \in Clusters : g[b] = f[b] \/ b \in InChain(f, start)
  BY <1>4 DEF R
<1> QED BY <1>9, <1>11, <1>12, <1>13, <1>14, <1>15, <1>16, Zenon DEF LinksSound

\* truncate_chain(): what is kept is the beginning of the chain.
LEMMA CutSound ==
  ASSUME NEW f, NEW S, LinksSound(f, S), NEW start \in S, NEW s, s = ReadChain(f, start),
         NEW keep \in 1 .. Len(s) - 1, NEW g, g = truncate_chain(f, start, keep)
  PROVE  /\ LinksSound(g, S)
         /\ \A b \in Clusters : g[b] = f[b] \/ b \in InChain(f, start)
         /\ Len(ReadChain(g, start)) = keep
         /\ \A k \in 1 .. keep : ReadChain(g, start)[k] = s[k]
<1> DEFINE t == ReadChain(g, start)
           D == {s[i] : i \in keep + 1 .. Len(s)}
<1>1. IsChain(f, start, s) /\ IsChain(g, start, t)
  BY ChainFacts
<1>2. InChain(f, start) = {s[k] : k \in 1 .. Len(s)}
  BY Zenon DEF InChain
<1> HIDE DEF t
<1>3. /\ Len(s) \in Nat /\ s[1] = start
      /\ \A k \in 1 .. Len(s) : s[k] \in Clusters
      /\ \A k \in 1 .. Len(s) - 1 : s[k + 1] = f[s[k]]
  BY <1>1 DEF IsChain
<1>4. f \in [Clusters -> Clusters \cup {FAT_FREE, FAT_EOC}] /\ f[root_cluster] # FAT_FREE
      /\ Injective(f)
      /\ (\A b \in Clusters : f[b] \in Clusters => f[f[b]] # FAT_FREE /\ f[b] # root_cluster)
      /\ \A c \in S : c \in Clusters /\ f[c] # FAT_FREE /\ c # root_cluster /\ NotLinked(f, c)
  BY Zenon DEF LinksSound
<1>5. \A i, j \in 1 .. Len(s) : s[i] = s[j] => i = j
  BY <1>1, <1>4, ChainEnds
<1>6. g = [c \in Clusters |-> IF c = s[keep] THEN FAT_EOC
                               ELSE IF c \in D THEN FAT_FREE ELSE f[c]]
  <2>1. ~(keep >= Len(s))
    BY <1>3
  <2>2. \A c : (c \in D) <=> (\E i \in keep + 1 .. Len(s) : c = s[i])
    OBVIOUS
  <2> QED BY <2>1, <2>2, Zenon DEF truncate_chain
<1>7. keep \in 1 .. Len(s) /\ D \subseteq InChain(f, start)
  BY <1>2, <1>3
<1>8. s[keep] \in InChain(f, start) /\ s[keep] \notin D
  <2>1. \A i \in keep + 1 .. Len(s) : i \in 1 .. Len(s) /\ i # keep
    BY <1>3
  <2> QED BY <1>2, <1>5, <1>7, <2>1
<1>9. InChain(f, start) \subseteq Clusters
      /\ \A c \in InChain(f, start) : f[c] # FAT_FREE /\ c # root_cluster
  BY InChainFacts, Zenon
<1>10. /\ g[s[keep]] = FAT_EOC
       /\ \A b \in Clusters : b \in D => g[b] = FAT_FREE
       /\ \A b \in Clusters : b \notin D /\ b # s[keep] => g[b] = f[b]
  <2> HIDE DEF D
  <2> QED BY <1>6, <1>8, <1>9, Zenon
\* A cluster that leads to one that is freed is freed itself, or the last kept.
<1>11. \A b \in Clusters : f[b] \in D => b \in D \/ b = s[keep]
  <2> SUFFICES ASSUME NEW b \in Clusters, NEW i \in keep + 1 .. Len(s), f[b] = s[i]
               PROVE  b \in D \/ b = s[keep]
    OBVIOUS
  <2>1. i - 1 \in 1 .. Len(s) - 1 /\ i - 1 + 1 = i /\ i \in 1 .. Len(s) /\ i - 1 \in 1 .. Len(s)
    BY <1>3
  <2>2. s[i - 1 + 1] = f[s[i - 1]]
    BY <1>3, <2>1, Zenon
  <2>3. b = s[i - 1]
    BY <1>3, <1>4, <2>1, <2>2 DEF Injective
  <2>4. i - 1 = keep \/ i - 1 \in keep + 1 .. Len(s)
    BY <2>1
  <2> QED BY <2>3, <2>4
<1>12. \A c \in S : c \notin D
  <2> SUFFICES ASSUME NEW c \in S, NEW i \in keep + 1 .. Len(s), c = s[i] PROVE FALSE
    OBVIOUS
  <2>1. i - 1 \in 1 .. Len(s) - 1 /\ i - 1 + 1 = i /\ i - 1 \in 1 .. Len(s)
    BY <1>3
  <2>2. s[i - 1 + 1] = f[s[i - 1]]
    BY <1>3, <2>1, Zenon
  <2>3. f[s[i - 1]] = c /\ s[i - 1] \in Clusters
    BY <1>3, <2>1, <2>2
  <2> QED BY <1>4, <2>3, Zenon DEF NotLinked
<1>13. /\ root_cluster \in Clusters /\ root_cluster # s[keep] /\ root_cluster \notin D
       /\ s[keep] \in Clusters /\ D \subseteq Clusters
  BY <1>7, <1>8, <1>9, FatAssumption DEF root_cluster, Clusters
<1> HIDE DEF D
<1>14. g \in [Clusters -> Clusters \cup {FAT_FREE, FAT_EOC}]
  BY <1>4, <1>6
<1>15. g[root_cluster] # FAT_FREE
  BY <1>4, <1>10, <1>13, Zenon
<1>16. \A b \in Clusters : g[b] \in Clusters => b \notin D /\ b # s[keep] /\ g[b] = f[b]
  BY <1>10, NoCluster
<1>17. Injective(g)
  BY <1>4, <1>16 DEF Injective
<1>18. \A b \in Clusters : g[b] \in Clusters => g[g[b]] # FAT_FREE /\ g[b] # root_cluster
  <2> SUFFICES ASSUME NEW b \in Clusters, g[b] \in Clusters
               PROVE  g[g[b]] # FAT_FREE /\ g[b] # root_cluster
    BY Zenon
  <2>1. g[b] = f[b] /\ f[b] \notin D /\ f[f[b]] # FAT_FREE /\ f[b] # root_cluster
    BY <1>4, <1>11, <1>16
  <2>2. CASE g[b] = s[keep]
    <3>1. FAT_EOC # FAT_FREE
      BY DEF FAT_EOC, FAT_FREE
    <3> QED BY <1>10, <2>1, <2>2, <3>1, Zenon
  <2>3. CASE g[b] # s[keep]
    BY <1>10, <2>1, <2>3, Zenon
  <2> QED BY <2>2, <2>3
<1>19. \A c \in S : c \in Clusters /\ g[c] # FAT_FREE /\ c # root_cluster
  <2>1. FAT_EOC # FAT_FREE
    BY DEF FAT_EOC, FAT_FREE
  <2> QED BY <1>4, <1>10, <1>12, <2>1, Zenon
<1>20. \A c \in S : NotLinked(g, c)
  <2> SUFFICES ASSUME NEW c \in S, NEW b \in Clusters, g[b] = c PROVE FALSE
    BY Zenon DEF NotLinked
  <2>1. f[b] = c
    BY <1>4, <1>16, Zenon
  <2> QED BY <1>4, <2>1, Zenon DEF NotLinked
<1>21. \A b \in Clusters : g[b] = f[b] \/ b \in InChain(f, start)
  BY <1>7, <1>8, <1>10
<1>22. Len(t) = keep /\ \A k \in 1 .. keep : t[k] = s[k]
  <2>1. keep \in 0 .. Len(s) /\ keep >= 1
    BY <1>3
  <2>2. \A k \in 1 .. keep - 1 : g[s[k]] = f[s[k]]
    <3> TAKE k \in 1 .. keep - 1
    <3>1. k \in 1 .. Len(s) /\ k # keep /\ k \notin keep + 1 .. Len(s)
      BY <1>3
    <3>2. s[k] # s[keep] /\ s[k] \notin D
      <4>1. \A i \in keep + 1 .. Len(s) : i \in 1 .. Len(s)
        BY <1>3
      <4> QED BY <1>5, <1>7, <3>1, <4>1 DEF D
    <3> QED BY <1>3, <1>10, <3>1, <3>2
  <2>3. g[s[keep]] \notin Clusters
    BY <1>10, NoCluster, Zenon
  <2> QED BY <1>1, <2>1, <2>2, <2>3, ChainUpTo
<1>23. LinksSound(g, S)
  BY <1>14, <1>15, <1>17, <1>18, <1>19, <1>20, Zenon DEF LinksSound
<1> QED BY <1>21, <1>22, <1>23 DEF t

-----------------------------------------------------------------------------
(* Which clusters are allocated *)

LEMMA MinIsLeast ==
  ASSUME NEW C \in SUBSET Nat, C # {}
  PROVE  Min(C) \in C /\ \A y \in C : Min(C) <= y
<1>1. \E x \in C : \A y \in C : x <= y
  BY LeastNumber
<1> QED BY <1>1, Zenon DEF Min

\* A set of natural numbers that is not empty and has a bound has a greatest element.
LEMMA GreatestNumber ==
  ASSUME NEW C \in SUBSET Nat, C # {}, NEW n \in Nat, \A x \in C : x <= n
  PROVE  \E x \in C : \A y \in C : y <= x
<1> DEFINE D == {m \in Nat : \E x \in C : m = n - x}
<1>1. D # {} /\ D \subseteq Nat
  <2>1. PICK x \in C : TRUE
    BY Zenon
  <2>2. n - x \in Nat
    BY <2>1
  <2> QED BY <2>2, Zenon
<1>2. PICK m \in D : \A k \in D : m <= k
  <2> HIDE DEF D
  <2> QED BY <1>1, LeastNumber
<1>3. PICK x \in C : m = n - x
  OBVIOUS
<1>4. \A y \in C : y <= x
  <2> TAKE y \in C
  <2>1. n - y \in D
    OBVIOUS
  <2>2. m <= n - y
    BY <1>2, <2>1, Zenon
  <2> QED BY <1>3, <2>2
<1> QED BY <1>4

LEMMA FreeIsFinite ==
  ASSUME NEW f
  PROVE  /\ Free(f) \subseteq Nat /\ IsFiniteSet(Free(f)) /\ Cardinality(Free(f)) \in Nat
         /\ \A C \in SUBSET Free(f) : IsFiniteSet(C) /\ Cardinality(C) \in Nat
<1>1. PICK n \in Int : n = total_clusters + 1
  BY FatAssumption
<1>2. IsFiniteSet(2 .. n)
  BY FS_Interval
<1>3. Free(f) \subseteq Clusters /\ Clusters = 2 .. n
  BY <1>1 DEF Free, Clusters
<1>4. IsFiniteSet(Free(f))
  BY <1>2, <1>3, FS_Subset
<1>5. \A C \in SUBSET Free(f) : IsFiniteSet(C) /\ Cardinality(C) \in Nat
  BY <1>4, FS_Subset, FS_CardinalityType
<1>6. Free(f) \subseteq Nat
  BY <1>3
<1> QED BY <1>4, <1>5, <1>6, FS_CardinalityType

\* The free clusters below c, whose number is its place among them.
Below(f, c) == {b \in Free(f) : b < c}

LEMMA Places ==
  ASSUME NEW f
  PROVE  /\ \A c \in Free(f) : Cardinality(Below(f, c)) \in Nat
         /\ \A b, c \in Free(f) : b < c => Cardinality(Below(f, b)) < Cardinality(Below(f, c))
<1>1. Free(f) \subseteq Nat /\ IsFiniteSet(Free(f))
  BY FreeIsFinite
<1>2. \A c : Below(f, c) \subseteq Free(f) /\ IsFiniteSet(Below(f, c))
             /\ Cardinality(Below(f, c)) \in Nat
  <2> TAKE c
  <2>1. Below(f, c) \in SUBSET Free(f)
    BY DEF Below
  <2> QED BY <2>1, FreeIsFinite
<1>3. ASSUME NEW b \in Free(f), NEW c \in Free(f), b < c
      PROVE  Cardinality(Below(f, b)) < Cardinality(Below(f, c))
  <2> DEFINE B == Below(f, b)
  <2>1. b \notin B /\ B \cup {b} \subseteq Below(f, c)
    BY <1>1, <1>3 DEF Below
  <2> HIDE DEF B
  <2>2. IsFiniteSet(B) /\ Cardinality(B) \in Nat
    BY <1>2 DEF B
  <2>3. Cardinality(B \cup {b}) = Cardinality(B) + 1
    BY <2>1, <2>2, FS_AddElement, Zenon
  <2>4. Cardinality(B \cup {b}) <= Cardinality(Below(f, c))
    <3>1. B \cup {b} \in SUBSET Below(f, c)
      BY <2>1
    <3>2. IsFiniteSet(Below(f, c))
      BY <1>2
    <3> QED BY <3>1, <3>2, FS_Subset, Zenon
  <2>5. Cardinality(B) < Cardinality(Below(f, c))
    BY <1>2, <2>2, <2>3, <2>4
  <2> QED BY <2>5 DEF B
<1> QED BY <1>2, <1>3

\* There are as many clusters to be had as are asked for, if so many are free.
LEMMA LowestCount ==
  ASSUME NEW f, NEW count \in Nat, count <= Cardinality(Free(f))
  PROVE  Cardinality(Lowest(f, count)) = count
<1> DEFINE N == Cardinality(Free(f))
           Bad == {n \in 0 .. N : Cardinality(Lowest(f, n)) # n}
<1>0. /\ N \in Nat /\ Free(f) \subseteq Nat /\ IsFiniteSet(Free(f))
      /\ \A c \in Free(f) : Cardinality(Below(f, c)) \in Nat
      /\ \A b, c \in Free(f) : b < c => Cardinality(Below(f, b)) < Cardinality(Below(f, c))
  BY FreeIsFinite, Places
<1>1. \A n : Lowest(f, n) = {c \in Free(f) : Cardinality(Below(f, c)) < n}
  BY DEF Lowest, Below
<1>2. \A n : Lowest(f, n) \subseteq Free(f) /\ IsFiniteSet(Lowest(f, n))
             /\ Cardinality(Lowest(f, n)) \in Nat
  <2> TAKE n
  <2>1. Lowest(f, n) \in SUBSET Free(f)
    BY <1>1
  <2> QED BY <2>1, FreeIsFinite
<1>3. Cardinality(Lowest(f, 0)) = 0
  <2>1. Lowest(f, 0) = {}
    BY <1>0, <1>1
  <2> QED BY <2>1, FS_EmptySet
<1>4. ASSUME NEW n \in Nat, n < N, Cardinality(Lowest(f, n)) = n
      PROVE  Cardinality(Lowest(f, n + 1)) = n + 1
  <2> DEFINE L == Lowest(f, n)
             Rest == Free(f) \ L
  <2>1. Rest # {} /\ Rest \subseteq Nat
    <3>1. Rest = {} => L = Free(f)
      BY <1>2
    <3> QED BY <1>0, <1>4, <3>1
  <2>2. PICK m \in Rest : \A y \in Rest : m <= y
    <3> HIDE DEF Rest
    <3> QED BY <2>1, LeastNumber
  <2>3. m \in Free(f) /\ m \notin L /\ ~(Cardinality(Below(f, m)) < n)
    BY <1>1, <2>2
  <2>4. Below(f, m) = L
    <3>1. ASSUME NEW b \in Below(f, m) PROVE b \in L
      <4>1. b \in Free(f) /\ b < m
        BY DEF Below
      <4> QED BY <1>0, <2>2, <2>3, <4>1
    <3>2. ASSUME NEW b \in L PROVE b \in Below(f, m)
      <4>1. b \in Free(f) /\ Cardinality(Below(f, b)) < n
        BY <1>1
      <4>2. ~(m < b)
        BY <1>0, <2>3, <4>1
      <4>3. b # m
        BY <2>3
      <4> QED BY <1>0, <2>3, <4>1, <4>2, <4>3 DEF Below
    <3> HIDE DEF L
    <3> QED BY <3>1, <3>2
  <2>5. Cardinality(Below(f, m)) = n
    BY <1>4, <2>4
  <2>6. Lowest(f, n + 1) = L \cup {m}
    <3>1. ASSUME NEW b \in Free(f) PROVE (Cardinality(Below(f, b)) < n + 1) <=> (b \in L \/ b = m)
      <4>1. (b \in L) <=> (Cardinality(Below(f, b)) < n)
        BY <1>1
      <4>2. b < m \/ b = m \/ m < b
        BY <1>0, <2>3
      <4>3. Cardinality(Below(f, b)) \in Nat
        BY <1>0
      <4>4. m < b => Cardinality(Below(f, b)) > n
        BY <1>0, <2>3, <2>5
      <4>5. b < m => Cardinality(Below(f, b)) < n
        BY <1>0, <2>3, <2>5
      <4> HIDE DEF L
      <4> QED BY <2>5, <4>1, <4>2, <4>3, <4>4, <4>5
    <3>2. L \subseteq Free(f)
      BY <1>2
    <3>3. Lowest(f, n + 1) = {c \in Free(f) : Cardinality(Below(f, c)) < n + 1}
      BY <1>1
    <3> HIDE DEF L
    <3> QED BY <2>3, <3>1, <3>2, <3>3
  <2>7. IsFiniteSet(L)
    BY <1>2
  <2> HIDE DEF L
  <2>8. Cardinality(L \cup {m}) = Cardinality(L) + 1
    BY <2>3, <2>7, FS_AddElement, Zenon
  <2> QED BY <1>4, <2>6, <2>8, Zenon DEF L
<1>5. Bad = {}
  <2> SUFFICES ASSUME Bad # {} PROVE FALSE
    OBVIOUS
  <2>1. Bad \subseteq Nat
    BY <1>0
  <2>2. PICK n \in Bad : \A k \in Bad : n <= k
    <3> HIDE DEF Bad
    <3> QED BY <2>1, LeastNumber
  <2>3. n # 0
    BY <1>3
  <2>4. n - 1 \in Nat /\ n - 1 < N /\ n - 1 \in 0 .. N /\ n - 1 + 1 = n /\ ~(n <= n - 1)
    BY <1>0, <2>3
  <2>5. Cardinality(Lowest(f, n - 1)) = n - 1
    BY <2>2, <2>4
  <2>6. Cardinality(Lowest(f, n - 1 + 1)) = n - 1 + 1
    BY <1>4, <2>4, <2>5
  <2> QED BY <2>4, <2>6
<1>6. count \in 0 .. N
  BY <1>0
<1> QED BY <1>5, <1>6

\* alloc_clusters() links the lowest free clusters in their order.
IsAllocated(f, new, g, m) ==
  /\ new \subseteq Clusters /\ new \subseteq Free(f) /\ m \in new /\ \A c \in new : m <= c
  /\ g \in [Clusters -> Clusters \cup {FAT_FREE, FAT_EOC}]
  /\ \A b \in Clusters : b \notin new => g[b] = f[b]
  /\ \A c \in new : IF \A b \in new : b <= c THEN g[c] = FAT_EOC
                    ELSE g[c] \in new /\ c < g[c] /\ \A b \in new : c < b => g[c] <= b

LEMMA AllocFacts ==
  ASSUME NEW f, NEW S, LinksSound(f, S), NEW count \in Nat, count # 0,
         count <= Cardinality(Free(f))
  PROVE  IsAllocated(f, Lowest(f, count), alloc_clusters(f, count), Min(Lowest(f, count)))
<1> DEFINE new == Lowest(f, count)
           g == alloc_clusters(f, count)
<1>1. new \subseteq Free(f) /\ Free(f) \subseteq Clusters /\ Clusters \subseteq Nat
  BY DEF Lowest, Free, Clusters
<1>2. new # {}
  <2>1. Cardinality(new) = count
    BY LowestCount
  <2> HIDE DEF new
  <2> QED BY <2>1, FS_EmptySet
<1>3. g = [c \in Clusters |-> IF c \notin new THEN f[c]
                               ELSE IF c = Max(new) THEN FAT_EOC ELSE Min({b \in new : b > c})]
  BY DEF alloc_clusters
<1> HIDE DEF new, g
<1>4. Min(new) \in new /\ \A c \in new : Min(new) <= c
  BY <1>1, <1>2, MinIsLeast, Zenon
<1>5. Max(new) \in new /\ \A c \in new : c <= Max(new)
  <2>1. total_clusters + 1 \in Nat /\ \A c \in new : c <= total_clusters + 1
    BY <1>1, FatAssumption DEF Clusters
  <2>2. \E x \in new : \A y \in new : y <= x
    BY <1>1, <1>2, <2>1, GreatestNumber, Zenon
  <2>3. \E x \in new : \A y \in new : x >= y
    BY <1>1, <2>2
  <2>4. Max(new) \in new /\ \A y \in new : Max(new) >= y
    BY <2>3, Zenon DEF Max
  <2> QED BY <1>1, <2>4
<1>6. ASSUME NEW c \in new
      PROVE  IF \A b \in new : b <= c THEN g[c] = FAT_EOC
             ELSE g[c] \in new /\ c < g[c] /\ \A b \in new : c < b => g[c] <= b
  <2>0. PICK x \in new : x = Max(new)
    BY <1>5
  <2>1. (\A b \in new : b <= c) => c = Max(new)
    <3>1. (\A b \in new : b <= c) => x <= c
      OBVIOUS
    <3>2. c <= x /\ c \in Nat /\ x \in Nat
      BY <1>1, <1>5, <2>0, Zenon
    <3> QED BY <2>0, <3>1, <3>2
  <2>2. CASE c = Max(new)
    <3>1. g[c] = FAT_EOC
      BY <1>1, <1>3, <2>2
    <3>2. \A b \in new : b <= c
      BY <1>5, <2>2
    <3> QED BY <3>1, <3>2, Zenon
  <2>3. CASE c # Max(new)
    <3> DEFINE C == {b \in new : b > c}
    <3>1. g[c] = Min(C)
      BY <1>1, <1>3, <2>3
    <3>2. C # {} /\ C \subseteq Nat
      <4>1. PICK b \in new : ~(b <= c)
        BY <2>1, <2>3
      <4>2. b \in Nat /\ c \in Nat
        BY <1>1, Zenon
      <4>3. b > c
        BY <4>1, <4>2
      <4> QED BY <1>1, <4>3, Zenon
    <3>3. Min(C) \in C /\ \A y \in C : Min(C) <= y
      <4> HIDE DEF C
      <4> QED BY <3>2, MinIsLeast
    <3>4. Min(C) \in new /\ c < Min(C) /\ \A b \in new : c < b => Min(C) <= b
      BY <1>1, <3>3
    <3>5. ~ \A b \in new : b <= c
      BY <2>1, <2>3
    <3> HIDE DEF C
    <3> QED BY <3>1, <3>4, <3>5, Zenon
  <2> QED BY <2>2, <2>3
<1>7. \A b \in Clusters : b \notin new => g[b] = f[b]
  BY <1>3
<1>8. g \in [Clusters -> Clusters \cup {FAT_FREE, FAT_EOC}]
  <2>1. \A c \in Clusters : g[c] \in Clusters \cup {FAT_FREE, FAT_EOC}
    <3> TAKE c \in Clusters
    <3>1. CASE c \in new
      BY <1>1, <1>6, <3>1, Zenon
    <3>2. CASE c \notin new
      BY <1>7, <3>2 DEF LinksSound
    <3> QED BY <3>1, <3>2
  <2> QED BY <1>3, <2>1
<1>9. IsAllocated(f, new, g, Min(new))
  BY <1>1, <1>4, <1>6, <1>7, <1>8 DEF IsAllocated
<1> QED BY <1>9 DEF new, g

\* Its first cluster starts a chain of its own.
LEMMA AllocSound ==
  ASSUME NEW f, NEW S, LinksSound(f, S), NEW new, NEW g, NEW m, IsAllocated(f, new, g, m)
  PROVE  /\ LinksSound(g, S \cup {m})
         /\ m \notin S /\ \A b \in Clusters : g[b] = f[b] \/ f[b] = FAT_FREE
<1>1. /\ f \in [Clusters -> Clusters \cup {FAT_FREE, FAT_EOC}] /\ f[root_cluster] # FAT_FREE
      /\ Injective(f)
      /\ \A b \in Clusters : f[b] \in Clusters => f[f[b]] # FAT_FREE /\ f[b] # root_cluster
      /\ \A c \in S : c \in Clusters /\ f[c] # FAT_FREE /\ c # root_cluster /\ NotLinked(f, c)
  BY Zenon DEF LinksSound
<1>2. /\ new \subseteq Clusters /\ m \in new /\ \A c \in new : m <= c /\ f[c] = FAT_FREE
      /\ g \in [Clusters -> Clusters \cup {FAT_FREE, FAT_EOC}]
      /\ \A b \in Clusters : b \notin new => g[b] = f[b]
      /\ \A c \in new : IF \A b \in new : b <= c THEN g[c] = FAT_EOC
                        ELSE g[c] \in new /\ c < g[c] /\ \A b \in new : c < b => g[c] <= b
  BY DEF IsAllocated, Free
<1>3. Clusters \subseteq Nat /\ root_cluster \in Clusters /\ FAT_EOC # FAT_FREE
  BY FatAssumption DEF Clusters, root_cluster, FAT_EOC, FAT_FREE
<1>4. \A c \in new : g[c] = FAT_EOC \/ (g[c] \in new /\ c < g[c])
  BY <1>2, Zenon
<1>5. \A c \in new : g[c] # FAT_FREE
  BY <1>2, <1>3, <1>4, NoCluster, Zenon
<1>6. \A b \in Clusters : b \notin new /\ f[b] \in Clusters => f[b] \notin new
  BY <1>1, <1>2
<1>7. root_cluster \notin new /\ \A c \in S : c \notin new
  BY <1>1, <1>2
<1>8. g[root_cluster] # FAT_FREE
  BY <1>1, <1>2, <1>3, <1>7, Zenon
<1>9. Injective(g)
  <2> SUFFICES ASSUME NEW a \in Clusters, NEW b \in Clusters, g[a] = g[b], g[a] \in Clusters
               PROVE  a = b
    BY Zenon DEF Injective
  <2>1. CASE a \notin new /\ b \notin new
    BY <1>1, <1>2, <2>1 DEF Injective
  <2>2. CASE a \in new /\ b \notin new
    BY <1>2, <1>4, <1>6, <2>2, NoCluster
  <2>3. CASE a \notin new /\ b \in new
    BY <1>2, <1>4, <1>6, <2>3, NoCluster
  <2>4. CASE a \in new /\ b \in new
    <3>1. /\ a < g[a] /\ b < g[b] /\ a \in Nat /\ b \in Nat /\ g[a] \in Nat
          /\ a < b => g[a] <= b
          /\ b < a => g[b] <= a
      <4>1. a \in Nat /\ b \in Nat /\ g[a] \in Nat /\ g[a] # FAT_EOC /\ g[b] # FAT_EOC
        BY <1>3, NoCluster, Zenon
      <4>2. \A c \in new : g[c] # FAT_EOC => c < g[c] /\ \A d \in new : c < d => g[c] <= d
        BY <1>2, Zenon
      <4> QED BY <2>4, <4>1, <4>2, Zenon
    <3> QED BY <3>1
  <2> QED BY <2>1, <2>2, <2>3, <2>4
<1>10. \A b \in Clusters : g[b] \in Clusters => g[g[b]] # FAT_FREE /\ g[b] # root_cluster
  <2> SUFFICES ASSUME NEW b \in Clusters, g[b] \in Clusters
               PROVE  g[g[b]] # FAT_FREE /\ g[b] # root_cluster
    BY Zenon
  <2>1. CASE b \in new
    BY <1>4, <1>5, <1>7, <2>1, NoCluster
  <2>2. CASE b \notin new
    BY <1>1, <1>2, <1>6, <2>2
  <2> QED BY <2>1, <2>2
<1>11. \A c \in S \cup {m} : c \in Clusters /\ g[c] # FAT_FREE /\ c # root_cluster
  BY <1>1, <1>2, <1>5, <1>7
<1>12. \A c \in S \cup {m} : NotLinked(g, c)
  <2> SUFFICES ASSUME NEW c \in S \cup {m}, NEW b \in Clusters, g[b] = c PROVE FALSE
    BY Zenon DEF NotLinked
  <2>1. c \in Clusters
    BY <1>11
  <2>2. CASE b \in new
    <3>1. c \in new /\ b < c /\ m <= b /\ m \in Nat /\ b \in Nat /\ c \in Nat
      BY <1>2, <1>3, <1>4, <2>1, <2>2, NoCluster
    <3>2. c # m
      BY <3>1
    <3> QED BY <1>7, <3>1, <3>2
  <2>3. CASE b \notin new
    <3>1. f[b] = c /\ c \notin new
      BY <1>2, <1>6, <2>1, <2>3
    <3>2. c \in S
      BY <1>2, <3>1
    <3> QED BY <1>1, <3>1, <3>2, Zenon DEF NotLinked
  <2> QED BY <2>2, <2>3
<1>13. \A b \in Clusters : g[b] = f[b] \/ f[b] = FAT_FREE
  BY <1>2
<1>14. m \notin S
  BY <1>2, <1>7
<1> QED BY <1>2, <1>8, <1>9, <1>10, <1>11, <1>12, <1>13, <1>14, Zenon DEF LinksSound

\* The first free cluster alone.
LEMMA AllocOne ==
  ASSUME NEW f, NEW S, LinksSound(f, S), Free(f) # {}
  PROVE  /\ Lowest(f, 1) = {Min(Free(f))} /\ Min(Lowest(f, 1)) = Min(Free(f))
         /\ Min(Free(f)) \in Free(f) /\ Min(Free(f)) \in Clusters
         /\ alloc_clusters(f, 1) = [f EXCEPT ![Min(Free(f))] = FAT_EOC]
         /\ IsAllocated(f, Lowest(f, 1), alloc_clusters(f, 1), Min(Free(f)))
<1>1. Free(f) \subseteq Nat /\ IsFiniteSet(Free(f)) /\ Free(f) \subseteq Clusters
  BY FreeIsFinite DEF Free
<1>2. PICK m \in Free(f) : m = Min(Free(f)) /\ \A c \in Free(f) : m <= c
  BY <1>1, MinIsLeast
<1>3. 1 \in Nat /\ 1 # 0 /\ 1 <= Cardinality(Free(f))
  <2>1. Cardinality(Free(f)) # 0 /\ Cardinality(Free(f)) \in Nat
    BY <1>1, FS_EmptySet, FS_CardinalityType
  <2> QED BY <2>1
<1>4. Lowest(f, 1) = {m}
  <2>1. Cardinality(Below(f, m)) = 0
    <3>1. Below(f, m) = {}
      BY <1>1, <1>2 DEF Below
    <3> QED BY <3>1, FS_EmptySet
  <2>2. \A c \in Free(f) : c # m => ~(Cardinality(Below(f, c)) < 1)
    <3> TAKE c \in Free(f)
    <3> HAVE c # m
    <3>1. m < c
      BY <1>1, <1>2
    <3>2. Cardinality(Below(f, m)) < Cardinality(Below(f, c)) /\ Cardinality(Below(f, c)) \in Nat
      BY <1>2, <3>1, Places
    <3> QED BY <2>1, <3>2
  <2>3. Lowest(f, 1) = {c \in Free(f) : Cardinality(Below(f, c)) < 1}
    BY DEF Lowest, Below
  <2> QED BY <2>1, <2>2, <2>3
<1>5. Min({m}) = m /\ Max({m}) = m
  <2>1. m <= m /\ m >= m
    BY <1>1
  <2> QED BY <2>1 DEF Min, Max
<1>6. alloc_clusters(f, 1) = [f EXCEPT ![m] = FAT_EOC]
  <2>1. alloc_clusters(f, 1) = [c \in Clusters |-> IF c = m THEN FAT_EOC ELSE f[c]]
    BY <1>4, <1>5 DEF alloc_clusters
  <2>2. f \in [Clusters -> Clusters \cup {FAT_FREE, FAT_EOC}]
    BY DEF LinksSound
  <2> QED BY <2>1, <2>2
<1>7. IsAllocated(f, Lowest(f, 1), alloc_clusters(f, 1), Min(Lowest(f, 1)))
  BY <1>3, AllocFacts, Zenon
<1> QED BY <1>1, <1>2, <1>4, <1>5, <1>6, <1>7, Zenon

\* extend_chain(): the chain goes on with the new clusters.
LEMMA ExtendSound ==
  ASSUME NEW f, NEW S, LinksSound(f, S), NEW start \in S, NEW s, s = ReadChain(f, start),
         NEW count \in Nat, count # 0, count <= Cardinality(Free(f)),
         NEW h, h = extend_chain(f, s[Len(s)], count)
  PROVE  /\ LinksSound(h, S)
         /\ \A b \in Clusters : h[b] = f[b] \/ f[b] = FAT_FREE \/ b \in InChain(f, start)
         /\ Len(ReadChain(h, start)) >= Len(s) + count
         /\ \A k \in 1 .. Len(s) : ReadChain(h, start)[k] = s[k]
<1> DEFINE new == Lowest(f, count)
           g == alloc_clusters(f, count)
           m == Min(new)
           last == s[Len(s)]
           t == ReadChain(h, start)
<1>1. IsAllocated(f, new, g, m)
  BY AllocFacts, Zenon
<1>2. /\ LinksSound(g, S \cup {m})
      /\ m \notin S /\ \A b \in Clusters : g[b] = f[b] \/ f[b] = FAT_FREE
  BY <1>1, AllocSound, Zenon
<1>3. h = [g EXCEPT ![last] = m]
  BY Zenon DEF extend_chain
<1>4. IsChain(f, start, s) /\ IsChain(h, start, t)
  BY ChainFacts
<1>5. Cardinality(new) = count
  BY LowestCount
<1>6. InChain(f, start) = {s[k] : k \in 1 .. Len(s)}
  BY Zenon DEF InChain
<1>7. /\ InChain(f, start) \subseteq Clusters
      /\ \A c \in InChain(f, start) : f[c] # FAT_FREE /\ c # root_cluster
  BY InChainFacts, Zenon
<1> HIDE DEF new, g, m, t
<1>8. /\ new \subseteq Clusters /\ m \in new /\ \A c \in new : m <= c /\ f[c] = FAT_FREE
      /\ g \in [Clusters -> Clusters \cup {FAT_FREE, FAT_EOC}]
      /\ \A b \in Clusters : b \notin new => g[b] = f[b]
      /\ \A c \in new : IF \A b \in new : b <= c THEN g[c] = FAT_EOC
                        ELSE g[c] \in new /\ c < g[c] /\ \A b \in new : c < b => g[c] <= b
  BY <1>1 DEF IsAllocated, Free
<1>9. start \in Clusters /\ Injective(f) /\ NotLinked(f, start)
  BY DEF LinksSound
<1>10. /\ Len(s) \in Nat /\ Len(s) >= 1 /\ Len(s) \in 1 .. Len(s)
       /\ \A k \in 1 .. Len(s) : s[k] \in Clusters
  <2>1. Len(s) \in Nat /\ Len(s) >= 1 /\ \A k \in 1 .. Len(s) : s[k] \in Clusters
    BY <1>4, <1>9, Zenon DEF IsChain
  <2> QED BY <2>1
<1>11. /\ \A i, j \in 1 .. Len(s) : s[i] = s[j] => i = j
       /\ f[last] \notin Clusters
  <2>1. Len(s) # 0
    BY <1>10
  <2> QED BY <1>4, <1>9, <2>1, ChainEnds
<1>12. last \in InChain(f, start) /\ last \in Clusters /\ f[last] # FAT_FREE /\ last # root_cluster
       /\ last \notin new /\ last # m
  BY <1>6, <1>7, <1>8, <1>10
<1> HIDE DEF last
<1>13. /\ h[last] = m
       /\ \A b \in Clusters : b # last => h[b] = g[b]
       /\ h \in [Clusters -> Clusters \cup {FAT_FREE, FAT_EOC}]
       /\ m \in Clusters /\ root_cluster \in Clusters
  BY <1>3, <1>8, <1>12, FatAssumption DEF root_cluster, Clusters
<1>14. /\ g[root_cluster] # FAT_FREE /\ Injective(g)
       /\ \A b \in Clusters : g[b] \in Clusters => g[g[b]] # FAT_FREE /\ g[b] # root_cluster
       /\ \A c \in S \cup {m} : c \in Clusters /\ g[c] # FAT_FREE /\ c # root_cluster
                                /\ NotLinked(g, c)
  BY <1>2, Zenon DEF LinksSound
<1>15. LinksSound(h, S)
  <2>1. m # FAT_FREE
    BY <1>13, NoCluster
  <2>2. h[root_cluster] # FAT_FREE
    BY <1>12, <1>13, <1>14, Zenon
  <2>3. Injective(h)
    <3> SUFFICES ASSUME NEW a \in Clusters, NEW b \in Clusters, h[a] = h[b], h[a] \in Clusters
                 PROVE  a = b
      BY Zenon DEF Injective
    <3>1. \A b1 \in Clusters : g[b1] # m
      BY <1>14, Zenon DEF NotLinked
    <3> QED BY <1>13, <1>14, <3>1 DEF Injective
  <2>4. \A b \in Clusters : h[b] \in Clusters => h[h[b]] # FAT_FREE /\ h[b] # root_cluster
    <3> SUFFICES ASSUME NEW b \in Clusters, h[b] \in Clusters
                 PROVE  h[h[b]] # FAT_FREE /\ h[b] # root_cluster
      BY Zenon
    <3>1. CASE b = last
      <4>1. m \in S \cup {m}
        OBVIOUS
      <4> QED BY <1>12, <1>13, <1>14, <3>1, <4>1, Zenon
    <3>2. CASE b # last
      <4>1. h[b] = g[b] /\ g[g[b]] # FAT_FREE /\ g[b] # root_cluster
        BY <1>13, <1>14, <3>2, Zenon
      <4> QED BY <1>13, <2>1, <4>1, Zenon
    <3> QED BY <3>1, <3>2
  <2>5. \A c \in S : c \in Clusters /\ h[c] # FAT_FREE /\ c # root_cluster
    <3> TAKE c \in S
    <3>1. c \in Clusters /\ g[c] # FAT_FREE /\ c # root_cluster
      BY <1>14
    <3> QED BY <1>13, <2>1, <3>1
  <2>6. \A c \in S : NotLinked(h, c)
    <3> SUFFICES ASSUME NEW c \in S, NEW b \in Clusters, h[b] = c PROVE FALSE
      BY Zenon DEF NotLinked
    <3>1. b # last
      BY <1>2, <1>13
    <3>2. g[b] = c
      BY <1>13, <3>1, Zenon
    <3>3. NotLinked(g, c)
      BY <1>14, Zenon
    <3> QED BY <3>2, <3>3 DEF NotLinked
  <2> QED BY <1>13, <2>2, <2>3, <2>4, <2>5, <2>6, Zenon DEF LinksSound
<1>16. \A b \in Clusters : h[b] = f[b] \/ f[b] = FAT_FREE \/ b \in InChain(f, start)
  BY <1>2, <1>12, <1>13
<1>17. Len(t) >= Len(s) /\ \A k \in 1 .. Len(s) : t[k] = s[k]
  <2>1. PICK n \in 0 .. Len(s) : n = Len(s)
    BY <1>10
  <2>2. \A k \in 1 .. n - 1 : h[s[k]] = f[s[k]]
    <3> TAKE k \in 1 .. n - 1
    <3>1. k \in 1 .. Len(s) /\ k # Len(s)
      BY <1>10, <2>1
    <3>2. s[k] # last
      BY <1>10, <1>11, <3>1 DEF last
    <3>3. s[k] \in InChain(f, start)
      BY <1>6, <3>1
    <3>4. s[k] \in Clusters /\ f[s[k]] # FAT_FREE
      BY <1>7, <3>3, Zenon
    <3> QED BY <1>2, <1>13, <3>2, <3>4
  <2>3. Len(t) >= n /\ \A k \in 1 .. n : t[k] = s[k]
    BY <1>4, <2>2, ChainUpTo, SMTT(30)
  <2> QED BY <2>1, <2>3
<1>18. /\ Len(t) \in Nat /\ \A k \in 1 .. Len(t) : t[k] \in Clusters
       /\ \A k \in 1 .. Len(t) - 1 : t[k + 1] = h[t[k]]
  BY <1>4, Zenon DEF IsChain
<1>19. h[t[Len(t)]] \notin Clusters
  <2>1. Injective(h) /\ NotLinked(h, start)
    BY <1>15, Zenon DEF LinksSound
  <2>2. Len(t) # 0
    BY <1>10, <1>17, <1>18
  <2> QED BY <1>4, <2>1, <2>2, ChainEnds, Zenon
\* Every new cluster is on the chain, behind the old ones.
<1> DEFINE Behind == {k \in Len(s) + 1 .. Len(t) : t[k] \in new}
<1>20. \A c \in new : \E k \in Behind : t[k] = c
  <2> DEFINE Bad == {c \in new : ~ \E k \in Behind : t[k] = c}
  <2> SUFFICES ASSUME Bad # {} PROVE FALSE
    OBVIOUS
  <2>0. Clusters \subseteq Nat
    BY DEF Clusters
  <2>1. Bad \subseteq Nat
    BY <1>8, <2>0, Zenon
  <2>2. PICK c \in Bad : \A y \in Bad : c <= y
    <3> HIDE DEF Bad
    <3> QED BY <2>1, LeastNumber
  <2>3. c \in new /\ c \in Nat /\ m \in Nat
    BY <1>8, <2>0
  <2>4. c # m
    <3>1. Len(t) # Len(s)
      <4> SUFFICES ASSUME Len(t) = Len(s) PROVE FALSE
        OBVIOUS
      <4>1. t[Len(t)] = last
        BY <1>10, <1>17 DEF last
      <4> QED BY <1>13, <1>19, <4>1
    <3>2. Len(s) \in 1 .. Len(t) - 1 /\ Len(s) + 1 \in Len(s) + 1 .. Len(t)
      BY <1>10, <1>17, <1>18, <3>1
    <3>3. t[Len(s)] = last
      BY <1>10, <1>17, Zenon DEF last
    <3>4. t[Len(s) + 1] = m
      BY <1>13, <1>18, <3>2, <3>3, Zenon
    <3>5. Len(s) + 1 \in Behind
      BY <1>8, <3>2, <3>4
    <3> QED BY <3>4, <3>5
  \* The one before it is on the chain, and leads to it.
  <2> DEFINE Less == {b \in new : b < c}
  <2>5. Less \subseteq Nat /\ Less # {} /\ \A b \in Less : b <= c
    <3>1. m <= c
      BY <1>8
    <3>2. m < c
      BY <2>3, <2>4, <3>1
    <3>3. m \in Less
      BY <1>8, <3>2
    <3>4. \A b \in Less : b \in Nat /\ b < c
      BY <1>8, <2>0
    <3>5. \A b \in Less : b <= c
      BY <2>3, <3>4
    <3> QED BY <3>3, <3>4, <3>5
  <2>6. PICK p \in Less : \A b \in Less : b <= p
    <3> HIDE DEF Less
    <3> QED BY <2>3, <2>5, GreatestNumber, Zenon
  <2>7. p \in new /\ p < c /\ p \in Nat
    BY <1>8, <2>0
  <2>8. g[p] = c
    <3>1. ~ \A b \in new : b <= p
      BY <2>3, <2>7
    <3>2. g[p] \in new /\ p < g[p] /\ \A b \in new : p < b => g[p] <= b
      BY <1>8, <2>7, <3>1, Zenon
    <3>3. g[p] <= c /\ g[p] \in Nat
      BY <1>8, <2>0, <2>3, <2>7, <3>2, Zenon
    <3>4. ~(g[p] < c)
      <4> SUFFICES ASSUME g[p] < c PROVE FALSE
        OBVIOUS
      <4>1. g[p] \in Less
        BY <3>2
      <4> QED BY <2>6, <2>7, <3>2, <3>3, <4>1
    <3> QED BY <2>3, <3>3, <3>4
  <2>9. p \notin Bad
    BY <2>2, <2>3, <2>7
  <2>10. PICK k \in Behind : t[k] = p
    BY <2>7, <2>9
  <2>11. h[t[k]] = c
    <3>1. p # last /\ p \in Clusters
      BY <1>8, <1>12, <2>7, Zenon
    <3> QED BY <1>13, <2>8, <2>10, <3>1, Zenon
  <2>12. k # Len(t)
    BY <1>8, <1>19, <2>3, <2>11
  <2>13. k \in 1 .. Len(t) - 1 /\ k + 1 \in Len(s) + 1 .. Len(t)
    BY <1>10, <1>18, <2>12
  <2>14. t[k + 1] = c
    BY <1>18, <2>11, <2>13
  <2>15. k + 1 \in Behind
    BY <2>3, <2>13, <2>14, Zenon
  <2> QED BY <2>14, <2>15
<1>21. Len(t) >= Len(s) + count
  <2> DEFINE P == Len(s) + 1 .. Len(t)
             F == [k \in Behind |-> t[k]]
  <2>1. Behind \in SUBSET P
    OBVIOUS
  <2>2. IsFiniteSet(P) /\ Cardinality(P) = Len(t) - Len(s)
    <3>1. PICK a \in Int, b \in Int : a = Len(s) + 1 /\ b = Len(t)
      BY <1>10, <1>18
    <3>2. IsFiniteSet(a .. b) /\ Cardinality(a .. b) = IF a > b THEN 0 ELSE b - a + 1
      BY FS_Interval
    <3> QED BY <1>10, <1>17, <1>18, <3>1, <3>2
  <2>3. F \in Surjection(Behind, new)
    <3>1. F \in [Behind -> new]
      OBVIOUS
    <3>2. \A c \in new : \E k \in Behind : F[k] = c
      BY <1>20
    <3> HIDE DEF F, Behind
    <3> QED BY <3>1, <3>2 DEF Surjection
  <2> HIDE DEF P, F, Behind
  <2>4. IsFiniteSet(Behind) /\ Cardinality(Behind) <= Cardinality(P)
    BY <2>1, <2>2, FS_Subset
  <2>5. Cardinality(new) <= Cardinality(Behind)
    BY <2>3, <2>4, FS_Surjection
  <2>6. Cardinality(Behind) \in Nat
    BY <2>4, FS_CardinalityType
  <2> QED BY <1>5, <1>10, <1>18, <2>2, <2>4, <2>5, <2>6
<1> QED BY <1>15, <1>16, <1>17, <1>21, Zenon DEF t

-----------------------------------------------------------------------------
(* The directories of the file system *)

\* The entries that name something.
InUseKinds == {"file", "dir"}

\* The entries of one cluster: behind an end mark there are only end marks, and
\* no two files or directories have one name.
EntriesSound(D) ==
  /\ DOMAIN D = 1 .. Slots
  /\ \A i \in 1 .. Slots : DOMAIN D[i] = {"kind", "name", "cluster", "size"}
  /\ \A i, j \in 1 .. Slots : i < j /\ D[i].kind = "end" => D[j].kind = "end"
  /\ \A i, j \in 1 .. Slots :
       D[i].kind \in InUseKinds /\ D[j].kind \in InUseKinds
         /\ D[i].name = D[j].name /\ D[i].name # Cut => i = j

\* The inductive invariant of the directories.
FatNamesInv == DOMAIN dir = Clusters /\ \A d \in Clusters : EntriesSound(dir[d])

\* A cluster that was just cleared.
LEMMA BlankIsSound == EntriesSound(Blank)
BY Zenon DEF EntriesSound, Blank, EndEntry, InUseKinds

\* An entry is marked deleted.
LEMMA DeletedIsSound ==
  ASSUME NEW D, EntriesSound(D), NEW i \in 1 .. Slots, D[i].kind # "end"
  PROVE  EntriesSound([D EXCEPT ![i] = DeletedEntry])
<1> DEFINE E == [D EXCEPT ![i] = DeletedEntry]
<1>1. DeletedEntry.kind = "deleted" /\ DOMAIN DeletedEntry = {"kind", "name", "cluster", "size"}
  BY DEF DeletedEntry, EndEntry
<1>2. DOMAIN E = 1 .. Slots /\ \A j \in 1 .. Slots : E[j] = IF j = i THEN DeletedEntry ELSE D[j]
  BY Zenon DEF EntriesSound
<1> HIDE DEF E, DeletedEntry
<1>3. \A j \in 1 .. Slots : DOMAIN E[j] = {"kind", "name", "cluster", "size"}
  BY <1>1, <1>2, Zenon DEF EntriesSound
<1>4. \A j \in 1 .. Slots : E[j].kind = "end" => j # i /\ E[j] = D[j]
  BY <1>1, <1>2, Zenon
<1>5. \A j \in 1 .. Slots : E[j].kind \in InUseKinds => E[j] = D[j]
  BY <1>1, <1>2, Zenon DEF InUseKinds
<1>6. \A j, k \in 1 .. Slots : j < k /\ E[j].kind = "end" => E[k].kind = "end"
  BY <1>2, <1>4, Zenon DEF EntriesSound
<1>7. \A j, k \in 1 .. Slots :
        E[j].kind \in InUseKinds /\ E[k].kind \in InUseKinds
          /\ E[j].name = E[k].name /\ E[j].name # Cut => j = k
  BY <1>5, Zenon DEF EntriesSound
<1>8. EntriesSound(E)
  BY <1>2, <1>3, <1>6, <1>7 DEF EntriesSound
<1> QED BY <1>8 DEF E

\* An entry gets a new first cluster and size.
LEMMA UpdatedIsSound ==
  ASSUME NEW D, EntriesSound(D), NEW i, NEW c, NEW s
  PROVE  EntriesSound([D EXCEPT ![i].cluster = c, ![i].size = s])
<1> DEFINE E == [D EXCEPT ![i].cluster = c, ![i].size = s]
<1>1. /\ DOMAIN E = 1 .. Slots
      /\ \A j \in 1 .. Slots : /\ DOMAIN E[j] = {"kind", "name", "cluster", "size"}
                               /\ E[j].kind = D[j].kind /\ E[j].name = D[j].name
  BY Zenon DEF EntriesSound
<1> HIDE DEF E
<1>2. EntriesSound(E)
  BY <1>1, Zenon DEF EntriesSound
<1> QED BY <1>2 DEF E

\* Every file and directory of a cluster is seen by the look-up of its name.
LEMMA LookupSees ==
  ASSUME FatNamesInv, NEW d \in Clusters, NEW n, Lookup(d, n) = {}
  PROVE  \A j \in 1 .. Slots : dir[d][j].kind \in InUseKinds => dir[d][j].name # n
<1>1. Matches(d, n) = {}
  <2> SUFFICES ASSUME Matches(d, n) # {} PROVE FALSE
    OBVIOUS
  <2>1. Matches(d, n) \subseteq Nat
    BY FatAssumption DEF Matches, Entries
  <2> QED BY <2>1, LeastNumber DEF Lookup
<1>2. \A j \in 1 .. Slots : dir[d][j].kind \in InUseKinds => j \in Entries(d)
  <2> SUFFICES ASSUME NEW j \in 1 .. Slots, dir[d][j].kind \in InUseKinds,
                      NEW k \in 1 .. j, dir[d][k].kind = "end"
               PROVE  FALSE
    BY DEF Entries, InUseKinds
  <2>1. k \in 1 .. Slots /\ (k < j \/ k = j)
    BY FatAssumption
  <2> QED BY <2>1, Zenon DEF FatNamesInv, EntriesSound, InUseKinds
<1> QED BY <1>1, <1>2 DEF Matches

\* A new entry for a name that is not there.
LEMMA AddedIsSound ==
  ASSUME FatNamesInv, NEW d \in Clusters, NEW n, Lookup(d, n) = {},
         NEW i \in find_free_entry_slot(d), NEW e,
         DOMAIN e = {"kind", "name", "cluster", "size"},
         e.kind \in InUseKinds, e.name = set_name(n)
  PROVE  EntriesSound([dir[d] EXCEPT ![i] = e])
<1> DEFINE D == dir[d]
           E == [D EXCEPT ![i] = e]
<1>1. EntriesSound(D)
  BY Zenon DEF FatNamesInv
<1>2. i \in 1 .. Slots /\ D[i].kind \in {"end", "deleted"}
      /\ \A j \in 1 .. i - 1 : D[j].kind \notin {"end", "deleted"}
  BY Zenon DEF find_free_entry_slot
<1>3. \A j \in 1 .. Slots : D[j].kind \in InUseKinds => D[j].name # n
  BY LookupSees, Zenon
<1> HIDE DEF D
<1>4. DOMAIN E = 1 .. Slots /\ \A j \in 1 .. Slots : E[j] = IF j = i THEN e ELSE D[j]
  BY <1>1, Zenon DEF EntriesSound
<1> HIDE DEF E
<1>5. \A j, k \in 1 .. Slots : j < k /\ E[j].kind = "end" => E[k].kind = "end"
  <2> SUFFICES ASSUME NEW j \in 1 .. Slots, NEW k \in 1 .. Slots, j < k, E[j].kind = "end"
               PROVE  E[k].kind = "end"
    OBVIOUS
  <2>1. j # i /\ D[j].kind = "end"
    BY <1>4, Zenon DEF InUseKinds
  <2>2. ~(j \in 1 .. i - 1)
    BY <1>2, <2>1, Zenon
  <2>3. k # i
    BY <1>2, <2>2, FatAssumption
  <2> QED BY <1>1, <1>4, <2>1, <2>3, Zenon DEF EntriesSound
<1>6. e.name # Cut => e.name = n
  BY Zenon DEF set_name
<1>7. \A j, k \in 1 .. Slots :
        E[j].kind \in InUseKinds /\ E[k].kind \in InUseKinds
          /\ E[j].name = E[k].name /\ E[j].name # Cut => j = k
  BY <1>1, <1>3, <1>4, <1>6, Zenon DEF EntriesSound
<1>8. \A j \in 1 .. Slots : DOMAIN E[j] = {"kind", "name", "cluster", "size"}
  BY <1>1, <1>4, Zenon DEF EntriesSound
<1> QED BY <1>4, <1>5, <1>7, <1>8, Zenon DEF EntriesSound, D, E

\* A file is created: its name is not there, and its entry is in the first free slot.
LEMMA NamesCreateFileStep ==
  ASSUME FatNamesInv, NEW h, NEW d, NEW n, CreateFile(h, d, n)
  PROVE  FatNamesInv'
<1>1. PICK i \in find_free_entry_slot(d) :
        dir' = [dir EXCEPT ![d][i] =
                  [kind |-> "file", name |-> set_name(n), cluster |-> 0, size |-> 0]]
  BY Zenon DEF CreateFile
<1> DEFINE e == [kind |-> "file", name |-> set_name(n), cluster |-> 0, size |-> 0]
<1>2. /\ DOMAIN e = {"kind", "name", "cluster", "size"}
      /\ e.kind \in InUseKinds /\ e.name = set_name(n)
  BY DEF InUseKinds
<1> HIDE DEF e
<1>3. DOMAIN dir' = Clusters
      /\ \A k \in Clusters : dir'[k] = IF k = d THEN [dir[d] EXCEPT ![i] = e] ELSE dir[k]
  BY <1>1, Zenon DEF FatNamesInv, e
<1>4. d \in Clusters => EntriesSound([dir[d] EXCEPT ![i] = e])
  BY <1>2, AddedIsSound, Zenon DEF CreateFile
<1> QED BY <1>3, <1>4 DEF FatNamesInv

\* It is the entries that count.
LEMMA SameEntriesAreSound ==
  ASSUME NEW D, EntriesSound(D), NEW E, DOMAIN E = 1 .. Slots, \A j \in 1 .. Slots : E[j] = D[j]
  PROVE  EntriesSound(E)
BY DEF EntriesSound

\* A directory is created: its entry may find no slot, its cluster is cleared.
LEMMA NamesCreateDirectoryStep ==
  ASSUME FatNamesInv, NEW n, CreateDirectory(n)
  PROVE  FatNamesInv'
<1> DEFINE F == find_free_entry_slot(root_cluster)
           c == Min(Free(fat))
           e == [kind |-> "dir", name |-> set_name(n), cluster |-> c, size |-> 0]
           R == [i \in 1 .. Slots |-> IF i \in F THEN e ELSE dir[root_cluster][i]]
<1>1. dir' = [k \in Clusters |-> IF k = c THEN Blank ELSE IF k = root_cluster THEN R ELSE dir[k]]
  BY Zenon DEF CreateDirectory
<1>2. root_cluster \in Clusters
  BY FatAssumption DEF root_cluster, Clusters
<1>3. EntriesSound(R)
  <2>1. EntriesSound(dir[root_cluster])
    BY <1>2 DEF FatNamesInv
  <2>2. CASE F = {}
    <3>1. DOMAIN R = 1 .. Slots /\ \A i \in 1 .. Slots : R[i] = dir[root_cluster][i]
      BY <2>2, Zenon
    <3> QED BY <2>1, <3>1, SameEntriesAreSound, Zenon
  <2>3. CASE F # {}
    <3>1. PICK i : i \in F
      BY <2>3, Zenon
    <3>2. F = {i}
      BY <3>1, FatAssumption DEF find_free_entry_slot
    <3>6. i \in find_free_entry_slot(root_cluster)
      BY <3>1, Zenon
    <3>3. /\ DOMAIN e = {"kind", "name", "cluster", "size"}
          /\ e.kind \in InUseKinds /\ e.name = set_name(n)
      BY Zenon DEF InUseKinds
    <3> HIDE DEF e, F
    <3>4. R = [dir[root_cluster] EXCEPT ![i] = e]
      BY <2>1, <3>2, Zenon DEF EntriesSound
    <3>5. Lookup(root_cluster, n) = {}
      BY Zenon DEF CreateDirectory
    <3> HIDE DEF R
    <3>7. EntriesSound([dir[root_cluster] EXCEPT ![i] = e])
      BY <1>2, <3>3, <3>5, <3>6, AddedIsSound, Zenon
    <3> QED BY <3>4, <3>7, Zenon
  <2> QED BY <2>2, <2>3, Zenon
<1> HIDE DEF R, c
<1> QED BY <1>1, <1>3, BlankIsSound DEF FatNamesInv

\* A file or a directory is removed.
LEMMA NamesRemoveStep ==
  ASSUME FatNamesInv, NEW d, NEW n, unlink(d, n) \/ rmdir(n)
  PROVE  FatNamesInv'
<1>0. ASSUME NEW k, NEW i \in Lookup(k, n) PROVE i \in 1 .. Slots /\ dir[k][i].kind # "end"
  BY <1>0, Zenon DEF Lookup, Matches, Entries
<1>1. CASE unlink(d, n)
  <2>1. PICK i \in Lookup(d, n) : dir' = [dir EXCEPT ![d][i] = DeletedEntry]
    BY <1>1, Zenon DEF unlink
  <2>2. /\ DOMAIN dir' = Clusters
        /\ \A k \in Clusters :
             dir'[k] = IF k = d THEN [dir[d] EXCEPT ![i] = DeletedEntry] ELSE dir[k]
    BY <2>1, Zenon DEF FatNamesInv
  <2>3. d \in Clusters => EntriesSound([dir[d] EXCEPT ![i] = DeletedEntry])
    BY <1>0, DeletedIsSound, Zenon DEF FatNamesInv
  <2> QED BY <2>2, <2>3 DEF FatNamesInv
<1>2. CASE rmdir(n)
  <2>1. PICK i \in Lookup(root_cluster, n) :
          \E c : dir' = [dir EXCEPT ![root_cluster][i] = DeletedEntry, ![c] = Blank]
    BY <1>2, Zenon DEF rmdir
  <2>2. PICK c : dir' = [dir EXCEPT ![root_cluster][i] = DeletedEntry, ![c] = Blank]
    BY <2>1, Zenon
  <2>3. /\ DOMAIN dir' = Clusters
        /\ \A k \in Clusters :
             dir'[k] = IF k = c THEN Blank
                       ELSE IF k = root_cluster THEN [dir[k] EXCEPT ![i] = DeletedEntry] ELSE dir[k]
    BY <2>2, Zenon DEF FatNamesInv
  <2>4. root_cluster \in Clusters => EntriesSound([dir[root_cluster] EXCEPT ![i] = DeletedEntry])
    BY <1>0, DeletedIsSound, Zenon DEF FatNamesInv
  <2> QED BY <2>3, <2>4, BlankIsSound DEF FatNamesInv
<1> QED BY <1>1, <1>2, Zenon

\* write() and truncate() save the entry.
LEMMA NamesUpdateStep ==
  ASSUME FatNamesInv, NEW h, NEW start, NEW size, UpdateEntry(h, start, size)
  PROVE  FatNamesInv'
<1>1. PICK d, i : dir' = [dir EXCEPT ![d][i].cluster = start, ![d][i].size = size]
  BY Zenon DEF UpdateEntry
<1> DEFINE E == [dir[d] EXCEPT ![i].cluster = start, ![i].size = size]
<1>2. DOMAIN dir' = Clusters /\ \A k \in Clusters : dir'[k] = IF k = d THEN E ELSE dir[k]
  BY <1>1 DEF FatNamesInv
<1>3. d \in Clusters => EntriesSound(E)
  BY UpdatedIsSound, Zenon DEF FatNamesInv
<1> HIDE DEF E
<1> QED BY <1>2, <1>3 DEF FatNamesInv

\* Every operation keeps the invariant.
LEMMA FatNamesStep ==
  ASSUME FatNamesInv, [FatNext]_fatVars
  PROVE  FatNamesInv'
<1>1. ASSUME NEW h, NEW offset, NEW len, write(h, offset, len) \/ truncate(h, len)
      PROVE  FatNamesInv'
  <2>1. \E start, size : UpdateEntry(h, start, size)
    BY <1>1, Zenon DEF write, truncate
  <2> QED BY <2>1, NamesUpdateStep
<1>2. CASE UNCHANGED dir
  BY <1>2 DEF FatNamesInv
<1>3. ASSUME NEW h, NEW d, NEW n, NEW end, Open(h, d, n) \/ Close(h) \/ NoSpace(h, end)
      PROVE  UNCHANGED dir
  BY <1>3 DEF Open, Close, NoSpace
<1>4. UNCHANGED fatVars => UNCHANGED dir
  BY DEF fatVars
<1> QED BY <1>1, <1>2, <1>3, <1>4, NamesCreateFileStep, NamesCreateDirectoryStep,
           NamesRemoveStep, Zenon DEF FatNext

\* No directory of the file system gets two entries of one name, whatever
\* sequence of operations, unless a long name has been cut.
THEOREM FatNamesAreUnique == FatSpec => []NamesUnique
<1>1. FatInit => FatNamesInv
  BY BlankIsSound, Zenon DEF FatInit, FatNamesInv
<1>2. FatNamesInv => NamesUnique
  BY DEF FatNamesInv, NamesUnique, EntriesSound, Entries, InUseKinds
<1> QED BY <1>1, <1>2, FatNamesStep, PTL DEF FatSpec
-----------------------------------------------------------------------------
(* Files, handles and their chains *)

EntryFields == {"kind", "name", "cluster", "size"}
MaybeCluster == Clusters \cup {0}
OpenHandle == [dir : Clusters, slot : 1 .. Slots, start : MaybeCluster, size : Nat]

FatTypes ==
  /\ DOMAIN dir = Clusters /\ DOMAIN data = Clusters /\ DOMAIN content = Clusters
  /\ DOMAIN handle = Handles
  /\ \A d \in Clusters : DOMAIN dir[d] = 1 .. Slots /\ DOMAIN content[d] = 1 .. Slots
  /\ \A d \in Clusters, i \in 1 .. Slots :
       /\ DOMAIN dir[d][i] = EntryFields
       /\ dir[d][i].cluster \in MaybeCluster /\ dir[d][i].size \in Nat
       /\ content[d][i] \in Seq(Int)
  /\ \A h \in Handles : handle[h] = NoHandle \/ handle[h] \in OpenHandle

IsOn(h, d, i) == handle[h].dir = d /\ handle[h].slot = i

\* A file or directory leads to the cluster in its entry, and to the one in the
\* handle, which has another when the disk was full at the first write.
Leads(d, i, c) ==
  /\ d \in Clusters /\ i \in 1 .. Slots /\ dir[d][i].kind \in InUseKinds
  /\ dir[d][i].cluster = c \/ \E h \in Handles : IsOn(h, d, i) /\ handle[h].start = c

Heads == {c \in Clusters : \E d \in Clusters, i \in 1 .. Slots : Leads(d, i, c)}

OneOwner ==
  \A c \in Clusters : \A d1, d2 \in Clusters, i1, i2 \in 1 .. Slots :
    Leads(d1, i1, c) /\ Leads(d2, i2, c) => d1 = d2 /\ i1 = i2

DirectoryEntries ==
  \A d \in Clusters, i \in 1 .. Slots :
    dir[d][i].kind = "dir" => d = root_cluster /\ dir[d][i].cluster \in Clusters
                              /\ dir[d][i].size = 0

\* A handle is the only one of a file that exists, and has its size.
HandleSound(h) ==
  /\ handle[h].dir \in Directories
  /\ dir[handle[h].dir][handle[h].slot].kind = "file"
  /\ dir[handle[h].dir][handle[h].slot].size = handle[h].size
  /\ \/ dir[handle[h].dir][handle[h].slot].cluster = handle[h].start
     \/ dir[handle[h].dir][handle[h].slot].cluster = 0 /\ handle[h].size = 0

HandlesSound ==
  /\ \A h \in Handles : handle[h] # NoHandle => HandleSound(h)
  /\ \A g, h \in Handles :
       handle[g] # NoHandle /\ handle[h] # NoHandle /\ IsOn(g, handle[h].dir, handle[h].slot)
         => g = h

\* The chain s, with the bytes in D, holds the file of a size.
HoldsFile(s, D, size, file) ==
  /\ size <= Len(s) * cluster_size
  /\ size = Len(file)
  /\ \A k \in 1 .. Len(s), j \in 1 .. cluster_size :
       (k - 1) * cluster_size + j <= Len(file) /\ file[(k - 1) * cluster_size + j] \in 1 .. Slots
         => D[s[k]][j] = file[(k - 1) * cluster_size + j]

FilesSound ==
  \A d \in Clusters, i \in 1 .. Slots : dir[d][i].kind = "file" =>
    HoldsFile(ReadChain(fat, dir[d][i].cluster), data, dir[d][i].size, content[d][i])

FatInv ==
  /\ FatTypes /\ LinksSound(fat, Heads) /\ OneOwner /\ DirectoryEntries
  /\ HandlesSound /\ FilesSound

LEMMA NoHandleFacts ==
  ASSUME FatTypes
  PROVE  \A h \in Handles, d \in Clusters, i \in 1 .. Slots : IsOn(h, d, i) => handle[h] # NoHandle
BY NoCluster DEF IsOn, NoHandle

LEMMA DirectoriesAreClusters ==
  ASSUME DirectoryEntries
  PROVE  Directories \subseteq Clusters /\ root_cluster \in Clusters
<1>1. root_cluster \in Clusters
  BY FatAssumption DEF root_cluster, Clusters
<1> QED BY <1>1 DEF Directories, DirectoryEntries

\* Fewer starts.
LEMMA FewerHeads ==
  ASSUME NEW f, NEW S, LinksSound(f, S), NEW U, U \subseteq S
  PROVE  LinksSound(f, U)
BY Zenon DEF LinksSound

LEMMA EmptyChain ==
  ASSUME NEW f
  PROVE  ReadChain(f, 0) = <<>> /\ Len(ReadChain(f, 0)) = 0
<1> DEFINE s == ReadChain(f, 0)
<1>1. IsChain(f, 0, s)
  BY ChainFacts
<1> HIDE DEF s
<1>2. s \in Seq(Clusters) /\ Len(s) = 0
  BY <1>1, NoCluster DEF IsChain
<1>3. s = <<>>
  BY <1>2
<1> QED BY <1>2, <1>3 DEF s

\* The bytes of a cluster stay.
SameData(b) == \A j \in 1 .. cluster_size : data'[b][j] = data[b][j]

LEMMA SameBytes ==
  ASSUME NEW s, NEW D, NEW E, NEW size, NEW file, HoldsFile(s, D, size, file),
         \A k \in 1 .. Len(s), j \in 1 .. cluster_size : E[s[k]][j] = D[s[k]][j]
  PROVE  HoldsFile(s, E, size, file)
<1> SUFFICES ASSUME NEW k \in 1 .. Len(s), NEW j \in 1 .. cluster_size,
                    (k - 1) * cluster_size + j <= Len(file),
                    file[(k - 1) * cluster_size + j] \in 1 .. Slots
             PROVE  E[s[k]][j] = file[(k - 1) * cluster_size + j]
  BY Zenon DEF HoldsFile
<1>1. D[s[k]][j] = file[(k - 1) * cluster_size + j]
  BY Zenon DEF HoldsFile
<1>2. E[s[k]][j] = D[s[k]][j]
  OBVIOUS
<1> QED BY <1>1, <1>2, Zenon

LEMMA NoNumbers == 1 .. 0 = {}
OBVIOUS

\* An operation on the entry <<d0, i0>> alone, which then leads to the clusters
\* Come instead of Gone.
LEMMA OneEntryStep ==
  ASSUME FatInv, NEW d0, NEW i0, NEW Gone, NEW Come,
         FatTypes', DirectoryEntries', HandlesSound',
         \A d \in Clusters, i \in 1 .. Slots :
           ~(d = d0 /\ i = i0) /\ dir'[d][i].kind \in InUseKinds
             => dir'[d][i] = dir[d][i] /\ content'[d][i] = content[d][i],
         \A h \in Handles : handle'[h] # NoHandle /\ ~IsOn(h, d0, i0)' => handle'[h] = handle[h],
         \A c \in Gone : Leads(d0, i0, c),
         \A c \in Clusters : Leads(d0, i0, c)' => c \in Come,
         Come \cap (Heads \ Gone) = {},
         LinksSound(fat', (Heads \ Gone) \cup Come),
         \A c \in Heads \ Gone :
           /\ ReadChain(fat', c) = ReadChain(fat, c)
           /\ \A b \in InChain(fat, c) : SameData(b),
         d0 \in Clusters /\ i0 \in 1 .. Slots /\ dir'[d0][i0].kind = "file" =>
           HoldsFile(ReadChain(fat', dir'[d0][i0].cluster), data', dir'[d0][i0].size,
                     content'[d0][i0])
  PROVE  FatInv'
<1>1. ASSUME NEW d \in Clusters, NEW i \in 1 .. Slots, NEW c, ~(d = d0 /\ i = i0), Leads(d, i, c)'
      PROVE  Leads(d, i, c)
  <2>1. dir'[d][i].kind \in InUseKinds
    BY <1>1, Zenon DEF Leads
  <2>2. dir'[d][i] = dir[d][i]
    BY <1>1, <2>1, Zenon
  <2>3. CASE dir'[d][i].cluster = c
    BY <2>1, <2>2, <2>3, Zenon DEF Leads
  <2>4. CASE \E h \in Handles : IsOn(h, d, i)' /\ handle'[h].start = c
    <3>1. PICK h \in Handles : IsOn(h, d, i)' /\ handle'[h].start = c
      BY <2>4, Zenon
    <3>2. handle'[h] # NoHandle
      <4>1. handle'[h].dir = d
        BY <3>1, ZenonT(40) DEF IsOn
      <4>2. NoHandle.dir = 0
        BY Zenon DEF NoHandle
      <4> QED BY <1>1, <4>1, <4>2, NoCluster, Zenon
    <3>3. ~IsOn(h, d0, i0)'
      BY <1>1, <3>1, Zenon DEF IsOn
    <3>4. handle'[h] = handle[h]
      BY <3>2, <3>3, Zenon
    <3>5. IsOn(h, d, i) /\ handle[h].start = c
      BY <3>1, <3>4, Zenon DEF IsOn
    <3> QED BY <2>1, <2>2, <3>5, Zenon DEF Leads
  <2> QED BY <1>1, <2>3, <2>4, Zenon DEF Leads
<1>2. OneOwner
  BY Zenon DEF FatInv
<1>3. ASSUME NEW d \in Clusters, NEW i \in 1 .. Slots, NEW c \in Clusters, ~(d = d0 /\ i = i0),
             Leads(d, i, c)
      PROVE  c \in Heads \ Gone
  <2>1. c \in Heads
    BY <1>3, Zenon DEF Heads
  <2>2. c \notin Gone
    <3> SUFFICES ASSUME c \in Gone PROVE FALSE
      BY Zenon
    <3>1. Leads(d0, i0, c)
      OBVIOUS
    <3>2. d0 \in Clusters /\ i0 \in 1 .. Slots
      BY <3>1, ZenonT(40) DEF Leads
    <3> QED BY <1>2, <1>3, <3>1, <3>2, Zenon DEF OneOwner
  <2> QED BY <2>1, <2>2
<1>4. Heads' \subseteq (Heads \ Gone) \cup Come
  <2> SUFFICES ASSUME NEW c \in Clusters, NEW d \in Clusters, NEW i \in 1 .. Slots, Leads(d, i, c)'
               PROVE  c \in (Heads \ Gone) \cup Come
    BY Zenon DEF Heads
  <2>1. CASE d = d0 /\ i = i0
    BY <2>1, Zenon
  <2>2. CASE ~(d = d0 /\ i = i0)
    <3>1. Leads(d, i, c)
      BY <1>1, <2>2, ZenonT(40)
    <3>2. c \in Heads \ Gone
      BY <1>3, <2>2, <3>1, ZenonT(40)
    <3> QED BY <3>2, ZenonT(40)
  <2> QED BY <2>1, <2>2, Zenon
<1>5. LinksSound(fat', Heads')
  BY <1>4, FewerHeads
<1>6. OneOwner'
  <2> SUFFICES ASSUME NEW c \in Clusters, NEW d1 \in Clusters, NEW d2 \in Clusters,
                      NEW i1 \in 1 .. Slots, NEW i2 \in 1 .. Slots,
                      Leads(d1, i1, c)', Leads(d2, i2, c)'
               PROVE  d1 = d2 /\ i1 = i2
    BY Zenon DEF OneOwner
  <2>1. CASE ~(d1 = d0 /\ i1 = i0) /\ ~(d2 = d0 /\ i2 = i0)
    <3>1. Leads(d1, i1, c) /\ Leads(d2, i2, c)
      BY <1>1, <2>1, ZenonT(40)
    <3> QED BY <1>2, <3>1, Zenon DEF OneOwner
  <2>2. CASE d1 = d0 /\ i1 = i0 /\ ~(d2 = d0 /\ i2 = i0)
    <3>1. c \in Come
      BY <2>2, ZenonT(40)
    <3>2. Leads(d2, i2, c)
      BY <1>1, <2>2, Zenon
    <3>3. c \in Heads \ Gone
      BY <1>3, <2>2, <3>2, ZenonT(40)
    <3> QED BY <3>1, <3>3, ZenonT(40)
  <2>3. CASE d2 = d0 /\ i2 = i0 /\ ~(d1 = d0 /\ i1 = i0)
    <3>1. c \in Come
      BY <2>3, Zenon
    <3>2. Leads(d1, i1, c)
      BY <1>1, <2>3, Zenon
    <3>3. c \in Heads \ Gone
      BY <1>3, <2>3, <3>2, Zenon
    <3> QED BY <3>1, <3>3, Zenon
  <2> QED BY <2>1, <2>2, <2>3, Zenon
<1>7. FilesSound'
  <2> SUFFICES ASSUME NEW d \in Clusters, NEW i \in 1 .. Slots, dir'[d][i].kind = "file"
               PROVE  HoldsFile(ReadChain(fat', dir'[d][i].cluster), data', dir'[d][i].size,
                                content'[d][i])
    BY Zenon DEF FilesSound
  <2>1. CASE d = d0 /\ i = i0
    BY <2>1, ZenonT(40)
  <2>2. CASE ~(d = d0 /\ i = i0)
    <3> DEFINE c == dir[d][i].cluster
               s == ReadChain(fat, c)
    <3>1. dir'[d][i] = dir[d][i] /\ content'[d][i] = content[d][i]
      BY <2>2, ZenonT(40) DEF InUseKinds
    <3>2. HoldsFile(s, data, dir[d][i].size, content[d][i])
      BY <3>1, Zenon DEF FatInv, FilesSound
    <3>3. CASE c \in Clusters
      <4>1. Leads(d, i, c)
        BY <3>1, ZenonT(40) DEF Leads, InUseKinds
      <4>2. c \in Heads \ Gone
        BY <1>3, <2>2, <3>3, <4>1, ZenonT(40)
      <4>3. ReadChain(fat', c) = s
        BY <4>2, ZenonT(40)
      <4>4. \A k \in 1 .. Len(s), j \in 1 .. cluster_size : data'[s[k]][j] = data[s[k]][j]
        <5>1. InChain(fat, c) = {s[k] : k \in 1 .. Len(s)}
          BY Zenon DEF InChain
        <5>2. \A b \in InChain(fat, c) : SameData(b)
          BY <4>2, ZenonT(40)
        <5> HIDE DEF s, c
        <5> QED BY <5>1, <5>2 DEF SameData
      <4>5. HoldsFile(s, data', dir[d][i].size, content[d][i])
        <5> HIDE DEF s
        <5> QED BY ONLY <3>2, <4>4, SameBytes
      <4> QED BY <3>1, <4>3, <4>5, Zenon
    <3>4. CASE c \notin Clusters
      <4>1. c = 0
        BY <3>4, Zenon DEF FatInv, FatTypes, MaybeCluster
      <4>2. Len(s) = 0 /\ ReadChain(fat', c) = s
        BY <4>1, EmptyChain, Zenon
      <4>3. HoldsFile(s, data', dir[d][i].size, content[d][i])
        <5> HIDE DEF s
        <5>1. 1 .. Len(s) = {}
          BY <4>2, NoNumbers, Zenon
        <5> QED BY <3>2, <5>1, ZenonT(40) DEF HoldsFile
      <4> QED BY <3>1, <4>2, <4>3, Zenon
    <3> QED BY <3>3, <3>4, ZenonT(40)
  <2> QED BY <2>1, <2>2, Zenon
<1> QED BY <1>5, <1>6, <1>7, Zenon DEF FatInv

\* One that leaves the table and the bytes alone.
LEMMA SameTableStep ==
  ASSUME FatInv, NEW d0, NEW i0,
         FatTypes', DirectoryEntries', HandlesSound', UNCHANGED <<fat, data>>,
         \A d \in Clusters, i \in 1 .. Slots :
           ~(d = d0 /\ i = i0) /\ dir'[d][i].kind \in InUseKinds
             => dir'[d][i] = dir[d][i] /\ content'[d][i] = content[d][i],
         \A h \in Handles : handle'[h] # NoHandle /\ ~IsOn(h, d0, i0)' => handle'[h] = handle[h],
         \A c \in Clusters : Leads(d0, i0, c)' => Leads(d0, i0, c),
         d0 \in Clusters /\ i0 \in 1 .. Slots /\ dir'[d0][i0].kind = "file" =>
           HoldsFile(ReadChain(fat', dir'[d0][i0].cluster), data', dir'[d0][i0].size,
                     content'[d0][i0])
  PROVE  FatInv'
<1>1. PICK Gone : Gone = {c \in Clusters : Leads(d0, i0, c)}
  BY Zenon
<1>2. PICK Come : Come = {c \in Clusters : Leads(d0, i0, c)'}
  BY Zenon
<1>3. /\ \A c \in Gone : Leads(d0, i0, c)
      /\ \A c \in Clusters : Leads(d0, i0, c)' => c \in Come
  BY <1>1, <1>2, Zenon
<1>4. Come \subseteq Gone
  BY <1>1, <1>2, Zenon
<1>5. Gone \subseteq Heads
  BY <1>1, Zenon DEF Heads, Leads
<1>6. Come \cap (Heads \ Gone) = {} /\ (Heads \ Gone) \cup Come \subseteq Heads
  BY <1>4, <1>5
<1>7. LinksSound(fat', (Heads \ Gone) \cup Come)
  <2>1. LinksSound(fat, Heads) /\ fat' = fat
    BY Zenon DEF FatInv
  <2> QED BY <1>6, <2>1, FewerHeads, Zenon
<1>8. \A c \in Heads \ Gone :
        /\ ReadChain(fat', c) = ReadChain(fat, c)
        /\ \A b \in InChain(fat, c) : SameData(b)
  BY Zenon DEF SameData
<1>9. Come \cap (Heads \ Gone) = {}
  BY <1>6
<1> QED BY <1>3, <1>7, <1>8, <1>9, OneEntryStep, Zenon

LEMMA DirectoriesKept ==
  ASSUME \A i \in 1 .. Slots :
           dir[root_cluster][i].kind = "dir" => dir'[root_cluster][i] = dir[root_cluster][i]
  PROVE  Directories \subseteq Directories'
BY Zenon DEF Directories

\* The directories (or the files) t are s but for the entry <<d, i>>.
SetAt(t, s, d, i, e) ==
  /\ DOMAIN t = Clusters /\ \A c \in Clusters : DOMAIN t[c] = 1 .. Slots
  /\ t[d][i] = e
  /\ \A c \in Clusters, j \in 1 .. Slots : ~(c = d /\ j = i) => t[c][j] = s[c][j]

LEMMA EntrySet ==
  ASSUME NEW s, DOMAIN s = Clusters, \A c \in Clusters : DOMAIN s[c] = 1 .. Slots,
         NEW d \in Clusters, NEW i \in 1 .. Slots, NEW e, NEW t, t = [s EXCEPT ![d][i] = e]
  PROVE  SetAt(t, s, d, i, e)
BY Zenon DEF SetAt

LEMMA EntriesSet ==
  ASSUME FatTypes, NEW d \in Clusters, NEW i \in 1 .. Slots, NEW e, NEW t
  PROVE  /\ t = [dir EXCEPT ![d][i] = e] => SetAt(t, dir, d, i, e)
         /\ t = [content EXCEPT ![d][i] = e] => SetAt(t, content, d, i, e)
<1>1. /\ DOMAIN dir = Clusters /\ \A c \in Clusters : DOMAIN dir[c] = 1 .. Slots
      /\ DOMAIN content = Clusters /\ \A c \in Clusters : DOMAIN content[c] = 1 .. Slots
  BY Zenon DEF FatTypes
<1> QED BY <1>1, EntrySet

IsEntry(e) == DOMAIN e = EntryFields /\ e.cluster \in MaybeCluster /\ e.size \in Nat

\* The types after a step that writes at most one entry.
LEMMA TypesKept ==
  ASSUME FatTypes, NEW d0 \in Clusters, NEW i0 \in 1 .. Slots, NEW e, NEW f,
         SetAt(dir', dir, d0, i0, e), IsEntry(e),
         SetAt(content', content, d0, i0, f), f \in Seq(Int),
         DOMAIN data' = Clusters, DOMAIN handle' = Handles,
         \A h \in Handles : handle'[h] = NoHandle \/ handle'[h] \in OpenHandle
  PROVE  FatTypes'
<1>1. ASSUME NEW d \in Clusters, NEW i \in 1 .. Slots
      PROVE  IsEntry(dir'[d][i]) /\ content'[d][i] \in Seq(Int)
  <2>1. CASE d = d0 /\ i = i0
    BY <2>1, Zenon DEF SetAt
  <2>2. CASE ~(d = d0 /\ i = i0)
    <3>1. dir'[d][i] = dir[d][i] /\ content'[d][i] = content[d][i]
      BY <2>2, Zenon DEF SetAt
    <3>2. IsEntry(dir[d][i]) /\ content[d][i] \in Seq(Int)
      BY Zenon DEF FatTypes, IsEntry
    <3> QED BY <3>1, <3>2, Zenon
  <2> QED BY <2>1, <2>2
<1>2. /\ DOMAIN dir' = Clusters /\ \A c \in Clusters : DOMAIN dir'[c] = 1 .. Slots
      /\ DOMAIN content' = Clusters /\ \A c \in Clusters : DOMAIN content'[c] = 1 .. Slots
  BY Zenon DEF SetAt
<1> QED BY <1>1, <1>2, Zenon DEF FatTypes, IsEntry

\* The handles after a step of one of them, on the entry <<d0, i0>>.
LEMMA HandlesKept ==
  ASSUME FatTypes, HandlesSound, NEW h \in Handles, NEW d0, NEW i0,
         \A g \in Handles : g # h => handle'[g] = handle[g],
         \A g \in Handles : g # h /\ handle[g] # NoHandle => ~IsOn(g, d0, i0),
         \A d \in Clusters, i \in 1 .. Slots :
           ~(d = d0 /\ i = i0) /\ dir[d][i].kind = "file" => dir'[d][i] = dir[d][i],
         Directories \subseteq Directories',
         handle'[h] # NoHandle => IsOn(h, d0, i0)' /\ HandleSound(h)'
  PROVE  HandlesSound'
<1>1. ASSUME NEW g \in Handles, g # h, handle'[g] # NoHandle
      PROVE  HandleSound(g)' /\ ~IsOn(g, d0, i0)'
  <2>1. handle'[g] = handle[g] /\ ~IsOn(g, d0, i0)
    BY <1>1
  <2>2. HandleSound(g)
    BY <1>1, <2>1 DEF HandlesSound
  <2>3. handle[g].dir \in Clusters /\ handle[g].slot \in 1 .. Slots
    BY <1>1, <2>1, SMTT(30) DEF FatTypes, OpenHandle
  <2>4. dir'[handle[g].dir][handle[g].slot] = dir[handle[g].dir][handle[g].slot]
    BY <2>1, <2>2, <2>3 DEF HandleSound, IsOn
  <2>5. HandleSound(g)'
    BY <2>1, <2>2, <2>4, Zenon DEF HandleSound
  <2> QED BY <2>1, <2>5 DEF IsOn
<1>2. \A g \in Handles : handle'[g] # NoHandle => HandleSound(g)'
  BY <1>1
<1>3. ASSUME NEW g \in Handles, NEW k \in Handles, handle'[g] # NoHandle, handle'[k] # NoHandle,
             IsOn(g, handle[k].dir, handle[k].slot)'
      PROVE  g = k
  <2>1. CASE g # h /\ k # h
    BY <1>3, <2>1, Zenon DEF HandlesSound, IsOn
  <2>2. CASE g = h /\ k # h
    BY <1>1, <1>3, <2>2, Zenon DEF IsOn
  <2>3. CASE k = h /\ g # h
    BY <1>1, <1>3, <2>3, Zenon DEF IsOn
  <2> QED BY <2>1, <2>2, <2>3
<1> QED BY <1>2, <1>3, Zenon DEF HandlesSound

LEMMA CreateFileStep ==
  ASSUME FatInv, NEW h \in Handles, NEW d \in Directories, NEW n, CreateFile(h, d, n)
  PROVE  FatInv'
<1>1. PICK i \in find_free_entry_slot(d) :
        /\ ~InUse(d, i)
        /\ dir' = [dir EXCEPT ![d][i] =
                     [kind |-> "file", name |-> set_name(n), cluster |-> 0, size |-> 0]]
        /\ handle' = [handle EXCEPT ![h] = [dir |-> d, slot |-> i, start |-> 0, size |-> 0]]
        /\ content' = [content EXCEPT ![d][i] = <<>>]
  BY Zenon DEF CreateFile
<1>2. handle[h] = NoHandle /\ UNCHANGED <<fat, data>>
  BY Zenon DEF CreateFile
<1>3. d \in Clusters /\ i \in 1 .. Slots /\ dir[d][i].kind \in {"end", "deleted"}
  BY DirectoriesAreClusters DEF FatInv, find_free_entry_slot
<1>4. FatTypes /\ HandlesSound /\ DirectoryEntries /\ FilesSound
  BY Zenon DEF FatInv
<1>5. PICK e : e = [kind |-> "file", name |-> set_name(n), cluster |-> 0, size |-> 0]
  BY Zenon
<1>6. PICK k : k = [dir |-> d, slot |-> i, start |-> 0, size |-> 0]
  BY Zenon
<1>7. SetAt(dir', dir, d, i, e) /\ SetAt(content', content, d, i, <<>>)
  BY <1>1, <1>3, <1>4, <1>5, EntriesSet, Zenon
<1>8. /\ dir'[d][i] = e /\ content'[d][i] = <<>>
      /\ \A c \in Clusters, j \in 1 .. Slots :
           ~(c = d /\ j = i) => dir'[c][j] = dir[c][j] /\ content'[c][j] = content[c][j]
  BY <1>7, Zenon DEF SetAt
<1>9. /\ DOMAIN handle' = Handles /\ handle'[h] = k
      /\ \A g \in Handles : g # h => handle'[g] = handle[g]
  BY <1>1, <1>4, <1>6, Zenon DEF FatTypes
<1>10. /\ IsEntry(e) /\ e.kind = "file" /\ e.cluster = 0 /\ e.size = 0
       /\ <<>> \in Seq(Int) /\ Len(<<>>) = 0
  BY <1>5 DEF EntryFields, MaybeCluster, IsEntry
<1>11. k \in OpenHandle /\ k # NoHandle /\ k.dir = d /\ k.slot = i /\ k.start = 0 /\ k.size = 0
  BY <1>3, <1>6, NoCluster DEF OpenHandle, MaybeCluster, NoHandle
<1>12. FatTypes'
  <2>1. \A g \in Handles : handle'[g] = NoHandle \/ handle'[g] \in OpenHandle
    BY <1>4, <1>9, <1>11, Zenon DEF FatTypes
  <2>2. DOMAIN data' = Clusters
    BY <1>2, <1>4, Zenon DEF FatTypes
  <2> QED BY <1>3, <1>4, <1>7, <1>9, <1>10, <2>1, <2>2, TypesKept, Zenon
<1>13. DirectoryEntries'
  <2>1. "file" # "dir"
    OBVIOUS
  <2> QED BY <1>4, <1>8, <1>10, <2>1 DEF DirectoryEntries
<1>14. Directories \subseteq Directories'
  <2>1. dir[d][i].kind # "dir" /\ root_cluster \in Clusters
    BY <1>3, <1>4, DirectoriesAreClusters, Zenon
  <2> QED BY <1>3, <1>8, <2>1, DirectoriesKept, Zenon
<1>15. HandlesSound'
  <2>1. \A g \in Handles : g # h /\ handle[g] # NoHandle => ~IsOn(g, d, i)
    BY <1>1, Zenon DEF InUse, IsOn
  <2>2. \A c \in Clusters, j \in 1 .. Slots :
          ~(c = d /\ j = i) /\ dir[c][j].kind = "file" => dir'[c][j] = dir[c][j]
    BY <1>8, Zenon
  <2>3. IsOn(h, d, i)' /\ HandleSound(h)'
    BY <1>8, <1>9, <1>10, <1>11, <1>14, Zenon DEF IsOn, HandleSound
  <2>4. h \in Handles
    OBVIOUS
  <2> QED BY ONLY <1>4, <1>9, <1>14, <2>1, <2>2, <2>3, <2>4, HandlesKept
<1>16. \A c \in Clusters : ~Leads(d, i, c)'
  <2> SUFFICES ASSUME NEW c \in Clusters, Leads(d, i, c)' PROVE FALSE
    OBVIOUS
  <2>1. c # 0
    BY NoCluster
  <2>2. PICK g \in Handles : IsOn(g, d, i)' /\ handle'[g].start = c
    BY <1>8, <1>10, <2>1, Zenon DEF Leads
  <2>3. g # h
    BY <1>9, <1>11, <2>1, <2>2, Zenon
  <2> QED BY <1>1, <1>9, <2>2, <2>3, Zenon DEF InUse, IsOn
<1>17. HoldsFile(ReadChain(fat', dir'[d][i].cluster), data', dir'[d][i].size, content'[d][i])
  <2>1. Len(ReadChain(fat', 0)) = 0 /\ 1 .. 0 = {}
    BY EmptyChain
  <2>2. 0 <= 0 * cluster_size
    BY FatAssumption
  <2> QED BY <1>8, <1>10, <2>1, <2>2, Zenon DEF HoldsFile
<1>18. \A g \in Handles : handle'[g] # NoHandle /\ ~IsOn(g, d, i)' => handle'[g] = handle[g]
  BY <1>9, <1>11, Zenon DEF IsOn
<1>19. \A c \in Clusters, j \in 1 .. Slots :
         ~(c = d /\ j = i) /\ dir'[c][j].kind \in InUseKinds
           => dir'[c][j] = dir[c][j] /\ content'[c][j] = content[c][j]
  BY <1>8, Zenon
<1> QED BY <1>2, <1>12, <1>13, <1>15, <1>16, <1>17, <1>18, <1>19, SameTableStep, Zenon

LEMMA OpenStep ==
  ASSUME FatInv, NEW h \in Handles, NEW d \in Directories, NEW n, Open(h, d, n)
  PROVE  FatInv'
<1>1. PICK i \in Lookup(d, n) :
        /\ dir[d][i].kind = "file" /\ ~InUse(d, i)
        /\ handle' = [handle EXCEPT ![h] =
             [dir |-> d, slot |-> i, start |-> dir[d][i].cluster, size |-> dir[d][i].size]]
  BY Zenon DEF Open
<1>2. handle[h] = NoHandle /\ UNCHANGED <<fat, data, dir, content>>
  BY Zenon DEF Open
<1>3. d \in Clusters /\ i \in 1 .. Slots
  BY DirectoriesAreClusters DEF FatInv, Lookup, Matches, Entries
<1>4. FatTypes /\ HandlesSound /\ DirectoryEntries /\ FilesSound
  BY Zenon DEF FatInv
<1>5. PICK k : k = [dir |-> d, slot |-> i, start |-> dir[d][i].cluster, size |-> dir[d][i].size]
  BY Zenon
<1>6. /\ DOMAIN handle' = Handles /\ handle'[h] = k
      /\ \A g \in Handles : g # h => handle'[g] = handle[g]
  BY <1>1, <1>4, <1>5, Zenon DEF FatTypes
<1>7. dir[d][i].cluster \in MaybeCluster /\ dir[d][i].size \in Nat
  BY <1>3, <1>4, Zenon DEF FatTypes
<1>8. /\ k \in OpenHandle /\ k # NoHandle /\ k.dir = d /\ k.slot = i
      /\ k.start = dir[d][i].cluster /\ k.size = dir[d][i].size
  BY <1>3, <1>5, <1>7, NoCluster DEF OpenHandle, NoHandle
<1>9. FatTypes'
  <2>1. \A g \in Handles : handle'[g] = NoHandle \/ handle'[g] \in OpenHandle
    BY <1>4, <1>6, <1>8, Zenon DEF FatTypes
  <2> QED BY <1>2, <1>4, <1>6, <2>1, Zenon DEF FatTypes
<1>10. DirectoryEntries' /\ Directories' = Directories
  BY <1>2, <1>4, Zenon DEF DirectoryEntries, Directories
<1>11. HandlesSound'
  <2>1. \A g \in Handles : g # h /\ handle[g] # NoHandle => ~IsOn(g, d, i)
    BY <1>1, Zenon DEF InUse, IsOn
  <2>2. \A c \in Clusters, j \in 1 .. Slots :
          ~(c = d /\ j = i) /\ dir[c][j].kind = "file" => dir'[c][j] = dir[c][j]
    BY <1>2, Zenon
  <2>3. IsOn(h, d, i)' /\ HandleSound(h)'
    BY <1>1, <1>2, <1>6, <1>8, <1>10, Zenon DEF IsOn, HandleSound
  <2>4. Directories \subseteq Directories'
    BY <1>10
  <2> QED BY <1>4, <1>6, <2>1, <2>2, <2>3, <2>4, HandlesKept
<1>12. \A c \in Clusters : Leads(d, i, c)' => Leads(d, i, c)
  <2> SUFFICES ASSUME NEW c \in Clusters, Leads(d, i, c)' PROVE dir[d][i].cluster = c
    BY <1>1, <1>3, Zenon DEF Leads, InUseKinds
  <2> SUFFICES ASSUME NEW g \in Handles, IsOn(g, d, i)', handle'[g].start = c
               PROVE  dir[d][i].cluster = c
    BY <1>2, Zenon DEF Leads
  <2>1. g = h
    BY <1>1, <1>6, Zenon DEF InUse, IsOn
  <2> QED BY <1>6, <1>8, <2>1, Zenon
<1>13. HoldsFile(ReadChain(fat', dir'[d][i].cluster), data', dir'[d][i].size, content'[d][i])
  BY <1>1, <1>2, <1>3, <1>4, Zenon DEF FilesSound
<1>14. \A g \in Handles : handle'[g] # NoHandle /\ ~IsOn(g, d, i)' => handle'[g] = handle[g]
  BY <1>6, <1>8, Zenon DEF IsOn
<1>15. \A c \in Clusters, j \in 1 .. Slots :
         ~(c = d /\ j = i) /\ dir'[c][j].kind \in InUseKinds
           => dir'[c][j] = dir[c][j] /\ content'[c][j] = content[c][j]
  BY <1>2, Zenon
<1> QED BY <1>2, <1>9, <1>10, <1>11, <1>12, <1>13, <1>14, <1>15, SameTableStep, Zenon

LEMMA CloseStep ==
  ASSUME FatInv, NEW h \in Handles, Close(h)
  PROVE  FatInv'
<1>1. /\ handle[h] # NoHandle /\ handle' = [handle EXCEPT ![h] = NoHandle]
      /\ UNCHANGED <<fat, data, dir, content>>
  BY Zenon DEF Close
<1>2. FatTypes /\ HandlesSound /\ DirectoryEntries /\ FilesSound
  BY Zenon DEF FatInv
<1>3. /\ DOMAIN handle' = Handles /\ handle'[h] = NoHandle
      /\ \A g \in Handles : g # h => handle'[g] = handle[g]
  BY <1>1, <1>2, Zenon DEF FatTypes
<1>4. PICK d \in Clusters, i \in 1 .. Slots : handle[h].dir = d /\ handle[h].slot = i
  BY <1>1, <1>2 DEF FatTypes, OpenHandle
<1>5. FatTypes'
  <2>1. \A g \in Handles : handle'[g] = NoHandle \/ handle'[g] \in OpenHandle
    BY <1>2, <1>3, Zenon DEF FatTypes
  <2> QED BY <1>1, <1>2, <1>3, <2>1, Zenon DEF FatTypes
<1>6. DirectoryEntries' /\ Directories' = Directories
  BY <1>1, <1>2, Zenon DEF DirectoryEntries, Directories
<1>7. \A g \in Handles : g # h /\ handle[g] # NoHandle => ~IsOn(g, d, i)
  BY <1>1, <1>2, <1>4, Zenon DEF HandlesSound
<1>8. HandlesSound'
  <2>1. \A c \in Clusters, j \in 1 .. Slots :
          ~(c = d /\ j = i) /\ dir[c][j].kind = "file" => dir'[c][j] = dir[c][j]
    BY <1>1, Zenon
  <2>2. Directories \subseteq Directories'
    BY <1>6
  <2> QED BY <1>2, <1>3, <1>7, <2>1, <2>2, HandlesKept
<1>9. \A c \in Clusters : Leads(d, i, c)' => Leads(d, i, c)
  <2> SUFFICES ASSUME NEW c \in Clusters, Leads(d, i, c)' PROVE Leads(d, i, c)
    OBVIOUS
  <2>1. dir[d][i].kind \in InUseKinds
    BY <1>1, Zenon DEF Leads
  <2>2. CASE dir[d][i].cluster = c
    BY <2>1, <2>2, Zenon DEF Leads
  <2>3. CASE dir[d][i].cluster # c
    <3>1. PICK g \in Handles : IsOn(g, d, i)' /\ handle'[g].start = c
      BY <1>1, <2>3, Zenon DEF Leads
    <3>2. g # h
      BY <1>3, <3>1, NoCluster DEF IsOn, NoHandle
    <3>3. IsOn(g, d, i) /\ handle[g].start = c
      BY <1>3, <3>1, <3>2, Zenon DEF IsOn
    <3> QED BY <2>1, <3>3, Zenon DEF Leads
  <2> QED BY <2>2, <2>3
<1>10. dir'[d][i].kind = "file" =>
         HoldsFile(ReadChain(fat', dir'[d][i].cluster), data', dir'[d][i].size, content'[d][i])
  BY <1>1, <1>2, Zenon DEF FilesSound
<1>11. \A g \in Handles : handle'[g] # NoHandle /\ ~IsOn(g, d, i)' => handle'[g] = handle[g]
  BY <1>3, Zenon
<1>12. \A c \in Clusters, j \in 1 .. Slots :
         ~(c = d /\ j = i) /\ dir'[c][j].kind \in InUseKinds
           => dir'[c][j] = dir[c][j] /\ content'[c][j] = content[c][j]
  BY <1>1, Zenon
<1> QED BY <1>1, <1>5, <1>6, <1>8, <1>9, <1>10, <1>11, <1>12, SameTableStep, Zenon

\* A step that leaves the handles and their entries alone.
LEMMA HandlesSame ==
  ASSUME HandlesSound, handle' = handle,
         \A h \in Handles : handle[h] # NoHandle =>
           /\ dir'[handle[h].dir][handle[h].slot] = dir[handle[h].dir][handle[h].slot]
           /\ handle[h].dir \in Directories'
  PROVE  HandlesSound'
<1>1. ASSUME NEW h \in Handles, handle'[h] # NoHandle PROVE HandleSound(h)'
  <2>1. HandleSound(h)
    BY <1>1, Zenon DEF HandlesSound
  <2> QED BY <1>1, <2>1, Zenon DEF HandleSound
<1> QED BY <1>1, Zenon DEF HandlesSound, IsOn

LEMMA BlankEntries ==
  /\ IsEntry(EndEntry) /\ EndEntry.kind = "end"
  /\ IsEntry(DeletedEntry) /\ DeletedEntry.kind = "deleted"
BY DEF DeletedEntry, EndEntry, EntryFields, MaybeCluster, IsEntry

LEMMA EmptyFile == <<>> \in Seq(Int)
OBVIOUS

LEMMA UnlinkStep ==
  ASSUME FatInv, NEW d \in Directories, NEW n, unlink(d, n)
  PROVE  FatInv'
<1>1. PICK i \in Lookup(d, n) :
        /\ dir[d][i].kind = "file" /\ ~InUse(d, i)
        /\ fat' = free_chain(fat, dir[d][i].cluster)
        /\ dir' = [dir EXCEPT ![d][i] = DeletedEntry]
        /\ content' = [content EXCEPT ![d][i] = <<>>]
  BY Zenon DEF unlink
<1>2. UNCHANGED <<data, handle>>
  BY Zenon DEF unlink
<1>3. d \in Clusters /\ i \in 1 .. Slots
  BY DirectoriesAreClusters DEF FatInv, Lookup, Matches, Entries
<1>4. FatTypes /\ HandlesSound /\ DirectoryEntries /\ FilesSound /\ LinksSound(fat, Heads)
  BY Zenon DEF FatInv
<1>5. PICK c \in MaybeCluster : c = dir[d][i].cluster
  BY <1>3, <1>4, Zenon DEF FatTypes
<1>6. PICK e : e = DeletedEntry
  OBVIOUS
<1>7. SetAt(dir', dir, d, i, e) /\ SetAt(content', content, d, i, <<>>)
  BY <1>1, <1>3, <1>4, <1>6, EntriesSet, Zenon
<1>8. /\ dir'[d][i] = e
      /\ \A b \in Clusters, j \in 1 .. Slots :
           ~(b = d /\ j = i) => dir'[b][j] = dir[b][j] /\ content'[b][j] = content[b][j]
  BY <1>7, Zenon DEF SetAt
<1>9. IsEntry(e) /\ e.kind \notin {"file", "dir"} /\ <<>> \in Seq(Int)
  BY <1>6, BlankEntries, EmptyFile
<1>10. FatTypes'
  <2>1. \A g \in Handles : handle'[g] = NoHandle \/ handle'[g] \in OpenHandle
    BY <1>2, <1>4, Zenon DEF FatTypes
  <2>2. DOMAIN data' = Clusters /\ DOMAIN handle' = Handles
    BY <1>2, <1>4, Zenon DEF FatTypes
  <2> QED BY <1>3, <1>4, <1>7, <1>9, <2>1, <2>2, TypesKept, Zenon
<1>11. DirectoryEntries'
  BY <1>4, <1>8, <1>9 DEF DirectoryEntries
<1>12. Directories \subseteq Directories'
  <2>1. dir[d][i].kind # "dir" /\ root_cluster \in Clusters
    BY <1>1, <1>4, DirectoriesAreClusters
  <2> QED BY <1>3, <1>8, <2>1, DirectoriesKept, Zenon
<1>13. HandlesSound'
  <2>1. ASSUME NEW h \in Handles, handle[h] # NoHandle
        PROVE  /\ dir'[handle[h].dir][handle[h].slot] = dir[handle[h].dir][handle[h].slot]
               /\ handle[h].dir \in Directories'
    <3>1. handle[h].dir \in Clusters /\ handle[h].slot \in 1 .. Slots
      BY <1>4, <2>1 DEF FatTypes, OpenHandle
    <3>2. ~(handle[h].dir = d /\ handle[h].slot = i)
      BY <1>1, Zenon DEF InUse
    <3>3. handle[h].dir \in Directories
      BY <1>4, <2>1, Zenon DEF HandlesSound, HandleSound
    <3> QED BY <1>8, <1>12, <3>1, <3>2, <3>3, Zenon
  <2> QED BY <1>2, <1>4, <2>1, HandlesSame, Zenon
<1>14. c \in Clusters => Leads(d, i, c)
  BY <1>1, <1>3, <1>5, Zenon DEF Leads, InUseKinds
<1>15. c \in Heads \cup {0}
  BY <1>3, <1>14 DEF Heads, MaybeCluster
<1>16. PICK Gone : Gone = {b \in Clusters : b = c}
  BY Zenon
<1>17. \A b \in Gone : Leads(d, i, b)
  BY <1>14, <1>16, Zenon
<1>18. \A b \in Clusters : ~Leads(d, i, b)'
  BY <1>8, <1>9 DEF Leads, InUseKinds
<1>19. /\ LinksSound(fat', Heads \ {c})
       /\ \A b \in Clusters : fat'[b] = fat[b] \/ b \in InChain(fat, c)
  BY <1>1, <1>4, <1>5, <1>15, FreeSound, Zenon
<1>20. LinksSound(fat', (Heads \ Gone) \cup {})
  <2>1. (Heads \ Gone) \cup {} = Heads \ {c}
    BY <1>16 DEF Heads
  <2> QED BY <1>19, <2>1
<1>21. \A b \in Heads \ Gone :
         /\ ReadChain(fat', b) = ReadChain(fat, b)
         /\ \A x \in InChain(fat, b) : SameData(x)
  <2> SUFFICES ASSUME NEW b \in Heads \ Gone PROVE ReadChain(fat', b) = ReadChain(fat, b)
    BY <1>2, Zenon DEF SameData
  <2>1. b \in Heads /\ b # c
    BY <1>16 DEF Heads
  <2> QED BY <1>4, <1>15, <1>19, <2>1, Elsewhere
<1>22. \A g \in Handles : handle'[g] # NoHandle /\ ~IsOn(g, d, i)' => handle'[g] = handle[g]
  BY <1>2, Zenon
<1>23. \A b \in Clusters, j \in 1 .. Slots :
         ~(b = d /\ j = i) /\ dir'[b][j].kind \in InUseKinds
           => dir'[b][j] = dir[b][j] /\ content'[b][j] = content[b][j]
  BY <1>8, Zenon
<1>24. dir'[d][i].kind # "file" /\ {} \cap (Heads \ Gone) = {}
  BY <1>8, <1>9
<1> QED BY <1>10, <1>11, <1>13, <1>17, <1>18, <1>20, <1>21, <1>22, <1>23, <1>24, OneEntryStep, Zenon

LEMMA RmdirStep ==
  ASSUME FatInv, NEW n, rmdir(n)
  PROVE  FatInv'
<1> DEFINE r == root_cluster
<1>1. PICK i \in Lookup(r, n), c \in {dir[r][j].cluster : j \in Lookup(r, n)} :
        /\ c = dir[r][i].cluster /\ dir[r][i].kind = "dir"
        /\ \A h \in Handles : handle[h].dir # c
        /\ fat' = free_chain(fat, c)
        /\ dir' = [dir EXCEPT ![r][i] = DeletedEntry, ![c] = Blank]
        /\ data' = [data EXCEPT ![c] = [j \in 1 .. cluster_size |-> 0]]
  BY Zenon DEF rmdir
<1>2. UNCHANGED <<handle, content>>
  BY Zenon DEF rmdir
<1>3. FatTypes /\ HandlesSound /\ DirectoryEntries /\ LinksSound(fat, Heads)
  BY Zenon DEF FatInv
<1>4. r \in Clusters /\ i \in 1 .. Slots /\ c \in Clusters
  BY <1>1, <1>3, DirectoriesAreClusters DEF Lookup, Matches, Entries, DirectoryEntries
<1>5. Leads(r, i, c)
  BY <1>1, <1>4, Zenon DEF Leads, InUseKinds
<1>6. c \in Heads
  BY <1>4, <1>5 DEF Heads
<1>7. c # r
  BY <1>3, <1>6, Zenon DEF LinksSound
<1> HIDE DEF r
<1>8. /\ DOMAIN dir' = Clusters /\ \A b \in Clusters : DOMAIN dir'[b] = 1 .. Slots
      /\ dir'[r][i] = DeletedEntry /\ \A j \in 1 .. Slots : dir'[c][j] = EndEntry
      /\ \A b \in Clusters, j \in 1 .. Slots : b # c /\ ~(b = r /\ j = i) => dir'[b][j] = dir[b][j]
  <2>1. DOMAIN dir = Clusters /\ \A b \in Clusters : DOMAIN dir[b] = 1 .. Slots
    BY <1>3, Zenon DEF FatTypes
  <2>2. dir'[c] = Blank
    BY <1>1, <1>4, <2>1, Zenon
  <2>3. DOMAIN Blank = 1 .. Slots /\ \A j \in 1 .. Slots : Blank[j] = EndEntry
    BY Zenon DEF Blank
  <2>4. dir'[r] = [dir[r] EXCEPT ![i] = DeletedEntry] /\ DOMAIN dir' = Clusters
    BY <1>1, <1>4, <1>7, <2>1, Zenon
  <2>5. \A b \in Clusters : b # c /\ b # r => dir'[b] = dir[b]
    BY <1>1, <1>4, <1>7, <2>1
  <2>6. /\ DOMAIN dir'[r] = 1 .. Slots /\ dir'[r][i] = DeletedEntry
        /\ \A j \in 1 .. Slots : j # i => dir'[r][j] = dir[r][j]
    BY <1>4, <2>1, <2>4, Zenon
  <2> QED BY <1>7, <2>1, <2>2, <2>3, <2>4, <2>5, <2>6, Zenon
<1>9. /\ IsEntry(EndEntry) /\ EndEntry.kind = "end"
      /\ IsEntry(DeletedEntry) /\ DeletedEntry.kind = "deleted"
  BY BlankEntries
<1>10. FatTypes'
  <2>1. ASSUME NEW b \in Clusters, NEW j \in 1 .. Slots PROVE IsEntry(dir'[b][j])
    <3>1. IsEntry(dir[b][j])
      BY <1>3, Zenon DEF FatTypes, IsEntry
    <3> QED BY <1>8, <1>9, <3>1, Zenon
  <2>2. DOMAIN data' = Clusters
    BY <1>1, <1>3, Zenon DEF FatTypes
  <2> QED BY <1>2, <1>3, <1>8, <2>1, <2>2, Zenon DEF FatTypes, IsEntry
<1>11. DirectoryEntries'
  <2>1. ASSUME NEW b \in Clusters, NEW j \in 1 .. Slots, dir'[b][j].kind = "dir"
        PROVE  dir'[b][j] = dir[b][j]
    BY <1>4, <1>8, <1>9, <2>1
  <2> QED BY <1>3, <2>1, ZenonT(40) DEF DirectoryEntries
<1>12. \A d \in Directories : d # c => d \in Directories'
  <2> SUFFICES ASSUME NEW d \in Directories, d # c, d # r PROVE d \in Directories'
    BY DEF Directories, r
  <2>1. PICK j \in 1 .. Slots : dir[r][j].kind = "dir" /\ d = dir[r][j].cluster
    BY Zenon DEF Directories, r
  <2>2. j # i
    BY <1>1, <2>1
  <2>3. dir'[r][j] = dir[r][j]
    BY <1>4, <1>7, <1>8, <2>2, Zenon
  <2> QED BY <2>1, <2>3 DEF Directories, r
<1>13. HandlesSound'
  <2>1. ASSUME NEW h \in Handles, handle[h] # NoHandle
        PROVE  /\ dir'[handle[h].dir][handle[h].slot] = dir[handle[h].dir][handle[h].slot]
               /\ handle[h].dir \in Directories'
    <3>1. handle[h].dir \in Clusters /\ handle[h].slot \in 1 .. Slots /\ handle[h].dir # c
      BY <1>1, <1>3, <2>1 DEF FatTypes, OpenHandle
    <3>2. HandleSound(h) /\ "file" # "dir"
      BY <1>3, <2>1, Zenon DEF HandlesSound
    <3>3. ~(handle[h].dir = r /\ handle[h].slot = i)
      BY <1>1, <3>2, Zenon DEF HandleSound
    <3>4. handle[h].dir \in Directories
      BY <3>2, Zenon DEF HandleSound
    <3> QED BY <1>8, <1>12, <3>1, <3>3, <3>4, Zenon
  <2> QED BY <1>2, <1>3, <2>1, HandlesSame, Zenon
<1>14. PICK Gone : Gone = {c}
  BY Zenon
<1>15. \A b \in Gone : Leads(r, i, b)
  BY <1>5, <1>14, Zenon
<1>16. \A b \in Clusters : ~Leads(r, i, b)'
  <2>1. dir'[r][i].kind = "deleted"
    BY <1>8, <1>9, Zenon
  <2>2. "deleted" \notin InUseKinds
    BY Zenon DEF InUseKinds
  <2> QED BY <2>1, <2>2, Zenon DEF Leads
<1>17. /\ LinksSound(fat', Heads \ {c})
       /\ \A b \in Clusters : fat'[b] = fat[b] \/ b \in InChain(fat, c)
  BY <1>1, <1>3, <1>6, FreeSound, Zenon
<1>18. LinksSound(fat', (Heads \ Gone) \cup {})
  <2>1. (Heads \ Gone) \cup {} = Heads \ {c}
    BY <1>14
  <2> QED BY <1>17, <2>1
<1>19. ASSUME NEW b \in Heads \ Gone
       PROVE  /\ ReadChain(fat', b) = ReadChain(fat, b)
              /\ \A x \in InChain(fat, b) : SameData(x)
  <2>1. b \in Heads /\ b # c /\ b \in Heads \cup {0} /\ c \in Heads \cup {0}
    BY <1>6, <1>14
  <2>2. /\ ReadChain(fat', b) = ReadChain(fat, b)
        /\ InChain(fat, b) \cap InChain(fat, c) = {}
    BY <1>3, <1>17, <2>1, Elsewhere
  <2>3. c \in InChain(fat, c)
    BY <1>3, <1>4, <2>1, InChainFacts, Zenon
  <2>4. InChain(fat, b) \subseteq Clusters
    BY <1>3, <2>1, InChainFacts, Zenon
  <2>5. DOMAIN data = Clusters
    BY <1>3, Zenon DEF FatTypes
  <2>6. \A x \in Clusters : x # c => data'[x] = data[x]
    BY <1>1, <2>5, Zenon
  <2> QED BY <2>2, <2>3, <2>4, <2>6, Zenon DEF SameData
<1>20. \A g \in Handles : handle'[g] # NoHandle /\ ~IsOn(g, r, i)' => handle'[g] = handle[g]
  BY <1>2, Zenon
<1>21. \A b \in Clusters, j \in 1 .. Slots :
         ~(b = r /\ j = i) /\ dir'[b][j].kind \in InUseKinds
           => dir'[b][j] = dir[b][j] /\ content'[b][j] = content[b][j]
  <2>1. \A j \in 1 .. Slots : dir'[c][j].kind = "end"
    BY <1>8, <1>9, Zenon
  <2>2. "end" \notin InUseKinds
    BY Zenon DEF InUseKinds
  <2>3. ASSUME NEW b \in Clusters, NEW j \in 1 .. Slots,
               ~(b = r /\ j = i), dir'[b][j].kind \in InUseKinds
        PROVE  dir'[b][j] = dir[b][j]
    <3>1. b # c
      BY <2>1, <2>2, <2>3, Zenon
    <3> QED BY <1>8, <2>3, <3>1, Zenon
  <2>4. content' = content
    BY <1>2, Zenon
  <2> QED BY <2>3, <2>4, Zenon
<1>22. dir'[r][i].kind # "file" /\ {} \cap (Heads \ Gone) = {}
  BY <1>8, <1>9
<1> QED BY <1>10, <1>11, <1>13, <1>15, <1>16, <1>18, <1>19, <1>20, <1>21, <1>22, OneEntryStep, Zenon

LEMMA CreateDirectoryStep ==
  ASSUME FatInv, NEW n, CreateDirectory(n)
  PROVE  FatInv'
<1> DEFINE r == root_cluster
           free == find_free_entry_slot(root_cluster)
<1>1. PICK c : c = Min(Free(fat))
  OBVIOUS
<1>2. PICK e : e = [kind |-> "dir", name |-> set_name(n), cluster |-> c, size |-> 0]
  BY Zenon
<1>3. /\ Free(fat) # {} /\ UNCHANGED <<handle, content>>
      /\ fat' = [fat EXCEPT ![c] = FAT_EOC]
      /\ data' = [data EXCEPT ![c] = [j \in 1 .. cluster_size |-> 0]]
      /\ dir' = [b \in Clusters |->
              IF b = c THEN Blank
              ELSE IF b = r THEN [j \in 1 .. Slots |-> IF j \in free THEN e ELSE dir[b][j]]
              ELSE dir[b]]
  BY <1>1, <1>2, Zenon DEF CreateDirectory
<1>4. FatTypes /\ HandlesSound /\ DirectoryEntries /\ LinksSound(fat, Heads)
  BY Zenon DEF FatInv
<1>5. r \in Clusters
  BY <1>4, DirectoriesAreClusters
<1>6. /\ c \in Free(fat) /\ c \in Clusters
      /\ fat' = alloc_clusters(fat, 1) /\ IsAllocated(fat, Lowest(fat, 1), fat', c)
  BY <1>1, <1>3, <1>4, AllocOne, Zenon
<1>7. /\ LinksSound(fat', Heads \cup {c}) /\ c \notin Heads
      /\ \A b \in Clusters : fat'[b] = fat[b] \/ fat[b] = FAT_FREE
  BY <1>4, <1>6, AllocSound
<1>8. c # r /\ c \notin Directories
  <2>1. c # r
    BY <1>4, <1>6 DEF LinksSound, Free
  <2>2. ASSUME c \in Directories PROVE FALSE
    <3>1. PICK j \in 1 .. Slots : dir[r][j].kind = "dir" /\ c = dir[r][j].cluster
      BY <2>1, <2>2, Zenon DEF Directories
    <3>2. Leads(r, j, c)
      BY <1>5, <3>1, Zenon DEF Leads, InUseKinds
    <3> QED BY <1>5, <1>6, <1>7, <3>2, Zenon DEF Heads
  <2> QED BY <2>1, <2>2
<1>9. PICK i \in 0 .. Slots :
        /\ \A j \in 1 .. Slots : j \in free <=> j = i
        /\ i # 0 => dir[r][i].kind \in {"end", "deleted"}
  BY FatAssumption DEF find_free_entry_slot
<1> HIDE DEF r, free
<1>10. /\ DOMAIN dir' = Clusters /\ \A b \in Clusters : DOMAIN dir'[b] = 1 .. Slots
       /\ i \in 1 .. Slots => dir'[r][i] = e
       /\ \A j \in 1 .. Slots : dir'[c][j] = EndEntry
       /\ \A b \in Clusters, j \in 1 .. Slots : b # c /\ ~(b = r /\ j = i) => dir'[b][j] = dir[b][j]
  <2>1. DOMAIN dir' = Clusters
    BY <1>3, Zenon
  <2>2. dir'[c] = Blank
    BY <1>3, <1>6, Zenon
  <2>3. DOMAIN Blank = 1 .. Slots /\ \A j \in 1 .. Slots : Blank[j] = EndEntry
    BY Zenon DEF Blank
  <2>4. dir'[r] = [j \in 1 .. Slots |-> IF j \in free THEN e ELSE dir[r][j]]
    BY <1>3, <1>5, <1>8, Zenon
  <2>5. \A b \in Clusters : b # c /\ b # r => dir'[b] = dir[b]
    BY <1>3, Zenon
  <2>6. /\ DOMAIN dir'[r] = 1 .. Slots
        /\ \A j \in 1 .. Slots : dir'[r][j] = IF j \in free THEN e ELSE dir[r][j]
    BY <2>4, Zenon
  <2>7. \A b \in Clusters : DOMAIN dir[b] = 1 .. Slots
    BY <1>4, Zenon DEF FatTypes
  <2> QED BY <1>9, <2>1, <2>2, <2>3, <2>5, <2>6, <2>7, Zenon
<1>11. IsEntry(e) /\ e.kind = "dir" /\ e.cluster = c /\ e.size = 0
  BY <1>2, <1>6 DEF EntryFields, MaybeCluster, IsEntry
<1>12. IsEntry(EndEntry) /\ EndEntry.kind = "end"
  BY BlankEntries
<1>13. FatTypes'
  <2>1. ASSUME NEW b \in Clusters, NEW j \in 1 .. Slots PROVE IsEntry(dir'[b][j])
    <3>1. IsEntry(dir[b][j])
      BY <1>4, Zenon DEF FatTypes, IsEntry
    <3> QED BY <1>10, <1>11, <1>12, <3>1, Zenon
  <2>2. DOMAIN data' = Clusters
    BY <1>3, <1>4, Zenon DEF FatTypes
  <2> QED BY <1>3, <1>4, <1>10, <2>1, <2>2, Zenon DEF FatTypes, IsEntry
<1>14. DirectoryEntries'
  <2>1. ASSUME NEW b \in Clusters, NEW j \in 1 .. Slots, dir'[b][j].kind = "dir"
        PROVE  b = root_cluster /\ dir'[b][j].cluster \in Clusters /\ dir'[b][j].size = 0
    <3>1. b # c
      BY <1>10, <1>12, <2>1, Zenon
    <3>2. CASE b = r /\ j = i
      BY <1>6, <1>10, <1>11, <3>2, Zenon DEF r
    <3>3. CASE ~(b = r /\ j = i)
      BY <1>4, <1>10, <2>1, <3>1, <3>3 DEF DirectoryEntries
    <3> QED BY <3>2, <3>3
  <2> QED BY <2>1, Zenon DEF DirectoryEntries
<1>15. Directories \subseteq Directories'
  <2>1. ASSUME NEW j \in 1 .. Slots, dir[r][j].kind = "dir" PROVE dir'[r][j] = dir[r][j]
    <3>1. j # i
      BY <1>9, <2>1
    <3> QED BY <1>5, <1>8, <1>10, <3>1, Zenon
  <2> QED BY <2>1, DirectoriesKept DEF r
<1>16. ASSUME NEW h \in Handles, handle[h] # NoHandle
       PROVE  /\ handle[h].dir \in Clusters /\ handle[h].slot \in 1 .. Slots
              /\ handle[h].dir \in Directories /\ handle[h].dir # c
              /\ ~(handle[h].dir = r /\ handle[h].slot = i)
  <2>1. handle[h].dir \in Clusters /\ handle[h].slot \in 1 .. Slots
    BY <1>4, <1>16 DEF FatTypes, OpenHandle
  <2>2. HandleSound(h)
    BY <1>4, <1>16, Zenon DEF HandlesSound
  <2>3. handle[h].dir \in Directories /\ dir[handle[h].dir][handle[h].slot].kind = "file"
    BY <2>2, Zenon DEF HandleSound
  <2>4. i # 0 => dir[r][i].kind # "file"
    BY <1>9
  <2>5. handle[h].slot # 0
    BY ONLY <2>1
  <2> QED BY <1>8, <2>1, <2>3, <2>4, <2>5, Zenon
<1>17. HandlesSound'
  <2>1. ASSUME NEW h \in Handles, handle[h] # NoHandle
        PROVE  /\ dir'[handle[h].dir][handle[h].slot] = dir[handle[h].dir][handle[h].slot]
               /\ handle[h].dir \in Directories'
    BY <1>10, <1>15, <1>16, <2>1, Zenon
  <2> QED BY <1>3, <1>4, <2>1, HandlesSame, Zenon
<1>18. PICK Come : Come = {c}
  BY Zenon
<1>26. PICK Gone : Gone = {}
  BY Zenon
<1>19. ASSUME NEW b \in Clusters, Leads(r, i, b)' PROVE b \in Come
  <2>1. i \in 1 .. Slots
    BY <1>19, Zenon DEF Leads
  <2>2. dir'[r][i].cluster = c
    BY <1>10, <1>11, <2>1, Zenon
  <2>3. \A h \in Handles : ~IsOn(h, r, i)
    BY <1>4, <1>5, <1>16, <2>1, NoHandleFacts, Zenon DEF IsOn
  <2>4. \A h \in Handles : ~IsOn(h, r, i)'
    BY <1>3, <2>3, Zenon DEF IsOn
  <2>5. dir'[r][i].cluster = b
    BY <1>19, <2>4, Zenon DEF Leads
  <2> QED BY <1>18, <2>2, <2>5
<1>20. LinksSound(fat', (Heads \ Gone) \cup Come) /\ Come \cap (Heads \ Gone) = {}
  <2>1. (Heads \ Gone) \cup Come = Heads \cup {c}
    BY <1>18, <1>26
  <2> QED BY <1>7, <1>18, <1>26, <2>1
<1>21. ASSUME NEW b \in Heads \ Gone
       PROVE  /\ ReadChain(fat', b) = ReadChain(fat, b)
              /\ \A x \in InChain(fat, b) : SameData(x)
  <2>1. b \in Heads /\ b # 0 /\ 0 \in Heads \cup {0} /\ b \in Heads \cup {0}
    BY NoCluster DEF Heads
  <2>2. ReadChain(fat', b) = ReadChain(fat, b)
    BY <1>4, <1>7, <2>1, Elsewhere
  <2>3. InChain(fat, b) \subseteq Clusters /\ \A x \in InChain(fat, b) : fat[x] # FAT_FREE
    BY <1>4, <2>1, InChainFacts
  <2>4. fat[c] = FAT_FREE
    BY <1>6 DEF Free
  <2>5. DOMAIN data = Clusters
    BY <1>4, Zenon DEF FatTypes
  <2>6. \A x \in Clusters : x # c => data'[x] = data[x]
    BY <1>3, <2>5, Zenon
  <2> QED BY <2>2, <2>3, <2>4, <2>6, Zenon DEF SameData
<1>22. \A g \in Handles : handle'[g] # NoHandle /\ ~IsOn(g, r, i)' => handle'[g] = handle[g]
  BY <1>3, Zenon
<1>23. ASSUME NEW b \in Clusters, NEW j \in 1 .. Slots, ~(b = r /\ j = i), dir'[b][j].kind \in InUseKinds
       PROVE  dir'[b][j] = dir[b][j] /\ content'[b][j] = content[b][j]
  <2>1. b # c
    BY <1>10, <1>12, <1>23 DEF InUseKinds
  <2> QED BY <1>3, <1>10, <1>23, <2>1, Zenon
<1>24. r \in Clusters /\ i \in 1 .. Slots => dir'[r][i].kind # "file"
  BY <1>10, <1>11
<1>25. \A b \in Gone : Leads(r, i, b)
  BY <1>26
<1> QED BY <1>13, <1>14, <1>17, <1>19, <1>20, <1>21, <1>22, <1>23, <1>24, <1>25, OneEntryStep, Zenon
=============================================================================
