-------------------------- MODULE OwnershipProofs ---------------------------
(***************************************************************************)
(* Who has what, for any number of threads.                                *)
(*                                                                         *)
(* The frame allocator for every number of pages and every set of callers, *)
(* and loading and unloading over it for any number of modules and names:  *)
(* the loader keeps to the allocator's contract, the pages of a module are *)
(* its own, and the three look-ups of an unload, with the lock released in *)
(* between, lead to one module.                                            *)
(*                                                                         *)
(* The priority queue: which message a receiver takes, and that a permit   *)
(* or a call on its way stands for every message.                          *)
(***************************************************************************)
EXTENDS ModuleLoader, MessageQueue, FiniteSetTheorems, WellFoundedInduction, TLAPS

-----------------------------------------------------------------------------
(* The frame allocator *)

\* The inductive invariant.
FrameInv == FrameTypeOK /\ FramesHeldOnce /\ CountIsExact

-----------------------------------------------------------------------------
\* A set of natural numbers that is not empty has a least element.
LEMMA LeastNatural ==
  ASSUME NEW T \in SUBSET Nat, T # {}
  PROVE  \E x \in T : \A y \in T : x <= y
<1> DEFINE Less == OpToRel(<, Nat)
<1>1. IsWellFoundedOn(Less, Nat)
  BY NatLessThanWellFounded, Zenon
<1>2. \A a, b \in Nat : a < b => <<a, b>> \in Less
  BY DEF OpToRel
<1> HIDE DEF Less
<1>3. PICK x \in T : \A y \in T : ~ (<<y, x>> \in Less)
  BY <1>1, WFMin, Zenon
<1>4. \A y \in T : x <= y
  <2> TAKE y \in T
  <2>1. x \in Nat /\ y \in Nat
    OBVIOUS
  <2>2. ~ (y < x)
    BY <1>2, <1>3, <2>1, Zenon
  <2> QED BY <2>1, <2>2
<1> QED BY <1>4

\* A run of num pages has num pages.
LEMMA RunSize ==
  ASSUME NEW first \in Int, NEW num \in Nat
  PROVE  IsFiniteSet(Run(first, num)) /\ Cardinality(Run(first, num)) = num
BY FS_Interval DEF Run

\* The bitmap needs at least one page and fits into the managed area.
LEMMA BitmapFits == bitmap_pages \in 1 .. total_pages
BY FramesAssumption DEF bitmap_pages

\* The loop of alloc_pages() only looks at pages of the area.
LEMMA ExaminedPage ==
  ASSUME FrameTypeOK, NEW k \in Pages
  PROVE  Examined(k) \in Pages
BY FramesAssumption DEF FrameTypeOK, Examined, Start, Pages

\* What alloc_pages() finds is a run of free pages inside the area.
LEMMA FoundIsFree ==
  ASSUME FrameTypeOK, NEW num \in 1 .. total_pages, NEW first \in Found(num)
  PROVE  /\ first \in Pages /\ first + num <= total_pages
         /\ Run(first, num) \subseteq Pages
         /\ Run(first, num) \cap used = {}
<1>1. PICK k \in Pages : Fits(k, num) /\ first = Examined(k) - num + 1
  BY DEF Found
<1>2. Examined(k) \in Pages
  BY ExaminedPage
<1>3. first \in Pages /\ first + num <= total_pages
  BY <1>1, <1>2, FramesAssumption DEF Fits, Pages
<1>4. Run(first, num) \subseteq Pages
  BY <1>3, FramesAssumption DEF Run, Pages
<1>5. ASSUME NEW x \in Run(first, num) PROVE x \notin used
  <2>1. Examined(k) - x \in 0 .. num - 1
    BY <1>1, <1>2 DEF Run, Pages
  <2>2. Examined(k) - (Examined(k) - x) \notin used
    BY <1>1, <2>1 DEF Fits
  <2>3. Examined(k) - (Examined(k) - x) = x
    BY <1>2 DEF Run, Pages
  <2> QED BY <2>2, <2>3
<1> QED BY <1>3, <1>4, <1>5

\* Sets of pages are finite and no larger than the area.
LEMMA PageSets ==
  ASSUME NEW S, S \subseteq Pages
  PROVE  IsFiniteSet(S) /\ Cardinality(S) \in Nat /\ Cardinality(S) <= total_pages
<1>1. IsFiniteSet(Pages) /\ Cardinality(Pages) = total_pages
  BY FramesAssumption, FS_Interval DEF Pages
<1> QED BY <1>1, FS_Subset, FS_CardinalityType

-----------------------------------------------------------------------------
LEMMA FrameInitInv == FrameInit => FrameInv
<1> SUFFICES ASSUME FrameInit PROVE FrameInv
  OBVIOUS
<1>1. bitmap_pages \in 1 .. total_pages
  BY BitmapFits
<1>2. FrameTypeOK
  BY <1>1, FramesAssumption DEF FrameInit, FrameTypeOK, Run, Pages
<1>3. FramesHeldOnce
  BY DEF FrameInit, FramesHeldOnce
<1>4. CountIsExact
  BY <1>1, RunSize DEF FrameInit, CountIsExact
<1> QED BY <1>2, <1>3, <1>4 DEF FrameInv

\* A successful allocation takes free frames, so it disturbs nobody's.
LEMMA AllocInv ==
  ASSUME FrameInv, NEW c \in Callers, NEW num \in 1 .. total_pages, AllocPages(c, num)
  PROVE  FrameInv'
<1>0. FrameTypeOK /\ FramesHeldOnce /\ CountIsExact
  BY DEF FrameInv
<1>1. PICK first \in Found(num) :
        /\ used' = used \cup Run(first, num)
        /\ allocated_count' = allocated_count + num
        /\ next_search' = first + num
        /\ held' = [held EXCEPT ![c] = @ \cup Run(first, num)]
  BY Zenon DEF AllocPages
<1> DEFINE new == Run(first, num)
<1>2. /\ first \in Pages /\ first + num <= total_pages
      /\ new \subseteq Pages /\ new \cap used = {}
  BY <1>0, FoundIsFree
<1>3. IsFiniteSet(new) /\ Cardinality(new) = num
  BY <1>2, FramesAssumption, RunSize DEF Pages
<1> HIDE DEF new
<1>4. CountIsExact'
  <2>1. IsFiniteSet(used) /\ Cardinality(used) \in Nat
    BY <1>0, PageSets DEF FrameTypeOK
  <2>2. Cardinality(used') = Cardinality(used) + num - Cardinality(used \cap new)
    BY <1>1, <1>3, <2>1, FS_Union DEF new
  <2>3. Cardinality(used \cap new) = 0
    BY <1>2, FS_EmptySet
  <2> QED BY <1>0, <1>1, <2>1, <2>2, <2>3 DEF CountIsExact
<1>5. used' \subseteq Pages
  BY <1>0, <1>1, <1>2 DEF FrameTypeOK, new
<1>6. FrameTypeOK'
  <2>1. allocated_count' \in 0 .. total_pages
    BY <1>4, <1>5, PageSets DEF CountIsExact
  <2>2. next_search' \in 0 .. total_pages
    BY <1>1, <1>2, FramesAssumption DEF Pages
  <2>3. held' \in [Callers -> SUBSET Pages]
    BY <1>0, <1>1, <1>2 DEF FrameTypeOK, new
  <2> QED BY <1>5, <2>1, <2>2, <2>3 DEF FrameTypeOK
<1>7. FramesHeldOnce'
  <2>1. \A d \in Callers : held'[d] = IF d = c THEN held[d] \cup new ELSE held[d]
    BY <1>0, <1>1, Zenon DEF FrameTypeOK, new
  <2>2. \A d \in Callers : held[d] \subseteq used
    BY <1>0 DEF FramesHeldOnce
  <2>3. Run(0, bitmap_pages) \subseteq used
    BY <1>0 DEF FramesHeldOnce
  <2>4. \A d, e \in Callers : d # e => held'[d] \cap held'[e] = {}
    BY <1>0, <1>2, <2>1, <2>2, Zenon DEF FramesHeldOnce
  <2>5. \A d \in Callers : held'[d] \cap Run(0, bitmap_pages) = {}
    BY <1>0, <1>2, <2>1, <2>3, Zenon DEF FramesHeldOnce
  <2>6. UNION {held'[d] : d \in Callers} = new \cup UNION {held[d] : d \in Callers}
    BY <2>1, Zenon
  <2>7. used' = Run(0, bitmap_pages) \cup UNION {held'[d] : d \in Callers}
    BY <1>0, <1>1, <2>6 DEF FramesHeldOnce, new
  <2> QED BY <2>4, <2>5, <2>7 DEF FramesHeldOnce
<1> QED BY <1>4, <1>6, <1>7 DEF FrameInv

\* Freeing frames one holds gives back exactly those.
LEMMA FreeInv ==
  ASSUME FrameInv, NEW c \in Callers, NEW first \in Pages, NEW num \in 1 .. total_pages,
         FreePages(c, first, num)
  PROVE  FrameInv'
<1>0. FrameTypeOK /\ FramesHeldOnce /\ CountIsExact
  BY DEF FrameInv
<1> DEFINE old == Run(first, num)
<1>1. /\ old \subseteq held[c]
      /\ used' = used \ old
      /\ allocated_count' = Minus(allocated_count, num)
      /\ next_search' = IF first < next_search THEN first ELSE next_search
      /\ held' = [held EXCEPT ![c] = @ \ old]
  BY DEF FreePages
<1>2. IsFiniteSet(old) /\ Cardinality(old) = num
  BY FramesAssumption, RunSize DEF Pages
<1> HIDE DEF old
<1>3. old \subseteq used
  BY <1>0, <1>1 DEF FramesHeldOnce
<1>4. used' \subseteq Pages
  BY <1>0, <1>1 DEF FrameTypeOK
<1>5. CountIsExact'
  <2>1. IsFiniteSet(used') /\ Cardinality(used') \in Nat
    BY <1>4, PageSets
  <2>2. used = used' \cup old /\ used' \cap old = {}
    BY <1>1, <1>3
  <2> DEFINE rest == used'
  <2> HIDE DEF rest
  <2>3. Cardinality(rest \cup old)
          = Cardinality(rest) + Cardinality(old) - Cardinality(rest \cap old)
    BY <1>2, <2>1, FS_Union DEF rest
  <2>4. Cardinality(rest \cap old) = 0
    BY <2>2, FS_EmptySet DEF rest
  <2>5. Cardinality(used) = Cardinality(used') + num
    BY <1>2, <2>1, <2>2, <2>3, <2>4 DEF rest
  <2> QED BY <1>0, <1>1, <2>1, <2>5, FramesAssumption DEF CountIsExact, Minus
<1>6. FrameTypeOK'
  <2>1. allocated_count' \in 0 .. total_pages
    BY <1>4, <1>5, PageSets DEF CountIsExact
  <2>2. next_search' \in 0 .. total_pages
    BY <1>0, <1>1, FramesAssumption DEF Pages, FrameTypeOK
  <2>3. held' \in [Callers -> SUBSET Pages]
    BY <1>0, <1>1, Zenon DEF FrameTypeOK
  <2> QED BY <1>4, <2>1, <2>2, <2>3 DEF FrameTypeOK
<1>7. FramesHeldOnce'
  <2>1. \A d \in Callers : held'[d] = IF d = c THEN held[d] \ old ELSE held[d]
    BY <1>0, <1>1, Zenon DEF FrameTypeOK
  <2>2. \A d \in Callers : held'[d] = held[d] \ old
    BY <1>0, <1>1, <2>1 DEF FramesHeldOnce
  <2>3. \A d, e \in Callers : d # e => held'[d] \cap held'[e] = {}
    BY <1>0, <2>2 DEF FramesHeldOnce
  <2>4. \A d \in Callers : held'[d] \cap Run(0, bitmap_pages) = {}
    BY <1>0, <2>2 DEF FramesHeldOnce
  <2>5. UNION {held'[d] : d \in Callers} = (UNION {held[d] : d \in Callers}) \ old
    BY <2>2
  <2>6. Run(0, bitmap_pages) \cap old = {}
    BY <1>0, <1>1 DEF FramesHeldOnce
  <2>7. used' = Run(0, bitmap_pages) \cup UNION {held'[d] : d \in Callers}
    BY <1>0, <1>1, <2>5, <2>6 DEF FramesHeldOnce
  <2> QED BY <2>3, <2>4, <2>7, Zenon DEF FramesHeldOnce
<1> QED BY <1>5, <1>6, <1>7 DEF FrameInv

LEMMA FrameNextInv == FrameInv /\ [FrameNext]_frameVars => FrameInv'
<1> SUFFICES ASSUME FrameInv, [FrameNext]_frameVars PROVE FrameInv'
  OBVIOUS
<1>1. ASSUME NEW c \in Callers, NEW num \in 1 .. total_pages, AllocPages(c, num)
      PROVE  FrameInv'
  BY <1>1, AllocInv
<1>2. ASSUME NEW c \in Callers, NEW num \in 1 .. total_pages, NEW first \in Pages,
             FreePages(c, first, num)
      PROVE  FrameInv'
  BY <1>2, FreeInv
<1>3. ASSUME UNCHANGED frameVars PROVE FrameInv'
  BY <1>3 DEF frameVars, FrameInv, FrameTypeOK, FramesHeldOnce, CountIsExact
<1> QED BY <1>1, <1>2, <1>3 DEF FrameNext, FrameStep, AllocFails

-----------------------------------------------------------------------------
\* The counter of stats() is exact, no frame is given out twice and none leaks.
THEOREM FramesAreSafe == FrameSpec => [](FramesHeldOnce /\ CountIsExact)
<1>1. FrameInv => FramesHeldOnce /\ CountIsExact
  BY DEF FrameInv
<1> QED BY FrameInitInv, FrameNextInv, <1>1, PTL DEF FrameSpec

\* alloc() of one frame fails only when every frame is in use: the search
\* reaches every page whatever next_search is.
THEOREM SingleFramesAreFound == FrameSpec => []SingleFrameFound
<1>1. FrameInv => SingleFrameFound
  <2> SUFFICES ASSUME FrameInv, NEW x \in Pages, x \notin used PROVE Found(1) # {}
    BY DEF SingleFrameFound, FrameInv, FrameTypeOK
  <2>1. FrameTypeOK
    BY DEF FrameInv
  <2>2. PICK k \in Pages : Examined(k) = x
    <3>1. Start \in Pages
      BY <2>1, FramesAssumption DEF Start, FrameTypeOK, Pages
    <3>2. CASE x >= Start
      <4>1. x - Start \in Pages /\ Examined(x - Start) = x
        BY <3>1, <3>2, FramesAssumption DEF Examined, Pages
      <4> QED BY <4>1
    <3>3. CASE x < Start
      <4>1. x - Start + total_pages \in Pages /\ Examined(x - Start + total_pages) = x
        BY <3>1, <3>3, FramesAssumption DEF Examined, Pages
      <4> QED BY <4>1
    <3> QED BY <3>1, <3>2, <3>3, FramesAssumption DEF Pages
  <2>3. Fits(k, 1)
    BY <2>2, FramesAssumption DEF Fits, Pages
  <2> DEFINE T == {j \in Pages : Fits(j, 1)}
  <2>4. PICK m \in T : \A y \in T : m <= y
    <3>1. T \in SUBSET Nat /\ T # {}
      BY <2>2, <2>3, FramesAssumption DEF Pages
    <3> HIDE DEF T
    <3> QED BY <3>1, LeastNatural
  <2>5. \A i \in 0 .. m - 1 : ~Fits(i, 1)
    BY <2>4, FramesAssumption DEF Pages
  <2>6. Examined(m) - 1 + 1 \in Found(1)
    BY <2>4, <2>5 DEF Found
  <2> QED BY <2>6
<1> QED BY FrameInitInv, FrameNextInv, <1>1, PTL DEF FrameSpec

-----------------------------------------------------------------------------
(* Unloading *)

LoadLabels == {"alloc", "builtin", "fill", "init", "publish"}
UnloadLabels == {"check", "wait", "timeout", "write", "free"}
Labels == LoadLabels \cup UnloadLabels \cup {"idle", "undo", "acquire", "drop"}

\* The types of what the argument is about.
LoaderType ==
  /\ list \in Seq(Modules) /\ loads \in 0 .. MaxModules
  /\ name \in [Modules -> Names \cup {Builtin, None}]
  /\ unloading \in [Modules -> BOOLEAN]
  /\ pc \in [Threads -> Labels]
  /\ mod \in [Threads -> Modules \cup {None}]
  /\ arg \in [Threads -> Names \cup {None}]

\* What is listed, or is being loaded, was started: its name is not given again.
Started ==
  /\ \A i \in 1 .. Len(list) : list[i] \in 1 .. loads
  /\ \A p \in Threads : pc[p] \in LoadLabels => mod[p] \in 1 .. loads

\* No two unloads work on one module.
Exclusive ==
  \A p, q \in Threads :
    p # q /\ pc[p] \in UnloadLabels /\ pc[q] \in UnloadLabels => mod[p] # mod[q]

\* The inductive invariant.
LoaderInv == LoaderType /\ Started /\ Exclusive /\ UnloadsWhatItFlagged

\* A name leads to one module of the list at most.
LEMMA FindOne ==
  ASSUME LoaderType, NEW n, NEW m \in Find(n)
  PROVE  /\ m \in Modules /\ name[m] = n
         /\ \A k \in Find(n) : k = m
<1>1. PICK i \in 1 .. Len(list) :
        list[i] = m /\ name[m] = n /\ \A k \in 1 .. i - 1 : name[list[k]] # n
  BY DEF Find
<1>2. ASSUME NEW k \in Find(n)
      PROVE  k = m
  <2>1. PICK j \in 1 .. Len(list) :
          list[j] = k /\ name[k] = n /\ \A l \in 1 .. j - 1 : name[list[l]] # n
    BY DEF Find
  <2>2. Len(list) \in Nat
    BY DEF LoaderType
  <2>3. i = j
    BY <1>1, <2>1, <2>2
  <2> QED BY <1>1, <2>1, <2>3, Zenon
<1> QED BY <1>1, <1>2 DEF LoaderType

\* What a name leads to stays when a load gets its name or is listed.
LEMMA FindKeptByLoad ==
  ASSUME LoaderType, Started, NEW n, NEW m \in Find(n),
         \A k \in 1 .. loads : name'[k] = name[k],
         list' = list \/ \E k \in Modules : list' = Append(list, k)
  PROVE  m \in Find(n)'
<1>1. PICK i \in 1 .. Len(list) :
        list[i] = m /\ name[m] = n /\ \A k \in 1 .. i - 1 : name[list[k]] # n
  BY DEF Find
<1>2. Len(list) \in Nat /\ \A j \in 1 .. Len(list) : name'[list[j]] = name[list[j]]
  BY DEF LoaderType, Started
<1>3. Len(list') \in Nat /\ Len(list') >= Len(list)
      /\ \A j \in 1 .. Len(list) : list'[j] = list[j]
  BY DEF LoaderType
<1>4. /\ i \in 1 .. Len(list') /\ list'[i] = m /\ name'[list'[i]] = n
      /\ \A k \in 1 .. i - 1 : name'[list'[k]] # n
  BY <1>1, <1>2, <1>3
<1> QED BY <1>4 DEF Find

\* ... and when another module is removed.
LEMMA FindKeptByRemoval ==
  ASSUME LoaderType, NEW n, NEW m \in Find(n), name' = name,
         NEW idx \in 1 .. Len(list), list[idx] # m, list' = Without(idx)
  PROVE  m \in Find(n)'
<1>1. PICK i \in 1 .. Len(list) :
        list[i] = m /\ name[m] = n /\ \A k \in 1 .. i - 1 : name[list[k]] # n
  BY DEF Find
<1>2. /\ Len(list) \in Nat /\ Len(list') = Len(list) - 1
      /\ \A j \in 1 .. Len(list) - 1 :
           list'[j] = IF j < idx THEN list[j] ELSE list[j + 1]
  BY DEF LoaderType, Without
<1>3. i # idx
  BY <1>1, Zenon
<1>4. CASE i < idx
  <2>1. /\ i \in 1 .. Len(list') /\ list'[i] = m /\ name'[list'[i]] = n
        /\ \A k \in 1 .. i - 1 : name'[list'[k]] # n
    BY <1>1, <1>2, <1>4
  <2> QED BY <2>1, Zenon DEF Find
<1>5. CASE i > idx
  <2>1. i - 1 \in 1 .. Len(list') /\ list'[i - 1] = m /\ name'[list'[i - 1]] = n
    BY <1>1, <1>2, <1>5
  <2>2. ASSUME NEW k \in 1 .. (i - 1) - 1
        PROVE  name'[list'[k]] # n
    <3>1. k \in 1 .. i - 1 /\ k + 1 \in 1 .. i - 1 /\ k \in 1 .. Len(list) - 1
      BY <1>1, <1>2, <1>5
    <3>2. list'[k] = list[k] \/ list'[k] = list[k + 1]
      BY <1>2, <3>1, Zenon
    <3> QED BY <1>1, <3>1, <3>2, Zenon
  <2> QED BY <2>1, <2>2, Zenon DEF Find
<1> QED BY <1>3, <1>4, <1>5

\* A step of p that leaves it outside of an unload, and leaves the others alone,
\* keeps the part of the invariant that is about unloads.
LEMMA Leaves ==
  ASSUME LoaderInv, NEW p \in Threads, pc' \in [Threads -> Labels], pc'[p] \notin UnloadLabels,
         \A q \in Threads \ {p} : pc'[q] = pc[q] /\ mod'[q] = mod[q] /\ arg'[q] = arg[q],
         \A q \in Threads \ {p} : pc[q] \in UnloadLabels =>
           unloading'[mod[q]] /\ \A n, m : n = arg[q] /\ m = mod[q] => m \in Find(n)'
  PROVE  Exclusive' /\ UnloadsWhatItFlagged'
<1>1. Exclusive'
  BY DEF LoaderInv, Exclusive
<1>2. ASSUME NEW q \in Threads, pc'[q] \in UnloadLabels
      PROVE  unloading'[mod'[q]] /\ mod'[q] \in Find(arg[q])'
  BY <1>2
<1> QED BY <1>1, <1>2 DEF UnloadsWhatItFlagged, UnloadLabels

\* A step of p concerns its own call.
LEMMA OwnCall ==
  ASSUME LoaderType, NEW p \in Threads, Step(p)
  PROVE  /\ pc' \in [Threads -> Labels]
         /\ mod' \in [Threads -> Modules \cup {None}]
         /\ arg' \in [Threads -> Names \cup {None}]
         /\ \A q \in Threads \ {p} : pc'[q] = pc[q] /\ mod'[q] = mod[q] /\ arg'[q] = arg[q]
<1>0. \A n : \A m \in Find(n) : m \in Modules
  BY DEF Find, LoaderType
<1>a. loads < MaxModules => loads + 1 \in Modules
  BY LoadsAssumption DEF LoaderType, Modules
<1> USE DEF LoaderType, Labels, LoadLabels, UnloadLabels, Goto, Done
<1>1. CASE LoadObject(p)
  BY <1>1, <1>a, Zenon DEF LoadObject
<1>2. CASE LoadTestModule(p)
  BY <1>2, <1>a, Zenon DEF LoadTestModule
<1>3. CASE LoadAlloc(p)
  BY <1>3 DEF LoadAlloc
<1>4. CASE LoadAllocFails(p)
  BY <1>4, Zenon DEF LoadAllocFails
<1>5. CASE LoadFill(p)
  BY <1>5 DEF LoadFill
<1>6. CASE LoadInit(p)
  BY <1>6, Zenon DEF LoadInit
<1>7. CASE LoadPublish(p)
  BY <1>7, Zenon DEF LoadPublish
<1>8. CASE LoadUndo(p)
  BY <1>8 DEF LoadUndo
<1>9. CASE Acquire(p)
  BY <1>9, <1>0 DEF Acquire
<1>10. CASE AcquireCount(p)
  BY <1>10, Zenon DEF AcquireCount
<1>11. CASE DropRef(p)
  BY <1>11, <1>0 DEF DropRef
<1>12. CASE DropCount(p)
  BY <1>12, Zenon DEF DropCount
<1>13. CASE UnloadFlag(p)
  BY <1>13, <1>0 DEF UnloadFlag
<1>14. CASE UnloadUnused(p)
  BY <1>14, Zenon DEF UnloadUnused
<1>15. CASE UnloadInUse(p)
  BY <1>15, Zenon DEF UnloadInUse
<1>16. CASE UnloadTimeout(p)
  BY <1>16, Zenon DEF UnloadTimeout
<1>17. CASE UnloadGiveUp(p)
  BY <1>17 DEF UnloadGiveUp
<1>18. CASE UnloadNotFound(p)
  BY <1>18, Zenon DEF UnloadNotFound
<1>19. CASE UnloadExit(p)
  BY <1>19, <1>0, Zenon DEF UnloadExit
<1>20. CASE UnloadFree(p)
  BY <1>20, Zenon DEF UnloadFree
<1>21. CASE UnloadRemove(p)
  BY <1>21 DEF UnloadRemove
<1> QED BY <1>1, <1>2, <1>3, <1>4, <1>5, <1>6, <1>7, <1>8, <1>9, <1>10, <1>11,
           <1>12, <1>13, <1>14, <1>15, <1>16, <1>17, <1>18, <1>19, <1>20, <1>21, Zenon DEF Step

\* Every step keeps the types, and what is listed or being loaded was started.
LEMMA TypeStep ==
  ASSUME LoaderInv, NEW p \in Threads, Step(p)
  PROVE  LoaderType' /\ Started'
<1> USE DEF LoaderInv, LoaderType, Started
<1>a. ASSUME list' = list, loads' = loads, name' = name,
             unloading' \in [Modules -> BOOLEAN],
             pc'[p] \in LoadLabels => pc[p] \in LoadLabels /\ mod'[p] = mod[p]
      PROVE  LoaderType' /\ Started'
  BY <1>a, OwnCall, Zenon
<1>b. ASSUME list' = list, loads' = loads + 1, loads < MaxModules,
             mod'[p] = loads + 1,
             \E n \in Names \cup {Builtin} : name' = [name EXCEPT ![loads + 1] = n],
             unloading' = unloading
      PROVE  LoaderType' /\ Started'
  <2>0. PICK n \in Names \cup {Builtin} : name' = [name EXCEPT ![loads + 1] = n]
    BY <1>b, Zenon
  <2>1. name' \in [Modules -> Names \cup {Builtin, None}]
    BY <2>0, Zenon
  <2>4. loads' \in 0 .. MaxModules
    BY <1>b, LoadsAssumption
  <2>2. \A i \in 1 .. Len(list) : list'[i] \in 1 .. loads'
    BY <1>b
  <2>3. \A q \in Threads : pc'[q] \in LoadLabels => mod'[q] \in 1 .. loads'
    BY <1>b, OwnCall
  <2> QED BY <1>b, <2>1, <2>2, <2>3, <2>4, OwnCall, Zenon
<1> USE DEF LoadLabels, Goto, Done
<1>1. CASE LoadObject(p)
  BY <1>1, <1>b, Zenon DEF LoadObject
<1>2. CASE LoadTestModule(p)
  BY <1>2, <1>b, Zenon DEF LoadTestModule
<1>3. CASE LoadAlloc(p)
  BY <1>3, <1>a, Zenon DEF LoadAlloc
<1>4. CASE LoadAllocFails(p)
  BY <1>4, <1>a, Zenon DEF LoadAllocFails
<1>5. CASE LoadFill(p)
  BY <1>5, <1>a DEF LoadFill
<1>6. CASE LoadInit(p)
  BY <1>6, <1>a DEF LoadInit
<1>7. CASE LoadPublish(p)
  <2>1. mod[p] \in 1 .. loads /\ mod[p] \in Modules
    BY <1>7, LoadsAssumption DEF LoadPublish, Modules
  <2>2. /\ list' = Append(list, mod[p]) /\ loads' = loads /\ name' = name
        /\ unloading' = unloading /\ pc'[p] = "idle"
    BY <1>7, Zenon DEF LoadPublish
  <2>3. list' \in Seq(Modules) /\ \A i \in 1 .. Len(list') : list'[i] \in 1 .. loads
    BY <2>1, <2>2
  <2> QED BY <2>2, <2>3, OwnCall, Zenon
<1>8. CASE LoadUndo(p)
  BY <1>8, <1>a, Zenon DEF LoadUndo
<1>9. CASE Acquire(p)
  BY <1>9, <1>a, Zenon DEF Acquire
<1>10. CASE AcquireCount(p)
  BY <1>10, <1>a, Zenon DEF AcquireCount
<1>11. CASE DropRef(p)
  BY <1>11, <1>a, Zenon DEF DropRef
<1>12. CASE DropCount(p)
  BY <1>12, <1>a DEF DropCount
<1>13. CASE UnloadFlag(p)
  BY <1>13, <1>a, Zenon DEF UnloadFlag
<1>14. CASE UnloadUnused(p)
  BY <1>14, <1>a DEF UnloadUnused
<1>15. CASE UnloadInUse(p)
  BY <1>15, <1>a, Zenon DEF UnloadInUse
<1>16. CASE UnloadTimeout(p)
  BY <1>16, <1>a, Zenon DEF UnloadTimeout
<1>17. CASE UnloadGiveUp(p)
  BY <1>17, <1>a, Zenon DEF UnloadGiveUp
<1>18. CASE UnloadNotFound(p)
  BY <1>18, <1>a, Zenon DEF UnloadNotFound
<1>19. CASE UnloadExit(p)
  BY <1>19, <1>a, Zenon DEF UnloadExit
<1>20. CASE UnloadFree(p)
  BY <1>20, <1>a, Zenon DEF UnloadFree
<1>21. CASE UnloadRemove(p)
  <2>1. PICK idx \in 1 .. Len(list) : list' = Without(idx)
    BY <1>21, Zenon DEF UnloadRemove
  <2>2. /\ loads' = loads /\ name' = name /\ unloading' = unloading /\ pc'[p] = "idle"
    BY <1>21, Zenon DEF UnloadRemove
  <2>3. /\ Len(list') = Len(list) - 1
        /\ list' \in Seq(Modules) /\ \A i \in 1 .. Len(list') : list'[i] \in 1 .. loads
    BY <2>1 DEF Without
  <2> QED BY <2>2, <2>3, OwnCall, Zenon
<1> QED BY <1>1, <1>2, <1>3, <1>4, <1>5, <1>6, <1>7, <1>8, <1>9, <1>10, <1>11,
           <1>12, <1>13, <1>14, <1>15, <1>16, <1>17, <1>18, <1>19, <1>20, <1>21, Zenon DEF Step

\* Every step keeps unloads apart and at their modules.
LEMMA UnloadStep ==
  ASSUME LoaderInv, NEW p \in Threads, Step(p)
  PROVE  Exclusive' /\ UnloadsWhatItFlagged'
<1>a. \A q \in Threads : pc[q] \in UnloadLabels =>
        unloading[mod[q]] /\ mod[q] \in Modules /\ mod[q] \in Find(arg[q])
  <2>1. \A q \in Threads : pc[q] \in UnloadLabels => unloading[mod[q]] /\ mod[q] \in Find(arg[q])
    BY Zenon DEF LoaderInv, UnloadsWhatItFlagged, UnloadLabels
  <2>2. \A n : \A m \in Find(n) : m \in Modules
    BY DEF LoaderInv, Find, LoaderType
  <2> QED BY <2>1, <2>2
<1>b. ASSUME \A k \in 1 .. loads : name'[k] = name[k],
             list' = list \/ \E k \in Modules : list' = Append(list, k),
             unloading' = unloading, pc'[p] \notin UnloadLabels
      PROVE  Exclusive' /\ UnloadsWhatItFlagged'
  <2>1. \A q \in Threads : pc[q] \in UnloadLabels =>
          \A n, m : n = arg[q] /\ m = mod[q] => m \in Find(n)'
    BY <1>a, <1>b, FindKeptByLoad DEF LoaderInv
  <2> QED BY <1>a, <1>b, <2>1, OwnCall, Leaves, Zenon DEF LoaderInv
<1>c. ASSUME list' = list, name' = name, unloading' = unloading, mod' = mod, arg' = arg,
             pc[p] \in UnloadLabels
      PROVE  Exclusive' /\ UnloadsWhatItFlagged'
  <2>1. \A q \in Threads : pc'[q] \in UnloadLabels => pc[q] \in UnloadLabels
    BY <1>c, OwnCall, Zenon DEF LoaderInv
  <2>2. \A q \in Threads : Find(arg[q])' = Find(arg[q])
    BY <1>c DEF Find
  <2>3. \A q \in Threads : pc'[q] \in UnloadLabels => unloading'[mod'[q]] /\ mod'[q] \in Find(arg[q])'
    BY <1>a, <1>c, <2>1, <2>2, Zenon
  <2> QED BY <1>c, <2>1, <2>3, Zenon DEF LoaderInv, Exclusive, UnloadsWhatItFlagged, UnloadLabels
<1>d. ASSUME pc[p] \in UnloadLabels, list' = list, name' = name, pc'[p] = "idle",
             \A m \in Modules : m \notin Find(arg[p]) => unloading'[m] = unloading[m]
      PROVE  Exclusive' /\ UnloadsWhatItFlagged'
  <2>1. \A q \in Threads \ {p} : pc[q] \in UnloadLabels =>
          \A n, m : n = arg[q] /\ m = mod[q] => m \in Find(n)'
    BY <1>a, <1>d, FindKeptByLoad, SMTT(30) DEF LoaderInv
  <2>2. \A m \in Find(arg[p]) : m = mod[p]
    BY <1>a, <1>d, FindOne DEF LoaderInv
  <2>3. \A q \in Threads \ {p} : pc[q] \in UnloadLabels => unloading'[mod[q]]
    BY <1>a, <1>d, <2>2, Zenon DEF LoaderInv, Exclusive
  <2> QED BY <1>d, <2>1, <2>3, OwnCall, Leaves, SMTT(30) DEF LoaderInv, UnloadLabels
<1> USE DEF LoaderType, LoaderInv, UnloadLabels, Goto, Done
<1>1. CASE LoadObject(p)
  BY <1>1, <1>b DEF LoadObject
<1>2. CASE LoadTestModule(p)
  BY <1>2, <1>b DEF LoadTestModule
<1>3. CASE LoadAlloc(p)
  BY <1>3, <1>b, Zenon DEF LoadAlloc
<1>4. CASE LoadAllocFails(p)
  BY <1>4, <1>b DEF LoadAllocFails
<1>5. CASE LoadFill(p)
  BY <1>5, <1>b, Zenon DEF LoadFill
<1>6. CASE LoadInit(p)
  BY <1>6, <1>b, Zenon DEF LoadInit
<1>7. CASE LoadPublish(p)
  <2>1. mod[p] \in Modules
    BY <1>7, LoadsAssumption DEF LoadPublish, Started, LoadLabels, Modules
  <2> QED BY <1>7, <2>1, <1>b, Zenon DEF LoadPublish
<1>8. CASE LoadUndo(p)
  BY <1>8, <1>b, Zenon DEF LoadUndo
<1>9. CASE Acquire(p)
  BY <1>9, <1>b, Zenon DEF Acquire
<1>10. CASE AcquireCount(p)
  BY <1>10, <1>b, Zenon DEF AcquireCount
<1>11. CASE DropRef(p)
  BY <1>11, <1>b DEF DropRef
<1>12. CASE DropCount(p)
  BY <1>12, <1>b DEF DropCount
<1>13. CASE UnloadFlag(p)
  <2>1. PICK n \in Names, m \in Modules :
          /\ m \in Find(n)
          /\ ~unloading[m] /\ unloading' = [unloading EXCEPT ![m] = TRUE]
          /\ mod' = [mod EXCEPT ![p] = m] /\ arg' = [arg EXCEPT ![p] = n]
    BY <1>13, FindOne, Zenon DEF UnloadFlag
  <2>2. list' = list /\ name' = name /\ pc[p] = "idle"
    BY <1>13, Zenon DEF UnloadFlag
  <2>3. Find(n)' = Find(n) /\ \A q \in Threads : Find(arg[q])' = Find(arg'[q])
    BY <2>1, <2>2 DEF Find
  <2>4. \A q \in Threads \ {p} : pc[q] \in UnloadLabels => mod[q] # m
    BY <1>a, <2>1, Zenon
  <2>5. Exclusive'
    BY <2>1, <2>4, OwnCall DEF Exclusive
  <2>6. \A q \in Threads : pc'[q] \in UnloadLabels => unloading'[mod'[q]] /\ mod'[q] \in Find(arg[q])'
    BY <1>a, <2>1, <2>3, OwnCall
  <2> QED BY <2>5, <2>6, Zenon DEF UnloadsWhatItFlagged
<1>14. CASE UnloadUnused(p)
  BY <1>14, <1>c DEF UnloadUnused
<1>15. CASE UnloadInUse(p)
  BY <1>15, <1>d, Zenon DEF UnloadInUse
<1>16. CASE UnloadTimeout(p)
  BY <1>16, <1>c, Zenon DEF UnloadTimeout
<1>17. CASE UnloadGiveUp(p)
  BY <1>17, <1>d, Zenon DEF UnloadGiveUp
<1>18. CASE UnloadNotFound(p)
  BY <1>18, <1>d, Zenon DEF UnloadNotFound
<1>19. CASE UnloadExit(p)
  <2>1. PICK m \in Find(arg[p]) : mod' = [mod EXCEPT ![p] = m]
    BY <1>19, Zenon DEF UnloadExit
  <2>2. m = mod[p]
    BY <1>a, <1>19, <2>1, FindOne DEF UnloadExit
  <2> QED BY <1>19, <1>c, <2>1, <2>2 DEF UnloadExit
<1>20. CASE UnloadFree(p)
  BY <1>20, <1>c, Zenon DEF UnloadFree
<1>21. CASE UnloadRemove(p)
  <2>1. PICK idx \in 1 .. Len(list) : list[idx] = mod[p] /\ list' = Without(idx)
    BY <1>21 DEF UnloadRemove
  <2>2. name' = name /\ unloading' = unloading /\ pc[p] = "free" /\ pc'[p] = "idle"
    BY <1>21 DEF UnloadRemove
  <2>3. \A q \in Threads \ {p} : pc[q] \in UnloadLabels => mod[q] # list[idx]
    BY <2>1, <2>2 DEF Exclusive
  <2>4. \A q \in Threads \ {p} : pc[q] \in UnloadLabels =>
          \A n, m : n = arg[q] /\ m = mod[q] => m \in Find(n)'
    BY <1>a, <2>1, <2>2, <2>3, FindKeptByRemoval
  <2> QED BY <1>a, <2>2, <2>4, OwnCall, Leaves, SMTT(30)
<1> QED BY <1>1, <1>2, <1>3, <1>4, <1>5, <1>6, <1>7, <1>8, <1>9, <1>10, <1>11,
           <1>12, <1>13, <1>14, <1>15, <1>16, <1>17, <1>18, <1>19, <1>20, <1>21, Zenon DEF Step

LEMMA LoaderInitInv == Init => LoaderInv
<1> SUFFICES ASSUME Init PROVE LoaderInv
  OBVIOUS
<1>1. LoaderType
  BY LoadsAssumption DEF Init, LoaderType, Labels
<1>2. Started /\ Exclusive /\ UnloadsWhatItFlagged
  BY DEF Init, Started, Exclusive, UnloadsWhatItFlagged, LoadLabels, UnloadLabels
<1> QED BY <1>1, <1>2 DEF LoaderInv

LEMMA LoaderNextInv == LoaderInv /\ [Next]_<<loaderVars, frameVars>> => LoaderInv'
<1> SUFFICES ASSUME LoaderInv, [Next]_<<loaderVars, frameVars>> PROVE LoaderInv'
  OBVIOUS
<1>1. ASSUME NEW p \in Threads, Step(p)
      PROVE  LoaderInv'
  BY <1>1, TypeStep, UnloadStep, Zenon DEF LoaderInv
<1>2. CASE UNCHANGED loaderVars
  BY <1>2 DEF loaderVars, LoaderInv, LoaderType, Started, Exclusive, UnloadsWhatItFlagged, Find
<1> QED BY <1>1, <1>2 DEF Next, OtherFrames

\* Whatever loads, references and unloads of one name or of several are under
\* way, an unload ends with the module whose flag it raised: the flag keeps
\* others out, and the name goes on leading to that module.
THEOREM UnloadsEndWhereTheyBegan == Spec => []UnloadsWhatItFlagged
<1>1. LoaderInv => UnloadsWhatItFlagged
  BY DEF LoaderInv
<1> QED BY <1>1, LoaderInitInv, LoaderNextInv, PTL DEF Spec

-----------------------------------------------------------------------------
(* The pages of the modules *)

Loading == LoadLabels \cup {"undo"}

\* A load has its module to itself until it is listed, and pages to give back
\* when it has to.
LoadsOwn ==
  /\ \A p \in Threads : pc[p] \in Loading => mod[p] \in 1 .. loads /\ mod[p] \notin Listed
  /\ \A p, q \in Threads :
       p # q /\ pc[p] \in Loading /\ pc[q] \in Loading => mod[p] # mod[q]
  /\ \A p \in Threads : pc[p] \in {"fill", "init", "undo"} => pages[mod[p]] # <<>>

\* The pages of a module are what it holds in the allocator, each once.
PagesHeld ==
  /\ pages \in [Modules -> Seq(Pages)]
  /\ \A m \in Modules :
       /\ Pages_(m) = held[m]
       /\ \A i, j \in 1 .. Len(pages[m]) : pages[m][i] = pages[m][j] => i = j

\* The inductive invariant.
OwnInv == LoaderInv /\ FrameInv /\ LoadsOwn /\ PagesHeld

\* As many entries as there are different ones.
LEMMA NoRepeats ==
  ASSUME NEW T, NEW n \in Nat, NEW s \in [1 .. n -> T],
         \A i, j \in 1 .. n : s[i] = s[j] => i = j
  PROVE  Cardinality({s[i] : i \in 1 .. n}) = n
<1> DEFINE image == {s[i] : i \in 1 .. n}
<1>1. IsFiniteSet(1 .. n) /\ Cardinality(1 .. n) = n
  BY FS_Interval
<1>2. s \in Bijection(1 .. n, image)
  BY DEF Bijection, Injection, IsInjective, Surjection
<1>3. ExistsBijection(1 .. n, image)
  BY <1>2 DEF ExistsBijection
<1> QED BY <1>1, <1>3, FS_Bijection

\* Two runs that end in the first turn that completes one are the same.
LEMMA FoundOnce ==
  ASSUME FrameTypeOK, NEW a \in Found(1), NEW b \in Found(1)
  PROVE  a = b
<1>1. PICK k \in Pages : /\ Fits(k, 1) /\ \A i \in 0 .. k - 1 : ~Fits(i, 1)
                         /\ a = Examined(k) - 1 + 1
  BY DEF Found
<1>2. PICK j \in Pages : /\ Fits(j, 1) /\ \A i \in 0 .. j - 1 : ~Fits(i, 1)
                         /\ b = Examined(j) - 1 + 1
  BY DEF Found
<1>3. k = j
  BY <1>1, <1>2, FramesAssumption, SMTT(30) DEF Pages
<1> QED BY <1>1, <1>2, <1>3

\* A step after which p has no module of its own to load, and which lists none
\* and touches no page of another load.
LEMMA LoadsOwnKept ==
  ASSUME OwnInv, NEW p \in Threads, Step(p), loads' = loads, pc'[p] \notin Loading,
         Listed' \subseteq Listed,
         \A q \in Threads \ {p} : pc[q] \in Loading => pages'[mod[q]] = pages[mod[q]]
  PROVE  LoadsOwn'
<1>1. \A q \in Threads \ {p} : pc'[q] = pc[q] /\ mod'[q] = mod[q]
  BY OwnCall DEF OwnInv, LoaderInv
<1>2. \A q \in Threads : pc'[q] \in Loading => q # p /\ pc[q] \in Loading /\ mod'[q] = mod[q]
  BY <1>1
<1>3. {"fill", "init", "undo"} \subseteq Loading
  BY DEF Loading, LoadLabels
<1> QED BY <1>1, <1>2, <1>3, SMTT(30) DEF OwnInv, LoadsOwn

\* A load that goes on, with pages in hand.
LEMMA LoadsOwnGoesOn ==
  ASSUME OwnInv, NEW p \in Threads, Step(p), loads' = loads, list' = list,
         pc[p] \in Loading, mod'[p] = mod[p],
         pc'[p] \in {"fill", "init", "undo"} => pages'[mod[p]] # <<>>,
         \A q \in Threads \ {p} : pc[q] \in Loading => pages'[mod[q]] = pages[mod[q]]
  PROVE  LoadsOwn'
<1>1. \A q \in Threads \ {p} : pc'[q] = pc[q] /\ mod'[q] = mod[q]
  BY OwnCall DEF OwnInv, LoaderInv
<1>2. \A q \in Threads : pc'[q] \in Loading => pc[q] \in Loading
  BY <1>1
<1>3. \A q \in Threads : mod'[q] = mod[q]
  BY <1>1
<1>4. {"fill", "init", "undo"} \subseteq Loading
  BY DEF Loading, LoadLabels
<1>5. Listed' = Listed
  BY DEF Listed
<1>6. \A q \in Threads : pc'[q] \in {"fill", "init", "undo"} => pages'[mod'[q]] # <<>>
  BY <1>1, <1>3, <1>4, SMTT(30) DEF OwnInv, LoadsOwn
<1> QED BY <1>2, <1>3, <1>5, <1>6, SMTT(30) DEF OwnInv, LoadsOwn

\* A load that starts gets a module that no other thread has.
LEMMA LoadsOwnStart ==
  ASSUME OwnInv, NEW p \in Threads, Step(p), loads' = loads + 1, list' = list,
         pages' = pages, mod'[p] = loads + 1, pc'[p] \in {"alloc", "builtin"}
  PROVE  LoadsOwn'
<1>1. \A q \in Threads \ {p} : pc'[q] = pc[q] /\ mod'[q] = mod[q]
  BY OwnCall DEF OwnInv, LoaderInv
<1>2. loads \in Nat /\ \A m \in Listed : m \in 1 .. loads
  BY LoadsAssumption DEF OwnInv, LoaderInv, LoaderType, Started, Listed
<1>3. loads + 1 \in 1 .. loads' /\ loads + 1 \notin Listed
  BY <1>2
<1>4. Listed' = Listed /\ \A m \in 1 .. loads : m \in 1 .. loads' /\ m # loads + 1
  BY <1>2 DEF Listed
<1> QED BY <1>1, <1>3, <1>4 DEF OwnInv, LoadsOwn

LEMMA MoreLeft ==
  ASSUME NEW T, NEW s \in Seq(T), s # <<>>, Len(s) # 1
  PROVE  Tail(s) # <<>>
<1>1. Len(s) \in Nat /\ Len(s) # 0
  OBVIOUS
<1>2. Len(Tail(s)) = Len(s) - 1
  BY <1>1
<1>3. Len(Tail(s)) # 0
  BY <1>1, <1>2
<1>4. Len(<<>>) = 0
  OBVIOUS
<1> QED BY <1>3, <1>4, Zenon

\* Every step keeps what a load has to itself.
LEMMA LoadsOwnStep ==
  ASSUME OwnInv, NEW p \in Threads, Step(p)
  PROVE  LoadsOwn'
<1> USE DEF Goto, Done
<1>a. pc \in [Threads -> Labels] /\ mod \in [Threads -> Modules \cup {None}]
  BY DEF OwnInv, LoaderInv, LoaderType
<1>b. /\ LoadLabels = {"alloc", "builtin", "fill", "init", "publish"}
      /\ Loading = {"alloc", "builtin", "fill", "init", "publish", "undo"}
  BY DEF Loading, LoadLabels
<1>c. list' = list => Listed' = Listed
  BY DEF Listed
<1>d. ASSUME loads' = loads, list' = list, pages' = pages, pc'[p] \notin Loading
      PROVE  LoadsOwn'
  BY <1>c, <1>d, LoadsOwnKept, Zenon
<1>e. \A q \in Threads : pc[q] \in Loading => mod[q] \in Modules
  BY LoadsAssumption DEF OwnInv, LoadsOwn, LoaderInv, LoaderType, Modules
<1>f. pages \in [Modules -> Seq(Pages)]
  BY DEF OwnInv, PagesHeld
<1>1. CASE LoadObject(p)
  BY <1>1, <1>a, LoadsOwnStart DEF LoadObject
<1>2. CASE LoadTestModule(p)
  BY <1>2, <1>a, LoadsOwnStart, Zenon DEF LoadTestModule
<1>3. CASE LoadAlloc(p)
  <2>1. PICK first \in Found(1) : pages' = [pages EXCEPT ![mod[p]] = Append(@, first)]
    BY <1>3, Zenon DEF LoadAlloc
  <2>2. /\ pc[p] \in Loading /\ mod' = mod /\ list' = list /\ loads' = loads
    BY <1>3, <1>b, SMTT(30) DEF LoadAlloc
  <2>3. pages'[mod[p]] # <<>>
    <3>1. pages'[mod[p]] = Append(pages[mod[p]], first) /\ pages[mod[p]] \in Seq(Pages)
      BY <1>e, <1>f, <2>1, <2>2, Zenon
    <3> QED BY <3>1
  <2>4. \A q \in Threads \ {p} : pc[q] \in Loading => pages'[mod[q]] = pages[mod[q]]
    BY <1>e, <1>f, <2>1, <2>2, Zenon DEF OwnInv, LoadsOwn
  <2> QED BY <2>2, <2>3, <2>4, LoadsOwnGoesOn
<1>4. CASE LoadAllocFails(p)
  <2>1. /\ pc[p] \in Loading /\ list' = list /\ loads' = loads /\ pages' = pages
    BY <1>4, <1>b DEF LoadAllocFails
  <2>2. CASE pages[mod[p]] = <<>>
    <3>1. pc'[p] = "idle"
      BY <1>4, <1>a, <2>2, Zenon DEF LoadAllocFails
    <3> QED BY <1>b, <1>d, <2>1, <3>1
  <2>3. CASE pages[mod[p]] # <<>>
    <3>1. mod' = mod
      BY <1>4, <2>3 DEF LoadAllocFails
    <3> QED BY <2>1, <2>3, <3>1, LoadsOwnGoesOn
  <2> QED BY <2>2, <2>3
<1>5. CASE LoadFill(p)
  <2>1. /\ pc[p] = "fill" /\ list' = list /\ loads' = loads /\ pages' = pages
        /\ pages[mod[p]] # <<>>
    BY <1>5, Zenon DEF LoadFill, OwnInv, LoadsOwn
  <2>2. CASE Goto(p, "init") /\ mod' = mod
    BY <1>b, <2>1, <2>2, LoadsOwnGoesOn
  <2>3. CASE Done(p)
    BY <1>a, <1>b, <1>d, <2>1, <2>3, Zenon
  <2> QED BY <1>5, <2>2, <2>3 DEF LoadFill
<1>6. CASE LoadInit(p)
  <2>1. /\ pc[p] = "init" /\ list' = list /\ loads' = loads /\ pages' = pages
        /\ pages[mod[p]] # <<>> /\ mod' = mod
    BY <1>6, Zenon DEF LoadInit, OwnInv, LoadsOwn
  <2> QED BY <1>b, <2>1, LoadsOwnGoesOn
<1>7. CASE LoadPublish(p)
  <2>1. /\ pc[p] = "publish" /\ list' = Append(list, mod[p]) /\ loads' = loads
        /\ pages' = pages /\ pc'[p] = "idle"
    BY <1>7, <1>a DEF LoadPublish
  <2>2. Listed' = Listed \cup {mod[p]}
    <3>1. list \in Seq(Modules) /\ mod[p] \in Modules
      BY <1>b, <1>e, <2>1 DEF OwnInv, LoaderInv, LoaderType
    <3>2. /\ Len(list) \in Nat /\ Len(list') = Len(list) + 1
          /\ \A i \in 1 .. Len(list) : list'[i] = list[i]
          /\ list'[Len(list) + 1] = mod[p]
      BY <2>1, <3>1, SMTT(30)
    <3> HIDE DEF Goto, Done
    <3> QED BY <3>2 DEF Listed
  <2>3. \A q \in Threads \ {p} : /\ pc'[q] = pc[q] /\ mod'[q] = mod[q]
                                 /\ pc[q] \in Loading => mod[q] # mod[p]
    BY <1>b, <2>1, OwnCall DEF OwnInv, LoaderInv, LoadsOwn
  <2>4. \A q \in Threads : pc'[q] \in Loading => q # p /\ pc[q] \in Loading
    BY <1>b, <2>1, <2>3, Zenon
  <2>5. \A q \in Threads : pc'[q] \in {"fill", "init", "undo"} => pages'[mod'[q]] # <<>>
    BY <2>1, <2>3, Zenon DEF OwnInv, LoadsOwn
  <2>6. \A q \in Threads :
          pc'[q] \in Loading => mod'[q] \in 1 .. loads' /\ mod'[q] \notin Listed'
    BY <2>1, <2>2, <2>3, <2>4, Zenon DEF OwnInv, LoadsOwn
  <2>7. \A q, r \in Threads :
          q # r /\ pc'[q] \in Loading /\ pc'[r] \in Loading => mod'[q] # mod'[r]
    BY <2>3, <2>4 DEF OwnInv, LoadsOwn
  <2> QED BY <2>5, <2>6, <2>7 DEF LoadsOwn
<1>8. CASE LoadUndo(p)
  <2>1. /\ pc[p] = "undo" /\ list' = list /\ loads' = loads
        /\ pages' = [pages EXCEPT ![mod[p]] = Tail(@)]
        /\ pages[mod[p]] # <<>> /\ mod[p] \in Modules
    BY <1>8, <1>b, <1>e DEF LoadUndo, FreeOne, OwnInv, LoadsOwn
  <2>2. \A q \in Threads \ {p} : pc[q] \in Loading => pages'[mod[q]] = pages[mod[q]]
    BY <1>b, <1>e, <1>f, <2>1, Zenon DEF OwnInv, LoadsOwn
  <2>3. CASE Len(pages[mod[p]]) = 1
    <3>1. pc'[p] = "idle"
      BY <1>8, <1>a, <2>3, Zenon DEF LoadUndo
    <3> QED BY <1>b, <1>c, <2>1, <2>2, <3>1, LoadsOwnKept, Zenon
  <2>4. CASE Len(pages[mod[p]]) # 1
    <3>1. pc' = pc /\ mod' = mod
      BY <1>8, <2>4, SMTT(30) DEF LoadUndo
    <3>2. pages'[mod[p]] = Tail(pages[mod[p]]) /\ pages[mod[p]] \in Seq(Pages)
      BY <1>f, <2>1
    <3>3. pages'[mod[p]] # <<>>
      BY <2>1, <2>4, <3>2, MoreLeft, Zenon
    <3> QED BY <1>b, <2>1, <2>2, <3>1, <3>3, LoadsOwnGoesOn, Zenon
  <2> QED BY <2>3, <2>4, Zenon
<1>9. CASE Acquire(p)
  BY <1>9, <1>a, <1>b, <1>d DEF Acquire
<1>10. CASE AcquireCount(p)
  BY <1>10, <1>a, <1>b, <1>d, Zenon DEF AcquireCount
<1>11. CASE DropRef(p)
  BY <1>11, <1>a, <1>b, <1>d DEF DropRef
<1>12. CASE DropCount(p)
  BY <1>12, <1>a, <1>b, <1>d DEF DropCount
<1>13. CASE UnloadFlag(p)
  BY <1>13, <1>a, <1>b, <1>d DEF UnloadFlag
<1>14. CASE UnloadUnused(p)
  BY <1>14, <1>a, <1>b, <1>d DEF UnloadUnused
<1>15. CASE UnloadInUse(p)
  BY <1>15, <1>a, <1>b, <1>d, Zenon DEF UnloadInUse
<1>16. CASE UnloadTimeout(p)
  BY <1>16, <1>a, <1>b, <1>d, Zenon DEF UnloadTimeout
<1>17. CASE UnloadGiveUp(p)
  BY <1>17, <1>a, <1>b, <1>d, Zenon DEF UnloadGiveUp
<1>18. CASE UnloadNotFound(p)
  BY <1>18, <1>a, <1>b, <1>d DEF UnloadNotFound
<1>19. CASE UnloadExit(p)
  BY <1>19, <1>a, <1>b, <1>d, Zenon DEF UnloadExit
<1>20. CASE UnloadFree(p)
  <2>1. /\ pc[p] = "free" /\ pc' = pc /\ list' = list /\ loads' = loads
        /\ pages' = [pages EXCEPT ![mod[p]] = Tail(@)]
    BY <1>20, Zenon DEF UnloadFree, FreeOne
  <2>2. mod[p] \in Listed
    BY <2>1, Zenon DEF OwnInv, LoaderInv, UnloadsWhatItFlagged, Find, Listed
  <2>3. \A q \in Threads \ {p} : pc[q] \in Loading => pages'[mod[q]] = pages[mod[q]]
    BY <1>e, <1>f, <2>1, <2>2, Zenon DEF OwnInv, LoadsOwn
  <2> QED BY <1>b, <1>c, <2>1, <2>3, LoadsOwnKept
<1>21. CASE UnloadRemove(p)
  <2>1. PICK idx \in 1 .. Len(list) : list' = Without(idx)
    BY <1>21, Zenon DEF UnloadRemove
  <2>2. loads' = loads /\ pages' = pages /\ pc'[p] = "idle"
    BY <1>21, <1>a DEF UnloadRemove
  <2>3. Len(list) \in Nat
    BY DEF OwnInv, LoaderInv, LoaderType
  <2>4. Len(list') = Len(list) - 1
        /\ \A i \in 1 .. Len(list) - 1 : list'[i] = list[i] \/ list'[i] = list[i + 1]
    BY <2>1, <2>3 DEF Without
  <2>5. Listed' \subseteq Listed
    BY <2>3, <2>4 DEF Listed
  <2> QED BY <1>b, <2>2, <2>5, LoadsOwnKept, Zenon
<1> QED BY <1>1, <1>2, <1>3, <1>4, <1>5, <1>6, <1>7, <1>8, <1>9, <1>10, <1>11, <1>12, <1>13,
           <1>14, <1>15, <1>16, <1>17, <1>18, <1>19, <1>20, <1>21, Zenon DEF Step

LEMMA PagesHeldKept ==
  ASSUME PagesHeld, pages' = pages, \A m \in Modules : held'[m] = held[m]
  PROVE  PagesHeld'
<1>1. \A m \in Modules : Pages_(m)' = Pages_(m)
  BY DEF Pages_
<1> QED BY <1>1 DEF PagesHeld

\* Taking one frame is an allocation of the allocator, and the page is new.
LEMMA PagesAlloc ==
  ASSUME OwnInv, NEW m \in Modules, AllocPages(m, 1),
         NEW first \in Found(1), pages' = [pages EXCEPT ![m] = Append(@, first)]
  PROVE  FrameNext /\ PagesHeld'
<1>1. FrameTypeOK /\ FramesHeldOnce /\ pages \in [Modules -> Seq(Pages)]
  BY DEF OwnInv, FrameInv, PagesHeld
<1>2. PICK f \in Found(1) : held' = [held EXCEPT ![m] = @ \cup Run(f, 1)]
  BY Zenon DEF AllocPages
<1>3. f = first
  BY <1>1, FoundOnce
<1>4. 1 \in 1 .. total_pages
  BY FramesAssumption
<1>5. first \in Pages /\ Run(first, 1) \cap used = {}
  BY <1>1, <1>4, FoundIsFree
<1>6. Run(first, 1) = {first}
  BY <1>5, FramesAssumption DEF Run, Pages
<1>7. FrameNext
  BY <1>4, HoldersAssumption DEF FrameNext, FrameStep
<1>8. \A k \in Modules : held'[k] = IF k = m THEN held[m] \cup {first} ELSE held[k]
  BY <1>1, <1>2, <1>3, <1>6, HoldersAssumption, Zenon DEF FrameTypeOK
<1>9. first \notin held[m]
  <2>1. held[m] \subseteq used
    BY <1>1, HoldersAssumption, Zenon DEF FramesHeldOnce
  <2> QED BY <1>5, <1>6, <2>1, Zenon
<1> DEFINE s == pages[m]
           t == Append(s, first)
<1>10. /\ s \in Seq(Pages) /\ t \in Seq(Pages) /\ Len(s) \in Nat /\ Len(t) = Len(s) + 1
       /\ \A i \in 1 .. Len(s) : t[i] = s[i]
       /\ t[Len(s) + 1] = first
  BY <1>1, <1>5
<1>11. /\ pages' \in [Modules -> Seq(Pages)]
       /\ \A k \in Modules : pages'[k] = IF k = m THEN t ELSE pages[k]
  BY <1>1, <1>10
<1> HIDE DEF t
<1>12. /\ {s[i] : i \in 1 .. Len(s)} = held[m]
       /\ \A i, j \in 1 .. Len(s) : s[i] = s[j] => i = j
  BY DEF OwnInv, PagesHeld, Pages_
<1> HIDE DEF s
<1>13. {t[i] : i \in 1 .. Len(t)} = held[m] \cup {first}
  BY <1>10, <1>12
<1>14. \A i, j \in 1 .. Len(t) : t[i] = t[j] => i = j
  <2> SUFFICES ASSUME NEW i \in 1 .. Len(t), NEW j \in 1 .. Len(t), t[i] = t[j]
               PROVE  i = j
    OBVIOUS
  <2>1. \A k \in 1 .. Len(s) : s[k] # first
    BY <1>9, <1>12
  <2>2. CASE i \in 1 .. Len(s) /\ j \in 1 .. Len(s)
    <3>1. s[i] = s[j]
      BY <1>10, <2>2
    <3> QED BY <1>12, <2>2, <3>1
  <2>3. CASE i = Len(s) + 1 \/ j = Len(s) + 1
    <3>1. i \notin 1 .. Len(s) /\ j \notin 1 .. Len(s)
      BY <1>10, <2>1, <2>3
    <3> QED BY <1>10, <3>1
  <2> QED BY <1>10, <2>2, <2>3
<1>15. ASSUME NEW k \in Modules
       PROVE  /\ Pages_(k)' = held'[k]
              /\ \A i, j \in 1 .. Len(pages'[k]) : pages'[k][i] = pages'[k][j] => i = j
  <2>1. CASE k = m
    <3>1. pages'[k] = t
      BY <1>11, <2>1, Zenon
    <3>2. Pages_(k)' = {t[i] : i \in 1 .. Len(t)}
      BY <3>1, Zenon DEF Pages_
    <3> QED BY <1>8, <1>13, <1>14, <2>1, <3>1, <3>2
  <2>2. CASE k # m
    <3>1. pages'[k] = pages[k] /\ held'[k] = held[k]
      BY <1>8, <1>11, <2>2
    <3>2. Pages_(k)' = Pages_(k)
      BY <3>1, Zenon DEF Pages_
    <3> QED BY <3>1, <3>2, SMTT(30) DEF OwnInv, PagesHeld
  <2> QED BY <2>1, <2>2, Zenon
<1> QED BY <1>7, <1>11, <1>15 DEF PagesHeld

\* Giving the first page back is within the allocator's contract.
LEMMA PagesFree ==
  ASSUME OwnInv, NEW m \in Modules, pages[m] # <<>>, FreeOne(m)
  PROVE  FrameNext /\ PagesHeld'
<1> DEFINE s == pages[m]
           t == Tail(s)
<1>1. FrameTypeOK /\ pages \in [Modules -> Seq(Pages)]
  BY DEF OwnInv, FrameInv, PagesHeld
<1>2. /\ s \in Seq(Pages) /\ t \in Seq(Pages) /\ Len(s) \in Nat /\ Len(s) >= 1
      /\ Len(t) = Len(s) - 1 /\ Head(s) = s[1] /\ s[1] \in Pages
      /\ \A i \in 1 .. Len(s) - 1 : t[i] = s[i + 1]
  BY <1>1
<1>3. /\ FreePages(m, s[1], 1)
      /\ held' = [held EXCEPT ![m] = @ \ Run(s[1], 1)]
      /\ pages' = [pages EXCEPT ![m] = t]
  BY <1>2 DEF FreeOne, FreePages
<1>4. FrameNext
  <2>1. 1 \in 1 .. total_pages /\ m \in Callers
    BY FramesAssumption, HoldersAssumption, SMTT(30)
  <2> QED BY <1>2, <1>3, <2>1 DEF FrameNext, FrameStep
<1>5. Run(s[1], 1) = {s[1]}
  BY <1>2, FramesAssumption DEF Run, Pages
<1>6. \A k \in Modules : held'[k] = IF k = m THEN held[m] \ {s[1]} ELSE held[k]
  BY <1>1, <1>3, <1>5, HoldersAssumption, Zenon DEF FrameTypeOK
<1>7. /\ pages' \in [Modules -> Seq(Pages)]
      /\ \A k \in Modules : pages'[k] = IF k = m THEN t ELSE pages[k]
  BY <1>1, <1>2, <1>3, Zenon
<1>8. /\ {s[i] : i \in 1 .. Len(s)} = held[m]
      /\ \A i, j \in 1 .. Len(s) : s[i] = s[j] => i = j
  BY ZenonT(40) DEF OwnInv, PagesHeld, Pages_
<1> HIDE DEF s, t
<1>9. {t[i] : i \in 1 .. Len(t)} = held[m] \ {s[1]}
  <2>1. ASSUME NEW i \in 1 .. Len(t) PROVE t[i] \in held[m] \ {s[1]}
    <3>1. i + 1 \in 1 .. Len(s) /\ 1 \in 1 .. Len(s) /\ i + 1 # 1 /\ t[i] = s[i + 1]
      BY <1>2
    <3>2. s[i + 1] \in held[m] /\ s[i + 1] # s[1]
      BY <1>8, <3>1, Zenon
    <3> QED BY <3>1, <3>2, Zenon
  <2>2. ASSUME NEW x \in held[m] \ {s[1]} PROVE \E i \in 1 .. Len(t) : x = t[i]
    <3>1. PICK i \in 1 .. Len(s) : x = s[i]
      BY <1>8
    <3>2. i - 1 \in 1 .. Len(t) /\ t[i - 1] = s[(i - 1) + 1] /\ (i - 1) + 1 = i
      BY <1>2, <3>1
    <3>3. x = t[i - 1]
      BY <3>1, <3>2, Zenon
    <3> QED BY <3>2, <3>3, Zenon
  <2> QED BY <2>1, <2>2
<1>10. \A i, j \in 1 .. Len(t) : t[i] = t[j] => i = j
  <2> SUFFICES ASSUME NEW i \in 1 .. Len(t), NEW j \in 1 .. Len(t), t[i] = t[j]
               PROVE  i = j
    OBVIOUS
  <2>1. i + 1 \in 1 .. Len(s) /\ j + 1 \in 1 .. Len(s) /\ s[i + 1] = s[j + 1]
    BY <1>2
  <2>2. i + 1 = j + 1
    BY <1>8, <2>1, Zenon
  <2> QED BY <1>2, <2>2
<1>11. ASSUME NEW k \in Modules
       PROVE  /\ Pages_(k)' = held'[k]
              /\ \A i, j \in 1 .. Len(pages'[k]) : pages'[k][i] = pages'[k][j] => i = j
  <2>1. CASE k = m
    <3>1. pages'[k] = t
      BY <1>7, <2>1
    <3>2. Pages_(k)' = {t[i] : i \in 1 .. Len(t)}
      BY <3>1, Zenon DEF Pages_
    <3> QED BY <1>6, <1>9, <1>10, <2>1, <3>1, <3>2, Zenon
  <2>2. CASE k # m
    <3>1. pages'[k] = pages[k] /\ held'[k] = held[k]
      BY <1>6, <1>7, <2>2, Zenon
    <3> QED BY <3>1 DEF Pages_, OwnInv, PagesHeld
  <2> QED BY <2>1, <2>2, Zenon
<1> QED BY <1>4, <1>7, <1>11 DEF PagesHeld

\* A step of the loader is one of the allocator, or none.
LEMMA PagesStep ==
  ASSUME OwnInv, NEW p \in Threads, Step(p)
  PROVE  [FrameNext]_frameVars /\ PagesHeld'
<1>a. ASSUME pages' = pages, UNCHANGED frameVars
      PROVE  [FrameNext]_frameVars /\ PagesHeld'
  BY <1>a, PagesHeldKept DEF frameVars, OwnInv
<1>b. \A q \in Threads : pc[q] \in Loading => mod[q] \in Modules
  BY LoadsAssumption DEF OwnInv, LoadsOwn, LoaderInv, LoaderType, Modules
<1>1. CASE LoadAlloc(p)
  <2>1. mod[p] \in Modules
    BY <1>1, <1>b, ZenonT(40) DEF LoadAlloc, Loading, LoadLabels
  <2> QED BY <1>1, <2>1, PagesAlloc, Zenon DEF LoadAlloc
<1>2. CASE LoadUndo(p)
  <2>1. mod[p] \in Modules /\ pages[mod[p]] # <<>>
    BY <1>2, <1>b, Zenon DEF LoadUndo, Loading, LoadLabels, OwnInv, LoadsOwn
  <2> QED BY <1>2, <2>1, PagesFree, Zenon DEF LoadUndo
<1>3. CASE UnloadFree(p)
  <2>1. mod[p] \in Modules
    <3>1. mod[p] \in Find(arg[p])
      BY <1>3, Zenon DEF UnloadFree, OwnInv, LoaderInv, UnloadsWhatItFlagged
    <3> QED BY <3>1, FindOne, Zenon DEF OwnInv, LoaderInv
  <2> QED BY <1>3, <2>1, PagesFree, Zenon DEF UnloadFree
<1>4. CASE LoadAllocFails(p)
  BY <1>4, <1>a, ZenonT(40) DEF LoadAllocFails, AllocFails
<1>5. CASE LoadObject(p) \/ LoadTestModule(p) \/ LoadFill(p) \/ LoadInit(p) \/ LoadPublish(p)
  BY <1>5, <1>a DEF LoadObject, LoadTestModule, LoadFill, LoadInit, LoadPublish
<1>6. CASE Acquire(p) \/ AcquireCount(p) \/ DropRef(p) \/ DropCount(p)
  BY <1>6, <1>a, Zenon DEF Acquire, AcquireCount, DropRef, DropCount
<1>7. CASE UnloadFlag(p) \/ UnloadUnused(p) \/ UnloadInUse(p) \/ UnloadTimeout(p)
  BY <1>7, <1>a, Zenon DEF UnloadFlag, UnloadUnused, UnloadInUse, UnloadTimeout
<1>8. CASE UnloadGiveUp(p) \/ UnloadNotFound(p) \/ UnloadExit(p) \/ UnloadRemove(p)
  BY <1>8, <1>a DEF UnloadGiveUp, UnloadNotFound, UnloadExit, UnloadRemove
<1> QED BY <1>1, <1>2, <1>3, <1>4, <1>5, <1>6, <1>7, <1>8, Zenon DEF Step

\* The frames of others are no module's.
LEMMA OtherStep ==
  ASSUME OwnInv, OtherFrames
  PROVE  FrameNext /\ LoadsOwn' /\ PagesHeld'
<1>0. FrameTypeOK /\ Other \in Callers \ Modules /\ Modules \subseteq Callers
  BY HoldersAssumption DEF OwnInv, FrameInv
<1>1. 1 \in 1 .. total_pages
  BY FramesAssumption, SMTT(30)
<1>2. FrameNext
  <2>1. \A f \in held[Other] : f \in Pages
    BY <1>0 DEF FrameTypeOK
  <2> QED BY <1>0, <1>1, <2>1 DEF OtherFrames, FrameNext, FrameStep
<1>3. \A m \in Modules : held'[m] = held[m]
  <2>1. \E new : held' = [held EXCEPT ![Other] = new]
    BY DEF OtherFrames, AllocPages, FreePages
  <2> QED BY <1>0, <2>1 DEF FrameTypeOK
<1>4. PagesHeld'
  BY <1>3, PagesHeldKept, Zenon DEF OtherFrames, loaderVars, OwnInv
<1>5. LoadsOwn'
  BY Zenon DEF OtherFrames, loaderVars, OwnInv, LoadsOwn, Listed
<1> QED BY <1>2, <1>4, <1>5

LEMMA OwnInitially == Init => OwnInv
<1> SUFFICES ASSUME Init PROVE OwnInv
  OBVIOUS
<1>1. LoaderInv /\ FrameInv
  BY LoaderInitInv, FrameInitInv DEF Init
<1>2. LoadsOwn
  BY DEF Init, LoadsOwn, Loading, LoadLabels
<1>3. PagesHeld
  <2>1. <<>> \in Seq(Pages) /\ Len(<<>>) = 0
    OBVIOUS
  <2>2. \A m \in Modules : pages[m] = <<>> /\ held[m] = {}
    BY HoldersAssumption DEF Init, FrameInit
  <2>3. pages \in [Modules -> Seq(Pages)]
    BY <2>1 DEF Init
  <2>4. ASSUME NEW m \in Modules
        PROVE  /\ Pages_(m) = held[m]
               /\ \A i, j \in 1 .. Len(pages[m]) : pages[m][i] = pages[m][j] => i = j
    <3>1. 1 .. Len(pages[m]) = {}
      BY <2>1, <2>2
    <3>2. Pages_(m) = {}
      BY <3>1 DEF Pages_
    <3> QED BY <2>2, <3>1, <3>2, Zenon
  <2> QED BY <2>3, <2>4, Zenon DEF PagesHeld
<1> QED BY <1>1, <1>2, <1>3 DEF OwnInv

LEMMA OwnNext == OwnInv /\ [Next]_<<loaderVars, frameVars>> =>
                   OwnInv' /\ [FrameNext]_frameVars
<1> SUFFICES ASSUME OwnInv, [Next]_<<loaderVars, frameVars>>
             PROVE  OwnInv' /\ [FrameNext]_frameVars
  OBVIOUS
<1>1. LoaderInv'
  BY LoaderNextInv DEF OwnInv
<1>2. [FrameNext]_frameVars /\ LoadsOwn' /\ PagesHeld'
  <2>1. ASSUME NEW p \in Threads, Step(p)
        PROVE  [FrameNext]_frameVars /\ LoadsOwn' /\ PagesHeld'
    BY <2>1, LoadsOwnStep, PagesStep
  <2>2. CASE UNCHANGED <<loaderVars, frameVars>>
    <3>1. PagesHeld'
      BY <2>2, PagesHeldKept DEF loaderVars, frameVars, OwnInv
    <3>2. LoadsOwn'
      BY <2>2, Zenon DEF loaderVars, OwnInv, LoadsOwn, Listed
    <3> QED BY <2>2, <3>1, <3>2, Zenon
  <2> QED BY <2>1, <2>2, OtherStep DEF Next
<1>3. FrameInv'
  BY <1>2, FrameNextInv DEF OwnInv
<1> QED BY <1>1, <1>2, <1>3 DEF OwnInv

\* The loader keeps to the contract of the allocator, with the other code that
\* takes frames at the same time: its behaviours are behaviours of the allocator
\* whose callers free only what they hold, so no frame is given out twice.
THEOREM LoaderUsesAllocator == Spec => FrameSpec /\ [](FramesHeldOnce /\ CountIsExact)
<1>1. Init => FrameInit
  BY DEF Init
<1>2. OwnInv => FramesHeldOnce /\ CountIsExact
  BY DEF OwnInv, FrameInv
<1> QED BY <1>1, <1>2, OwnInitially, OwnNext, PTL DEF Spec, FrameSpec

\* The pages that a module lists are the frames it holds, each listed once:
\* whatever loads fail and whatever is unloaded meanwhile, freeing them one by
\* one frees no frame twice and leaves none behind.
THEOREM ModulesOwnTheirPages == Spec => []ModulePagesOwned
<1>1. OwnInv => ModulePagesOwned
  <2> SUFFICES ASSUME OwnInv, NEW m \in Modules
               PROVE  Pages_(m) = held[m] /\ Cardinality(Pages_(m)) = Len(pages[m])
    BY DEF ModulePagesOwned
  <2>1. /\ Pages_(m) = held[m] /\ pages[m] \in Seq(Pages)
        /\ \A i, j \in 1 .. Len(pages[m]) : pages[m][i] = pages[m][j] => i = j
    <3>1. PagesHeld
      BY Zenon DEF OwnInv
    <3>2. pages[m] \in Seq(Pages)
      BY <3>1, Zenon DEF PagesHeld
    <3> QED BY <3>1, <3>2, Zenon DEF PagesHeld
  <2>2. Len(pages[m]) \in Nat /\ pages[m] \in [1 .. Len(pages[m]) -> Pages]
    BY <2>1
  <2>3. Cardinality({pages[m][i] : i \in 1 .. Len(pages[m])}) = Len(pages[m])
    BY <2>1, <2>2, NoRepeats, Zenon
  <2> QED BY <2>1, <2>3 DEF Pages_
<1> QED BY <1>1, OwnInitially, OwnNext, PTL DEF Spec

-----------------------------------------------------------------------------
(* Sequences *)

\* A sequence without the element at a place.
LEMMA WithoutPlace ==
  ASSUME NEW S, NEW s \in Seq(S), NEW i \in 1 .. Len(s)
  PROVE  LET r == SubSeq(s, 1, i - 1) \o SubSeq(s, i + 1, Len(s))
         IN  /\ r \in Seq(S) /\ Len(r) = Len(s) - 1
             /\ \A j \in 1 .. Len(r) : r[j] = s[IF j < i THEN j ELSE j + 1]
<1> DEFINE a == SubSeq(s, 1, i - 1)
           b == SubSeq(s, i + 1, Len(s))
<1>1. a \in Seq(S) /\ Len(a) = i - 1 /\ \A j \in 1 .. i - 1 : a[j] = s[j]
  OBVIOUS
<1>2. b \in Seq(S) /\ Len(b) = Len(s) - i /\ \A j \in 1 .. Len(s) - i : b[j] = s[i + j]
  OBVIOUS
<1> HIDE DEF a, b
<1>3. a \o b \in Seq(S) /\ Len(a \o b) = Len(s) - 1
  <2>1. a \in Seq(S) /\ b \in Seq(S)
    BY <1>1, <1>2
  <2>2. a \o b \in Seq(S)
    BY ONLY <2>1
  <2>3. Len(a \o b) = Len(a) + Len(b)
    BY <2>1
  <2>4. \A x, y \in Int : (x - 1) + (y - x) = y - 1
    OBVIOUS
  <2>5. i \in Int /\ Len(s) \in Int
    OBVIOUS
  <2> QED BY <1>1, <1>2, <2>2, <2>3, <2>4, <2>5, Zenon
<1>4. \A j \in 1 .. Len(a) + Len(b) : (a \o b)[j] = IF j <= Len(a) THEN a[j] ELSE b[j - Len(a)]
  BY <1>1, <1>2
<1>5. \A j \in 1 .. Len(s) - 1 : (a \o b)[j] = s[IF j < i THEN j ELSE j + 1]
  <2> SUFFICES ASSUME NEW j \in 1 .. Len(s) - 1
               PROVE  (a \o b)[j] = s[IF j < i THEN j ELSE j + 1]
    BY Zenon
  <2>1. CASE j < i
    <3>1. j \in 1 .. Len(a) + Len(b) /\ j <= Len(a) /\ j \in 1 .. i - 1
      BY <1>1, <1>2, <2>1
    <3> QED BY <1>1, <1>4, <2>1, <3>1
  <2>2. CASE j >= i
    <3>1. /\ j - (i - 1) \in 1 .. Len(s) - i /\ i + (j - (i - 1)) = j + 1
          /\ j \in 1 .. Len(a) + Len(b) /\ ~(j <= Len(a)) /\ j - Len(a) = j - (i - 1)
      BY <1>1, <1>2, <2>2
    <3>2. (a \o b)[j] = b[j - (i - 1)]
      BY <1>4, <3>1
    <3>3. b[j - (i - 1)] = s[i + (j - (i - 1))]
      BY <1>2, <3>1
    <3>4. (IF j < i THEN j ELSE j + 1) = j + 1
      BY <2>2
    <3> QED BY <3>1, <3>2, <3>3, <3>4
  <2>3. j < i \/ j >= i
    OBVIOUS
  <2> QED BY <2>1, <2>2, <2>3, Zenon
<1> QED BY <1>3, <1>5, Zenon DEF a, b

-----------------------------------------------------------------------------
(* A queue *)

\* The threads at some of the places of their calls.
CallsAt(at, places) == {p \in QueueThreads : at[p] \in places}

\* CallsAt on their way to release a permit, or that have one and no message yet.
PermitPlaces == {"s_count", "s_items", "r_recheck", "r_take"}
AddPlaces == {"s_count"}
TakePlaces == {"r_count"}
ClearPlaces == {"x_count", "x_try", "x_cas"}

QueuePlaces == PermitPlaces \union ClearPlaces \union
  {"idle", "s_push", "r_items", "r_try", "r_cas", "r_count", "k_items"}

\* How many calls are there, are about to add to the counter and to take from it.
PermitCalls == Cardinality(CallsAt(queuepc, PermitPlaces))
AddCalls == Cardinality(CallsAt(queuepc, AddPlaces))
TakeCalls == Cardinality(CallsAt(queuepc, TakePlaces))

QueueInv ==
  /\ queue \in Seq(Priorities) /\ count \in Int /\ sem_items \in Nat
  /\ queuepc \in [QueueThreads -> QueuePlaces] /\ seen \in [QueueThreads -> Nat]
  /\ \A p \in QueueThreads :
       /\ queuepc[p] \in {"r_cas", "x_cas"} => seen[p] > 0
       /\ queuepc[p] \in ClearPlaces \union TakePlaces => lock = p
       /\ queuepc[p] \in ClearPlaces => queue = <<>>
  /\ queue # <<>> => sem_items + PermitCalls >= Len(queue)
  /\ count + AddCalls >= Len(queue) + TakeCalls

One(b) == IF b THEN 1 ELSE 0

LEMMA CallsFinite ==
  ASSUME NEW at, NEW places
  PROVE  IsFiniteSet(CallsAt(at, places)) /\ Cardinality(CallsAt(at, places)) \in Nat
<1>1. CallsAt(at, places) \subseteq QueueThreads
  BY DEF CallsAt
<1> QED BY <1>1, QueueAssumption, FS_Subset, FS_CardinalityType

\* A step of one thread moves it out of a set of places, into it, or neither.
LEMMA CallsMove ==
  ASSUME NEW at \in [QueueThreads -> QueuePlaces], NEW p \in QueueThreads, NEW l, NEW places
  PROVE  Cardinality(CallsAt([at EXCEPT ![p] = l], places)) =
           Cardinality(CallsAt(at, places)) + One(l \in places)
                                          - One(at[p] \in places)
<1> DEFINE A == CallsAt(at, places)
           B == CallsAt([at EXCEPT ![p] = l], places)
<1>1. IsFiniteSet(A) /\ IsFiniteSet(B) /\ Cardinality(A) \in Nat
  BY CallsFinite
<1>2. A \ {p} = B \ {p} /\ (p \in A <=> at[p] \in places) /\ (p \in B <=> l \in places)
  BY DEF CallsAt
<1> HIDE DEF A, B
<1>3. /\ Cardinality(A \ {p}) = IF p \in A THEN Cardinality(A) - 1 ELSE Cardinality(A)
      /\ Cardinality(B \ {p}) = IF p \in B THEN Cardinality(B) - 1 ELSE Cardinality(B)
  BY <1>1, FS_RemoveElement, Zenon
<1>4. Cardinality(B) \in Nat
  BY <1>1, FS_CardinalityType
<1>5. Cardinality(B) = Cardinality(A) + One(p \in B) - One(p \in A)
  BY <1>1, <1>2, <1>3, <1>4, SMTT(30) DEF One
<1> QED BY <1>2, <1>5 DEF A, B, One

LEMMA GotoMoves ==
  ASSUME QueueInv, NEW p \in QueueThreads, NEW l \in QueuePlaces, QueueGoto(p, l)
  PROVE  /\ queuepc' \in [QueueThreads -> QueuePlaces] /\ queuepc'[p] = l
         /\ \A q \in QueueThreads : q # p => queuepc'[q] = queuepc[q]
         /\ PermitCalls \in Nat /\ AddCalls \in Nat /\ TakeCalls \in Nat
         /\ PermitCalls' = PermitCalls + One(l \in PermitPlaces)
                                     - One(queuepc[p] \in PermitPlaces)
         /\ AddCalls' = AddCalls + One(l = "s_count")
                             - One(queuepc[p] = "s_count")
         /\ TakeCalls' = TakeCalls + One(l = "r_count")
                             - One(queuepc[p] = "r_count")
<1>1. queuepc \in [QueueThreads -> QueuePlaces] /\ queuepc' = [queuepc EXCEPT ![p] = l]
  BY DEF QueueGoto, QueueInv
<1>2. /\ queuepc' \in [QueueThreads -> QueuePlaces] /\ queuepc'[p] = l
      /\ \A q \in QueueThreads : q # p => queuepc'[q] = queuepc[q]
  BY <1>1
<1>3. PermitCalls \in Nat /\ AddCalls \in Nat /\ TakeCalls \in Nat
  BY CallsFinite DEF PermitCalls, AddCalls, TakeCalls
<1>4. PermitCalls' = PermitCalls + One(l \in PermitPlaces)
                               - One(queuepc[p] \in PermitPlaces)
  <2>1. PermitCalls' = Cardinality(CallsAt([queuepc EXCEPT ![p] = l], PermitPlaces))
    BY <1>1 DEF PermitCalls, CallsAt
  <2>2. Cardinality(CallsAt([queuepc EXCEPT ![p] = l], PermitPlaces)) =
          Cardinality(CallsAt(queuepc, PermitPlaces)) + One(l \in PermitPlaces)
            - One(queuepc[p] \in PermitPlaces)
    BY <1>1, CallsMove, ZenonT(30)
  <2> QED BY <2>1, <2>2 DEF PermitCalls
<1>5. AddCalls' = AddCalls + One(l \in AddPlaces)
                       - One(queuepc[p] \in AddPlaces)
  <2>1. AddCalls' = Cardinality(CallsAt([queuepc EXCEPT ![p] = l], AddPlaces))
    BY <1>1 DEF AddCalls, CallsAt
  <2>2. Cardinality(CallsAt([queuepc EXCEPT ![p] = l], AddPlaces)) =
          Cardinality(CallsAt(queuepc, AddPlaces)) + One(l \in AddPlaces)
            - One(queuepc[p] \in AddPlaces)
    BY <1>1, CallsMove, ZenonT(30)
  <2> QED BY <2>1, <2>2 DEF AddCalls
<1>6. TakeCalls' = TakeCalls + One(l \in TakePlaces)
                       - One(queuepc[p] \in TakePlaces)
  <2>1. TakeCalls' = Cardinality(CallsAt([queuepc EXCEPT ![p] = l], TakePlaces))
    BY <1>1 DEF TakeCalls, CallsAt
  <2>2. Cardinality(CallsAt([queuepc EXCEPT ![p] = l], TakePlaces)) =
          Cardinality(CallsAt(queuepc, TakePlaces)) + One(l \in TakePlaces)
            - One(queuepc[p] \in TakePlaces)
    BY <1>1, CallsMove, Zenon
  <2> QED BY <2>1, <2>2 DEF TakeCalls
<1> QED BY <1>2, <1>3, <1>4, <1>5, <1>6 DEF One, AddPlaces, TakePlaces

\* What a step has to show besides the moves of its thread.
LEMMA QueueKept ==
  ASSUME QueueInv, NEW p \in QueueThreads, NEW l \in QueuePlaces, QueueGoto(p, l),
         queue' \in Seq(Priorities), count' \in Int, sem_items' \in Nat,
         seen' \in [QueueThreads -> Nat],
         \A q \in QueueThreads : q # p => seen'[q] = seen[q],
         l \in {"r_cas", "x_cas"} => seen'[p] > 0,
         l \in ClearPlaces \union TakePlaces => lock' = p,
         \A q \in QueueThreads :
           q # p /\ queuepc[q] \in ClearPlaces \union TakePlaces => lock' = lock,
         l \in ClearPlaces => queue' = <<>>,
         \A q \in QueueThreads : q # p /\ queuepc[q] \in ClearPlaces => queue' = queue,
         queue' # <<>> => sem_items' + PermitCalls' >= Len(queue'),
         count' + AddCalls' >= Len(queue') + TakeCalls'
  PROVE  QueueInv'
<1>1. /\ queuepc' \in [QueueThreads -> QueuePlaces] /\ queuepc'[p] = l
      /\ \A q \in QueueThreads : q # p => queuepc'[q] = queuepc[q]
  BY GotoMoves, Zenon
<1>2. \A q \in QueueThreads :
        /\ queuepc'[q] \in {"r_cas", "x_cas"} => seen'[q] > 0
        /\ queuepc'[q] \in ClearPlaces \union TakePlaces => lock' = q
        /\ queuepc'[q] \in ClearPlaces => queue' = <<>>
  BY <1>1, Zenon DEF QueueInv
<1> QED BY <1>1, <1>2, Zenon DEF QueueInv, QueuePlaces, PermitPlaces, ClearPlaces, TakePlaces

LEMMA SendStep ==
  ASSUME QueueInv, NEW p \in QueueThreads,
         BeginSend(p) \/ Push(p) \/ SendCount(p) \/ SendItems(p)
  PROVE  QueueInv'
<1> USE DEF QueuePlaces, PermitPlaces, ClearPlaces, TakePlaces
<1>1. CASE BeginSend(p)
  <2>1. /\ QueueGoto(p, "s_push") /\ queuepc[p] = "idle"
        /\ UNCHANGED <<queue, lock, count, sem_items, seen>>
    BY <1>1, SMTT(30) DEF BeginSend
  <2>2. PermitCalls' = PermitCalls /\ AddCalls' = AddCalls /\ TakeCalls' = TakeCalls
    BY <2>1, GotoMoves DEF One
  <2> QED BY <2>1, <2>2, QueueKept, Zenon DEF QueueInv
<1>2. CASE Push(p)
  <2>1. PICK priority \in Priorities : queue' = Append(queue, priority)
    BY <1>2 DEF Push
  <2>2. /\ QueueGoto(p, "s_count") /\ queuepc[p] = "s_push" /\ lock = Nobody
        /\ UNCHANGED <<lock, count, sem_items, seen>>
    BY <1>2, SMTT(30) DEF Push
  <2>3. /\ PermitCalls' = PermitCalls + 1 /\ AddCalls' = AddCalls + 1 /\ TakeCalls' = TakeCalls
        /\ PermitCalls \in Nat /\ AddCalls \in Nat /\ TakeCalls \in Nat
    BY <2>2, GotoMoves DEF One
  <2>4. queue' \in Seq(Priorities) /\ Len(queue') = Len(queue) + 1 /\ Len(queue) \in Nat
    BY <2>1 DEF QueueInv
  <2>5. \A q \in QueueThreads : queuepc[q] \notin ClearPlaces
    BY <2>2, QueueAssumption DEF QueueInv
  <2>6. sem_items + (PermitCalls + 1) >= Len(queue) + 1
    <3>1. CASE queue = <<>>
      BY <2>3, <3>1 DEF QueueInv
    <3>2. CASE queue # <<>>
      BY <2>3, <2>4, <3>2, SMTT(30) DEF QueueInv
    <3> QED BY <3>1, <3>2
  <2>7. count + (AddCalls + 1) >= (Len(queue) + 1) + TakeCalls
    BY <2>3, <2>4 DEF QueueInv
  <2> QED BY <2>2, <2>3, <2>4, <2>5, <2>6, <2>7, QueueKept, Zenon DEF QueueInv
<1>3. CASE SendCount(p)
  <2>1. /\ QueueGoto(p, "s_items") /\ queuepc[p] = "s_count" /\ count' = count + 1
        /\ UNCHANGED <<queue, lock, sem_items, seen>>
    BY <1>3, SMTT(30) DEF SendCount
  <2>2. /\ PermitCalls' = PermitCalls /\ AddCalls' = AddCalls - 1 /\ TakeCalls' = TakeCalls
        /\ PermitCalls \in Nat /\ AddCalls \in Nat /\ TakeCalls \in Nat
    BY <2>1, GotoMoves DEF One
  <2>3. count' \in Int /\ count' + AddCalls' >= Len(queue) + TakeCalls
    BY <2>1, <2>2 DEF QueueInv
  <2> QED BY <2>1, <2>2, <2>3, QueueKept, Zenon DEF QueueInv
<1>4. CASE SendItems(p)
  <2>1. /\ QueueGoto(p, "idle") /\ queuepc[p] = "s_items" /\ sem_items' = sem_items + 1
        /\ UNCHANGED <<queue, lock, count, seen>>
    BY <1>4, SMTT(30) DEF SendItems
  <2>2. /\ PermitCalls' = PermitCalls - 1 /\ AddCalls' = AddCalls /\ TakeCalls' = TakeCalls
        /\ PermitCalls \in Nat /\ AddCalls \in Nat /\ TakeCalls \in Nat
    BY <2>1, GotoMoves DEF One
  <2>3. sem_items' \in Nat /\ sem_items' + PermitCalls' = sem_items + PermitCalls
    BY <2>1, <2>2 DEF QueueInv
  <2> QED BY <2>1, <2>2, <2>3, QueueKept, Zenon DEF QueueInv
<1> QED BY <1>1, <1>2, <1>3, <1>4, Zenon

\* A call that has a permit and will not add to the counter is not one of those
\* that will.
LEMMA AddersHavePermits ==
  ASSUME NEW p \in QueueThreads, queuepc[p] \in PermitPlaces \ AddPlaces
  PROVE  AddCalls + 1 <= PermitCalls
<1> DEFINE A == CallsAt(queuepc, AddPlaces)
           P == CallsAt(queuepc, PermitPlaces)
<1>1. IsFiniteSet(A) /\ IsFiniteSet(P) /\ Cardinality(A) \in Nat /\ Cardinality(P) \in Nat
  BY CallsFinite
<1>2. A \subseteq P \ {p} /\ p \in P
  BY DEF CallsAt, AddPlaces, PermitPlaces
<1> HIDE DEF A, P
<1>3. IsFiniteSet(P \ {p}) /\ Cardinality(P \ {p}) = Cardinality(P) - 1
  BY <1>1, <1>2, FS_RemoveElement
<1>4. Cardinality(A) <= Cardinality(P \ {p})
  BY <1>2, <1>3, FS_Subset, SMTT(30)
<1>5. Cardinality(A) + 1 <= Cardinality(P)
  BY <1>1, <1>3, <1>4
<1> QED BY <1>5 DEF A, P, AddCalls, PermitCalls

LEMMA ReceiveStep ==
  ASSUME QueueInv, NEW p \in QueueThreads,
         \/ BeginReceive(p) \/ AcquireItem(p) \/ ReceiveRecheck(p)
         \/ TryItemLoad(p) \/ TryItemCas(p)
  PROVE  QueueInv'
<1> USE DEF QueuePlaces, PermitPlaces, ClearPlaces, TakePlaces
<1>1. CASE BeginReceive(p)
  <2>1. PICK l \in {"r_items", "r_try"} : QueueGoto(p, l)
    BY <1>1 DEF BeginReceive
  <2>2. queuepc[p] = "idle" /\ UNCHANGED <<queue, lock, count, sem_items, seen>>
    BY <1>1, SMTT(30) DEF BeginReceive
  <2>3. PermitCalls' = PermitCalls /\ AddCalls' = AddCalls /\ TakeCalls' = TakeCalls
    BY <2>1, <2>2, GotoMoves DEF One
  <2> QED BY <2>1, <2>2, <2>3, QueueKept, Zenon DEF QueueInv
<1>2. CASE AcquireItem(p)
  <2>1. /\ QueueGoto(p, "r_recheck") /\ queuepc[p] = "r_items"
        /\ sem_items > 0 /\ sem_items' = sem_items - 1
        /\ UNCHANGED <<queue, lock, count, seen>>
    BY <1>2, SMTT(30) DEF AcquireItem
  <2>2. /\ PermitCalls' = PermitCalls + 1 /\ AddCalls' = AddCalls /\ TakeCalls' = TakeCalls
        /\ PermitCalls \in Nat
    BY <2>1, GotoMoves DEF One
  <2>3. sem_items' \in Nat /\ sem_items' + PermitCalls' = sem_items + PermitCalls
    BY <2>1, <2>2 DEF QueueInv
  <2> QED BY <2>1, <2>2, <2>3, QueueKept, Zenon DEF QueueInv
<1>3. CASE ReceiveRecheck(p)
  <2>1. queuepc[p] = "r_recheck" /\ UNCHANGED <<queue, lock, count, sem_items, seen>>
    BY <1>3, Zenon DEF ReceiveRecheck
  <2>2. CASE Drained /\ QueueGoto(p, "idle")
    <3>1. /\ PermitCalls' = PermitCalls - 1 /\ AddCalls' = AddCalls /\ TakeCalls' = TakeCalls
          /\ PermitCalls \in Nat /\ AddCalls \in Nat /\ TakeCalls \in Nat
      BY <2>1, <2>2, GotoMoves DEF One
    <3>2. AddCalls + 1 <= PermitCalls
      BY <2>1, AddersHavePermits DEF AddPlaces
    <3>3. Len(queue) \in Nat /\ count = 0
      BY <2>2 DEF QueueInv, Drained
    <3>4. sem_items + PermitCalls' >= Len(queue)
      BY <3>1, <3>2, <3>3 DEF QueueInv
    <3> QED BY <2>1, <2>2, <3>1, <3>4, QueueKept, Zenon DEF QueueInv
  <2>3. CASE QueueGoto(p, "r_take")
    <3>1. PermitCalls' = PermitCalls /\ AddCalls' = AddCalls /\ TakeCalls' = TakeCalls
      BY <2>1, <2>3, GotoMoves DEF One
    <3> QED BY <2>1, <2>3, <3>1, QueueKept, ZenonT(40) DEF QueueInv
  <2> QED BY <1>3, <2>2, <2>3 DEF ReceiveRecheck
<1>4. CASE TryItemLoad(p)
  <2>1. PICK l \in {"r_cas", "idle"} : QueueGoto(p, l) /\ (l = "r_cas" => sem_items > 0)
    BY <1>4 DEF TryItemLoad
  <2>2. /\ queuepc[p] = "r_try" /\ seen' = [seen EXCEPT ![p] = sem_items]
        /\ UNCHANGED <<queue, lock, count, sem_items>>
    BY <1>4 DEF TryItemLoad
  <2>3. PermitCalls' = PermitCalls /\ AddCalls' = AddCalls /\ TakeCalls' = TakeCalls
    BY <2>1, <2>2, GotoMoves, SMTT(30) DEF One
  <2>4. /\ seen' \in [QueueThreads -> Nat] /\ seen'[p] = sem_items
        /\ \A q \in QueueThreads : q # p => seen'[q] = seen[q]
    BY <2>2 DEF QueueInv
  <2> QED BY <2>1, <2>2, <2>3, <2>4, QueueKept, Zenon DEF QueueInv
<1>5. CASE TryItemCas(p)
  <2>1. /\ queuepc[p] = "r_cas" /\ seen' = [seen EXCEPT ![p] = 0]
        /\ UNCHANGED <<queue, lock, count>>
    BY <1>5 DEF TryItemCas
  <2>2. /\ seen' \in [QueueThreads -> Nat]
        /\ \A q \in QueueThreads : q # p => seen'[q] = seen[q]
    BY <2>1, Zenon DEF QueueInv
  <2>3. CASE sem_items = seen[p] /\ sem_items' = sem_items - 1 /\ QueueGoto(p, "r_take")
    <3>1. /\ PermitCalls' = PermitCalls + 1 /\ AddCalls' = AddCalls /\ TakeCalls' = TakeCalls
          /\ PermitCalls \in Nat
      BY <2>1, <2>3, GotoMoves DEF One
    <3>2. sem_items > 0
      BY <2>1, <2>3 DEF QueueInv
    <3>3. sem_items' \in Nat /\ sem_items' + PermitCalls' = sem_items + PermitCalls
      BY <2>3, <3>1, <3>2 DEF QueueInv
    <3> QED BY <2>1, <2>2, <2>3, <3>1, <3>3, QueueKept, ZenonT(40) DEF QueueInv
  <2>4. CASE UNCHANGED sem_items /\ QueueGoto(p, "idle")
    <3>1. PermitCalls' = PermitCalls /\ AddCalls' = AddCalls /\ TakeCalls' = TakeCalls
      BY <2>1, <2>4, GotoMoves DEF One
    <3> QED BY <2>1, <2>2, <2>4, <3>1, QueueKept, ZenonT(40) DEF QueueInv
  <2> QED BY <1>5, <2>3, <2>4, SMTT(30) DEF TryItemCas
<1> QED BY <1>1, <1>2, <1>3, <1>4, <1>5, Zenon

\* The i-th place is the oldest of the most urgent among the first n.
Oldest(q, i, n) ==
  /\ i \in 1 .. n
  /\ \A j \in 1 .. n : q[j] <= q[i] /\ (q[j] = q[i] => i <= j)

LEMMA OldestOfOne ==
  ASSUME NEW q \in Seq(Int), Len(q) >= 1
  PROVE  Oldest(q, 1, 1)
BY DEF Oldest

LEMMA OldestOfMore ==
  ASSUME NEW q \in Seq(Int), NEW n \in 2 .. Len(q), NEW i, Oldest(q, i, n - 1)
  PROVE  Oldest(q, IF q[n] > q[i] THEN n ELSE i, n)
<1>1. i \in 1 .. n - 1 /\ q[n] \in Int /\ q[i] \in Int
  BY DEF Oldest
<1>2. \A j \in 1 .. n : q[j] \in Int /\ (j \in 1 .. n - 1 \/ j = n)
  OBVIOUS
<1>3. CASE q[n] > q[i]
  <2>1. \A j \in 1 .. n : q[j] <= q[n] /\ (q[j] = q[n] => n <= j)
    BY <1>1, <1>2, <1>3 DEF Oldest
  <2> QED BY <1>3, <2>1 DEF Oldest
<1>4. CASE ~(q[n] > q[i])
  <2>1. \A j \in 1 .. n : q[j] <= q[i] /\ (q[j] = q[i] => i <= j)
    BY <1>1, <1>2, <1>4 DEF Oldest
  <2> QED BY <1>1, <1>4, <2>1 DEF Oldest
<1> QED BY <1>3, <1>4

LEMMA OldestExists ==
  ASSUME NEW q \in Seq(Int)
  PROVE  \A n \in 1 .. Len(q) : \E i : Oldest(q, i, n)
<1> SUFFICES ASSUME NEW m \in 1 .. Len(q), \A i : ~Oldest(q, i, m) PROVE FALSE
  OBVIOUS
<1> DEFINE Bad == {n \in 1 .. Len(q) : \A i : ~Oldest(q, i, n)}
<1>1. Bad \subseteq Nat /\ Bad # {}
  OBVIOUS
<1>2. PICK n \in Bad : \A k \in Bad : n <= k
  <2> HIDE DEF Bad
  <2> QED BY <1>1, LeastNatural
<1>3. n \in 1 .. Len(q) /\ (\A i : ~Oldest(q, i, n)) /\ Len(q) \in Nat
  OBVIOUS
<1>4. n # 1
  BY <1>3, OldestOfOne
<1>5. n - 1 \in 1 .. Len(q) /\ n \in 2 .. Len(q) /\ ~(n <= n - 1)
  BY <1>3, <1>4
<1>6. \E i : Oldest(q, i, n - 1)
  BY <1>2, <1>5, Zenon
<1> QED BY <1>3, <1>5, <1>6, OldestOfMore, Zenon

\* The loop of find_highest_priority() ends with the oldest of the most urgent
\* messages of the deque.
LEMMA FoundIsOldest ==
  ASSUME NEW q \in Seq(Int), Len(q) >= 1
  PROVE  Oldest(q, find_highest_priority(q), Len(q))
<1> DEFINE Loop(f) == [i \in 1 .. Len(q) |->
                         IF i = 1 THEN 1 ELSE IF q[i] > q[f[i - 1]] THEN i ELSE f[i - 1]]
           best == CHOOSE f : f = Loop(f)
           first == [n \in 1 .. Len(q) |-> CHOOSE i : Oldest(q, i, n)]
<1>1. find_highest_priority(q) = best[Len(q)]
  BY DEF find_highest_priority
<1>2. \A n \in 1 .. Len(q) : Oldest(q, first[n], n)
  BY OldestExists
<1>3. \A n \in 1 .. Len(q) : \A i, j : Oldest(q, i, n) /\ Oldest(q, j, n) => i = j
  <2> SUFFICES ASSUME NEW n \in 1 .. Len(q), NEW i, NEW j, Oldest(q, i, n), Oldest(q, j, n)
               PROVE  i = j
    OBVIOUS
  <2>1. i \in 1 .. n /\ j \in 1 .. n /\ q[i] \in Int /\ q[j] \in Int
    BY DEF Oldest
  <2>2. q[i] <= q[j] /\ q[j] <= q[i]
    BY <2>1 DEF Oldest
  <2>3. i <= j /\ j <= i
    BY <2>1, <2>2 DEF Oldest
  <2> QED BY <2>1, <2>3
<1>4. first = Loop(first)
  <2> SUFFICES ASSUME NEW n \in 1 .. Len(q) PROVE first[n] = Loop(first)[n]
    BY Zenon
  <2>1. Loop(first)[n] = IF n = 1 THEN 1 ELSE IF q[n] > q[first[n - 1]] THEN n ELSE first[n - 1]
    OBVIOUS
  <2> HIDE DEF first, Loop
  <2>2. Oldest(q, Loop(first)[n], n)
    <3>1. CASE n = 1
      BY <2>1, <3>1, OldestOfOne
    <3>2. CASE n # 1
      <4>1. n \in 2 .. Len(q) /\ n - 1 \in 1 .. Len(q)
        BY <3>2
      <4> QED BY <1>2, <2>1, <3>2, <4>1, OldestOfMore
    <3> QED BY <3>1, <3>2
  <2> QED BY <1>2, <1>3, <2>2, Zenon
<1> HIDE DEF first
<1>5. best = Loop(best)
  <2> HIDE DEF Loop
  <2> QED BY <1>4
<1> HIDE DEF best
<1> DEFINE Bad == {n \in 1 .. Len(q) : ~Oldest(q, best[n], n)}
<1>6. Bad = {}
  <2> SUFFICES ASSUME Bad # {} PROVE FALSE
    OBVIOUS
  <2>1. Bad \subseteq Nat
    OBVIOUS
  <2>2. PICK n \in Bad : \A k \in Bad : n <= k
    <3> HIDE DEF Bad
    <3> QED BY <2>1, LeastNatural
  <2>3. best[n] = IF n = 1 THEN 1 ELSE IF q[n] > q[best[n - 1]] THEN n ELSE best[n - 1]
    <3>1. best[n] = Loop(best)[n]
      BY <1>5, Zenon
    <3> QED BY <3>1
  <2>4. n # 1
    BY <2>3, OldestOfOne
  <2>5. n - 1 \in 1 .. Len(q) /\ n \in 2 .. Len(q) /\ ~(n <= n - 1)
    BY <2>4
  <2>6. Oldest(q, best[n - 1], n - 1)
    BY <2>2, <2>5
  <2>7. Oldest(q, best[n], n)
    BY <2>3, <2>4, <2>5, <2>6, OldestOfMore
  <2> QED BY <2>7
<1> QED BY <1>1, <1>6

LEMMA QueueOfNumbers ==
  ASSUME QueueInv, queue # <<>>
  PROVE  /\ queue \in Seq(Priorities) /\ queue \in Seq(Int)
         /\ Len(queue) \in Nat /\ Len(queue) >= 1
<1>1. queue \in Seq(Priorities) /\ Len(queue) \in Nat
  BY DEF QueueInv
<1>2. queue \in Seq(Int)
  <2>1. queue = [i \in 1 .. Len(queue) |-> queue[i]]
    BY <1>1
  <2>2. \A i \in 1 .. Len(queue) : queue[i] \in Priorities
    BY <1>1
  <2>3. Priorities \subseteq Int
    BY QueueAssumption
  <2> QED BY <1>1, <2>1, <2>2, <2>3
<1>3. Len(queue) # 0
  BY <1>1
<1> QED BY <1>1, <1>2, <1>3

LEMMA LockedOut ==
  ASSUME QueueInv, lock = Nobody
  PROVE  \A q \in QueueThreads : queuepc[q] \notin ClearPlaces \union TakePlaces
BY QueueAssumption DEF QueueInv

LEMMA TakeStep ==
  ASSUME QueueInv, NEW p \in QueueThreads, Take(p) \/ TakeCount(p)
  PROVE  QueueInv'
<1> USE DEF QueuePlaces, PermitPlaces, ClearPlaces, TakePlaces
<1>1. CASE Take(p) /\ queue = <<>>
  <2>1. /\ QueueGoto(p, "idle") /\ queuepc[p] = "r_take"
        /\ UNCHANGED <<queue, lock, count, sem_items, seen>>
    BY <1>1 DEF Take
  <2>2. AddCalls' = AddCalls /\ TakeCalls' = TakeCalls
    BY <2>1, GotoMoves DEF One
  <2> QED BY <1>1, <2>1, <2>2, QueueKept, Zenon DEF QueueInv
<1>2. CASE Take(p) /\ queue # <<>>
  <2>1. /\ QueueGoto(p, "r_count") /\ queuepc[p] = "r_take" /\ lock = Nobody /\ lock' = p
        /\ UNCHANGED <<count, sem_items, seen>>
    BY <1>2 DEF Take
  <2>2. PICK i : /\ i = find_highest_priority(queue)
                 /\ queue' = SubSeq(queue, 1, i - 1) \o SubSeq(queue, i + 1, Len(queue))
    BY <1>2, Zenon DEF Take
  <2>3. queue \in Seq(Priorities) /\ queue \in Seq(Int) /\ Len(queue) \in Nat /\ Len(queue) >= 1
    BY <1>2, QueueOfNumbers
  <2>4. i \in 1 .. Len(queue)
    BY <2>2, <2>3, FoundIsOldest DEF Oldest
  <2>5. queue' \in Seq(Priorities) /\ Len(queue') = Len(queue) - 1
    BY <2>2, <2>3, <2>4, WithoutPlace, Zenon
  <2>6. /\ PermitCalls' = PermitCalls - 1 /\ AddCalls' = AddCalls /\ TakeCalls' = TakeCalls + 1
        /\ PermitCalls \in Nat /\ AddCalls \in Nat /\ TakeCalls \in Nat
    BY <2>1, GotoMoves DEF One
  <2>7. sem_items + PermitCalls' >= Len(queue') /\ count + AddCalls' >= Len(queue') + TakeCalls'
    BY <1>2, <2>3, <2>5, <2>6 DEF QueueInv
  <2> QED BY <2>1, <2>5, <2>6, <2>7, LockedOut, QueueKept, Zenon DEF QueueInv
<1>3. CASE TakeCount(p)
  <2>1. /\ QueueGoto(p, "idle") /\ queuepc[p] = "r_count" /\ count' = count - 1 /\ lock' = Nobody
        /\ UNCHANGED <<queue, sem_items, seen>>
    BY <1>3 DEF TakeCount
  <2>2. /\ PermitCalls' = PermitCalls /\ AddCalls' = AddCalls /\ TakeCalls' = TakeCalls - 1
        /\ PermitCalls \in Nat /\ AddCalls \in Nat /\ TakeCalls \in Nat
    BY <2>1, GotoMoves DEF One
  <2>3. Len(queue) \in Nat /\ count \in Int
    BY DEF QueueInv
  <2>4. count' \in Int /\ count' + AddCalls' >= Len(queue) + TakeCalls'
    BY <2>1, <2>2, <2>3 DEF QueueInv
  <2>5. \A q \in QueueThreads : q # p => queuepc[q] \notin ClearPlaces \union TakePlaces
    BY <2>1 DEF QueueInv
  <2> QED BY <2>1, <2>2, <2>4, <2>5, QueueKept, Zenon DEF QueueInv
<1> QED BY <1>1, <1>2, <1>3, Zenon DEF Take

LEMMA CloseQueueStep ==
  ASSUME QueueInv, NEW p \in QueueThreads, Close(p) \/ CloseItems(p)
  PROVE  QueueInv'
<1> USE DEF QueuePlaces, PermitPlaces, ClearPlaces, TakePlaces
<1>1. CASE Close(p)
  <2>1. /\ QueueGoto(p, "k_items") /\ queuepc[p] = "idle"
        /\ UNCHANGED <<queue, lock, count, sem_items, seen>>
    BY <1>1, Zenon DEF Close
  <2>2. PermitCalls' = PermitCalls /\ AddCalls' = AddCalls /\ TakeCalls' = TakeCalls
    BY <2>1, GotoMoves DEF One
  <2> QED BY <2>1, <2>2, QueueKept, Zenon DEF QueueInv
<1>2. CASE CloseItems(p)
  <2>1. PICK l \in {"k_items", "idle"} : QueueGoto(p, l)
    BY <1>2 DEF CloseItems
  <2>2. /\ queuepc[p] = "k_items" /\ sem_items' = sem_items + 1
        /\ UNCHANGED <<queue, lock, count, seen>>
    BY <1>2, SMTT(30) DEF CloseItems
  <2>3. /\ PermitCalls' = PermitCalls /\ AddCalls' = AddCalls /\ TakeCalls' = TakeCalls
        /\ PermitCalls \in Nat
    BY <2>1, <2>2, GotoMoves DEF One
  <2>4. /\ sem_items' \in Nat
        /\ queue # <<>> => sem_items' + PermitCalls' >= Len(queue)
    <3>1. Len(queue) \in Nat
      BY DEF QueueInv
    <3> QED BY <2>2, <2>3, <3>1 DEF QueueInv
  <2> QED BY <2>1, <2>2, <2>3, <2>4, QueueKept, Zenon DEF QueueInv
<1> QED BY <1>1, <1>2, Zenon

\* While clear() has the mutex no receiver is about to take from the counter.
LEMMA NoTakeInClear ==
  ASSUME QueueInv, NEW p \in QueueThreads, queuepc[p] \in ClearPlaces
  PROVE  /\ TakeCalls = 0 /\ queue = <<>>
         /\ \A q \in QueueThreads : q # p => queuepc[q] \notin ClearPlaces \union TakePlaces
<1>1. \A q \in QueueThreads : q # p => queuepc[q] \notin ClearPlaces \union TakePlaces
  BY DEF QueueInv
<1>2. CallsAt(queuepc, TakePlaces) = {}
  BY <1>1 DEF CallsAt, ClearPlaces, TakePlaces
<1> QED BY <1>1, <1>2, FS_EmptySet DEF TakeCalls, QueueInv

LEMMA ClearStep ==
  ASSUME QueueInv, NEW p \in QueueThreads,
         Clear(p) \/ ClearCount(p) \/ ClearLoad(p) \/ ClearCas(p)
  PROVE  QueueInv'
<1> USE DEF QueuePlaces, PermitPlaces, ClearPlaces, TakePlaces
<1>1. <<>> \in Seq(Priorities) /\ Len(<<>>) = 0
  OBVIOUS
<1>2. CASE Clear(p)
  <2>1. /\ QueueGoto(p, "x_count") /\ queuepc[p] = "idle" /\ lock = Nobody /\ lock' = p
        /\ queue' = <<>> /\ UNCHANGED <<count, sem_items, seen>>
    BY <1>2, Zenon DEF Clear
  <2>2. /\ AddCalls' = AddCalls /\ TakeCalls' = TakeCalls
        /\ AddCalls \in Nat /\ TakeCalls \in Nat
    BY <2>1, GotoMoves DEF One
  <2>3. count + AddCalls >= 0 + TakeCalls
    <3>1. Len(queue) \in Nat
      BY DEF QueueInv
    <3> QED BY <2>2, <3>1 DEF QueueInv
  <2> QED BY <1>1, <2>1, <2>2, <2>3, LockedOut, QueueKept, Zenon DEF QueueInv
<1>3. CASE ClearCount(p) \/ ClearLoad(p) \/ ClearCas(p)
  <2>1. queuepc[p] \in ClearPlaces
    BY <1>3, Zenon DEF ClearCount, ClearLoad, ClearCas
  <2>2. queue = <<>> /\ UNCHANGED queue /\ TakeCalls = 0 /\ lock = p
        /\ \A q \in QueueThreads : q # p => queuepc[q] \notin ClearPlaces \union TakePlaces
    BY <1>3, <2>1, NoTakeInClear, Zenon DEF ClearCount, ClearLoad, ClearCas, QueueInv
  <2>3. PICK l \in {"x_try", "x_cas", "idle"} :
          /\ QueueGoto(p, l) /\ (l # "idle" => lock' = lock)
          /\ l = "x_cas" => ClearLoad(p) /\ sem_items > 0
    BY <1>3, Zenon DEF ClearCount, ClearLoad, ClearCas, ClearGoesOn
  <2>4. AddCalls' = AddCalls /\ TakeCalls' = TakeCalls /\ AddCalls \in Nat
    BY <2>1, <2>3, GotoMoves DEF One
  <2>5. count' \in Int /\ (count' = 0 \/ count' = count)
    <3>1. count \in Int /\ 0 \in Int
      BY DEF QueueInv
    <3>2. count' = 0 \/ count' = count
      BY <1>3, Zenon DEF ClearCount, ClearLoad, ClearCas
    <3> QED BY <3>1, <3>2, Zenon
  <2>6. count' + AddCalls' >= 0 + TakeCalls'
    <3>1. count \in Int /\ Len(queue) = 0 /\ count + AddCalls >= Len(queue) + TakeCalls
      BY <2>2 DEF QueueInv
    <3>2. CASE count' = 0
      BY <2>2, <2>4, <3>2
    <3>3. CASE count' = count
      BY <2>2, <2>4, <3>1, <3>3, Zenon
    <3> QED BY <2>5, <3>2, <3>3
  <2>7. /\ seen' \in [QueueThreads -> Nat]
        /\ \A q \in QueueThreads : q # p => seen'[q] = seen[q]
        /\ ClearLoad(p) /\ sem_items > 0 => seen'[p] = sem_items
    <3>1. seen \in [QueueThreads -> Nat] /\ sem_items \in Nat /\ 0 \in Nat
      BY DEF QueueInv
    <3>2. \/ seen' = seen /\ ~(ClearLoad(p) /\ sem_items > 0)
          \/ seen' = [seen EXCEPT ![p] = sem_items]
          \/ seen' = [seen EXCEPT ![p] = 0] /\ ~ClearLoad(p)
      BY <1>3, Zenon DEF ClearCount, ClearLoad, ClearCas
    <3> QED BY <3>1, <3>2, Zenon
  <2>8. sem_items' \in Nat
    <3>1. \/ sem_items' = sem_items
          \/ queuepc[p] = "x_cas" /\ sem_items' = sem_items - 1 /\ sem_items = seen[p]
      BY <1>3, Zenon DEF ClearCount, ClearLoad, ClearCas
    <3>2. sem_items \in Nat /\ (queuepc[p] = "x_cas" => seen[p] > 0)
      BY Zenon DEF QueueInv
    <3> QED BY <3>1, <3>2
  <2> QED BY <1>1, <2>2, <2>3, <2>5, <2>6, <2>7, <2>8, QueueKept, Zenon DEF QueueInv
<1> QED BY <1>2, <1>3

LEMMA QueueInvariant == QueueSpec => []QueueInv
<1>1. QueueInit => QueueInv
  <2> SUFFICES ASSUME QueueInit PROVE QueueInv
    OBVIOUS
  <2>1. queuepc = [p \in QueueThreads |-> "idle"] /\ queue = <<>> /\ count = 0 /\ sem_items = 0
    BY DEF QueueInit
  <2>2. CallsAt(queuepc, AddPlaces) = {} /\ CallsAt(queuepc, TakePlaces) = {}
    BY <2>1 DEF CallsAt, AddPlaces, TakePlaces
  <2>3. AddCalls = 0 /\ TakeCalls = 0
    BY <2>2, FS_EmptySet DEF AddCalls, TakeCalls
  <2>4. /\ queuepc \in [QueueThreads -> QueuePlaces] /\ seen \in [QueueThreads -> Nat]
        /\ queue \in Seq(Priorities) /\ Len(queue) = 0
    BY <2>1 DEF QueueInit, QueuePlaces
  <2>5. \A p \in QueueThreads : queuepc[p] = "idle"
    BY <2>1
  <2> QED BY <2>1, <2>3, <2>4, <2>5 DEF QueueInv, ClearPlaces, TakePlaces
<1>2. QueueInv /\ [QueueNext]_queueVars => QueueInv'
  <2> SUFFICES ASSUME QueueInv, [QueueNext]_queueVars PROVE QueueInv'
    OBVIOUS
  <2>1. CASE QueueNext
    BY <2>1, SendStep, ReceiveStep, TakeStep, CloseQueueStep, ClearStep, Zenon DEF QueueNext
  <2>2. CASE UNCHANGED queueVars
    <3>1. PermitCalls' = PermitCalls /\ AddCalls' = AddCalls /\ TakeCalls' = TakeCalls
      BY <2>2 DEF queueVars, PermitCalls, AddCalls, TakeCalls, CallsAt
    <3> QED BY <2>2, <3>1
            DEF QueueInv, queueVars, QueuePlaces, PermitPlaces, ClearPlaces, TakePlaces
  <2> QED BY <2>1, <2>2
<1> QED BY <1>1, <1>2, PTL DEF QueueSpec

\* Whatever the queue holds, receive() takes the oldest of its most urgent
\* messages, for any number of messages.
THEOREM ReceiveIsByUrgency == QueueSpec => []OldestOfMostUrgent
<1>1. QueueInv => OldestOfMostUrgent
  <2> SUFFICES ASSUME QueueInv, queue # <<>>
               PROVE  LET i == find_highest_priority(queue)
                      IN  \A j \in 1 .. Len(queue) :
                            queue[j] <= queue[i] /\ (queue[j] = queue[i] => i <= j)
    BY DEF OldestOfMostUrgent
  <2>1. queue \in Seq(Int) /\ Len(queue) >= 1
    BY QueueOfNumbers
  <2> QED BY <2>1, FoundIsOldest DEF Oldest
<1> QED BY <1>1, QueueInvariant, PTL

\* When no call is in between, every message left in the queue has a permit and
\* the queue does not look drained, also after close(): it can be received.
THEOREM ClosedQueueDrains == QueueSpec => []RemainingReceivable
<1>1. QueueInv => RemainingReceivable
  <2> SUFFICES ASSUME QueueInv, Quiet, queue # <<>>
               PROVE  ~Drained /\ sem_items >= Len(queue)
    BY DEF RemainingReceivable
  <2>1. /\ CallsAt(queuepc, AddPlaces) = {} /\ CallsAt(queuepc, TakePlaces) = {}
        /\ CallsAt(queuepc, PermitPlaces) = {}
    BY DEF Quiet, CallsAt, AddPlaces, TakePlaces, PermitPlaces
  <2>2. AddCalls = 0 /\ TakeCalls = 0 /\ PermitCalls = 0
    BY <2>1, FS_EmptySet DEF AddCalls, TakeCalls, PermitCalls
  <2>3. Len(queue) \in Nat /\ Len(queue) >= 1
    BY DEF QueueInv
  <2> QED BY <2>2, <2>3 DEF QueueInv, Drained
<1> QED BY <1>1, QueueInvariant, PTL
=============================================================================
