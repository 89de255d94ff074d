--------------------------- MODULE FrameAllocator ---------------------------
(***************************************************************************)
(* The page frame allocator of src/src/mm/page.rs: a bitmap, a position    *)
(* where the next search starts, and a counter, all under one mutex, so    *)
(* each call is one step.  Pages are numbered from the base address.       *)
(***************************************************************************)
EXTENDS Integers, FiniteSets

CONSTANTS total_pages,
          Callers       \* the kernel code that holds frames

\* page::init() refuses less than two pages.
ASSUME FramesAssumption == total_pages \in Nat /\ total_pages >= 2

VARIABLES used,             \* pages whose bit is set in the bitmap
          next_search,
          allocated_count,
          held              \* the frames each caller was given and has not freed

frameVars == <<used, next_search, allocated_count, held>>

Pages == 0 .. total_pages - 1
Run(first, count) == first .. first + count - 1

\* The pages of the bitmap itself: one bit per page, in words of 8 bytes.
bitmap_pages == ((((total_pages + 63) \div 64) * 8) + 4095) \div 4096

FrameInit ==
  /\ used = Run(0, bitmap_pages)
  /\ next_search = bitmap_pages
  /\ allocated_count = bitmap_pages
  /\ held = [c \in Callers |-> {}]

-----------------------------------------------------------------------------
\* The page looked at in the k-th turn of the loop of alloc_pages().
Start == IF next_search >= total_pages THEN 0 ELSE next_search
Examined(k) == IF Start + k >= total_pages THEN Start + k - total_pages ELSE Start + k

\* The loop stops in turn k when the last count turns saw consecutive free
\* pages; the run starts over at the wrap to page 0.
Fits(k, count) ==
  /\ k >= count - 1 /\ Examined(k) >= count - 1
  /\ \A i \in 0 .. count - 1 : Examined(k) - i \notin used

Found_Any(count) ==
  {Examined(k) - count + 1 : k \in {j \in Pages : Fits(j, count)}}

\* The first page alloc_pages() takes: none, or the run of the first turn that
\* completes one.
Found(count) ==
  {Examined(k) - count + 1 :
     k \in {j \in Pages : Fits(j, count) /\ \A i \in 0 .. j - 1 : ~Fits(i, count)}}

\* alloc_pages() that succeeds; the caller holds the frames from then on.
AllocPages(c, count) ==
  \E first \in Found(count) :
    /\ used' = used \cup Run(first, count)
    /\ allocated_count' = allocated_count + count
    /\ next_search' = first + count
    /\ held' = [held EXCEPT ![c] = @ \cup Run(first, count)]

\* alloc_pages() that returns None.
AllocFails(count) == Found(count) = {} /\ UNCHANGED frameVars

Minus(n, count) == IF n < count THEN 0 ELSE n - count   \* repeated saturating_sub(1)

FreePages_CountedOnce(c, first, count) ==
  /\ Run(first, count) \subseteq held[c]
  /\ used' = used \ Run(first, count)
  /\ allocated_count' = Minus(allocated_count, 1)
  /\ next_search' = IF first < next_search THEN first ELSE next_search
  /\ held' = [held EXCEPT ![c] = @ \ Run(first, count)]

FreePages_OneMore(c, first, count) ==
  /\ Run(first, count) \subseteq held[c]
  /\ used' = used \ Run(first, count + 1)
  /\ allocated_count' = Minus(allocated_count, count)
  /\ next_search' = IF first < next_search THEN first ELSE next_search
  /\ held' = [held EXCEPT ![c] = @ \ Run(first, count)]

\* free_pages() with frames its caller holds, as its safety contract demands.
FreePages(c, first, count) ==
  /\ Run(first, count) \subseteq held[c]
  /\ used' = used \ Run(first, count)
  /\ allocated_count' = Minus(allocated_count, count)
  /\ next_search' = IF first < next_search THEN first ELSE next_search
  /\ held' = [held EXCEPT ![c] = @ \ Run(first, count)]

\* What a caller may do next.
FrameStep(c) ==
  \E count \in 1 .. total_pages :
    \/ AllocPages(c, count) \/ AllocFails(count)
    \/ \E first \in Pages : FreePages(c, first, count)

FrameNext == \E c \in Callers : FrameStep(c)

FrameSpec == FrameInit /\ [][FrameNext]_frameVars

-----------------------------------------------------------------------------
(* Properties *)

\* Every variable stays in its type.
FrameTypeOK ==
  /\ used \subseteq Pages
  /\ next_search \in 0 .. total_pages
  /\ allocated_count \in 0 .. total_pages
  /\ held \in [Callers -> SUBSET Pages]

\* The counter that stats() reports is the number of set bits.
CountIsExact == allocated_count = Cardinality(used)

\* No frame is given to two callers, none that the bitmap occupies is given to
\* anybody, and a set bit is a frame that somebody holds: nothing leaks inside
\* the allocator.
FramesHeldOnce ==
  /\ \A c, d \in Callers : c # d => held[c] \cap held[d] = {}
  /\ \A c \in Callers : held[c] \cap Run(0, bitmap_pages) = {}
  /\ used = Run(0, bitmap_pages) \cup UNION {held[c] : c \in Callers}

\* alloc() of a single frame fails only when all frames are in use, wherever
\* the search starts.
SingleFrameFound == Found(1) = {} => used = Pages

\* alloc_pages() returns None only when there are not count consecutive free
\* pages.
RunFound ==
  \A count \in 1 .. total_pages :
    Found(count) = {} =>
      ~ \E first \in 0 .. total_pages - count : Run(first, count) \cap used = {}

=============================================================================
