------------------------------ MODULE MCMemory ------------------------------
(***************************************************************************)
(* The memory of the kernel and what is put into it.  The initial state    *)
(* picks the frame allocator by itself, with callers that take and return  *)
(* runs of any length, the allocator under the module loader, the image of *)
(* one module, the page tables, or booting from a device tree.             *)
(***************************************************************************)
EXTENDS ModuleLoader, ModuleImage, Platform, TLC

CONSTANTS FAN, RamStarts, MappedSizes, MmioPages, HIGH, FrameCounts

\* The state of the tables, None when they are not needed: t1 is the first
\* variable that PageTables declares, and so on.
VARIABLES subject, t1, t2, t3, t4, t5, t6, t7

P == INSTANCE PageTables WITH
       RamSizes <- MappedSizes, arch <- t1, ram <- t2, frames <- t3,
       tables <- t4, todo <- t5, result <- t6, made <- t7

\* Where the kernel's symbols are, seen from a module.
Addresses == "near" :> 17 @@ "far" :> 60 @@ "low" :> 3
Mmio == <<4, 6, 9, 17>>
CompatibleValues == {<<"other-virt", "dummy-virt", "pl011">>, <<"primecell">>}
CellValues == {[address |-> 2, size |-> 2]}

\* Two boards as the two AArch64 boards of the kernel, which have the same
\* strings, and one of another family.
Boards ==
  LET strings == {"dummy-virt", "qemu-virt"}
  IN  <<[name |-> "virt", compatible |-> strings, smp_capable |-> FALSE],
        [name |-> "virt-smp", compatible |-> strings, smp_capable |-> TRUE],
        [name |-> "other", compatible |-> {"other-virt"}, smp_capable |-> FALSE]>>
Looked == [uart |-> <<"primecell", "pl011">>, irq |-> <<"gic-400">>]

tablesVars == <<t1, t2, t3, t4, t5, t6, t7>>

MCInit ==
  /\ subject \in {"frames", "loader", "image", "tables", "boot"}
  /\ Init /\ ImageInit /\ PlatformInit
  /\ subject # "image" => arch = "riscv64"
  /\ IF subject = "tables" THEN P!Init
     ELSE /\ t1 = None /\ t2 = None /\ t3 = None /\ t4 = None
          /\ t5 = None /\ t6 = None /\ t7 = None

\* The callers that are no modules take and return runs of any length.
FramesNext == \E c \in Callers \ Modules : FrameStep(c)

aboveFrames == <<loaderVars, imageVars, tablesVars, dtbVars, bootVars>>
besideImage == <<frameVars, loaderVars, tablesVars, dtbVars, bootVars>>
besideTables == <<frameVars, loaderVars, imageVars, dtbVars, bootVars>>
besideBoot == <<frameVars, loaderVars, imageVars, tablesVars>>

MCNext ==
  /\ UNCHANGED subject
  /\ \/ subject = "frames" /\ FramesNext /\ UNCHANGED aboveFrames
     \/ subject = "loader" /\ Next /\ UNCHANGED <<imageVars, tablesVars, dtbVars, bootVars>>
     \/ subject = "image" /\ ImageNext /\ UNCHANGED besideImage
     \/ subject = "tables" /\ P!Next /\ UNCHANGED besideTables
     \/ subject = "boot" /\ PlatformNext /\ UNCHANGED besideBoot

MCSpec == MCInit /\ [][MCNext]_<<subject, frameVars, aboveFrames>>

\* The threads that load and unload are alike.
Symmetry == Permutations(Threads)

\* The local variables of alloc_pages() when its loop ends.
Turns(count) ==
  LET turn[k \in 0 .. total_pages] ==
        IF k = 0
        THEN [start_page |-> next_search, consecutive |-> 0, first_page |-> 0,
              done |-> FALSE]
        ELSE LET t == turn[k - 1]
                 wrap == t.start_page >= total_pages
                 page == IF wrap THEN 0 ELSE t.start_page
                 run == IF wrap THEN 0 ELSE t.consecutive
                 first == IF run = 0 THEN page ELSE t.first_page
             IN  IF t.done THEN t
                 ELSE IF page \in used
                 THEN [t EXCEPT !.start_page = page + 1, !.consecutive = 0]
                 ELSE [start_page |-> page + 1, consecutive |-> run + 1,
                       first_page |-> first, done |-> run + 1 = count]
  IN  turn[total_pages]

\* What the allocator is modelled to find is what the loop of alloc_pages()
\* finds, in every state and for every size.  (The loader reaches no states of
\* the allocator that it does not reach by itself.)
FoundIsTheLoop ==
  subject = "frames" => \A count \in 1 .. total_pages :
    LET t == Turns(count)
    IN  Found(count) = IF t.done THEN {t.first_page} ELSE {}

\* The tables translate what was mapped and no more: see PageTables.
AddressSpaceExact == subject = "tables" => P!AddressSpaceExact
=============================================================================
