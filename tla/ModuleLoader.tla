---------------------------- MODULE ModuleLoader ----------------------------
(***************************************************************************)
(* Loading, referencing and unloading kernel modules, src/src/module/      *)
(* loader.rs, on top of the frame allocator.  A step is a call of the      *)
(* allocator, an atomic access, or a section under LOADED_MODULES.         *)
(*                                                                         *)
(* The contents of a module play no part: an object is the number of pages *)
(* it needs, and parsing, relocation and module_init() succeed or fail.    *)
(* The m-th load is module m, and the frames it allocates are held by m.   *)
(***************************************************************************)
EXTENDS FrameAllocator, Sequences

CONSTANTS Threads, Names,
          Builtin,       \* the name of the builtin test module
          MaxModules,    \* bound: loads that are started
          MaxPages,      \* bound: pages of an object, its PLT page included
          None, Other    \* Other: the kernel code that holds the other frames

ASSUME LoadsAssumption == MaxModules \in Nat

Modules == 1 .. MaxModules

ASSUME HoldersAssumption == Modules \subseteq Callers /\ Other \in Callers \ Modules

VARIABLES
  list,        \* LOADED_MODULES
  writer,      \* holder of its write lock between two steps, or None
  loads,       \* loads started so far
  name,        \* the name of each module
  pages,       \* LoadedModule::pages, in the order they were allocated
  ref_count, unloading,
  pc,          \* where each thread is
  mod,         \* the module its call works on
  arg,         \* the name its call was given
  need,        \* the pages its load has still to allocate
  ref          \* the module it holds a ModuleRef for, or None

loaderVars == <<list, writer, loads, name, pages, ref_count, unloading,
                pc, mod, arg, need, ref>>

Init ==
  /\ FrameInit
  /\ list = <<>> /\ writer = None /\ loads = 0
  /\ name = [m \in Modules |-> None] /\ pages = [m \in Modules |-> <<>>]
  /\ ref_count = [m \in Modules |-> 0]
  /\ unloading = [m \in Modules |-> FALSE]
  /\ pc = [p \in Threads |-> "idle"] /\ mod = [p \in Threads |-> None]
  /\ arg = [p \in Threads |-> None] /\ need = [p \in Threads |-> 0]
  /\ ref = [p \in Threads |-> None]

Goto(p, l) == pc' = [pc EXCEPT ![p] = l]
Done(p) ==
  /\ Goto(p, "idle")
  /\ mod' = [mod EXCEPT ![p] = None] /\ arg' = [arg EXCEPT ![p] = None]

\* The first module with the name, in a set of none or one.
Find(n) ==
  {list[i] : i \in {j \in 1 .. Len(list) :
     name[list[j]] = n /\ \A k \in 1 .. j - 1 : name[list[k]] # n}}

\* The read lock can be taken; acquire() is the one that keeps it for a step.
CanRead == writer = None
CanWrite == writer = None /\ \A p \in Threads : pc[p] # "acquire"

Pages_(m) == {pages[m][i] : i \in 1 .. Len(pages[m])}

-----------------------------------------------------------------------------
(* load_object() and builtin::load_test_module() *)

LoadObject(p) ==
  /\ pc[p] = "idle" /\ loads < MaxModules
  /\ loads' = loads + 1
  /\ mod' = [mod EXCEPT ![p] = loads + 1]
  /\ \E n \in Names, k \in 1 .. MaxPages :
       /\ name' = [name EXCEPT ![loads + 1] = n]
       /\ need' = [need EXCEPT ![p] = k]
  /\ Goto(p, "alloc")
  /\ UNCHANGED <<list, writer, pages, ref_count, unloading, arg, ref, frameVars>>

LoadTestModule(p) ==
  /\ pc[p] = "idle" /\ loads < MaxModules
  /\ loads' = loads + 1
  /\ mod' = [mod EXCEPT ![p] = loads + 1]
  /\ name' = [name EXCEPT ![loads + 1] = Builtin]
  /\ need' = [need EXCEPT ![p] = 1]
  /\ Goto(p, "builtin")
  /\ UNCHANGED <<list, writer, pages, ref_count, unloading, arg, ref, frameVars>>

\* alloc_frame(), once for each page.
LoadAlloc(p) ==
  /\ pc[p] \in {"alloc", "builtin"}
  /\ AllocPages(mod[p], 1)
  /\ \E first \in Found(1) : pages' = [pages EXCEPT ![mod[p]] = Append(@, first)]
  /\ need' = [need EXCEPT ![p] = @ - 1]
  /\ Goto(p, IF pc[p] = "builtin" THEN "publish" ELSE IF need[p] > 1 THEN "alloc" ELSE "fill")
  /\ UNCHANGED <<list, writer, loads, name, ref_count, unloading, mod, arg, ref>>

\* Out of memory: the pages allocated so far are to be freed.
LoadAllocFails(p) ==
  /\ pc[p] \in {"alloc", "builtin"}
  /\ AllocFails(1)
  /\ need' = [need EXCEPT ![p] = 0]
  /\ IF pages[mod[p]] = <<>> THEN Done(p)
     ELSE Goto(p, "undo") /\ UNCHANGED <<mod, arg>>
  /\ UNCHANGED <<list, writer, loads, name, pages, ref_count, unloading, ref>>

\* The area is cleared and the sections copied; then apply_relocations(), whose
\* error leaves the function at once.
LoadFill(p) ==
  /\ pc[p] = "fill"
  /\ (Goto(p, "init") /\ UNCHANGED <<mod, arg>>) \/ Done(p)
  /\ UNCHANGED <<list, writer, loads, name, pages, ref_count, unloading, need, ref,
                 frameVars>>

LoadInit_PublishesAnyway(p) ==
  /\ pc[p] = "init"
  /\ Goto(p, "publish")
  /\ UNCHANGED <<list, writer, loads, name, pages, ref_count, unloading, mod, arg, need, ref>>
  /\ FreePages(mod[p], pages[mod[p]][1], 1) \/ UNCHANGED frameVars

\* module_init() returns 0, or the pages are to be freed.
LoadInit(p) ==
  /\ pc[p] = "init"
  /\ Goto(p, "publish") \/ Goto(p, "undo")
  /\ UNCHANGED <<list, writer, loads, name, pages, ref_count, unloading, mod, arg, need,
                 ref, frameVars>>

LoadPublish(p) ==
  /\ pc[p] = "publish" /\ CanWrite
  /\ list' = Append(list, mod[p])
  /\ Done(p)
  /\ UNCHANGED <<writer, loads, name, pages, ref_count, unloading, need, ref, frameVars>>

\* free_frame() for the first page that is left.
FreeOne(m) ==
  /\ FreePages(m, Head(pages[m]), 1)
  /\ pages' = [pages EXCEPT ![m] = Tail(@)]

LoadUndo(p) ==
  /\ pc[p] = "undo"
  /\ FreeOne(mod[p])
  /\ IF Len(pages[mod[p]]) = 1 THEN Done(p) ELSE UNCHANGED <<pc, mod, arg>>
  /\ UNCHANGED <<list, writer, loads, name, ref_count, unloading, need, ref>>

-----------------------------------------------------------------------------
(* acquire() and ModuleRef; the bound is one reference per thread *)

\* try_get() looks at the flag, under the read lock that acquire() holds ...
Acquire(p) ==
  /\ pc[p] = "idle" /\ ref[p] = None /\ CanRead
  /\ \E n \in Names : \E m \in Find(n) :
       /\ ~unloading[m]
       /\ mod' = [mod EXCEPT ![p] = m]
  /\ Goto(p, "acquire")
  /\ UNCHANGED <<list, writer, loads, name, pages, ref_count, unloading, arg, need, ref,
                 frameVars>>

\* ... and counts the reference.
AcquireCount(p) ==
  /\ pc[p] = "acquire"
  /\ ref_count' = [ref_count EXCEPT ![mod[p]] = @ + 1]
  /\ ref' = [ref EXCEPT ![p] = mod[p]]
  /\ Done(p)
  /\ UNCHANGED <<list, writer, loads, name, pages, unloading, need, frameVars>>

\* ModuleRef::drop() looks the name up, with get(), ...
DropRef(p) ==
  /\ pc[p] = "idle" /\ ref[p] # None /\ CanRead
  /\ IF Find(name[ref[p]]) = {} THEN UNCHANGED <<pc, mod>>
     ELSE /\ \E m \in Find(name[ref[p]]) : mod' = [mod EXCEPT ![p] = m]
          /\ Goto(p, "drop")
  /\ ref' = [ref EXCEPT ![p] = None]
  /\ UNCHANGED <<list, writer, loads, name, pages, ref_count, unloading, arg, need, frameVars>>

\* ... and counts down what it found, after get() released the lock.
DropCount(p) ==
  /\ pc[p] = "drop"
  /\ ref_count' = [ref_count EXCEPT ![mod[p]] = @ - 1]
  /\ Done(p)
  /\ UNCHANGED <<list, writer, loads, name, pages, unloading, need, ref, frameVars>>

-----------------------------------------------------------------------------
(* unload() and unload_wait() *)

UnloadFlag_NotExclusive(p) ==
  /\ pc[p] = "idle" /\ CanRead
  /\ \E n \in Names : \E m \in Find(n) :
       /\ unloading' = [unloading EXCEPT ![m] = TRUE]
       /\ mod' = [mod EXCEPT ![p] = m]
       /\ arg' = [arg EXCEPT ![p] = n]
  /\ Goto(p, "check") \/ Goto(p, "wait")
  /\ UNCHANGED <<list, writer, loads, name, pages, ref_count, need, ref, frameVars>>

\* Phase 1: the flag is swapped in; a flag that was up ends the call.
UnloadFlag(p) ==
  /\ pc[p] = "idle" /\ CanRead
  /\ \E n \in Names : \E m \in Find(n) :
       /\ ~unloading[m]
       /\ unloading' = [unloading EXCEPT ![m] = TRUE]
       /\ mod' = [mod EXCEPT ![p] = m]
       /\ arg' = [arg EXCEPT ![p] = n]
  /\ Goto(p, "check") \/ Goto(p, "wait")
  /\ UNCHANGED <<list, writer, loads, name, pages, ref_count, need, ref, frameVars>>

\* Phase 2: the name is looked up again.  No references: on to phase 3.  A
\* count below 0 stands for the wrapped usize.
UnloadUnused(p) ==
  /\ pc[p] \in {"check", "wait"} /\ CanRead
  /\ \E m \in Find(arg[p]) : ref_count[m] = 0
  /\ Goto(p, "write")
  /\ UNCHANGED <<list, writer, loads, name, pages, ref_count, unloading, mod, arg, need,
                 ref, frameVars>>

\* Still referenced: unload() takes the flag back at once ...
UnloadInUse(p) ==
  /\ pc[p] = "check" /\ CanRead
  /\ \E m \in Find(arg[p]) :
       ref_count[m] # 0 /\ unloading' = [unloading EXCEPT ![m] = FALSE]
  /\ Done(p)
  /\ UNCHANGED <<list, writer, loads, name, pages, ref_count, need, ref, frameVars>>

\* ... and unload_wait() in a section of its own, when its time is up.
UnloadTimeout(p) ==
  /\ pc[p] = "wait" /\ CanRead
  /\ \E m \in Find(arg[p]) : ref_count[m] # 0
  /\ Goto(p, "timeout")
  /\ UNCHANGED <<list, writer, loads, name, pages, ref_count, unloading, mod, arg, need,
                 ref, frameVars>>

UnloadGiveUp(p) ==
  /\ pc[p] = "timeout" /\ CanRead
  /\ unloading' = [m \in Modules |-> unloading[m] /\ m \notin Find(arg[p])]
  /\ Done(p)
  /\ UNCHANGED <<list, writer, loads, name, pages, ref_count, need, ref, frameVars>>

\* The name is gone, in phase 2 or 3.  (No run takes this path: only the unload that
\* has flagged a module removes it, see UnloadsWhatItFlagged.)
UnloadNotFound(p) ==
  /\ pc[p] \in {"check", "wait", "write"} /\ CanRead
  /\ Find(arg[p]) = {}
  /\ Done(p)
  /\ UNCHANGED <<list, writer, loads, name, pages, ref_count, unloading, need, ref, frameVars>>

\* Phase 3, under the write lock: the name is looked up once more and the exit
\* function called ...
UnloadExit(p) ==
  /\ pc[p] = "write" /\ CanWrite
  /\ \E m \in Find(arg[p]) : mod' = [mod EXCEPT ![p] = m]
  /\ writer' = p
  /\ Goto(p, "free")
  /\ UNCHANGED <<list, loads, name, pages, ref_count, unloading, arg, need, ref, frameVars>>

\* ... the pages are freed ...
UnloadFree(p) ==
  /\ pc[p] = "free" /\ pages[mod[p]] # <<>>
  /\ FreeOne(mod[p])
  /\ UNCHANGED <<list, writer, loads, name, ref_count, unloading, pc, mod, arg, need, ref>>

\* Vec::remove() at the place where the name was found.
Without(idx) == [i \in 1 .. Len(list) - 1 |-> IF i < idx THEN list[i] ELSE list[i + 1]]

\* ... and the module is removed.
UnloadRemove(p) ==
  /\ pc[p] = "free" /\ pages[mod[p]] = <<>>
  /\ \E idx \in 1 .. Len(list) :
       /\ list[idx] = mod[p] /\ \A k \in 1 .. idx - 1 : name[list[k]] # arg[p]
       /\ list' = Without(idx)
  /\ writer' = None
  /\ Done(p)
  /\ UNCHANGED <<loads, name, pages, ref_count, unloading, need, ref, frameVars>>

-----------------------------------------------------------------------------
\* Frames that the rest of the kernel takes and returns.
OtherFrames ==
  /\ \/ held[Other] = {} /\ AllocPages(Other, 1)
     \/ \E f \in held[Other] : FreePages(Other, f, 1)
  /\ UNCHANGED loaderVars

Step(p) ==
  \/ LoadObject(p) \/ LoadTestModule(p) \/ LoadAlloc(p) \/ LoadAllocFails(p) \/ LoadFill(p)
  \/ LoadInit(p) \/ LoadPublish(p) \/ LoadUndo(p)
  \/ Acquire(p) \/ AcquireCount(p) \/ DropRef(p) \/ DropCount(p)
  \/ UnloadFlag(p) \/ UnloadUnused(p) \/ UnloadInUse(p)
  \/ UnloadTimeout(p) \/ UnloadGiveUp(p) \/ UnloadNotFound(p)
  \/ UnloadExit(p) \/ UnloadFree(p) \/ UnloadRemove(p)

Next == (\E p \in Threads : Step(p)) \/ OtherFrames

Spec == Init /\ [][Next]_<<loaderVars, frameVars>>

-----------------------------------------------------------------------------
(* Properties *)

Listed == {list[i] : i \in 1 .. Len(list)}

\* The pages of a listed module, or of one that a load or an unload has in hand,
\* are its own in the frame allocator: nothing else was given them, and freeing
\* them one by one never frees a frame twice.
ModulePagesOwned ==
  \A m \in Modules : Pages_(m) = held[m] /\ Cardinality(Pages_(m)) = Len(pages[m])

\* An unload ends with the module it began with: the flag it set keeps every
\* other unload away, and the name still leads to the same module, although the
\* lock is released between the phases and modules may share a name.
UnloadsWhatItFlagged ==
  \A p \in Threads :
    pc[p] \in {"check", "wait", "timeout", "write", "free"} =>
      unloading[mod[p]] /\ mod[p] \in Find(arg[p])

\* A reference keeps its module: while a ModuleRef exists the module is listed
\* and not being freed.
RefKeepsModule ==
  \A p \in Threads : ref[p] # None =>
    ref[p] \in Listed /\ \A q \in Threads : pc[q] = "free" => mod[q] # ref[p]

\* A load clears and fills only frames that it allocated.
WritesOwnPages ==
  \A p \in Threads : pc[p] = "fill" =>
    Run(pages[mod[p]][1], Len(pages[mod[p]])) \subseteq held[mod[p]]

=============================================================================
