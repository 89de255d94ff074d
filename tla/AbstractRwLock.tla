--------------------------- MODULE AbstractRwLock ---------------------------
(***************************************************************************)
(* What a reader-writer lock promises: any number of readers, or one       *)
(* writer.  Every access to the data goes through a guard, so the holders  *)
(* of guards are all that matters.                                         *)
(***************************************************************************)
CONSTANT Threads

VARIABLES readers, writers   \* the threads that hold a read or a write guard

vars == <<readers, writers>>

Init == readers = {} /\ writers = {}

AcquireRead(p) ==
  /\ writers = {} /\ p \notin readers
  /\ readers' = readers \cup {p} /\ writers' = writers

AcquireWrite(p) ==
  /\ writers = {} /\ readers = {}
  /\ writers' = {p} /\ readers' = readers

\* The only reader becomes the writer without letting go of the lock.
Upgrade(p) ==
  /\ writers = {} /\ readers = {p}
  /\ writers' = {p} /\ readers' = {}

ReleaseRead(p) ==
  /\ p \in readers
  /\ readers' = readers \ {p} /\ writers' = writers

ReleaseWrite(p) ==
  /\ p \in writers
  /\ writers' = writers \ {p} /\ readers' = readers

Next ==
  \E p \in Threads :
    AcquireRead(p) \/ AcquireWrite(p) \/ Upgrade(p) \/ ReleaseRead(p) \/ ReleaseWrite(p)

Spec == Init /\ [][Next]_vars
=============================================================================
