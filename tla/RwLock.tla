------------------------------- MODULE RwLock -------------------------------
(***************************************************************************)
(* The reader-writer lock of src/src/sync/rwlock.rs: one word counts the   *)
(* readers or marks the writer, and a flag lets a waiting writer hold back *)
(* new readers.  Every atomic access is one step.                          *)
(***************************************************************************)
EXTENDS Integers, ThreadSet

WRITER == -1

VARIABLES
  state,           \* number of readers, 0, or WRITER
  writer_waiting,  \* the flag that holds back readers
  rwpc,            \* where each thread is in the lock's operations
  rwseen,          \* the state a reader loaded and will compare with
  blocking         \* the thread called read() (TRUE) or try_read() (FALSE)

rwVars == <<state, writer_waiting, rwpc, rwseen, blocking>>

RwInit ==
  /\ state = 0
  /\ writer_waiting = FALSE
  /\ rwpc = [p \in Threads |-> "idle"]
  /\ rwseen = [p \in Threads |-> 0]
  /\ blocking = [p \in Threads |-> FALSE]

RwGoto(p, l) == rwpc' = [rwpc EXCEPT ![p] = l]

-----------------------------------------------------------------------------
(* read() and try_read() *)

\* Either call starts by looking at the flag.
BeginRead(p) ==
  /\ rwpc[p] = "idle"
  /\ RwGoto(p, "r_flag")
  /\ \E b \in BOOLEAN : blocking' = [blocking EXCEPT ![p] = b]
  /\ UNCHANGED <<state, writer_waiting, rwseen>>

\* Where a read that could not proceed goes: read() spins, try_read() gives up.
Retry(p) == RwGoto(p, IF blocking[p] THEN "r_flag" ELSE "idle")

ReadFlag(p) ==
  /\ rwpc[p] = "r_flag"
  /\ IF writer_waiting THEN Retry(p) ELSE RwGoto(p, "r_load")
  /\ UNCHANGED <<state, writer_waiting, rwseen, blocking>>

\* The load of the word; a negative word is a writer.
ReadLoad(p) ==
  /\ rwpc[p] = "r_load"
  /\ IF state < 0 THEN Retry(p) /\ UNCHANGED rwseen
     ELSE RwGoto(p, "r_cas") /\ rwseen' = [rwseen EXCEPT ![p] = state]
  /\ UNCHANGED <<state, writer_waiting, blocking>>

\* The compare-and-swap that counts the reader in.  The call's locals are dead
\* once it has returned.
ReadCas(p) ==
  /\ rwpc[p] = "r_cas" /\ state = rwseen[p]
  /\ state' = state + 1
  /\ RwGoto(p, "reading")
  /\ rwseen' = [rwseen EXCEPT ![p] = 0]
  /\ blocking' = [blocking EXCEPT ![p] = FALSE]
  /\ UNCHANGED writer_waiting

\* It fails when the word has changed, and the weak form used by read() also
\* spuriously.
ReadCasFails(p) ==
  /\ rwpc[p] = "r_cas" /\ (state # rwseen[p] \/ blocking[p])
  /\ Retry(p)
  /\ rwseen' = [rwseen EXCEPT ![p] = 0]
  /\ UNCHANGED <<state, writer_waiting, blocking>>

-----------------------------------------------------------------------------
(* write() and try_write() *)

BeginWrite(p) ==
  /\ rwpc[p] = "idle"
  /\ writer_waiting' = TRUE
  /\ RwGoto(p, "w_cas")
  /\ UNCHANGED <<state, rwseen, blocking>>

WriteCas_IgnoresReaders(p) ==
  /\ rwpc[p] = "w_cas" /\ state >= 0
  /\ state' = WRITER
  /\ RwGoto(p, "w_clear")
  /\ UNCHANGED <<writer_waiting, rwseen, blocking>>

WriteCas_AfterOthers(p) ==
  /\ rwpc[p] = "w_cas" /\ state = 0
  /\ \A q \in Threads \ {p} : rwpc[q] # "w_cas"
  /\ state' = WRITER
  /\ RwGoto(p, "w_clear")
  /\ UNCHANGED <<writer_waiting, rwseen, blocking>>

\* The loop ends when the swap from 0 succeeds; the flag is cleared after it.
WriteCas(p) ==
  /\ rwpc[p] = "w_cas" /\ state = 0
  /\ state' = WRITER
  /\ RwGoto(p, "w_clear")
  /\ UNCHANGED <<writer_waiting, rwseen, blocking>>

WriteClear(p) ==
  /\ rwpc[p] = "w_clear"
  /\ writer_waiting' = FALSE
  /\ RwGoto(p, "writing")
  /\ UNCHANGED <<state, rwseen, blocking>>

\* try_write() neither sets nor looks at the flag.
TryWrite(p) ==
  /\ rwpc[p] = "idle" /\ state = 0
  /\ state' = WRITER
  /\ RwGoto(p, "writing")
  /\ UNCHANGED <<writer_waiting, rwseen, blocking>>

-----------------------------------------------------------------------------
(* Guards *)

DropReadGuard(p) ==
  /\ rwpc[p] = "reading"
  /\ state' = state - 1
  /\ RwGoto(p, "idle")
  /\ UNCHANGED <<writer_waiting, rwseen, blocking>>

DropWriteGuard_Downgrades(p) ==
  /\ rwpc[p] = "writing"
  /\ state' = 1
  /\ RwGoto(p, "reading")
  /\ UNCHANGED <<writer_waiting, rwseen, blocking>>

DropWriteGuard(p) ==
  /\ rwpc[p] = "writing"
  /\ state' = 0
  /\ RwGoto(p, "idle")
  /\ UNCHANGED <<writer_waiting, rwseen, blocking>>

\* try_upgrade(): succeeds for the only reader; otherwise it stays a reader.
TryUpgrade(p) ==
  /\ rwpc[p] = "reading" /\ state = 1
  /\ state' = WRITER
  /\ RwGoto(p, "writing")
  /\ UNCHANGED <<writer_waiting, rwseen, blocking>>

RwStep(p) ==
  \/ BeginRead(p) \/ ReadFlag(p) \/ ReadLoad(p) \/ ReadCas(p) \/ ReadCasFails(p)
  \/ BeginWrite(p) \/ WriteCas(p) \/ WriteClear(p) \/ TryWrite(p)
  \/ DropReadGuard(p) \/ DropWriteGuard(p) \/ TryUpgrade(p)

RwNext == \E p \in Threads : RwStep(p)

RwSpec == RwInit /\ [][RwNext]_rwVars

\* Threads run, guards are dropped, and a compare-and-swap that keeps finding
\* the expected value does not fail spuriously for ever.
RwFairness ==
  \A p \in Threads :
    /\ WF_rwVars(ReadFlag(p) \/ ReadLoad(p) \/ ReadCasFails(p) \/ WriteClear(p))
    /\ WF_rwVars(DropReadGuard(p) \/ DropWriteGuard(p))
    /\ SF_rwVars(ReadCas(p)) /\ WF_rwVars(WriteCas(p))

RwFairSpec == RwSpec /\ RwFairness

-----------------------------------------------------------------------------
(* Properties *)

Readers == {p \in Threads : rwpc[p] = "reading"}
Writers == {p \in Threads : rwpc[p] \in {"w_clear", "writing"}}

\* Every variable stays in its type.
RwTypeOK ==
  /\ state \in Int
  /\ writer_waiting \in BOOLEAN
  /\ rwpc \in [Threads -> {"idle", "r_flag", "r_load", "r_cas", "reading",
                         "w_cas", "w_clear", "writing"}]
  /\ rwseen \in [Threads -> Nat]
  /\ blocking \in [Threads -> BOOLEAN]

\* The word says who is inside: WRITER with exactly one writer and no reader,
\* otherwise the number of read guards.  Stale loads, failed swaps and upgrades
\* never make it drift.
StateCounts ==
  IF state = WRITER
  THEN Readers = {} /\ \E p \in Threads : Writers = {p}
  ELSE Writers = {} /\ state = Cardinality(Readers)

\* The lock implements the abstract reader-writer lock: a step of read(),
\* write(), try_upgrade() or a guard's drop is one of its steps or changes
\* nothing it can see.
Abstract == INSTANCE AbstractRwLock WITH readers <- Readers, writers <- Writers
ImplementsRwLock == Abstract!Spec

\* The flag is up only while a writer is on its way in, so readers are never
\* held back by nobody.
FlagHasWriter ==
  writer_waiting => \E p \in Threads : rwpc[p] \in {"w_cas", "w_clear"}

\* The word and the flag agree with the guards and the waiting writers.
GuardsCounted == RwTypeOK /\ StateCounts /\ FlagHasWriter

\* The lock does not lock itself up: while somebody waits in read() or write(),
\* somebody gets a guard.
SomebodyGetsIn ==
  (\E p \in Threads : rwpc[p] = "w_cas" \/ (rwpc[p] = "r_flag" /\ blocking[p]))
    ~> (Readers \cup Writers # {})

\* Writer preference: while a writer waits, no new reader passes the flag.
WriterHoldsBackReaders ==
  [][\A p \in Threads : rwpc[p] = "r_flag" /\ rwpc'[p] = "r_load" =>
        ~ \E w \in Threads : rwpc[w] = "w_cas"]_rwVars

=============================================================================
