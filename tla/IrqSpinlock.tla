----------------------------- MODULE IrqSpinlock ----------------------------
(***************************************************************************)
(* The test-and-set locks of src/src/sync: Spinlock, Mutex and             *)
(* BlockingMutex, which spin in the same way, and IrqSpinlock, which also  *)
(* disables the interrupts of its CPU.  Each CPU runs a thread and, when   *)
(* its interrupts are enabled, an interrupt handler on top of the thread;  *)
(* all of them use the same lock.                                          *)
(***************************************************************************)
EXTENDS Integers, FiniteSets

CONSTANTS CPUs

VARIABLES
  kind,    \* "Spinlock" or "IrqSpinlock": which lock this one is
  locked,
  enabled, \* the CPUs whose interrupts are enabled
  irqpc,
  was      \* irq_was_enabled of the guards of the threads

irqVars == <<kind, locked, enabled, irqpc, was>>

Contexts == CPUs \X {"thread", "handler"}
Cpu(c) == c[1]
Handler(cpu) == <<cpu, "handler">>
Thread(cpu) == <<cpu, "thread">>

IrqInit ==
  /\ kind \in {"Spinlock", "IrqSpinlock"}
  /\ locked = FALSE
  /\ enabled \in SUBSET CPUs
  /\ irqpc = [c \in Contexts |-> "idle"]
  /\ was = [c \in Contexts |-> FALSE]

\* A thread makes no step while the handler runs on its CPU.
Runs(c) == c[2] = "handler" \/ irqpc[Handler(Cpu(c))] = "idle"

IrqAt(c, label) == Runs(c) /\ irqpc[c] = label
IrqGoto(c, label) == irqpc' = [irqpc EXCEPT ![c] = label]

\* The CPU masks its interrupts when it takes one, and restores them when the
\* handler returns.
Interrupt(cpu) ==
  /\ cpu \in enabled /\ irqpc[Handler(cpu)] = "idle"
  /\ IrqGoto(Handler(cpu), "call")
  /\ enabled' = enabled \ {cpu}
  /\ UNCHANGED <<kind, locked, was>>

Return(c) ==
  /\ IrqGoto(c, "idle")
  /\ enabled' = IF c[2] = "handler" THEN enabled \union {Cpu(c)} ELSE enabled

\* A thread decides to lock.
IrqCall(cpu) ==
  /\ IrqAt(Thread(cpu), "idle")
  /\ IrqGoto(Thread(cpu), "call")
  /\ UNCHANGED <<kind, locked, enabled, was>>

Enter_Enabled(c) ==
  /\ IrqAt(c, "call")
  /\ was' = IF kind = "IrqSpinlock" THEN [was EXCEPT ![c] = Cpu(c) \in enabled] ELSE was
  /\ IrqGoto(c, "spin")
  /\ UNCHANGED <<kind, locked, enabled>>

\* IrqSpinlock::lock() notes whether interrupts are enabled and disables them.
Enter(c) ==
  /\ IrqAt(c, "call")
  /\ IF kind = "IrqSpinlock"
     THEN was' = [was EXCEPT ![c] = Cpu(c) \in enabled] /\ enabled' = enabled \ {Cpu(c)}
     ELSE UNCHANGED <<was, enabled>>
  /\ IrqGoto(c, "spin")
  /\ UNCHANGED <<kind, locked>>

\* The compare-and-exchange of lock(), which is repeated until it succeeds.
lock(c) ==
  /\ IrqAt(c, "spin")
  /\ IF locked THEN UNCHANGED <<locked, irqpc>> ELSE locked' = TRUE /\ IrqGoto(c, "held")
  /\ UNCHANGED <<kind, enabled, was>>

\* try_lock() gives up at once; IrqSpinlock has none.
try_lock(c) ==
  /\ IrqAt(c, "call") /\ kind = "Spinlock"
  /\ IF locked THEN Return(c) /\ UNCHANGED locked
     ELSE locked' = TRUE /\ IrqGoto(c, "held") /\ UNCHANGED enabled
  /\ UNCHANGED <<kind, was>>

\* The drop of the inner guard.
drop(c) ==
  /\ IrqAt(c, "held")
  /\ locked' = FALSE
  /\ IF kind = "IrqSpinlock" THEN IrqGoto(c, "restore") /\ UNCHANGED enabled ELSE Return(c)
  /\ UNCHANGED <<kind, was>>

\* IrqSpinlockGuard::drop() has dropped a copy of the inner guard and restores
\* the interrupts ...
Restore(c) ==
  /\ IrqAt(c, "restore")
  /\ enabled' = IF was[c] THEN enabled \union {Cpu(c)} ELSE enabled
  /\ was' = [was EXCEPT ![c] = FALSE]
  /\ IrqGoto(c, "field")
  /\ UNCHANGED <<kind, locked>>

\* ... and then its field `guard' is dropped, as every field is.
DropField(c) ==
  /\ IrqAt(c, "field")
  /\ locked' = FALSE
  /\ Return(c)
  /\ UNCHANGED <<kind, was>>

IrqNext ==
  \/ \E cpu \in CPUs : Interrupt(cpu) \/ IrqCall(cpu)
  \/ \E c \in Contexts : Enter(c) \/ lock(c) \/ try_lock(c) \/ drop(c) \/ Restore(c) \/ DropField(c)

IrqSpec == IrqInit /\ [][IrqNext]_irqVars

-----------------------------------------------------------------------------
(* Properties *)

Holders == {c \in Contexts : irqpc[c] = "held"}

\* A Spinlock, a Mutex or a BlockingMutex has one holder at most, threads and
\* interrupt handlers of all CPUs taken together; and the handler of an
\* IrqSpinlock never waits for a lock that the thread it interrupted holds,
\* which would stop the CPU for good.
LockSound ==
  /\ kind = "Spinlock" => Cardinality(Holders) <= 1
  /\ kind = "IrqSpinlock" => \A cpu \in CPUs :
       Thread(cpu) \in Holders => irqpc[Handler(cpu)] = "idle"

\* "guard가 먼저 drop되어 락 해제 / 그 후 인터럽트 상태 복원"
\* (sync/spinlock.rs): the drop of an IrqSpinlockGuard releases the lock, once,
\* before the interrupts are restored, so that it never releases the lock of
\* another holder.
IrqMutualExclusion == kind = "IrqSpinlock" => Cardinality(Holders) <= 1

\* "인터럽트 컨텍스트에서 사용 가능" (sync/spinlock.rs, of all spinlocks): a
\* handler that takes a Spinlock does not wait for the thread it interrupted.
UsableInInterrupts == \A cpu \in CPUs : Thread(cpu) \in Holders => irqpc[Handler(cpu)] # "spin"
=============================================================================
