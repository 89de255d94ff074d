------------------------------ MODULE Scheduler ------------------------------
(***************************************************************************)
(* The SMP scheduler of the kernel: the thread list THREADS and the        *)
(* per-CPU data (src/src/proc/mod.rs, scheduler.rs, percpu.rs), the two    *)
(* halves of context_switch (context.rs), the timer and reschedule         *)
(* interrupts that call schedule(), and the boot of the secondary CPUs.    *)
(*                                                                         *)
(* A critical section under the THREADS lock is one step.  context_switch  *)
(* runs after the lock is released: saving the old registers and loading   *)
(* the new ones are two more steps, and every other CPU may run between    *)
(* them.  An interrupt is taken between the calls a thread makes to        *)
(* schedule(), spawn() and exit(), and between the two critical sections   *)
(* of exit(); not inside them.                                             *)
(***************************************************************************)
EXTENDS Integers, FiniteSets

CONSTANTS
  N,          \* number of CPUs the device tree reports; CPU 0 boots
  MaxThreads  \* bound on THREADS.len(), idle threads included

ASSUME SizeAssumption == N \in Nat \ {0} /\ MaxThreads \in Nat \ {0}

CPU == 0 .. N - 1
Idx == 0 .. MaxThreads - 1      \* indices into THREADS
MAX == MaxThreads               \* u32::MAX in the per-CPU words: no thread
AnyCpu == N                     \* cpu_affinity == None

VARIABLES
  len,       \* THREADS.len()
  state,     \* Thread.state; "none" beyond len
  affinity,  \* Thread.cpu_affinity
  ctx,       \* what Thread.context holds, see Contexts
  current,   \* PerCpuData.current_thread_idx
  idle,      \* PerCpuData.idle_thread_idx
  online,    \* NUM_CPUS_ONLINE
  pc,        \* where each CPU is
  old,       \* the thread whose registers a CPU in "save" is about to store
  frame,     \* what called the schedule() that is switching
  masked,    \* interrupts are masked on the CPU
  ipi,       \* a reschedule IPI is pending
  kick       \* the CPU that kick_idle_cpu examines next

vars == <<len, state, affinity, ctx, current, idle, online, pc, old, frame,
          masked, ipi, kick>>

States == {"none", "Ready", "Running", "Terminated"}

(***************************************************************************)
(* A saved context resumes a thread in one of four ways: "empty" jumps to  *)
(* address 0, "fresh" enters the thread function, "call" returns from a    *)
(* schedule() the thread called itself, "irq" returns into the interrupt   *)
(* handler that called schedule().                                         *)
(***************************************************************************)
Contexts == {"none", "empty", "fresh", "call", "irq"}

Steps == {"off", "init", "run", "exit", "kick", "save", "load"}

Init ==
  /\ len = 1
  /\ state = [i \in Idx |-> IF i = 0 THEN "Running" ELSE "none"]
  /\ affinity = [i \in Idx |-> IF i = 0 THEN 0 ELSE AnyCpu]
  /\ ctx = [i \in Idx |-> IF i = 0 THEN "empty" ELSE "none"]
  /\ current = [c \in CPU |-> IF c = 0 THEN 0 ELSE MAX]
  /\ idle = [c \in CPU |-> IF c = 0 THEN 0 ELSE MAX]
  /\ online = 1
  /\ pc = [c \in CPU |-> IF c = 0 THEN "run" ELSE "off"]
  /\ old = [c \in CPU |-> 0]
  /\ frame = [c \in CPU |-> "call"]
  /\ masked = [c \in CPU |-> c # 0]
  /\ ipi = [c \in CPU |-> FALSE]
  /\ kick = [c \in CPU |-> 0]

-----------------------------------------------------------------------------
(* schedule() *)

Runnable_AnyAffinity(c, st) == {i \in Idx : i < len /\ st[i] = "Ready"}

\* Threads the round-robin search of CPU c accepts when the states are st.
Runnable(c, st) ==
  {i \in Idx : i < len /\ st[i] = "Ready" /\ affinity[i] \in {AnyCpu, c}}

Distance_FromZero(cur, i) == i

\* How far the search that starts after thread cur travels before it meets i.
Distance(cur, i) == (i - cur - 1) % len

\* The thread schedule() goes on with (a singleton).  Without a runnable thread
\* it falls back to the idle thread when the current one is terminated.
NextThread(c, st) ==
  LET cand == Runnable(c, st)
      cur == current[c]
  IN IF cand # {} THEN {i \in cand : \A j \in cand : Distance(cur, i) <= Distance(cur, j)}
     ELSE IF st[cur] = "Terminated" THEN {idle[c]} ELSE {cur}

Demoted_Unconditionally(c) == [state EXCEPT ![current[c]] = "Ready"]

\* The states after a Running current thread was made Ready.
Demoted(c) ==
  IF state[current[c]] = "Running" THEN [state EXCEPT ![current[c]] = "Ready"] ELSE state

\* The critical section of schedule() on CPU c, called by the running thread
\* ("call") or by an interrupt handler ("irq").  Without a switch the caller
\* continues; with one the CPU goes on to context_switch, the lock released.
Schedule(c, why) ==
  \E next \in NextThread(c, Demoted(c)) :
    /\ state' = [Demoted(c) EXCEPT ![next] = "Running"]
    /\ \/ /\ next = current[c]
          /\ pc' = [pc EXCEPT ![c] = "run"]
          /\ UNCHANGED <<current, old, frame, masked>>
       \/ /\ next # current[c]
          /\ current' = [current EXCEPT ![c] = next]
          /\ old' = [old EXCEPT ![c] = current[c]]
          /\ frame' = [frame EXCEPT ![c] = why]
          /\ masked' = [masked EXCEPT ![c] = @ \/ why = "irq"]
          /\ pc' = [pc EXCEPT ![c] = "save"]
    /\ UNCHANGED <<len, affinity, idle, online, ctx, kick>>

\* yield_now(): the running thread calls schedule().  The idle loops of the
\* secondary CPUs never do; the idle thread of CPU 0 is also the boot thread.
Yield(c) ==
  /\ pc[c] = "run"
  /\ current[c] = idle[c] => c = 0
  /\ Schedule(c, "call")
  /\ UNCHANGED ipi

\* CPU c takes an interrupt: unmasked, and outside schedule() and spawn().
TakesIrq(c) == ~ masked[c] /\ pc[c] \in {"run", "exit"}

\* The timer interrupt.  It may fall between the two critical sections of exit().
TimerIrq(c) ==
  /\ TakesIrq(c)
  /\ Schedule(c, "irq")
  /\ UNCHANGED ipi

\* A pending reschedule IPI is acknowledged and calls schedule().
RescheduleIpi(c) ==
  /\ TakesIrq(c)
  /\ ipi[c]
  /\ ipi' = [ipi EXCEPT ![c] = FALSE]
  /\ Schedule(c, "irq")

-----------------------------------------------------------------------------
(* context_switch(old_ctx, new_ctx) *)

SaveOld_Skipped(c) ==
  /\ pc[c] = "save"
  /\ pc' = [pc EXCEPT ![c] = "load"]
  /\ UNCHANGED <<ctx, len, state, affinity, current, idle, online, old, frame, masked, ipi, kick>>

\* First half: the callee-saved registers, return address and stack pointer
\* of the CPU are stored into the old thread's context.
SaveOld(c) ==
  /\ pc[c] = "save"
  /\ ctx' = [ctx EXCEPT ![old[c]] = frame[c]]
  /\ pc' = [pc EXCEPT ![c] = "load"]
  /\ old' = [old EXCEPT ![c] = 0]
  /\ frame' = [frame EXCEPT ![c] = "call"]
  /\ UNCHANGED <<len, state, affinity, current, idle, online, masked, ipi, kick>>

\* Second half: the new thread's context is loaded and "ret" continues there.
\* A thread suspended inside an interrupt handler leaves it and unmasks; the
\* others inherit the interrupt mask the CPU happens to have.
LoadNew(c) ==
  /\ pc[c] = "load"
  /\ masked' = [masked EXCEPT ![c] = @ /\ ctx[current[c]] # "irq"]
  /\ pc' = [pc EXCEPT ![c] = "run"]
  /\ UNCHANGED <<len, state, affinity, ctx, current, idle, online, old, frame, ipi, kick>>

-----------------------------------------------------------------------------
(* spawn() and exit() *)

Push_NotPinned(st, aff, c) ==
  /\ len' = len + 1
  /\ state' = [state EXCEPT ![len] = st]
  /\ affinity' = [affinity EXCEPT ![len] = AnyCpu]
  /\ ctx' = [ctx EXCEPT ![len] = c]

\* THREADS.push of a thread in state st, pinned to aff, with context c.
Push(st, aff, c) ==
  /\ len' = len + 1
  /\ state' = [state EXCEPT ![len] = st]
  /\ affinity' = [affinity EXCEPT ![len] = aff]
  /\ ctx' = [ctx EXCEPT ![len] = c]

\* spawn(): push a Ready thread that may run anywhere, then kick_idle_cpu().
Spawn(c) ==
  /\ pc[c] = "run"
  /\ current[c] = idle[c] => c = 0
  /\ len \in Idx /\ len < MaxThreads - Cardinality({d \in CPU : idle[d] = MAX})
  /\ Push("Ready", AnyCpu, "fresh")
  /\ pc' = [pc EXCEPT ![c] = "kick"]
  /\ UNCHANGED <<current, idle, online, old, frame, masked, ipi, kick>>

\* One iteration of kick_idle_cpu(): the words of CPU kick[c] are read without
\* a lock; the first other CPU found idle gets the IPI and ends the loop.
KickIdleCpu(c) ==
  LET cpu == kick[c] IN
  /\ pc[c] = "kick"
  /\ \/ /\ cpu < online /\ cpu # c /\ current[cpu] = idle[cpu]
        /\ ipi' = [ipi EXCEPT ![cpu] = TRUE]
        /\ kick' = [kick EXCEPT ![c] = 0]
        /\ pc' = [pc EXCEPT ![c] = "run"]
     \/ /\ cpu < online /\ (cpu = c \/ current[cpu] # idle[cpu])
        /\ kick' = [kick EXCEPT ![c] = cpu + 1]
        /\ UNCHANGED <<ipi, pc>>
     \/ /\ cpu >= online
        /\ kick' = [kick EXCEPT ![c] = 0]
        /\ pc' = [pc EXCEPT ![c] = "run"]
        /\ UNCHANGED ipi
  /\ UNCHANGED <<len, state, affinity, ctx, current, idle, online, old, frame, masked>>

\* exit(), first critical section: a spawned thread ends itself.
Exit(c) ==
  /\ pc[c] = "run"
  /\ current[c] # idle[c]
  /\ state' = [state EXCEPT ![current[c]] = "Terminated"]
  /\ pc' = [pc EXCEPT ![c] = "exit"]
  /\ UNCHANGED <<len, affinity, ctx, current, idle, online, old, frame, masked, ipi, kick>>

\* exit() then calls schedule() and never comes back.
ExitSchedule(c) ==
  /\ pc[c] = "exit"
  /\ Schedule(c, "call")
  /\ UNCHANGED ipi

-----------------------------------------------------------------------------
(* Boot of a secondary CPU, interrupts masked *)

\* percpu::init_secondary: no thread yet, but online and counted.
InitSecondary(c) ==
  /\ pc[c] = "off"
  /\ current' = [current EXCEPT ![c] = MAX]
  /\ idle' = [idle EXCEPT ![c] = MAX]
  /\ online' = online + 1
  /\ pc' = [pc EXCEPT ![c] = "init"]
  /\ UNCHANGED <<len, state, affinity, ctx, old, frame, masked, ipi, kick>>

\* init_on_secondary_cpu: the boot flow becomes the CPU's pinned idle thread.
InitOnSecondaryCpu(c) ==
  /\ Push("Running", c, "empty")
  /\ current' = [current EXCEPT ![c] = len]
  /\ idle' = [idle EXCEPT ![c] = len]

\* The rest of the secondary entry: once it has an idle thread the CPU unmasks
\* interrupts and waits for them for ever.
SecondaryEntry(c) ==
  /\ pc[c] = "init" /\ len < MaxThreads
  /\ InitOnSecondaryCpu(c)
  /\ masked' = [masked EXCEPT ![c] = FALSE]
  /\ pc' = [pc EXCEPT ![c] = "run"]
  /\ UNCHANGED <<online, old, frame, ipi, kick>>

-----------------------------------------------------------------------------
Next ==
  \E c \in CPU :
    \/ Yield(c) \/ TimerIrq(c) \/ RescheduleIpi(c)
    \/ SaveOld(c) \/ LoadNew(c)
    \/ Spawn(c) \/ KickIdleCpu(c) \/ Exit(c) \/ ExitSchedule(c)
    \/ InitSecondary(c) \/ SecondaryEntry(c)

Spec == Init /\ [][Next]_vars

(***************************************************************************)
(* Fairness.  A CPU inside schedule(), spawn() or exit() finishes it, the  *)
(* secondary CPUs that were started finish booting, and a CPU that stays   *)
(* unmasked takes timer interrupts: each tick arms the next one before it  *)
(* calls schedule().                                                       *)
(***************************************************************************)
KernelFairness ==
  \A c \in CPU :
    /\ WF_vars(SaveOld(c) \/ LoadNew(c) \/ KickIdleCpu(c) \/ ExitSchedule(c))
    /\ WF_vars(InitSecondary(c) \/ SecondaryEntry(c))
    /\ WF_vars(TimerIrq(c))

\* Spawned threads are cooperative: they do not compute forever.
CooperativeThreads ==
  \A c \in CPU : WF_vars(current[c] # idle[c] /\ (Yield(c) \/ Exit(c)))

FairSpec == Spec /\ KernelFairness /\ CooperativeThreads

\* The timer alone: threads may compute forever without calling the kernel.
PreemptiveSpec == Spec /\ KernelFairness

-----------------------------------------------------------------------------
(* Properties *)

\* Every variable stays in its type; THREADS holds exactly len threads.
TypeOK ==
  /\ len \in 1 .. MaxThreads
  /\ state \in [Idx -> States]
  /\ \A i \in Idx : state[i] = "none" <=> i >= len
  /\ affinity \in [Idx -> CPU \cup {AnyCpu}]
  /\ ctx \in [Idx -> Contexts]
  /\ current \in [CPU -> Idx \cup {MAX}]
  /\ idle \in [CPU -> Idx \cup {MAX}]
  /\ online \in Nat
  /\ pc \in [CPU -> Steps]
  /\ old \in [CPU -> Idx]
  /\ frame \in [CPU -> {"call", "irq"}]
  /\ masked \in [CPU -> BOOLEAN]
  /\ ipi \in [CPU -> BOOLEAN]
  /\ kick \in [CPU -> Nat]

\* A thread is Running exactly while it is the current thread of a CPU that it
\* may run on and that has not ended it, and it is current on one CPU only:
\* the hand-over in schedule() never gives one thread to two CPUs.
RunningIsCurrent ==
  /\ \A i \in Idx : state[i] = "Running" => \E c \in CPU : current[c] = i
  /\ \A c \in CPU : current[c] # MAX =>
       /\ current[c] < len
       /\ state[current[c]] = IF pc[c] = "exit" THEN "Terminated" ELSE "Running"
       /\ affinity[current[c]] \in {AnyCpu, c}
       /\ \A d \in CPU \ {c} : current[d] # current[c]

\* The idle thread of a CPU is Running on it or Ready for it, never on another
\* CPU and never terminated: schedule() always finds a thread for exit() to
\* switch to, and its last-resort branches are not needed.
IdleThreadAtHand ==
  \A c \in CPU : idle[c] # MAX =>
    /\ affinity[idle[c]] = c
    /\ state[idle[c]] = IF current[c] = idle[c] THEN "Running" ELSE "Ready"

\* No CPU ever loads the all-zero context an idle thread is created with: it
\* was saved by its own CPU before that CPU can switch back to it.
NoJumpToZero ==
  \A c \in CPU : pc[c] = "load" => ctx[current[c]] \in {"fresh", "call", "irq"}

\* exit() is final: no later step of any CPU makes a terminated thread
\* runnable again or gives it a CPU.
TerminatedForever ==
  [][\A i \in Idx : state[i] = "Terminated" =>
        /\ state'[i] = "Terminated"
        /\ \A c \in CPU : current'[c] = i => current[c] = i]_vars

\* The round robin starves nobody: a Ready thread is eventually dispatched.
ReadyRuns == \A i \in Idx : state[i] = "Ready" ~> state[i] # "Ready"

\* docs/proc.md: preemptive scheduling by calling schedule() from the timer
\* interrupt.  A thread does not keep a CPU for ever while another thread is
\* Ready to run there.
TimerPreempts ==
  \A c \in CPU, i \in Idx :
    (current[c] = i /\ Runnable(c, state) # {}) ~> (current[c] # i \/ Runnable(c, state) = {})

\* The thread on whose stack CPU c executes.
Executing(c) ==
  CASE pc[c] = "save" -> old[c]
    [] pc[c] = "load" -> MAX
    [] OTHER -> current[c]

\* docs/proc.md: the scheduler saves the current context before another runs.
\* No CPU resumes a thread whose registers another CPU has not saved yet, so
\* no two CPUs execute on the stack of one thread.
OneCpuPerThread ==
  \A c, d \in CPU : c # d /\ Executing(c) # MAX => Executing(c) # Executing(d)

=============================================================================
