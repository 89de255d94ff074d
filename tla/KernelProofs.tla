---------------------------- MODULE KernelProofs ----------------------------
(***************************************************************************)
(* Proofs that need no theorem of the library.  The scheduler for every    *)
(* number of CPUs and threads.  RCU for every set of threads and boxes.    *)
(* The image of a module: where load_sections() places the sections, and   *)
(* the instructions that apply_relocations() patches.                      *)
(***************************************************************************)
EXTENDS Scheduler, Rcu, ModuleImage, TLAPS

\* A CPU has a current and an idle thread once it has booted, both in THREADS;
\* it can be inside exit() only on another thread than its idle thread.
Booted ==
  \A c \in CPU :
    /\ current[c] = MAX <=> pc[c] \in {"off", "init"}
    /\ idle[c] = MAX <=> current[c] = MAX
    /\ idle[c] # MAX => idle[c] < len
    /\ pc[c] = "exit" => current[c] # idle[c]

\* A switching CPU saves a thread of the list other than its new current one.
Switching ==
  \A c \in CPU : pc[c] = "save" => old[c] < len /\ old[c] # current[c]

\* A context is empty only while the idle thread it belongs to runs on its own
\* CPU, or while that CPU is still about to save it.
ContextSaved ==
  \A i \in Idx : i < len =>
    /\ ctx[i] # "none"
    /\ ctx[i] = "empty" =>
         \E c \in CPU :
           /\ idle[c] = i
           /\ \/ current[c] = i /\ pc[c] \in {"run", "exit", "kick"}
              \/ pc[c] = "save" /\ old[c] = i

\* The inductive invariant.
Inv ==
  /\ TypeOK /\ Booted /\ RunningIsCurrent /\ IdleThreadAtHand
  /\ Switching /\ ContextSaved

-----------------------------------------------------------------------------
\* Whatever schedule() goes on with was Ready for this CPU when it was picked:
\* the search never comes back empty-handed.
LEMMA NextThreadReady ==
  ASSUME Inv, NEW c \in CPU, current[c] # MAX,
         NEW n \in NextThread(c, Demoted(c))
  PROVE  n \in Runnable(c, Demoted(c))
<1> USE DEF Inv, Booted, IdleThreadAtHand
<1>1. current[c] \in Idx /\ idle[c] \in Idx /\ idle[c] < len /\ affinity[idle[c]] = c
  BY DEF TypeOK, MAX
<1>2. Demoted(c)[idle[c]] = "Ready"
  <2>1. CASE current[c] = idle[c]
    BY <1>1, <2>1 DEF Demoted, TypeOK
  <2>2. CASE current[c] # idle[c]
    BY <1>1, <2>2 DEF Demoted, TypeOK
  <2> QED BY <2>1, <2>2
<1>3. idle[c] \in Runnable(c, Demoted(c))
  BY <1>1, <1>2 DEF Runnable
<1>4. NextThread(c, Demoted(c)) \subseteq Runnable(c, Demoted(c))
  BY <1>3 DEF NextThread
<1> QED BY <1>4

\* A critical section of schedule() that hands CPU c to thread next.
HandOver(c, why, n) ==
  /\ n < len /\ affinity[n] \in {AnyCpu, c}
  /\ state[n] = IF n = current[c] THEN "Running" ELSE "Ready"
  /\ state' = [Demoted(c) EXCEPT ![n] = "Running"]
  /\ \/ /\ n = current[c]
        /\ pc' = [pc EXCEPT ![c] = "run"]
        /\ UNCHANGED <<current, old, frame, masked>>
     \/ /\ n # current[c]
        /\ current' = [current EXCEPT ![c] = n]
        /\ old' = [old EXCEPT ![c] = current[c]]
        /\ frame' = [frame EXCEPT ![c] = why]
        /\ masked' = [masked EXCEPT ![c] = @ \/ why = "irq"]
        /\ pc' = [pc EXCEPT ![c] = "save"]

\* What a critical section of schedule() does, with the fallback branches gone.
LEMMA ScheduleStep ==
  ASSUME Inv, NEW c \in CPU, current[c] # MAX, NEW why \in {"call", "irq"},
         Schedule(c, why)
  PROVE  \E n \in Idx : HandOver(c, why, n)
<1>1. PICK n \in NextThread(c, Demoted(c)) :
        /\ state' = [Demoted(c) EXCEPT ![n] = "Running"]
        /\ \/ /\ n = current[c]
              /\ pc' = [pc EXCEPT ![c] = "run"]
              /\ UNCHANGED <<current, old, frame, masked>>
           \/ /\ n # current[c]
              /\ current' = [current EXCEPT ![c] = n]
              /\ old' = [old EXCEPT ![c] = current[c]]
              /\ frame' = [frame EXCEPT ![c] = why]
              /\ masked' = [masked EXCEPT ![c] = @ \/ why = "irq"]
              /\ pc' = [pc EXCEPT ![c] = "save"]
  BY Zenon DEF Schedule
<1>2. n \in Runnable(c, Demoted(c))
  BY NextThreadReady
<1>3. current[c] \in Idx
  BY DEF Inv, TypeOK, MAX
<1>4. n \in Idx /\ n < len /\ affinity[n] \in {AnyCpu, c} /\ Demoted(c)[n] = "Ready"
  BY <1>2 DEF Runnable
<1>5. state[current[c]] \in {"Running", "Terminated"}
  BY DEF Inv, RunningIsCurrent
<1>6. state[n] = IF n = current[c] THEN "Running" ELSE "Ready"
  BY <1>3, <1>4, <1>5 DEF Demoted, Inv, TypeOK
<1> QED BY <1>1, <1>4, <1>6, Zenon DEF HandOver

\* schedule() preserves the invariant.
LEMMA ScheduleInv ==
  ASSUME Inv, NEW c \in CPU, pc[c] \in {"run", "exit"}, NEW why \in {"call", "irq"},
         Schedule(c, why), ipi' \in [CPU -> BOOLEAN]
  PROVE  Inv'
<1> USE SizeAssumption DEF Inv
<1>1. current[c] # MAX
  BY DEF Booted
<1>2. PICK n \in Idx : HandOver(c, why, n)
  BY <1>1, ScheduleStep
<1>3. UNCHANGED <<len, affinity, idle, online, ctx, kick>>
  BY DEF Schedule
<1>4. current[c] \in Idx /\ current[c] < len
  BY <1>1 DEF TypeOK, RunningIsCurrent, MAX
<1>5. TypeOK'
  <2>1. masked' \in [CPU -> BOOLEAN]
    BY <1>2, Zenon DEF HandOver, TypeOK
  <2>2. current' \in [CPU -> Idx \cup {MAX}] /\ pc' \in [CPU -> Steps] /\ old' \in [CPU -> Idx]
    BY <1>2, <1>4 DEF HandOver, TypeOK, Steps
  <2>3. frame' \in [CPU -> {"call", "irq"}]
    BY <1>2 DEF HandOver, TypeOK
  <2>4. state' \in [Idx -> States]
    BY <1>2, <1>4 DEF HandOver, TypeOK, Demoted, States
  <2>5. \A i \in Idx : state'[i] = "none" <=> i >= len
    BY <1>2, <1>4, Zenon DEF HandOver, TypeOK, Demoted, Idx
  <2> QED BY <1>3, <2>1, <2>2, <2>3, <2>4, <2>5 DEF TypeOK
<1>6. CASE n = current[c]
  <2>1. state[current[c]] = "Running" /\ pc[c] = "run"
    BY <1>1, <1>2, <1>6, Zenon DEF HandOver, RunningIsCurrent
  <2>2. state' = state /\ pc' = pc /\ UNCHANGED <<current, old>>
    BY <1>2, <1>4, <1>6, <2>1 DEF HandOver, Demoted, TypeOK
  <2> QED
    BY <1>3, <1>5, <2>2 DEF Booted, RunningIsCurrent, IdleThreadAtHand, Switching, ContextSaved
<1>7. CASE n # current[c]
  <2>1. /\ current' = [current EXCEPT ![c] = n]
        /\ old' = [old EXCEPT ![c] = current[c]]
        /\ pc' = [pc EXCEPT ![c] = "save"]
        /\ state[n] = "Ready"
    BY <1>2, <1>7, Zenon DEF HandOver
  <2>2. \A i \in Idx : state'[i] = IF i = n THEN "Running"
                                   ELSE IF i = current[c] /\ state[i] = "Running" THEN "Ready"
                                   ELSE state[i]
    BY <1>2, <1>4 DEF HandOver, Demoted, TypeOK
  <2>3. \A d \in CPU : current[d] # n
    <3> SUFFICES ASSUME NEW d \in CPU, current[d] = n PROVE FALSE
      OBVIOUS
    <3>1. current[d] # MAX
      BY SizeAssumption DEF Idx, MAX
    <3>2. state[n] \in {"Running", "Terminated"}
      BY <3>1, Zenon DEF RunningIsCurrent
    <3> QED BY <2>1, <3>2
  <2>4. Booted'
    BY <1>1, <1>3, <2>1 DEF Booted, TypeOK, Idx, MAX
  <2>5. RunningIsCurrent'
    <3>1. ASSUME NEW i \in Idx, state'[i] = "Running" PROVE \E d \in CPU : current'[d] = i
      <4>1. CASE i = n
        BY <2>1, <4>1 DEF TypeOK
      <4>2. CASE i # n
        <5>1. i # current[c] /\ state[i] = "Running"
          BY <2>2, <3>1, <4>2
        <5>2. PICK d \in CPU : current[d] = i
          BY <5>1, Zenon DEF RunningIsCurrent
        <5> QED BY <2>1, <5>1, <5>2 DEF TypeOK
      <4> QED BY <4>1, <4>2
    <3>2. ASSUME NEW d \in CPU, current'[d] # MAX, d # c
          PROVE  /\ current'[d] < len'
                 /\ state'[current'[d]] = IF pc'[d] = "exit" THEN "Terminated" ELSE "Running"
                 /\ affinity'[current'[d]] \in {AnyCpu, d}
                 /\ \A e \in CPU \ {d} : current'[e] # current'[d]
      <4>1. current'[d] = current[d] /\ pc'[d] = pc[d] /\ current[d] \in Idx
        BY <2>1, <3>2, Zenon DEF TypeOK
      <4>2. current[d] # n /\ current[d] # current[c]
        BY <1>1, <2>3, <3>2, Zenon DEF RunningIsCurrent
      <4>3. state'[current[d]] = state[current[d]]
        BY <2>2, <4>1, <4>2, Zenon
      <4> QED BY <1>3, <2>1, <3>2, <4>1, <4>2, <4>3 DEF RunningIsCurrent, TypeOK
    <3>3. /\ current'[c] < len'
          /\ state'[current'[c]] = IF pc'[c] = "exit" THEN "Terminated" ELSE "Running"
          /\ affinity'[current'[c]] \in {AnyCpu, c}
          /\ \A e \in CPU \ {c} : current'[e] # current'[c]
      BY <1>2, <1>3, <2>1, <2>2, <2>3, Zenon DEF HandOver, TypeOK
    <3> QED BY <3>1, <3>2, <3>3, Zenon DEF RunningIsCurrent
  <2>6. IdleThreadAtHand'
    <3> SUFFICES ASSUME NEW d \in CPU, idle[d] # MAX
                 PROVE  /\ affinity[idle[d]] = d
                        /\ state'[idle[d]] = IF current'[d] = idle[d] THEN "Running" ELSE "Ready"
      BY <1>3 DEF IdleThreadAtHand
    <3>1. idle[d] \in Idx /\ affinity[idle[d]] = d
      BY DEF IdleThreadAtHand, TypeOK
    <3>2. CASE d = c
      BY <1>1, <2>1, <2>2, <3>1, <3>2 DEF IdleThreadAtHand, TypeOK
    <3>3. CASE d # c
      <4>1. idle[d] # n /\ idle[d] # current[c]
        BY <1>1, <1>2, <3>1, <3>3, SizeAssumption DEF HandOver, RunningIsCurrent, AnyCpu, CPU
      <4> QED BY <2>1, <2>2, <3>1, <3>3, <4>1 DEF IdleThreadAtHand, TypeOK
    <3> QED BY <3>1, <3>2, <3>3, Zenon
  <2>7. Switching'
    BY <1>3, <1>4, <1>7, <2>1, Zenon DEF Switching, TypeOK
  <2>8. ContextSaved'
    BY <1>3, <2>1 DEF ContextSaved, Booted, TypeOK
  <2> QED BY <1>5, <2>4, <2>5, <2>6, <2>7, <2>8, Zenon
<1> QED BY <1>6, <1>7

\* Both halves of context_switch preserve the invariant.
LEMMA SwitchInv ==
  ASSUME Inv, NEW c \in CPU, SaveOld(c) \/ LoadNew(c)
  PROVE  Inv'
<1> USE DEF Inv
<1>1. UNCHANGED <<len, state, affinity, current, idle, online, ipi, kick>>
  BY Zenon DEF SaveOld, LoadNew
<1>2. /\ pc[c] \in {"save", "load"}
      /\ pc' = [pc EXCEPT ![c] = IF pc[c] = "save" THEN "load" ELSE "run"]
  BY DEF SaveOld, LoadNew
<1>3. TypeOK'
  <2>1. CASE SaveOld(c)
    <3>1. pc' \in [CPU -> Steps] /\ old' \in [CPU -> Idx] /\ frame' \in [CPU -> {"call", "irq"}]
      BY <2>1, SizeAssumption DEF SaveOld, TypeOK, Steps, Idx
    <3>2. ctx' \in [Idx -> Contexts] /\ masked' = masked
      BY <2>1, Zenon DEF SaveOld, TypeOK, Contexts
    <3> QED BY <1>1, <3>1, <3>2, Zenon DEF TypeOK
  <2>2. CASE LoadNew(c)
    <3>1. masked' \in [CPU -> BOOLEAN]
      BY <2>2, Zenon DEF LoadNew, TypeOK
    <3>2. pc' \in [CPU -> Steps] /\ UNCHANGED <<ctx, old, frame>>
      BY <2>2, Zenon DEF LoadNew, TypeOK, Steps
    <3> QED BY <1>1, <3>1, <3>2 DEF TypeOK
  <2> QED BY <2>1, <2>2, Zenon
<1>4. Booted' /\ RunningIsCurrent' /\ IdleThreadAtHand'
  BY <1>1, <1>2 DEF Booted, RunningIsCurrent, IdleThreadAtHand, TypeOK
<1>5. Switching'
  BY <1>1, <1>2 DEF SaveOld, LoadNew, Switching, TypeOK
<1>6. ContextSaved'
  <2>1. CASE SaveOld(c)
    BY <1>1, <1>2, <2>1 DEF SaveOld, ContextSaved, TypeOK
  <2>2. CASE LoadNew(c)
    BY <1>1, <1>2, <2>2 DEF LoadNew, ContextSaved, TypeOK
  <2> QED BY <2>1, <2>2, Zenon
<1> QED BY <1>3, <1>4, <1>5, <1>6

\* spawn() and the kick after it preserve the invariant.
LEMMA SpawnInv ==
  ASSUME Inv, NEW c \in CPU, Spawn(c) \/ KickIdleCpu(c)
  PROVE  Inv'
<1> USE DEF Inv
<1>1. UNCHANGED <<current, idle, online, old, frame, masked>>
  BY DEF Spawn, KickIdleCpu
<1>2. CASE Spawn(c)
  <2>1. len \in Idx /\ len + 1 \in 1 .. MaxThreads /\ len # MAX
    <3>1. len \in Idx
      BY <1>2, Zenon DEF Spawn
    <3> QED BY <3>1, SizeAssumption DEF Idx, MAX
  <2>2. /\ len' = len + 1 /\ pc[c] = "run" /\ pc' = [pc EXCEPT ![c] = "kick"]
        /\ state' = [state EXCEPT ![len] = "Ready"]
        /\ affinity' = [affinity EXCEPT ![len] = AnyCpu]
        /\ ctx' = [ctx EXCEPT ![len] = "fresh"]
        /\ UNCHANGED <<ipi, kick>>
    BY <1>2, Zenon DEF Spawn, Push
  <2>3. TypeOK'
    BY <1>1, <2>1, <2>2 DEF TypeOK, States, Contexts, Steps, Idx
  <2>4. \A d \in CPU : current[d] # len /\ idle[d] # len
    BY <2>1, SizeAssumption DEF RunningIsCurrent, Booted, TypeOK, Idx, MAX
  <2>5. Booted' /\ Switching'
    BY <1>1, <2>1, <2>2 DEF Booted, Switching, TypeOK, Idx, MAX
  <2>6. RunningIsCurrent'
    <3>1. ASSUME NEW i \in Idx, state'[i] = "Running" PROVE \E d \in CPU : current'[d] = i
      BY <1>1, <2>1, <2>2, <3>1 DEF RunningIsCurrent, TypeOK
    <3>2. ASSUME NEW d \in CPU, current'[d] # MAX
          PROVE  /\ current'[d] < len'
                 /\ state'[current'[d]] = IF pc'[d] = "exit" THEN "Terminated" ELSE "Running"
                 /\ affinity'[current'[d]] \in {AnyCpu, d}
                 /\ \A e \in CPU \ {d} : current'[e] # current'[d]
      <4>1. current[d] \in Idx /\ current[d] # len
        BY <1>1, <2>4, <3>2, Zenon DEF TypeOK
      <4>2. state'[current[d]] = state[current[d]] /\ affinity'[current[d]] = affinity[current[d]]
        BY <2>2, <4>1 DEF TypeOK
      <4> QED BY <1>1, <2>1, <2>2, <3>2, <4>1, <4>2 DEF RunningIsCurrent, TypeOK, Idx
    <3> QED BY <3>1, <3>2, Zenon DEF RunningIsCurrent
  <2>7. IdleThreadAtHand'
    <3> SUFFICES ASSUME NEW d \in CPU, idle[d] # MAX
                 PROVE  /\ affinity'[idle[d]] = d
                        /\ state'[idle[d]] = IF current[d] = idle[d] THEN "Running" ELSE "Ready"
      BY <1>1, Zenon DEF IdleThreadAtHand
    <3>1. idle[d] \in Idx /\ idle[d] # len
      BY <2>4, Zenon DEF TypeOK
    <3>2. state'[idle[d]] = state[idle[d]] /\ affinity'[idle[d]] = affinity[idle[d]]
      BY <2>2, <3>1 DEF TypeOK
    <3> QED BY <3>2 DEF IdleThreadAtHand
  <2>8. ContextSaved'
    <3> SUFFICES ASSUME NEW i \in Idx, i < len + 1
                 PROVE  /\ ctx'[i] # "none"
                        /\ ctx'[i] = "empty" =>
                             \E d \in CPU :
                               /\ idle'[d] = i
                               /\ \/ current'[d] = i /\ pc'[d] \in {"run", "exit", "kick"}
                                  \/ pc'[d] = "save" /\ old'[d] = i
      BY <2>2, Zenon DEF ContextSaved
    <3>1. CASE i = len
      BY <2>2, <3>1, Zenon DEF TypeOK
    <3>2. CASE i # len
      <4>1. i < len /\ ctx'[i] = ctx[i]
        BY <2>2, <3>2 DEF TypeOK, Idx
      <4> QED BY <1>1, <2>2, <4>1 DEF ContextSaved, TypeOK
    <3> QED BY <3>1, <3>2, Zenon
  <2> QED BY <2>3, <2>5, <2>6, <2>7, <2>8
<1>3. CASE KickIdleCpu(c)
  <2>1. UNCHANGED <<len, state, affinity, ctx>> /\ pc[c] = "kick"
    BY <1>3, Zenon DEF KickIdleCpu
  <2>2. pc' = pc \/ pc' = [pc EXCEPT ![c] = "run"]
    BY <1>3, Zenon DEF KickIdleCpu
  <2>3. TypeOK'
    <3>1. ipi' \in [CPU -> BOOLEAN]
      BY <1>3, Zenon DEF KickIdleCpu, TypeOK
    <3>2. kick' \in [CPU -> Nat]
      BY <1>3, SMTT(30) DEF KickIdleCpu, TypeOK
    <3> QED BY <1>1, <2>1, <2>2, <3>1, <3>2 DEF TypeOK, Steps
  <2>4. Booted' /\ Switching' /\ RunningIsCurrent' /\ IdleThreadAtHand' /\ ContextSaved'
    BY <1>1, <2>1, <2>2
       DEF Booted, Switching, RunningIsCurrent, IdleThreadAtHand, ContextSaved, TypeOK
  <2> QED BY <2>3, <2>4, Zenon
<1> QED BY <1>2, <1>3, Zenon

\* The first half of exit() preserves the invariant.
LEMMA ExitInv ==
  ASSUME Inv, NEW c \in CPU, Exit(c)
  PROVE  Inv'
<1> USE DEF Inv
<1>1. UNCHANGED <<len, affinity, ctx, current, idle, online, old, frame, masked, ipi, kick>>
  BY Zenon DEF Exit
<1>2. /\ pc[c] = "run" /\ current[c] # idle[c]
      /\ state' = [state EXCEPT ![current[c]] = "Terminated"]
      /\ pc' = [pc EXCEPT ![c] = "exit"]
  BY Zenon DEF Exit
<1>3. current[c] # MAX /\ current[c] \in Idx
  BY <1>2 DEF Booted, TypeOK
<1>4. TypeOK'
  <2>1. state' \in [Idx -> States] /\ pc' \in [CPU -> Steps]
    BY <1>2, <1>3, Zenon DEF TypeOK, States, Steps
  <2>2. \A i \in Idx : state'[i] = "none" <=> i >= len
    BY <1>2, <1>3 DEF TypeOK, RunningIsCurrent, Idx
  <2> QED BY <1>1, <2>1, <2>2, Zenon DEF TypeOK
<1>5. Booted' /\ Switching' /\ ContextSaved'
  BY <1>1, <1>2 DEF Booted, Switching, ContextSaved, TypeOK
<1>6. RunningIsCurrent'
  BY <1>1, <1>2, <1>3 DEF RunningIsCurrent, TypeOK
<1>7. IdleThreadAtHand'
  <2> SUFFICES ASSUME NEW d \in CPU, idle[d] # MAX
               PROVE  /\ affinity[idle[d]] = d
                      /\ state'[idle[d]] = IF current[d] = idle[d] THEN "Running" ELSE "Ready"
    BY <1>1, Zenon DEF IdleThreadAtHand
  <2>1. idle[d] \in Idx /\ affinity[idle[d]] = d
    BY DEF IdleThreadAtHand, TypeOK
  <2>2. idle[d] # current[c]
    BY <1>2, <1>3, <2>1, SizeAssumption DEF RunningIsCurrent, AnyCpu, CPU
  <2>3. state'[idle[d]] = state[idle[d]]
    BY <1>2, <2>1, <2>2, Zenon DEF TypeOK
  <2> QED BY <2>1, <2>3, Zenon DEF IdleThreadAtHand
<1> QED BY <1>4, <1>5, <1>6, <1>7

\* Booting a secondary CPU preserves the invariant.
LEMMA BootInv ==
  ASSUME Inv, NEW c \in CPU, InitSecondary(c) \/ SecondaryEntry(c)
  PROVE  Inv'
<1> USE DEF Inv
<1>1. current[c] = MAX /\ idle[c] = MAX
  BY SMTT(30) DEF Booted, InitSecondary, SecondaryEntry
<1>2. CASE InitSecondary(c)
  <2>1. /\ UNCHANGED <<len, state, affinity, ctx, current, idle, old, frame, masked, ipi, kick>>
        /\ online' = online + 1
        /\ pc[c] = "off" /\ pc' = [pc EXCEPT ![c] = "init"]
    BY <1>1, <1>2, Zenon DEF InitSecondary, TypeOK
  <2> QED
    BY <1>1, <2>1
       DEF TypeOK, Steps, Booted, Switching, RunningIsCurrent, IdleThreadAtHand, ContextSaved
<1>3. CASE SecondaryEntry(c)
  <2>1. len \in Idx /\ len + 1 \in 1 .. MaxThreads /\ len # MAX
    BY <1>3, SizeAssumption DEF SecondaryEntry, TypeOK, Idx, MAX
  <2>2. /\ len' = len + 1 /\ pc[c] = "init" /\ pc' = [pc EXCEPT ![c] = "run"]
        /\ state' = [state EXCEPT ![len] = "Running"]
        /\ affinity' = [affinity EXCEPT ![len] = c]
        /\ ctx' = [ctx EXCEPT ![len] = "empty"]
        /\ current' = [current EXCEPT ![c] = len]
        /\ idle' = [idle EXCEPT ![c] = len]
        /\ UNCHANGED <<online, old, frame, ipi, kick>>
    BY <1>3 DEF SecondaryEntry, InitOnSecondaryCpu, Push
  <2>3. TypeOK'
    <3>1. masked' \in [CPU -> BOOLEAN]
      BY <1>3, Zenon DEF SecondaryEntry, TypeOK
    <3>2. \A i \in Idx : state'[i] = "none" <=> i >= len'
      BY <2>1, <2>2, SMTT(30) DEF TypeOK, Idx
    <3> QED BY <2>1, <2>2, <3>1, <3>2, Zenon DEF TypeOK, States, Contexts, Steps
  <2>4. \A d \in CPU : current[d] # len /\ idle[d] # len
    BY <2>1, SizeAssumption DEF RunningIsCurrent, Booted, TypeOK, Idx, MAX
  <2>5. Booted' /\ Switching'
    BY <1>1, <2>1, <2>2 DEF Booted, Switching, TypeOK, Idx, MAX
  <2>6. \A i \in Idx : i # len => /\ state'[i] = state[i]
                                  /\ affinity'[i] = affinity[i]
                                  /\ ctx'[i] = ctx[i]
    BY <2>2 DEF TypeOK
  <2>7. RunningIsCurrent'
    <3>1. ASSUME NEW i \in Idx, state'[i] = "Running" PROVE \E d \in CPU : current'[d] = i
      <4>1. CASE i = len
        BY <2>2, <4>1 DEF TypeOK
      <4>2. CASE i # len
        <5>1. PICK d \in CPU : current[d] = i
          BY <2>6, <3>1, <4>2, Zenon DEF RunningIsCurrent
        <5>2. d # c
          BY <1>1, <5>1, SizeAssumption DEF Idx, MAX
        <5> QED BY <2>2, <5>1, <5>2, Zenon DEF TypeOK
      <4> QED BY <4>1, <4>2, Zenon
    <3>2. ASSUME NEW d \in CPU, current'[d] # MAX
          PROVE  /\ current'[d] < len'
                 /\ state'[current'[d]] = IF pc'[d] = "exit" THEN "Terminated" ELSE "Running"
                 /\ affinity'[current'[d]] \in {AnyCpu, d}
                 /\ \A e \in CPU \ {d} : current'[e] # current'[d]
      <4>1. CASE d = c
        BY <2>1, <2>2, <2>4, <4>1, SMTT(30) DEF TypeOK
      <4>2. CASE d # c
        <5>1. current'[d] = current[d] /\ current[d] \in Idx /\ current[d] # len /\ pc'[d] = pc[d]
          BY <2>2, <2>4, <3>2, <4>2 DEF TypeOK
        <5> QED BY <2>1, <2>2, <2>6, <3>2, <4>2, <5>1 DEF RunningIsCurrent, TypeOK, Idx
      <4> QED BY <4>1, <4>2, Zenon
    <3> QED BY <3>1, <3>2, Zenon DEF RunningIsCurrent
  <2>8. IdleThreadAtHand'
    <3> SUFFICES ASSUME NEW d \in CPU, idle'[d] # MAX
                 PROVE  /\ affinity'[idle'[d]] = d
                        /\ state'[idle'[d]] = IF current'[d] = idle'[d] THEN "Running" ELSE "Ready"
      BY Zenon DEF IdleThreadAtHand
    <3>1. CASE d = c
      BY <2>1, <2>2, <3>1, Zenon DEF TypeOK
    <3>2. CASE d # c
      <4>1. idle'[d] = idle[d] /\ idle[d] \in Idx /\ idle[d] # len /\ current'[d] = current[d]
        BY <2>2, <2>4, <3>2 DEF TypeOK
      <4>2. /\ affinity[idle[d]] = d
            /\ state[idle[d]] = IF current[d] = idle[d] THEN "Running" ELSE "Ready"
        BY <4>1, Zenon DEF IdleThreadAtHand
      <4>3. affinity'[idle[d]] = affinity[idle[d]] /\ state'[idle[d]] = state[idle[d]]
        BY <2>6, <4>1, Zenon
      <4> QED BY <4>1, <4>2, <4>3, Zenon
    <3> QED BY <3>1, <3>2, Zenon
  <2>9. ContextSaved'
    <3> SUFFICES ASSUME NEW i \in Idx, i < len + 1
                 PROVE  /\ ctx'[i] # "none"
                        /\ ctx'[i] = "empty" =>
                             \E d \in CPU :
                               /\ idle'[d] = i
                               /\ \/ current'[d] = i /\ pc'[d] \in {"run", "exit", "kick"}
                                  \/ pc'[d] = "save" /\ old'[d] = i
      BY <2>2 DEF ContextSaved
    <3>1. CASE i = len
      BY <2>2, <3>1 DEF TypeOK
    <3>2. CASE i # len
      <4>1. i < len /\ ctx'[i] = ctx[i] /\ i # MAX
        BY <2>6, <3>2, SizeAssumption DEF TypeOK, Idx, MAX
      <4> QED BY <1>1, <2>2, <4>1 DEF ContextSaved, TypeOK
    <3> QED BY <3>1, <3>2
  <2> QED BY <2>3, <2>5, <2>7, <2>8, <2>9
<1> QED BY <1>2, <1>3

-----------------------------------------------------------------------------
\* The scheduler's bookkeeping is right for every number of CPUs and threads:
\* the parts of Inv are the invariants of Scheduler and what makes them
\* inductive.
THEOREM SchedulerInvariant == Spec => []Inv
<1>1. Init => Inv
  <2> SUFFICES ASSUME Init PROVE Inv
    OBVIOUS
  <2>1. 0 \in CPU /\ 0 \in Idx /\ MAX \notin Idx
    BY SizeAssumption DEF CPU, Idx, MAX
  <2>2. TypeOK
    <3>1. masked \in [CPU -> BOOLEAN] /\ ipi \in [CPU -> BOOLEAN]
      BY DEF Init
    <3> QED
      BY <2>1, <3>1, SizeAssumption DEF Init, TypeOK, CPU, Idx, MAX, AnyCpu, States, Contexts, Steps
  <2>3. \A c \in CPU : /\ c = 0 => current[c] = 0 /\ idle[c] = 0 /\ pc[c] = "run"
                       /\ c # 0 => current[c] = MAX /\ idle[c] = MAX /\ pc[c] = "off"
    BY Zenon DEF Init
  <2>4. Booted /\ Switching
    BY <2>1, <2>3 DEF Init, Booted, Switching
  <2>5. RunningIsCurrent
    BY <2>1, <2>3 DEF Init, RunningIsCurrent
  <2>6. IdleThreadAtHand
    BY <2>1, <2>3, Zenon DEF Init, IdleThreadAtHand
  <2>7. ContextSaved
    BY <2>1, <2>3 DEF Init, ContextSaved, Idx
  <2> QED BY <2>2, <2>4, <2>5, <2>6, <2>7 DEF Inv
<1>2. Inv /\ [Next]_vars => Inv'
  <2> SUFFICES ASSUME Inv, [Next]_vars PROVE Inv'
    OBVIOUS
  <2>1. ASSUME NEW c \in CPU, Yield(c) \/ TimerIrq(c) \/ RescheduleIpi(c) \/ ExitSchedule(c)
        PROVE  Inv'
    <3>1. pc[c] \in {"run", "exit"} /\ ipi' \in [CPU -> BOOLEAN]
      BY <2>1, Zenon DEF Yield, TimerIrq, RescheduleIpi, TakesIrq, ExitSchedule, Inv, TypeOK
    <3>2. Schedule(c, "call") \/ Schedule(c, "irq")
      BY <2>1, Zenon DEF Yield, TimerIrq, RescheduleIpi, TakesIrq, ExitSchedule
    <3> QED BY <3>1, <3>2, ScheduleInv
  <2>2. CASE UNCHANGED vars
    <3>1. /\ UNCHANGED <<len, state, affinity, ctx, current, idle>>
          /\ UNCHANGED <<online, pc, old, frame, masked, ipi, kick>>
      BY <2>2 DEF vars
    <3>2. TypeOK' /\ Booted'
      BY <3>1 DEF Inv, TypeOK, Booted
    <3>3. RunningIsCurrent' /\ IdleThreadAtHand'
      BY <3>1 DEF Inv, RunningIsCurrent, IdleThreadAtHand
    <3>4. Switching' /\ ContextSaved'
      BY <3>1 DEF Inv, Switching, ContextSaved
    <3> QED BY <3>2, <3>3, <3>4, Zenon DEF Inv
  <2> QED BY <2>1, <2>2, SwitchInv, SpawnInv, ExitInv, BootInv DEF Next
<1> QED BY <1>1, <1>2, PTL DEF Spec

\* No thread is current on two CPUs, Running means being current, and threads
\* respect their affinity (schedule(), spawn(), exit(), SMP boot).
THEOREM RunningThreadsAreCurrent == Spec => []RunningIsCurrent
<1>1. Inv => RunningIsCurrent
  BY DEF Inv
<1> QED BY <1>1, SchedulerInvariant, PTL

\* The idle thread of a CPU can always be scheduled there, so the fallback
\* branches of schedule() are unreachable.
THEOREM IdleThreadsAreAtHand == Spec => []IdleThreadAtHand
<1>1. Inv => IdleThreadAtHand
  BY DEF Inv
<1> QED BY <1>1, SchedulerInvariant, PTL

\* context_switch never restores the zero context of a new idle thread.
THEOREM NeverJumpsToZero == Spec => []NoJumpToZero
<1>1. Inv => NoJumpToZero
  <2> SUFFICES ASSUME Inv, NEW c \in CPU, pc[c] = "load"
               PROVE  ctx[current[c]] \in {"fresh", "call", "irq"}
    BY DEF NoJumpToZero
  <2>1. current[c] \in Idx /\ current[c] < len /\ current[c] # MAX
    BY DEF Inv, Booted, RunningIsCurrent, TypeOK
  <2>2. ctx[current[c]] # "empty"
    <3> SUFFICES ASSUME ctx[current[c]] = "empty" PROVE FALSE
      OBVIOUS
    <3>1. PICK d \in CPU : /\ idle[d] = current[c]
                           /\ \/ current[d] = current[c] /\ pc[d] \in {"run", "exit", "kick"}
                              \/ pc[d] = "save" /\ old[d] = current[c]
      BY <2>1 DEF Inv, ContextSaved
    <3>2. affinity[current[c]] = d /\ affinity[current[c]] \in {AnyCpu, c}
      BY <2>1, <3>1 DEF Inv, IdleThreadAtHand, RunningIsCurrent
    <3>3. d = c
      BY <3>2, SizeAssumption DEF AnyCpu, CPU
    <3> QED BY <3>1, <3>3
  <2> QED BY <2>1, <2>2 DEF Inv, ContextSaved, TypeOK, Contexts
<1> QED BY <1>1, SchedulerInvariant, PTL

\* A thread that called exit() is never made runnable or current again.
THEOREM ExitIsFinal == Spec => TerminatedForever
<1> DEFINE Final == \A i \in Idx : state[i] = "Terminated" =>
                      /\ state'[i] = "Terminated"
                      /\ \A c \in CPU : current'[c] = i => current[c] = i
<1>1. Inv /\ [Next]_vars => [Final]_vars
  <2> SUFFICES ASSUME Inv, Next, NEW i \in Idx, state[i] = "Terminated"
               PROVE  /\ state'[i] = "Terminated"
                      /\ \A c \in CPU : current'[c] = i => current[c] = i
    BY Zenon
  <2>1. i < len /\ i # MAX
    BY SizeAssumption DEF Inv, TypeOK, Idx, MAX
  <2>2. ASSUME NEW c \in CPU, Yield(c) \/ TimerIrq(c) \/ RescheduleIpi(c) \/ ExitSchedule(c)
        PROVE  state'[i] = "Terminated" /\ \A d \in CPU : current'[d] = i => current[d] = i
    <3>1. pc[c] \in {"run", "exit"}
      BY <2>2, Zenon DEF Yield, TimerIrq, RescheduleIpi, TakesIrq, ExitSchedule
    <3>2. current[c] # MAX /\ current[c] \in Idx
      BY <3>1 DEF Inv, Booted, TypeOK
    <3>3. PICK why \in {"call", "irq"} : Schedule(c, why)
      BY <2>2 DEF Yield, TimerIrq, RescheduleIpi, TakesIrq, ExitSchedule
    <3>4. PICK n \in Idx : HandOver(c, why, n)
      BY <3>2, <3>3, ScheduleStep, Zenon
    <3>5. n # i
      BY <3>4 DEF HandOver
    <3>6. state'[i] = "Terminated"
      BY <3>2, <3>4, <3>5, Zenon DEF HandOver, Demoted, Inv, TypeOK
    <3>7. \A d \in CPU : current'[d] = current[d] \/ current'[d] = n
      BY <3>4 DEF HandOver, Inv, TypeOK
    <3> QED BY <3>5, <3>6, <3>7, Zenon
  <2>3. ASSUME NEW c \in CPU, SaveOld(c) \/ LoadNew(c) \/ KickIdleCpu(c)
        PROVE  UNCHANGED <<state, current>>
    BY <2>3, Zenon DEF SaveOld, LoadNew, KickIdleCpu
  <2>4. ASSUME NEW c \in CPU, Spawn(c) \/ Exit(c)
        PROVE  state'[i] = "Terminated" /\ current' = current
    BY <2>1, <2>4 DEF Spawn, Push, Exit, Inv, TypeOK
  <2>5. ASSUME NEW c \in CPU, InitSecondary(c) \/ SecondaryEntry(c)
        PROVE  state'[i] = "Terminated" /\ \A d \in CPU : current'[d] = i => current[d] = i
    BY <2>1, <2>5 DEF InitSecondary, SecondaryEntry, InitOnSecondaryCpu, Push, Inv, TypeOK
  <2> QED BY <2>2, <2>3, <2>4, <2>5, Zenon DEF Next
<1> QED BY <1>1, SchedulerInvariant, PTL DEF Spec, TerminatedForever

-----------------------------------------------------------------------------
(* Boxes *)

MaybeBox == Boxes \union {None}

\* Where a thread has a box that is neither published nor freed.
OwnPlaces == {"swap", "push", "push_cas", "synchronize", "wait", "free"}
PopPlaces == {"pop_next", "pop_cas"}
RcuPlaces == OwnPlaces \union PopPlaces \union {"idle", "guard", "count", "section", "srcu_guard"}

InStack(b) == \E i \in 1 .. Len(stack) : stack[i] = b

RcuHeap ==
  /\ used \in {"cell", "srcu", "list"} /\ live \subseteq Boxes /\ freed = {}
  /\ ptr \in MaybeBox /\ next \in [Boxes -> MaybeBox] /\ stack \in Seq(Boxes)
  /\ used # "list" => ptr \in live /\ stack = <<>>
  /\ used = "list" => Linked
  /\ \A i \in 1 .. Len(stack) : stack[i] \in live
  /\ \A i, j \in 1 .. Len(stack) : stack[i] = stack[j] => i = j

\* What holds of a thread that is at a place with a box and a head it loaded.
RcuCall(t, l, b, o) ==
  /\ l \in OwnPlaces => /\ b \in live /\ ~InStack(b)
                        /\ used # "list" => b # ptr
  /\ l = "swap" => used # "list"
  /\ l \in {"push", "push_cas"} \union PopPlaces => used = "list"
  /\ l = "push_cas" => next[b] = o
  /\ l \in PopPlaces => t \in Poppers /\ InStack(o)
  /\ l = "pop_cas" => b = next[o]

RcuInv ==
  /\ RcuHeap
  /\ rcupc \in [RcuThreads -> RcuPlaces]
  /\ box \in [RcuThreads -> MaybeBox] /\ loaded \in [RcuThreads -> MaybeBox]
  /\ \A t \in RcuThreads : RcuCall(t, rcupc[t], box[t], loaded[t])
  /\ \A t, u \in RcuThreads :
       t # u /\ rcupc[t] \in OwnPlaces /\ rcupc[u] \in OwnPlaces => box[t] # box[u]

\* The step of a thread leaves the places of the others.
LEMMA RcuOthers ==
  ASSUME RcuInv, NEW t \in RcuThreads, NEW l, NEW b, NEW o,
         RcuGo(t, l, b), loaded' = [loaded EXCEPT ![t] = o]
  PROVE  /\ rcupc'[t] = l /\ box'[t] = b /\ loaded'[t] = o
         /\ \A u \in RcuThreads : u # t =>
              rcupc'[u] = rcupc[u] /\ box'[u] = box[u] /\ loaded'[u] = loaded[u]
BY Zenon DEF RcuGo, RcuInv

\* What a step of a thread has to show.
LEMMA RcuKept ==
  ASSUME RcuInv, NEW t \in RcuThreads, NEW l \in RcuPlaces, NEW b \in MaybeBox,
         NEW o \in MaybeBox, RcuGo(t, l, b), loaded' = [loaded EXCEPT ![t] = o],
         RcuHeap', RcuCall(t, l, b, o)',
         \A u \in RcuThreads : u # t => RcuCall(u, rcupc[u], box[u], loaded[u])',
         l \in OwnPlaces =>
           \A u \in RcuThreads : u # t /\ rcupc[u] \in OwnPlaces => box[u] # b
  PROVE  RcuInv'
<1>1. /\ rcupc'[t] = l /\ box'[t] = b /\ loaded'[t] = o
      /\ \A u \in RcuThreads : u # t =>
           rcupc'[u] = rcupc[u] /\ box'[u] = box[u] /\ loaded'[u] = loaded[u]
  BY RcuOthers, Zenon
<1>2. /\ rcupc' \in [RcuThreads -> RcuPlaces]
      /\ box' \in [RcuThreads -> MaybeBox] /\ loaded' \in [RcuThreads -> MaybeBox]
  BY Zenon DEF RcuInv, RcuGo
<1>3. ASSUME NEW u \in RcuThreads PROVE RcuCall(u, rcupc[u], box[u], loaded[u])'
  <2>1. CASE u = t
    BY <1>1, <2>1, ZenonT(40) DEF RcuCall, InStack
  <2>2. CASE u # t
    BY <2>2, Zenon
  <2> QED BY <2>1, <2>2, Zenon
<1>4. \A u, v \in RcuThreads :
        u # v /\ rcupc'[u] \in OwnPlaces /\ rcupc'[v] \in OwnPlaces => box'[u] # box'[v]
  <2> SUFFICES ASSUME NEW u \in RcuThreads, NEW v \in RcuThreads, u # v,
                      rcupc'[u] \in OwnPlaces, rcupc'[v] \in OwnPlaces
               PROVE  box'[u] # box'[v]
    BY Zenon
  <2>1. CASE u = t
    BY <1>1, <2>1, Zenon
  <2>2. CASE v = t
    BY <1>1, <2>2, Zenon
  <2>3. CASE u # t /\ v # t
    BY <1>1, <2>3, Zenon DEF RcuInv
  <2> QED BY <2>1, <2>2, <2>3, Zenon
<1> QED BY <1>2, <1>3, <1>4 DEF RcuInv, RcuPlaces, MaybeBox, OwnPlaces, PopPlaces

LEMMA StackIsSequence ==
  ASSUME RcuHeap
  PROVE  stack \in Seq(Boxes) /\ Len(stack) \in Nat
BY DEF RcuHeap

LEMMA HeapSame ==
  ASSUME RcuHeap, UNCHANGED <<used, live, freed, ptr, next, stack>>
  PROVE  RcuHeap'
BY DEF RcuHeap, Linked, MaybeBox

LEMMA CallsSame ==
  ASSUME RcuInv, NEW t \in RcuThreads, NEW l, NEW b, NEW o,
         RcuGo(t, l, b), loaded' = [loaded EXCEPT ![t] = o],
         UNCHANGED <<used, live, ptr, next, stack>>
  PROVE  \A u \in RcuThreads : u # t => RcuCall(u, rcupc[u], box[u], loaded[u])'
<1> SUFFICES ASSUME NEW u \in RcuThreads, u # t PROVE RcuCall(u, rcupc[u], box[u], loaded[u])'
  BY Zenon
<1>1. rcupc'[u] = rcupc[u] /\ box'[u] = box[u] /\ loaded'[u] = loaded[u]
  BY RcuOthers, Zenon
<1>2. RcuCall(u, rcupc[u], box[u], loaded[u])
  BY DEF RcuInv
<1> QED BY <1>1, <1>2, Zenon DEF RcuCall, InStack

\* The readers, and the writers that wait, leave the heap as it is.
LEMMA RcuWaitStep ==
  ASSUME RcuInv, NEW t \in RcuThreads,
         \/ read(t) \/ DropGuard(t) \/ synchronize_rcu(t)
         \/ LoadEpoch(t) \/ CountReader(t) \/ ReadInSection(t) \/ read_unlock(t)
         \/ Flip(t) \/ Wait(t)
  PROVE  RcuInv'
<1>1. UNCHANGED <<used, ptr, live, next, loaded, stack, freed>>
  BY Zenon DEF read, DropGuard, synchronize_rcu, LoadEpoch, CountReader, ReadInSection, read_unlock,
         Flip, Wait, domain
<1>2. \E l \in RcuPlaces, b \in MaybeBox :
        /\ RcuGo(t, l, b)
        /\ \/ l \notin OwnPlaces \union PopPlaces
           \/ l \in {"wait", "free"} /\ rcupc[t] \in OwnPlaces /\ b = box[t]
  <2>1. ptr \in MaybeBox /\ None \in MaybeBox /\ box[t] \in MaybeBox
    BY Zenon DEF RcuInv, RcuHeap, MaybeBox
  <2>0. /\ {"idle", "guard", "count", "section", "srcu_guard"} \subseteq RcuPlaces
        /\ {"idle", "guard", "count", "section", "srcu_guard"} \cap OwnPlaces = {}
        /\ {"idle", "guard", "count", "section", "srcu_guard"} \cap PopPlaces = {}
        /\ {"synchronize", "wait", "free"} \subseteq OwnPlaces \cap RcuPlaces
    BY DEF RcuPlaces, OwnPlaces, PopPlaces
  <2>2. CASE read(t)
    BY <2>0, <2>1, <2>2, Zenon DEF read
  <2>3. CASE DropGuard(t)
    BY <2>0, <2>1, <2>3, Zenon DEF DropGuard
  <2>4. CASE synchronize_rcu(t)
    BY <2>0, <2>1, <2>4, Zenon DEF synchronize_rcu, RcuAt
  <2>5. CASE LoadEpoch(t)
    BY <2>0, <2>1, <2>5, Zenon DEF LoadEpoch
  <2>6. CASE CountReader(t)
    BY <2>0, <2>1, <2>6, Zenon DEF CountReader
  <2>7. CASE ReadInSection(t)
    BY <2>0, <2>1, <2>7, Zenon DEF ReadInSection
  <2>8. CASE read_unlock(t)
    BY <2>0, <2>1, <2>8, Zenon DEF read_unlock
  <2>9. CASE Flip(t)
    BY <2>0, <2>1, <2>9, Zenon DEF Flip, RcuAt
  <2>10. CASE Wait(t)
    BY <2>0, <2>1, <2>10, Zenon DEF Wait, RcuAt
  <2> QED BY <2>2, <2>3, <2>4, <2>5, <2>6, <2>7, <2>8, <2>9, <2>10, Zenon
<1>3. PICK l \in RcuPlaces, b \in MaybeBox :
        /\ RcuGo(t, l, b)
        /\ \/ l \notin OwnPlaces \union PopPlaces
           \/ l \in {"wait", "free"} /\ rcupc[t] \in OwnPlaces /\ b = box[t]
  BY <1>2, Zenon
<1>4. PICK o \in MaybeBox : o = loaded[t] /\ loaded' = [loaded EXCEPT ![t] = o]
  BY <1>1, Zenon DEF RcuInv
<1>5. RcuCall(t, rcupc[t], box[t], loaded[t]) /\ RcuHeap
  BY DEF RcuInv
<1>6. RcuCall(t, l, b, o)'
  BY <1>1, <1>3, <1>5, Zenon DEF RcuCall, InStack, OwnPlaces, PopPlaces
<1>7. \A u \in RcuThreads : u # t => RcuCall(u, rcupc[u], box[u], loaded[u])'
  BY <1>1, <1>3, <1>4, CallsSame, Zenon
<1>8. RcuHeap'
  BY <1>1, <1>5, HeapSame, Zenon
<1>9. l \in OwnPlaces => \A u \in RcuThreads : u # t /\ rcupc[u] \in OwnPlaces => box[u] # b
  BY <1>3 DEF RcuInv
<1> QED BY <1>3, <1>4, <1>6, <1>7, <1>8, <1>9, RcuKept, Zenon

\* A box that is not allocated is nobody's.
LEMMA AllocStep ==
  ASSUME RcuInv, NEW t \in RcuThreads, NEW b \in Boxes, Prepare(t, b) \/ PushAlloc(t, b)
  PROVE  RcuInv'
<1>1. b \notin live /\ live' = live \union {b} /\ UNCHANGED <<used, ptr, next, stack, freed>>
  BY Zenon DEF Prepare, PushAlloc
<1>2. PICK l \in {"swap", "push"} :
        RcuGo(t, l, b) /\ (l = "swap" => used # "list") /\ (l = "push" => used = "list")
  BY Zenon DEF Prepare, PushAlloc
<1>3. PICK o \in MaybeBox : loaded' = [loaded EXCEPT ![t] = o]
  <2>1. loaded = [loaded EXCEPT ![t] = loaded[t]] /\ loaded[t] \in MaybeBox /\ ptr \in MaybeBox
    BY Zenon DEF RcuInv, RcuHeap
  <2> QED BY <2>1, Zenon DEF Prepare, PushAlloc
<1>4. RcuHeap
  BY Zenon DEF RcuInv
<1>5. RcuHeap'
  BY <1>1, <1>4 DEF RcuHeap, Linked, MaybeBox
<1>6. RcuCall(t, l, b, o)'
  BY <1>1, <1>2, <1>4 DEF RcuCall, InStack, OwnPlaces, PopPlaces, RcuHeap
<1>7. ASSUME NEW u \in RcuThreads, u # t PROVE RcuCall(u, rcupc[u], box[u], loaded[u])'
  <2>1. rcupc'[u] = rcupc[u] /\ box'[u] = box[u] /\ loaded'[u] = loaded[u]
    BY <1>2, <1>3, <1>7, RcuOthers, Zenon
  <2>2. RcuCall(u, rcupc[u], box[u], loaded[u])
    BY DEF RcuInv
  <2> QED BY <1>1, <2>1, <2>2, Zenon DEF RcuCall, InStack
<1>8. \A u \in RcuThreads : u # t /\ rcupc[u] \in OwnPlaces => box[u] # b
  BY <1>1, Zenon DEF RcuInv, RcuCall
<1>9. l \in RcuPlaces /\ b \in MaybeBox
  BY DEF RcuPlaces, OwnPlaces, MaybeBox
<1> QED BY <1>2, <1>3, <1>5, <1>6, <1>7, <1>8, <1>9, RcuKept, Zenon

\* The exchange: the box published and the one taken change places.
LEMMA SwapStep ==
  ASSUME RcuInv, NEW t \in RcuThreads, Swap(t)
  PROVE  RcuInv'
<1>1. PICK b \in MaybeBox : b = ptr
  BY DEF RcuInv, RcuHeap
<1>2. /\ rcupc[t] = "swap" /\ ptr' = box[t] /\ RcuGo(t, "synchronize", b)
      /\ loaded' = [loaded EXCEPT ![t] = None] /\ UNCHANGED <<used, live, next, stack, freed>>
  BY <1>1, Zenon DEF Swap, RcuAt
<1>3. RcuCall(t, rcupc[t], box[t], loaded[t]) /\ RcuHeap
  BY DEF RcuInv
<1>4. used # "list" /\ box[t] \in live /\ ~InStack(box[t]) /\ box[t] # ptr /\ b \in live
  BY <1>1, <1>2, <1>3, Zenon DEF RcuCall, RcuHeap, OwnPlaces
<1>5. RcuHeap'
  BY <1>2, <1>3, <1>4, ZenonT(40) DEF RcuHeap, MaybeBox
<1>6. \A c : ~InStack(c)
  <2>1. stack = <<>>
    BY <1>3, <1>4, Zenon DEF RcuHeap
  <2>2. 1 .. Len(<<>>) = {}
    OBVIOUS
  <2> QED BY <2>1, <2>2, Zenon DEF InStack
<1>7. RcuCall(t, "synchronize", b, None)'
  BY <1>1, <1>2, <1>4, <1>6, Zenon DEF RcuCall, InStack, OwnPlaces, PopPlaces
<1>8. ASSUME NEW u \in RcuThreads, u # t PROVE RcuCall(u, rcupc[u], box[u], loaded[u])'
  <2>1. rcupc'[u] = rcupc[u] /\ box'[u] = box[u] /\ loaded'[u] = loaded[u]
    BY <1>2, <1>8, RcuOthers, Zenon
  <2>2. RcuCall(u, rcupc[u], box[u], loaded[u])
    BY Zenon DEF RcuInv
  <2>3. rcupc[u] \in OwnPlaces => box[u] # box[t]
    BY <1>2, <1>8 DEF RcuInv, OwnPlaces
  <2> QED BY <1>2, <1>4, <2>1, <2>2, <2>3, Zenon DEF RcuCall, InStack
<1>9. \A u \in RcuThreads : u # t /\ rcupc[u] \in OwnPlaces => box[u] # b
  BY <1>1, <1>4, Zenon DEF RcuInv, RcuCall
<1>10. "synchronize" \in RcuPlaces /\ None \in MaybeBox
  BY DEF RcuPlaces, OwnPlaces, MaybeBox
<1> QED BY <1>2, <1>5, <1>7, <1>8, <1>9, <1>10, RcuKept, Zenon

LEMMA FreeStep ==
  ASSUME RcuInv, NEW t \in RcuThreads, Free(t)
  PROVE  RcuInv'
<1>1. /\ rcupc[t] = "free" /\ live' = live \ {box[t]} /\ RcuGo(t, "idle", None)
      /\ freed' = IF box[t] \notin live \/ box[t] = ptr THEN freed \union {box[t]} ELSE freed
      /\ UNCHANGED <<used, ptr, next, loaded, stack>>
  BY Zenon DEF Free, free, RcuAt
<1>2. RcuCall(t, rcupc[t], box[t], loaded[t]) /\ RcuHeap
  BY Zenon DEF RcuInv
<1>3. box[t] \in live /\ ~InStack(box[t]) /\ (used # "list" => box[t] # ptr)
  BY <1>1, <1>2, Zenon DEF RcuCall, OwnPlaces
<1>4. box[t] # ptr
  <2>1. CASE used = "list"
    <3>1. ptr = None \/ InStack(ptr)
      <4>1. stack \in Seq(Boxes) /\ Len(stack) \in Nat /\ (stack # <<>> => Len(stack) # 0)
        BY <1>2 DEF RcuHeap
      <4>2. stack # <<>> => 1 \in 1 .. Len(stack)
        BY <4>1
      <4> QED BY <1>2, <2>1, <4>2, Zenon DEF RcuHeap, Linked, InStack
    <3>2. box[t] # None
      BY <1>2, <1>3, RcuAssumption DEF RcuHeap
    <3> QED BY <1>3, <3>1, <3>2, Zenon
  <2> QED BY <1>3, <2>1
<1>5. freed' = {}
  BY <1>1, <1>2, <1>3, <1>4, Zenon DEF RcuHeap
<1>6. RcuHeap'
  <2>1. \A i \in 1 .. Len(stack) : stack[i] \in live'
    BY <1>1, <1>2, <1>3, Zenon DEF RcuHeap, InStack
  <2>2. live' \subseteq Boxes /\ (used # "list" => ptr \in live')
    BY <1>1, <1>2, <1>4, Zenon DEF RcuHeap
  <2>3. Linked' = Linked
    BY <1>1, Zenon DEF Linked
  <2>4. UNCHANGED <<used, ptr, next, stack>>
    BY <1>1, Zenon
  <2> QED BY <1>2, <1>5, <2>1, <2>2, <2>3, <2>4, ZenonT(40) DEF RcuHeap, MaybeBox
<1>7. PICK o \in MaybeBox : loaded' = [loaded EXCEPT ![t] = o]
  <2>1. loaded = [loaded EXCEPT ![t] = loaded[t]] /\ loaded[t] \in MaybeBox
    BY DEF RcuInv
  <2> QED BY <1>1, <2>1
<1>8. RcuCall(t, "idle", None, o)'
  BY DEF RcuCall, OwnPlaces, PopPlaces
<1>9. ASSUME NEW u \in RcuThreads, u # t PROVE RcuCall(u, rcupc[u], box[u], loaded[u])'
  <2>1. rcupc'[u] = rcupc[u] /\ box'[u] = box[u] /\ loaded'[u] = loaded[u]
    BY <1>1, <1>7, <1>9, RcuOthers, Zenon
  <2>2. RcuCall(u, rcupc[u], box[u], loaded[u])
    BY DEF RcuInv
  <2>3. rcupc[u] \in OwnPlaces => box[u] # box[t]
    BY <1>1, <1>9, Zenon DEF RcuInv, OwnPlaces
  <2> QED BY <1>1, <2>1, <2>2, <2>3, Zenon DEF RcuCall, InStack
<1>10. "idle" \in RcuPlaces /\ "idle" \notin OwnPlaces /\ None \in MaybeBox
  BY DEF RcuPlaces, OwnPlaces, PopPlaces, MaybeBox
<1> QED BY <1>1, <1>6, <1>7, <1>8, <1>9, <1>10, RcuKept, Zenon

\* Only the next of a node that is not in the list is written.
LEMMA PushLoadStep ==
  ASSUME RcuInv, NEW t \in RcuThreads, PushLoad(t)
  PROVE  RcuInv'
<1>1. PICK b \in MaybeBox, o \in MaybeBox : b = box[t] /\ o = ptr
  BY Zenon DEF RcuInv, RcuHeap
<1>2. /\ rcupc[t] = "push" /\ loaded' = [loaded EXCEPT ![t] = o] /\ next' = [next EXCEPT ![b] = o]
      /\ RcuGo(t, "push_cas", b) /\ UNCHANGED <<used, ptr, live, stack, freed>>
  BY <1>1 DEF PushLoad, RcuAt
<1>3. RcuCall(t, rcupc[t], box[t], loaded[t]) /\ RcuHeap
  BY Zenon DEF RcuInv
<1>4. b \in live /\ b \in Boxes /\ ~InStack(b) /\ used = "list"
  BY <1>1, <1>2, <1>3, Zenon DEF RcuCall, RcuHeap, OwnPlaces
<1>5. /\ next' \in [Boxes -> MaybeBox] /\ next'[b] = o
      /\ \A c \in Boxes : c # b => next'[c] = next[c]
  BY <1>2, <1>3, <1>4, Zenon DEF RcuHeap
<1>6. \A i \in 1 .. Len(stack) : stack[i] \in Boxes /\ next'[stack[i]] = next[stack[i]]
  BY <1>3, <1>4, <1>5, Zenon DEF InStack, RcuHeap
<1>7. RcuHeap'
  <2>1. Linked
    BY <1>3, <1>4, Zenon DEF RcuHeap
  <2>2. Linked'
    BY <1>2, <1>6, <2>1, Zenon DEF Linked
  <2>3. /\ used' = used /\ ptr' = ptr /\ live' = live /\ stack' = stack /\ freed' = freed
        /\ next' \in [Boxes -> MaybeBox]
    BY <1>2, <1>5
  <2> QED BY <1>3, <1>4, <2>2, <2>3, ZenonT(40) DEF RcuHeap, MaybeBox
<1>8. RcuCall(t, "push_cas", b, o)'
  BY <1>2, <1>4, <1>5 DEF RcuCall, InStack, OwnPlaces, PopPlaces
<1>9. ASSUME NEW u \in RcuThreads, u # t PROVE RcuCall(u, rcupc[u], box[u], loaded[u])'
  <2>1. rcupc'[u] = rcupc[u] /\ box'[u] = box[u] /\ loaded'[u] = loaded[u]
    BY <1>2, <1>9, RcuOthers, Zenon
  <2>2. RcuCall(u, rcupc[u], box[u], loaded[u])
    BY Zenon DEF RcuInv
  <2>3. rcupc[u] = "push_cas" => next'[box[u]] = next[box[u]]
    <3> SUFFICES ASSUME rcupc[u] = "push_cas" PROVE next'[box[u]] = next[box[u]]
      OBVIOUS
    <3>1. box[u] \in Boxes
      BY <1>3, <2>2, Zenon DEF RcuCall, RcuHeap, OwnPlaces
    <3>2. box[u] # b
      BY <1>1, <1>2, <1>9, Zenon DEF RcuInv, OwnPlaces
    <3> QED BY <1>5, <3>1, <3>2, Zenon
  <2>4. InStack(loaded[u]) => next'[loaded[u]] = next[loaded[u]]
    BY <1>6 DEF InStack
  <2> QED BY <1>2, <2>1, <2>2, <2>3, <2>4, Zenon DEF RcuCall, InStack, PopPlaces
<1>10. \A u \in RcuThreads : u # t /\ rcupc[u] \in OwnPlaces => box[u] # b
  BY <1>1, <1>2 DEF RcuInv, OwnPlaces
<1>11. "push_cas" \in RcuPlaces
  BY DEF RcuPlaces, OwnPlaces
<1> QED BY <1>2, <1>7, <1>8, <1>9, <1>10, <1>11, RcuKept, Zenon

\* The sequence r is s with b in front.
IsInFront(r, b, s) ==
  /\ r \in Seq(Boxes) /\ Len(r) = Len(s) + 1 /\ r[1] = b /\ r # <<>>
  /\ \A i \in 1 .. Len(s) : r[i + 1] = s[i]
  /\ \A i \in 1 .. Len(r) : i = 1 \/ (i - 1 \in 1 .. Len(s) /\ r[i] = s[i - 1])

LEMMA InFront ==
  ASSUME NEW s \in Seq(Boxes), NEW b \in Boxes, NEW r, r = <<b>> \o s
  PROVE  IsInFront(r, b, s)
<1>1. <<b>> \in Seq(Boxes) /\ Len(<<b>>) = 1 /\ <<b>>[1] = b /\ Len(s) \in Nat
  OBVIOUS
<1>2. r \in Seq(Boxes) /\ Len(r) = Len(s) + 1 /\ r # <<>>
  OBVIOUS
<1>3. r[1] = b
  OBVIOUS
<1>4. \A i \in 1 .. Len(r) : i = 1 \/ (i - 1 \in 1 .. Len(s) /\ r[i] = s[i - 1])
  <2> SUFFICES ASSUME NEW i \in 1 .. Len(s) + 1, i # 1
               PROVE  i - 1 \in 1 .. Len(s) /\ r[i] = s[i - 1]
    BY <1>2
  <2>1. i - 1 \in 1 .. Len(s)
    BY <1>1
  <2> QED BY <1>1, <2>1
<1>5. \A i \in 1 .. Len(s) : r[i + 1] = s[i]
  <2> SUFFICES ASSUME NEW i \in 1 .. Len(s) PROVE r[i + 1] = s[i]
    OBVIOUS
  <2>1. i + 1 \in 1 .. Len(r) /\ i + 1 # 1 /\ (i + 1) - 1 = i
    BY <1>1, <1>2
  <2> QED BY <1>4, <2>1, Zenon
<1> QED BY <1>2, <1>3, <1>4, <1>5, Zenon DEF IsInFront

LEMMA WithoutFirst ==
  ASSUME NEW S, NEW s \in Seq(S), s # <<>>
  PROVE  /\ Tail(s) \in Seq(S) /\ Len(Tail(s)) = Len(s) - 1 /\ Len(s) \in Nat \ {0}
         /\ \A i \in 1 .. Len(s) - 1 : Tail(s)[i] = s[i + 1]
BY SMTT(30)

LEMMA PushExchangeStep ==
  ASSUME RcuInv, NEW t \in RcuThreads, PushExchange(t)
  PROVE  RcuInv'
<1>1. PICK b \in MaybeBox : b = box[t]
  BY Zenon DEF RcuInv
<1>2. /\ rcupc[t] = "push_cas" /\ loaded' = [loaded EXCEPT ![t] = None]
      /\ UNCHANGED <<used, live, next, freed>>
  BY Zenon DEF PushExchange, RcuAt
<1>3. RcuCall(t, rcupc[t], box[t], loaded[t]) /\ RcuHeap /\ None \in MaybeBox
  BY DEF RcuInv, MaybeBox
<1>4. b \in live /\ b \in Boxes /\ ~InStack(b) /\ used = "list" /\ next[b] = loaded[t]
  BY <1>1, <1>2, <1>3, Zenon DEF RcuCall, RcuHeap, OwnPlaces
<1>5. CASE RcuGo(t, "push", b) /\ UNCHANGED <<ptr, stack>>
  <2>1. RcuHeap'
    BY <1>2, <1>3, <1>5, HeapSame, Zenon
  <2>2. RcuCall(t, "push", b, None)'
    BY <1>2, <1>4, <1>5, Zenon DEF RcuCall, InStack, OwnPlaces, PopPlaces
  <2>3. \A u \in RcuThreads : u # t => RcuCall(u, rcupc[u], box[u], loaded[u])'
    BY <1>2, <1>5, CallsSame, Zenon
  <2>4. \A u \in RcuThreads : u # t /\ rcupc[u] \in OwnPlaces => box[u] # b
    BY <1>1, <1>2, Zenon DEF RcuInv, OwnPlaces
  <2>5. "push" \in RcuPlaces
    BY DEF RcuPlaces, OwnPlaces
  <2> QED BY <1>2, <1>3, <1>5, <2>1, <2>2, <2>3, <2>4, <2>5, RcuKept, Zenon
<1>6. CASE /\ ptr = loaded[t] /\ ptr' = b /\ stack' = <<b>> \o stack
           /\ RcuGo(t, "idle", None)
  <2>1. stack \in Seq(Boxes) /\ Len(stack) \in Nat
    BY <1>3, StackIsSequence, Zenon
  <2>2. /\ stack' \in Seq(Boxes) /\ Len(stack') = Len(stack) + 1 /\ stack'[1] = b
        /\ stack' # <<>>
        /\ \A i \in 1 .. Len(stack) : stack'[i + 1] = stack[i]
        /\ \A i \in 1 .. Len(stack') :
             i = 1 \/ (i - 1 \in 1 .. Len(stack) /\ stack'[i] = stack[i - 1])
    <3>1. stack' = <<b>> \o stack /\ b \in Boxes
      BY <1>4, <1>6, Zenon
    <3>2. IsInFront(stack', b, stack)
      BY <2>1, <3>1, InFront, Zenon
    <3> QED BY <3>2, Zenon DEF IsInFront
  <2>3. \A c : InStack(c)' <=> c = b \/ InStack(c)
    <3> SUFFICES ASSUME NEW c PROVE InStack(c)' <=> c = b \/ InStack(c)
      BY Zenon
    <3>1. ASSUME InStack(c)' PROVE c = b \/ InStack(c)
      BY <2>2, <3>1 DEF InStack
    <3>2. ASSUME c = b PROVE InStack(c)'
      <4>1. 1 \in 1 .. Len(stack')
        BY <2>1, <2>2
      <4> QED BY <2>2, <3>2, <4>1, Zenon DEF InStack
    <3>3. ASSUME InStack(c) PROVE InStack(c)'
      <4>1. PICK i \in 1 .. Len(stack) : stack[i] = c
        BY <3>3, Zenon DEF InStack
      <4>2. i + 1 \in 1 .. Len(stack') /\ stack'[i + 1] = c
        BY <2>1, <2>2, <4>1
      <4> QED BY <4>2 DEF InStack
    <3> QED BY <3>1, <3>2, <3>3, Zenon
  <2>4. Linked'
    <3>1. ptr' = IF stack' = <<>> THEN None ELSE stack'[1]
      BY <1>6, <2>2, Zenon
    <3>2. ASSUME NEW i \in 1 .. Len(stack')
          PROVE  next'[stack'[i]] = IF i = Len(stack') THEN None ELSE stack'[i + 1]
      <4>1. Linked
        BY <1>3, <1>4, SMTT(30) DEF RcuHeap
      <4>2. CASE i = 1
        <5>1. next'[stack'[i]] = ptr
          BY <1>2, <1>4, <1>6, <2>2, <4>2, Zenon
        <5>2. CASE stack = <<>>
          <6>1. ptr = None
            BY <4>1, <5>2, Zenon DEF Linked
          <6>2. Len(stack') = 1
            BY <2>2, <5>2
          <6> QED BY <4>2, <5>1, <6>1, <6>2, Zenon
        <5>3. CASE stack # <<>>
          <6>1. 1 \in 1 .. Len(stack) /\ Len(stack') # 1
            BY <2>1, <2>2, <5>3
          <6> QED BY <2>2, <4>1, <4>2, <5>1, <5>3, <6>1, Zenon DEF Linked
        <5> QED BY <5>2, <5>3
      <4>3. CASE i # 1
        <5>1. i - 1 \in 1 .. Len(stack) /\ stack'[i] = stack[i - 1]
          BY <2>2, <4>3, Zenon
        <5>2. next[stack[i - 1]] = IF i - 1 = Len(stack) THEN None ELSE stack[(i - 1) + 1]
          BY <4>1, <5>1, SMTT(30) DEF Linked
        <5>3. CASE i = Len(stack')
          BY <1>2, <2>1, <2>2, <5>1, <5>2, <5>3
        <5>4. CASE i # Len(stack')
          <6>1. i \in 1 .. Len(stack) /\ i - 1 # Len(stack) /\ (i - 1) + 1 = i
            BY <2>1, <2>2, <5>4
          <6> QED BY <1>2, <2>2, <5>1, <5>2, <5>4, <6>1, Zenon
        <5> QED BY <5>3, <5>4, Zenon
      <4> QED BY <4>2, <4>3, Zenon
    <3> QED BY <3>1, <3>2 DEF Linked
  <2>5. \A i \in 1 .. Len(stack') : stack'[i] \in live
    BY <1>3, <1>4, <2>2, Zenon DEF RcuHeap
  <2>6. \A i, j \in 1 .. Len(stack') : stack'[i] = stack'[j] => i = j
    <3> SUFFICES ASSUME NEW i \in 1 .. Len(stack'), NEW j \in 1 .. Len(stack'),
                        stack'[i] = stack'[j]
                 PROVE  i = j
      BY Zenon
    <3>1. \A k \in 1 .. Len(stack) : stack[k] # b
      BY <1>4, Zenon DEF InStack
    <3>2. CASE i = 1 \/ j = 1
      BY <2>2, <3>1, <3>2, SMTT(30)
    <3>3. CASE i # 1 /\ j # 1
      <4>1. /\ i - 1 \in 1 .. Len(stack) /\ j - 1 \in 1 .. Len(stack)
            /\ stack[i - 1] = stack[j - 1]
        BY <2>2, <3>3
      <4>2. i - 1 = j - 1
        BY <1>3, <4>1, Zenon DEF RcuHeap
      <4> QED BY <2>1, <2>2, <4>2
    <3> QED BY <3>2, <3>3
  <2>7. RcuHeap'
    BY <1>2, <1>3, <1>4, <1>6, <2>2, <2>4, <2>5, <2>6, Zenon DEF RcuHeap, MaybeBox
  <2>8. RcuCall(t, "idle", None, None)'
    BY DEF RcuCall, OwnPlaces, PopPlaces
  <2>9. ASSUME NEW u \in RcuThreads, u # t PROVE RcuCall(u, rcupc[u], box[u], loaded[u])'
    <3>1. rcupc'[u] = rcupc[u] /\ box'[u] = box[u] /\ loaded'[u] = loaded[u]
      BY <1>2, <1>6, <2>9, RcuOthers, Zenon
    <3>2. RcuCall(u, rcupc[u], box[u], loaded[u])
      BY DEF RcuInv
    <3>3. rcupc[u] \in OwnPlaces => box[u] # b
      BY <1>1, <1>2, <2>9 DEF RcuInv, OwnPlaces
    <3>4. /\ rcupc[u] \in OwnPlaces => ~InStack(box[u])'
          /\ InStack(loaded[u]) => InStack(loaded[u])'
      <4>1. /\ InStack(box[u])' <=> box[u] = b \/ InStack(box[u])
            /\ InStack(loaded[u]) => InStack(loaded[u])'
        <5>1. PICK c, d : c = box[u] /\ d = loaded[u] /\ c = box'[u] /\ d = loaded'[u]
          BY <3>1, Zenon
        <5>2. (InStack(c)' <=> c = b \/ InStack(c)) /\ (InStack(d) => InStack(d)')
          BY <2>3
        <5> QED BY <5>1, <5>2, Zenon DEF InStack
      <4> QED BY <3>2, <3>3, <4>1, Zenon DEF RcuCall
    <3> QED BY <1>2, <1>4, <3>1, <3>2, <3>3, <3>4, Zenon DEF RcuCall
  <2>10. "idle" \in RcuPlaces /\ "idle" \notin OwnPlaces
    BY Zenon DEF RcuPlaces, OwnPlaces, PopPlaces
  <2> QED BY <1>2, <1>3, <1>6, <2>7, <2>8, <2>9, <2>10, RcuKept, Zenon
<1> QED BY <1>1, <1>5, <1>6 DEF PushExchange

\* The head of a list that is not empty is its first node.
LEMMA HeadInStack ==
  ASSUME RcuHeap, used = "list", ptr # None
  PROVE  /\ stack # <<>> /\ Len(stack) \in Nat \ {0} /\ 1 \in 1 .. Len(stack)
         /\ ptr = stack[1] /\ InStack(ptr)
<1>1. stack # <<>> /\ ptr = stack[1] /\ stack \in Seq(Boxes)
  BY DEF RcuHeap, Linked
<1>2. Len(stack) \in Nat \ {0} /\ 1 \in 1 .. Len(stack)
  BY <1>1
<1> QED BY <1>1, <1>2, Zenon DEF InStack

LEMMA PopLoadStep ==
  ASSUME RcuInv, NEW t \in RcuThreads, PopLoad(t) \/ PopNext(t)
  PROVE  RcuInv'
<1>1. /\ RcuCall(t, rcupc[t], box[t], loaded[t]) /\ RcuHeap
      /\ UNCHANGED <<used, live, freed, ptr, next, stack>>
  BY Zenon DEF RcuInv, PopLoad, PopNext
<1>2. PICK o \in MaybeBox :
        (o = IF PopLoad(t) THEN ptr ELSE loaded[t]) /\ loaded' = [loaded EXCEPT ![t] = o]
  <2>1. loaded = [loaded EXCEPT ![t] = loaded[t]] /\ loaded[t] \in MaybeBox /\ ptr \in MaybeBox
    BY <1>1, Zenon DEF RcuInv, RcuHeap
  <2> QED BY <2>1, Zenon DEF PopLoad, PopNext
<1>3. t \in Poppers /\ used = "list" /\ InStack(o)
  <2>1. CASE PopLoad(t)
    BY <1>1, <1>2, <2>1, HeadInStack, Zenon DEF PopLoad
  <2>2. CASE ~PopLoad(t)
    BY <1>1, <1>2, <2>2, Zenon DEF RcuCall, PopNext, RcuAt, PopPlaces
  <2> QED BY <2>1, <2>2
<1>4. o \in Boxes /\ next[o] \in MaybeBox
  BY <1>1, <1>3, Zenon DEF RcuHeap, InStack
<1>5. PICK l \in PopPlaces, b \in MaybeBox : RcuGo(t, l, b) /\ (l = "pop_cas" => b = next[o])
  <2>1. CASE PopLoad(t)
    BY <2>1, Zenon DEF PopLoad, PopPlaces, MaybeBox
  <2>2. CASE ~PopLoad(t)
    BY <1>2, <1>4, <2>2, Zenon DEF PopNext, PopPlaces
  <2> QED BY <2>1, <2>2, Zenon
<1>6. RcuHeap' /\ \A u \in RcuThreads : u # t => RcuCall(u, rcupc[u], box[u], loaded[u])'
  BY <1>1, <1>2, <1>5, HeapSame, CallsSame, Zenon
<1>7. RcuCall(t, l, b, o)'
  BY <1>1, <1>3, <1>5, Zenon DEF RcuCall, InStack, OwnPlaces, PopPlaces
<1>8. l \in RcuPlaces /\ l \notin OwnPlaces
  BY DEF RcuPlaces, PopPlaces, OwnPlaces
<1> QED BY <1>2, <1>5, <1>6, <1>7, <1>8, RcuKept, Zenon

\* Nobody else pops: the node that was loaded as the head, and is the head again,
\* has been in the list all along, and its next is the one that was read.
LEMMA PopExchangeStep ==
  ASSUME RcuInv, NEW t \in RcuThreads, PopExchange(t)
  PROVE  RcuInv'
<1>1. PICK o \in MaybeBox : o = loaded[t]
  BY DEF RcuInv
<1>2. /\ rcupc[t] = "pop_cas" /\ loaded' = [loaded EXCEPT ![t] = None]
      /\ UNCHANGED <<used, live, next, freed>>
  BY Zenon DEF PopExchange, RcuAt
<1>3. RcuCall(t, rcupc[t], box[t], loaded[t]) /\ RcuHeap /\ None \in MaybeBox
  BY DEF RcuInv, MaybeBox
<1>4. /\ t \in Poppers /\ used = "list" /\ InStack(o)
      /\ box[t] = next[o] /\ o \in Boxes /\ o \in live
  BY <1>1, <1>2, <1>3 DEF RcuCall, RcuHeap, PopPlaces, InStack
<1>5. CASE RcuGo(t, "idle", None) /\ UNCHANGED <<ptr, stack>>
  <2>1. RcuHeap' /\ \A u \in RcuThreads : u # t => RcuCall(u, rcupc[u], box[u], loaded[u])'
    BY <1>2, <1>3, <1>5, HeapSame, CallsSame, Zenon
  <2>2. RcuCall(t, "idle", None, None)'
    BY DEF RcuCall, OwnPlaces, PopPlaces
  <2>3. "idle" \in RcuPlaces /\ "idle" \notin OwnPlaces
    BY DEF RcuPlaces, OwnPlaces, PopPlaces
  <2> QED BY <1>2, <1>3, <1>5, <2>1, <2>2, <2>3, RcuKept, Zenon
<1>6. CASE ptr = o /\ ptr' = box[t] /\ stack' = Tail(stack) /\ RcuGo(t, "synchronize", o)
  <2>1. /\ stack \in Seq(Boxes) /\ stack # <<>>
        /\ Len(stack) \in Nat \ {0} /\ 1 \in 1 .. Len(stack)
        /\ stack[1] = o /\ Linked
    <3>1. ptr # None
      BY <1>4, <1>6, RcuAssumption, Zenon
    <3> QED BY <1>3, <1>4, <1>6, <3>1, HeadInStack, Zenon DEF RcuHeap
  <2>2. /\ stack' \in Seq(Boxes) /\ Len(stack') = Len(stack) - 1
        /\ \A i \in 1 .. Len(stack') : stack'[i] = stack[i + 1]
    BY <1>6, <2>1, WithoutFirst, Zenon
  <2>3. \A i \in 1 .. Len(stack') : i + 1 \in 1 .. Len(stack) /\ i + 1 # 1
    BY <2>1, <2>2
  <2>4. \A i, j \in 1 .. Len(stack) : stack[i] = stack[j] => i = j
    BY <1>3, ZenonT(40) DEF RcuHeap
  <2>5. Linked'
    <3>1. ptr' = IF Len(stack) = 1 THEN None ELSE stack[2]
      <4>1. next[stack[1]] = IF 1 = Len(stack) THEN None ELSE stack[1 + 1]
        BY <2>1, ZenonT(40) DEF Linked
      <4>2. ptr' = next[stack[1]]
        BY <1>4, <1>6, <2>1, Zenon
      <4>3. 1 + 1 = 2
        OBVIOUS
      <4> QED BY <4>1, <4>2, <4>3, Zenon
    <3>2. ptr' = IF stack' = <<>> THEN None ELSE stack'[1]
      <4>1. CASE Len(stack) = 1
        BY <2>2, <3>1, <4>1
      <4>2. CASE Len(stack) # 1
        <5>1. 1 \in 1 .. Len(stack') /\ stack' # <<>>
          BY <2>1, <2>2, <4>2
        <5>2. stack'[1] = stack[1 + 1]
          BY <2>2, <5>1, Zenon
        <5> QED BY <3>1, <4>2, <5>1, <5>2
      <4> QED BY <4>1, <4>2, Zenon
    <3>3. ASSUME NEW i \in 1 .. Len(stack')
          PROVE  next'[stack'[i]] = IF i = Len(stack') THEN None ELSE stack'[i + 1]
      <4>1. next[stack[i + 1]] = IF i + 1 = Len(stack) THEN None ELSE stack[(i + 1) + 1]
        BY <2>1, <2>3, SMTT(30) DEF Linked
      <4>2. next'[stack'[i]] = next[stack[i + 1]]
        BY <1>2, <2>2, SMTT(30)
      <4>3. CASE i = Len(stack')
        BY <2>1, <2>2, <4>1, <4>2, <4>3
      <4>4. CASE i # Len(stack')
        <5>1. i + 1 \in 1 .. Len(stack') /\ i + 1 # Len(stack)
          BY <2>1, <2>2, <4>4
        <5> QED BY <2>2, <4>1, <4>2, <4>4, <5>1, Zenon
      <4> QED BY <4>3, <4>4
    <3> QED BY <3>2, <3>3 DEF Linked
  <2>6. \A i \in 1 .. Len(stack') : stack'[i] \in live
    BY <1>3, <2>2, <2>3, Zenon DEF RcuHeap
  <2>7. \A i, j \in 1 .. Len(stack') : stack'[i] = stack'[j] => i = j
    <3> SUFFICES ASSUME NEW i \in 1 .. Len(stack'), NEW j \in 1 .. Len(stack'),
                        stack'[i] = stack'[j]
                 PROVE  i = j
      OBVIOUS
    <3>1. i + 1 = j + 1
      BY <2>2, <2>3, <2>4
    <3> QED BY <2>1, <2>2, <3>1
  <2>8. ptr' \in MaybeBox
    BY <1>6 DEF RcuInv
  <2>9. RcuHeap'
    BY <1>2, <1>3, <1>4, <2>2, <2>5, <2>6, <2>7, <2>8, Zenon DEF RcuHeap, MaybeBox
  <2>10. \A i \in 1 .. Len(stack') : stack'[i] # o /\ InStack(stack'[i])
    BY <2>1, <2>2, <2>3, <2>4, Zenon DEF InStack
  <2>11. RcuCall(t, "synchronize", o, None)'
    BY <1>2, <1>4, <2>10, Zenon DEF RcuCall, InStack, OwnPlaces, PopPlaces
  <2>12. ASSUME NEW u \in RcuThreads, u # t PROVE RcuCall(u, rcupc[u], box[u], loaded[u])'
    <3>1. rcupc'[u] = rcupc[u] /\ box'[u] = box[u] /\ loaded'[u] = loaded[u]
      BY <1>2, <1>6, <2>12, RcuOthers, Zenon
    <3>2. RcuCall(u, rcupc[u], box[u], loaded[u])
      BY DEF RcuInv
    <3>3. rcupc[u] \notin PopPlaces
      BY <1>4, <2>12, <3>2, RcuAssumption, Zenon DEF RcuCall
    <3>4. rcupc[u] \in OwnPlaces => \A i \in 1 .. Len(stack') : stack'[i] # box[u]
      BY <2>10, <3>2, Zenon DEF RcuCall
    <3> QED BY <1>2, <1>4, <3>1, <3>2, <3>3, <3>4, Zenon DEF RcuCall, InStack, PopPlaces
  <2>13. \A u \in RcuThreads : u # t /\ rcupc[u] \in OwnPlaces => box[u] # o
    BY <1>4, Zenon DEF RcuInv, RcuCall
  <2>14. "synchronize" \in RcuPlaces
    BY DEF RcuPlaces, OwnPlaces
  <2> QED BY <1>2, <1>3, <1>6, <2>9, <2>11, <2>12, <2>13, <2>14, RcuKept, Zenon
<1> QED BY <1>1, <1>5, <1>6, Zenon DEF PopExchange

\* For any number of threads and boxes, of which at most one thread pops: no box
\* is freed twice or while the cell points to it, and the nodes of the list are
\* the ones pushed and not popped, in order, all of them allocated.
THEOREM BoxesAreConserved == RcuSpec => []RcuConserves
<1>1. RcuInit => RcuInv
  <2> SUFFICES ASSUME RcuInit PROVE RcuInv
    OBVIOUS
  <2>1. First \in Boxes
    BY RcuAssumption, Zenon DEF First
  <2>2. stack = <<>> /\ stack \in Seq(Boxes) /\ Len(stack) = 0
    BY DEF RcuInit
  <2>3. RcuHeap
    BY <2>1, <2>2 DEF RcuInit, RcuHeap, Linked, MaybeBox
  <2>4. \A t \in RcuThreads : rcupc[t] = "idle"
    BY Zenon DEF RcuInit
  <2>5. \A t \in RcuThreads : RcuCall(t, rcupc[t], box[t], loaded[t])
    BY <2>4, Zenon DEF RcuCall, OwnPlaces, PopPlaces
  <2> QED BY <2>3, <2>4, <2>5, Zenon DEF RcuInit, RcuInv, RcuPlaces, OwnPlaces, PopPlaces, MaybeBox
<1>2. RcuInv /\ [RcuNext]_rcuVars => RcuInv'
  <2> SUFFICES ASSUME RcuInv, [RcuNext]_rcuVars PROVE RcuInv'
    OBVIOUS
  <2>1. CASE RcuNext
    BY <2>1, RcuWaitStep, AllocStep, SwapStep, FreeStep, PushLoadStep, PushExchangeStep,
       PopLoadStep, PopExchangeStep, ZenonT(40) DEF RcuNext
  <2>2. CASE UNCHANGED rcuVars
    <3>1. RcuHeap'
      BY <2>2, HeapSame, Zenon DEF RcuInv, rcuVars
    <3>2. \A t \in RcuThreads : RcuCall(t, rcupc[t], box[t], loaded[t])'
      BY <2>2, Zenon DEF RcuInv, RcuCall, InStack, rcuVars
    <3> QED BY <2>2, <3>1, <3>2 DEF RcuInv, rcuVars, RcuPlaces, OwnPlaces, PopPlaces, MaybeBox
  <2> QED BY <2>1, <2>2, Zenon
<1>3. RcuInv => RcuConserves
  <2> SUFFICES ASSUME RcuInv PROVE RcuConserves
    BY Zenon
  <2>1. stack \in Seq(Boxes) /\ DOMAIN stack = 1 .. Len(stack)
    BY DEF RcuInv, RcuHeap
  <2>2. Range(stack) \subseteq live
    BY <2>1 DEF RcuInv, RcuHeap, Range
  <2> QED BY <2>2 DEF RcuInv, RcuHeap, RcuConserves
<1> QED BY <1>1, <1>2, <1>3, PTL DEF RcuSpec
-----------------------------------------------------------------------------
(* Division, rounding and fields of instructions *)

LEMMA Division ==
  ASSUME NEW n \in Int, NEW a \in Nat \ {0}
  PROVE  /\ n \div a \in Int /\ n % a \in 0 .. a - 1
         /\ n = (n \div a) * a + (n % a)
<1> DEFINE q == n \div a
           r == n % a
<1>1. q \in Int /\ r \in 0 .. a - 1
  OBVIOUS
<1>2. r = n - q * a
  OBVIOUS
<1> HIDE DEF q, r
<1>3. n = q * a + r
  BY <1>1, <1>2
<1> QED BY <1>1, <1>3 DEF q, r

LEMMA Unique ==
  ASSUME NEW q \in Int, NEW r, NEW a \in Nat \ {0}, r \in 0 .. a - 1
  PROVE  (q * a + r) % a = r /\ (q * a + r) \div a = q
OBVIOUS

LEMMA Rounds ==
  ASSUME NEW n \in Nat, NEW a \in Nat
  PROVE  /\ RoundUp(n, a) \in Nat
         /\ n <= RoundUp(n, a) /\ RoundUp(n, a) <= n + a
         /\ a > 0 => RoundUp(n, a) % a = 0
<1>1. CASE a = 0
  BY <1>1 DEF RoundUp
<1>2. CASE a # 0
  <2> DEFINE k == n + a - 1
             q == k \div a
             r == k % a
  <2>0. k \in Int /\ a \in Nat \ {0}
    BY <1>2
  <2> HIDE DEF k
  <2>1. q \in Int /\ r \in 0 .. a - 1 /\ k = q * a + r
    BY <2>0, Division, Zenon
  <2>2. RoundUp(n, a) = q * a
    BY <1>2, Zenon DEF RoundUp, k
  <2> HIDE DEF q, r
  <2>3. q * a \in Int /\ n <= q * a /\ q * a <= n + a
    <3>1. q * a \in Int
      BY <2>1
    <3>2. q * a = (n + a - 1) - r
      BY <1>2, <2>1, <3>1 DEF k
    <3> QED BY <1>2, <2>1, <3>1, <3>2
  <2>4. (q * a + 0) % a = 0
    <3>1. 0 \in 0 .. a - 1 /\ a \in Nat \ {0}
      BY <1>2
    <3> QED BY <2>1, <3>1, Unique
  <2>5. q * a + 0 = q * a
    BY <2>3
  <2> QED BY <2>2, <2>3, <2>4, <2>5
<1> QED BY <1>1, <1>2, Zenon

LEMMA Grows ==
  ASSUME NEW M \in Nat, NEW c \in Nat, NEW k \in Nat, NEW W \in Int, NEW d \in Nat, NEW e \in Nat,
         M * c <= k * W, M * d <= W, e <= c + d
  PROVE  M * e <= (k + 1) * W
<1>1. M * e <= M * (c + d)
  OBVIOUS
<1>2. M * (c + d) = M * c + M * d
  OBVIOUS
<1>3. (k + 1) * W = k * W + W
  OBVIOUS
<1> QED BY <1>1, <1>2, <1>3

LEMMA Bounded ==
  ASSUME NEW M \in Nat, NEW c \in Nat, NEW k \in 1 .. M, NEW W \in Nat, M * c <= k * W
  PROVE  c <= W
<1>1. k * W <= M * W
  OBVIOUS
<1>2. SUFFICES ASSUME c >= W + 1 PROVE FALSE
  OBVIOUS
<1>3. M * c >= M * (W + 1)
  BY <1>2
<1>4. M * (W + 1) = M * W + M
  OBVIOUS
<1> QED BY <1>1, <1>3, <1>4

LEMMA Congruent ==
  ASSUME NEW x \in Int, NEW y \in Int, NEW a \in Nat \ {0}
  PROVE  ((x % a) + y) % a = (x + y) % a
<1> DEFINE q == x \div a
           r == x % a
           k == (r + y) \div a
           s == (r + y) % a
<1>1. q \in Int /\ r \in 0 .. a - 1 /\ x = q * a + r
  BY Division, Zenon
<1>2. k \in Int /\ s \in 0 .. a - 1 /\ r + y = k * a + s
  BY <1>1, Division
<1> HIDE DEF q, r, k, s
<1>3. x + y = (q + k) * a + s
  BY <1>1, <1>2
<1>4. ((q + k) * a + s) % a = s
  BY <1>1, <1>2, Unique
<1> QED BY <1>3, <1>4, Zenon DEF r, s

LEMMA SignedOf ==
  ASSUME NEW x \in Int, NEW m \in Nat \ {0}, x \in -(m \div 2) .. m - m \div 2 - 1
  PROVE  Signed(x % m, m) = x
<1> DEFINE h == m \div 2
<1>1. h \in Int
  OBVIOUS
<1> HIDE DEF h
<1>2. ((x % m) + h) % m = (x + h) % m
  BY <1>1, Congruent, Zenon
<1>3. x + h \in 0 .. m - 1
  BY <1>1 DEF h
<1>4. (0 * m + (x + h)) % m = x + h
  BY <1>3, Unique
<1>5. 0 * m + (x + h) = x + h
  BY <1>1
<1> QED BY <1>1, <1>2, <1>4, <1>5 DEF Signed, h

-----------------------------------------------------------------------------
(* Sections *)

\* What is within reach of the PLT, from the base of the module.
Span == PltBase + REACH - Base

SectionHeader == [alloc : BOOLEAN, size : Nat, align : Nat, addr : Nat]

\* The loaded sections lie in order below the current offset, and the offset
\* grows by no more than a section's share of the span.
SectionInv ==
  /\ sections \in Seq(SectionHeader)
  /\ current_offset \in Nat
  /\ Len(sections) <= MaxSections
  /\ Len(sections) > 0 => Span \in Nat
  /\ MaxSections * current_offset <= Len(sections) * Span
  /\ \A i \in Loaded : /\ Base <= sections[i].addr
                       /\ sections[i].addr + sections[i].size <= Base + current_offset
  /\ SectionsPlaced

sectionVars == <<sections, current_offset>>

LEMMA SpanIsWide ==
  ASSUME NEW size \in Sizes, NEW align \in Aligns
  PROVE  /\ size \in Nat /\ align \in Nat
         /\ MaxSections * (size + align) <= Span
         /\ Span \in Nat
<1>1. size \in Nat /\ align \in Nat /\ MaxSections \in Nat /\ Base \in Nat /\ PltBase \in Nat
      /\ REACH \in Nat
  BY ImageAssumption, Zenon
<1> DEFINE k == MaxSections * (size + align)
<1>2. k \in Nat
  BY <1>1
<1>3. Base + k - PltBase <= REACH
  BY PltInReach, Zenon
<1> HIDE DEF k
<1>4. k <= Span /\ Span \in Nat
  BY <1>1, <1>2, <1>3 DEF Span
<1> QED BY <1>1, <1>4, Zenon DEF k

LEMMA SectionStep ==
  ASSUME SectionInv, NEW alloc \in BOOLEAN, NEW size \in Sizes, NEW align \in Aligns,
         load_section(alloc, size, align)
  PROVE  SectionInv'
<1> DEFINE at == RoundUp(current_offset, align)
           sh == [alloc |-> alloc, size |-> size, align |-> align,
                  addr |-> IF alloc THEN Base + at ELSE 0]
           n == Len(sections)
<1>1. /\ size \in Nat /\ align \in Nat /\ Span \in Nat /\ Base \in Nat /\ MaxSections \in Nat
      /\ MaxSections * (size + align) <= Span
  BY SpanIsWide, ImageAssumption, Zenon
<1>0. size \in Nat /\ align \in Nat /\ Base \in Nat
  BY <1>1
<1>2. /\ sections \in Seq(SectionHeader) /\ n \in Nat /\ n < MaxSections
      /\ current_offset \in Nat
  <2>1. sections \in Seq(SectionHeader) /\ current_offset \in Nat
    BY Zenon DEF SectionInv
  <2>2. n < MaxSections
    BY Zenon DEF load_section
  <2>3. n \in Nat
    BY <2>1
  <2> QED BY <2>1, <2>2, <2>3, Zenon
<1>2a. n \in Nat
  BY <1>2
<1>2b. current_offset \in Nat
  BY <1>2
<1>3. /\ at \in Nat /\ current_offset <= at /\ at <= current_offset + align
      /\ align > 0 => at % align = 0
  BY <1>1, <1>2, Rounds, Zenon
<1>4. /\ sections' = Append(sections, sh)
      /\ current_offset' = IF alloc THEN at + size ELSE current_offset
  BY Zenon DEF load_section
<1> HIDE DEF at
<1>5. sh \in SectionHeader
  BY <1>1, <1>3, SMTT(30) DEF SectionHeader
<1>6. /\ sections' \in Seq(SectionHeader) /\ Len(sections') = n + 1
      /\ \A i \in 1 .. n : sections'[i] = sections[i]
      /\ sections'[n + 1] = sh
      /\ DOMAIN sections' = 1 .. n + 1 /\ DOMAIN sections = 1 .. n
  <2> HIDE DEF sh
  <2> QED BY <1>2, <1>4, <1>5, SMTT(30)
<1>7. current_offset' \in Nat /\ current_offset <= current_offset'
      /\ current_offset' <= current_offset + (size + align)
  BY <1>1, <1>2, <1>3, <1>4
<1>8. MaxSections * current_offset' <= (n + 1) * Span
  <2>1. MaxSections * current_offset <= n * Span /\ size + align \in Nat /\ Span \in Int
    BY <1>1 DEF SectionInv
  <2> HIDE DEF n
  <2> QED BY <1>1, <1>2, <1>7, <2>1, Grows, Zenon
<1>9. /\ \A i \in Loaded : i \in 1 .. n /\ sections[i] \in SectionHeader
      /\ \A i \in Loaded' : (i \in Loaded /\ sections'[i] = sections[i]) \/ (i = n + 1 /\ alloc)
      /\ Loaded \subseteq 1 .. n
  <2> HIDE DEF sh
  <2>1. sh.alloc = alloc
    BY DEF sh
  <2>2. \A i \in Loaded : i \in 1 .. n
    BY <1>6, Zenon DEF Loaded
  <2>3. \A i \in 1 .. n : sections[i] \in SectionHeader
    BY <1>2
  <2>4. \A i \in 1 .. n + 1 : i \in 1 .. n \/ i = n + 1
    BY <1>2a
  <2>5. ASSUME NEW i \in Loaded'
        PROVE  (i \in Loaded /\ sections'[i] = sections[i]) \/ (i = n + 1 /\ alloc)
    <3>1. i \in 1 .. n + 1 /\ sections'[i].alloc
      BY <1>6, <2>5, Zenon DEF Loaded
    <3>2. CASE i \in 1 .. n
      BY <1>6, <3>1, <3>2, Zenon DEF Loaded
    <3>3. CASE i = n + 1
      BY <1>6, <2>1, <3>1, <3>3, Zenon
    <3> QED BY <2>4, <3>1, <3>2, <3>3, Zenon
  <2> QED BY <2>2, <2>3, <2>5, Zenon
<1> HIDE DEF n
<1>10. \A i \in Loaded : /\ sections[i].addr \in Nat /\ sections[i].size \in Nat
                         /\ Base <= sections[i].addr
                         /\ sections[i].addr + sections[i].size <= Base + current_offset
  BY <1>9, Zenon DEF SectionInv, SectionHeader
<1>11. alloc => /\ sections'[n + 1].addr = Base + at /\ sections'[n + 1].size = size
                /\ sections'[n + 1].align = align /\ current_offset' = at + size
  <2>1. sections'[n + 1] = sh /\ (alloc => current_offset' = at + size)
    BY <1>4, <1>6, Zenon
  <2>2. alloc => sh.addr = Base + at /\ sh.size = size /\ sh.align = align
    BY SMTT(30) DEF sh
  <2> HIDE DEF sh
  <2> QED BY <2>1, <2>2, Zenon
<1>12. \A i \in Loaded' : /\ Base <= sections'[i].addr
                          /\ sections'[i].addr + sections'[i].size <= Base + current_offset'
  <2> SUFFICES ASSUME NEW i \in Loaded'
               PROVE  /\ Base <= sections'[i].addr
                      /\ sections'[i].addr + sections'[i].size <= Base + current_offset'
    OBVIOUS
  <2> DEFINE addr == sections'[i].addr
             size_i == sections'[i].size
  <2>1. CASE i \in Loaded /\ sections'[i] = sections[i]
    <3>1. addr \in Nat /\ size_i \in Nat /\ Base <= addr /\ addr + size_i <= Base + current_offset
      BY <1>10, <2>1, Zenon
    <3> HIDE DEF addr, size_i
    <3>2. \A c \in Nat : current_offset <= c => Base <= addr /\ addr + size_i <= Base + c
      BY <1>0, <1>2b, <3>1
    <3>3. Base <= addr /\ addr + size_i <= Base + current_offset'
      BY <1>7, <3>2
    <3> QED BY <3>3 DEF addr, size_i
  <2>2. CASE i = n + 1 /\ alloc
    <3>1. addr = Base + at /\ size_i = size /\ current_offset' = at + size
      BY <1>11, <2>2, Zenon
    <3> HIDE DEF addr, size_i
    <3>2. Base <= addr /\ addr + size_i <= Base + current_offset'
      BY <1>0, <1>3, <3>1, SMTT(30)
    <3> QED BY <3>2 DEF addr, size_i
  <2> QED BY <1>9, <2>1, <2>2, SMTT(30)
<1>13. \A i \in Loaded' :
         sections'[i].align > 0 => (sections'[i].addr - Base) % sections'[i].align = 0
  <2> SUFFICES ASSUME NEW i \in Loaded', sections'[i].align > 0
               PROVE  (sections'[i].addr - Base) % sections'[i].align = 0
    BY SMTT(30)
  <2>1. CASE i \in Loaded /\ sections'[i] = sections[i]
    BY <2>1, SMTT(30) DEF SectionInv, SectionsPlaced
  <2>2. CASE i = n + 1 /\ alloc
    <3>1. sections'[i].addr - Base = at
      BY <1>1, <1>3, <1>11, <2>2, SMTT(30)
    <3> QED BY <1>3, <1>11, <2>2, <3>1, SMTT(30)
  <2> QED BY <1>9, <2>1, <2>2, SMTT(30)
<1>14. \A i, j \in Loaded' :
         i < j => sections'[i].addr + sections'[i].size <= sections'[j].addr
  <2> SUFFICES ASSUME NEW i \in Loaded', NEW j \in Loaded', i < j
               PROVE  sections'[i].addr + sections'[i].size <= sections'[j].addr
    OBVIOUS
  <2>1. CASE i \in Loaded /\ j \in Loaded
    <3>1. sections'[i] = sections[i] /\ sections'[j] = sections[j]
      BY <1>2, <1>9, <2>1
    <3>2. sections[i].addr + sections[i].size <= sections[j].addr
      BY <2>1, Zenon DEF SectionInv, SectionsPlaced
    <3> QED BY <3>1, <3>2, Zenon
  <2>2. CASE i \in Loaded /\ j = n + 1 /\ alloc
    <3>1. sections'[i] = sections[i]
      <4>1. i \in 1 .. n /\ i # n + 1
        BY <1>2a, <1>9, <2>2
      <4> QED BY <1>9, <4>1, ZenonT(40)
    <3> DEFINE last == sections[i].addr + sections[i].size
    <3>2. last \in Nat /\ last <= Base + current_offset
      BY <1>10, <2>2
    <3> HIDE DEF last
    <3>3. last <= Base + at
      BY <1>0, <1>2b, <1>3, <3>2, SMTT(30)
    <3> QED BY <1>11, <2>2, <3>1, <3>3, Zenon DEF last
  <2>3. CASE i = n + 1
    <3>1. j \in 1 .. n \/ j = n + 1
      BY <1>9, Zenon
    <3> QED BY <1>2a, <2>3, <3>1
  <2> QED BY <1>9, <2>1, <2>2, <2>3, SMTT(30)
<1>15. SectionsPlaced'
  BY <1>13, <1>14, SMTT(30) DEF SectionsPlaced
<1>16. Len(sections') <= MaxSections /\ (Len(sections') > 0 => Span' \in Nat) /\ Span' = Span
  BY <1>1, <1>2, <1>6 DEF Span
<1> QED BY <1>6, <1>7, <1>8, <1>12, <1>15, <1>16, Zenon DEF SectionInv

LEMMA SectionKept ==
  ASSUME SectionInv, UNCHANGED sectionVars
  PROVE  SectionInv'
BY Zenon DEF SectionInv, SectionsPlaced, Loaded, sectionVars, Span

\* Everything but load_sections() leaves the sections alone.
LEMMA SectionNext ==
  ASSUME SectionInv, [ImageNext]_imageVars
  PROVE  SectionInv'
<1>1. CASE \E alloc \in BOOLEAN, size \in Sizes, align \in Aligns : load_section(alloc, size, align)
  BY <1>1, SectionStep, Zenon
<1>2. CASE UNCHANGED imageVars
  BY <1>2, SectionKept DEF imageVars, sectionVars
<1>3. CASE StartRelocations \/ OtherInit \/ Finish
  BY <1>3, SectionKept DEF StartRelocations, OtherInit, Finish, sectionVars
<1>4. CASE \E type \in Types, p \in Unpatched :
             \/ \E name \in KernelSymbols \union TestSymbols : RelocateExternal(type, p, name)
             \/ \E target \in Places : RelocateLocal(type, p, target)
  BY <1>4, SectionKept, SMTT(30) DEF RelocateExternal, RelocateLocal, sectionVars
<1> QED BY <1>1, <1>2, <1>3, <1>4, Zenon DEF ImageNext

LEMMA SectionStart ==
  ASSUME ImageInit
  PROVE  SectionInv
<1>1. Loaded = {}
  BY SMTT(30) DEF ImageInit, Loaded
<1>2. MaxSections * 0 = 0 /\ Span \in Int /\ 0 * Span = 0 /\ MaxSections \in Nat
  BY ImageAssumption DEF Span
<1>3. sections \in Seq(SectionHeader) /\ Len(sections) = 0 /\ current_offset = 0
  BY DEF ImageInit
<1> QED BY <1>1, <1>2, <1>3 DEF SectionInv, SectionsPlaced

\* load_sections() aligns every section it loads and puts none over another, for
\* sections of any number, size and alignment.
THEOREM SectionsArePlaced == ImageSpec => []SectionsPlaced
<1>1. SectionInv => SectionsPlaced
  BY Zenon DEF SectionInv
<1> QED BY <1>1, SectionStart, SectionNext, PTL DEF ImageSpec

-----------------------------------------------------------------------------
(* Relocations *)

AllTypes == {"ABS64", "PREL", "CALL26", "ADRP", "ADD_LO12",
             "64", "BRANCH", "PCREL_HI20", "PCREL_LO12", "CALL"}
Patched == [type : AllTypes, p : Int, target : Int, imm : [hi : Int, lo : Int],
            unpaired : BOOLEAN]

\* What RelocationsReach says of the instructions that need no other.
Reaches(r) ==
  \/ Decoded(r) = Wanted(r)
  \/ r.type = "CALL26" /\ ThroughPlt(r, Decoded(r))
  \/ r.type \in {"PCREL_HI20", "CALL"} /\ ~PairReach(r.target - r.p)
  \/ r.type = "CALL" /\ ~DirectCall(r.target - r.p)

\* A low part has the low part of the offset of the one high part at its target.
Paired(r) ==
  \E h \in patched : /\ h.type = "PCREL_HI20" /\ h.p = r.target
                     /\ r.imm.lo = (h.target - h.p) % LO

PatchInv ==
  /\ plt \in Seq(Int) /\ Len(plt) <= MAX_PLT_ENTRIES
  /\ patched \subseteq Patched
  /\ \A r, s \in patched : r.p = s.p => r = s
  /\ \A r \in patched : r.type = "PCREL_HI20" => r.imm.lo = (r.target - r.p) % LO
  /\ \A r \in patched : r.type # "PCREL_LO12" => Reaches(r)
  /\ \A r \in patched : r.type = "PCREL_LO12" /\ ~r.unpaired => Paired(r)

LEMMA PatchedReaches ==
  ASSUME PatchInv
  PROVE  RelocationsReach
<1> SUFFICES ASSUME NEW r \in patched
             PROVE  Reaches(r) \/ (r.type = "PCREL_LO12" /\ r.unpaired)
  BY SMTT(30) DEF RelocationsReach, Reaches
<1>1. CASE r.type # "PCREL_LO12"
  BY <1>1 DEF PatchInv
<1>2. CASE r.type = "PCREL_LO12" /\ ~r.unpaired
  <2>1. PICK h \in patched : /\ h.type = "PCREL_HI20" /\ h.p = r.target
                             /\ r.imm.lo = (h.target - h.p) % LO
    BY <1>2 DEF PatchInv, Paired
  <2>2. HighPart(r.target) = {h}
    BY <2>1, Zenon DEF PatchInv, HighPart
  <2>3. (CHOOSE g \in HighPart(r.target) : TRUE) = h
    BY <2>2
  <2>4. Wanted(r) = (h.target - r.target) % LO
    BY <1>2, <2>3, Zenon DEF Wanted
  <2>5. Decoded(r) = r.imm.lo
    BY <1>2 DEF Decoded
  <2> QED BY <2>1, <2>4, <2>5, Zenon DEF Reaches
<1> QED BY <1>1, <1>2

\* The places that are patched lie in the span of the PLT.
LEMMA PlacesInSpan ==
  ASSUME SectionInv, NEW p \in Unpatched
  PROVE  p \in Base .. Base + Span - 1 /\ \A r \in patched : r.p # p
<1>1. PICK i \in DOMAIN sections : /\ sections[i].alloc
                                   /\ p \in sections[i].addr ..
                                            sections[i].addr + sections[i].size - 1
  BY DEF Unpatched
<1> DEFINE a == sections[i].addr
           z == sections[i].addr + sections[i].size
           n == Len(sections)
<1>2. sections \in Seq(SectionHeader) /\ i \in 1 .. n /\ n \in Nat
  BY <1>1 DEF SectionInv
<1>3. sections[i] \in SectionHeader
  BY <1>2, SMTT(30)
<1>4. a \in Nat /\ z \in Nat /\ p \in a .. z - 1
  BY <1>1, <1>3, SMTT(30) DEF SectionHeader
<1>5. Base <= a /\ z <= Base + current_offset
  BY <1>1, SMTT(30) DEF SectionInv, Loaded
<1>6. /\ n \in 1 .. MaxSections /\ MaxSections \in Nat /\ current_offset \in Nat /\ Base \in Nat
      /\ Span \in Nat /\ MaxSections * current_offset <= n * Span
  BY <1>2, ImageAssumption DEF SectionInv
<1> HIDE DEF a, z, n
<1>7. current_offset <= Span
  BY <1>6, Bounded, Zenon
<1>8. Base \in Nat /\ current_offset \in Nat /\ Span \in Nat
  BY <1>6, Zenon
<1>9. p \in Base .. Base + Span - 1
  BY <1>4, <1>5, <1>7, <1>8
<1> QED BY <1>9 DEF Unpatched

LEMMA PlacesAreAddresses ==
  ASSUME SectionInv
  PROVE  Places \subseteq Nat
<1> SUFFICES ASSUME NEW i \in DOMAIN sections, NEW k \in 0 .. 1
             PROVE  sections[i].addr + k \in Nat
  BY DEF Places
<1>1. sections[i] \in SectionHeader
  BY DEF SectionInv
<1> QED BY <1>1 DEF SectionHeader

\* A field of the width of its instruction gives the offset back.
LEMMA FieldIsRead ==
  ASSUME NEW x \in Int, NEW w \in Nat \ {0}, x \in -w .. w - 1
  PROVE  Signed(x % (2 * w), 2 * w) = x
<1> DEFINE m == 2 * w
<1>1. m \in Nat \ {0} /\ m \div 2 = w
  OBVIOUS
<1>2. x \in -(m \div 2) .. m - m \div 2 - 1
  BY <1>1
<1> HIDE DEF m
<1>3. Signed(x % m, m) = x
  BY <1>1, <1>2, SignedOf
<1> QED BY <1>3, Zenon DEF m

\* The high and the low part of an offset that a pair can express give it back.
LEMMA PairIsRead ==
  ASSUME NEW o \in Int, PairReach(o)
  PROVE  /\ Split(o).hi \in Int /\ Split(o).lo \in Int
         /\ Signed(Split(o).hi, HI) * LO + Signed(Split(o).lo, LO) = o
<1>1. LO \in Nat \ {0} /\ HI \in Nat \ {0}
  BY ImageAssumption, Zenon
<1> DEFINE h == LO \div 2
           g == HI \div 2
           x == o + h
           a == x \div LO
           b == x % LO
<1>2. h \in Nat /\ g \in Nat /\ x \in Int /\ 2 * g <= HI /\ h <= LO
  BY <1>1
<1>3. x >= -(g * LO) /\ x <= g * LO - 1
  <2>1. o >= -(g * LO) - h /\ o <= g * LO - h - 1
    BY DEF PairReach
  <2>2. g * LO \in Int
    BY <1>1, <1>2
  <2> DEFINE gl == g * LO
  <2> HIDE DEF gl, h
  <2>3. o >= -gl - h /\ o <= gl - h - 1 /\ gl \in Int
    BY <2>1, <2>2, Zenon DEF gl
  <2>4. x >= -gl /\ x <= gl - 1
    BY <1>2, <2>3
  <2> QED BY <2>4, Zenon DEF gl
<1> HIDE DEF g
<1>4. a \in Int /\ b \in 0 .. LO - 1 /\ x = a * LO + b
  <2> HIDE DEF x
  <2> QED BY <1>1, <1>2, Division, Zenon
<1> HIDE DEF h
<1>5. Split(o).hi = a % HI /\ Split(o).lo = o % LO
  BY Zenon DEF Split, h
<1> HIDE DEF a, b, x
<1>6. a >= -g /\ a <= g - 1
  <2>1. a * LO <= g * LO - 1 /\ a * LO > -(g * LO) - LO
    BY <1>1, <1>2, <1>3, <1>4
  <2>2. CASE a >= g
    <3>1. a * LO >= g * LO
      BY <1>1, <1>2, <1>4, <2>2
    <3> QED BY <1>1, <1>2, <1>4, <2>1, <3>1
  <2>3. CASE a <= -g - 1
    <3>1. a * LO <= (-g - 1) * LO
      BY <1>1, <1>2, <1>4, <2>3
    <3>2. (-g - 1) * LO = -(g * LO) - LO
      BY <1>1, <1>2
    <3> QED BY <1>1, <1>2, <1>4, <2>1, <3>1, <3>2
  <2> QED BY <1>2, <1>4, <2>2, <2>3
<1>7. Signed(a % HI, HI) = a
  <2>1. a \in -(HI \div 2) .. HI - HI \div 2 - 1
    BY <1>1, <1>2, <1>4, <1>6 DEF g
  <2> QED BY <1>1, <1>4, <2>1, SignedOf, Zenon
<1>8. Signed(o % LO, LO) = b - h
  <2>1. ((o % LO) + h) % LO = (o + h) % LO
    <3>1. h \in Int /\ LO \in Nat \ {0}
      BY <1>1, <1>2
    <3> QED BY <3>1, Congruent, Zenon
  <2> QED BY <2>1 DEF Signed, h, b, x
<1>9. a * LO + (b - h) = o
  <2>1. a * LO \in Int
    BY <1>1, <1>4
  <2>2. o + h = a * LO + b
    BY <1>4 DEF x
  <2> QED BY <1>1, <1>2, <1>4, <2>1, <2>2
<1>10. a % HI \in Int /\ o % LO \in Int
  BY <1>1, <1>4
<1> QED BY <1>5, <1>7, <1>8, <1>9, <1>10, Zenon

\* The table only grows.
Longer(stubs) ==
  /\ stubs \in Seq(Int) /\ Len(stubs) <= MAX_PLT_ENTRIES
  /\ DOMAIN plt \subseteq DOMAIN stubs
  /\ \A i \in DOMAIN plt : stubs[i] = plt[i]

LEMMA PltIsLonger ==
  ASSUME PatchInv
  PROVE  Longer(plt)
BY Zenon DEF PatchInv, Longer

\* get_or_create() returns a stub for the target, whether it was there or not.
LEMMA StubIsFound ==
  ASSUME PatchInv, NEW target \in Int, get_or_create(target).ok
  PROVE  LET stub == get_or_create(target)
         IN  /\ Longer(stub.plt)
             /\ stub.at \in PltBase .. PltBase + MAX_PLT_ENTRIES - 1
             /\ stub.at - PltBase + 1 \in DOMAIN stub.plt
             /\ stub.plt[stub.at - PltBase + 1] = target
<1> DEFINE same == {i \in DOMAIN plt : plt[i] = target}
           stub == get_or_create(target)
           n == Len(plt)
<1>1. /\ plt \in Seq(Int) /\ n \in Nat /\ n <= MAX_PLT_ENTRIES /\ DOMAIN plt = 1 .. n
      /\ PltBase \in Nat /\ MAX_PLT_ENTRIES \in Nat
  <2>1. plt \in Seq(Int) /\ n <= MAX_PLT_ENTRIES
    BY Zenon DEF PatchInv
  <2>2. n \in Nat /\ DOMAIN plt = 1 .. n
    BY <2>1
  <2> QED BY <2>1, <2>2, ImageAssumption, Zenon
<1>2. CASE same # {}
  <2> DEFINE i == CHOOSE k \in same : TRUE
  <2>1. i \in same
    BY <1>2, SMTT(30)
  <2>2. stub = [ok |-> TRUE, plt |-> plt, at |-> PltBase + i - 1]
    BY <1>2 DEF get_or_create
  <2> HIDE DEF i, stub
  <2>3. i \in 1 .. n /\ plt[i] = target
    BY <1>1, <2>1, Zenon
  <2>4. stub.at = PltBase + i - 1 /\ stub.plt = plt
    BY <2>2
  <2>5. stub.at \in PltBase .. PltBase + MAX_PLT_ENTRIES - 1 /\ stub.at - PltBase + 1 = i
    BY <1>1, <2>3, <2>4
  <2> QED BY <1>1, <2>3, <2>4, <2>5, PltIsLonger, Zenon DEF stub
<1>3. CASE same = {}
  <2>1. n < MAX_PLT_ENTRIES /\ stub = [ok |-> TRUE, plt |-> Append(plt, target), at |-> PltBase + n]
    BY <1>1, <1>3 DEF get_or_create
  <2> DEFINE more == Append(plt, target)
  <2>2. /\ more \in Seq(Int) /\ Len(more) = n + 1 /\ DOMAIN more = 1 .. n + 1
        /\ more[n + 1] = target /\ \A i \in 1 .. n : more[i] = plt[i]
    BY <1>1
  <2> HIDE DEF more, stub, n
  <2>3. stub.plt = more /\ stub.at = PltBase + n
    BY <2>1, Zenon DEF more
  <2>4. Longer(more)
    BY <1>1, <2>1, <2>2, SMTT(30) DEF Longer
  <2>5. stub.at \in PltBase .. PltBase + MAX_PLT_ENTRIES - 1 /\ stub.at - PltBase + 1 = n + 1
        /\ n + 1 \in 1 .. n + 1
    BY <1>1, <2>1, <2>3
  <2> QED BY <2>2, <2>3, <2>4, <2>5, Zenon DEF stub
<1> QED BY <1>2, <1>3, Zenon

\* What a relocation leaves in a place, with the table it leaves behind.
Lands(r, stubs) ==
  \/ Decoded(r) = Wanted(r)
  \/ /\ r.type = "CALL26"
     /\ Decoded(r) - PltBase + 1 \in DOMAIN stubs
     /\ stubs[Decoded(r) - PltBase + 1] = r.target
  \/ r.type \in {"PCREL_HI20", "CALL"} /\ ~PairReach(r.target - r.p)
  \/ r.type = "CALL" /\ ~DirectCall(r.target - r.p)

Immediates == [hi : Int, lo : Int]

\* A result that was not refused is right for the place.
Right(result, type, p, target) ==
  /\ result.imm \in Immediates
  /\ Longer(result.plt)
  /\ type # "PCREL_LO12" =>
       \A unpaired \in BOOLEAN :
         Lands([type |-> type, p |-> p, target |-> target, imm |-> result.imm,
                unpaired |-> unpaired], result.plt)

LEMMA WidthsArePositive ==
  /\ LO \in Nat \ {0} /\ HI \in Nat \ {0} /\ REACH \in Nat \ {0}
  /\ SHORT \in Nat \ {0} /\ PAGES \in Nat \ {0} /\ Base \in Nat /\ PltBase \in Nat
  /\ MAX_PLT_ENTRIES \in Nat
BY ImageAssumption

LEMMA PageIsNumber ==
  ASSUME NEW a \in Int
  PROVE  PageOf(a) \in Int
BY WidthsArePositive DEF PageOf

LEMMA ModuloIsNumber ==
  ASSUME NEW x \in Int, NEW w \in Nat \ {0}
  PROVE  x % (2 * w) \in Int /\ x % w \in Int
OBVIOUS

\* AArch64: a call beyond the reach of its instruction goes through a stub, and
\* a page beyond the reach of ADRP is refused.
LEMMA AArch64IsRight ==
  ASSUME PatchInv, NEW type \in {"ABS64", "PREL", "CALL26", "ADRP", "ADD_LO12"},
         NEW p \in Base .. Base + Span - 1, NEW target \in Nat,
         apply_relocation_aarch64(type, p, target).ok
  PROVE  Right(apply_relocation_aarch64(type, p, target), type, p, target)
<1> DEFINE result == apply_relocation_aarch64(type, p, target)
           R(unpaired) == [type |-> type, p |-> p, target |-> target, imm |-> result.imm,
                           unpaired |-> unpaired]
           o == target - p
<1>1. p \in Int /\ target \in Int /\ o \in Int
  BY WidthsArePositive DEF Span
<1>2. SUFFICES /\ result.imm \in Immediates
               /\ Longer(result.plt)
               /\ \A unpaired \in BOOLEAN : Lands(R(unpaired), result.plt)
  BY Zenon DEF Right
<1>3. CASE type \in {"ABS64", "ADD_LO12"}
  <2>1. target % LO \in Int
    BY WidthsArePositive
  <2>2. result = Field(IF type = "ABS64" THEN target ELSE target % LO)
    BY <1>3, SMTT(30) DEF apply_relocation_aarch64
  <2>3. result.imm = [hi |-> IF type = "ABS64" THEN target ELSE target % LO, lo |-> 0]
        /\ result.plt = plt
    BY <2>2 DEF Field, Fields
  <2> HIDE DEF result
  <2>4. \A u \in BOOLEAN : Decoded(R(u)) = Wanted(R(u))
    BY <1>3, <2>3, SMTT(30) DEF Decoded, Wanted
  <2>5. result.imm \in Immediates
    BY <1>1, <2>1, <2>3 DEF Immediates
  <2> QED BY <2>3, <2>4, <2>5, PltIsLonger, Zenon DEF Lands
<1>4. CASE type = "PREL"
  <2>1. result = Field(o)
    BY <1>4, SMTT(30) DEF apply_relocation_aarch64
  <2>2. result.imm = [hi |-> o, lo |-> 0] /\ result.plt = plt
    BY <2>1 DEF Field, Fields
  <2> HIDE DEF result
  <2>3. p + o = target
    BY <1>1
  <2>4. \A u \in BOOLEAN : Decoded(R(u)) = p + o /\ Wanted(R(u)) = target
    BY <1>4, <2>2, SMTT(30) DEF Decoded, Wanted
  <2>5. result.imm \in Immediates
    BY <1>1, <2>2 DEF Immediates
  <2> QED BY <2>2, <2>3, <2>4, <2>5, PltIsLonger, Zenon DEF Lands
<1>5. CASE type = "ADRP"
  <2> DEFINE f == PageOf(target) - PageOf(p)
  <2>1. PageOf(target) \in Int /\ PageOf(p) \in Int /\ f \in Int
    BY <1>1, PageIsNumber, SMTT(30)
  <2>2. f \in -PAGES .. PAGES - 1 /\ result = Field(f % (2 * PAGES))
    <3>1. result = IF f \in -PAGES .. PAGES - 1 THEN Field(f % (2 * PAGES)) ELSE Failure
      BY <1>5, SMTT(30) DEF apply_relocation_aarch64
    <3>2. result.ok /\ ~Failure.ok
      BY SMTT(30) DEF Failure
    <3> QED BY <3>1, <3>2
  <2>3. result.imm = [hi |-> f % (2 * PAGES), lo |-> 0] /\ result.plt = plt
    BY <2>2 DEF Field, Fields
  <2> HIDE DEF result, f
  <2>4. Signed(f % (2 * PAGES), 2 * PAGES) = f
    BY <2>1, <2>2, FieldIsRead, WidthsArePositive, Zenon
  <2>5. PageOf(p) + f = PageOf(target)
    BY <2>1 DEF f
  <2>6. \A u \in BOOLEAN : Decoded(R(u)) = PageOf(p) + f /\ Wanted(R(u)) = PageOf(target)
    BY <1>5, <2>3, <2>4 DEF Decoded, Wanted
  <2>7. f % (2 * PAGES) \in Int
    BY <2>1, ModuloIsNumber, WidthsArePositive, SMTT(30)
  <2>8. result.imm \in Immediates
    BY <2>3, <2>7 DEF Immediates
  <2> QED BY <2>3, <2>5, <2>6, <2>8, PltIsLonger, Zenon DEF Lands
<1>6. CASE type = "CALL26" /\ o \in -REACH .. REACH - 1
  <2>1. result = Field(o % (2 * REACH))
    BY <1>6 DEF apply_relocation_aarch64
  <2>2. result.imm = [hi |-> o % (2 * REACH), lo |-> 0] /\ result.plt = plt
    BY <2>1 DEF Field, Fields
  <2>3. p + o = target
    BY <1>1
  <2> HIDE DEF result, o
  <2>4. Signed(o % (2 * REACH), 2 * REACH) = o
    BY <1>1, <1>6, FieldIsRead, WidthsArePositive
  <2>5. \A u \in BOOLEAN : Decoded(R(u)) = p + o /\ Wanted(R(u)) = target
    BY <1>6, <2>2, <2>4 DEF Decoded, Wanted
  <2>6. o % (2 * REACH) \in Int
    BY <1>1, ModuloIsNumber, WidthsArePositive, Zenon
  <2>7. result.imm \in Immediates
    BY <2>2, <2>6 DEF Immediates
  <2> QED BY <2>2, <2>3, <2>5, <2>7, PltIsLonger, Zenon DEF Lands
<1>7. CASE type = "CALL26" /\ ~(o \in -REACH .. REACH - 1)
  <2> DEFINE stub == get_or_create(target)
             f == stub.at - p
  <2>1. result = [Field(f % (2 * REACH)) EXCEPT !.ok = stub.ok, !.plt = stub.plt]
    BY <1>7 DEF apply_relocation_aarch64
  <2>2. result.imm = [hi |-> f % (2 * REACH), lo |-> 0] /\ result.plt = stub.plt
        /\ result.ok = stub.ok
    BY <2>1, Zenon DEF Field, Fields
  <2>3. /\ Longer(stub.plt)
        /\ stub.at \in PltBase .. PltBase + MAX_PLT_ENTRIES - 1
        /\ stub.at - PltBase + 1 \in DOMAIN stub.plt
        /\ stub.plt[stub.at - PltBase + 1] = target
    BY <1>1, <2>2, StubIsFound, Zenon
  <2> HIDE DEF result, stub
  <2>4. PltBase + MAX_PLT_ENTRIES - Base <= REACH
    BY PltInReach, SMTT(30)
  <2>5. /\ f \in Int /\ f \in -REACH .. REACH - 1 /\ p + f = stub.at
    <3>1. p >= Base /\ p <= PltBase + REACH - 1
      BY WidthsArePositive DEF Span
    <3>2. /\ Base \in Int /\ PltBase \in Int /\ REACH \in Int /\ MAX_PLT_ENTRIES \in Int
          /\ p \in Int
      BY <1>1, WidthsArePositive
    <3> QED BY <2>3, <2>4, <3>1, <3>2
  <2> HIDE DEF f
  <2>6. Signed(f % (2 * REACH), 2 * REACH) = f
    BY <2>5, FieldIsRead, WidthsArePositive
  <2>7. \A u \in BOOLEAN : Decoded(R(u)) = stub.at
    BY <1>7, <2>2, <2>5, <2>6 DEF Decoded
  <2>8. f % (2 * REACH) \in Int
    BY <2>5, ModuloIsNumber, WidthsArePositive, SMTT(30)
  <2>9. result.imm \in Immediates
    BY <2>2, <2>8 DEF Immediates
  <2> QED BY <1>7, <2>2, <2>3, <2>7, <2>9, Zenon DEF Lands
<1> QED BY <1>3, <1>4, <1>5, <1>6, <1>7, Zenon

LEMMA SplitIsPair ==
  ASSUME NEW o \in Int
  PROVE  Split(o) \in Immediates
<1>1. LO \in Nat \ {0} /\ HI \in Nat \ {0}
  BY WidthsArePositive
<1>2. LO \div 2 \in Int
  BY <1>1
<1>3. o + LO \div 2 \in Int
  BY <1>2
<1>4. (o + LO \div 2) \div LO \in Int /\ o % LO \in Int
  BY <1>1, <1>3, Division
<1>5. ((o + LO \div 2) \div LO) % HI \in Int
  BY <1>1, <1>4, Division
<1> QED BY <1>4, <1>5, Zenon DEF Split, Immediates

LEMMA SignedIsNumber ==
  ASSUME NEW x \in Int, NEW m \in Nat \ {0}
  PROVE  Signed(x, m) \in Int
<1>1. m \div 2 \in Int
  OBVIOUS
<1>2. (x + m \div 2) % m \in Int
  BY <1>1
<1> QED BY <1>1, <1>2 DEF Signed

\* RISC-V: a branch beyond its reach is refused, and a pair of instructions
\* gives every offset it can express.
LEMMA RiscvIsRight ==
  ASSUME PatchInv, NEW type \in {"64", "BRANCH", "PCREL_HI20", "PCREL_LO12", "CALL"},
         NEW p \in Int, NEW target \in Int,
         apply_relocation_riscv(type, p, target).ok
  PROVE  Right(apply_relocation_riscv(type, p, target), type, p, target)
<1> DEFINE result == apply_relocation_riscv(type, p, target)
           R(unpaired) == [type |-> type, p |-> p, target |-> target, imm |-> result.imm,
                           unpaired |-> unpaired]
           o == target - p
<1>1. o \in Int /\ p + o = target
  OBVIOUS
<1>2. SUFFICES /\ result.imm \in Immediates
               /\ Longer(result.plt)
               /\ type # "PCREL_LO12" =>
                    \A unpaired \in BOOLEAN : Lands(R(unpaired), result.plt)
  BY Zenon DEF Right
<1>3. CASE type = "64"
  <2>1. result.imm = [hi |-> target, lo |-> 0] /\ result.plt = plt
    BY <1>3 DEF apply_relocation_riscv, Field, Fields
  <2> HIDE DEF result
  <2>2. \A u \in BOOLEAN : Decoded(R(u)) = Wanted(R(u))
    BY <1>3, <2>1 DEF Decoded, Wanted
  <2>3. result.imm \in Immediates
    <3>1. [hi |-> target, lo |-> 0] \in Immediates
      BY DEF Immediates
    <3> QED BY <2>1, <3>1, Zenon
  <2> QED BY <2>1, <2>2, <2>3, PltIsLonger, Zenon DEF Lands
<1>4. CASE type = "BRANCH"
  <2>1. o \in -SHORT .. SHORT - 1 /\ result = Field(o % (2 * SHORT))
    <3>1. result = IF o \in -SHORT .. SHORT - 1 THEN Field(o % (2 * SHORT)) ELSE Failure
      BY <1>4, SMTT(30) DEF apply_relocation_riscv
    <3>2. result.ok /\ ~Failure.ok
      BY SMTT(30) DEF Failure
    <3> QED BY <3>1, <3>2
  <2>2. result.imm = [hi |-> o % (2 * SHORT), lo |-> 0] /\ result.plt = plt
    BY <2>1 DEF Field, Fields
  <2> HIDE DEF result, o
  <2>3. Signed(o % (2 * SHORT), 2 * SHORT) = o
    BY <1>1, <2>1, FieldIsRead, WidthsArePositive
  <2>4. \A u \in BOOLEAN : Decoded(R(u)) = p + o /\ Wanted(R(u)) = target
    BY <1>4, <2>2, <2>3 DEF Decoded, Wanted
  <2>5. o % (2 * SHORT) \in Int
    BY <1>1, ModuloIsNumber, WidthsArePositive, Zenon
  <2>6. result.imm \in Immediates
    BY <2>2, <2>5 DEF Immediates
  <2> QED BY <1>1, <2>2, <2>4, <2>6, PltIsLonger, Zenon DEF Lands
<1>5. ASSUME type \in {"PCREL_HI20", "CALL"}, result.imm = Split(o)
      PROVE  /\ result.imm \in Immediates
             /\ \A u \in BOOLEAN : Lands(R(u), result.plt)
  <2>1. result.imm \in Immediates
    BY <1>1, <1>5, SplitIsPair, Zenon
  <2> HIDE DEF result
  <2>2. CASE PairReach(o)
    <3>1. Signed(Split(o).hi, HI) * LO + Signed(Split(o).lo, LO) = o
      BY <1>1, <2>2, PairIsRead
    <3>2. Signed(Split(o).hi, HI) * LO \in Int /\ Signed(Split(o).lo, LO) \in Int
      BY <1>1, SplitIsPair, SignedIsNumber, WidthsArePositive, SMTT(30) DEF Immediates
    <3>3. p + Signed(Split(o).hi, HI) * LO + Signed(Split(o).lo, LO) = target
      <4> DEFINE x == Signed(Split(o).hi, HI) * LO
                 y == Signed(Split(o).lo, LO)
      <4> HIDE DEF x, y, o
      <4>1. p + x + y = target
        BY <1>1, <3>1, <3>2 DEF x, y
      <4> QED BY <4>1, SMTT(30) DEF x, y
    <3> HIDE DEF o
    <3>4. \A u \in BOOLEAN : Wanted(R(u)) = target /\ Decoded(R(u)) = target
      BY <1>5, <3>3, Zenon DEF Decoded, Wanted
    <3> QED BY <2>1, <3>4, Zenon DEF Lands
  <2>3. CASE ~PairReach(o)
    BY <1>5, <2>1, <2>3, Zenon DEF Lands
  <2> QED BY <2>2, <2>3
<1>6. CASE type = "PCREL_HI20"
  <2>1. result.imm = Split(o) /\ result.plt = plt
    BY <1>6, Zenon DEF apply_relocation_riscv, Fields
  <2> QED BY <1>5, <1>6, <2>1, PltIsLonger, Zenon
<1>7. CASE type = "CALL" /\ DirectCall(o)
  <2>1. result.imm = Split(o) /\ result.plt = plt
    BY <1>7 DEF apply_relocation_riscv, Fields
  <2> QED BY <1>5, <1>7, <2>1, PltIsLonger, Zenon
<1>8. CASE type = "CALL" /\ ~DirectCall(o)
  <2> DEFINE stub == get_or_create(target)
             f == stub.at - p
  <2>1. result = [Fields(Split(f)) EXCEPT !.ok = stub.ok, !.plt = stub.plt]
    BY <1>8 DEF apply_relocation_riscv
  <2>2. result.imm = Split(f) /\ result.plt = stub.plt /\ result.ok = stub.ok
    BY <2>1, Zenon DEF Fields
  <2>3. Longer(stub.plt) /\ stub.at \in Int
    <3>1. get_or_create(target).ok
      BY <2>2, Zenon
    <3>2. Longer(stub.plt) /\ stub.at \in PltBase .. PltBase + MAX_PLT_ENTRIES - 1
      BY <3>1, StubIsFound, Zenon
    <3> QED BY <3>2, WidthsArePositive
  <2> HIDE DEF result, stub
  <2>4. f \in Int
    BY <2>3
  <2> HIDE DEF f
  <2>5. result.imm \in Immediates
    BY <2>2, <2>4, SplitIsPair, Zenon
  <2>6. \A u \in BOOLEAN : Lands(R(u), result.plt)
    BY <1>8, Zenon DEF Lands
  <2> QED BY <2>2, <2>3, <2>5, <2>6, Zenon
<1>9. CASE type = "PCREL_LO12"
  <2>1. result.plt = plt
        /\ result.imm = [hi |-> 0, lo |-> IF HighPart(target) = {} THEN 0
                                          ELSE (CHOOSE r \in HighPart(target) : TRUE).imm.lo]
    BY <1>9, Zenon DEF apply_relocation_riscv, Fields
  <2> HIDE DEF result
  <2>2. CASE HighPart(target) = {}
    <3>1. result.imm \in Immediates
      BY <2>1, <2>2 DEF Immediates
    <3> QED BY <1>9, <2>1, <3>1, PltIsLonger, Zenon
  <2>3. CASE HighPart(target) # {}
    <3> DEFINE h == CHOOSE r \in HighPart(target) : TRUE
    <3>1. h \in Patched
      BY <2>3, Zenon DEF HighPart, PatchInv
    <3> HIDE DEF h
    <3>2. h.imm.lo \in Int
      BY <3>1, Zenon DEF Patched
    <3>3. result.imm \in Immediates
      BY <2>1, <2>3, <3>2 DEF Immediates, h
    <3> QED BY <1>9, <2>1, <3>3, PltIsLonger, Zenon
  <2> QED BY <2>2, <2>3
<1> QED BY <1>3, <1>4, <1>6, <1>7, <1>8, <1>9, Zenon

\* What holds of a patched place still does when the table has grown and another
\* place is patched.
LEMMA StillReaches ==
  ASSUME PatchInv, NEW r \in patched, r.type # "PCREL_LO12", Longer(plt')
  PROVE  Reaches(r)'
<1>1. Reaches(r)
  BY Zenon DEF PatchInv
<1>2. Decoded(r)' = Decoded(r) /\ Wanted(r)' = Wanted(r)
  BY DEF Decoded, Wanted, Signed, PageOf
<1>3. PairReach(r.target - r.p)' = PairReach(r.target - r.p)
      /\ DirectCall(r.target - r.p)' = DirectCall(r.target - r.p)
  BY Zenon DEF PairReach, DirectCall
<1>4. ThroughPlt(r, Decoded(r)) => ThroughPlt(r, Decoded(r))'
  <2> DEFINE i == Decoded(r) - PltBase + 1
  <2>1. ThroughPlt(r, Decoded(r)) <=> i \in DOMAIN plt /\ plt[i] = r.target
    BY Zenon DEF ThroughPlt
  <2>2. ThroughPlt(r, Decoded(r))' <=> i \in DOMAIN plt' /\ plt'[i] = r.target
    BY <1>2, Zenon DEF ThroughPlt
  <2> HIDE DEF i
  <2> QED BY <2>1, <2>2, Zenon DEF Longer
<1> QED BY <1>1, <1>2, <1>3, <1>4, Zenon DEF Reaches

LEMMA PatchKept ==
  ASSUME PatchInv, UNCHANGED <<plt, patched>>
  PROVE  PatchInv'
<1>1. Longer(plt')
  BY PltIsLonger DEF Longer
<1>2. \A r \in patched' : r.type # "PCREL_LO12" => Reaches(r)'
  BY <1>1, StillReaches, Zenon
<1>3. \A r \in patched' : r.type = "PCREL_LO12" /\ ~r.unpaired => Paired(r)'
  BY Zenon DEF PatchInv, Paired
<1> QED BY <1>2, <1>3, Zenon DEF PatchInv

LEMMA PatchStep ==
  ASSUME SectionInv, PatchInv, NEW type \in Types, NEW p \in Unpatched, NEW target \in Nat,
         arch \in {"aarch64", "riscv64"}, Patch(type, p, target)
  PROVE  PatchInv'
<1> DEFINE result == IF arch = "aarch64" THEN apply_relocation_aarch64(type, p, target)
                     ELSE apply_relocation_riscv(type, p, target)
           new == [type |-> type, p |-> p, target |-> target, imm |-> result.imm,
                   unpaired |-> HighPart(target) = {}]
<1>1. CASE ~result.ok
  <2>1. UNCHANGED <<plt, patched>>
    BY <1>1 DEF Patch
  <2> QED BY <2>1, PatchKept, Zenon
<1>2. CASE result.ok
  <2>1. patched' = patched \union {new} /\ plt' = result.plt
    BY <1>2, Zenon DEF Patch
  <2>2. p \in Base .. Base + Span - 1 /\ (\A s \in patched : s.p # p) /\ p \in Int /\ target \in Int
    BY PlacesInSpan, WidthsArePositive DEF Span
  <2>3. type \in AllTypes
    BY Zenon DEF Types, AllTypes
  <2>4. Right(result, type, p, target)
    <3>1. CASE arch = "aarch64"
      BY <1>2, <2>2, <3>1, AArch64IsRight, Zenon DEF Types
    <3>2. CASE arch = "riscv64"
      BY <1>2, <2>2, <3>2, RiscvIsRight, Zenon DEF Types
    <3> QED BY <3>1, <3>2
  <2>5. type = "PCREL_HI20" => result.imm.lo = (target - p) % LO
    <3> SUFFICES ASSUME type = "PCREL_HI20" PROVE result.imm.lo = (target - p) % LO
      BY Zenon
    <3>1. arch = "riscv64"
      BY DEF Types
    <3>2. result = Fields(Split(target - p))
      BY <3>1 DEF apply_relocation_riscv
    <3> QED BY <3>2 DEF Fields, Split
  <2>6. type = "PCREL_LO12" /\ HighPart(target) # {} =>
          \E h \in patched : /\ h.type = "PCREL_HI20" /\ h.p = target
                             /\ result.imm.lo = (h.target - h.p) % LO
    <3> SUFFICES ASSUME type = "PCREL_LO12", HighPart(target) # {}
                 PROVE  \E h \in patched : /\ h.type = "PCREL_HI20" /\ h.p = target
                                           /\ result.imm.lo = (h.target - h.p) % LO
      BY Zenon
    <3> DEFINE h == CHOOSE g \in HighPart(target) : TRUE
    <3>1. arch = "riscv64"
      BY DEF Types
    <3>2. result.imm.lo = h.imm.lo
      BY <3>1, Zenon DEF apply_relocation_riscv, Fields
    <3>3. h \in HighPart(target)
      OBVIOUS
    <3> HIDE DEF h, result
    <3>4. h \in patched /\ h.type = "PCREL_HI20" /\ h.p = target
      BY <3>3, Zenon DEF HighPart
    <3>5. h.imm.lo = (h.target - h.p) % LO
      BY <3>4 DEF PatchInv
    <3> QED BY <3>2, <3>4, <3>5, Zenon
  <2> HIDE DEF result
  <2>7. PICK r : r = new
    BY Zenon
  <2>7a. /\ r.type = type /\ r.p = p /\ r.target = target /\ r.imm = result.imm
        /\ r.unpaired = (HighPart(target) = {}) /\ r.unpaired \in BOOLEAN
    BY <2>7, Zenon
  <2>7b. patched' = patched \union {r} /\ plt' = result.plt
    BY <2>1, <2>7, Zenon
  <2>8. r \in Patched
    BY <2>2, <2>3, <2>4, <2>7, Zenon DEF Patched, Right, Immediates
  <2>9. Longer(plt') /\ plt' \in Seq(Int) /\ Len(plt') <= MAX_PLT_ENTRIES
    BY <2>1, <2>4, Zenon DEF Right, Longer
  <2>10. r.type # "PCREL_LO12" => Lands(r, plt')
    <3>1. \A unpaired \in BOOLEAN :
            [type |-> type, p |-> p, target |-> target, imm |-> result.imm,
             unpaired |-> unpaired] = r => (r.type # "PCREL_LO12" => Lands(r, plt'))
      BY <2>4, <2>7a, <2>7b, Zenon DEF Right
    <3> QED BY <2>7, <2>7a, <3>1, Zenon
  <2> HIDE DEF new
  <2>11. patched' \subseteq Patched
    BY <2>7b, <2>8, Zenon DEF PatchInv
  <2>12. \A s, t \in patched' : s.p = t.p => s = t
    BY <2>7b, <2>2, <2>7a, Zenon DEF PatchInv
  <2>13. \A s \in patched' : s.type = "PCREL_HI20" => s.imm.lo = (s.target - s.p) % LO
    BY <2>7b, <2>5, <2>7a, Zenon DEF PatchInv
  <2>14. r.type # "PCREL_LO12" => Reaches(r)'
    <3> SUFFICES ASSUME r.type # "PCREL_LO12" PROVE Reaches(r)'
      OBVIOUS
    <3>1. Decoded(r)' = Decoded(r) /\ Wanted(r)' = Wanted(r)
      BY Zenon DEF Decoded, Wanted, Signed, PageOf
    <3>2. PairReach(r.target - r.p)' = PairReach(r.target - r.p)
          /\ DirectCall(r.target - r.p)' = DirectCall(r.target - r.p)
      BY DEF PairReach, DirectCall
    <3> QED BY <2>10, <3>1, <3>2, Zenon DEF Reaches, Lands, ThroughPlt
  <2>15. \A s \in patched' : s.type # "PCREL_LO12" => Reaches(s)'
    BY <2>7b, <2>9, <2>14, StillReaches, Zenon
  <2>16. \A s \in patched' : s.type = "PCREL_LO12" /\ ~s.unpaired => Paired(s)'
    <3> SUFFICES ASSUME NEW s \in patched', s.type = "PCREL_LO12", ~s.unpaired
                 PROVE  \E h \in patched' : /\ h.type = "PCREL_HI20" /\ h.p = s.target
                                            /\ s.imm.lo = (h.target - h.p) % LO
      BY Zenon DEF Paired
    <3>1. CASE s \in patched
      <4>1. Paired(s)
        BY <3>1, Zenon DEF PatchInv
      <4>2. PICK h \in patched : /\ h.type = "PCREL_HI20" /\ h.p = s.target
                                 /\ s.imm.lo = (h.target - h.p) % LO
        BY <4>1, Zenon DEF Paired
      <4> QED BY <2>7b, <4>2, Zenon
    <3>2. CASE s = r
      BY <2>7b, <2>6, <2>7a, <3>2, Zenon
    <3> QED BY <2>7b, <3>1, <3>2, Zenon
  <2> QED BY <2>9, <2>11, <2>12, <2>13, <2>15, <2>16, Zenon DEF PatchInv
<1> QED BY <1>1, <1>2

ImageInv == arch \in {"aarch64", "riscv64"} /\ SectionInv /\ PatchInv

LEMMA PatchNext ==
  ASSUME ImageInv, [ImageNext]_imageVars
  PROVE  ImageInv'
<1>1. SectionInv' /\ SectionInv /\ PatchInv
  BY SectionNext DEF ImageInv
<1>2. arch' = arch
  BY Zenon DEF ImageNext, load_section, StartRelocations, OtherInit, RelocateExternal, RelocateLocal,
         Finish, imageVars
<1>3. CASE \E type \in Types, p \in Unpatched :
             \E name \in KernelSymbols \union TestSymbols : RelocateExternal(type, p, name)
  <2>1. PICK type \in Types, p \in Unpatched, name \in KernelSymbols \union TestSymbols :
          RelocateExternal(type, p, name)
    BY <1>3
  <2>2. Address[name] \in Nat
    BY ImageAssumption, Zenon
  <2>3. CASE Patch(type, p, Address[name])
    BY <1>1, <1>2, <2>2, <2>3, PatchStep, Zenon DEF ImageInv
  <2>4. CASE UNCHANGED <<plt, patched>>
    BY <1>1, <1>2, <2>4, PatchKept, Zenon DEF ImageInv
  <2> QED BY <2>1, <2>3, <2>4, Zenon DEF RelocateExternal
<1>4. CASE \E type \in Types, p \in Unpatched : \E target \in Places : RelocateLocal(type, p, target)
  <2>1. PICK type \in Types, p \in Unpatched, target \in Places : RelocateLocal(type, p, target)
    BY <1>4
  <2>2. target \in Nat
    BY <1>1, PlacesAreAddresses, Zenon
  <2>3. Patch(type, p, target)
    BY <2>1 DEF RelocateLocal
  <2> QED BY <1>1, <1>2, <2>2, <2>3, PatchStep, Zenon DEF ImageInv
<1>5. CASE \E alloc \in BOOLEAN, size \in Sizes, align \in Aligns : load_section(alloc, size, align)
  <2>1. UNCHANGED <<plt, patched>>
    BY <1>5, Zenon DEF load_section
  <2> QED BY <1>1, <1>2, <2>1, PatchKept, Zenon DEF ImageInv
<1>6. CASE StartRelocations \/ OtherInit \/ Finish \/ UNCHANGED imageVars
  <2>1. UNCHANGED <<plt, patched>>
    BY <1>6 DEF StartRelocations, OtherInit, Finish, imageVars
  <2> QED BY <1>1, <1>2, <2>1, PatchKept, SMTT(30) DEF ImageInv
<1> QED BY <1>3, <1>4, <1>5, <1>6, Zenon DEF ImageNext

LEMMA PatchStart ==
  ASSUME ImageInit
  PROVE  ImageInv
<1>1. plt \in Seq(Int) /\ Len(plt) = 0 /\ patched = {}
  BY DEF ImageInit
<1>2. Len(plt) <= MAX_PLT_ENTRIES
  BY <1>1, WidthsArePositive
<1>3. PatchInv
  BY <1>1, <1>2, Zenon DEF PatchInv
<1> QED BY <1>3, SectionStart, Zenon DEF ImageInv, ImageInit

\* Every instruction that apply_relocations() patched without an error reaches
\* what its relocation asks for, for symbols at any address, sections of any
\* size and any number of relocations in any order.
THEOREM PatchedInstructionsReach == ImageSpec => []RelocationsReach
<1>1. ImageInv => RelocationsReach
  BY PatchedReaches DEF ImageInv
<1> QED BY <1>1, PatchStart, PatchNext, PTL DEF ImageSpec

=============================================================================
