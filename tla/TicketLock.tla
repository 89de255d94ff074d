----------------------------- MODULE TicketLock -----------------------------
(***************************************************************************)
(* The ticket spinlock of src/src/sync/spinlock.rs: a thread draws a       *)
(* ticket and waits for its number.  Both counters wrap around.            *)
(***************************************************************************)
EXTENDS Integers, Sequences, ThreadSet

CONSTANT Wrap   \* the counters count modulo Wrap: 2^32 in the code

\* No two threads can hold the same number.
ASSUME TicketsSuffice == Wrap \in Nat \ {0} /\ Cardinality(Threads) <= Wrap

VARIABLES next_ticket, now_serving,
          ticketpc, \* where each thread is
          ticket,   \* the number it drew
          arrived   \* history: the threads in the order they drew

ticketVars == <<next_ticket, now_serving, ticketpc, ticket, arrived>>

TicketInit ==
  /\ next_ticket = 0 /\ now_serving = 0
  /\ ticketpc = [p \in Threads |-> "idle"]
  /\ ticket = [p \in Threads |-> 0]
  /\ arrived = <<>>

\* The history when the thread in place i has left.
Without(i) == SubSeq(arrived, 1, i - 1) \o SubSeq(arrived, i + 1, Len(arrived))

\* The fetch_add that starts lock().
Draw(p) ==
  /\ ticketpc[p] = "idle"
  /\ ticket' = [ticket EXCEPT ![p] = next_ticket]
  /\ next_ticket' = (next_ticket + 1) % Wrap
  /\ ticketpc' = [ticketpc EXCEPT ![p] = "spin"]
  /\ arrived' = Append(arrived, p)
  /\ UNCHANGED now_serving

Serve_AtLeast(p) ==
  /\ ticketpc[p] = "spin" /\ now_serving >= ticket[p]
  /\ ticketpc' = [ticketpc EXCEPT ![p] = "held"]
  /\ UNCHANGED <<next_ticket, now_serving, ticket, arrived>>

\* The spin ends when the load finds the thread's own number.
Serve(p) ==
  /\ ticketpc[p] = "spin" /\ now_serving = ticket[p]
  /\ ticketpc' = [ticketpc EXCEPT ![p] = "held"]
  /\ UNCHANGED <<next_ticket, now_serving, ticket, arrived>>

Unlock_NoWrap(p) ==
  /\ ticketpc[p] = "held"
  /\ now_serving' = now_serving + 1
  /\ ticketpc' = [ticketpc EXCEPT ![p] = "idle"]
  /\ ticket' = [ticket EXCEPT ![p] = 0]
  /\ \E i \in DOMAIN arrived : arrived[i] = p /\ arrived' = Without(i)
  /\ UNCHANGED next_ticket

\* The guard's drop serves the next number.
Unlock(p) ==
  /\ ticketpc[p] = "held"
  /\ now_serving' = (now_serving + 1) % Wrap
  /\ ticketpc' = [ticketpc EXCEPT ![p] = "idle"]
  /\ ticket' = [ticket EXCEPT ![p] = 0]
  /\ \E i \in DOMAIN arrived : arrived[i] = p /\ arrived' = Without(i)
  /\ UNCHANGED next_ticket

TicketNext == \E p \in Threads : Draw(p) \/ Serve(p) \/ Unlock(p)

TicketSpec == TicketInit /\ [][TicketNext]_ticketVars

\* Threads that spin run, and guards are dropped.
TicketFairness ==
  \A p \in Threads : WF_ticketVars(Serve(p)) /\ WF_ticketVars(Unlock(p))

-----------------------------------------------------------------------------
\* The lock is first come, first served, across the wrap of its counters: only
\* the thread that drew first among those in lock() can hold it, so there is
\* also at most one.
FirstComeFirstServed ==
  \A p \in Threads : ticketpc[p] = "held" => arrived[1] = p

\* Every thread that draws a ticket gets the lock.
EveryTicketServed ==
  \A p \in Threads : ticketpc[p] = "spin" ~> ticketpc[p] = "held"

=============================================================================
