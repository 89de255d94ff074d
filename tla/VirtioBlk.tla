----------------------------- MODULE VirtioBlk ------------------------------
(***************************************************************************)
(* The block driver, src/src/block/virtio_blk.rs, on its virtqueue: calls  *)
(* of several threads, the waiting for a completion, the interrupt         *)
(* handler, and the device.                                                *)
(*                                                                         *)
(* The header and the status byte of a request are locals of the call, so  *)
(* a request outlives its buffers when the call returns before the device  *)
(* is done.  A late status byte then falls into a dead frame; when its     *)
(* thread is in a new call that frame may be in use again, at the same     *)
(* address.                                                                *)
(***************************************************************************)
EXTENDS Virtqueue, ThreadSet

CONSTANT MaxCalls     \* bound: the calls that get into the queue

ASSUME CallsAssumption == MaxCalls \in Nat

VARIABLES pc,
          calls,           \* calls so far
          call,            \* the number of the thread's current call
          status,          \* its status byte
          result,          \* what its last call returned
          served,          \* has the device served its current call?
          isr,             \* the device's interrupt status
          interrupt_flag

blkVars == <<pc, calls, call, status, result, served, isr, interrupt_flag>>

BlkInit ==
  /\ QueueInit
  /\ pc = [p \in Threads |-> "idle"]
  /\ calls = 0 /\ call = [p \in Threads |-> 0]
  /\ status = [p \in Threads |-> "ff"]
  /\ result = [p \in Threads |-> "none"]
  /\ served = [p \in Threads |-> FALSE]
  /\ isr = FALSE /\ interrupt_flag = FALSE

Goto(p, l) == pc' = [pc EXCEPT ![p] = l]
Return(p, r) == Goto(p, "idle") /\ result' = [result EXCEPT ![p] = r]

\* wait_for_completion() keeps the queue locked while it acknowledges.
Unlocked == \A p \in Threads : pc[p] # "ack"

Buffers(p, n) == <<<<p, n, "header">>, <<p, n, "data">>, <<p, n, "status">>>>

-----------------------------------------------------------------------------
\* read_block_internal() and write_block_internal() up to the notification: in
\* both the chain has three buffers, the status last.
Request(p) ==
  /\ pc[p] = "idle" /\ Unlocked /\ calls < MaxCalls
  /\ calls' = calls + 1
  /\ call' = [call EXCEPT ![p] = calls']
  /\ add_buffer_chain(Buffers(p, calls'), 3)
  /\ status' = [status EXCEPT ![p] = "ff"]
  /\ served' = [served EXCEPT ![p] = FALSE]
  /\ result' = [result EXCEPT ![p] = "none"]
  /\ Goto(p, "wait")
  /\ UNCHANGED <<isr, interrupt_flag>>

\* The queue has no room for the chain.
RequestFails(p) ==
  /\ pc[p] = "idle" /\ Unlocked
  /\ num_free < 3
  /\ Return(p, "error")
  /\ UNCHANGED <<calls, call, status, served, isr, interrupt_flag, queueVars>>

\* A turn of the first loop: the flag is swapped ...
WaitFlag(p) ==
  /\ pc[p] = "wait"
  /\ interrupt_flag' = FALSE
  /\ Goto(p, IF interrupt_flag THEN "flagged" ELSE "check")
  /\ UNCHANGED <<calls, call, status, result, served, isr, queueVars>>

WaitFlagged_ResultDropped(p) ==
  /\ pc[p] = "flagged" /\ Unlocked
  /\ Goto(p, "check")
  /\ poll_used \/ (used = <<>> /\ UNCHANGED queueVars)
  /\ UNCHANGED <<calls, call, status, result, served, isr, interrupt_flag>>

\* ... after an interrupt the used ring is looked at ...
WaitFlagged(p) ==
  /\ pc[p] = "flagged" /\ Unlocked
  /\ \/ poll_used /\ Goto(p, "status")
     \/ used = <<>> /\ Goto(p, "check") /\ UNCHANGED queueVars
  /\ UNCHANGED <<calls, call, status, result, served, isr, interrupt_flag>>

\* ... and in any case once more; then wfi, which the timer ends at the latest,
\* and the next turn, or after the last one the polling loop.
WaitCheck(p) ==
  /\ pc[p] \in {"check", "poll"} /\ Unlocked
  /\ \/ poll_used /\ Goto(p, "ack")
     \/ /\ used = <<>> /\ UNCHANGED queueVars
        /\ Goto(p, "poll") \/ (pc[p] = "check" /\ Goto(p, "wait"))
  /\ UNCHANGED <<calls, call, status, result, served, isr, interrupt_flag>>

WaitAck(p) ==
  /\ pc[p] = "ack"
  /\ isr' = FALSE /\ interrupt_flag' = FALSE
  /\ Goto(p, "status")
  /\ UNCHANGED <<calls, call, status, result, served, queueVars>>

\* The polling loop gives up.
Timeout(p) ==
  /\ pc[p] = "poll" /\ Unlocked
  /\ Return(p, "timeout")
  /\ UNCHANGED <<calls, call, status, served, isr, interrupt_flag, queueVars>>

\* The call looks at its status byte.
CheckStatus(p) ==
  /\ pc[p] = "status"
  /\ Return(p, IF status[p] = "ok" THEN "ok" ELSE "error")
  /\ UNCHANGED <<calls, call, status, served, isr, interrupt_flag, queueVars>>

\* handle_virtio_irq() and handle_irq(): acknowledge, then set the flag.  The two
\* are one step; whoever waits looks at the used ring whatever the flag says.
Interrupt ==
  /\ isr
  /\ isr' = FALSE /\ interrupt_flag' = TRUE
  /\ UNCHANGED <<pc, calls, call, status, result, served, queueVars>>

\* The device writes the status byte and returns the chain.
DeviceServes(head) ==
  LET b == buf[Along(head)[ChainLength(head) - 1]]
      p == b[1]
      current == pc[p] # "idle" /\ b[2] = call[p]
  IN  /\ DeviceReturns(head)
      /\ served' = [served EXCEPT ![p] = @ \/ current]
      /\ \E s \in {"ok", "err"} :
           \/ pc[p] # "idle" /\ status' = [status EXCEPT ![p] = s]
           \/ ~current /\ UNCHANGED status
      /\ isr' = TRUE
      /\ UNCHANGED <<pc, calls, call, result, interrupt_flag>>

BlkStep(p) ==
  \/ WaitFlag(p) \/ WaitFlagged(p) \/ WaitCheck(p) \/ WaitAck(p) \/ CheckStatus(p)

BlkDevice == (DeviceTakes /\ UNCHANGED blkVars) \/ \E h \in serving : DeviceServes(h)

BlkNext ==
  \/ \E p \in Threads : Request(p) \/ RequestFails(p) \/ BlkStep(p) \/ Timeout(p)
  \/ Interrupt \/ BlkDevice

BlkSpec == BlkInit /\ [][BlkNext]_<<blkVars, queueVars>>

-----------------------------------------------------------------------------
(* Properties *)

\* What the device finds along a chain is the header, the data and the status of
\* one call, in that order, also after calls that gave up.
ChainsIntact ==
  \A h \in Outstanding :
    /\ ChainLength(h) = 3
    /\ \E p \in Threads, n \in 1 .. MaxCalls :
         \A i \in 1 .. 3 : buf[Along(h)[i - 1]] = Buffers(p, n)[i]

\* Every descriptor is free or in one chain, and what the device finds along a
\* chain is one request.
RingSound == DescriptorsAccounted /\ ChainsIntact

\* A call that waits has a completion to come: the calls that still wait are no
\* more than the chains outstanding, so one call that takes the completion of
\* another leaves its own.
NoCompletionMissing ==
  Cardinality({p \in Threads : pc[p] \in {"wait", "flagged", "check", "poll"}})
    <= Cardinality(Outstanding)

\* wait_for_completion() waits for the completion of the request of its caller:
\* when it returns Ok the device is done with that request.
WaitsForItsOwn == \A p \in Threads : pc[p] = "status" => served[p]

\* A read or write that returns Ok was served by the device.
OkMeansServed == \A p \in Threads : result[p] = "ok" => served[p]
=============================================================================
