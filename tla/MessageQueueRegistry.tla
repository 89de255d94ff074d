------------------------ MODULE MessageQueueRegistry ------------------------
(***************************************************************************)
(* The named queues of src/src/ipc/message_queue.rs: mq_open(), which      *)
(* looks a name up under the read lock and creates it under the write      *)
(* lock, and mq_unlink().  mq_send() and mq_receive() are mq_open()        *)
(* without create, followed by a call on the queue.                        *)
(***************************************************************************)
EXTENDS Integers, Sequences

CONSTANTS Openers, QueueNames,
          MaxQueues     \* bound: queues ever created

ASSUME NamesAssumption == "none" \notin QueueNames

VARIABLES
  list,      \* MESSAGE_QUEUES: names with their queues, numbered as created
  created,   \* how many queues there are; none is ever freed
  opencall,      \* the name and the create flag of the call a thread is in
  openpc,
  handle,    \* the entry mq_open() last gave the thread
  unlinked   \* history: queues whose name was unlinked

namesVars == <<list, created, opencall, openpc, handle, unlinked>>

NoEntry == [name |-> "none", mq |-> 0]
NoOpen == [name |-> "none", create |-> FALSE]

NamesInit ==
  /\ list = <<>> /\ created = 0 /\ unlinked = {}
  /\ opencall = [p \in Openers |-> NoOpen]
  /\ openpc = [p \in Openers |-> "idle"]
  /\ handle = [p \in Openers |-> NoEntry]

\* Where the first entry with the name is, in a set of none or one.
Positions(name) ==
  {i \in 1 .. Len(list) : list[i].name = name /\ \A k \in 1 .. i - 1 : list[k].name # name}

FindQueue(name) == {list[i] : i \in Positions(name)}

OpenReturns(p, entry) ==
  /\ handle' = [handle EXCEPT ![p] = entry]
  /\ opencall' = [opencall EXCEPT ![p] = NoOpen]
  /\ openpc' = [openpc EXCEPT ![p] = "idle"]

\* The look-up under the read lock.
MqOpen(p) ==
  /\ openpc[p] = "idle"
  /\ \E name \in QueueNames, create \in BOOLEAN :
       IF FindQueue(name) # {}
       THEN \E e \in FindQueue(name) : OpenReturns(p, e)
       ELSE IF create
       THEN /\ opencall' = [opencall EXCEPT ![p] = [name |-> name, create |-> TRUE]]
            /\ openpc' = [openpc EXCEPT ![p] = "create"]
            /\ UNCHANGED handle
       ELSE OpenReturns(p, NoEntry)
  /\ UNCHANGED <<list, created, unlinked>>

MqCreate_NoSecondLook(p) ==
  /\ openpc[p] = "create" /\ created < MaxQueues
  /\ LET e == [name |-> opencall[p].name, mq |-> created + 1]
     IN  list' = Append(list, e) /\ OpenReturns(p, e)
  /\ created' = created + 1
  /\ UNCHANGED unlinked

\* Under the write lock the name is looked up again before it is added.
MqCreate(p) ==
  /\ openpc[p] = "create"
  /\ \/ \E e \in FindQueue(opencall[p].name) : OpenReturns(p, e) /\ UNCHANGED <<list, created>>
     \/ /\ FindQueue(opencall[p].name) = {} /\ created < MaxQueues
        /\ LET e == [name |-> opencall[p].name, mq |-> created + 1]
           IN  list' = Append(list, e) /\ OpenReturns(p, e)
        /\ created' = created + 1
  /\ UNCHANGED unlinked

\* The entry goes; handles to the queue stay valid, since it is never freed.
MqUnlink(p) ==
  /\ openpc[p] = "idle"
  /\ \E name \in QueueNames : \E i \in Positions(name) :
       /\ list' = SubSeq(list, 1, i - 1) \o SubSeq(list, i + 1, Len(list))
       /\ unlinked' = unlinked \cup {list[i].mq}
  /\ UNCHANGED <<created, opencall, openpc, handle>>

NamesNext == \E p \in Openers : MqOpen(p) \/ MqCreate(p) \/ MqUnlink(p)

NamesSpec == NamesInit /\ [][NamesNext]_namesVars

-----------------------------------------------------------------------------
\* Threads that open a name talk to each other: two handles to one name, neither
\* of them unlinked, are the same queue, although mq_open() gives up the read
\* lock before it takes the write lock.
SameNameSameQueue ==
  \A p, q \in Openers :
    /\ handle[p].name = handle[q].name
    /\ {handle[p].mq, handle[q].mq} \cap unlinked = {}
    => handle[p].mq = handle[q].mq

=============================================================================
