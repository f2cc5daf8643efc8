----------------------------- MODULE QueueSystem -----------------------------
(***************************************************************************)
(* One TSQueue and any number of threads: producers that push at either    *)
(* end and clear, consumers that wait, with or without a timeout, and pop  *)
(* at either end.  The program has one consumer per queue; this is what    *)
(* the class does for more, as "thread safe, double ended, waiting queue". *)
(*                                                                         *)
(* TSQueue has no operation that tests and pops: consumers of one queue    *)
(* hold a lock of their own over empty() and the pop, so that both are the *)
(* one step Take.  Before it a consumer may look at the item: front() and  *)
(* back() return a reference, which the queue's lock does not protect.     *)
(***************************************************************************)
EXTENDS Integers, Sequences, FiniteSets

CONSTANTS Producers, Consumers,
          Timed,     \* the consumers that call wait_for() instead of wait()
          MaxItems   \* bound: items pushed

ASSUME ThreadsAssumption ==
    /\ Producers \cap Consumers = {} /\ Timed \subseteq Consumers
    /\ Consumers # {} /\ MaxItems \in Nat

Threads == Producers \cup Consumers
Items == 1..MaxItems
NoItem == 0

VARIABLES queue,
          pc,       \* of each consumer: "wait", or "take" once it was told of an item,
                    \* or "peeked" while it uses a reference
          peeked,   \* the item that a consumer's reference denotes
          pushed,   \* number of items pushed
          taken,    \* the items popped, one after the other
          cleared   \* the items that clear() has dropped

vars == <<queue, pc, peeked, pushed, taken, cleared>>

Q == INSTANCE TSQueue

Init ==
    /\ Q!Init /\ pc = [c \in Consumers |-> "wait"]
    /\ peeked = [c \in Consumers |-> NoItem]
    /\ pushed = 0 /\ taken = <<>> /\ cleared = {}

-----------------------------------------------------------------------------
Push(p) ==
    /\ pushed < MaxItems
    /\ pushed' = pushed + 1
    /\ Q!PushBack(p, pushed + 1) \/ Q!PushFront(p, pushed + 1)
    /\ UNCHANGED <<pc, peeked, taken, cleared>>

Clear(p) ==
    /\ queue.deq # <<>>
    /\ Q!Clear(p)
    /\ cleared' = cleared \cup {queue.deq[i] : i \in 1..Len(queue.deq)}
    /\ UNCHANGED <<pc, peeked, pushed, taken>>

Notify(p) == Q!NotifyOne(p) /\ UNCHANGED <<pc, peeked, pushed, taken, cleared>>

Wait(c) ==
    /\ pc[c] = "wait" /\ c \notin Timed
    /\ \/ Q!WaitReturns(c, FALSE) /\ pc' = [pc EXCEPT ![c] = "take"]
       \/ Q!WaitBlocks(c, FALSE) /\ UNCHANGED pc
    /\ UNCHANGED <<peeked, pushed, taken, cleared>>

WaitFor(c) ==
    /\ pc[c] = "wait" /\ c \in Timed
    /\ \/ Q!WaitForReturns(c, TRUE) /\ pc' = [pc EXCEPT ![c] = "take"]
       \/ Q!WaitForReturns(c, FALSE) /\ UNCHANGED pc
       \/ Q!WaitBlocks(c, FALSE) /\ UNCHANGED pc
    /\ UNCHANGED <<peeked, pushed, taken, cleared>>

Expire(c) == c \in Timed /\ Q!Expire(c) /\ UNCHANGED <<pc, peeked, pushed, taken, cleared>>

\* front() or back(), of a queue that was not empty a moment ago.
Peek(c) ==
    /\ pc[c] = "take"
    /\ pc' = [pc EXCEPT ![c] = "peeked"]
    /\ \/ Q!Front(c) /\ peeked' = [peeked EXCEPT ![c] = Head(queue.deq)]
       \/ Q!Back(c) /\ peeked' = [peeked EXCEPT ![c] = queue.deq[Len(queue.deq)]]
    /\ UNCHANGED <<pushed, taken, cleared>>

\* The item is still there, or another consumer was faster.
Take(c) ==
    /\ pc[c] \in {"take", "peeked"}
    /\ pc' = [pc EXCEPT ![c] = "wait"]
    /\ peeked' = [peeked EXCEPT ![c] = NoItem]
    /\ \/ Q!PopFront(c) /\ taken' = Append(taken, Head(queue.deq))
       \/ Q!PopBack(c) /\ taken' = Append(taken, queue.deq[Len(queue.deq)])
       \/ queue.deq = <<>> /\ UNCHANGED <<queue, taken>>
    /\ UNCHANGED <<pushed, cleared>>

SpuriousWakeup(c) == Q!SpuriousWakeup(c) /\ UNCHANGED <<pc, peeked, pushed, taken, cleared>>

Consumer(c) == Wait(c) \/ WaitFor(c) \/ Peek(c) \/ Take(c)

Next == \/ \E p \in Producers : Push(p) \/ Clear(p) \/ Notify(p)
        \/ \E c \in Consumers : Consumer(c) \/ Expire(c) \/ SpuriousWakeup(c)

\* Every thread that can take a step is scheduled.  Timeouts need not pass and no
\* wakeup is spurious, where an item depends on it.
Fairness == /\ \A p \in Producers : WF_vars(Notify(p))
            /\ \A c \in Consumers : WF_vars(Consumer(c))

Spec == Init /\ [][Next]_vars /\ Fairness

-----------------------------------------------------------------------------
TypeOK ==
    /\ Q!TypeOK /\ pc \in [Consumers -> {"wait", "take", "peeked"}]
    /\ peeked \in [Consumers -> Items \cup {NoItem}]
    /\ pushed \in 0..MaxItems /\ taken \in Seq(Items) /\ cleared \in SUBSET Items

\* The consumers do not all sleep beside an item unless a producer is about to notify
\* one of them: one notify_one() per push is enough for any number of consumers.
NotAllAsleep ==
    queue.deq # <<>> /\ (\A c \in Consumers : queue.cv[c] = "asleep")
        => \E p \in Producers : queue.cv[p] = "notify"

\* Every item is popped or cleared in the end.
EveryItemTaken ==
    \A item \in Items :
        (pushed >= item) ~> (item \in cleared \/ \E i \in 1..Len(taken) : taken[i] = item)

-----------------------------------------------------------------------------
(* What a comment of the code says of it and the code does not do.         *)

\* "Thread safe": the reference that front() or back() has returned denotes an item
\* that is there, as long as its consumer has it.
ReferenceStays ==
    \A c \in Consumers :
        pc[c] = "peeked" => \E i \in 1..Len(queue.deq) : queue.deq[i] = peeked[c]
=============================================================================
