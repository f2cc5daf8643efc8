------------------------------- MODULE TSQueue -------------------------------
(***************************************************************************)
(* netlib::core::TSQueue<T>: a deque guarded by one mutex (muxQueue) and   *)
(* one condition variable (cvBlocking).                                    *)
(*                                                                         *)
(* There is one action per critical section of the class, parameterised by *)
(* the calling thread; the modules of the threads that share a queue       *)
(* instantiate this one.  A critical section is one step because muxQueue  *)
(* is held throughout; what the lock does not cover is a step of its own:  *)
(* notify_one() comes after unlock(), and a thread woken inside wait()     *)
(* takes the lock again before it re-tests its predicate.                  *)
(***************************************************************************)
EXTENDS Integers, Sequences

CONSTANTS Threads,  \* the threads that call the queue
          Items     \* the values of type T

VARIABLE queue      \* the deque, and where each thread is in the monitor

(***************************************************************************)
(* "out"     not inside a call, or about to take the lock for one          *)
(* "notify"  has changed the deque and unlocked; notify_one() comes next   *)
(* "asleep"  blocked in cvBlocking, its predicate found false              *)
(* "awake"   woken; takes the lock again to re-test the predicate          *)
(* "expired" the deadline of wait_for() passed; one last test remains      *)
(***************************************************************************)
CvState == {"out", "notify", "asleep", "awake", "expired"}

TypeOK == queue \in [deq : Seq(Items), cv : [Threads -> CvState]]

Init == queue = [deq |-> <<>>, cv |-> [t \in Threads |-> "out"]]

Goto(t, state) == queue' = [queue EXCEPT !.cv[t] = state]

\* One critical section of t: the deque becomes deq and t goes to state.
Section(t, deq, state) ==
    /\ queue.cv[t] = "out"
    /\ queue' = [queue EXCEPT !.deq = deq, !.cv[t] = state]

-----------------------------------------------------------------------------
(* push_back, push_front and clear change the deque, unlock, then notify.  *)

\* Mutant: the item is stored and nobody is notified.
PushBackSilent(t, item) == Section(t, Append(queue.deq, item), "out")

PushBack(t, item) == Section(t, Append(queue.deq, item), "notify")
PushFront(t, item) == Section(t, <<item>> \o queue.deq, "notify")
Clear(t) == Section(t, <<>>, "notify")

\* Mutant: the notification reaches nobody.
NotifyNobody(t) == queue.cv[t] = "notify" /\ Goto(t, "out")

\* cvBlocking.notify_one(): wakes one of the sleeping threads, if any.
NotifyOne(t) ==
    /\ queue.cv[t] = "notify"
    /\ \/ /\ \A w \in Threads : queue.cv[w] # "asleep"
          /\ Goto(t, "out")
       \/ \E w \in Threads :
             /\ queue.cv[w] = "asleep"
             /\ queue' = [queue EXCEPT !.cv[t] = "out", !.cv[w] = "awake"]

(* pop_front and pop_back: on an empty std::deque they are undefined, so   *)
(* the caller has to know that there is an item.                           *)

PopFront(t) == queue.deq # <<>> /\ Section(t, Tail(queue.deq), "out")
PopBack(t) ==
    queue.deq # <<>> /\ Section(t, SubSeq(queue.deq, 1, Len(queue.deq) - 1), "out")

(* front() and back() return a reference into the deque, and empty() and    *)
(* count() a value, of which the caller knows what it was under the lock.  *)
Read(t) == queue.cv[t] = "out" /\ UNCHANGED queue
Front(t) == queue.deq # <<>> /\ Read(t)
Back(t) == queue.deq # <<>> /\ Read(t)

-----------------------------------------------------------------------------
(* wait(), wait(exit) and wait_for(): cvBlocking.wait* with a predicate.   *)
(* `exit' is what the reference parameter of wait(const bool &) denotes    *)
(* when the predicate is evaluated; wait() is wait(exit) with exit FALSE.  *)

Ready(exit) == exit \/ queue.deq # <<>>

WaitReturns(t, exit) ==
    /\ queue.cv[t] \in {"out", "awake"}
    /\ Ready(exit)
    /\ Goto(t, "out")

\* Mutant: sleeps without testing the predicate under the lock.
WaitBlocksUntested(t, exit) == queue.cv[t] \in {"out", "awake"} /\ Goto(t, "asleep")

WaitBlocks(t, exit) ==
    /\ queue.cv[t] \in {"out", "awake"}
    /\ ~Ready(exit)
    /\ Goto(t, "asleep")

\* wait_for() returns true as soon as the predicate holds; at the deadline it
\* returns the predicate's value then.
WaitForReturns(t, result) ==
    /\ \/ queue.cv[t] \in {"out", "awake"} /\ result
       \/ queue.cv[t] = "expired"
    /\ result = Ready(FALSE)
    /\ Goto(t, "out")

\* The deadline of a wait_for() passes while its caller sleeps.
Expire(t) == queue.cv[t] = "asleep" /\ Goto(t, "expired")

\* A condition variable may wake a thread that nobody notified.
SpuriousWakeup(t) == queue.cv[t] = "asleep" /\ Goto(t, "awake")

-----------------------------------------------------------------------------
\* Thread c is the only one that ever waits on this queue.
OnlyWaiter(c) ==
    \A t \in Threads : queue.cv[t] \in {"asleep", "awake", "expired"} => t = c

\* No lost wakeup: the waiting thread does not sleep beside a non-empty deque
\* unless some thread is about to notify it.
NoLostWakeup(c) ==
    queue.deq # <<>> /\ queue.cv[c] = "asleep" =>
        \E t \in Threads : queue.cv[t] = "notify"
=============================================================================
