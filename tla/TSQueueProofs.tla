---------------------------- MODULE TSQueueProofs ----------------------------
(* Lemmas about the critical sections of TSQueue, for the modules whose     *)
(* threads share a queue: whatever they do with it, its type and the        *)
(* pairing of sleepers and notifications are preserved.                     *)
EXTENDS TSQueue, SequenceTheorems, TLAPS

\* The critical sections that a thread t may execute: item is what it pushes, c the
\* one thread that waits, and exit and result what the waiting methods are given
\* and return.
Operation(c, t, item, exit, result) ==
    \/ item \in Items /\ (PushBack(t, item) \/ PushFront(t, item))
    \/ Clear(t) \/ NotifyOne(t)
    \/ PopFront(t) \/ PopBack(t)
    \/ t = c /\ \/ WaitReturns(t, exit) \/ WaitBlocks(t, exit)
                \/ WaitForReturns(t, result) \/ Expire(t) \/ SpuriousWakeup(t)

QueueInv(c) == TypeOK /\ OnlyWaiter(c) /\ NoLostWakeup(c)

\* The deque remains a sequence of items and every thread in a state of the monitor.
LEMMA OperationType ==
    ASSUME NEW c \in Threads, NEW t \in Threads, NEW item,
           NEW exit, NEW result, TypeOK, Operation(c, t, item, exit, result)
    PROVE  TypeOK'
<1> DEFINE deq == queue.deq
<1>0. /\ deq \in Seq(Items) /\ queue.cv \in [Threads -> CvState]
      /\ queue = [deq |-> deq, cv |-> queue.cv]
  BY DEF TypeOK
<1>1. ASSUME NEW d \in Seq(Items), NEW s \in CvState, Section(t, d, s)
      PROVE  TypeOK'
  BY <1>0, <1>1 DEF Section, TypeOK
<1>2. ASSUME NEW w \in Threads, NEW s \in CvState, Goto(w, s)
      PROVE  TypeOK'
  BY <1>0, <1>2 DEF Goto, TypeOK
<1>3. CASE item \in Items /\ PushBack(t, item)
  BY <1>0, <1>1, <1>3, AppendProperties DEF PushBack, CvState
<1>4. CASE item \in Items /\ PushFront(t, item)
  <2>1. <<item>> \o deq \in Seq(Items)
    BY <1>0, <1>4, ConcatProperties
  <2> QED BY <2>1, <1>1, <1>4 DEF PushFront, CvState
<1>5. CASE Clear(t)
  BY <1>1, <1>5, EmptySeq DEF Clear, CvState
<1>6. CASE NotifyOne(t)
  <2>1. CASE Goto(t, "out")
    BY <1>2, <2>1 DEF CvState
  <2>2. ASSUME NEW w \in Threads,
               queue' = [queue EXCEPT !.cv[t] = "out", !.cv[w] = "awake"]
        PROVE  TypeOK'
    BY <1>0, <2>2 DEF TypeOK, CvState
  <2> QED BY <1>6, <2>1, <2>2 DEF NotifyOne
<1>7. CASE PopFront(t)
  BY <1>0, <1>1, <1>7, HeadTailProperties DEF PopFront, CvState
<1>8. CASE PopBack(t)
  <2>1. deq # <<>> => SubSeq(deq, 1, Len(deq) - 1) \in Seq(Items)
    BY <1>0, SubSeqProperties, LenProperties, EmptySeq
  <2> QED BY <2>1, <1>1, <1>8 DEF PopBack, CvState
<1>9. CASE \/ WaitReturns(t, exit) \/ WaitBlocks(t, exit)
           \/ WaitForReturns(t, result) \/ Expire(t) \/ SpuriousWakeup(t)
  BY <1>2, <1>9 DEF WaitReturns, WaitBlocks, WaitForReturns, Expire, SpuriousWakeup,
                    CvState
<1> QED BY <1>3, <1>4, <1>5, <1>6, <1>7, <1>8, <1>9 DEF Operation

\* No operation loses a wakeup: if only c ever waits, c does not sleep beside an item
\* that nobody is about to announce.
LEMMA OperationKeepsWakeup ==
    ASSUME NEW c \in Threads, NEW t \in Threads, NEW item,
           NEW exit, NEW result, QueueInv(c), Operation(c, t, item, exit, result)
    PROVE  QueueInv(c)'
<1> DEFINE waiting == {"asleep", "awake", "expired"}
<1>0. TypeOK' /\ queue.cv \in [Threads -> CvState]
  BY OperationType DEF QueueInv, TypeOK
<1>1. ASSUME NEW d, NEW s \in {"notify", "out"}, Section(t, d, s),
             s = "out" => queue.deq # <<>> 
      PROVE  QueueInv(c)'
  <2>1. /\ queue'.deq = d /\ queue'.cv = [queue.cv EXCEPT ![t] = s]
        /\ queue.cv[t] = "out"
    BY <1>0, <1>1 DEF Section, TypeOK, QueueInv
  <2>2. OnlyWaiter(c)'
    BY <2>1, <1>0 DEF QueueInv, OnlyWaiter
  <2>3. NoLostWakeup(c)'
    BY <2>1, <1>0, <1>1 DEF QueueInv, NoLostWakeup
  <2> QED BY <1>0, <2>2, <2>3 DEF QueueInv
<1>2. ASSUME NEW s \in CvState, Goto(c, s), s = "asleep" => queue.deq = <<>>,
             queue.cv[c] # "notify"
      PROVE  QueueInv(c)'
  BY <1>0, <1>2 DEF Goto, QueueInv, OnlyWaiter, NoLostWakeup, TypeOK
<1>3. CASE PushBack(t, item) \/ PushFront(t, item) \/ Clear(t)
  BY <1>1, <1>3 DEF PushBack, PushFront, Clear
<1>4. CASE PopFront(t) \/ PopBack(t)
  BY <1>1, <1>4 DEF PopFront, PopBack
<1>5. CASE NotifyOne(t)
  <2>1. CASE (\A w \in Threads : queue.cv[w] # "asleep") /\ Goto(t, "out")
    BY <1>0, <1>5, <2>1 DEF NotifyOne, Goto, QueueInv, OnlyWaiter, NoLostWakeup, TypeOK
  <2>2. ASSUME NEW w \in Threads, queue.cv[w] = "asleep",
               queue' = [queue EXCEPT !.cv[t] = "out", !.cv[w] = "awake"]
        PROVE  QueueInv(c)'
    <3>1. w = c
      BY <2>2 DEF QueueInv, OnlyWaiter
    <3>2. queue'.cv = [[queue.cv EXCEPT ![t] = "out"] EXCEPT ![c] = "awake"]
      BY <2>2, <3>1 DEF QueueInv, TypeOK
    <3> QED BY <3>2, <1>0, <2>2 DEF QueueInv, OnlyWaiter, NoLostWakeup
  <2> QED BY <1>5, <2>1, <2>2 DEF NotifyOne
<1>6. CASE /\ t = c
           /\ \/ WaitReturns(t, exit) \/ WaitBlocks(t, exit)
              \/ WaitForReturns(t, result) \/ Expire(t) \/ SpuriousWakeup(t)
  BY <1>2, <1>6 DEF WaitReturns, WaitBlocks, WaitForReturns, Expire, SpuriousWakeup,
                    CvState, Ready
<1> QED BY <1>3, <1>4, <1>5, <1>6 DEF Operation

-----------------------------------------------------------------------------
(* A queue and the sequence of what has left it.                            *)

\* An item pushed behind a queue is behind all that left it ...
LEMMA AppendBehind ==
    ASSUME NEW S, NEW s \in Seq(S), NEW t \in Seq(S), NEW e \in S
    PROVE  s \o Append(t, e) = Append(s \o t, e)
<1>1. Append(t, e) = t \o <<e>>
  BY AppendIsConcat
<1>2. s \o t \in Seq(S) /\ <<e>> \in Seq(S)
  BY ConcatProperties
<1>3. Append(s \o t, e) = (s \o t) \o <<e>>
  BY <1>2, AppendIsConcat
<1>4. (s \o t) \o <<e>> = s \o (t \o <<e>>)
  BY <1>2, ConcatAssociative
<1> QED BY <1>1, <1>3, <1>4

\* ... and moving the head of a queue behind what left it changes nothing.
LEMMA HeadToBack ==
    ASSUME NEW S, NEW s \in Seq(S), NEW t \in Seq(S), t # <<>>
    PROVE  Append(s, Head(t)) \o Tail(t) = s \o t
<1> DEFINE h == <<Head(t)>>
<1>1. Head(t) \in S /\ Head(t) = t[1] /\ Tail(t) \in Seq(S) /\ h \in Seq(S)
  BY HeadTailProperties
<1>2. h \o Tail(t) = t
  <2>1. Len(t) \in Nat \ {0}
    BY EmptySeq, LenProperties
  <2>2. SubSeq(t, 1, Len(t)) = <<t[1]>> \o SubSeq(t, 1 + 1, Len(t))
    <3>1. 1 \in 1..Len(t) /\ Len(t) \in 1..Len(t)
      BY <2>1
    <3> QED BY <3>1, SubSeqRecursiveFirst
  <2>3. SubSeq(t, 1, Len(t)) = t /\ Tail(t) = SubSeq(t, 2, Len(t)) /\ 1 + 1 = 2
    BY SubSeqFull, TailIsSubSeq
  <2> QED BY <1>1, <2>2, <2>3
<1> HIDE DEF h
<1>3. Append(s, Head(t)) = s \o h
  BY <1>1, AppendIsConcat DEF h
<1>4. (s \o h) \o Tail(t) = s \o (h \o Tail(t))
  BY <1>1, ConcatAssociative
<1> QED BY <1>2, <1>3, <1>4
=============================================================================
