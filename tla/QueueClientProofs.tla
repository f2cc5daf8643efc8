-------------------------- MODULE QueueClientProofs --------------------------
(* Two that use a TSQueue.  Of QueueSystem, for any set of producers and     *)
(* consumers: the types, and that its consumers never all sleep beside an    *)
(* item.  Of LogViewer, for any length of the log: what it shows and what    *)
(* Ctrl+C copies, as update() and the frames interleave.                     *)
EXTENDS QueueSystem, LogViewer, SequenceTheorems, TLAPS

LQ == INSTANCE TSQueueProofs

\* Thread t executes one of the critical sections of TSQueue.
QueueStep(t) == \E c \in Threads : \E item, result : LQ!Operation(c, t, item, FALSE, result)

\* What a producer does to the queue is one of its operations.
LEMMA ProducerStep ==
    ASSUME TypeOK, NEW p \in Producers, Push(p) \/ Clear(p) \/ Notify(p)
    PROVE  QueueStep(p)
<1>0. p \in Threads
  BY DEF Threads
<1>1. CASE Push(p)
  <2>1. pushed + 1 \in Items
    BY <1>1, ThreadsAssumption DEF Push, TypeOK, Items
  <2>2. LQ!PushBack(p, pushed + 1) \/ LQ!PushFront(p, pushed + 1)
    BY <1>1 DEF Push, Q!PushBack, Q!PushFront, Q!Section, LQ!PushBack, LQ!PushFront,
                LQ!Section
  <2>3. LQ!Operation(p, p, pushed + 1, FALSE, FALSE)
    BY <2>1, <2>2 DEF LQ!Operation
  <2> QED BY <1>0, <2>3 DEF QueueStep
<1>2. CASE Clear(p) \/ Notify(p)
  <2>1. LQ!Clear(p) \/ LQ!NotifyOne(p)
    BY <1>2 DEF Clear, Notify, Q!Clear, Q!NotifyOne, Q!Section, Q!Goto, LQ!Clear,
                LQ!NotifyOne, LQ!Section, LQ!Goto
  <2>2. LQ!Operation(p, p, pushed, FALSE, FALSE)
    BY <2>1 DEF LQ!Operation
  <2> QED BY <1>0, <2>2 DEF QueueStep
<1> QED BY <1>1, <1>2

\* What a consumer does leaves the queue alone or is one of its operations.
LEMMA ConsumerStep ==
    ASSUME NEW c \in Consumers, Consumer(c) \/ Expire(c) \/ SpuriousWakeup(c)
    PROVE  QueueStep(c) \/ UNCHANGED queue
<1>0. c \in Threads
  BY DEF Threads
<1>1. CASE Take(c) /\ (Q!PopFront(c) \/ Q!PopBack(c))
  <2>1. LQ!PopFront(c) \/ LQ!PopBack(c)
    BY <1>1 DEF Q!PopFront, Q!PopBack, Q!Section, LQ!PopFront, LQ!PopBack, LQ!Section
  <2>2. LQ!Operation(c, c, pushed, FALSE, FALSE)
    BY <2>1 DEF LQ!Operation
  <2> QED BY <1>0, <2>2 DEF QueueStep
<1>2. CASE UNCHANGED queue
  BY <1>2
<1>3. CASE Wait(c) \/ WaitFor(c) \/ Expire(c) \/ SpuriousWakeup(c)
  <2>1. \E result \in BOOLEAN : \/ LQ!WaitReturns(c, FALSE) \/ LQ!WaitBlocks(c, FALSE)
                                \/ LQ!WaitForReturns(c, result) \/ LQ!Expire(c)
                                \/ LQ!SpuriousWakeup(c)
    BY <1>3 DEF Wait, WaitFor, Expire, SpuriousWakeup, Q!WaitReturns, Q!WaitBlocks,
                Q!WaitForReturns, Q!Expire, Q!SpuriousWakeup, Q!Ready, Q!Goto,
                LQ!WaitReturns, LQ!WaitBlocks, LQ!WaitForReturns, LQ!Expire,
                LQ!SpuriousWakeup, LQ!Ready, LQ!Goto
  <2>2. PICK result \in BOOLEAN : LQ!Operation(c, c, pushed, FALSE, result)
    BY <2>1 DEF LQ!Operation
  <2> QED BY <1>0, <2>2 DEF QueueStep
<1> QED BY <1>1, <1>2, <1>3 DEF Consumer, Take, Peek, Q!Front, Q!Back, Q!Read

\* The queue's type is Q's, or LQ's: the same formula.
LEMMA QueueTyped ==
    ASSUME TypeOK, [Next]_vars
    PROVE  Q!TypeOK'
<1>1. LQ!TypeOK
  BY DEF TypeOK, Q!TypeOK, LQ!TypeOK, Q!CvState, LQ!CvState
<1>2. UNCHANGED queue \/ \E t \in Threads : QueueStep(t)
  BY ProducerStep, ConsumerStep DEF Next, vars, Threads
<1>3. ASSUME NEW t \in Threads, QueueStep(t)
      PROVE  LQ!TypeOK'
  BY <1>1, <1>3, LQ!OperationType DEF QueueStep
<1>4. LQ!TypeOK'
  BY <1>1, <1>2, <1>3 DEF LQ!TypeOK
<1> QED BY <1>4 DEF Q!TypeOK, LQ!TypeOK, Q!CvState, LQ!CvState

\* The types are preserved by every step.
LEMMA TypeStep ==
    ASSUME TypeOK, [Next]_vars
    PROVE  TypeOK'
<1> USE ThreadsAssumption
<1>1. Q!TypeOK'
  BY QueueTyped
<1>2. queue.deq \in Seq(Items)
  BY DEF TypeOK, Q!TypeOK
<1>3. ASSUME NEW p \in Producers, Push(p) \/ Clear(p) \/ Notify(p)
      PROVE  TypeOK'
  <2>1. pushed' \in 0..MaxItems
    BY <1>3 DEF TypeOK, Push, Clear, Notify
  <2>2. cleared' \in SUBSET Items
    <3>1. {queue.deq[i] : i \in 1..Len(queue.deq)} \subseteq Items
      BY <1>2, ElementOfSeq
    <3> QED BY <1>3, <3>1 DEF TypeOK, Push, Clear, Notify
  <2> QED BY <1>1, <1>3, <2>1, <2>2 DEF TypeOK, Push, Clear, Notify
<1>4. ASSUME NEW c \in Consumers, Take(c) \/ Peek(c)
      PROVE  TypeOK'
  <2>1. ASSUME queue.deq # <<>>
        PROVE  Head(queue.deq) \in Items /\ queue.deq[Len(queue.deq)] \in Items
    BY <1>2, <2>1, HeadTailProperties, LenProperties, ElementOfSeq, EmptySeq
  <2>2. \/ taken' = taken
        \/ \E item \in Items : taken' = Append(taken, item)
    BY <1>4, <2>1 DEF Take, Peek, Q!PopFront, Q!PopBack
  <2>3. taken' \in Seq(Items)
    BY <2>2, AppendProperties DEF TypeOK
  <2>4. CASE Take(c)
    BY <1>1, <2>3, <2>4 DEF TypeOK, Take
  <2>5. CASE Peek(c)
    BY <1>1, <2>1, <2>3, <2>5 DEF TypeOK, Peek, Q!Front, Q!Back
  <2> QED BY <1>4, <2>4, <2>5
<1>5. ASSUME NEW c \in Consumers, Wait(c) \/ WaitFor(c) \/ Expire(c) \/ SpuriousWakeup(c)
      PROVE  TypeOK'
  BY <1>1, <1>5 DEF TypeOK, Wait, WaitFor, Expire, SpuriousWakeup
<1>6. CASE UNCHANGED vars
  BY <1>1, <1>6 DEF TypeOK, vars
<1> QED BY <1>3, <1>4, <1>5, <1>6 DEF Next, Consumer

\* The queue and the counts of its users are of their types in every state, whatever
\* the threads push, pop and clear.
THEOREM TypeCorrect == Spec => []TypeOK
<1>1. Init => TypeOK
  BY ThreadsAssumption, EmptySeq DEF Init, TypeOK, Q!Init, Q!TypeOK, Q!CvState
<1> QED BY <1>1, TypeStep, PTL DEF Spec

-----------------------------------------------------------------------------
\* Who sleeps is a consumer, who notifies a producer.
Roles ==
    /\ \A p \in Producers : queue.cv[p] \in {"out", "notify"}
    /\ \A c \in Consumers : queue.cv[c] # "notify"
AwakeInv == TypeOK /\ Roles /\ NotAllAsleep

\* A producer's step leaves a notification to come, an empty queue, or a consumer
\* that does not sleep.
LEMMA ProducerKeepsAwake ==
    ASSUME AwakeInv, NEW p \in Producers, Push(p) \/ Clear(p) \/ Notify(p)
    PROVE  (Roles /\ NotAllAsleep)'
<1> USE ThreadsAssumption DEF AwakeInv, TypeOK, Q!TypeOK, Q!CvState, Threads
<1>1. ASSUME NEW d, Q!Section(p, d, "notify")
      PROVE  (Roles /\ NotAllAsleep)'
  BY <1>1 DEF Q!Section, Roles, NotAllAsleep
<1>2. CASE Notify(p) /\ (\A w \in Threads : queue.cv[w] # "asleep") /\ Q!Goto(p, "out")
  BY <1>2 DEF Q!Goto, Roles, NotAllAsleep
<1>3. ASSUME NEW w \in Threads, queue.cv[w] = "asleep",
             queue' = [queue EXCEPT !.cv[p] = "out", !.cv[w] = "awake"]
      PROVE  (Roles /\ NotAllAsleep)'
  <2>1. w \in Consumers
    BY <1>3 DEF Roles
  <2> QED BY <1>3, <2>1 DEF Roles, NotAllAsleep
<1> QED BY <1>1, <1>2, <1>3 DEF Push, Clear, Notify, Q!PushBack, Q!PushFront, Q!Clear,
                                Q!NotifyOne

\* A consumer that moves is awake afterwards, or sleeps beside an empty queue.
LEMMA ConsumerKeepsAwake ==
    ASSUME AwakeInv, NEW c \in Consumers, Consumer(c) \/ Expire(c) \/ SpuriousWakeup(c)
    PROVE  (Roles /\ NotAllAsleep)'
<1> USE ThreadsAssumption DEF AwakeInv, TypeOK, Q!TypeOK, Q!CvState, Threads
<1>1. ASSUME NEW s \in {"out", "awake", "expired"}, Q!Goto(c, s)
      PROVE  (Roles /\ NotAllAsleep)'
  BY <1>1 DEF Q!Goto, Roles, NotAllAsleep
<1>2. CASE Q!WaitBlocks(c, FALSE)
  BY <1>2 DEF Q!WaitBlocks, Q!Ready, Q!Goto, Roles, NotAllAsleep
<1>3. ASSUME NEW d, Q!Section(c, d, "out")
      PROVE  (Roles /\ NotAllAsleep)'
  BY <1>3 DEF Q!Section, Roles, NotAllAsleep
<1>4. CASE UNCHANGED queue
  BY <1>4 DEF Roles, NotAllAsleep
<1> QED BY <1>1, <1>2, <1>3, <1>4
        DEF Consumer, Wait, WaitFor, Peek, Take, Q!Front, Q!Back, Q!Read, Expire,
            SpuriousWakeup, Q!WaitReturns, Q!WaitForReturns, Q!Expire, Q!SpuriousWakeup,
            Q!PopFront, Q!PopBack

\* One notify_one() per push is enough for any number of consumers, whether they wait
\* with a timeout or without, and although each takes one item per wakeup.
THEOREM SomeConsumerAwake == Spec => []NotAllAsleep
<1>1. Init => AwakeInv
  BY ThreadsAssumption, EmptySeq
     DEF Init, AwakeInv, TypeOK, Roles, NotAllAsleep, Q!Init, Q!TypeOK, Q!CvState, Threads
<1>2. AwakeInv /\ [Next]_vars => AwakeInv'
  <2> SUFFICES ASSUME AwakeInv, [Next]_vars PROVE AwakeInv'
    OBVIOUS
  <2>1. TypeOK'
    BY TypeStep DEF AwakeInv
  <2>2. CASE UNCHANGED vars
    BY <2>1, <2>2 DEF AwakeInv, Roles, NotAllAsleep, vars
  <2> QED BY <2>1, <2>2, ProducerKeepsAwake, ConsumerKeepsAwake DEF Next, AwakeInv
<1>3. AwakeInv => NotAllAsleep
  BY DEF AwakeInv
<1> QED BY <1>1, <1>2, <1>3, PTL DEF Spec

-----------------------------------------------------------------------------
(* LogViewer.                                                               *)

\* update() leaves one line too many for as long as it has not counted.
LogInv ==
    LET n == Len(lines.deq) IN
    /\ Log!TypeOK
    /\ receiver \in {"idle", "notify", "count", "drop"} /\ received \in 0..MaxLines
    /\ \A i \in 1..n : lines.deq[i] = received - n + i
    /\ n <= c_size + 1
    /\ n >= IF received < c_size THEN received ELSE c_size
    /\ receiver = "idle" => n <= c_size
    /\ receiver = "drop" => n = c_size + 1

\* The selection is of rows that the log had, and what was copied is a run of lines.
SelectionInv ==
    /\ selection \in [anchor : -1..c_size, cursor : -1..c_size]
    /\ isDragging \in BOOLEAN
    /\ clicked \in Line \cup {0} /\ clipboard \in Seq(Line)

\* The receiver's part: a line more at the end, a line less at the front.
LEMMA ReceiverStep ==
    ASSUME LogInv, Receiver
    PROVE  LogInv'
<1> DEFINE deq == lines.deq
           n == Len(deq)
<1>1. /\ deq \in Seq(Line) /\ n \in Nat /\ c_size \in Nat \ {0} /\ MaxLines \in Nat
      /\ lines.cv \in [{"receiver"} -> Log!CvState]
      /\ received \in Nat
  BY LenProperties, ViewerAssumption DEF LogInv, Log!TypeOK
<1>2. CASE Update
  <2> DEFINE line == received + 1
  <2>1. /\ receiver = "idle" /\ receiver' = "notify" /\ received' = line
        /\ received < MaxLines
        /\ lines' = [lines EXCEPT !.deq = Append(deq, line), !.cv["receiver"] = "notify"]
    BY <1>2 DEF Update, Log!PushBack, Log!Section
  <2>2. line \in Line /\ line \in 0..MaxLines
    BY <1>1, <2>1 DEF Line
  <2>3. /\ lines'.deq = Append(deq, line)
        /\ Log!TypeOK'
    <3>1. Append(deq, line) \in Seq(Line)
      BY <1>1, <2>2, AppendProperties
    <3> QED BY <2>1, <3>1 DEF LogInv, Log!TypeOK, Log!CvState
  <2>4. /\ Len(lines'.deq) = n + 1 /\ lines'.deq[n + 1] = line
        /\ \A i \in 1..n : lines'.deq[i] = deq[i]
    BY <1>1, <2>2, <2>3, AppendProperties
  <2>5. \A i \in 1..n + 1 : lines'.deq[i] = received' - (n + 1) + i
    <3>1. \A i \in 1..n : lines'.deq[i] = received - n + i
      BY <2>4 DEF LogInv
    <3>2. /\ n \in Nat /\ received \in Nat /\ received' = received + 1
          /\ lines'.deq[n + 1] = received + 1
      BY <1>1, <2>1, <2>4
    <3> HIDE DEF deq, n
    <3>3. SUFFICES ASSUME NEW i \in 1..n + 1
                   PROVE  lines'.deq[i] = received' - (n + 1) + i
      OBVIOUS
    <3>4. CASE i = n + 1
      BY <3>2, <3>4
    <3>5. CASE i # n + 1
      <4>1. i \in 1..n
        BY <3>2, <3>5
      <4> QED BY <3>1, <3>2, <4>1
    <3> QED BY <3>4, <3>5
  <2>6. n <= c_size /\ n >= IF received < c_size THEN received ELSE c_size
    BY <2>1 DEF LogInv
  <2>7. n + 1 <= c_size + 1 /\ n + 1 >= IF received' < c_size THEN received' ELSE c_size
    BY <1>1, <2>1, <2>6
  <2> HIDE DEF deq, n
  <2> QED BY <2>1, <2>2, <2>3, <2>4, <2>5, <2>7 DEF LogInv
<1>3. CASE NotifyUpdate
  <2>1. /\ receiver' = "count" /\ received' = received /\ lines'.deq = deq
        /\ receiver = "notify" /\ Log!TypeOK'
    BY <1>1, <1>3
       DEF NotifyUpdate, Log!NotifyOne, Log!Goto, LogInv, Log!TypeOK,
           Log!CvState
  <2> QED BY <2>1 DEF LogInv
<1>4. CASE Count
  <2>1. /\ receiver' = (IF n > c_size THEN "drop" ELSE "idle")
        /\ received' = received /\ lines' = lines
    BY <1>4 DEF Count, TooMany
  <2>2. /\ receiver' = "idle" => n <= c_size
        /\ receiver' = "drop" => n = c_size + 1
    BY <1>1, <2>1 DEF LogInv
  <2>3. Log!TypeOK'
    BY <2>1 DEF LogInv, Log!TypeOK
  <2> QED BY <2>1, <2>2, <2>3 DEF LogInv
<1>5. CASE DropOldest
  <2>1. /\ receiver = "drop" /\ receiver' = "count" /\ received' = received
        /\ deq # <<>>
        /\ lines' = [lines EXCEPT !.deq = Tail(deq), !.cv["receiver"] = "out"]
    BY <1>5 DEF DropOldest, Log!PopFront, Log!Section
  <2>2. /\ lines'.deq = Tail(deq) /\ Log!TypeOK'
    <3>1. Tail(deq) \in Seq(Line)
      BY <1>1, <2>1, HeadTailProperties
    <3> QED BY <2>1, <3>1 DEF LogInv, Log!TypeOK, Log!CvState
  <2>3. /\ Len(lines'.deq) = n - 1 /\ n = c_size + 1
        /\ \A i \in 1..n - 1 : lines'.deq[i] = deq[i + 1]
    BY <1>1, <2>1, <2>2, HeadTailProperties DEF LogInv
  <2>4. \A i \in 1..n - 1 : lines'.deq[i] = received' - (n - 1) + i
    <3>1. \A i \in 1..n - 1 : i + 1 \in 1..n
      BY <1>1
    <3>2. \A i \in 1..n - 1 : lines'.deq[i] = received - n + (i + 1)
      BY <2>3, <3>1 DEF LogInv
    <3> QED BY <1>1, <2>1, <3>2
  <2>5. n - 1 = c_size
    BY <1>1, <2>3
  <2>6. c_size <= c_size + 1 /\ c_size >= IF received' < c_size THEN received' ELSE c_size
    BY <1>1, <2>1
  <2> HIDE DEF deq, n
  <2> QED BY <2>1, <2>2, <2>3, <2>4, <2>5, <2>6 DEF LogInv
<1> QED BY <1>2, <1>3, <1>4, <1>5 DEF Receiver

\* A frame holds the lock and only reads the log.
LEMMA FrameReads == Frame => UNCHANGED <<lines, receiver, received>>
  BY DEF Frame, Click, Drag, Idle, EndFrame

\* A selection of rows that the log has.
InLog(s) == s.anchor \in {-1} \cup Row /\ s.cursor \in {-1} \cup Row

\* A run of a sequence.
LEMMA RunProperties ==
    ASSUME NEW T, NEW h \in Seq(T), NEW m \in Nat, NEW n \in Nat, m <= n, n < Len(h)
    PROVE  /\ SubSeq(h, m + 1, n + 1) \in Seq(T)
           /\ Len(SubSeq(h, m + 1, n + 1)) = n - m + 1
           /\ \A i \in 1..n - m + 1 : SubSeq(h, m + 1, n + 1)[i] = h[m + i]
<1>1. Len(h) \in Nat /\ \A i \in m + 1 .. n + 1 : h[i] \in T
  BY LenProperties, ElementOfSeq
<1>2. m + 1 \in Int /\ n + 1 \in Int
  OBVIOUS
<1>3. /\ SubSeq(h, m + 1, n + 1) \in Seq(T)
      /\ Len(SubSeq(h, m + 1, n + 1))
            = IF m + 1 <= n + 1 THEN n + 1 - (m + 1) + 1 ELSE 0
      /\ \A i \in 1..n + 1 - (m + 1) + 1 : SubSeq(h, m + 1, n + 1)[i] = h[m + 1 + i - 1]
  BY <1>1, <1>2, SubSeqProperties
<1> DEFINE run == SubSeq(h, m + 1, n + 1)
<1> HIDE DEF run
<1>4. n + 1 - (m + 1) + 1 = n - m + 1 /\ m + 1 <= n + 1
  OBVIOUS
<1>5. \A i \in 1..n - m + 1 : m + 1 + i - 1 = m + i
  OBVIOUS
<1>6. run \in Seq(T) /\ Len(run) = n - m + 1 /\ \A i \in 1..n - m + 1 : run[i] = h[m + i]
  BY <1>3, <1>4, <1>5 DEF run
<1> QED BY <1>6 DEF run

\* What it covers is not empty, and those are the lines that are copied.
LEMMA CopiedRows ==
    ASSUME LogInv, NEW s, InLog(s), s.anchor >= 0, s.cursor >= 0
    PROVE  /\ Copied(s) \in Seq(Line)
           /\ Covered(s) # {}
           /\ {Copied(s)[i] : i \in 1..Len(Copied(s))} = {At(row) : row \in Covered(s)}
<1> DEFINE low == Low(s)
           high == High(s)
           deq == lines.deq
<1>1. Len(deq) \in Nat /\ \A i \in 1..Len(deq) : deq[i] \in Line
  BY LenProperties, ElementOfSeq DEF LogInv, Log!TypeOK
<1>2. low \in Row /\ high \in Row /\ low <= high
  BY <1>1 DEF InLog, Low, High, Row
<1>3. high < Len(deq)
  BY <1>1, <1>2 DEF Row
<1>5. Covered(s) = low..high
  BY <1>1, <1>2 DEF Covered, Row
<1> HIDE DEF low, high
<1>4. /\ low \in Nat /\ high \in Nat /\ low <= high
      /\ \A i \in low + 1 .. high + 1 : i \in 1..Len(deq)
  BY <1>1, <1>2 DEF Row
<1>6. /\ Copied(s) \in Seq(Line)
      /\ Len(Copied(s)) = high - low + 1
      /\ \A i \in 1..high - low + 1 : Copied(s)[i] = deq[low + i]
  <2>1. Copied(s) = SubSeq(deq, low + 1, high + 1)
    BY <1>3 DEF Copied, low, high
  <2>2. deq \in Seq(Line)
    BY DEF LogInv, Log!TypeOK
  <2> HIDE DEF deq
  <2> QED BY <1>3, <1>4, <2>1, <2>2, RunProperties
<1>7. \A i \in 1..Len(Copied(s)) : low + i - 1 \in low..high
                                   /\ Copied(s)[i] = At(low + i - 1)
  BY <1>1, <1>2, <1>6 DEF At, Row
<1>8. \A row \in low..high : row - low + 1 \in 1..Len(Copied(s))
                             /\ Copied(s)[row - low + 1] = At(row)
  BY <1>1, <1>2, <1>6 DEF At, Row
<1>9. Covered(s) # {}
  <2>1. low \in low..high
    BY <1>4
  <2> QED BY <1>5, <2>1
<1> QED BY <1>5, <1>6, <1>7, <1>8, <1>9

\* Whatever is done in a frame, the selection that it leaves fits the log, and what it
\* copies is that selection.
LEMMA FrameStep ==
    ASSUME LogInv, SelectionInv, Frame
    PROVE  /\ InLog(selection')
           /\ selection' \in [anchor : -1..c_size, cursor : -1..c_size]
           /\ isDragging' \in BOOLEAN /\ clicked' \in Line \cup {0}
           /\ \/ clipboard' = clipboard
              \/ /\ selection'.anchor >= 0 /\ selection'.cursor >= 0
                 /\ clipboard' = Copied(selection')
<1>1. /\ Len(lines.deq) \in Nat /\ \A i \in 1..Len(lines.deq) : lines.deq[i] \in Line
      /\ Len(lines.deq) <= c_size + 1 /\ c_size \in Nat
  BY LenProperties, ElementOfSeq, ViewerAssumption DEF LogInv, Log!TypeOK
<1>2. Fitting \in [anchor : {-1} \cup Row, cursor : {-1} \cup Row]
  <2>1. -1 < Len(lines.deq) /\ selection.anchor \in -1..c_size
        /\ selection.cursor \in -1..c_size
    BY <1>1 DEF SelectionInv
  <2> QED BY <1>1, <2>1 DEF Fitting, None, Row, SelectionInv
<1>3. \A s \in [anchor : {-1} \cup Row, cursor : {-1} \cup Row] :
         InLog(s) /\ s \in [anchor : -1..c_size, cursor : -1..c_size]
  BY <1>1 DEF InLog, Row
<1>4. ASSUME NEW s \in [anchor : {-1} \cup Row, cursor : {-1} \cup Row],
             NEW dragging \in BOOLEAN, NEW released \in BOOLEAN, NEW copy \in BOOLEAN,
             EndFrame(s, dragging, released, copy), clicked' \in Line \cup {0}
      PROVE  /\ InLog(selection')
             /\ selection' \in [anchor : -1..c_size, cursor : -1..c_size]
             /\ isDragging' \in BOOLEAN /\ clicked' \in Line \cup {0}
             /\ \/ clipboard' = clipboard
                \/ /\ selection'.anchor >= 0 /\ selection'.cursor >= 0
                   /\ clipboard' = Copied(selection')
  BY <1>3, <1>4 DEF EndFrame
<1>5. ASSUME NEW row \in Row, NEW shift \in BOOLEAN, NEW copy \in BOOLEAN,
             Click(row, shift, copy)
      PROVE  /\ [anchor |-> IF shift THEN Fitting.anchor ELSE row, cursor |-> row]
                   \in [anchor : {-1} \cup Row, cursor : {-1} \cup Row]
             /\ clicked' \in Line \cup {0}
  BY <1>1, <1>2, <1>5 DEF Click, At, Row, SelectionInv
<1>6. ASSUME NEW row \in Row
      PROVE  [Fitting EXCEPT !.cursor = row]
                \in [anchor : {-1} \cup Row, cursor : {-1} \cup Row]
  BY <1>2
<1>7. CASE \E row \in Row, shift, copy \in BOOLEAN : Click(row, shift, copy)
  BY <1>4, <1>5, <1>7 DEF Click
<1>8. CASE \E row \in Row, copy \in BOOLEAN : Drag(row, copy)
  BY <1>4, <1>6, <1>8 DEF Drag, SelectionInv
<1>9. CASE \E released, copy \in BOOLEAN : Idle(released, copy)
  BY <1>2, <1>4, <1>9 DEF Idle, SelectionInv
<1> QED BY <1>7, <1>8, <1>9 DEF Frame

\* The viewer begins with an empty log.
LEMMA LogStart == LogInit => LogInv /\ SelectionInv
<1> SUFFICES ASSUME LogInit PROVE LogInv /\ SelectionInv
  OBVIOUS
<1>1. lines.deq = <<>> /\ Len(lines.deq) = 0 /\ received = 0 /\ receiver = "idle"
  BY DEF LogInit, Log!Init
<1>2. Log!TypeOK /\ <<>> \in Seq(Line)
  BY EmptySeq DEF LogInit, Log!Init, Log!TypeOK, Log!CvState
<1>3. LogInv
  BY <1>1, <1>2, ViewerAssumption DEF LogInv
<1>4. -1 \in -1..c_size
  BY ViewerAssumption
<1>5. SelectionInv
  BY <1>2, <1>4 DEF SelectionInv, LogInit, None
<1> QED BY <1>3, <1>5

\* LogInv is the receiver's, and SelectionInv the frames': together they are inductive.
LEMMA LogInvariant == LogSpec => [](LogInv /\ SelectionInv)
<1>1. LogInv /\ SelectionInv /\ [LogNext]_logVars => (LogInv /\ SelectionInv)'
  <2> SUFFICES ASSUME LogInv, SelectionInv, [LogNext]_logVars
               PROVE  LogInv' /\ SelectionInv'
    OBVIOUS
  <2>1. CASE Receiver
    <3>1. UNCHANGED selected
      BY <2>1 DEF Receiver, Update, NotifyUpdate, Count, DropOldest
    <3> QED BY <2>1, <3>1, ReceiverStep DEF selected, SelectionInv
  <2>2. CASE Frame
    <3>1. LogInv'
      BY <2>2, FrameReads DEF LogInv, Log!TypeOK
    <3>2. clipboard' \in Seq(Line)
      BY <2>2, FrameStep, CopiedRows DEF SelectionInv
    <3> QED BY <2>2, <3>1, <3>2, FrameStep DEF SelectionInv
  <2>3. CASE UNCHANGED logVars
    BY <2>3 DEF logVars, selected, LogInv, SelectionInv, Log!TypeOK
  <2> QED BY <2>1, <2>2, <2>3 DEF LogNext
<1> QED BY <1>1, LogStart, PTL DEF LogSpec

\* The variables of the log and of the selection keep their types, for any c_size.
THEOREM LogTypes == LogSpec => []LogTypeOK
<1>1. LogInv /\ SelectionInv => LogTypeOK
  BY DEF LogInv, SelectionInv, LogTypeOK
<1> QED BY <1>1, LogInvariant, PTL

\* The log shows the newest lines without a gap, all of them up to c_size and never
\* more than one above it, wherever update() is when a frame takes the lock.
THEOREM LogShowsLatest == LogSpec => []LogIsLatest
<1>1. LogInv => LogIsLatest
  <2> SUFFICES ASSUME LogInv PROVE LogIsLatest
    OBVIOUS
  <2>1. lines.deq = [i \in 1..Len(lines.deq) |-> received - Len(lines.deq) + i]
    BY LenProperties DEF LogInv, Log!TypeOK
  <2> QED BY <2>1 DEF LogInv, LogIsLatest
<1> QED BY <1>1, LogInvariant, PTL

\* However the log has moved since the rows were clicked, Ctrl+C copies the lines that
\* the selection covers in the frame that copies, and nothing when it covers none.
THEOREM CtrlCCopiesHighlight == LogSpec => CopyIsHighlight
<1>1. LogInv /\ SelectionInv /\ [LogNext]_logVars
         => [clipboard' # clipboard =>
                /\ Covered(selection)' # {}
                /\ {clipboard'[i] : i \in 1..Len(clipboard')}
                      = {At(row) : row \in Covered(selection)'}]_logVars
  <2> SUFFICES ASSUME LogInv, SelectionInv, LogNext, clipboard' # clipboard
               PROVE  /\ Covered(selection)' # {}
                      /\ {clipboard'[i] : i \in 1..Len(clipboard')}
                            = {At(row) : row \in Covered(selection)'}
    OBVIOUS
  <2>1. Frame
    BY DEF LogNext, Receiver, Update, NotifyUpdate, Count, DropOldest, selected
  <2>2. lines' = lines
    BY <2>1, FrameReads
  <2>3. Covered(selection)' = Covered(selection')
    BY <2>2 DEF Covered, Row, Low, High
  <2>4. /\ InLog(selection') /\ selection'.anchor >= 0 /\ selection'.cursor >= 0
        /\ clipboard' = Copied(selection')
    BY <2>1, FrameStep
  <2> QED BY <2>3, <2>4, CopiedRows
<1> QED BY <1>1, LogInvariant, PTL DEF LogSpec, CopyIsHighlight
=============================================================================
