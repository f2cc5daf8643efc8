----------------------------- MODULE ModelProofs -----------------------------
(* Proofs about Model: its types, and, for any number of messages and of    *)
(* starts and stops of saving, that m_savingThread is never assigned over   *)
(* or destroyed while joinable, that no consumer sleeps beside a message,   *)
(* that the presenter sees every message once and in order, and that the    *)
(* log file neither repeats nor reorders one.                               *)
EXTENDS Model, SequenceTheorems, TLAPS

LQf == INSTANCE TSQueueProofs WITH Items <- Message, queue <- qf
LQs == INSTANCE TSQueueProofs WITH Items <- Message, queue <- qs

\* The actions by what they do to the queues.
QfStep == PushQf \/ WaitQf \/ View
QsStep == PushQs \/ WaitQs \/ Save \/ ClearQs
OtherStep ==
    \/ PushMessage \/ EmptyTest \/ OpenFile \/ CloseFile
    \/ (\E t \in Consumers : LoopTest(t) \/ CallWait(t) \/ CheckStop(t))
    \/ StartSaving \/ SetRunning \/ Launch \/ StopSaving \/ Join \/ Quit
    \/ QuitNotSaving

\* Next by kind of step.
LEMMA StepsOfNext ==
    ASSUME Next
    PROVE  QfStep \/ QsStep \/ OtherStep \/ SpuriousWakeup
  BY DEF Next, Receiver, Saver, QfStep, QsStep, OtherStep, Consumers

PcTyped == pc \in [Threads -> Place] /\ \A t \in Threads : pc[t] \in PcOf(t)

\* A move from a place of t to another keeps every thread where it can be.
LEMMA MoveTyped ==
    ASSUME PcTyped, NEW t \in Threads, NEW from, NEW to \in PcOf(t), Move(t, from, to)
    PROVE  PcTyped'
<1>1. PcOf(t) \subseteq Place
  BY DEF Place
<1> QED BY <1>1 DEF PcTyped, Move

\* What the pump pushes has been counted.
PumpHolds == pc["pump"] # "idle" => pushed >= 1
TypeInv == TypeOK /\ PumpHolds

\* What the pump is about to push is a message.
LEMMA PushedIsMessage ==
    ASSUME TypeInv, pc["pump"] # "idle"
    PROVE  pushed \in Message
  BY BoundsAssumption DEF TypeInv, TypeOK, PumpHolds, Message

\* Every step leaves m_Qf alone or is one operation on it, and only the receiver waits.
LEMMA QfOperation ==
    ASSUME TypeInv, [Next]_vars
    PROVE  \/ UNCHANGED qf
           \/ \E t \in Threads :
                 LQf!Operation("receiver", t, pushed, exit["receiver"], FALSE)
<1> USE DEF Threads, Consumers
<1>1. CASE PushQf
  <2>1. CASE Move("pump", "pushQf", "notifyQf") /\ Qf!PushBack("pump", pushed)
    <3>1. pushed \in Message
      BY PushedIsMessage, <2>1 DEF Move
    <3>2. LQf!PushBack("pump", pushed)
      BY <2>1 DEF Qf!PushBack, Qf!Section, LQf!PushBack, LQf!Section
    <3> QED BY <3>1, <3>2 DEF LQf!Operation
  <2>2. CASE Qf!NotifyOne("pump")
    BY <2>2 DEF Qf!NotifyOne, Qf!Goto, LQf!NotifyOne, LQf!Goto, LQf!Operation
  <2> QED BY <1>1, <2>1, <2>2 DEF PushQf
<1>2. CASE WaitQf
  BY <1>2 DEF WaitQf, Qf!WaitReturns, Qf!WaitBlocks, Qf!Ready, Qf!Goto,
              LQf!Operation, LQf!WaitReturns, LQf!WaitBlocks, LQf!Ready, LQf!Goto
<1>3. CASE View
  BY <1>3 DEF View, Qf!PopFront, Qf!Section, LQf!Operation, LQf!PopFront, LQf!Section
<1>4. CASE QsStep \/ OtherStep
  BY <1>4 DEF QsStep, PushQs, WaitQs, Save, ClearQs, OtherStep, PushMessage, EmptyTest,
              OpenFile, CloseFile, LoopTest, CallWait, CheckStop, StartSaving,
              SetRunning, Launch, StopSaving, Join, Quit, QuitNotSaving
<1>5. CASE SpuriousWakeup
  BY <1>5 DEF SpuriousWakeup, Qf!SpuriousWakeup, Qf!Goto, LQf!Operation,
              LQf!SpuriousWakeup, LQf!Goto
<1>6. CASE UNCHANGED vars
  BY <1>6 DEF vars
<1> QED BY <1>1, <1>2, <1>3, <1>4, <1>5, <1>6, StepsOfNext DEF QfStep

\* The same of m_Qs, where only the saver waits.
LEMMA QsOperation ==
    ASSUME TypeInv, [Next]_vars
    PROVE  \/ UNCHANGED qs
           \/ \E t \in Threads :
                 LQs!Operation("saver", t, pushed, exit["saver"], FALSE)
<1> USE DEF Threads, Consumers
<1>1. CASE PushQs
  <2>1. CASE Move("pump", "pushQs", "notifyQs") /\ Qs!PushBack("pump", pushed)
    <3>1. pushed \in Message
      BY PushedIsMessage, <2>1 DEF Move
    <3>2. LQs!PushBack("pump", pushed)
      BY <2>1 DEF Qs!PushBack, Qs!Section, LQs!PushBack, LQs!Section
    <3> QED BY <3>1, <3>2 DEF LQs!Operation
  <2>2. CASE Qs!NotifyOne("pump")
    BY <2>2 DEF Qs!NotifyOne, Qs!Goto, LQs!NotifyOne, LQs!Goto, LQs!Operation
  <2> QED BY <1>1, <2>1, <2>2 DEF PushQs
<1>2. CASE WaitQs
  BY <1>2 DEF WaitQs, Qs!WaitReturns, Qs!WaitBlocks, Qs!Ready, Qs!Goto,
              LQs!Operation, LQs!WaitReturns, LQs!WaitBlocks, LQs!Ready, LQs!Goto
<1>3. CASE Save
  BY <1>3 DEF Save, Qs!PopFront, Qs!Section, LQs!Operation, LQs!PopFront, LQs!Section
<1>4. CASE ClearQs
  <2>1. CASE Qs!Clear("gui")
    BY <2>1 DEF Qs!Clear, Qs!Section, LQs!Operation, LQs!Clear, LQs!Section
  <2>2. CASE Qs!NotifyOne("gui")
    BY <2>2 DEF Qs!NotifyOne, Qs!Goto, LQs!NotifyOne, LQs!Goto, LQs!Operation
  <2> QED BY <1>4, <2>1, <2>2 DEF ClearQs
<1>5. CASE QfStep \/ OtherStep
  BY <1>5 DEF QfStep, PushQf, WaitQf, View, OtherStep, PushMessage, EmptyTest,
              OpenFile, CloseFile, LoopTest, CallWait, CheckStop, StartSaving,
              SetRunning, Launch, StopSaving, Join, Quit, QuitNotSaving
<1>6. CASE SpuriousWakeup
  BY <1>6 DEF SpuriousWakeup, Qs!SpuriousWakeup, Qs!Goto, LQs!Operation,
              LQs!SpuriousWakeup, LQs!Goto
<1>7. CASE UNCHANGED vars
  BY <1>7 DEF vars
<1> QED BY <1>1, <1>2, <1>3, <1>4, <1>5, <1>6, <1>7, StepsOfNext DEF QsStep

\* Every thread stays where its code has a place.
LEMMA PcStep == ASSUME TypeInv, [Next]_vars PROVE PcTyped'
<1> USE DEF Threads, Consumers
<1>0. PcTyped
  BY DEF TypeInv, TypeOK, PcTyped
<1>1. CASE UNCHANGED pc
  BY <1>0, <1>1 DEF PcTyped, Place
<1>2. CASE PushMessage \/ PushQs \/ PushQf
  BY <1>0, <1>2, MoveTyped DEF PushMessage, PushQs, PushQf, PcOf
<1>3. CASE WaitQf \/ EmptyTest \/ View
  BY <1>0, <1>3, MoveTyped DEF WaitQf, EmptyTest, View, PcOf
<1>4. CASE WaitQs \/ OpenFile \/ Save \/ CloseFile
  BY <1>0, <1>4, MoveTyped DEF WaitQs, OpenFile, Save, CloseFile, PcOf
<1>5. ASSUME NEW t \in Consumers, LoopTest(t) \/ CallWait(t) \/ CheckStop(t)
      PROVE  PcTyped'
  BY <1>0, <1>5, MoveTyped DEF LoopTest, CallWait, CheckStop, AfterLoop, PcOf
<1>6. CASE StartSaving \/ SetRunning \/ StopSaving \/ ClearQs \/ Quit \/ QuitNotSaving
  BY <1>0, <1>6, MoveTyped
     DEF StartSaving, SetRunning, StopSaving, ClearQs, Quit, QuitNotSaving, PcOf
<1>7. CASE Launch
  BY <1>0, <1>7 DEF Launch, PcTyped, Place, PcOf
<1>8. CASE Join
  BY <1>0, <1>8 DEF Join, Returned, PcTyped, Place, PcOf
<1> QED
  BY <1>1, <1>2, <1>3, <1>4, <1>5, <1>6, <1>7, <1>8, StepsOfNext
     DEF QfStep, QsStep, OtherStep, SpuriousWakeup, vars

\* Every step keeps the types, of every variable and of what the pump is about to push.
LEMMA TypeStep == TypeInv /\ [Next]_vars => TypeInv'
<1> SUFFICES ASSUME TypeInv, [Next]_vars PROVE TypeInv'
  OBVIOUS
<1>1. Qf!TypeOK'
  <2>1. LQf!TypeOK
    BY DEF TypeInv, TypeOK, Qf!TypeOK, LQf!TypeOK, Qf!CvState, LQf!CvState
  <2>2. LQf!TypeOK'
    BY <2>1, QfOperation, LQf!OperationType DEF LQf!TypeOK, Threads, Consumers
  <2> QED BY <2>2 DEF Qf!TypeOK, LQf!TypeOK, Qf!CvState, LQf!CvState
<1>2. Qs!TypeOK'
  <2>1. LQs!TypeOK
    BY DEF TypeInv, TypeOK, Qs!TypeOK, LQs!TypeOK, Qs!CvState, LQs!CvState
  <2>2. LQs!TypeOK'
    BY <2>1, QsOperation, LQs!OperationType DEF LQs!TypeOK, Threads, Consumers
  <2> QED BY <2>2 DEF Qs!TypeOK, LQs!TypeOK, Qs!CvState, LQs!CvState
<1>3. PcTyped'
  BY PcStep
<1>4. /\ stopReceiving' \in BOOLEAN /\ stopSaving' \in BOOLEAN
      /\ savingThreadRunning' \in BOOLEAN
  <2>1. CASE UNCHANGED atomics
    BY <2>1 DEF atomics, TypeInv, TypeOK
  <2>2. CASE CloseFile \/ StartSaving \/ SetRunning \/ StopSaving \/ Quit
    BY <2>2 DEF TypeInv, TypeOK, CloseFile, StartSaving, SetRunning, StopSaving, Quit
  <2> QED
    BY <2>1, <2>2, StepsOfNext
       DEF QfStep, QsStep, OtherStep, SpuriousWakeup, PushQf, WaitQf, View, PushQs,
           WaitQs, Save, ClearQs, PushMessage, EmptyTest, OpenFile, LoopTest, CallWait,
           CheckStop, Launch, Join, QuitNotSaving, vars
<1>5. exit' \in [Consumers -> BOOLEAN]
  <2>1. CASE UNCHANGED exit
    BY <2>1 DEF TypeInv, TypeOK
  <2>2. ASSUME NEW t \in Consumers, CallWait(t)
        PROVE  exit' \in [Consumers -> BOOLEAN]
    <3>1. StopFlag(t) \in BOOLEAN
      BY DEF StopFlag, TypeInv, TypeOK
    <3> QED BY <2>2, <3>1 DEF CallWait, TypeInv, TypeOK
  <2> QED
    BY <2>1, <2>2, StepsOfNext
       DEF QfStep, QsStep, OtherStep, SpuriousWakeup, PushQf, WaitQf, View, PushQs,
           WaitQs, Save, ClearQs, PushMessage, EmptyTest, OpenFile, CloseFile, LoopTest,
           CheckStop, StartSaving, SetRunning, Launch, StopSaving, Join, Quit,
           QuitNotSaving, vars
<1>6. /\ pushed' \in 0..MaxMessages /\ saves' \in 0..MaxSaves
      /\ PumpHolds'
  <2> USE BoundsAssumption DEF TypeInv, TypeOK, PumpHolds, Threads, Consumers
  <2>1. CASE PushMessage
    BY <2>1 DEF PushMessage, Move
  <2>2. CASE PushQs \/ PushQf
    BY <2>2 DEF PushQs, PushQf, Move, progress
  <2>3. CASE StartSaving
    BY <2>3 DEF StartSaving, Move
  <2>4. CASE UNCHANGED <<pushed, saves, pc>>
    BY <2>4
  <2>5. CASE /\ UNCHANGED <<pushed, saves>>
             /\ \E t \in Threads \ {"pump"} : \E from, to : Move(t, from, to)
    BY <2>5 DEF Move
  <2>6. CASE Launch \/ Join
    BY <2>6 DEF Launch, Join, progress
  <2> QED
    BY <2>1, <2>2, <2>3, <2>4, <2>5, <2>6, StepsOfNext
       DEF QfStep, QsStep, OtherStep, SpuriousWakeup, WaitQf, View, WaitQs, Save,
           ClearQs, EmptyTest, OpenFile, CloseFile, LoopTest, CallWait, CheckStop,
           SetRunning, StopSaving, Quit, QuitNotSaving, vars, progress
<1>7. viewed' \in Seq(Message) /\ file' \in Seq(Message)
  <2>1. CASE UNCHANGED <<viewed, file>>
    BY <2>1 DEF TypeInv, TypeOK
  <2>2. CASE View
    BY <2>2, AppendProperties, HeadTailProperties
       DEF View, Qf!PopFront, TypeInv, TypeOK, Qf!TypeOK
  <2>3. CASE Save
    <3>1. CASE UNCHANGED <<viewed, file>>
      BY <3>1 DEF TypeInv, TypeOK
    <3>2. CASE qs.deq # <<>> /\ file' = Append(file, Head(qs.deq)) /\ UNCHANGED viewed
      BY <3>2, AppendProperties, HeadTailProperties DEF TypeInv, TypeOK, Qs!TypeOK
    <3> QED BY <2>3, <3>1, <3>2 DEF Save, Qs!PopFront
  <2> QED
    BY <2>1, <2>2, <2>3, StepsOfNext
       DEF QfStep, QsStep, OtherStep, SpuriousWakeup, PushQf, WaitQf, PushQs, WaitQs,
           ClearQs, PushMessage, EmptyTest, OpenFile, CloseFile, LoopTest, CallWait,
           CheckStop, StartSaving, SetRunning, Launch, StopSaving, Join, Quit,
           QuitNotSaving, vars, progress
<1> QED
  BY <1>1, <1>2, <1>3, <1>4, <1>5, <1>6, <1>7 DEF TypeInv, TypeOK, PcTyped

\* The model begins with empty queues and nothing pushed.
LEMMA TypeStart == Init => TypeInv
<1> SUFFICES ASSUME Init PROVE TypeInv
  OBVIOUS
<1>1. Qf!TypeOK /\ Qs!TypeOK
  BY EmptySeq
     DEF Init, Qf!Init, Qs!Init, Qf!TypeOK, Qs!TypeOK, Qf!CvState, Qs!CvState
<1>2. \A t \in Threads : pc[t] \in PcOf(t)
  BY DEF Init, Threads, Consumers, PcOf
<1>3. pc \in [Threads -> Place]
  BY <1>2 DEF Init, Place
<1>4. exit \in [Consumers -> BOOLEAN]
  BY DEF Init
<1>5. pushed \in 0..MaxMessages /\ saves \in 0..MaxSaves
  BY BoundsAssumption DEF Init
<1>6. /\ stopReceiving \in BOOLEAN /\ stopSaving \in BOOLEAN
      /\ savingThreadRunning \in BOOLEAN
      /\ viewed \in Seq(Message) /\ file \in Seq(Message)
  BY EmptySeq DEF Init
<1>7. PumpHolds
  BY DEF Init, PumpHolds, Threads, Consumers
<1> QED BY <1>1, <1>2, <1>3, <1>4, <1>5, <1>6, <1>7 DEF TypeInv, TypeOK

\* TypeInv holds throughout.
LEMMA Typing == Spec => []TypeInv
  BY TypeStart, TypeStep, PTL DEF Spec

\* The model is type correct: each thread is at a place of its own code, the queues hold
\* messages that were pushed, and no flag is anything but a flag.
THEOREM TypeCorrect == Spec => []TypeOK
<1>1. TypeInv => TypeOK
  BY DEF TypeInv
<1> QED BY <1>1, Typing, PTL

-----------------------------------------------------------------------------
(* No consumer sleeps beside a message.                                     *)

WakeInv == LQf!QueueInv("receiver") /\ LQs!QueueInv("saver")

\* Whatever the number of messages, a consumer that sleeps beside a message is about
\* to be notified: wait() and the push methods lose no wakeup.
THEOREM NoSleep == Spec => []NoSleepBesideMessage
<1> USE DEF Threads, Consumers
<1>1. Init => WakeInv
  BY EmptySeq
     DEF Init, WakeInv, Qf!Init, Qs!Init, LQf!QueueInv, LQs!QueueInv, LQf!TypeOK,
         LQs!TypeOK, LQf!CvState, LQs!CvState, LQf!OnlyWaiter, LQs!OnlyWaiter,
         LQf!NoLostWakeup, LQs!NoLostWakeup
<1>2. TypeInv /\ WakeInv /\ [Next]_vars => WakeInv'
  <2> SUFFICES ASSUME TypeInv, WakeInv, [Next]_vars PROVE WakeInv'
    OBVIOUS
  <2>1. LQf!QueueInv("receiver")'
    BY QfOperation, LQf!OperationKeepsWakeup
       DEF WakeInv, LQf!QueueInv, LQf!TypeOK, LQf!OnlyWaiter, LQf!NoLostWakeup
  <2>2. LQs!QueueInv("saver")'
    BY QsOperation, LQs!OperationKeepsWakeup
       DEF WakeInv, LQs!QueueInv, LQs!TypeOK, LQs!OnlyWaiter, LQs!NoLostWakeup
  <2> QED BY <2>1, <2>2 DEF WakeInv
<1>3. WakeInv => NoSleepBesideMessage
  BY DEF WakeInv, NoSleepBesideMessage, LQf!QueueInv, LQs!QueueInv, LQf!NoLostWakeup,
         LQs!NoLostWakeup, Qf!NoLostWakeup, Qs!NoLostWakeup
<1> QED BY <1>1, <1>2, <1>3, Typing, PTL DEF Spec

-----------------------------------------------------------------------------
(* Starting and stopping to save.                                           *)

Stopping == pc["gui"] \in {"clear", "notify", "join"}

\* Where the GUI thread, the saving thread and the two flags can be together.  The
\* flag m_savingThreadRunning may be down over a thread that was not joined only
\* while the GUI thread is about to join it; m_stopSaving keeps it there.
SavingInv ==
    /\ pc["gui"] # "terminated"
    /\ pc["gui"] \in {"setRunning", "launch"} => pc["saver"] = "none" /\ ~stopSaving
    /\ pc["gui"] = "launch" => savingThreadRunning
    /\ pc["gui"] = "exited" => pc["saver"] = "none"
    /\ Stopping => stopSaving
    /\ pc["saver"] = "close" => stopSaving
    /\ ~savingThreadRunning =>
          pc["saver"] = "none" \/ (pc["saver"] = "done" /\ Stopping)
    /\ stopSaving => pc["saver"] \in {"none", "done"} \/ Stopping

\* SavingInv is inductive.
LEMMA SavingStep == TypeInv /\ SavingInv /\ [Next]_vars => SavingInv'
<1> SUFFICES ASSUME TypeInv, SavingInv, [Next]_vars PROVE SavingInv'
  OBVIOUS
<1> USE DEF SavingInv, Stopping
<1>0. pc \in [Threads -> Place]
  BY DEF TypeInv, TypeOK
<1>1. CASE UNCHANGED <<stopSaving, savingThreadRunning, pc>>
  BY <1>1
<1>2. ASSUME NEW t \in {"pump", "receiver"}, NEW from, NEW to, Move(t, from, to),
             UNCHANGED <<stopSaving, savingThreadRunning>>
      PROVE  SavingInv'
  BY <1>0, <1>2 DEF Move, Threads, Consumers
<1>3. ASSUME NEW from, NEW to, Move("saver", from, to),
             from \notin {"none", "done", "close"}, to # "none",
             to = "close" => stopSaving,
             UNCHANGED <<stopSaving, savingThreadRunning>>
      PROVE  SavingInv'
  BY <1>0, <1>3 DEF Move, Threads, Consumers
<1>4. CASE WaitQs \/ OpenFile \/ Save
  BY <1>3, <1>4 DEF WaitQs, OpenFile, Save, atomics
<1>5. ASSUME NEW t \in Consumers, LoopTest(t) \/ CallWait(t) \/ CheckStop(t)
      PROVE  SavingInv'
  BY <1>2, <1>3, <1>5
     DEF LoopTest, CallWait, CheckStop, StopFlag, AfterLoop, Consumers, atomics
<1>6. CASE CloseFile
  BY <1>0, <1>6 DEF CloseFile, Move, Threads, Consumers
<1>7. CASE StartSaving
  BY <1>0, <1>7 DEF StartSaving, isSavingToFile, Move, Threads, Consumers
<1>8. CASE SetRunning
  BY <1>0, <1>8 DEF SetRunning, Move, Threads, Consumers
<1>9. CASE Launch
  BY <1>0, <1>9 DEF Launch, atomics, Threads, Consumers
<1>10. CASE StopSaving \/ Quit \/ QuitNotSaving
  BY <1>0, <1>10 DEF StopSaving, Quit, QuitNotSaving, Move, atomics, Threads, Consumers
<1>11. CASE ClearQs
  BY <1>0, <1>11 DEF ClearQs, Move, atomics, Threads, Consumers
<1>12. CASE Join
  <2>1. /\ pc["gui"] = "join" /\ pc'["gui"] \in {"idle", "exited"}
        /\ pc'["saver"] = "none" /\ UNCHANGED <<stopSaving, savingThreadRunning>>
    BY <1>0, <1>12 DEF Join, Returned, atomics, Threads, Consumers
  <2> QED BY <2>1
<1>13. CASE PushMessage \/ PushQs \/ PushQf \/ WaitQf \/ EmptyTest \/ View
  BY <1>2, <1>13 DEF PushMessage, PushQs, PushQf, WaitQf, EmptyTest, View, atomics
<1> QED
  BY <1>1, <1>4, <1>5, <1>6, <1>7, <1>8, <1>9, <1>10, <1>11, <1>12, <1>13, StepsOfNext
     DEF QfStep, QsStep, OtherStep, SpuriousWakeup, atomics, vars

\* The model begins without a saving thread.
LEMMA SavingStart == Init => SavingInv
<1>1. Init => pc["gui"] = "idle" /\ pc["saver"] = "none"
  BY DEF Init, Threads, Consumers
<1> QED BY <1>1 DEF Init, SavingInv, Stopping

\* SavingInv holds throughout.
LEMMA Saving == Spec => []SavingInv
  BY SavingStart, SavingStep, Typing, PTL DEF Spec

\* Through any number of starts and stops, m_savingThread is never assigned over while
\* joinable, and is joined before the Model is destroyed.
THEOREM NeverTerminates == Spec => []NoTerminate
<1>1. SavingInv => NoTerminate
  BY DEF SavingInv, NoTerminate
<1> QED BY <1>1, Saving, PTL

\* m_savingThreadRunning is up as long as the saving thread has its file open.
THEOREM FlagCoversThread == Spec => []RunningWhileAlive
<1>1. SavingInv => RunningWhileAlive
  BY DEF SavingInv, RunningWhileAlive
<1> QED BY <1>1, Saving, PTL

\* Once the presenter has stopped, the GUI thread does nothing more in the model.
LEMMA ExitStays ==
    ASSUME TypeInv, [Next]_vars, pc["gui"] = "exited"
    PROVE  pc'["gui"] = "exited"
<1>0. pc \in [Threads -> Place]
  BY DEF TypeInv, TypeOK
<1>1. ASSUME NEW t \in Threads, NEW from, NEW to, Move(t, from, to), from # "exited"
      PROVE  pc'["gui"] = "exited"
  BY <1>0, <1>1 DEF Move, Threads
<1>2. CASE UNCHANGED pc
  BY <1>2
<1> QED
  BY <1>1, <1>2, StepsOfNext
     DEF QfStep, QsStep, OtherStep, SpuriousWakeup, PushQf, WaitQf, View, PushQs, WaitQs,
         Save, ClearQs, PushMessage, EmptyTest, OpenFile, CloseFile, LoopTest, CallWait,
         CheckStop, StartSaving, SetRunning, Launch, StopSaving, Join, Quit,
         QuitNotSaving, vars, Threads, Consumers

-----------------------------------------------------------------------------
(* The presenter's view.                                                    *)

\* 1, ..., n is 1, ..., n - 1 followed by n.
LEMMA CountAppend ==
    ASSUME NEW n \in Nat \ {0}
    PROVE  Append([i \in 1..n - 1 |-> i], n) = [i \in 1..n |-> i]
<1> DEFINE short == [i \in 1..n - 1 |-> i]
           long == [i \in 1..n |-> i]
<1>1. short \in Seq(Nat) /\ Len(short) = n - 1
  <2>1. short \in [1..n - 1 -> Nat] /\ n - 1 \in Nat
    OBVIOUS
  <2> QED BY <2>1, SeqDef
<1>2. long \in Seq(Nat) /\ Len(long) = n
  <2>1. long \in [1..n -> Nat]
    OBVIOUS
  <2> QED BY <2>1, SeqDef
<1>3. /\ Append(short, n) \in Seq(Nat) /\ Len(Append(short, n)) = n
      /\ \A i \in 1..n : Append(short, n)[i] = long[i]
  BY <1>1, AppendProperties
<1> HIDE DEF short, long
<1> QED BY <1>2, <1>3, SeqEqual DEF short, long

\* Every step keeps what was viewed and what m_Qf holds in the order of the pushes.
LEMMA FifoStep == TypeInv /\ ViewFifo /\ [Next]_vars => ViewFifo'
<1> SUFFICES ASSUME TypeInv, ViewFifo, [Next]_vars PROVE ViewFifo'
  OBVIOUS
<1>0. /\ pc \in [Threads -> Place] /\ pushed \in Nat
      /\ viewed \in Seq(Message) /\ qf.deq \in Seq(Message)
  BY BoundsAssumption DEF TypeInv, TypeOK, Qf!TypeOK
<1>1. CASE viewed' \o qf'.deq = viewed \o qf.deq /\ Handed' = Handed
  BY <1>1 DEF ViewFifo
<1>2. ASSUME NEW t \in Threads \ {"pump"}, NEW from, NEW to, Move(t, from, to),
             pushed' = pushed
      PROVE  Handed' = Handed
  BY <1>0, <1>2 DEF Move, Handed, Threads, Consumers
<1>3. CASE PushQf
  <2>1. CASE Move("pump", "pushQf", "notifyQf") /\ Qf!PushBack("pump", pushed)
    <3>1. qf'.deq = Append(qf.deq, pushed) /\ viewed' = viewed /\ pushed' = pushed
      BY <2>1, <1>3 DEF PushQf, progress, Qf!PushBack, Qf!Section, TypeInv, TypeOK, Qf!TypeOK
    <3>2. Handed = pushed - 1 /\ Handed' = pushed
      BY <2>1, <3>1, <1>0 DEF Move, Handed, Threads, Consumers
    <3>3. viewed' \o qf'.deq = Append(viewed \o qf.deq, pushed)
      BY <3>1, <1>0, PushedIsMessage, LQf!AppendBehind, <2>1 DEF Move
    <3>4. pushed \in Nat \ {0}
      BY <2>1, PushedIsMessage, <1>0 DEF Move, Message
    <3> QED BY <3>2, <3>3, <3>4, CountAppend DEF ViewFifo
  <2>2. CASE Move("pump", "notifyQf", "idle") /\ Qf!NotifyOne("pump")
    <3>1. qf'.deq = qf.deq /\ viewed' = viewed /\ pushed' = pushed
      BY <2>2, <1>3
         DEF PushQf, progress, Qf!NotifyOne, Qf!Goto, TypeInv, TypeOK, Qf!TypeOK
    <3>2. Handed' = Handed
      BY <2>2, <3>1, <1>0 DEF Move, Handed, Threads, Consumers
    <3> QED BY <3>1, <3>2, <1>1
  <2> QED BY <1>3, <2>1, <2>2 DEF PushQf
<1>4. CASE View
  <2>1. /\ qf.deq # <<>> /\ qf'.deq = Tail(qf.deq)
        /\ viewed' = Append(viewed, Head(qf.deq)) /\ pushed' = pushed
    BY <1>4 DEF View, Qf!PopFront, Qf!Section, TypeInv, TypeOK, Qf!TypeOK
  <2>2. viewed' \o qf'.deq = viewed \o qf.deq
    BY <2>1, <1>0, LQf!HeadToBack
  <2>3. Handed' = Handed
    BY <1>4, <2>1, <1>2 DEF View, Threads, Consumers
  <2> QED BY <2>2, <2>3, <1>1
<1>5. CASE PushMessage
  <2>1. /\ viewed' = viewed /\ qf' = qf /\ pushed' = pushed + 1
        /\ pc["pump"] = "idle" /\ pc'["pump"] \in {"pushQf", "pushQs"}
    BY <1>5, <1>0 DEF PushMessage, Move, Threads, Consumers
  <2> QED BY <2>1, <1>0, <1>1 DEF Handed
<1>6. CASE PushQs
  <2>1. viewed' = viewed /\ qf' = qf /\ pushed' = pushed
    BY <1>6 DEF PushQs, progress
  <2>2. /\ pc["pump"] \in {"pushQs", "notifyQs"}
        /\ pc'["pump"] \in {"notifyQs", "pushQf"}
    BY <1>6, <1>0 DEF PushQs, Move, Threads, Consumers
  <2> QED BY <2>1, <2>2, <1>0, <1>1 DEF Handed
<1>7. CASE WaitQf
  <2>1. qf'.deq = qf.deq /\ viewed' = viewed /\ pushed' = pushed
    BY <1>7 DEF WaitQf, progress, Qf!WaitReturns, Qf!WaitBlocks, Qf!Goto, TypeInv,
                TypeOK, Qf!TypeOK
  <2>2. Handed' = Handed
    BY <1>7, <2>1, <1>2 DEF WaitQf, Threads, Consumers
  <2> QED BY <2>1, <2>2, <1>1
<1>8. CASE SpuriousWakeup
  <2>1. qf'.deq = qf.deq /\ viewed' = viewed /\ pushed' = pushed /\ pc' = pc
    BY <1>8 DEF SpuriousWakeup, progress, Qf!SpuriousWakeup, Qf!Goto, TypeInv, TypeOK,
                Qf!TypeOK
  <2> QED BY <2>1, <1>1 DEF Handed
<1>9. CASE \/ WaitQs \/ Save \/ ClearQs \/ EmptyTest \/ OpenFile \/ CloseFile
           \/ (\E t \in Consumers : LoopTest(t) \/ CallWait(t) \/ CheckStop(t))
           \/ StartSaving \/ SetRunning \/ StopSaving \/ Quit \/ QuitNotSaving
  <2>1. viewed' = viewed /\ qf' = qf /\ pushed' = pushed
    BY <1>9 DEF WaitQs, Save, ClearQs, EmptyTest, OpenFile, CloseFile, LoopTest,
                CallWait, CheckStop, StartSaving, SetRunning, StopSaving, Quit,
                QuitNotSaving, progress
  <2>2. \E t \in Threads \ {"pump"} : \E from, to : Move(t, from, to)
    BY <1>9 DEF WaitQs, Save, ClearQs, EmptyTest, OpenFile, CloseFile, LoopTest,
                CallWait, CheckStop, StartSaving, SetRunning, StopSaving, Quit,
                QuitNotSaving, Threads, Consumers
  <2> QED BY <2>1, <2>2, <1>1, <1>2
<1>10. CASE Launch \/ Join
  <2>1. viewed' = viewed /\ qf' = qf /\ pushed' = pushed /\ pc'["pump"] = pc["pump"]
    BY <1>10, <1>0 DEF Launch, Join, progress, Threads, Consumers
  <2> QED BY <2>1, <1>1 DEF Handed
<1>11. CASE UNCHANGED vars
  BY <1>11, <1>1 DEF vars, progress, Handed
<1> QED
  BY <1>3, <1>4, <1>5, <1>6, <1>7, <1>8, <1>9, <1>10, <1>11, StepsOfNext
     DEF QfStep, QsStep, OtherStep

\* The model begins with nothing viewed and nothing to view.
LEMMA FifoStart == Init => ViewFifo
  BY EmptySeq DEF Init, ViewFifo, Handed, Qf!Init, Threads, Consumers

\* What the presenter has been given grows by one message at a time, the next of m_Qf.
LEMMA ViewSteps ==
    ASSUME TypeInv, [Next]_vars
    PROVE  \/ viewed' = viewed
           \/ qf.deq # <<>> /\ viewed' = Append(viewed, Head(qf.deq))
<1>1. CASE View
  BY <1>1 DEF View, Qf!PopFront
<1>2. CASE UNCHANGED viewed
  BY <1>2
<1> QED
  BY <1>1, <1>2, StepsOfNext
     DEF QfStep, QsStep, OtherStep, SpuriousWakeup, PushQf, WaitQf, PushQs, WaitQs, Save,
         ClearQs, PushMessage, EmptyTest, OpenFile, CloseFile, LoopTest, CallWait,
         CheckStop, StartSaving, SetRunning, Launch, StopSaving, Join, Quit,
         QuitNotSaving, vars, progress

\* The presenter is given exactly the messages pushed, in their order, for every
\* number of messages and whatever is saved meanwhile.
THEOREM ViewerSeesAll == Spec => []ViewFifo
  BY FifoStart, FifoStep, Typing, PTL DEF Spec

-----------------------------------------------------------------------------
(* The log file.                                                            *)

Log == file \o qs.deq

\* The newest message that can be in the log: the one the pump is about to push into
\* m_Qs is not there yet.
Written == IF pc["pump"] = "pushQs" THEN pushed - 1 ELSE pushed

\* What a step can do to m_Qs and the file: push behind m_Qs, clear m_Qs, move its head
\* to the file, or leave both alone, and then the newest message does not get older.
LEMMA SavedEffect ==
    ASSUME TypeInv, [Next]_vars
    PROVE  \/ /\ pc["pump"] = "pushQs" /\ pc'["pump"] = "notifyQs"
              /\ qs'.deq = Append(qs.deq, pushed) /\ file' = file /\ pushed' = pushed
              /\ pc'["gui"] = pc["gui"] /\ stopSaving' = stopSaving
           \/ qs'.deq = <<>> /\ file' = file /\ Written' = Written
           \/ /\ qs.deq # <<>> /\ qs'.deq = Tail(qs.deq)
              /\ file' = Append(file, Head(qs.deq)) /\ Written' = Written
              /\ pc'["gui"] = pc["gui"] /\ pc'["pump"] = pc["pump"]
              /\ stopSaving' = stopSaving
           \/ /\ qs'.deq = qs.deq /\ file' = file /\ Written' >= Written
              /\ pc["gui"] = "clear" => pc'["gui"] = "clear"
              /\ pc'["pump"] = "pushQs" /\ stopSaving => pc["pump"] = "pushQs"
              /\ stopSaving' => stopSaving \/ pc'["gui"] = "clear"
<1>0. /\ pc \in [Threads -> Place] /\ pushed \in Nat /\ qs \in [deq : Seq(Message), cv : [Threads -> Qs!CvState]]
  BY BoundsAssumption DEF TypeInv, TypeOK, Qs!TypeOK
<1> USE DEF Threads, Consumers
<1>1. ASSUME NEW t \in Threads \ {"pump"}, NEW from, NEW to, Move(t, from, to),
             pushed' = pushed
      PROVE  Written' = Written /\ pc'["pump"] = pc["pump"]
  BY <1>0, <1>1 DEF Move, Written
<1>2. ASSUME NEW t \in Threads \ {"gui"}, NEW from, NEW to, Move(t, from, to)
      PROVE  pc'["gui"] = pc["gui"]
  BY <1>0, <1>2 DEF Move
<1>3. CASE PushQs
  <2>1. CASE Move("pump", "pushQs", "notifyQs") /\ Qs!PushBack("pump", pushed)
    BY <2>1, <1>0, <1>3 DEF PushQs, Move, atomics, progress, Qs!PushBack, Qs!Section
  <2>2. CASE Move("pump", "notifyQs", "pushQf") /\ Qs!NotifyOne("pump")
    <3>1. qs'.deq = qs.deq /\ file' = file /\ pushed' = pushed /\ stopSaving' = stopSaving
      BY <2>2, <1>0, <1>3 DEF PushQs, progress, atomics, Qs!NotifyOne, Qs!Goto
    <3>2. pc["pump"] = "notifyQs" /\ pc'["pump"] = "pushQf" /\ pc'["gui"] = pc["gui"]
      BY <2>2, <1>0 DEF Move
    <3> QED BY <3>1, <3>2, <1>0 DEF Written
  <2> QED BY <1>3, <2>1, <2>2 DEF PushQs
<1>4. CASE Save
  <2>1. pushed' = pushed /\ stopSaving' = stopSaving
    BY <1>4 DEF Save, atomics
  <2>2. Written' = Written /\ pc'["gui"] = pc["gui"] /\ pc'["pump"] = pc["pump"]
    BY <1>4, <2>1, <1>1, <1>2 DEF Save
  <2>3. \/ /\ qs.deq # <<>> /\ qs'.deq = Tail(qs.deq)
           /\ file' = Append(file, Head(qs.deq))
        \/ qs' = qs /\ file' = file
    BY <1>4, <1>0 DEF Save, Qs!PopFront, Qs!Section
  <2>4. Written' >= Written
    BY <2>2, <1>0 DEF Written
  <2> QED BY <2>1, <2>2, <2>3, <2>4
<1>5. CASE ClearQs
  <2>1. /\ file' = file /\ pushed' = pushed /\ stopSaving' = stopSaving
        /\ Written' = Written /\ pc'["pump"] = pc["pump"]
    BY <1>5, <1>1 DEF ClearQs, progress, atomics
  <2>2. CASE Qs!Clear("gui")
    BY <2>1, <2>2, <1>0 DEF Qs!Clear, Qs!Section
  <2>3. CASE Move("gui", "notify", "join") /\ Qs!NotifyOne("gui")
    <3>1. qs'.deq = qs.deq
      BY <2>3, <1>0 DEF Qs!NotifyOne, Qs!Goto
    <3> QED BY <2>1, <2>3, <3>1, <1>0 DEF Move, Written
  <2> QED BY <1>5, <2>2, <2>3 DEF ClearQs
<1>6. CASE PushMessage \/ PushQf
  <2>1. /\ qs' = qs /\ file' = file /\ stopSaving' = stopSaving /\ pc'["gui"] = pc["gui"]
    BY <1>6, <1>2 DEF PushMessage, PushQf, progress, atomics
  <2>2. /\ pc["pump"] # "pushQs" /\ pushed' >= pushed
        /\ pc'["pump"] = "pushQs" => pushed' = pushed + 1 /\ ~stopSaving
    BY <1>6, <1>0 DEF PushMessage, PushQf, Move, progress
  <2>3. pushed' \in Nat
    BY <1>6, <1>0 DEF PushMessage, PushQf, progress
  <2>4. Written = pushed
    BY <2>2 DEF Written
  <2>5. Written' >= pushed
    <3>1. CASE pc'["pump"] = "pushQs"
      <4>1. Written' = pushed' - 1 /\ pushed' = pushed + 1
        BY <2>2, <3>1 DEF Written
      <4> QED BY <4>1, <1>0
    <3>2. CASE pc'["pump"] # "pushQs"
      BY <2>2, <3>2 DEF Written
    <3> QED BY <3>1, <3>2
  <2> QED BY <2>1, <2>2, <2>4, <2>5
<1>7. CASE WaitQs
  <2>1. qs'.deq = qs.deq
    BY <1>7, <1>0 DEF WaitQs, Qs!WaitReturns, Qs!WaitBlocks, Qs!Goto
  <2>2. file' = file /\ pushed' = pushed /\ stopSaving' = stopSaving
    BY <1>7 DEF WaitQs, progress, atomics
  <2>3. Written' = Written /\ pc'["gui"] = pc["gui"] /\ pc'["pump"] = pc["pump"]
    BY <1>7, <2>2, <1>1, <1>2 DEF WaitQs
  <2>4. Written' >= Written
    BY <2>3, <1>0 DEF Written
  <2> QED BY <2>1, <2>2, <2>3, <2>4
<1>8. CASE SpuriousWakeup
  <2>1. qs'.deq = qs.deq
    BY <1>8, <1>0 DEF SpuriousWakeup, Qs!SpuriousWakeup, Qs!Goto
  <2> QED BY <1>8, <2>1, <1>0 DEF SpuriousWakeup, progress, atomics, Written
<1>9. CASE \/ WaitQf \/ View \/ EmptyTest \/ OpenFile \/ CloseFile
           \/ (\E t \in Consumers : LoopTest(t) \/ CallWait(t) \/ CheckStop(t))
  <2>1. qs' = qs /\ file' = file /\ pushed' = pushed /\ stopSaving' = stopSaving
    BY <1>9 DEF WaitQf, View, EmptyTest, OpenFile, CloseFile, LoopTest, CallWait,
                CheckStop, progress, atomics
  <2>2. \E t \in Consumers : \E from, to : Move(t, from, to)
    BY <1>9 DEF WaitQf, View, EmptyTest, OpenFile, CloseFile, LoopTest, CallWait,
                CheckStop
  <2>3. Written' = Written /\ pc'["gui"] = pc["gui"] /\ pc'["pump"] = pc["pump"]
    BY <2>1, <2>2, <1>1, <1>2
  <2> QED BY <2>1, <2>3, <1>0 DEF Written
<1>10. CASE StartSaving \/ SetRunning \/ StopSaving \/ Quit \/ QuitNotSaving
  <2>1. /\ qs' = qs /\ file' = file /\ pushed' = pushed
        /\ stopSaving' => stopSaving \/ StopSaving
    BY <1>10 DEF StartSaving, SetRunning, StopSaving, Quit, QuitNotSaving, progress,
                 atomics
  <2>2. pc["gui"] # "clear" /\ (StopSaving => pc'["gui"] = "clear")
    BY <1>10, <1>0
       DEF StartSaving, SetRunning, StopSaving, Quit, QuitNotSaving, Move
  <2>3. Written' = Written /\ pc'["pump"] = pc["pump"]
    BY <1>10, <2>1, <1>1
       DEF StartSaving, SetRunning, StopSaving, Quit, QuitNotSaving
  <2> QED BY <2>1, <2>2, <2>3, <1>0 DEF Written
<1>11. CASE Launch \/ Join
  <2>1. /\ qs' = qs /\ file' = file /\ pushed' = pushed /\ stopSaving' = stopSaving
        /\ pc'["pump"] = pc["pump"] /\ pc["gui"] # "clear"
    BY <1>11, <1>0 DEF Launch, Join, progress, atomics
  <2> QED BY <2>1, <1>0 DEF Written
<1>12. CASE UNCHANGED vars
  BY <1>12, <1>0 DEF vars, progress, atomics, Written
<1> QED
  BY <1>3, <1>4, <1>5, <1>6, <1>7, <1>8, <1>9, <1>10, <1>11, <1>12, StepsOfNext
     DEF QfStep, QsStep, OtherStep

Increasing(s) == \A i, j \in 1..Len(s) : i < j => s[i] < s[j]
Below(s, n) == \A i \in 1..Len(s) : s[i] <= n

\* Something newer behind an increasing sequence leaves it increasing ...
LEMMA AppendIncreasing ==
    ASSUME NEW s \in Seq(Nat), NEW n \in Nat, Increasing(s), Below(s, n - 1)
    PROVE  Increasing(Append(s, n)) /\ Below(Append(s, n), n)
  BY AppendProperties, LenProperties, ElementOfSeq DEF Increasing, Below

\* ... and so does dropping what is at its end.
LEMMA FrontIncreasing ==
    ASSUME NEW s \in Seq(Nat), NEW t \in Seq(Nat), Increasing(s \o t),
           NEW n \in Nat, Below(s \o t, n)
    PROVE  Increasing(s) /\ Below(s, n)
<1>1. \A i \in 1..Len(s) : (s \o t)[i] = s[i] /\ i \in 1..Len(s \o t)
  BY ConcatProperties, LenProperties
<1> QED BY <1>1 DEF Increasing, Below

\* What the file and m_Qs hold increases, and nothing in them is newer than Written.
LogInv == Increasing(Log) /\ Below(Log, Written)

\* LogInv is inductive.
LEMMA LogStep == TypeInv /\ LogInv /\ [Next]_vars => LogInv'
<1> SUFFICES ASSUME TypeInv, LogInv, [Next]_vars PROVE LogInv'
  OBVIOUS
<1>0. /\ pushed \in Nat /\ file \in Seq(Nat) /\ qs.deq \in Seq(Nat)
      /\ pc["pump"] # "idle" => pushed >= 1
      /\ file \in Seq(Message) /\ qs.deq \in Seq(Message)
  <2>1. Message \subseteq Nat
    BY DEF Message
  <2>2. ASSUME NEW s \in Seq(Message) PROVE s \in Seq(Nat)
    <3>1. Len(s) \in Nat /\ s \in [1..Len(s) -> Message]
      BY LenProperties
    <3>2. s \in [1..Len(s) -> Nat]
      BY <2>1, <3>1
    <3> QED BY <3>1, <3>2, SeqDef
  <2> QED BY <2>2, BoundsAssumption DEF TypeInv, TypeOK, Qs!TypeOK, PumpHolds
<1>1. Written \in Nat /\ Log \in Seq(Nat)
  <2>1. Log \in Seq(Nat)
    BY <1>0, ConcatProperties DEF Log
  <2> QED BY <1>0, <2>1 DEF Written
<1>2. CASE /\ pc["pump"] = "pushQs" /\ pc'["pump"] = "notifyQs"
           /\ qs'.deq = Append(qs.deq, pushed) /\ file' = file /\ pushed' = pushed
  <2>1. Written = pushed - 1 /\ Written' = pushed
    BY <1>2 DEF Written
  <2>2. pushed \in Message
    BY <1>2, PushedIsMessage
  <2>3. file \o Append(qs.deq, pushed) = Append(file \o qs.deq, pushed)
    BY <1>0, <2>2, LQf!AppendBehind
  <2>4. Log' = Append(Log, pushed)
    BY <1>2, <2>3 DEF Log
  <2> QED BY <1>0, <1>1, <2>1, <2>4, AppendIncreasing DEF LogInv
<1>3. CASE qs'.deq = <<>> /\ file' = file /\ Written' = Written
  <2>1. Log' = file
    BY <1>0, <1>3, ConcatEmptySeq DEF Log
  <2> QED BY <1>0, <1>1, <1>3, <2>1, FrontIncreasing DEF LogInv, Log
<1>4. CASE /\ qs.deq # <<>> /\ qs'.deq = Tail(qs.deq)
           /\ file' = Append(file, Head(qs.deq)) /\ Written' = Written
  <2>1. Log' = Log
    BY <1>0, <1>4, LQf!HeadToBack DEF Log
  <2> QED BY <2>1, <1>4 DEF LogInv, Increasing, Below
<1>5. CASE qs'.deq = qs.deq /\ file' = file /\ Written' >= Written
  <2>1. Log' = Log
    BY <1>5 DEF Log
  <2>2. Written' \in Int
    BY <1>0, TypeStep DEF Written, TypeInv, TypeOK
  <2>3. \A i \in 1..Len(Log) : Log[i] \in Nat
    BY <1>1, ElementOfSeq
  <2> QED BY <1>1, <1>5, <2>1, <2>2, <2>3 DEF LogInv, Increasing, Below
<1> QED BY <1>2, <1>3, <1>4, <1>5, SavedEffect

\* Through any number of starts and stops of saving, whatever a stop leaves behind, the
\* log file neither repeats nor reorders a message.
THEOREM FileNeverRepeats == Spec => []FileInOrder
<1>1. Init => LogInv
  <2> SUFFICES ASSUME Init PROVE LogInv
    OBVIOUS
  <2>1. Log = <<>> /\ Len(Log) = 0
    BY EmptySeq, ConcatEmptySeq DEF Init, Log, Qs!Init
  <2> QED BY <2>1 DEF LogInv, Increasing, Below
<1>2. LogInv => FileInOrder
  BY DEF LogInv, Increasing, Log, FileInOrder
<1> QED BY <1>1, <1>2, LogStep, Typing, PTL DEF Spec

\* After a stop m_Qs is empty while the pump holds a message for it, and then holds that
\* one message at most.
StopInv ==
    stopSaving /\ pc["gui"] # "clear" =>
        Len(qs.deq) <= IF pc["pump"] = "pushQs" THEN 0 ELSE 1

\* StopInv is inductive.
LEMMA StopStep == TypeInv /\ StopInv /\ [Next]_vars => StopInv'
<1> SUFFICES ASSUME TypeInv, StopInv, [Next]_vars, stopSaving', pc'["gui"] # "clear"
             PROVE  Len(qs'.deq) <= IF pc'["pump"] = "pushQs" THEN 0 ELSE 1
  BY DEF StopInv
<1>0. qs.deq \in Seq(Message) /\ Len(qs.deq) \in Nat /\ (qs.deq # <<>> => Len(qs.deq) # 0)
  BY EmptySeq, LenProperties DEF TypeInv, TypeOK, Qs!TypeOK
<1>1. CASE /\ pc["pump"] = "pushQs" /\ pc'["pump"] = "notifyQs"
           /\ qs'.deq = Append(qs.deq, pushed)
           /\ pc'["gui"] = pc["gui"] /\ stopSaving' = stopSaving
  <2>1. Len(qs'.deq) = Len(qs.deq) + 1
    BY <1>0, <1>1, PushedIsMessage, AppendProperties
  <2> QED BY <1>0, <1>1, <2>1 DEF StopInv
<1>2. CASE qs'.deq = <<>>
  <2>1. Len(qs'.deq) = 0
    BY <1>2, EmptySeq
  <2> QED BY <2>1
<1>3. CASE /\ qs.deq # <<>> /\ qs'.deq = Tail(qs.deq)
           /\ pc'["gui"] = pc["gui"] /\ pc'["pump"] = pc["pump"]
           /\ stopSaving' = stopSaving
  <2>1. Len(qs'.deq) = Len(qs.deq) - 1
    BY <1>0, <1>3, HeadTailProperties
  <2> QED BY <1>0, <1>3, <2>1 DEF StopInv
<1>4. CASE /\ qs'.deq = qs.deq
           /\ pc["gui"] = "clear" => pc'["gui"] = "clear"
           /\ pc'["pump"] = "pushQs" /\ stopSaving => pc["pump"] = "pushQs"
           /\ stopSaving' => stopSaving \/ pc'["gui"] = "clear"
  BY <1>0, <1>4 DEF StopInv
<1> QED BY <1>1, <1>2, <1>3, <1>4, SavedEffect

\* A stop leaves at most one message for the next start of saving, however fast the pump
\* pushes while it runs.
THEOREM StopLeavesOne == Spec => []StopLeavesAtMostOne
<1>1. Init => StopInv
  <2>1. Init => Len(qs.deq) = 0 /\ pc["pump"] = "idle"
    BY EmptySeq DEF Init, Qs!Init, Threads, Consumers
  <2> QED BY <2>1 DEF StopInv
<1>2. TypeInv /\ StopInv => StopLeavesAtMostOne
  BY LenProperties DEF StopInv, StopLeavesAtMostOne, TypeInv, TypeOK, Qs!TypeOK
<1> QED BY <1>1, <1>2, StopStep, Typing, PTL DEF Spec
=============================================================================
