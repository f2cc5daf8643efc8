-------------------------------- MODULE Model --------------------------------
(***************************************************************************)
(* class Model of the GUI back end, and the four threads that meet in it:  *)
(*                                                                         *)
(*   "pump"      the session's message pump, which calls pushMessage();    *)
(*   "receiver"  the detached thread of startReceivingData(), which hands  *)
(*               each message to the presenter's callback (the viewer);    *)
(*   "saver"     m_savingThread, which writes messages to the log file;    *)
(*   "gui"       the main thread: the File menu starts and stops saving,   *)
(*               and the end of main() runs Presenter::stop().             *)
(*                                                                         *)
(* m_Qf connects the pump to the receiver, m_Qs the pump to the saver.  A  *)
(* step is one access to shared state: one load or store of an atomic, or  *)
(* one critical section of a queue.                                        *)
(*                                                                         *)
(* Both consumers call wait(const bool &exit) with a std::atomic<bool>.    *)
(* The argument is converted to a temporary bool: `exit' keeps the value   *)
(* the flag had at the call, and a later store to the flag does not reach  *)
(* a thread that is already inside wait().                                 *)
(***************************************************************************)
EXTENDS Integers, Sequences

CONSTANTS MaxMessages, \* bound: messages the pump pushes
          MaxSaves     \* bound: times the File menu starts saving

ASSUME BoundsAssumption == MaxMessages \in Nat /\ MaxSaves \in Nat

Consumers == {"receiver", "saver"}
Threads == {"gui", "pump"} \cup Consumers

Message == 1..MaxMessages  \* the n-th message pushed is n

VARIABLES
    stopReceiving, stopSaving, savingThreadRunning,  \* the three atomics
    qf, qs,        \* m_Qf and m_Qs
    pc,            \* where each thread is
    exit,          \* what `exit' denotes in each consumer's wait
    pushed,        \* number of messages handed to pushMessage so far
    viewed,        \* what the presenter's callback was given
    file,          \* what was written to the log file
    saves          \* number of times saving was started

atomics == <<stopReceiving, stopSaving, savingThreadRunning>>
progress == <<pushed, viewed, file, saves>>
vars == <<atomics, qf, qs, pc, exit, progress>>

Qf == INSTANCE TSQueue WITH Items <- Message, queue <- qf
Qs == INSTANCE TSQueue WITH Items <- Message, queue <- qs

\* pc["saver"] = "none" iff m_savingThread is not joinable().
PcOf(t) ==
    CASE t = "gui" -> {"idle", "setRunning", "launch", "terminated", "clear", "notify",
                       "join", "quit", "exited"}
      [] t = "pump" -> {"idle", "pushQs", "notifyQs", "pushQf", "notifyQf"}
      [] t = "receiver" -> {"loop", "call", "wait", "check", "empty", "pop", "done"}
      [] t = "saver" -> {"none", "open", "loop", "call", "wait", "check", "pop", "close",
                         "done", "undefined"}

Place == UNION {PcOf(t) : t \in Threads}

Move(t, from, to) == pc[t] = from /\ pc' = [pc EXCEPT ![t] = to]

\* Model::Model; Presenter::start has launched the receiver.
Init ==
    /\ stopReceiving = FALSE /\ stopSaving = TRUE /\ savingThreadRunning = FALSE
    /\ Qf!Init /\ Qs!Init
    /\ pc = [t \in Threads |-> CASE t = "receiver" -> "loop"
                                 [] t = "saver" -> "none"
                                 [] OTHER -> "idle"]
    /\ exit = [t \in Consumers |-> FALSE]
    /\ pushed = 0 /\ viewed = <<>> /\ file = <<>> /\ saves = 0

-----------------------------------------------------------------------------
(* Model::pushMessage.  main() has stopped the pump when it calls          *)
(* Presenter::stop().                                                      *)

\* Mutant: copies the message to m_Qs whether or not it is being saved.
PushMessageAlwaysCopies ==
    /\ ~stopReceiving
    /\ pushed < MaxMessages
    /\ pushed' = pushed + 1
    /\ Move("pump", "idle", "pushQs")
    /\ UNCHANGED <<atomics, qf, qs, exit, viewed, file, saves>>

PushMessage ==
    /\ ~stopReceiving
    /\ pushed < MaxMessages
    /\ pushed' = pushed + 1
    /\ Move("pump", "idle", IF stopSaving THEN "pushQf" ELSE "pushQs")
    /\ UNCHANGED <<atomics, qf, qs, exit, viewed, file, saves>>

\* Mutant: m_Qs is filled from the wrong end.
PushQsInFront ==
    /\ \/ Move("pump", "pushQs", "notifyQs") /\ Qs!PushFront("pump", pushed)
       \/ Move("pump", "notifyQs", "pushQf") /\ Qs!NotifyOne("pump")
    /\ UNCHANGED <<atomics, qf, exit, progress>>

PushQs ==
    /\ \/ Move("pump", "pushQs", "notifyQs") /\ Qs!PushBack("pump", pushed)
       \/ Move("pump", "notifyQs", "pushQf") /\ Qs!NotifyOne("pump")
    /\ UNCHANGED <<atomics, qf, exit, progress>>

PushQf ==
    /\ \/ Move("pump", "pushQf", "notifyQf") /\ Qf!PushBack("pump", pushed)
       \/ Move("pump", "notifyQf", "idle") /\ Qf!NotifyOne("pump")
    /\ UNCHANGED <<atomics, qs, exit, progress>>

-----------------------------------------------------------------------------
(* The threads of startReceivingData() and startSavingToFile().            *)

StopFlag(t) == IF t = "receiver" THEN stopReceiving ELSE stopSaving
AfterLoopClose(t) == "close"  \* Mutant: every loop ends like the saver's.
AfterLoop(t) == IF t = "receiver" THEN "done" ELSE "close"

\* while (!stop)
LoopTest(t) ==
    /\ Move(t, "loop", IF StopFlag(t) THEN AfterLoop(t) ELSE "call")
    /\ UNCHANGED <<atomics, qf, qs, exit, progress>>

\* queue.wait(stop): the argument is evaluated here, once.
CallWait(t) ==
    /\ Move(t, "call", "wait")
    /\ exit' = [exit EXCEPT ![t] = StopFlag(t)]
    /\ UNCHANGED <<atomics, qf, qs, progress>>

WaitQf ==
    /\ \/ Qf!WaitReturns("receiver", exit["receiver"]) /\ Move("receiver", "wait", "check")
       \/ Qf!WaitBlocks("receiver", exit["receiver"]) /\ Move("receiver", "wait", "wait")
    /\ UNCHANGED <<atomics, qs, exit, progress>>

WaitQs ==
    /\ \/ Qs!WaitReturns("saver", exit["saver"]) /\ Move("saver", "wait", "check")
       \/ Qs!WaitBlocks("saver", exit["saver"]) /\ Move("saver", "wait", "wait")
    /\ UNCHANGED <<atomics, qf, exit, progress>>

\* if (stop) break;
CheckStop(t) ==
    /\ Move(t, "check", IF StopFlag(t) THEN AfterLoop(t)
                        ELSE IF t = "receiver" THEN "empty" ELSE "pop")
    /\ UNCHANGED <<atomics, qf, qs, exit, progress>>

\* The receiver drains the queue: while (!m_Qf.empty()) callback(m_Qf.pop_front());
EmptyTest ==
    /\ Move("receiver", "empty", IF qf.deq = <<>> THEN "loop" ELSE "pop")
    /\ UNCHANGED <<atomics, qf, qs, exit, progress>>

\* Mutant: takes the newest message.
ViewNewest ==
    /\ Move("receiver", "pop", "empty")
    /\ Qf!PopBack("receiver")
    /\ viewed' = Append(viewed, qf.deq[Len(qf.deq)])
    /\ UNCHANGED <<atomics, qs, exit, pushed, file, saves>>

View ==
    /\ Move("receiver", "pop", "empty")
    /\ Qf!PopFront("receiver")
    /\ viewed' = Append(viewed, Head(qf.deq))
    /\ UNCHANGED <<atomics, qs, exit, pushed, file, saves>>

\* Mutant: a file that does not open clears the flag, as the end of the thread does.
OpenFileClearsFlag ==
    /\ \/ Move("saver", "open", "loop") /\ UNCHANGED savingThreadRunning
       \/ Move("saver", "open", "done") /\ savingThreadRunning' = FALSE
    /\ UNCHANGED <<stopReceiving, stopSaving, qf, qs, exit, progress>>

\* If the log file does not open, the saving thread returns at once.
OpenFile ==
    /\ \E next \in {"loop", "done"} : Move("saver", "open", next)
    /\ UNCHANGED <<atomics, qf, qs, exit, progress>>

\* The saver pops without another emptiness test.  If the GUI thread's clear()
\* came in between, the pop is undefined and nothing is known of the thread.
Save ==
    /\ \/ /\ Move("saver", "pop", "loop")
          /\ Qs!PopFront("saver")
          /\ file' = Append(file, Head(qs.deq))
       \/ /\ qs.deq = <<>>
          /\ Move("saver", "pop", "undefined")
          /\ UNCHANGED <<qs, file>>
    /\ UNCHANGED <<atomics, qf, exit, pushed, viewed, saves>>

CloseFile ==
    /\ Move("saver", "close", "done")
    /\ savingThreadRunning' = FALSE
    /\ UNCHANGED <<stopReceiving, stopSaving, qf, qs, exit, progress>>

Receiver == \/ LoopTest("receiver") \/ CallWait("receiver") \/ WaitQf
            \/ CheckStop("receiver") \/ EmptyTest \/ View
Saver == \/ OpenFile \/ LoopTest("saver") \/ CallWait("saver") \/ WaitQs
         \/ CheckStop("saver") \/ Save \/ CloseFile

-----------------------------------------------------------------------------
(* The GUI thread.  The menu offers "Stop saving" iff isSavingToFile().    *)

isSavingToFile == ~stopSaving

\* startSavingToFile(): returns early if the flag says the thread runs.
StartSaving ==
    /\ ~isSavingToFile
    /\ ~savingThreadRunning
    /\ saves < MaxSaves
    /\ saves' = saves + 1
    /\ stopSaving' = FALSE
    /\ Move("gui", "idle", "setRunning")
    /\ UNCHANGED <<stopReceiving, savingThreadRunning, qf, qs, exit, pushed, viewed, file>>

SetRunning ==
    /\ Move("gui", "setRunning", "launch")
    /\ savingThreadRunning' = TRUE
    /\ UNCHANGED <<stopReceiving, stopSaving, qf, qs, exit, progress>>

\* m_savingThread = std::thread(...): over a joinable thread, std::terminate().
Launch ==
    /\ pc["gui"] = "launch"
    /\ pc' = IF pc["saver"] # "none" THEN [pc EXCEPT !["gui"] = "terminated"]
             ELSE [pc EXCEPT !["gui"] = "idle", !["saver"] = "open"]
    /\ UNCHANGED <<atomics, qf, qs, exit, progress>>

\* stopSavingToFile(), from the menu or from Presenter::stop(): returns early
\* if the flag says the thread does not run.
Returned == IF stopReceiving THEN "exited" ELSE "idle"

\* Mutant: clears the flag without waiting for the thread.
StopSavingClearsFlag ==
    /\ isSavingToFile /\ savingThreadRunning /\ Move("gui", "idle", "clear")
    /\ stopSaving' = TRUE /\ savingThreadRunning' = FALSE
    /\ UNCHANGED <<stopReceiving, qf, qs, exit, progress>>

StopSaving ==
    /\ \/ isSavingToFile /\ savingThreadRunning /\ Move("gui", "idle", "clear")
       \/ savingThreadRunning /\ Move("gui", "quit", "clear")
    /\ stopSaving' = TRUE
    /\ UNCHANGED <<stopReceiving, savingThreadRunning, qf, qs, exit, progress>>

ClearQs ==
    /\ \/ Move("gui", "clear", "notify") /\ Qs!Clear("gui")
       \/ Move("gui", "notify", "join") /\ Qs!NotifyOne("gui")
    /\ UNCHANGED <<atomics, qf, exit, progress>>

\* if (m_savingThread.joinable()) m_savingThread.join();
Join ==
    /\ pc["gui"] = "join"
    /\ pc["saver"] \in {"none", "done"}
    /\ pc' = [pc EXCEPT !["gui"] = Returned, !["saver"] = "none"]
    /\ UNCHANGED <<atomics, qf, qs, exit, progress>>

\* The end of main(): Presenter::stop() after SerialSession::stop().
Quit ==
    /\ pc["pump"] = "idle"
    /\ Move("gui", "idle", "quit")
    /\ stopReceiving' = TRUE
    /\ UNCHANGED <<stopSaving, savingThreadRunning, qf, qs, exit, progress>>

QuitNotSaving ==
    /\ ~savingThreadRunning
    /\ Move("gui", "quit", "exited")
    /\ UNCHANGED <<atomics, qf, qs, exit, progress>>

-----------------------------------------------------------------------------
SpuriousWakeup ==
    /\ \/ Qf!SpuriousWakeup("receiver") /\ UNCHANGED qs
       \/ Qs!SpuriousWakeup("saver") /\ UNCHANGED qf
    /\ UNCHANGED <<atomics, pc, exit, progress>>

Next ==
    \/ PushMessage \/ PushQs \/ PushQf
    \/ Receiver \/ Saver
    \/ StartSaving \/ SetRunning \/ Launch
    \/ StopSaving \/ ClearQs \/ Join \/ Quit \/ QuitNotSaving
    \/ SpuriousWakeup

\* The operating system schedules every thread that can take a step.  Nothing
\* makes the user act or a message arrive.
Fairness ==
    /\ WF_vars(PushQs \/ PushQf)
    /\ WF_vars(Receiver)
    /\ WF_vars(Saver)
    /\ WF_vars(SetRunning \/ Launch \/ (pc["gui"] = "quit" /\ StopSaving)
               \/ ClearQs \/ Join \/ QuitNotSaving)

Spec == Init /\ [][Next]_vars /\ Fairness

-----------------------------------------------------------------------------
TypeOK ==
    /\ stopReceiving \in BOOLEAN /\ stopSaving \in BOOLEAN
    /\ savingThreadRunning \in BOOLEAN
    /\ Qf!TypeOK /\ Qs!TypeOK
    /\ pc \in [Threads -> Place] /\ \A t \in Threads : pc[t] \in PcOf(t)
    /\ exit \in [Consumers -> BOOLEAN]
    /\ pushed \in 0..MaxMessages /\ saves \in 0..MaxSaves
    /\ viewed \in Seq(Message) /\ file \in Seq(Message)

\* The presenter is given every message pushed, once, in the order of the pushes:
\* what it saw and what m_Qf still holds are together the messages that pushMessage
\* has put in m_Qf, whatever the interleaving of the pump and the receiver.
Handed == IF pc["pump"] \in {"pushQs", "notifyQs", "pushQf"} THEN pushed - 1 ELSE pushed
ViewFifo == viewed \o qf.deq = [i \in 1..Handed |-> i]

\* The log file never repeats or reorders messages, across any number of starts and
\* stops of saving and although a stop may leave a message in m_Qs.
FileInOrder ==
    LET log == file \o qs.deq IN
    \A i, j \in 1..Len(log) : i < j => log[i] < log[j]

\* Neither consumer sleeps beside a message unless a notify_one() is on its way:
\* unlocking before notifying, and re-testing after a wakeup, lose nothing.
NoSleepBesideMessage == Qf!NoLostWakeup("receiver") /\ Qs!NoLostWakeup("saver")

\* std::terminate() is never reached: a start never assigns over a joinable
\* m_savingThread, and the Model is not destroyed with one.
NoTerminate ==
    /\ pc["gui"] # "terminated"
    /\ pc["gui"] = "exited" => pc["saver"] = "none"

\* While the saving thread has the file open, m_savingThreadRunning says so: a
\* stop cannot return early and leave the thread behind.
RunningWhileAlive ==
    pc["saver"] \in {"loop", "call", "wait", "check", "pop", "close"} => savingThreadRunning

\* Once a stop has cleared m_Qs, it holds at most the one message of a pushMessage()
\* that had read m_stopSaving before the stop set it.
StopLeavesAtMostOne ==
    stopSaving /\ pc["gui"] # "clear" => Len(qs.deq) <= 1

\* Every message pushed reaches the presenter, unless the program is stopped.
EveryMessageViewed ==
    \A m \in Message : (pushed >= m) ~> (Len(viewed) >= m \/ stopReceiving)

\* A message queued for saving is written while saving goes on: the thread of an
\* open file neither sleeps nor returns beside it.
EveryQueuedSaved ==
    \A m \in Message :
        (\E i \in 1..Len(qs.deq) : qs.deq[i] = m)
            ~> (\/ \E i \in 1..Len(file) : file[i] = m
                \/ stopSaving
                \/ pc["saver"] = "done")

-----------------------------------------------------------------------------
(* What the comments of the code say of it and the code does not do.       *)

\* "Wait for the thread to finish": join() in stopSavingToFile() returns.
StopSavingReturns ==
    (pc["gui"] = "join") ~> (pc["gui"] # "join" \/ pc["saver"] = "undefined")

\* "Check for stop signal after waiting": the receiving thread ends after
\* stopReceivingData().
ReceiverStops == stopReceiving ~> (pc["receiver"] = "done")

\* "Track if the thread is running": between two calls of the GUI thread the flag
\* is not set for a saving thread that has returned.
FlagTracksThread ==
    pc["gui"] = "idle" /\ savingThreadRunning => pc["saver"] \notin {"none", "done"}

\* "Wait for a message to arrive", "Get the message from the queue": the saver that
\* was told of a message finds one.
SaverFindsMessage == pc["saver"] # "undefined"
=============================================================================
