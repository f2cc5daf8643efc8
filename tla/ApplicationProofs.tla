------------------------- MODULE ApplicationProofs --------------------------
(* Proofs about the whole program: the session and the model behave in it   *)
(* as they do alone, so that what is proved of each holds of both together; *)
(* main() returns over joined threads, and no line is lost, repeated or     *)
(* overtaken on its way from a port to the view.                            *)
EXTENDS Application, SerialPanel, SequenceTheorems, TLAPS

LS == INSTANCE SerialSessionProofs WITH MaxStarts <- 1
LM == INSTANCE ModelProofs WITH MaxMessages <- MaxConns * MaxLines

\* The session of the panel: there a port to open has its settings.
LU == INSTANCE SerialSessionProofs
          WITH Ports <- Targets, NoPort <- NoTarget, MaxStarts <- 1

\* The two parts are instances that their own proofs are about.
LEMMA PartsAssumptions == LS!SessionAssumption /\ LM!BoundsAssumption
<1>1. LS!SessionAssumption
  BY ApplicationAssumption DEF LS!SessionAssumption
<1>2. MaxConns * MaxLines \in Nat
  BY ApplicationAssumption
<1> QED BY <1>1, <1>2, ApplicationAssumption DEF LM!BoundsAssumption

-----------------------------------------------------------------------------
(* The lemmas of SerialSessionProofs and of ModelProofs are about the       *)
(* actions that the program composes.                                       *)

\* The operations on the connections.
LEMMA SameConnections ==
    /\ \A s, c :
          /\ Session!C!Open(s, c) = LS!C!Open(s, c)
          /\ Session!C!connectToClient(s, c) = LS!C!connectToClient(s, c)
          /\ Session!C!disconnect(s, c) = LS!C!disconnect(s, c)
          /\ Session!C!Close(s, c) = LS!C!Close(s, c)
          /\ Session!C!Read(s, c) = LS!C!Read(s, c)
          /\ Session!C!Post(s, c) = LS!C!Post(s, c)
          /\ Session!C!BeginHandler(s) = LS!C!BeginHandler(s)
          /\ Session!C!Pop(s) = LS!C!Pop(s)
          /\ Session!C!LinesArrive(c) = LS!C!LinesArrive(c)
          /\ Session!C!ReadFails(c) = LS!C!ReadFails(c)
    /\ Session!Line = LS!Line /\ Session!Conns = LS!Conns
  BY DEF Session!C!Open, LS!C!Open, Session!C!connectToClient, LS!C!connectToClient,
         Session!C!disconnect, LS!C!disconnect, Session!C!Close, LS!C!Close,
         Session!C!isConnected, LS!C!isConnected, Session!C!Read, LS!C!Read,
         Session!C!Complete, LS!C!Complete, Session!C!AtOnce, LS!C!AtOnce,
         Session!C!Post, LS!C!Post, Session!C!BeginHandler, LS!C!BeginHandler,
         Session!C!Pop, LS!C!Pop, Session!C!LinesArrive, LS!C!LinesArrive,
         Session!C!ReadFails, LS!C!ReadFails,
         Session!Line, LS!Line, Session!Conns, LS!Conns

\* The GUI thread in the session's methods.
LEMMA SameSessionGui ==
    /\ Session!Start => LS!Start
    /\ \A port \in Ports : Session!Connect(port) => LS!Connect(port)
    /\ Session!Disconnect => LS!Disconnect
    /\ Session!Stop => LS!Stop
    /\ Session!StopSteps => LS!StopSteps
<1> USE DEF Session!running, LS!running, Session!bounds, LS!bounds
<1>1. Session!Start => LS!Start
  BY DEF Session!Start, LS!Start
<1>2. \A port \in Ports : Session!Connect(port) => LS!Connect(port)
  BY SameConnections DEF Session!Connect, LS!Connect, Session!Post, LS!Post
<1>3. Session!Disconnect => LS!Disconnect
  BY SameConnections DEF Session!Disconnect, LS!Disconnect, Session!Post, LS!Post
<1>4. Session!Stop => LS!Stop
  BY SameConnections DEF Session!Stop, LS!Stop, Session!Post, LS!Post
<1>5. Session!StopSteps => LS!StopSteps
  BY DEF Session!StopSteps, LS!StopSteps, Session!RequestPumpStop, LS!RequestPumpStop,
         Session!StopContext, LS!StopContext, Session!JoinIo, LS!JoinIo
<1> QED BY <1>1, <1>2, <1>3, <1>4, <1>5

\* The io thread.
LEMMA SameIo == Session!IoThread => LS!IoThread
<1> USE SameConnections
    DEF Session!Runs, LS!Runs, Session!contextStopped, LS!contextStopped,
        Session!closeConnection, LS!closeConnection, Session!NoConn, LS!NoConn,
        Session!bounds, LS!bounds
<1>1. Session!HandleConnect => LS!HandleConnect
  BY DEF Session!HandleConnect, LS!HandleConnect
<1>2. Session!OpenPort => LS!OpenPort
  BY DEF Session!OpenPort, LS!OpenPort
<1>3. Session!OpenFails => LS!OpenFails
  BY DEF Session!OpenFails, LS!OpenFails
<1>4. Session!HandleClose => LS!HandleClose
  BY DEF Session!HandleClose, LS!HandleClose
<1>5. Session!HandleLine => LS!HandleLine
  BY DEF Session!HandleLine, LS!HandleLine, Session!Q!PushBack, LS!Q!PushBack,
         Session!Q!Section, LS!Q!Section
<1>6. Session!ReadOn => LS!ReadOn
  BY DEF Session!ReadOn, LS!ReadOn, Session!Q!NotifyOne, LS!Q!NotifyOne,
         Session!Q!Goto, LS!Q!Goto
<1>7. Session!HandleError => LS!HandleError
  BY DEF Session!HandleError, LS!HandleError
<1>8. Session!IoExit => LS!IoExit
  BY DEF Session!IoExit, LS!IoExit
<1> QED
  BY <1>1, <1>2, <1>3, <1>4, <1>5, <1>6, <1>7, <1>8 DEF Session!IoThread, LS!IoThread

\* The message pump, the devices, and spurious wakeups.
LEMMA SamePump ==
    /\ Session!PumpTest => LS!PumpTest
    /\ Session!PumpWait => LS!PumpWait
    /\ Session!PumpTimeout => LS!PumpTimeout
    /\ Session!PumpDrained => LS!PumpDrained
    /\ Session!PumpPush => LS!PumpPush
    /\ Session!PumpSpuriousWakeup => LS!PumpSpuriousWakeup
    /\ Session!Device => LS!Device
<1> USE DEF Session!PumpUnchanged, LS!PumpUnchanged, Session!bounds, LS!bounds,
            Session!Q!Goto, LS!Q!Goto
<1>1. Session!PumpTest => LS!PumpTest
  BY DEF Session!PumpTest, LS!PumpTest, Session!stopRequested, LS!stopRequested
<1>2. Session!PumpWait => LS!PumpWait
  BY DEF Session!PumpWait, LS!PumpWait, Session!Q!WaitForReturns, LS!Q!WaitForReturns,
         Session!Q!WaitBlocks, LS!Q!WaitBlocks, Session!Q!Ready, LS!Q!Ready
<1>3. Session!PumpTimeout => LS!PumpTimeout
  BY DEF Session!PumpTimeout, LS!PumpTimeout, Session!Q!Expire, LS!Q!Expire
<1>4. Session!PumpDrained => LS!PumpDrained
  BY DEF Session!PumpDrained, LS!PumpDrained
<1>5. Session!PumpPush => LS!PumpPush
  BY DEF Session!PumpPush, LS!PumpPush, Session!Q!PopFront, LS!Q!PopFront,
         Session!Q!Section, LS!Q!Section
<1>6. Session!PumpSpuriousWakeup => LS!PumpSpuriousWakeup
  BY DEF Session!PumpSpuriousWakeup, LS!PumpSpuriousWakeup, Session!Q!SpuriousWakeup,
         LS!Q!SpuriousWakeup
<1>7. Session!Device => LS!Device
  BY SameConnections DEF Session!Device, LS!Device
<1> QED BY <1>1, <1>2, <1>3, <1>4, <1>5, <1>6, <1>7

\* The pump in pushMessage(), and the two consumers.
LEMMA SameModelThreads ==
    /\ Data!PushMessage => LM!PushMessage
    /\ Data!PushQs => LM!PushQs
    /\ Data!PushQf => LM!PushQf
    /\ Data!Receiver => LM!Receiver
    /\ Data!Saver => LM!Saver
    /\ Data!SpuriousWakeup => LM!SpuriousWakeup
<1> USE DEF Data!Move, LM!Move, Data!atomics, LM!atomics, Data!progress, LM!progress,
            Data!Qf!Goto, LM!Qf!Goto, Data!Qs!Goto, LM!Qs!Goto,
            Data!Qf!Section, LM!Qf!Section, Data!Qs!Section, LM!Qs!Section
<1>1. Data!PushMessage => LM!PushMessage
  BY DEF Data!PushMessage, LM!PushMessage
<1>2. Data!PushQs => LM!PushQs
  BY DEF Data!PushQs, LM!PushQs, Data!Qs!PushBack, LM!Qs!PushBack, Data!Qs!NotifyOne,
         LM!Qs!NotifyOne, Data!Threads, LM!Threads, Data!Consumers, LM!Consumers
<1>3. Data!PushQf => LM!PushQf
  BY DEF Data!PushQf, LM!PushQf, Data!Qf!PushBack, LM!Qf!PushBack, Data!Qf!NotifyOne,
         LM!Qf!NotifyOne, Data!Threads, LM!Threads, Data!Consumers, LM!Consumers
<1>4. \A t : /\ Data!LoopTest(t) => LM!LoopTest(t)
             /\ Data!CallWait(t) => LM!CallWait(t)
             /\ Data!CheckStop(t) => LM!CheckStop(t)
  BY DEF Data!LoopTest, LM!LoopTest, Data!CallWait, LM!CallWait, Data!CheckStop,
         LM!CheckStop, Data!StopFlag, LM!StopFlag, Data!AfterLoop, LM!AfterLoop
<1>5. Data!WaitQf => LM!WaitQf
  BY DEF Data!WaitQf, LM!WaitQf, Data!Qf!WaitReturns, LM!Qf!WaitReturns,
         Data!Qf!WaitBlocks, LM!Qf!WaitBlocks, Data!Qf!Ready, LM!Qf!Ready
<1>6. Data!WaitQs => LM!WaitQs
  BY DEF Data!WaitQs, LM!WaitQs, Data!Qs!WaitReturns, LM!Qs!WaitReturns,
         Data!Qs!WaitBlocks, LM!Qs!WaitBlocks, Data!Qs!Ready, LM!Qs!Ready
<1>7. (Data!EmptyTest => LM!EmptyTest) /\ (Data!View => LM!View)
  BY DEF Data!EmptyTest, LM!EmptyTest, Data!View, LM!View, Data!Qf!PopFront, LM!Qf!PopFront
<1>8. /\ Data!OpenFile => LM!OpenFile
      /\ Data!Save => LM!Save
      /\ Data!CloseFile => LM!CloseFile
  BY DEF Data!OpenFile, LM!OpenFile, Data!Save, LM!Save, Data!CloseFile, LM!CloseFile,
         Data!Qs!PopFront, LM!Qs!PopFront
<1>9. Data!SpuriousWakeup => LM!SpuriousWakeup
  BY DEF Data!SpuriousWakeup, LM!SpuriousWakeup, Data!Qf!SpuriousWakeup,
         LM!Qf!SpuriousWakeup, Data!Qs!SpuriousWakeup, LM!Qs!SpuriousWakeup
<1>10. (Data!Receiver => LM!Receiver) /\ (Data!Saver => LM!Saver)
  BY <1>4, <1>5, <1>6, <1>7, <1>8 DEF Data!Receiver, LM!Receiver, Data!Saver, LM!Saver
<1> QED BY <1>1, <1>2, <1>3, <1>9, <1>10

\* The GUI thread in the presenter's and the model's methods.
LEMMA SameModelGui ==
    /\ Data!StartSaving => LM!StartSaving
    /\ Data!SetRunning => LM!SetRunning
    /\ Data!Launch => LM!Launch
    /\ Data!StopSaving => LM!StopSaving
    /\ Data!ClearQs => LM!ClearQs
    /\ Data!Join => LM!Join
    /\ Data!Quit => LM!Quit
    /\ Data!QuitNotSaving => LM!QuitNotSaving
<1> USE DEF Data!Move, LM!Move, Data!atomics, LM!atomics, Data!progress, LM!progress,
            Data!isSavingToFile, LM!isSavingToFile
<1>1. /\ Data!StartSaving => LM!StartSaving
      /\ Data!SetRunning => LM!SetRunning
      /\ Data!Launch => LM!Launch
  BY DEF Data!StartSaving, LM!StartSaving, Data!SetRunning, LM!SetRunning, Data!Launch,
         LM!Launch
<1>2. /\ Data!StopSaving => LM!StopSaving
      /\ Data!Quit => LM!Quit
      /\ Data!QuitNotSaving => LM!QuitNotSaving
  BY DEF Data!StopSaving, LM!StopSaving, Data!Quit, LM!Quit, Data!QuitNotSaving,
         LM!QuitNotSaving
<1>3. Data!ClearQs => LM!ClearQs
  BY DEF Data!ClearQs, LM!ClearQs, Data!Qs!Clear, LM!Qs!Clear, Data!Qs!NotifyOne,
         LM!Qs!NotifyOne, Data!Qs!Section, LM!Qs!Section, Data!Qs!Goto, LM!Qs!Goto,
         Data!Threads, LM!Threads, Data!Consumers, LM!Consumers
<1>4. Data!Join => LM!Join
  BY DEF Data!Join, LM!Join, Data!Returned, LM!Returned
<1> QED BY <1>1, <1>2, <1>3, <1>4

-----------------------------------------------------------------------------
(* The program is the session and the model.                                *)

\* What the session does but for handing over a line.
SessionStep ==
    \/ LS!Start \/ (\E port \in Ports : LS!Connect(port)) \/ LS!Disconnect \/ LS!Stop
    \/ LS!StopSteps \/ LS!IoThread \/ LS!PumpTest \/ LS!PumpWait \/ LS!PumpTimeout
    \/ LS!PumpDrained \/ LS!PumpSpuriousWakeup \/ LS!Device

\* Only the pump hands over a line.
LEMMA SessionStepKeepsHanded == SessionStep => LS!Next /\ handed' = handed
<1> SUFFICES ASSUME SessionStep PROVE LS!Next /\ handed' = handed
  OBVIOUS
<1>1. CASE \/ LS!Start \/ (\E port \in Ports : LS!Connect(port)) \/ LS!Disconnect
           \/ LS!Stop \/ LS!StopSteps \/ LS!Device
  BY <1>1 DEF LS!Start, LS!Connect, LS!Disconnect, LS!Stop, LS!StopSteps,
              LS!RequestPumpStop, LS!StopContext, LS!JoinIo, LS!Device, LS!Next
<1>2. CASE LS!IoThread
  BY <1>2 DEF LS!IoThread, LS!HandleConnect, LS!OpenPort, LS!OpenFails, LS!HandleClose,
              LS!HandleLine, LS!ReadOn, LS!HandleError, LS!IoExit, LS!Next
<1>3. CASE \/ LS!PumpTest \/ LS!PumpWait \/ LS!PumpTimeout \/ LS!PumpDrained
           \/ LS!PumpSpuriousWakeup
  BY <1>3 DEF LS!PumpTest, LS!PumpWait, LS!PumpTimeout, LS!PumpDrained,
              LS!PumpSpuriousWakeup, LS!PumpThread, LS!Next
<1> QED BY <1>1, <1>2, <1>3 DEF SessionStep

\* What the model does but for taking a message: the number of messages stays.
ModelStep ==
    \/ LM!PushQs \/ LM!PushQf \/ LM!Receiver \/ LM!Saver \/ LM!StartSaving \/ LM!SetRunning
    \/ LM!Launch \/ LM!StopSaving \/ LM!ClearQs \/ LM!Join \/ LM!Quit \/ LM!QuitNotSaving
    \/ LM!SpuriousWakeup

\* Only pushMessage() counts a message.
LEMMA ModelStepKeepsPushed == ModelStep => LM!Next /\ pushed' = pushed
<1> SUFFICES ASSUME ModelStep PROVE LM!Next /\ pushed' = pushed
  OBVIOUS
<1> USE DEF LM!progress
<1>1. CASE LM!PushQs \/ LM!PushQf \/ LM!Receiver \/ LM!Saver
  BY <1>1 DEF LM!PushQs, LM!PushQf, LM!Receiver, LM!Saver, LM!LoopTest, LM!CallWait,
              LM!WaitQf, LM!WaitQs, LM!CheckStop, LM!EmptyTest, LM!View, LM!OpenFile,
              LM!Save, LM!CloseFile, LM!Next
<1>2. CASE LM!StartSaving \/ LM!SetRunning \/ LM!Launch \/ LM!StopSaving
  BY <1>2 DEF LM!StartSaving, LM!SetRunning, LM!Launch, LM!StopSaving, LM!Next
<1>3. CASE LM!ClearQs \/ LM!Join \/ LM!Quit \/ LM!QuitNotSaving \/ LM!SpuriousWakeup
  BY <1>3 DEF LM!ClearQs, LM!Join, LM!Quit, LM!QuitNotSaving, LM!SpuriousWakeup, LM!Next
<1> QED BY <1>1, <1>2, <1>3 DEF ModelStep

\* A step of the program is one of the session or leaves it alone, and one of the model
\* or leaves it alone; only the pump takes one of both.
LEMMA StepsOfParts ==
    ASSUME [Next]_vars
    PROVE  /\ [LS!Next]_session /\ [LM!Next]_model
           /\ \/ UNCHANGED model /\ handed' = handed
              \/ UNCHANGED session /\ pushed' = pushed
              \/ LS!PumpPush /\ LM!PushMessage
<1> USE DEF session, model
<1>1. ASSUME SessionStep, UNCHANGED model
      PROVE  [LS!Next]_session /\ [LM!Next]_model /\ handed' = handed
  BY <1>1, SessionStepKeepsHanded
<1>2. ASSUME ModelStep, UNCHANGED session
      PROVE  [LS!Next]_session /\ [LM!Next]_model /\ pushed' = pushed
  BY <1>2, ModelStepKeepsPushed
<1>3. CASE StartSession \/ Panel \/ CloseWindow \/ Io \/ PumpInSession
  <2>1. SessionStep /\ UNCHANGED model
    BY <1>3, SameSessionGui, SameIo, SamePump
       DEF StartSession, Panel, CloseWindow, Io, PumpInSession, SessionStep
  <2> QED BY <1>1, <2>1
<1>4. CASE Menu \/ StopPresenter \/ PumpInModel \/ Receiver \/ Saver
  <2>1. ModelStep /\ UNCHANGED session
    BY <1>4, SameModelGui, SameModelThreads
       DEF Menu, StopPresenter, PumpInModel, Receiver, Saver, ModelStep
  <2> QED BY <1>2, <2>1
<1>5. CASE Return \/ UNCHANGED vars
  BY <1>5 DEF Return, vars
<1>6. CASE Continue
  <2>1. \/ SessionStep /\ UNCHANGED model
        \/ ModelStep /\ UNCHANGED session
    BY <1>6, SameSessionGui, SameModelGui DEF Continue, SessionStep, ModelStep
  <2> QED BY <1>1, <1>2, <2>1
<1>7. CASE Environment
  <2>1. \/ SessionStep /\ UNCHANGED model
        \/ ModelStep /\ UNCHANGED session
    BY <1>7, SamePump, SameModelThreads DEF Environment, SessionStep, ModelStep
  <2> QED BY <1>1, <1>2, <2>1
<1>8. CASE PumpPush
  BY <1>8, SamePump, SameModelThreads DEF PumpPush, LS!Next, LS!PumpThread, LM!Next
<1> QED BY <1>3, <1>4, <1>5, <1>6, <1>7, <1>8 DEF Next, MainThread, Pump

\* The program begins with the session and the model at their beginning.
LEMMA StartOfParts == Init => LS!Init /\ LM!Init
<1> SUFFICES ASSUME Init PROVE LS!Init /\ LM!Init
  OBVIOUS
<1>1. LS!Init
  BY DEF Init, Session!Init, LS!Init, Session!C!Init, LS!C!Init, Session!Q!Init,
         LS!Q!Init, Session!NoConn, LS!NoConn, Session!Conns, LS!Conns
<1>2. LM!Init
  BY DEF Init, Data!Init, LM!Init, Data!Qf!Init, LM!Qf!Init, Data!Qs!Init, LM!Qs!Init,
         Data!Threads, LM!Threads, Data!Consumers, LM!Consumers
<1> QED BY <1>1, <1>2

-----------------------------------------------------------------------------
(* The invariant of the program.                                            *)

\* Where main() is determines where the session and the model are, and each line that
\* the session handed over is a message of the model.
MainInv ==
    /\ main \in {"init", "frames", "stopSession", "stopPresenter", "returned"}
    /\ main \in {"stopPresenter", "returned"} => gui = "stopped"
    /\ main = "returned" => pc["gui"] = "exited"
    /\ pushed = Len(handed)

PartsInv == LS!SessionInv /\ LS!DataInv /\ LM!TypeInv /\ LM!SavingInv /\ LM!ViewFifo
AppInv == PartsInv /\ MainInv

\* PartsInv is inductive, as each part of it is in its own module.
LEMMA PartsStep == PartsInv /\ [Next]_vars => PartsInv'
<1> SUFFICES ASSUME PartsInv, [Next]_vars PROVE PartsInv'
  OBVIOUS
<1>1. [LS!Next]_(LS!vars) /\ [LM!Next]_(LM!vars)
  BY StepsOfParts DEF session, model, LS!vars, LS!bounds, LM!vars, LM!atomics, LM!progress
<1>2. LS!SessionInv'
  BY <1>1, PartsAssumptions, LS!SessionInvStep DEF PartsInv
<1>3. LS!DataInv'
  BY <1>1, PartsAssumptions, LS!LineSteps DEF PartsInv
<1>4. LM!TypeInv'
  BY <1>1, PartsAssumptions, LM!TypeStep DEF PartsInv
<1>5. LM!SavingInv'
  BY <1>1, PartsAssumptions, LM!SavingStep DEF PartsInv
<1>6. LM!ViewFifo'
  BY <1>1, PartsAssumptions, LM!FifoStep DEF PartsInv
<1> QED BY <1>2, <1>3, <1>4, <1>5, <1>6 DEF PartsInv

\* Each line handed over is counted by pushMessage().
LEMMA CountKeeps ==
    ASSUME PartsInv, pushed = Len(handed), [Next]_vars
    PROVE  pushed' = Len(handed')
<1>1. CASE LS!PumpPush /\ LM!PushMessage
  <2>1. handed \in Seq(LS!Line) /\ messages.deq \in Seq(LS!Line)
    BY DEF PartsInv, LS!DataInv, LS!Q!TypeOK
  <2>2. /\ pushed' = pushed + 1 /\ messages.deq # <<>>
        /\ handed' = Append(handed, Head(messages.deq))
    BY <1>1 DEF LS!PumpPush, LS!Q!PopFront, LM!PushMessage
  <2>3. Head(messages.deq) \in LS!Line
    BY <2>1, <2>2, HeadTailProperties
  <2> QED BY <2>1, <2>2, <2>3, AppendProperties
<1>2. CASE UNCHANGED <<pushed, handed>>
  BY <1>2
<1> QED BY <1>1, <1>2, StepsOfParts DEF session, model

\* After stop() has returned, the GUI thread does not come back to the session; after
\* the presenter was stopped it does not come back to the model.
LEMMA MainStep == PartsInv /\ MainInv /\ [Next]_vars => MainInv'
<1> SUFFICES ASSUME PartsInv, MainInv, [Next]_vars PROVE MainInv'
  OBVIOUS
<1>0. pc \in [LM!Threads -> LM!Place] /\ "gui" \in LM!Threads
      /\ (gui = "stopped" => ioPc = "off")
  BY DEF PartsInv, LM!TypeInv, LM!TypeOK, LM!Threads, LS!SessionInv, LS!ThreadsInv
<1>1. pushed' = Len(handed')
  BY CountKeeps DEF MainInv
<1>2. CASE main \notin {"stopPresenter", "returned"}
  BY <1>1, <1>2 DEF session, MainInv, Next, MainThread, StartSession, Panel, Menu, Continue,
                    CloseWindow, StopPresenter, Return, Io, Pump, PumpPush, PumpInSession,
                    PumpInModel, Receiver, Saver, Environment, InFrames, vars
<1>3. CASE main \in {"stopPresenter", "returned"}
  <2>1. gui = "stopped" /\ ioPc = "off"
    BY <1>0, <1>3 DEF MainInv
  <2>2. \/ main' = main
        \/ main = "stopPresenter" /\ main' = "returned" /\ pc'["gui"] = "exited"
    BY <1>3 DEF Next, MainThread, StartSession, Panel, Menu, Continue, CloseWindow,
                StopPresenter, Return, Io, Pump, PumpPush, PumpInSession, PumpInModel,
                Receiver, Saver, Environment, InFrames, vars, model
  <2>3. gui' = "stopped"
    <3>1. ~Session!StopSteps
      BY <2>1 DEF Session!StopSteps, Session!RequestPumpStop, Session!StopContext,
                  Session!JoinIo
    <3>2. ~Session!IoThread
      BY <2>1 DEF Session!IoThread, Session!HandleConnect, Session!OpenPort,
                  Session!OpenFails, Session!HandleClose, Session!HandleLine,
                  Session!ReadOn, Session!HandleError, Session!IoExit, Session!Runs
    <3>3. \/ Session!PumpTest \/ Session!PumpWait \/ Session!PumpTimeout
          \/ Session!PumpDrained \/ Session!PumpPush \/ Session!PumpSpuriousWakeup
          \/ Session!Device \/ UNCHANGED session
      BY <1>3, <2>1, <3>1, <3>2
         DEF Next, MainThread, StartSession, Panel, Menu, Continue, CloseWindow,
             StopPresenter, Return, Io, Pump, PumpPush, PumpInSession, PumpInModel,
             Receiver, Saver, Environment, InFrames, vars
    <3> QED
      BY <2>1, <3>3
         DEF session, Session!PumpTest, Session!PumpWait, Session!PumpTimeout,
             Session!PumpDrained, Session!PumpPush, Session!PumpSpuriousWakeup,
             Session!PumpUnchanged, Session!Device
  <2>4. pc["gui"] = "exited" => pc'["gui"] = "exited"
    <3>1. [LM!Next]_(LM!vars) /\ LM!TypeInv
      BY StepsOfParts DEF PartsInv, model, LM!vars, LM!atomics, LM!progress
    <3> QED BY <3>1, PartsAssumptions, LM!ExitStays
  <2> QED BY <1>1, <1>3, <2>2, <2>3, <2>4 DEF MainInv
<1> QED BY <1>2, <1>3

\* The invariant holds at the beginning.
LEMMA AppStart == Init => AppInv
<1> SUFFICES ASSUME Init PROVE AppInv
  OBVIOUS
<1>1. LS!Init /\ LM!Init
  BY StartOfParts
<1>2. LS!SessionInv /\ LS!DataInv
  BY <1>1, PartsAssumptions, LS!SessionInvInit, LS!LinesInit
<1>3. LM!TypeInv /\ LM!SavingInv /\ LM!ViewFifo
  BY <1>1, PartsAssumptions, LM!TypeStart, LM!SavingStart, LM!FifoStart
<1>4. pushed = Len(handed)
  <2>1. pushed = 0 /\ handed = <<>>
    BY <1>1 DEF LS!Init, LM!Init
  <2> QED BY <2>1, EmptySeq
<1> QED BY <1>2, <1>3, <1>4 DEF Init, AppInv, PartsInv, MainInv

\* So it holds throughout.
LEMMA AppInvariant == Spec => []AppInv
<1>1. AppInv /\ [Next]_vars => AppInv'
  BY PartsStep, MainStep DEF AppInv
<1> QED BY <1>1, AppStart, PTL DEF Spec

\* The variables of the whole program keep their types.
THEOREM TypeCorrect == Spec => []TypeOK
<1>1. AppInv => TypeOK
  <2> SUFFICES ASSUME AppInv PROVE TypeOK
    OBVIOUS
  <2>1. LS!TypeOK /\ LM!TypeOK
    BY PartsAssumptions, LS!TypesOf DEF AppInv, PartsInv, LM!TypeInv
  <2>2. Session!TypeOK
    BY <2>1
       DEF Session!TypeOK, LS!TypeOK, Session!C!TypeOK, LS!C!TypeOK, Session!C!Stream,
           LS!C!Stream, Session!C!Completion, LS!C!Completion, Session!C!Result,
           LS!C!Result, Session!Q!TypeOK, LS!Q!TypeOK, Session!Q!CvState, LS!Q!CvState,
           Session!Conns, LS!Conns, Session!NoConn, LS!NoConn, Session!Line, LS!Line,
           Session!Request, LS!Request, Session!Snapshot, LS!Snapshot
  <2>3. Data!TypeOK
    BY <2>1
       DEF Data!TypeOK, LM!TypeOK, Data!Qf!TypeOK, LM!Qf!TypeOK, Data!Qs!TypeOK,
           LM!Qs!TypeOK, Data!Qf!CvState, LM!Qf!CvState, Data!Qs!CvState, LM!Qs!CvState,
           Data!Threads, LM!Threads, Data!Consumers, LM!Consumers, Data!Place, LM!Place,
           Data!PcOf, LM!PcOf, Data!Message, LM!Message
  <2> QED BY <2>2, <2>3 DEF TypeOK, AppInv, MainInv
<1> QED BY <1>1, AppInvariant, PTL

\* In the program, the session and the model take only the steps that they take alone,
\* although they share the pump and the main thread: every safety theorem about one of
\* them is true of the program.
THEOREM PartsBehave ==
    Spec => /\ LS!Init /\ [][LS!Next]_session
            /\ LM!Init /\ [][LM!Next]_model
<1>1. Next => [LS!Next]_session /\ [LM!Next]_model
  BY StepsOfParts
<1>2. UNCHANGED vars => UNCHANGED session /\ UNCHANGED model
  BY DEF vars
<1> QED BY <1>1, <1>2, StartOfParts, PTL DEF Spec

\* When main() returns, no thread is left that it should have joined and no port is
\* open, whatever the user did before and whatever was being read or saved.
THEOREM ReturnsJoined == Spec => []JoinedAtReturn
<1>1. AppInv => JoinedAtReturn
  <2> SUFFICES ASSUME AppInv, main = "returned"
               PROVE  /\ ioPc = "off" /\ pump = "off" /\ pc["saver"] = "none"
                      /\ Session!open = {}
    BY DEF JoinedAtReturn
  <2>1. gui = "stopped" /\ pc["gui"] = "exited"
    BY DEF AppInv, MainInv
  <2>2. ioPc = "off" /\ pump = "off" /\ LS!open = {}
    BY <2>1, PartsAssumptions, LS!QuietOf DEF AppInv, PartsInv, LS!StoppedIsQuiet
  <2>3. pc["saver"] = "none"
    BY <2>1 DEF AppInv, PartsInv, LM!SavingInv
  <2> QED BY <2>2, <2>3 DEF LS!open, Session!open, LS!Conns, Session!Conns
<1> QED BY <1>1, AppInvariant, PTL

-----------------------------------------------------------------------------
(* The lines, from the ports to the view.                                   *)

\* What is left of the sequence h when v have been seen.
Rest(h, v) == SubSeq(h, v + 1, Len(h))

\* It is as long as it should be ...
LEMMA RestProperties ==
    ASSUME NEW T, NEW h \in Seq(T), NEW v \in 0..Len(h)
    PROVE  /\ Rest(h, v) \in Seq(T) /\ Len(Rest(h, v)) = Len(h) - v
           /\ \A i \in 1..Len(h) - v : Rest(h, v)[i] = h[v + i]
<1>1. Len(h) \in Nat /\ \A i \in v + 1 .. Len(h) : h[i] \in T
  BY LenProperties, ElementOfSeq
<1>2. /\ Rest(h, v) \in Seq(T)
      /\ Len(Rest(h, v)) = IF v + 1 <= Len(h) THEN Len(h) - (v + 1) + 1 ELSE 0
      /\ \A i \in 1 .. Len(h) - (v + 1) + 1 : Rest(h, v)[i] = h[v + 1 + i - 1]
  BY <1>1, SubSeqProperties DEF Rest
<1> HIDE DEF Rest
<1> QED BY <1>1, <1>2

\* ... grows with h ...
LEMMA RestOfAppend ==
    ASSUME NEW T, NEW h \in Seq(T), NEW v \in 0..Len(h), NEW e \in T
    PROVE  Rest(Append(h, e), v) = Append(Rest(h, v), e)
<1> DEFINE long == Append(h, e)
           short == Rest(h, v)
<1>1. /\ long \in Seq(T) /\ Len(long) = Len(h) + 1 /\ Len(h) \in Nat
      /\ (\A i \in 1..Len(h) : long[i] = h[i]) /\ long[Len(h) + 1] = e
  BY AppendProperties, LenProperties
<1>2. /\ short \in Seq(T) /\ Len(short) = Len(h) - v
      /\ \A i \in 1..Len(h) - v : short[i] = h[v + i]
  BY RestProperties
<1> HIDE DEF long, short
<1>3. /\ Rest(long, v) \in Seq(T) /\ Len(Rest(long, v)) = Len(h) + 1 - v
      /\ \A i \in 1..Len(h) + 1 - v : Rest(long, v)[i] = long[v + i]
  <2>1. v \in 0..Len(long)
    BY <1>1
  <2>2. /\ Rest(long, v) \in Seq(T) /\ Len(Rest(long, v)) = Len(long) - v
        /\ \A i \in 1..Len(long) - v : Rest(long, v)[i] = long[v + i]
    BY <1>1, <2>1, RestProperties
  <2> QED BY <1>1, <2>2
<1>4. /\ Append(short, e) \in Seq(T) /\ Len(Append(short, e)) = Len(h) - v + 1
      /\ \A i \in 1..Len(h) - v : Append(short, e)[i] = short[i]
      /\ Append(short, e)[Len(h) - v + 1] = e
  BY <1>2, AppendProperties
<1>5. ASSUME NEW i \in 1..Len(h) + 1 - v PROVE Rest(long, v)[i] = Append(short, e)[i]
  <2>1. CASE i \in 1..Len(h) - v
    BY <1>1, <1>2, <1>3, <1>4, <2>1
  <2>2. CASE i = Len(h) - v + 1
    <3>1. v + i = Len(h) + 1
      BY <1>1, <2>2
    <3> QED BY <1>1, <1>3, <1>4, <2>2, <3>1
  <2>3. i \in 1..Len(h) - v \/ i = Len(h) - v + 1
    BY <1>1
  <2> QED BY <2>1, <2>2, <2>3
<1>6. Rest(long, v) = Append(short, e)
  <2>1. Len(h) + 1 - v = Len(h) - v + 1
    BY <1>1
  <2> QED BY <1>3, <1>4, <1>5, <2>1, SeqEqual
<1> QED BY <1>6 DEF long, short

\* ... and loses its head when one more is seen.
LEMMA HeadOfRest ==
    ASSUME NEW T, NEW h \in Seq(T), NEW v \in Nat, v < Len(h)
    PROVE  /\ Rest(h, v) # <<>> /\ Head(Rest(h, v)) = h[v + 1]
           /\ Tail(Rest(h, v)) = Rest(h, v + 1)
<1>1. v + 1 \in 1..Len(h) /\ Len(h) \in v + 1 .. Len(h) /\ v \in 0..Len(h)
  BY LenProperties
<1>2. Rest(h, v) # <<>>
  BY <1>1, RestProperties, EmptySeq
<1>3. Head(Rest(h, v)) = h[v + 1] /\ Tail(Rest(h, v)) = Rest(h, v + 1)
  BY <1>1, HeadTailOfSubSeq DEF Rest
<1> QED BY <1>2, <1>3

\* The head of two sequences is that of the first.
LEMMA HeadTailOfConcat ==
    ASSUME NEW T, NEW s \in Seq(T), NEW t \in Seq(T), s # <<>>
    PROVE  /\ s \o t # <<>> /\ Head(s \o t) = Head(s)
           /\ Tail(s \o t) = Tail(s) \o t
<1> DEFINE st == s \o t
<1>1. /\ Len(s) \in Nat \ {0} /\ Len(t) \in Nat
      /\ st \in Seq(T) /\ Len(st) = Len(s) + Len(t)
      /\ \A i \in 1..Len(s) + Len(t) : st[i] = IF i <= Len(s) THEN s[i] ELSE t[i - Len(s)]
  BY EmptySeq, LenProperties, ConcatProperties
<1> HIDE DEF st
<1>2. st # <<>>
  BY <1>1, EmptySeq
<1>3. /\ Tail(st) \in Seq(T) /\ Len(Tail(st)) = Len(st) - 1
      /\ \A i \in 1..Len(Tail(st)) : Tail(st)[i] = st[i + 1]
      /\ Tail(s) \in Seq(T) /\ Len(Tail(s)) = Len(s) - 1
      /\ \A i \in 1..Len(Tail(s)) : Tail(s)[i] = s[i + 1]
  BY <1>1, <1>2, HeadTailProperties
<1> DEFINE rest == Tail(s) \o t
<1>4. /\ rest \in Seq(T) /\ Len(rest) = Len(s) - 1 + Len(t)
      /\ \A i \in 1..Len(s) - 1 + Len(t) :
            rest[i] = IF i <= Len(s) - 1 THEN Tail(s)[i] ELSE t[i - (Len(s) - 1)]
  BY <1>1, <1>3, ConcatProperties
<1> HIDE DEF rest
<1>5. ASSUME NEW i \in 1..Len(rest) PROVE Tail(st)[i] = rest[i]
  <2>0. i \in 1..Len(s) - 1 + Len(t) /\ i + 1 \in 1..Len(s) + Len(t)
        /\ Tail(st)[i] = st[i + 1]
    BY <1>1, <1>3, <1>4
  <2>1. CASE i <= Len(s) - 1
    <3>1. i + 1 <= Len(s) /\ i \in 1..Len(Tail(s))
      BY <1>1, <1>3, <2>0, <2>1
    <3> QED BY <1>1, <1>3, <1>4, <2>0, <2>1, <3>1
  <2>2. CASE ~(i <= Len(s) - 1)
    <3>1. ~(i + 1 <= Len(s)) /\ i + 1 - Len(s) = i - (Len(s) - 1)
      BY <1>1, <2>0, <2>2
    <3> QED BY <1>1, <1>4, <2>0, <2>2, <3>1
  <2> QED BY <2>1, <2>2
<1>6. Tail(st) = rest
  BY <1>1, <1>3, <1>4, <1>5, SeqEqual
<1>7. Head(st) = Head(s)
  <2>1. 1 \in 1..Len(s) + Len(t) /\ 1 <= Len(s)
    BY <1>1
  <2> QED BY <1>1, <1>2, <2>1
<1> QED BY <1>2, <1>6, <1>7 DEF st, rest

\* The presenter is given the lines in the order in which they were handed over, so the
\* next that it is given is the first of those it has not seen.
LEMMA NextSeen ==
    ASSUME AppInv
    PROVE  /\ Len(viewed) \in 0..Len(handed)
           /\ \A i \in 1..Len(viewed) : viewed[i] = i
           /\ qf.deq # <<>> =>
                 Len(viewed) < Len(handed) /\ Head(qf.deq) = Len(viewed) + 1
<1> DEFINE n == Len(viewed)
           k == Len(qf.deq)
           m == LM!Handed
           count == [i \in 1..m |-> i]
<1>1. /\ viewed \in Seq(LM!Message) /\ qf.deq \in Seq(LM!Message)
      /\ pushed \in Nat /\ pushed = Len(handed) /\ viewed \o qf.deq = count
  BY PartsAssumptions
     DEF AppInv, PartsInv, MainInv, LM!TypeInv, LM!TypeOK, LM!Qf!TypeOK, LM!ViewFifo,
         LM!BoundsAssumption
<1>2. m \in Nat /\ m <= pushed
  BY <1>1 DEF AppInv, PartsInv, LM!TypeInv, LM!PumpHolds, LM!Handed
<1> HIDE DEF m
<1>3. count \in Seq(Nat) /\ Len(count) = m
  <2>1. count \in [1..m -> Nat]
    OBVIOUS
  <2> QED BY <1>2, <2>1, SeqDef
<1>4. \A i \in 1..m : count[i] = i
  OBVIOUS
<1>5. /\ n \in Nat /\ k \in Nat /\ Len(viewed \o qf.deq) = n + k
      /\ \A i \in 1..n + k :
            (viewed \o qf.deq)[i] = IF i <= n THEN viewed[i] ELSE qf.deq[i - n]
  <2> HIDE DEF count
  <2>1. viewed \in Seq(LM!Message) /\ qf.deq \in Seq(LM!Message)
    BY <1>1
  <2>2. n \in Nat /\ k \in Nat
    BY <2>1, LenProperties
  <2>3. /\ Len(viewed \o qf.deq) = Len(viewed) + Len(qf.deq)
        /\ \A i \in 1..Len(viewed) + Len(qf.deq) :
              (viewed \o qf.deq)[i] =
                  IF i <= Len(viewed) THEN viewed[i] ELSE qf.deq[i - Len(viewed)]
    BY <2>1, ConcatProperties
  <2> QED BY <2>2, <2>3
<1> HIDE DEF count, n, k
<1>6. m = n + k
  BY <1>1, <1>3, <1>5
<1>7. ASSUME NEW i \in 1..n PROVE viewed[i] = i
  <2>1. i \in 1..n + k /\ i <= n
    BY <1>5
  <2> QED BY <1>1, <1>4, <1>5, <1>6, <2>1
<1>8. ASSUME qf.deq # <<>> PROVE n < Len(handed) /\ Head(qf.deq) = n + 1
  <2>1. k \in Nat \ {0}
    BY <1>1, <1>8, EmptySeq DEF k
  <2>2. n + 1 \in 1..n + k /\ ~(n + 1 <= n) /\ (n + 1) - n = 1
    BY <1>5, <2>1
  <2>3. qf.deq[1] = n + 1
    BY <1>1, <1>4, <1>5, <1>6, <2>2
  <2>4. Head(qf.deq) = qf.deq[1]
    BY <1>1, <1>8
  <2> QED BY <1>1, <1>2, <1>5, <1>6, <2>1, <2>3, <2>4
<1> QED BY <1>1, <1>2, <1>5, <1>6, <1>7, <1>8 DEF n

seen == [i \in 1..Len(viewed) |-> handed[viewed[i]]]

\* What was shown is the beginning of what was handed over.
LEMMA SeenProperties ==
    ASSUME AppInv
    PROVE  /\ seen \in Seq(LS!Line) /\ Len(seen) = Len(viewed)
           /\ \A i \in 1..Len(viewed) : seen[i] = handed[i]
<1>1. /\ handed \in Seq(LS!Line) /\ Len(viewed) \in Nat /\ Len(viewed) <= Len(handed)
      /\ Len(handed) \in Nat /\ \A i \in 1..Len(viewed) : viewed[i] = i
  <2>1. handed \in Seq(LS!Line)
    BY DEF AppInv, PartsInv, LS!DataInv, LS!Q!TypeOK
  <2> QED BY <2>1, NextSeen, LenProperties
<1>2. \A i \in 1..Len(viewed) : seen[i] = handed[i] /\ handed[i] \in LS!Line
  <2>1. \A i \in 1..Len(viewed) : i \in 1..Len(handed)
    BY <1>1
  <2> QED BY <1>1, <2>1, ElementOfSeq DEF seen
<1>3. seen \in [1..Len(viewed) -> LS!Line]
  BY <1>2 DEF seen
<1> HIDE DEF seen
<1>4. seen \in Seq(LS!Line) /\ Len(seen) = Len(viewed)
  BY <1>1, <1>3, SeqDef
<1> QED BY <1>2, <1>4

\* A step reads a line into the pipe, shows the line at its head, or moves a line on
\* within it.
LEMMA PipeStep == AppInv /\ AppInv' /\ [Next]_vars => [Lines!Next]_<<unseen, seen>>
<1> SUFFICES ASSUME AppInv, AppInv', [Next]_vars
             PROVE  [Lines!Next]_<<unseen, seen>>
  OBVIOUS
<1> DEFINE v == Len(viewed)
<1>0. /\ handed \in Seq(LS!Line) /\ messages.deq \in Seq(LS!Line)
      /\ handed' \in Seq(LS!Line)
      /\ v \in 0..Len(handed) /\ Len(handed) \in Nat /\ v \in Nat
      /\ Rest(handed, v) \in Seq(LS!Line)
  <2>1. /\ handed \in Seq(LS!Line) /\ messages.deq \in Seq(LS!Line)
        /\ handed' \in Seq(LS!Line)
    BY DEF AppInv, PartsInv, LS!DataInv, LS!Q!TypeOK
  <2>2. v \in 0..Len(handed) /\ Len(handed) \in Nat /\ v \in Nat
    BY <2>1, NextSeen, LenProperties
  <2> QED BY <2>1, <2>2, RestProperties
<1>1. unseen = Rest(handed, v) \o messages.deq
  BY DEF unseen, Rest
<1>2. unseen' = Rest(handed', Len(viewed')) \o messages'.deq
  BY DEF unseen, Rest
<1>3. [LS!Next]_(LS!vars) /\ [LM!Next]_(LM!vars)
  BY StepsOfParts DEF session, model, LS!vars, LS!bounds, LM!vars, LM!atomics, LM!progress
<1>4. CASE UNCHANGED session
  <2>1. CASE viewed' = viewed
    BY <1>4, <2>1 DEF session, unseen, seen
  <2>2. CASE qf.deq # <<>> /\ viewed' = Append(viewed, Head(qf.deq))
    <3>1. /\ v < Len(handed) /\ viewed' = Append(viewed, v + 1)
          /\ \A i \in 1..v : viewed[i] = i
      BY <2>2, NextSeen
    <3>2. viewed \in Seq(LM!Message) /\ v + 1 \in LM!Message
      <4>1. viewed \in Seq(LM!Message) /\ qf.deq \in Seq(LM!Message)
        BY DEF AppInv, PartsInv, LM!TypeInv, LM!TypeOK, LM!Qf!TypeOK
      <4>2. Head(qf.deq) \in LM!Message
        BY <2>2, <4>1, HeadTailProperties
      <4> QED BY <2>2, <4>1, <4>2, NextSeen
    <3>3. /\ Len(viewed') = v + 1
          /\ (\A i \in 1..v : viewed'[i] = viewed[i]) /\ viewed'[v + 1] = v + 1
      BY <3>1, <3>2, AppendProperties
    <3>4. /\ Rest(handed, v) # <<>> /\ Head(Rest(handed, v)) = handed[v + 1]
          /\ Tail(Rest(handed, v)) = Rest(handed, v + 1)
      BY <1>0, <3>1, HeadOfRest
    <3>5. /\ unseen # <<>> /\ Head(unseen) = handed[v + 1]
          /\ unseen' = Tail(unseen)
      <4> DEFINE rest == Rest(handed, v)
      <4>1. unseen = rest \o messages.deq /\ unseen' = Tail(rest) \o messages.deq
        BY <1>1, <1>2, <1>4, <3>3, <3>4 DEF session
      <4>2. rest \in Seq(LS!Line) /\ rest # <<>> /\ Head(rest) = handed[v + 1]
        BY <1>0, <3>4
      <4> HIDE DEF rest
      <4>3. /\ rest \o messages.deq # <<>>
            /\ Head(rest \o messages.deq) = Head(rest)
            /\ Tail(rest \o messages.deq) = Tail(rest) \o messages.deq
        BY <1>0, <4>2, HeadTailOfConcat
      <4> QED BY <4>1, <4>2, <4>3
    <3>6. seen' = Append(seen, handed[v + 1])
      <4> DEFINE next == handed[v + 1]
      <4>1. next \in LS!Line
        <5>1. v + 1 \in 1..Len(handed)
          BY <1>0, <3>1
        <5> QED BY <1>0, <5>1, ElementOfSeq
      <4>2. /\ seen \in Seq(LS!Line) /\ Len(seen) = v
            /\ \A i \in 1..v : seen[i] = handed[i]
        BY SeenProperties
      <4>3. /\ seen' \in Seq(LS!Line) /\ Len(seen') = v + 1
            /\ \A i \in 1..v + 1 : seen'[i] = handed[i]
        <5>1. (AppInv => /\ seen \in Seq(LS!Line) /\ Len(seen) = Len(viewed)
                         /\ \A i \in 1..Len(viewed) : seen[i] = handed[i])'
          BY SeenProperties, PTL
        <5> QED BY <1>4, <3>3, <5>1 DEF session
      <4> HIDE DEF next, seen
      <4>4. /\ Append(seen, next) \in Seq(LS!Line) /\ Len(Append(seen, next)) = v + 1
            /\ \A i \in 1..v : Append(seen, next)[i] = handed[i]
            /\ Append(seen, next)[v + 1] = next
        BY <4>1, <4>2, AppendProperties
      <4>5. \A i \in 1..v + 1 : seen'[i] = Append(seen, next)[i]
        <5>1. \A i \in 1..v + 1 : i \in 1..v \/ i = v + 1
          BY <1>0
        <5> QED BY <4>3, <4>4, <5>1 DEF next
      <4>6. seen' = Append(seen, next)
        BY <4>3, <4>4, <4>5, SeqEqual
      <4> QED BY <4>6 DEF next
    <3> QED BY <3>5, <3>6 DEF Lines!Next, Lines!Show, seen
  <2> QED BY <1>3, <2>1, <2>2, PartsAssumptions, LM!ViewSteps DEF AppInv, PartsInv
<1>5. CASE viewed' = viewed
  <2>1. ASSUME handed' = handed PROVE seen' = seen
    BY <1>5, <2>1 DEF seen
  <2>2. ASSUME NEW line \in LS!Line, handed' = handed,
               messages'.deq = Append(messages.deq, line)
        PROVE  Lines!Read(line)
    <3>1. unseen' = Append(unseen, line)
      BY <1>0, <1>1, <1>2, <1>5, <2>2, PartsAssumptions, LM!LQf!AppendBehind
    <3> QED BY <2>1, <2>2, <3>1 DEF Lines!Read, seen
  <2>3. ASSUME messages.deq # <<>>, messages'.deq = Tail(messages.deq),
               handed' = Append(handed, Head(messages.deq))
        PROVE  unseen' = unseen /\ seen' = seen
    <3>1. Head(messages.deq) \in LS!Line
      BY <1>0, <2>3, HeadTailProperties
    <3>2. Rest(handed', v) = Append(Rest(handed, v), Head(messages.deq))
      BY <1>0, <2>3, <3>1, RestOfAppend
    <3>3. unseen' = unseen
      <4> DEFINE rest == Rest(handed, v)
      <4>1. /\ unseen = rest \o messages.deq
            /\ unseen' = Append(rest, Head(messages.deq)) \o Tail(messages.deq)
        BY <1>1, <1>2, <1>5, <2>3, <3>2
      <4>2. rest \in Seq(LS!Line)
        BY <1>0
      <4> HIDE DEF rest
      <4>3. Append(rest, Head(messages.deq)) \o Tail(messages.deq) = rest \o messages.deq
        <5>1. messages.deq \in Seq(LS!Line) /\ messages.deq # <<>>
          BY <1>0, <2>3
        <5> QED BY <4>2, <5>1, PartsAssumptions, LM!LQf!HeadToBack
      <4> QED BY <4>1, <4>3
    <3>4. \A i \in 1..v : viewed[i] \in 1..Len(handed)
      BY <1>0, NextSeen
    <3>5. \A i \in 1..Len(handed) : handed'[i] = handed[i]
      BY <1>0, <2>3, <3>1, AppendProperties
    <3> QED BY <1>5, <3>3, <3>4, <3>5 DEF seen
  <2>4. ASSUME messages'.deq = messages.deq, handed' = handed
        PROVE  unseen' = unseen /\ seen' = seen
    BY <1>1, <1>2, <1>5, <2>1, <2>4
  <2>5. LS!Line = Session!Line
    BY SameConnections
  <2> HIDE DEF seen
  <2> QED
    BY <1>3, <2>2, <2>3, <2>4, <2>5, PartsAssumptions, LS!LineSteps
       DEF AppInv, PartsInv, Lines!Next
<1> QED BY <1>3, <1>4, <1>5, StepsOfParts DEF model, LM!PushMessage

\* The program implements LinePipe: for any ports and any number of connections, lines,
\* requests and saves, every line that is read from a port is shown once, in the order
\* of the reads.
THEOREM LinesReachView == Spec => ImplementsLinePipe
<1>1. Init => Lines!Init
  <2> SUFFICES ASSUME Init PROVE Lines!Init
    OBVIOUS
  <2>1. viewed = <<>> /\ handed = <<>> /\ messages.deq = <<>>
    <3>1. viewed = <<>>
      BY StartOfParts DEF LM!Init
    <3>2. handed = <<>> /\ LS!Q!Init
      BY StartOfParts DEF LS!Init
    <3> QED BY <3>1, <3>2 DEF LS!Q!Init
  <2>2. Len(viewed) = 0 /\ Len(handed) = 0
    BY <2>1, EmptySeq
  <2>3. unseen = <<>>
    <3>1. SubSeq(handed, 0 + 1, 0) = <<>>
      BY SubSeqEmpty
    <3>2. <<>> \o <<>> = <<>>
      BY EmptySeq, ConcatEmptySeq
    <3> QED BY <2>1, <2>2, <3>1, <3>2 DEF unseen
  <2>4. seen = <<>>
    <3>1. seen = [i \in 1..0 |-> handed[viewed[i]]]
      BY <2>2 DEF seen
    <3> QED BY <3>1
  <2> QED BY <2>3, <2>4 DEF Lines!Init, seen
<1>2. AppInv /\ AppInv' /\ [Next]_vars => [Lines!Next]_<<unseen, seen>>
  BY PipeStep
<1> QED
  BY <1>1, <1>2, AppInvariant, PTL DEF Spec, ImplementsLinePipe, Lines!Spec, seen

-----------------------------------------------------------------------------
(* The panel.  The actions that it composes are those that the lemmas of    *)
(* SerialSessionProofs are about.                                           *)

\* A name with its settings is never "nothing".
LEMMA PanelAssumptions == LU!SessionAssumption
  BY PanelAssumption DEF LU!SessionAssumption, Targets, NoTarget

\* The operations on the connections.
LEMMA SamePanelConnections ==
    /\ \A s, c :
          /\ S!C!Open(s, c) = LU!C!Open(s, c)
          /\ S!C!connectToClient(s, c) = LU!C!connectToClient(s, c)
          /\ S!C!disconnect(s, c) = LU!C!disconnect(s, c)
          /\ S!C!Close(s, c) = LU!C!Close(s, c)
          /\ S!C!Read(s, c) = LU!C!Read(s, c)
          /\ S!C!Post(s, c) = LU!C!Post(s, c)
          /\ S!C!BeginHandler(s) = LU!C!BeginHandler(s)
          /\ S!C!Pop(s) = LU!C!Pop(s)
          /\ S!C!LinesArrive(c) = LU!C!LinesArrive(c)
          /\ S!C!ReadFails(c) = LU!C!ReadFails(c)
    /\ S!Line = LU!Line /\ S!Conns = LU!Conns
  BY DEF S!C!Open, LU!C!Open, S!C!connectToClient, LU!C!connectToClient,
         S!C!disconnect, LU!C!disconnect, S!C!Close, LU!C!Close,
         S!C!isConnected, LU!C!isConnected, S!C!Read, LU!C!Read,
         S!C!Complete, LU!C!Complete, S!C!AtOnce, LU!C!AtOnce,
         S!C!Post, LU!C!Post, S!C!BeginHandler, LU!C!BeginHandler,
         S!C!Pop, LU!C!Pop, S!C!LinesArrive, LU!C!LinesArrive,
         S!C!ReadFails, LU!C!ReadFails,
         S!Line, LU!Line, S!Conns, LU!Conns

\* The methods that the panel and main() call.
LEMMA SamePanelGui ==
    /\ S!Start => LU!Start
    /\ \A port \in Targets : S!Connect(port) => LU!Connect(port)
    /\ S!Disconnect => LU!Disconnect
    /\ S!Stop => LU!Stop
    /\ S!StopSteps => LU!StopSteps
<1> USE DEF S!running, LU!running, S!bounds, LU!bounds
<1>1. S!Start => LU!Start
  BY DEF S!Start, LU!Start
<1>2. \A port \in Targets : S!Connect(port) => LU!Connect(port)
  BY SamePanelConnections DEF S!Connect, LU!Connect, S!Post, LU!Post
<1>3. S!Disconnect => LU!Disconnect
  BY SamePanelConnections DEF S!Disconnect, LU!Disconnect, S!Post, LU!Post
<1>4. S!Stop => LU!Stop
  BY SamePanelConnections DEF S!Stop, LU!Stop, S!Post, LU!Post
<1>5. S!StopSteps => LU!StopSteps
  BY DEF S!StopSteps, LU!StopSteps, S!RequestPumpStop, LU!RequestPumpStop,
         S!StopContext, LU!StopContext, S!JoinIo, LU!JoinIo
<1> QED BY <1>1, <1>2, <1>3, <1>4, <1>5

\* The io thread.
LEMMA SamePanelIo ==
    /\ S!HandleConnect => LU!HandleConnect
    /\ S!OpenPort => LU!OpenPort
    /\ S!OpenFails => LU!OpenFails
    /\ S!HandleClose => LU!HandleClose
    /\ S!HandleLine => LU!HandleLine
    /\ S!ReadOn => LU!ReadOn
    /\ S!HandleError => LU!HandleError
    /\ S!IoExit => LU!IoExit
<1> USE SamePanelConnections
    DEF S!Runs, LU!Runs, S!contextStopped, LU!contextStopped,
        S!closeConnection, LU!closeConnection, S!NoConn, LU!NoConn,
        S!bounds, LU!bounds
<1>1. S!HandleConnect => LU!HandleConnect
  BY DEF S!HandleConnect, LU!HandleConnect
<1>2. S!OpenPort => LU!OpenPort
  BY DEF S!OpenPort, LU!OpenPort
<1>3. S!OpenFails => LU!OpenFails
  BY DEF S!OpenFails, LU!OpenFails
<1>4. S!HandleClose => LU!HandleClose
  BY DEF S!HandleClose, LU!HandleClose
<1>5. S!HandleLine => LU!HandleLine
  BY DEF S!HandleLine, LU!HandleLine, S!Q!PushBack, LU!Q!PushBack,
         S!Q!Section, LU!Q!Section
<1>6. S!ReadOn => LU!ReadOn
  BY DEF S!ReadOn, LU!ReadOn, S!Q!NotifyOne, LU!Q!NotifyOne,
         S!Q!Goto, LU!Q!Goto
<1>7. S!HandleError => LU!HandleError
  BY DEF S!HandleError, LU!HandleError
<1>8. S!IoExit => LU!IoExit
  BY DEF S!IoExit, LU!IoExit
<1> QED BY <1>1, <1>2, <1>3, <1>4, <1>5, <1>6, <1>7, <1>8

\* The message pump, the devices, and spurious wakeups.
LEMMA SamePanelPump ==
    /\ S!PumpTest => LU!PumpTest
    /\ S!PumpWait => LU!PumpWait
    /\ S!PumpTimeout => LU!PumpTimeout
    /\ S!PumpDrained => LU!PumpDrained
    /\ S!PumpPush => LU!PumpPush
    /\ S!PumpSpuriousWakeup => LU!PumpSpuriousWakeup
    /\ S!Device => LU!Device
<1> USE DEF S!PumpUnchanged, LU!PumpUnchanged, S!bounds, LU!bounds,
            S!Q!Goto, LU!Q!Goto
<1>1. S!PumpTest => LU!PumpTest
  BY DEF S!PumpTest, LU!PumpTest, S!stopRequested, LU!stopRequested
<1>2. S!PumpWait => LU!PumpWait
  BY DEF S!PumpWait, LU!PumpWait, S!Q!WaitForReturns, LU!Q!WaitForReturns,
         S!Q!WaitBlocks, LU!Q!WaitBlocks, S!Q!Ready, LU!Q!Ready
<1>3. S!PumpTimeout => LU!PumpTimeout
  BY DEF S!PumpTimeout, LU!PumpTimeout, S!Q!Expire, LU!Q!Expire
<1>4. S!PumpDrained => LU!PumpDrained
  BY DEF S!PumpDrained, LU!PumpDrained
<1>5. S!PumpPush => LU!PumpPush
  BY DEF S!PumpPush, LU!PumpPush, S!Q!PopFront, LU!Q!PopFront,
         S!Q!Section, LU!Q!Section
<1>6. S!PumpSpuriousWakeup => LU!PumpSpuriousWakeup
  BY DEF S!PumpSpuriousWakeup, LU!PumpSpuriousWakeup, S!Q!SpuriousWakeup,
         LU!Q!SpuriousWakeup
<1>7. S!Device => LU!Device
  BY SamePanelConnections DEF S!Device, LU!Device
<1> QED BY <1>1, <1>2, <1>3, <1>4, <1>5, <1>6, <1>7

\* Where the program starts.
LEMMA SamePanelInit == S!Init => LU!Init
  BY DEF S!Init, LU!Init, S!C!Init, LU!C!Init, S!Q!Init, LU!Q!Init,
         S!NoConn, LU!NoConn, S!Conns, LU!Conns

-----------------------------------------------------------------------------
(* The steps of the panel.                                                  *)

\* The panel asks only for a port of the list, with one of the settings.
ChoiceInv ==
    /\ frame \in {"out", "input"}
    /\ view \in [state : {"Disconnected", "Connecting", "Connected", "Error"},
                 ports : SUBSET Names]
    /\ selectedPort \in Names \cup {NoPort} /\ options \in Settings
    /\ listed \subseteq Names

\* What a step is to the session, and the history it leaves.
Asks(what) == asked' = what /\ UNCHANGED <<target, blamed>>
Quiet ==
    /\ \/ LU!Start \/ LU!StopSteps \/ LU!HandleConnect \/ LU!HandleClose
       \/ LU!HandleLine \/ LU!ReadOn \/ LU!IoExit
       \/ LU!PumpThread \/ LU!PumpSpuriousWakeup \/ LU!Device \/ UNCHANGED LU!vars
    /\ UNCHANGED <<asked, target, blamed>>
Opens ==
    /\ LU!OpenPort
    /\ target' = [target EXCEPT ![connection'] = snap.port] /\ UNCHANGED <<asked, blamed>>
OpeningFails == LU!OpenFails /\ blamed' = LU!NoConn /\ UNCHANGED <<asked, target>>
Fails ==
    /\ LU!HandleError
    /\ blamed' = IF Head(io.ready).result = "aborted" THEN blamed ELSE Head(io.ready).conn
    /\ UNCHANGED <<asked, target>>

PanelStep ==
    \/ \E port \in Targets : LU!Connect(port) /\ Asks(port)
    \/ LU!Disconnect /\ Asks(NoTarget)
    \/ LU!Stop /\ UNCHANGED <<asked, target, blamed>>
    \/ Quiet \/ Opens \/ OpeningFails \/ Fails

\* Every step of the panel is one of these.
LEMMA PanelSteps ==
    ASSUME snap.state \in {"Disconnected", "Connecting", "Connected", "Error"},
           ChoiceInv, [PanelNext]_panelVars
    PROVE  ChoiceInv' /\ PanelStep
<1> USE DEF panel, history
<1>1. CASE BeginFrame \/ SelectPort \/ SelectSettings \/ NoInput
           \/ ListChanges \/ UNCHANGED panelVars
  <2>1. PanelStep
    BY <1>1 DEF BeginFrame, SelectPort, SelectSettings, NoInput,
                ListChanges, panelVars, session, PanelStep, Quiet, LU!vars, LU!bounds
  <2>2. ChoiceInv'
    BY <1>1 DEF BeginFrame, SelectPort, SelectSettings, NoInput,
                ListChanges, panelVars, EndFrame, NoView, ChoiceInv
  <2> QED BY <2>1, <2>2
<1>2. CASE ConnectButton
  <2>1. <<selectedPort, options>> \in Targets
    BY <1>2 DEF ConnectButton, Targets, ChoiceInv
  <2>2. PanelStep
    BY <1>2, <2>1, SamePanelGui DEF ConnectButton, PanelStep, Asks
  <2> QED BY <1>2, <2>2 DEF ConnectButton, EndFrame, NoView, ChoiceInv
<1>3. CASE DisconnectButton
  <2>1. PanelStep
    BY <1>3, SamePanelGui DEF DisconnectButton, PanelStep, Asks
  <2> QED BY <1>3, <2>1 DEF DisconnectButton, EndFrame, NoView, ChoiceInv
<1>4. CASE SessionStart \/ SessionStop
  <2>1. PanelStep
    BY <1>4, SamePanelGui DEF SessionStart, SessionStop, PanelStep, Quiet
  <2> QED BY <1>4, <2>1 DEF SessionStart, SessionStop, ChoiceInv
<1>5. CASE Others
  <2>1. S!PumpThread => LU!PumpThread
    BY SamePanelPump DEF S!PumpThread, LU!PumpThread
  <2>2. PanelStep
    BY <1>5, <2>1, SamePanelPump DEF Others, PanelStep, Quiet
  <2> QED BY <1>5, <2>2 DEF Others, ChoiceInv
<1>6. CASE SessionIo
  <2>1. PanelStep
    BY <1>6, SamePanelIo, SamePanelConnections
       DEF SessionIo, IoThread, OpenPort, OpenFails, HandleError,
           PanelStep, Quiet, Opens, OpeningFails, Fails, S!NoConn, LU!NoConn
  <2> QED BY <1>6, <2>1 DEF SessionIo, IoThread, OpenPort, OpenFails,
                            HandleError, ChoiceInv
<1> QED BY <1>1, <1>2, <1>3, <1>4, <1>5, <1>6 DEF PanelNext

\* They are steps of the session.
LEMMA PanelStepsSession == PanelStep => [LU!Next]_(LU!vars)
  BY DEF PanelStep, Quiet, Opens, OpeningFails, Fails, LU!Next, LU!IoThread

-----------------------------------------------------------------------------
(* What the panel shows and leads to.                                       *)

\* While the user may press a button, the last request that waits asks for what was
\* pressed last, and when none waits the session shows that.  The session starts once.
RequestsInv ==
    /\ gui # "stopped" => starts = 1
    /\ gui = "idle" \/ starts = 0 =>
          /\ LU!LastAsks(io.ready, asked)
          /\ LU!AllRead(io.ready) => snap.port = asked

\* The port that is open is the one shown, and the error shown is not its own.
ShownInv ==
    /\ target \in [LU!Conns -> Targets \cup {NoTarget}]
    /\ asked \in Targets \cup {NoTarget} /\ blamed \in LU!Conns \cup {LU!NoConn}
    /\ \A c \in LU!open : target[c] = snap.port
    /\ LU!open # {} => \/ snap.state = "Connected"
                       \/ snap.state = "Error" /\ blamed \notin LU!open \cup {LU!NoConn}

SessionParts == LU!SessionInv /\ LU!DataInv /\ LU!LinesInOrder
PanelInv == SessionParts /\ ChoiceInv /\ RequestsInv /\ ShownInv

\* A button's request is the last; a handler shows what it serves.
LEMMA RequestsStep ==
    ASSUME SessionParts, RequestsInv, PanelStep
    PROVE  RequestsInv'
<1> USE PanelAssumptions
<1>0. LU!SessionInv /\ starts \in 0..1
  BY DEF SessionParts, LU!DataInv
<1>1. ASSUME NEW port \in Targets, LU!Connect(port), Asks(port) PROVE RequestsInv'
  <2>1. LU!LastAsks(io'.ready, port) /\ ~LU!AllRead(io'.ready)
    BY <1>0, <1>1, LU!AsksLast
  <2>2. gui' = gui /\ starts' = starts /\ asked' = port
    BY <1>1 DEF LU!Connect, Asks
  <2> QED BY <2>1, <2>2 DEF RequestsInv
<1>2. CASE LU!Disconnect /\ Asks(NoTarget)
  <2>1. LU!LastAsks(io'.ready, NoTarget) /\ ~LU!AllRead(io'.ready)
    BY <1>0, <1>2, LU!AsksLast
  <2>2. gui' = gui /\ starts' = starts /\ asked' = NoTarget
    BY <1>2 DEF LU!Disconnect, Asks
  <2> QED BY <2>1, <2>2 DEF RequestsInv
<1>3. CASE LU!Stop
  BY <1>3 DEF LU!Stop, LU!bounds, RequestsInv
<1>4. CASE Quiet \/ Opens \/ OpeningFails \/ Fails
  <2>1. LU!Serves /\ asked' = asked
    BY <1>0, <1>4, LU!ServingSteps
       DEF Quiet, Opens, OpeningFails, Fails, LU!IoThread
  <2>2. \/ starts' = starts /\ (gui' = "idle" => gui = "idle")
           /\ (gui' # "stopped" => gui # "stopped")
        \/ starts = 0 /\ starts' = 1
    <3>1. CASE LU!Start
      BY <1>0, <3>1 DEF LU!Start
    <3>2. CASE ~LU!Start
      <4>1. ~LU!StopSteps /\ ~LU!HandleClose => gui' = gui /\ starts' = starts
        BY <1>4, <3>2
           DEF Quiet, Opens, OpeningFails, Fails, LU!HandleConnect, LU!HandleLine,
               LU!ReadOn, LU!IoExit, LU!PumpThread, LU!PumpTest, LU!PumpWait,
               LU!PumpTimeout, LU!PumpDrained, LU!PumpPush, LU!PumpSpuriousWakeup,
               LU!PumpUnchanged, LU!Device, LU!OpenPort, LU!OpenFails, LU!HandleError,
               LU!vars, LU!bounds
      <4>2. LU!StopSteps => starts' = starts /\ gui' # "idle" /\ gui # "stopped"
        BY DEF LU!StopSteps, LU!RequestPumpStop, LU!StopContext, LU!JoinIo, LU!bounds
      <4>3. LU!HandleClose => /\ starts' = starts /\ gui' \in {gui, "closed"}
                              /\ gui # "stopped"
        BY DEF LU!HandleClose, LU!Runs, LU!contextStopped, LU!bounds
      <4> QED BY <4>1, <4>2, <4>3
    <3> QED BY <3>1, <3>2
  <2>3. gui = "idle" \/ starts = 0 =>
           LU!LastAsks(io'.ready, asked) /\ (LU!AllRead(io'.ready) => snap'.port = asked)
    BY <1>0, <2>1, LU!ServesLast DEF RequestsInv
  <2> QED BY <2>1, <2>2, <2>3 DEF RequestsInv
<1> QED BY <1>1, <1>2, <1>3, <1>4 DEF PanelStep

\* Names are closed before another is named, and only an error of an older connection
\* is shown over an open port.
LEMMA ShownStep ==
    ASSUME SessionParts, ShownInv, PanelStep
    PROVE  ShownInv'
<1> USE PanelAssumptions
<1>0. /\ LU!SessionInv /\ LU!SessionInv' /\ LU!PortStep
      /\ created \in Nat /\ LU!NoConn \notin LU!Conns /\ snap \in LU!Snapshot
  <2>1. LU!SessionInv
    BY DEF SessionParts
  <2>2. LU!SessionInv' /\ LU!PortStep
    BY <2>1, PanelStepsSession, LU!SessionInvStep
  <2> QED BY <2>1, <2>2, LU!PartsOf DEF LU!SessionInv, LU!ThreadsInv
<1>1. created' = created => LU!open' \subseteq LU!open
  BY <1>0 DEF LU!PortStep
<1>2. connection' = LU!NoConn => LU!open' = {}
  BY <1>0 DEF LU!SessionInv, LU!PortInv, LU!open
<1>3. ASSUME UNCHANGED <<target, blamed>>, asked' \in Targets \cup {NoTarget},
             (snap' = snap /\ LU!open' \subseteq LU!open) \/ LU!open' = {}
      PROVE  ShownInv'
  <2>1. \A c \in LU!open' : target'[c] = snap'.port
    BY <1>3 DEF ShownInv
  <2>2. LU!open' # {} => \/ snap'.state = "Connected"
                         \/ /\ snap'.state = "Error"
                            /\ blamed' \notin LU!open' \cup {LU!NoConn}
    BY <1>3 DEF ShownInv
  <2> QED BY <1>3, <2>1, <2>2 DEF ShownInv
<1>4. CASE \E port \in Targets : LU!Connect(port) /\ Asks(port)
  BY <1>1, <1>3, <1>4 DEF LU!Connect, Asks
<1>5. CASE LU!Disconnect /\ Asks(NoTarget)
  BY <1>1, <1>3, <1>5 DEF LU!Disconnect, Asks
<1>6. CASE LU!Stop /\ UNCHANGED <<asked, target, blamed>>
  BY <1>1, <1>3, <1>6 DEF LU!Stop, ShownInv
<1>7. CASE Quiet
  <2>1. CASE LU!HandleConnect \/ LU!HandleClose
    BY <1>2, <1>3, <1>7, <2>1 DEF LU!HandleConnect, LU!HandleClose, Quiet, ShownInv
  <2>2. CASE ~(LU!HandleConnect \/ LU!HandleClose)
    <3>1. snap' = snap /\ created' = created
      BY <1>7, <2>2
         DEF Quiet, LU!Start, LU!StopSteps, LU!RequestPumpStop, LU!StopContext,
             LU!JoinIo, LU!HandleLine, LU!ReadOn, LU!IoExit, LU!PumpThread, LU!PumpTest,
             LU!PumpWait, LU!PumpTimeout, LU!PumpDrained, LU!PumpPush,
             LU!PumpSpuriousWakeup, LU!PumpUnchanged, LU!Device, LU!vars
    <3> QED BY <1>1, <1>3, <1>7, <3>1 DEF Quiet, ShownInv
  <2> QED BY <2>1, <2>2
<1>8. CASE Opens
  <2>1. /\ created' = created + 1 /\ connection' = created + 1
        /\ snap' = [snap EXCEPT !.state = "Connected"]
    BY <1>8 DEF Opens, LU!OpenPort
  <2>2. LU!open' = {connection'} /\ connection' \in LU!Conns
    BY <1>0, <2>1 DEF LU!PortStep, LU!open
  <2>3. snap'.port = snap.port /\ snap'.state = "Connected"
        /\ snap.port \in Targets \cup {NoTarget}
    BY <1>0, <2>1 DEF LU!Snapshot
  <2> QED BY <1>8, <2>2, <2>3 DEF Opens, ShownInv
<1>9. CASE OpeningFails
  <2>1. LU!open' = {}
    BY <1>0, <1>1, <1>9
       DEF OpeningFails, LU!OpenFails, LU!SessionInv, LU!PortInv, LU!open
  <2> QED BY <1>9, <2>1 DEF OpeningFails, ShownInv
<1>10. CASE Fails
  <2>1. /\ Head(io.ready).conn \in LU!Conns \ LU!open'
        /\ LU!open' \subseteq LU!open
        /\ snap' = IF Head(io.ready).result = "aborted" THEN snap
                   ELSE [snap EXCEPT !.state = "Error", !.error = Head(io.ready).result]
    BY <1>0, <1>1, <1>10, LU!HandleErrorKeeps DEF Fails, LU!HandleError
  <2>2. CASE Head(io.ready).result = "aborted"
    BY <1>3, <1>10, <2>1, <2>2 DEF Fails, ShownInv
  <2>3. CASE Head(io.ready).result # "aborted"
    <3>1. snap'.port = snap.port /\ snap'.state = "Error"
      BY <1>0, <2>1, <2>3 DEF LU!Snapshot
    <3>2. blamed' = Head(io.ready).conn /\ target' = target /\ asked' = asked
      BY <1>10, <2>3 DEF Fails
    <3> QED BY <1>0, <2>1, <3>1, <3>2 DEF ShownInv
  <2> QED BY <2>2, <2>3
<1> QED BY <1>4, <1>5, <1>6, <1>7, <1>8, <1>9, <1>10 DEF PanelStep

\* The program starts with nothing asked for and nothing shown.
LEMMA PanelStart == PanelInit => PanelInv
<1> SUFFICES ASSUME PanelInit PROVE PanelInv
  OBVIOUS
<1>1. LU!Init
  BY SamePanelInit DEF PanelInit
<1>2. SessionParts /\ LU!open = {}
  BY <1>1, PanelAssumptions, LU!SessionInvInit, LU!LinesInit DEF SessionParts
<1>3. ChoiceInv
  BY DEF PanelInit, NoView, ChoiceInv
<1>4. RequestsInv
  <2>1. io.ready = <<>> /\ snap.port = NoTarget /\ gui = "stopped"
    BY <1>1 DEF LU!Init, LU!C!Init
  <2>2. asked = NoTarget /\ LU!LastAsks(io.ready, asked)
    BY <2>1, EmptySeq DEF PanelInit, LU!LastAsks
  <2> QED BY <2>1, <2>2 DEF RequestsInv
<1>5. ShownInv
  BY <1>2 DEF PanelInit, ShownInv, S!Conns, LU!Conns, S!NoConn, LU!NoConn
<1> QED BY <1>2, <1>3, <1>4, <1>5 DEF PanelInv

\* So PanelInv holds whatever the user presses.
LEMMA PanelInvariant == PanelSpec => []PanelInv
<1>1. PanelInv /\ [PanelNext]_panelVars => PanelInv'
  <2> SUFFICES ASSUME PanelInv, [PanelNext]_panelVars PROVE PanelInv'
    OBVIOUS
  <2>1. ChoiceInv' /\ PanelStep
    BY PanelSteps DEF PanelInv, SessionParts, LU!SessionInv, LU!ThreadsInv, LU!Snapshot
  <2>2. SessionParts'
    BY <2>1, PanelAssumptions, PanelStepsSession, LU!SessionInvStep, LU!LinesStep
       DEF PanelInv, SessionParts
  <2> QED BY <2>1, <2>2, RequestsStep, ShownStep DEF PanelInv
<1> QED BY <1>1, PanelStart, PTL DEF PanelSpec

\* Whatever is pressed, on however old a view: once the requests are served, nothing is
\* open but the port and the settings asked for last, and the panel names them.
THEOREM LastRequestCounts == PanelSpec => []LastRequestWins
<1>1. PanelInv => LastRequestWins
  <2> SUFFICES ASSUME PanelInv, served
               PROVE  /\ \A c \in S!open : target[c] = asked
                      /\ snap.port = asked
    BY DEF LastRequestWins
  <2>1. LU!AllRead(io.ready) /\ gui = "idle"
    BY DEF served, pending, LU!AllRead, LU!LC!IsRead
  <2>2. S!open = LU!open
    BY DEF S!open, LU!open, S!Conns, LU!Conns
  <2> QED BY <2>1, <2>2 DEF PanelInv, RequestsInv, ShownInv
<1> QED BY <1>1, PanelInvariant, PTL

\* A port that is open is shown as Connected, or as an Error that another connection
\* has set, however the requests, the failures and the frames interleave.
THEOREM OpenPortIsShown == PanelSpec => []OpenIsShown
<1>1. PanelInv => OpenIsShown
  BY DEF PanelInv, ShownInv, OpenIsShown, S!open, LU!open, S!Conns, LU!Conns,
         S!NoConn, LU!NoConn
<1> QED BY <1>1, PanelInvariant, PTL

\* The panel's variables and the session's keep their types.
THEOREM PanelTypes == PanelSpec => []PanelTypeOK
<1>1. PanelInv => PanelTypeOK
  <2> SUFFICES ASSUME PanelInv PROVE PanelTypeOK
    OBVIOUS
  <2>1. LU!TypeOK
    BY PanelAssumptions, LU!TypesOf DEF PanelInv, SessionParts
  <2>2. S!TypeOK
    BY <2>1
       DEF S!TypeOK, LU!TypeOK, S!C!TypeOK, LU!C!TypeOK, S!C!Stream,
           LU!C!Stream, S!C!Completion, LU!C!Completion, S!C!Result,
           LU!C!Result, S!Q!TypeOK, LU!Q!TypeOK, S!Q!CvState, LU!Q!CvState,
           S!Conns, LU!Conns, S!NoConn, LU!NoConn, S!Line, LU!Line,
           S!Request, LU!Request, S!Snapshot, LU!Snapshot
  <2> QED BY <2>2 DEF PanelTypeOK, PanelInv, ChoiceInv, ShownInv, S!Conns, LU!Conns,
                      S!NoConn, LU!NoConn
<1> QED BY <1>1, PanelInvariant, PTL
=============================================================================
