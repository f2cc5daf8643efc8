----------------------------- MODULE Application -----------------------------
(***************************************************************************)
(* main(): the session and the model together, from presenter.start() to   *)
(* the return of main().                                                   *)
(*                                                                         *)
(* The session's message pump is the thread that calls pushMessage(): its  *)
(* pop of a line from the session's queue is also the call of              *)
(* pushMessage(), and it goes on only when that has returned.  The main    *)
(* thread is the gui of both: inside a method of one it calls none of the  *)
(* other.                                                                  *)
(***************************************************************************)
EXTENDS SessionVariables, Integers, Sequences, FiniteSets

CONSTANTS Ports,      \* as in SerialSession
          MaxSaves    \* as in Model

ASSUME ApplicationAssumption ==
    /\ NoPort \notin Ports
    /\ MaxConns \in Nat /\ MaxLines \in Nat /\ MaxRequests \in Nat /\ MaxSaves \in Nat

VARIABLES stopReceiving, stopSaving, savingThreadRunning, qf, qs, pc, exit, pushed,
          viewed, file, saves,                             \* of Model
          main   \* where main() is

model == <<stopReceiving, stopSaving, savingThreadRunning, qf, qs, pc, exit, pushed,
           viewed, file, saves>>
vars == <<session, model, main>>

Session == INSTANCE SerialSession WITH MaxStarts <- 1
Data == INSTANCE Model WITH MaxMessages <- MaxConns * MaxLines

\* The constructors, and presenter.start().
Init == Session!Init /\ Data!Init /\ main = "init"

-----------------------------------------------------------------------------
(* The main thread.                                                        *)

\* serialSession.start()
StartSession ==
    /\ main = "init" /\ main' = "frames"
    /\ Session!Start
    /\ UNCHANGED model

InFrames == main = "frames" /\ gui = "idle" /\ pc["gui"] = "idle"

\* The buttons of the panel, and the menu.
Panel ==
    /\ InFrames
    /\ (\E port \in Ports : Session!Connect(port)) \/ Session!Disconnect
    /\ UNCHANGED <<model, main>>

Menu ==
    /\ InFrames
    /\ Data!StartSaving \/ Data!StopSaving
    /\ UNCHANGED <<session, main>>

\* What stop() and the saving methods go on to do.
Continue ==
    /\ \/ Session!StopSteps /\ UNCHANGED model
       \/ /\ Data!SetRunning \/ Data!Launch \/ Data!ClearQs \/ Data!Join
             \/ (main = "stopPresenter" /\ Data!StopSaving) \/ Data!QuitNotSaving
          /\ UNCHANGED session
    /\ UNCHANGED main

\* The window was closed: serialSession.stop(), ...
CloseWindow ==
    /\ InFrames
    /\ main' = "stopSession"
    /\ Session!Stop
    /\ UNCHANGED model

\* ... then presenter.stop(), ...
StopPresenter ==
    /\ main = "stopSession" /\ gui = "stopped"
    /\ main' = "stopPresenter"
    /\ Data!Quit
    /\ UNCHANGED session

\* ... and the return, which destroys the objects that the threads share.
\* Mutant: the presenter is not stopped.
ReturnWithoutPresenterStop ==
    /\ main = "stopSession" /\ gui = "stopped" /\ pc["gui"] = "idle"
    /\ main' = "returned"
    /\ UNCHANGED <<session, model>>

Return ==
    /\ main = "stopPresenter" /\ pc["gui"] = "exited"
    /\ main' = "returned"
    /\ UNCHANGED <<session, model>>

MainThread == StartSession \/ Panel \/ Menu \/ Continue \/ CloseWindow \/ StopPresenter \/ Return

-----------------------------------------------------------------------------
(* The other threads.                                                      *)

Io == Session!IoThread /\ UNCHANGED <<model, main>>

\* m_model.pushMessage(m_messages.pop_front())
PumpPush ==
    /\ pc["pump"] = "idle"
    /\ Session!PumpPush
    /\ Data!PushMessage
    /\ UNCHANGED main

PumpInSession ==
    /\ pc["pump"] = "idle"
    /\ Session!PumpTest \/ Session!PumpWait \/ Session!PumpTimeout \/ Session!PumpDrained
    /\ UNCHANGED <<model, main>>

PumpInModel ==
    /\ Data!PushQs \/ Data!PushQf
    /\ UNCHANGED <<session, main>>

Pump == PumpPush \/ PumpInSession \/ PumpInModel

Receiver == Data!Receiver /\ UNCHANGED <<session, main>>
Saver == Data!Saver /\ UNCHANGED <<session, main>>

\* Devices and spurious wakeups.
Environment ==
    /\ \/ (Session!Device \/ Session!PumpSpuriousWakeup) /\ UNCHANGED model
       \/ Data!SpuriousWakeup /\ UNCHANGED session
    /\ UNCHANGED main

Next == MainThread \/ Io \/ Pump \/ Receiver \/ Saver \/ Environment

Spec == Init /\ [][Next]_vars

-----------------------------------------------------------------------------
TypeOK ==
    /\ Session!TypeOK /\ Data!TypeOK
    /\ main \in {"init", "frames", "stopSession", "stopPresenter", "returned"}

\* When main() returns, and destroys what the threads use, the io thread, the pump and
\* the saving thread have been joined and no port is open.  (Of the receiving thread,
\* which is detached, this cannot be said.)
JoinedAtReturn ==
    main = "returned" =>
        /\ ioPc = "off" /\ pump = "off" /\ pc["saver"] = "none"
        /\ Session!open = {}

\* The way of the lines through both queues, the pump and the receiver implements
\* LinePipe, across reconnections, starts and stops of saving and the end of main():
\* nothing is lost, repeated or overtaken on the way to the view.
unseen == SubSeq(handed, Len(viewed) + 1, Len(handed)) \o messages.deq
Lines == INSTANCE LinePipe
             WITH Lines <- Session!Line, pipe <- unseen,
                  shown <- [i \in 1..Len(viewed) |-> handed[viewed[i]]]
ImplementsLinePipe == Lines!Spec

=============================================================================
