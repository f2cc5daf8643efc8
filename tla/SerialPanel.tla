----------------------------- MODULE SerialPanel -----------------------------
(***************************************************************************)
(* drawSerialPortPanel() over a SerialSession: what the user sees of the   *)
(* session and what the buttons then ask of it.                            *)
(*                                                                         *)
(* A frame copies the session's snapshot first and draws from the copy; by *)
(* the time a button of that frame is pressed, the io thread may have gone *)
(* on.  The user does one thing per frame.  What connect() is given, a     *)
(* port and its settings, is one of SerialSession's `Ports' here.          *)
(***************************************************************************)
EXTENDS SessionVariables, Integers, Sequences

CONSTANTS Names,     \* the names of serial ports
          Settings   \* the values of SerialOptions

ASSUME PanelAssumption ==
    /\ NoPort \notin Names
    /\ MaxConns \in Nat /\ MaxLines \in Nat /\ MaxRequests \in Nat

Targets == Names \X Settings
NoTarget == <<>>                         \* nothing to be opened
NoView == [state |-> "Disconnected", ports |-> {}]   \* between frames

VARIABLES frame,         \* "out", or "input" once the frame has its snapshot
          view,          \* the copy of the snapshot that the frame draws
          selectedPort, options,   \* the panel's statics
          listed,        \* m_snapshot.ports, which refresh() publishes
          asked,         \* history: what the last connect() asked for, NoTarget
                         \* after a disconnect()
          target,        \* history: what each connection was opened for
          blamed         \* history: the connection that set the last error

\* main() starts the session once.
S == INSTANCE SerialSession WITH Ports <- Targets, NoPort <- NoTarget, MaxStarts <- 1

panel == <<frame, view, selectedPort, options, listed>>
history == <<asked, target, blamed>>
panelVars == <<panel, history, session>>

PanelInit ==
    /\ S!Init
    /\ frame = "out" /\ view = NoView
    /\ selectedPort = NoPort /\ options \in Settings /\ listed = {}
    /\ asked = NoTarget /\ target = [c \in S!Conns |-> NoTarget] /\ blamed = S!NoConn

-----------------------------------------------------------------------------
(* The GUI thread, in main()'s loop.                                       *)

drawing == gui = "idle" /\ frame = "input"

BeginFrame ==
    /\ gui = "idle" /\ frame = "out"
    /\ frame' = "input"
    /\ view' = [state |-> snap.state, ports |-> listed]
    /\ selectedPort' = IF selectedPort \in listed THEN selectedPort ELSE NoPort
    /\ UNCHANGED <<options, listed, history, session>>

EndFrame == frame' = "out" /\ view' = NoView /\ UNCHANGED listed

SelectPort ==
    /\ drawing /\ EndFrame
    /\ selectedPort' \in view.ports
    /\ UNCHANGED <<options, history, session>>

SelectSettings ==
    /\ drawing /\ EndFrame
    /\ options' \in Settings
    /\ UNCHANGED <<selectedPort, history, session>>

\* Mutant: connects with the settings that the session shows.
ConnectWithOldSettings ==
    /\ drawing /\ EndFrame
    /\ view.state # "Connecting" /\ selectedPort # NoPort
    /\ S!Connect(<<selectedPort, IF snap.port = NoTarget THEN options ELSE snap.port[2]>>)
    /\ asked' = <<selectedPort, options>>
    /\ UNCHANGED <<selectedPort, options, target, blamed>>

\* "Connect", or "Apply and reconnect" if the view says Connected.
ConnectButton ==
    /\ drawing /\ EndFrame
    /\ view.state # "Connecting" /\ selectedPort # NoPort
    /\ S!Connect(<<selectedPort, options>>)
    /\ asked' = <<selectedPort, options>>
    /\ UNCHANGED <<selectedPort, options, target, blamed>>

DisconnectButton ==
    /\ drawing /\ EndFrame
    /\ view.state \in {"Connected", "Connecting"}
    /\ S!Disconnect
    /\ asked' = NoTarget
    /\ UNCHANGED <<selectedPort, options, target, blamed>>

NoInput == drawing /\ EndFrame /\ UNCHANGED <<selectedPort, options, history, session>>

\* Before the loop and after it.
SessionStart == S!Start /\ UNCHANGED <<panel, history>>
SessionStop ==
    /\ frame = "out"
    /\ S!Stop \/ S!StopSteps
    /\ UNCHANGED <<panel, history>>

-----------------------------------------------------------------------------
(* The other threads, and the history they leave.                          *)

IoThread ==
    /\ \/ S!HandleConnect \/ S!HandleClose \/ S!HandleLine \/ S!ReadOn \/ S!IoExit
    /\ UNCHANGED <<panel, history>>

OpenPort ==
    /\ S!OpenPort
    /\ target' = [target EXCEPT ![connection'] = snap.port]
    /\ UNCHANGED <<panel, asked, blamed>>

OpenFails == S!OpenFails /\ blamed' = S!NoConn /\ UNCHANGED <<panel, asked, target>>

HandleError ==
    /\ S!HandleError
    /\ blamed' = IF Head(io.ready).result = "aborted" THEN blamed ELSE Head(io.ready).conn
    /\ UNCHANGED <<panel, asked, target>>

SessionIo == IoThread \/ OpenPort \/ OpenFails \/ HandleError

Others ==
    /\ S!PumpThread \/ S!PumpSpuriousWakeup \/ S!Device
    /\ UNCHANGED <<panel, history>>

\* refresh() publishes a list, from this thread or from the watcher.
ListChanges ==
    /\ gui = "idle"
    /\ listed' \in SUBSET Names
    /\ UNCHANGED <<frame, view, selectedPort, options, history, session>>

PanelNext ==
    \/ BeginFrame \/ SelectPort \/ SelectSettings \/ ConnectButton \/ DisconnectButton
    \/ NoInput \/ SessionStart \/ SessionStop
    \/ SessionIo \/ Others \/ ListChanges

\* As in SerialSession; the user need not do anything, and may close the window.
Fairness ==
    /\ WF_panelVars(S!StopSteps /\ UNCHANGED <<panel, history>>)
    /\ WF_panelVars(SessionIo)
    /\ WF_panelVars(S!PumpThread /\ UNCHANGED <<panel, history>>)
    /\ SF_panelVars(S!PumpTimeout /\ UNCHANGED <<panel, history>>)

PanelSpec == PanelInit /\ [][PanelNext]_panelVars /\ Fairness

-----------------------------------------------------------------------------
PanelTypeOK ==
    /\ S!TypeOK
    /\ frame \in {"out", "input"}
    /\ view \in [state : {"Disconnected", "Connecting", "Connected", "Error"},
                 ports : SUBSET Names]
    /\ selectedPort \in Names \cup {NoPort} /\ options \in Settings
    /\ listed \subseteq Names
    /\ asked \in Targets \cup {NoTarget} /\ blamed \in S!Conns \cup {S!NoConn}
    /\ target \in [S!Conns -> Targets \cup {NoTarget}]

pending == {i \in 1..Len(io.ready) : "conn" \notin DOMAIN io.ready[i]}
served == gui = "idle" /\ ioPc = "run" /\ pending = {}

\* Whatever the user presses, and on however old a view: once the requests are served,
\* no port is open but with the name and the settings that were asked for last, and
\* the panel names that port, also if it could not be opened or has failed since.
LastRequestWins ==
    served => /\ \A c \in S!open : target[c] = asked
              /\ snap.port = asked

\* A port that is open is never shown as Disconnected or Connecting.  It is shown as
\* Error only if that error came from another connection: the failure of one that was
\* replaced, whose handler ran after the new port had been opened.
OpenIsShown ==
    ioPc = "run" /\ S!open # {} =>
        \/ snap.state = "Connected"
        \/ snap.state = "Error" /\ blamed \notin S!open \cup {S!NoConn}

\* A press of Connect opens the port or shows an error, unless the user asks for
\* something else meanwhile or closes the program.
ConnectTakesEffect ==
    \A t \in Targets :
        (asked = t) ~> (\/ \E c \in S!open : target[c] = t
                        \/ snap.state = "Error" \/ asked # t \/ gui # "idle")

-----------------------------------------------------------------------------
\* "Disconnect" && (isConnected || isBusy): a port that is open can be closed with that
\* button.  It cannot while the panel shows the late error of a replaced connection.
OpenCanBeClosed ==
    S!open # {} /\ gui = "idle" /\ ioPc = "run" => snap.state \in {"Connected", "Connecting"}
=============================================================================
