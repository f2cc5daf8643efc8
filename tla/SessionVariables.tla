--------------------------- MODULE SessionVariables ---------------------------
(***************************************************************************)
(* The variables of SerialSession, for the modules that put something on   *)
(* top of a session: the panel (SerialPanel) and main() (Application).     *)
(***************************************************************************)

CONSTANTS NoPort,    \* the empty string
          MaxConns, MaxLines, MaxRequests            \* as in SerialSession

VARIABLES gui, ioPc, pump, io, reader, connection, created, snap, messages, handed,
          requests, starts

session == <<gui, ioPc, pump, io, reader, connection, created, snap, messages, handed,
             requests, starts>>
=============================================================================
