---------------------------- MODULE MCApplication ----------------------------
(* One connection: reconnections are explored in MCSerialSession.            *)
EXTENDS Application

CONSTANT ttyUSB0

MCPorts == {ttyUSB0}
=============================================================================
