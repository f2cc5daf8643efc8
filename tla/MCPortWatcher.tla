---------------------------- MODULE MCPortWatcher ----------------------------
(* A small instance of PortWatcher: two ports, so that one can change while  *)
(* the other stays.                                                          *)
EXTENDS PortWatcher

CONSTANTS ttyUSB0, ttyUSB1

MCPorts == {ttyUSB0, ttyUSB1}
=============================================================================
