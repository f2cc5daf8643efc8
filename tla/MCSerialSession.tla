--------------------------- MODULE MCSerialSession ---------------------------
(* A small instance of SerialSession: two connections, so that the reads of  *)
(* the first complete while the second is open, and a restart, so that the   *)
(* handlers that stop() leaves behind run after it.                          *)
EXTENDS SerialSession

CONSTANT ttyUSB0

MCPorts == {ttyUSB0}
=============================================================================
