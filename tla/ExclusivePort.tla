---------------------------- MODULE ExclusivePort ----------------------------
(***************************************************************************)
(* What a SerialSession promises of the ports: it holds at most one open,  *)
(* and goes from one to the next only by closing the first ("Apply and     *)
(* reconnect closes the current port before reopening it").  A port that   *)
(* was closed is not opened again by the same connection.                  *)
(***************************************************************************)
CONSTANT Conns

VARIABLES held,    \* the connections whose port is open
          closed   \* the connections that have closed theirs

Init == held = {} /\ closed = {}

Open(c) == held = {} /\ c \notin closed /\ held' = {c} /\ closed' = closed
Close(c) == held = {c} /\ held' = {} /\ closed' = closed \cup {c}

Next == \E c \in Conns : Open(c) \/ Close(c)

Spec == Init /\ [][Next]_<<held, closed>>
=============================================================================
