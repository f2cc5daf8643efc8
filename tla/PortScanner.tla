----------------------------- MODULE PortScanner -----------------------------
(***************************************************************************)
(* What one caller of ISerialPortScanner::getAvailableSerialPorts() may    *)
(* rely on, while ports come and go: the list holds every port that was    *)
(* there throughout the call and no port that was never there during it.   *)
(* If the system refuses the enumeration the list is empty, and it may be  *)
(* without a port that the system has refused to tell of; nothing tells    *)
(* the caller which of these happened.                                     *)
(***************************************************************************)
CONSTANT Ports

VARIABLES devices,   \* the ports that are attached
          scanning,  \* the caller is inside the call
          before,    \* what was attached when the call began
          changed,   \* what has come or gone since, or was refused
          found,     \* the list that the last call returned, as a set
          failed     \* the system refused

vars == <<devices, scanning, before, changed, found, failed>>

Found == {(before \ changed) \cup unsure : unsure \in SUBSET changed}

Init == /\ devices \in SUBSET Ports /\ scanning = FALSE
        /\ before = {} /\ changed = {}
        /\ found = {} /\ failed = FALSE

Begin == /\ ~scanning /\ scanning' = TRUE
         /\ before' = devices /\ changed' = {} /\ found' = {}
         /\ failed' = FALSE
         /\ UNCHANGED devices

Return == /\ scanning /\ scanning' = FALSE
          /\ \/ failed' = FALSE /\ found' \in Found
             \/ failed' = TRUE /\ found' = {}
          /\ before' = {} /\ changed' = {}
          /\ UNCHANGED devices

Change == /\ \E port \in Ports :
                /\ devices' = (devices \cup {port}) \ (devices \cap {port})
                /\ changed' = IF scanning THEN changed \cup {port} ELSE changed
          /\ UNCHANGED <<scanning, before, found, failed>>

Refuse == /\ scanning
          /\ \E port \in before : changed' = changed \cup {port}
          /\ UNCHANGED <<devices, scanning, before, found, failed>>

Next == Begin \/ Return \/ Change \/ Refuse

Spec == Init /\ [][Next]_vars
=============================================================================
