------------------------ MODULE WindowsCOMPortScanner ------------------------
(***************************************************************************)
(* netlib::WindowsCOMPortScanner::getAvailableSerialPorts(), called by     *)
(* several threads: Windows is asked for the set of the devices, then for  *)
(* the friendly name of each, which it writes to the scanner's member      *)
(* portName; the port's identifier is cut out of that.                     *)
(*                                                                         *)
(* The callers hold SerialSession's m_scannerMutex over the call, as       *)
(* refresh() does.                                                         *)
(***************************************************************************)
EXTENDS Integers, Sequences, FiniteSets, SequencesExt

CONSTANTS Callers, Devices,
          Number,      \* that of each device's COM port
          Description  \* that of each device, as words and signs

\* The port of a device, and the friendly name that Windows makes of it.
Identifier(device) == <<"COM", Number[device]>>
FriendlyName(device) == Description[device] \o <<"(">> \o Identifier(device) \o <<")">>

NoDevice == "none"
Nobody == "nobody"

VARIABLES pc, attached,
          lock,             \* who holds m_scannerMutex
          portName,         \* the buffer that all calls share
          entries, current, \* of each call: devices left, and the one in hand
          ports,            \* of each call: `ports', also after it has returned
          before, changed, failed  \* history of each call, as in PortScanner

history == <<before, changed, failed>>
vars == <<pc, attached, lock, portName, entries, current, ports, history>>

\* strstr for "COM", then strchr for ')' from there on; <<>> if one is missing.
Extract(name) ==
    LET com == {i \in 1..Len(name) : name[i] = "COM"}
        paren == {j \in 1..Len(name) : name[j] = ")" /\ \E i \in com : i < j} IN
    IF paren = {} THEN <<>> ELSE SubSeq(name, Min(com), Min(paren) - 1)

Move(c, from, to) == pc[c] = from /\ pc' = [pc EXCEPT ![c] = to]

Init ==
    /\ pc = [c \in Callers |-> "out"]
    /\ attached \in SUBSET Devices /\ lock = Nobody /\ portName = <<>>
    /\ entries = [c \in Callers |-> {}] /\ current = [c \in Callers |-> NoDevice]
    /\ ports = [c \in Callers |-> <<>>]
    /\ before = [c \in Callers |-> {}] /\ changed = [c \in Callers |-> {}]
    /\ failed = [c \in Callers |-> FALSE]

-----------------------------------------------------------------------------
\* The caller's lock_guard on m_scannerMutex.
LockScanner(c) == lock = Nobody /\ lock' = c
UnlockScanner(c) == lock' = IF lock = c THEN Nobody ELSE lock

\* Mutant: no caller takes m_scannerMutex.
CallUnlocked(c) ==
    /\ Move(c, "out", "classDevs")
    /\ ports' = [ports EXCEPT ![c] = <<>>]
    /\ before' = [before EXCEPT ![c] = attached] /\ failed' = [failed EXCEPT ![c] = FALSE]
    /\ UNCHANGED <<attached, lock, portName, entries, current, changed>>

Call(c) ==
    /\ Move(c, "out", "classDevs")
    /\ LockScanner(c)
    /\ ports' = [ports EXCEPT ![c] = <<>>]
    /\ before' = [before EXCEPT ![c] = attached] /\ failed' = [failed EXCEPT ![c] = FALSE]
    /\ UNCHANGED <<attached, portName, entries, current, changed>>

\* SetupDiGetClassDevs() collects the devices that are present ...
GetClassDevs(c) ==
    /\ Move(c, "classDevs", "next")
    /\ \E unsure \in SUBSET changed[c] :
          entries' = [entries EXCEPT ![c] = (before[c] \ changed[c]) \cup unsure]
    /\ UNCHANGED <<attached, lock, portName, current, ports, history>>

\* The call is over, and its locals and its history with it.
End(c, from, failure) ==
    /\ Move(c, from, "out")
    /\ UnlockScanner(c)
    /\ before' = [before EXCEPT ![c] = {}] /\ changed' = [changed EXCEPT ![c] = {}]
    /\ failed' = [failed EXCEPT ![c] = failure]
    /\ UNCHANGED <<attached, portName, entries, current, ports>>

\* ... or does not.
ClassDevsFail(c) == End(c, "classDevs", TRUE)

\* SetupDiGetDeviceRegistryPropertyA() writes the name, or fails: the device has been
\* removed, has no such property, or a name that is too long for the buffer.
Query(c) ==
    /\ pc[c] = "next"
    /\ \E device \in entries[c] :
          /\ entries' = [entries EXCEPT ![c] = @ \ {device}]
          /\ \/ /\ Move(c, "next", "extract")
                /\ current' = [current EXCEPT ![c] = device]
                /\ portName' = FriendlyName(device)
                /\ changed' = changed
             \/ /\ changed' = [changed EXCEPT ![c] = @ \cup {device}]
                /\ UNCHANGED <<pc, current, portName>>
    /\ UNCHANGED <<attached, lock, ports, before, failed>>

ExtractPort(c) ==
    /\ Move(c, "extract", "next")
    /\ ports' = IF Extract(portName) = <<>> THEN ports
                ELSE [ports EXCEPT ![c] = Append(@, Extract(portName))]
    /\ current' = [current EXCEPT ![c] = NoDevice]
    /\ UNCHANGED <<attached, lock, portName, entries, history>>

Return(c) == entries[c] = {} /\ End(c, "next", FALSE)

DeviceChanges ==
    /\ \E device \in Devices :
          /\ attached' = IF device \in attached THEN attached \ {device}
                         ELSE attached \cup {device}
          /\ changed' = [c \in Callers |->
                            IF pc[c] = "out" THEN {} ELSE changed[c] \cup {device}]
    /\ UNCHANGED <<pc, lock, portName, entries, current, ports, before, failed>>

getAvailableSerialPorts(c) ==
    Call(c) \/ GetClassDevs(c) \/ ClassDevsFail(c) \/ Query(c) \/ ExtractPort(c) \/ Return(c)

Next == (\E c \in Callers : getAvailableSerialPorts(c)) \/ DeviceChanges

Spec == Init /\ [][Next]_vars

-----------------------------------------------------------------------------
\* The port that a device with a "COM" in its description is mistaken for: there the
\* scanner cuts at the wrong place, and its own port is not listed.
Plain == {device \in Devices : "COM" \notin Range(Description[device])}
Mistaken == {Extract(FriendlyName(device)) : device \in Devices \ Plain}

\* The COM ports of a set of devices that the scanner can tell.
PortsOf(devices) == {Identifier(device) : device \in devices \cap Plain} \ Mistaken
Ports == PortsOf(Devices)

TypeOK ==
    /\ pc \in [Callers -> {"out", "classDevs", "next", "extract"}]
    /\ attached \subseteq Devices /\ lock \in Callers \cup {Nobody}
    /\ portName \in {<<>>} \cup {FriendlyName(device) : device \in Devices}
    /\ entries \in [Callers -> SUBSET Devices]
    /\ current \in [Callers -> Devices \cup {NoDevice}]
    /\ \A c \in Callers : pc[c] = "extract" <=> current[c] # NoDevice
    /\ ports \in [Callers -> Seq(Seq(STRING))]
    /\ before \in [Callers -> SUBSET Devices] /\ changed \in [Callers -> SUBSET Devices]
    /\ failed \in [Callers -> BOOLEAN]

\* A call finds in the shared buffer the name that it has asked for, and so lists no
\* port twice.
OwnNames ==
    \A c \in Callers :
        /\ pc[c] = "extract" => portName = FriendlyName(current[c])
        /\ \A i, j \in 1..Len(ports[c]) :
              ports[c][i] = ports[c][j] /\ ports[c][i] \notin Mistaken => i = j

\* Every call is to keep PortScanner's promise, of the ports that the scanner can tell.
Returned(c) == IF pc[c] = "out" THEN Range(ports[c]) \ Mistaken ELSE {}
Scanner(c) == INSTANCE PortScanner
                  WITH devices <- PortsOf(attached), scanning <- pc[c] # "out",
                       before <- PortsOf(before[c]), changed <- PortsOf(changed[c]),
                       found <- Returned(c), failed <- failed[c]
ScannerInit == \A c \in Callers : Scanner(c)!Init
ScannerStep == \A c \in Callers : [Scanner(c)!Next]_(Scanner(c)!vars)

-----------------------------------------------------------------------------
\* "Extract the COM identifier": what is listed is the port of some device.
ListedExist ==
    \A c \in Callers : Range(ports[c]) \subseteq {Identifier(device) : device \in Devices}
=============================================================================
