----------------------- MODULE LinuxSerialPortScanner ------------------------
(***************************************************************************)
(* netlib::LinuxSerialPortScanner::getAvailableSerialPorts(): libudev      *)
(* lists the devices of subsystem tty.  Each is then opened by its sysfs   *)
(* path, and asked for its USB parent and for its node, in a step each.    *)
(* Devices come and go meanwhile, so that a listed device may be gone, or  *)
(* be there again, at each of them; and libudev may fail to answer of one  *)
(* that is there.                                                          *)
(*                                                                         *)
(* A device is its path in sysfs.  Its node is a path in /dev; a device    *)
(* that is plugged in elsewhere gets a new sysfs path and may get the node *)
(* that has become free.                                                   *)
(***************************************************************************)
EXTENDS Integers, Sequences, FiniteSets, SequencesExt

CONSTANTS Devices,  \* the tty devices
          HotPlug,  \* those that may come and go
          Usb,      \* those with a usb_device among their parents
          Node,     \* the node of each, or NoNode
          NoNode    \* udev_device_get_devnode() returned null

\* A node is the codes of its characters: the digits are 0..9, and every other character,
\* or a word that is told apart, has a code above.
Digit == 0..9
tty == 10     \* "/dev/tty"
printk == 11
NoDevice == "none"

VARIABLES pc,
          attached,        \* the devices that are there
          entries,         \* the list entries still to be looked up
          current,         \* the local `device'
          ports, result,   \* the local `ports', and what was returned
          before,          \* history: devices at the call
          changed,         \* history: those that changed since, or that gave no answer
          failed           \* history: libudev refused

vars == <<pc, attached, entries, current, ports, result, before, changed, failed>>

\* "/dev/tty" alone, "/dev/ttyprintk" and virtual consoles are no serial ports.
isSerialDeviceNode(node) ==
    /\ node # <<>> /\ node[1] = tty /\ node # <<tty>> /\ node # <<tty, printk>>
    /\ ~(\A i \in 2..Len(node) : node[i] \in Digit)

\* The order of std::string.
Before(a, b) ==
    \E n \in 0..Len(a) :
        /\ n <= Len(b) /\ \A i \in 1..n : a[i] = b[i]
        /\ IF n = Len(a) THEN n < Len(b) ELSE n < Len(b) /\ a[n + 1] < b[n + 1]

Init ==
    /\ pc = "idle" /\ attached = Devices \ HotPlug /\ entries = {}
    /\ current = NoDevice /\ ports = <<>> /\ result = <<>> /\ before = {} /\ changed = {}
    /\ failed = FALSE

-----------------------------------------------------------------------------
Call ==
    /\ pc = "idle" /\ pc' = "enumerate"
    /\ result' = <<>> /\ before' = attached /\ failed' = FALSE
    /\ UNCHANGED <<attached, entries, current, ports, changed>>

\* The local `ports', and the history of the call, end with it.
ReturnList(list) ==
    /\ pc' = "idle" /\ result' = list
    /\ ports' = <<>> /\ before' = {} /\ changed' = {}

\* udev_new() and the three calls of the enumerator; any of them may fail.
EnumerationFails ==
    /\ pc = "enumerate"
    /\ ReturnList(ports) /\ failed' = TRUE
    /\ UNCHANGED <<attached, entries, current>>

\* libudev walks through sysfs: it meets every device that is there all the time, and
\* may meet one that comes or goes.
Enumerate ==
    /\ pc = "enumerate" /\ pc' = "lookup"
    /\ \E unsure \in SUBSET changed : entries' = (before \ changed) \cup unsure
    /\ UNCHANGED <<attached, current, ports, result, before, changed, failed>>

\* udev_device_new_from_syspath() of the next entry.  It is null if the device is gone,
\* and may be if it is there.
\* Mutant: null ends the loop.
OpenStopsAtNull ==
    /\ pc = "lookup"
    /\ \E device \in entries :
          \/ /\ device \in attached
             /\ pc' = "parent" /\ current' = device
             /\ entries' = entries \ {device} /\ changed' = changed
          \/ /\ entries' = {} /\ changed' = changed \cup {device}
             /\ UNCHANGED <<pc, current>>
    /\ UNCHANGED <<attached, ports, result, before, failed>>

OpenDevice ==
    /\ pc = "lookup"
    /\ \E device \in entries :
          /\ entries' = entries \ {device}
          /\ \/ /\ device \in attached
                /\ pc' = "parent" /\ current' = device /\ changed' = changed
             \/ /\ changed' = changed \cup {device}
                /\ UNCHANGED <<pc, current>>
    /\ UNCHANGED <<attached, ports, result, before, failed>>

\* The loop goes on with the next entry.
NextEntry == pc' = "lookup" /\ current' = NoDevice

\* libudev may have no answer: it reads from sysfs again, where the device may be gone.
NoAnswer == NextEntry /\ ports' = ports /\ changed' = changed \cup {current}

isUsbSerialDevice ==
    /\ pc = "parent"
    /\ \/ /\ current \in Usb
          /\ pc' = "devnode" /\ UNCHANGED <<current, ports, changed>>
       \/ /\ current \notin Usb
          /\ NextEntry /\ UNCHANGED <<ports, changed>>
       \/ NoAnswer
    /\ UNCHANGED <<attached, entries, result, before, failed>>

GetDevnode ==
    /\ pc = "devnode"
    /\ \/ /\ NextEntry /\ changed' = changed
          /\ ports' = IF Node[current] # NoNode /\ isSerialDeviceNode(Node[current])
                      THEN Append(ports, Node[current]) ELSE ports
       \/ NoAnswer
    /\ UNCHANGED <<attached, entries, result, before, failed>>

\* std::sort: a permutation of the list, with no element before an earlier one.
Sort(list) ==
    LET n == Len(list)
        place == CHOOSE p \in Bijection(1..n, 1..n) :
                     \A i, j \in 1..n : i < j => ~Before(list[p[j]], list[p[i]]) IN
    [i \in 1..n |-> list[place[i]]]

\* std::unique and erase: of elements that are equal and follow each other, the first.
Unique(list) ==
    LET kept == {i \in 1..Len(list) : i = 1 \/ list[i] # list[i - 1]}
        place(k) == CHOOSE i \in kept : Cardinality({j \in kept : j < i}) = k - 1 IN
    [k \in 1..Cardinality(kept) |-> list[place(k)]]

\* Mutant: std::unique on the list as it was found.
ReturnUnsorted ==
    /\ pc = "lookup" /\ entries = {}
    /\ ReturnList(Unique(ports))
    /\ UNCHANGED <<attached, entries, current, failed>>

Return ==
    /\ pc = "lookup" /\ entries = {}
    /\ ReturnList(Unique(Sort(ports)))
    /\ UNCHANGED <<attached, entries, current, failed>>

\* A device is plugged in or unplugged.  No two of one node are there at once.
DeviceChanges ==
    /\ \E device \in HotPlug :
          /\ \/ device \in attached /\ attached' = attached \ {device}
             \/ /\ \A other \in attached : Node[other] = NoNode \/ Node[other] # Node[device]
                /\ attached' = attached \cup {device}
          /\ changed' = IF pc = "idle" THEN changed ELSE changed \cup {device}
    /\ UNCHANGED <<pc, entries, current, ports, result, before, failed>>

Next == \/ Call \/ EnumerationFails \/ Enumerate
        \/ OpenDevice \/ isUsbSerialDevice \/ GetDevnode \/ Return
        \/ DeviceChanges

Spec == Init /\ [][Next]_vars

-----------------------------------------------------------------------------
Nodes == {Node[device] : device \in Devices} \ {NoNode}

TypeOK ==
    /\ pc \in {"idle", "enumerate", "lookup", "parent", "devnode"}
    /\ attached \subseteq Devices /\ entries \subseteq Devices
    /\ current \in Devices \cup {NoDevice}
    /\ before \subseteq Devices /\ changed \subseteq Devices
    /\ ports \in Seq(Nodes) /\ result \in Seq(Nodes)

\* What is returned is in strictly increasing order, also if one node was met at two
\* places, with others between them, while its device was moved.
SortedUnique ==
    \A i, j \in 1..Len(result) : i < j => Before(result[i], result[j])

\* The serial ports of a set of devices, by the tests of the scanner and not by its
\* code: a USB device whose node is "/dev/tty" and more than a number, and not printk.
SerialPort ==
    {node \in Nodes \ {<<tty, printk>>} :
        node # <<>> /\ Head(node) = tty /\ Range(Tail(node)) \ Digit # {}}
SerialPorts(devices) == {Node[device] : device \in devices \cap Usb} \cap SerialPort

\* The scanner is to keep PortScanner's promise, of serial ports among all devices.
Scanner == INSTANCE PortScanner
               WITH Ports <- SerialPorts(Devices), devices <- SerialPorts(attached),
                    scanning <- pc # "idle", before <- SerialPorts(before),
                    changed <- SerialPorts(changed), found <- Range(result)
ScannerInit == Scanner!Init
ScannerStep == [Scanner!Next]_(Scanner!vars)
=============================================================================
