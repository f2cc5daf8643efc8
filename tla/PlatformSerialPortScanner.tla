---------------------- MODULE PlatformSerialPortScanner -----------------------
(***************************************************************************)
(* netlib::PlatformSerialPortScanner: the scanner of the platform that the *)
(* program was built for.  The behaviours of this module are those of      *)
(* either scanner; the variables that only the other one has stay as they  *)
(* are.                                                                    *)
(***************************************************************************)
EXTENDS Integers, Sequences, FiniteSets

CONSTANTS UdevDevices, HotPlug, Usb, Node, NoNode,         \* the host of a Linux build
          Callers, ComDevices, Number, Description         \* the host of a Windows build

ASSUME UdevAssumption ==
    /\ Usb \subseteq UdevDevices /\ HotPlug \subseteq UdevDevices
    /\ Node \in [UdevDevices -> Seq(Nat) \cup {NoNode}] /\ NoNode \notin Seq(Nat)

VARIABLES platform,
          at, attached, entries, current, ports, before, altered, failed,  \* of both
          result,                                                          \* of Linux
          holder, portName                                                 \* of Windows

scanVars == <<platform, at, attached, entries, current, ports, before, altered, failed,
              result, holder, portName>>

Linux == INSTANCE LinuxSerialPortScanner
             WITH Devices <- UdevDevices, pc <- at, changed <- altered
Windows == INSTANCE WindowsCOMPortScanner
               WITH Devices <- ComDevices, pc <- at, changed <- altered, lock <- holder

\* No caller is "nobody", and no two devices have one COM port.
ASSUME ComAssumption ==
    /\ Windows!Nobody \notin Callers
    /\ Description \in [ComDevices -> Seq(STRING)]
    /\ \A d \in ComDevices :
          /\ Number[d] \in STRING \ {"COM", ")"}
          /\ \A e \in ComDevices \ {d} : Number[e] # Number[d]

linux == platform = "linux"
windows == platform = "windows"

ScanInit ==
    \/ linux /\ Linux!Init /\ holder = <<>> /\ portName = <<>>
    \/ windows /\ Windows!Init /\ result = <<>>

ScanNext ==
    /\ \/ linux /\ Linux!Next /\ UNCHANGED <<holder, portName>>
       \/ windows /\ Windows!Next /\ UNCHANGED result
    /\ UNCHANGED platform

ScanSpec == ScanInit /\ [][ScanNext]_scanVars

-----------------------------------------------------------------------------
\* What the Linux scanner returns is sorted and names no node twice, although a device
\* may be met at two places of sysfs while it is moved.
SortedUnique == linux => Linux!SortedUnique

\* On Windows, a call finds in the scanner's buffer the name that it has asked for,
\* whatever the other callers do, and lists no port twice.
OwnNames == windows => Windows!OwnNames

\* Either scanner keeps, for each of its callers, the promise of PortScanner: no port
\* is missing that was there throughout the call, and none was never there.
ImplementsPortScanner ==
    /\ IF linux THEN Linux!ScannerInit ELSE Windows!ScannerInit
    /\ [][IF linux THEN Linux!ScannerStep ELSE Windows!ScannerStep]_scanVars

\* "Extract the COM identifier": what the Windows scanner lists is the port of a device.
\* A device named "Virtual COM Port (COM5)" is listed as "COM Port (COM5".
ListedExist == windows => Windows!ListedExist
=============================================================================
