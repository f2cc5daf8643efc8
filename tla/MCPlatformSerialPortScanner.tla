--------------------- MODULE MCPlatformSerialPortScanner ----------------------
(* Linux: an adapter that is ttyUSB0 at either of two sockets; always       *)
(* there: an adapter that is ttyACM0, the non-USB ttyS0, a USB device with   *)
(* the node tty1, one, of Bluetooth, with /dev/rfcomm0, and one with none.   *)
(* Windows: a device with a parenthesis before its port, and one with "COM"  *)
(* before it: "Virtual COM Port (COM5)".                                     *)
EXTENDS PlatformSerialPortScanner

CONSTANTS usb0here, usb0there, acm, tty1, ttyS0, rfcomm, bare, ch340, virtual

MCUdevDevices == {usb0here, usb0there, acm, tty1, ttyS0, rfcomm, bare}
MCHotPlug == {usb0here, usb0there}
MCUsb == MCUdevDevices \ {ttyS0}
MCNode == [d \in MCUdevDevices |->
              CASE d \in {usb0here, usb0there} -> <<10, 13, 0>>
                [] d = acm -> <<10, 12, 0>>
                [] d = tty1 -> <<10, 1>>
                [] d = ttyS0 -> <<10, 14, 0>>
                [] d = rfcomm -> <<15, 0>>
                [] d = bare -> NoNode]

MCComDevices == {ch340, virtual}
MCNumber == [d \in MCComDevices |-> IF d = ch340 THEN "4" ELSE "5"]
MCDescription == [d \in MCComDevices |->
                     IF d = ch340 THEN <<"CH340", "(", "r", ")">>
                     ELSE <<"Virtual", "COM", "Port">>]
=============================================================================
