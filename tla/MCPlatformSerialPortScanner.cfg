SPECIFICATION ScanSpec
CONSTANTS
    usb0here = usb0here
    usb0there = usb0there
    acm = acm
    tty1 = tty1
    ttyS0 = ttyS0
    rfcomm = rfcomm
    bare = bare
    ch340 = ch340
    virtual = virtual
    UdevDevices <- MCUdevDevices
    HotPlug <- MCHotPlug
    Usb <- MCUsb
    Node <- MCNode
    NoNode = NoNode
    Callers = {"watcher", "gui"}
    ComDevices <- MCComDevices
    Number <- MCNumber
    Description <- MCDescription
INVARIANTS
    SortedUnique
    OwnNames
PROPERTIES
    ImplementsPortScanner
