SPECIFICATION Spec
CONSTANTS
    root = root
    user = user
    wlan = wlan
    usb = usb
    NoIface = NoIface
    Procs <- AllProcs
    Root <- RootOnly
    Ifaces <- AllIfaces
INVARIANT IInv
INVARIANT CutsOnlyIfMoved
 
INVARIANT UserIsTold
