--------------------------- MODULE MCHotspotGuard ---------------------------
(* An instance of HotspotGuard for TLC: root and the user of the GUI, Wi-Fi   *)
(* and a USB network interface.                                              *)
EXTENDS HotspotGuard

CONSTANTS root, user, wlan, usb

AllProcs == {root, user}
RootOnly == {root}
AllIfaces == {wlan, usb}
=============================================================================
