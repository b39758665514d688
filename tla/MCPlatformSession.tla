--------------------------- MODULE MCPlatformSession ---------------------------
(* Sets of faults for the configurations of PlatformSession. *)
EXTENDS PlatformSession

NoFault    == {}
AnyFault   == {"dispatch", "native", "connection", "destroy", "osStop", "deadline",
               "stall", "crash", "peer", "quit"}
PeerFaults == {"dispatch", "native", "connection", "peer", "quit"}
Stalls     == {"stall"}
================================================================================
