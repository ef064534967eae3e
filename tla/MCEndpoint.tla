----------------------------- MODULE MCEndpoint -----------------------------
(***************************************************************************)
(* The instances of Endpoint that TLC checks: which faults occur together. *)
(***************************************************************************)
EXTENDS Endpoint

(* Of one connection, while the device works. *)
ConnectionFaults == {"neg", "route"}

(* Of the paths to the adapter and of the firmware, up to a device that    *)
(* stops answering.                                                        *)
DeviceFaults == {"arp", "send", "alloc", "fw", "fatal"}
=============================================================================
