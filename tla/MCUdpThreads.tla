---------------------------- MODULE MCUdpThreads ----------------------------
(* Instances of UdpThreads for TLC.                                        *)
EXTENDS UdpThreads
=============================================================================
