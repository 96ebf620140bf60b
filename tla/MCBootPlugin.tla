---------------------------- MODULE MCBootPlugin ----------------------------
(* Instances of BootPlugin for TLC: a network service that waits for a link, *)
(* a service that may need it, and X.                                        *)
EXTENDS BootPlugin

MCServices  == {"net", "web", "xdm"}
MCRank      == [net |-> 1, web |-> 2, xdm |-> 3]
MCWaiters   == {"net"}
=============================================================================
