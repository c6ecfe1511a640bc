------------------------- MODULE MCNssIpv6ConnCfg ---------------------------
(***************************************************************************)
(* NssIpv6ConnCfg instantiated for TLC.  The limits are scaled down by the *)
(* same factor, keeping their shape: the quantum is a power of two (mask  *)
(* 3), the minimum one quantum, IPv4 holds half the total.  Of the four   *)
(* values 4 and 8 pass the checks, 6 breaks the quantum and 12 the total. *)
(* ecm is the one module registered for IPv6 events.                     *)
(***************************************************************************)
EXTENDS NssIpv6ConnCfg

CONSTANTS w1, w2, u1, ecm

MCTwoWriters == {w1, w2}
MCOneWriter == {w1}
MCOneUpdater == {u1}
MCValues == {4, 6, 8, 12}
MCFewValues == {6, 8, 12}
MCDefaultConn == 4
MCIPv4Conn == 8
MCQuantaMask == 3
MCMaxTotal == 16
MCMinConn == 4
\* A sync-many message whose size holds two entries; the firmware puts one
\* or two in it: two is dropped by the driver's size check.
MCManySize == 2
MCManyCounts == {1, 2}

====
