---------------------------- MODULE MC_Failover ----------------------------
(***************************************************************************)
(* Instances of Failover.                                                  *)
(***************************************************************************)
EXTENDS Failover

Hop(i, m, d) == [route |-> "default", iface |-> i, metric |-> m, dhcp |-> d]

\* A static and a DHCP uplink with the modem as their backup.
Backup == <<Hop("eth0", 1, FALSE), Hop("eth1", 2, TRUE), Hop("wwan0", 3, FALSE)>>

\* Two gateways behind one interface, the modem between them.
TwoGateways == <<Hop("eth0", 1, FALSE), Hop("wwan0", 2, FALSE),
                 Hop("eth0", 3, FALSE)>>

=============================================================================
