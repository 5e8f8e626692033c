------------------------------ MODULE MCProbes ------------------------------
(***************************************************************************)
(* Probes with a process of two threads and the sensor, of one thread, in  *)
(* one cgroup, two endpoints and two programs.                             *)
(***************************************************************************)
EXTENDS Probes

CONSTANTS th1, th2, th3, p1, p2, cg

TwoAndOne     == [th \in Thread |-> IF th = th3 THEN p2 ELSE p1]
OneCgroup     == [p \in Proc |-> cg]
PacketSocket  == [family |-> "packet", type |-> "dgram", protocol |-> "ip"]
NetlinkSocket == [family |-> "netlink", type |-> "raw", protocol |-> "route"]
Sockets       == {PacketSocket, NetlinkSocket}

=============================================================================
