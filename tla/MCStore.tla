------------------------------- MODULE MCStore -------------------------------
(***************************************************************************)
(* Store on small instances.  "Plain" is one workload on two hosts that    *)
(* talks to two addresses and opens a raw socket, without seeds.  "Pool"   *)
(* is chronyd with a declared NTP pool, one member of which is reported    *)
(* now by name and now by address, and whose seeds file is edited: another *)
(* pool goes before it and the member's name behind it.                    *)
(***************************************************************************)
EXTENDS Store, TLC

CONSTANTS i1, i2, ip1, ip2, pool, host, other, app, chronyd, none

Conn(i, f, a, n, p, pr) == [kind |-> "conn", instance |-> i, fleet |-> f, addr |-> a,
                            fqdn |-> n, port |-> p, proto |-> pr]
Raw(i, f) == [kind |-> "raw_socket", instance |-> i, fleet |-> f, addr |-> ip1,
              fqdn |-> none, port |-> 0, proto |-> ""]

Ports     == {0, 53, 123}
Addresses == {ip1, ip2}
AsWritten == [v \in Addresses |-> v]

PlainValues == {ip1, ip2}
PlainFleets == {app}
PlainLower  == [v \in PlainValues |-> v]
PlainEvents == {Conn(i1, app, ip1, none, 53, "udp"), Conn(i2, app, ip2, none, 53, "udp"),
                Raw(i1, app)}

PlainForms  == [fleet : PlainFleets, value : PlainValues, port : {53}, proto : {"udp"}]

PoolValues == {ip1, pool, host, other}
PoolIPs    == {ip1}
PoolAsIs   == [v \in PoolIPs |-> v]
PoolFleets == {chronyd}
PoolLower  == [v \in PoolValues |-> v]
PoolBelow  == {<<host, pool>>}
PoolEvents == {Conn(i2, chronyd, ip1, none, 0, "udp"), Conn(i1, chronyd, ip1, host, 123, "udp")}

PoolForms  == [fleet : PoolFleets, value : {pool}, port : {123}, proto : {"udp"}]

PoolSeed   == [type |-> "group", value |-> pool, port |-> 123, proto |-> "udp"]
OtherSeed  == [type |-> "group", value |-> other, port |-> 53, proto |-> "udp"]
HostSeed   == [type |-> "fqdn", value |-> host, port |-> 123, proto |-> "udp"]
NoSeeds    == {<<>>}
PoolSeeds  == {<<PoolSeed>>, <<OtherSeed, PoolSeed, HostSeed>>}
Nothing    == {}

Symmetry == Permutations(Handler)

=============================================================================
