----------------------------- MODULE MCSeedsFile -----------------------------
(***************************************************************************)
(* SeedsFile on two addresses (the second is another spelling of the       *)
(* first), a pool, a host below it and a second spelling of the pool; in   *)
(* the run about names, on one address, and also the pool and the host     *)
(* with the dot that ends a name on the wire.                              *)
(***************************************************************************)
EXTENDS SeedsFile, TLC

CONSTANTS ip1, ip2, pool, host, POOL, poolDot, hostDot, app, chronyd, none

Plain      == {ip1, ip2, pool, host, POOL}
WithDots   == {ip1, pool, host, poolDot, hostDot}
Addresses  == {ip1, ip2}
OneAddress == {ip1}

\* ip2 is a spelling of ip1 that net.IP.String does not use.
FirstSpelling == [v \in Addresses |-> ip1]
OnlySpelling  == [v \in OneAddress |-> v]

LowerPlain == [v \in Plain |-> IF v = POOL THEN pool ELSE v]
LowerDots  == [v \in WithDots |-> v]

BelowPlain == {<<host, pool>>}
BelowDots  == {<<host, pool>>, <<hostDot, poolDot>>}

AsIs      == [v \in Plain |-> v]
WithDot   == [v \in WithDots |-> CASE v = pool -> poolDot [] v = host -> hostDot [] OTHER -> v]

Fleets     == {app, chronyd}
TimeFleets == {chronyd}

Ports == {0, 53, 123}

=============================================================================
