------------------------------ MODULE MCNaming ------------------------------
(***************************************************************************)
(* Naming with two instances of one container image, one of them with a    *)
(* unit inside, and a service of the host.                                 *)
(***************************************************************************)
EXTENDS Naming, TLC

CONSTANTS p1, p2, c1, c2, c3, k1, k2, httpd, slice, image

Component(kind, name) == [kind |-> kind, name |-> name]
Paths     == (c1 :> <<Component("slice", slice), Component("libpod", k1)>>)
          @@ (c2 :> <<Component("libpod", k2), Component("service", httpd)>>)
          @@ (c3 :> <<Component("slice", slice), Component("service", httpd)>>)
Images    == (k1 :> image) @@ (k2 :> image)
Workloads == (c1 :> image) @@ (c2 :> image) @@ (c3 :> httpd)
OneInC1   == {(p1 :> c1) @@ (p2 :> None)}

ASSUME WorkloadsAssumption == WorkloadsTold

=============================================================================
