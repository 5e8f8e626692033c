--------------------------- MODULE MCDecisionStore ---------------------------
(* DecisionStore on small instances: two workloads with a directory each,  *)
(* or one workload.                                                        *)
EXTENDS DecisionStoreRegister, TLC

CONSTANTS f1, f2, a, b

\* Every fleet identity has a directory of its own.
KeptApart == (f1 :> a @@ f2 :> b)
OneFleet  == (f1 :> a)

=============================================================================
