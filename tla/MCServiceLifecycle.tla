------------------------- MODULE MCServiceLifecycle -------------------------
(***************************************************************************)
(* ServiceLifecycle for TLC: the services of the bootstrap module.         *)
(***************************************************************************)
EXTENDS ServiceLifecycle

ServicesInOrder == <<"DB", "Dynamo", "Redshift", "Capabilities", "API", "Prometheus">>
=============================================================================
