-------------------------- MODULE MCServiceLifecycle --------------------------
(* Every service of the platform, one process of it in a behaviour.        *)
EXTENDS ServiceLifecycle

MCDeployed == Services
=============================================================================
