--------------------------- MODULE MCMutationLock ---------------------------
(* Small instances of MutationLock for TLC. *)
EXTENDS MutationLock

CONSTANTS deploy, deploy2, controller, operator

AllClients == {deploy, deploy2, controller}
OneController == {controller}
OneOperator == {operator}
=============================================================================
