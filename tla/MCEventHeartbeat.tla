-------------------------- MODULE MCEventHeartbeat --------------------------
(* Counts up to twice the smallest number that is compared.                *)
EXTENDS EventHeartbeat
=============================================================================
