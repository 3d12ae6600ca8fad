-------------------------- MODULE MCSubscriptions --------------------------
(* Two clients, two perpetuals, one trader address: the clients share a     *)
(* perpetual, or follow different ones, while the provider is replaced.    *)
EXTENDS Subscriptions, TLC

ClientSymmetry == Permutations(Clients)
=============================================================================
