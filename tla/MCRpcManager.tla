---------------------------- MODULE MCRpcManager ----------------------------
(* Three endpoints, two calls at a time.                                    *)
EXTENDS RpcManager

MCQueue == <<"u1", "u2", "u3">>
=============================================================================
