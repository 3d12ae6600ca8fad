-------------------------- MODULE MCHistoryTables --------------------------
(***************************************************************************)
(* Names of one perpetual between which another one's comes; a removal; a  *)
(* transaction that adds liquidity and passes the shares on.  The times of *)
(* MissedEvent are further apart than the block search of a transfer scan  *)
(* may start too early.                                                    *)
(***************************************************************************)
EXTENDS HistoryTables

Oracles(tx, t, perp) ==
    [kind |-> "oracles", tx |-> tx, time |-> t, about |-> perp, who |-> "none", to |-> "none"]
Liquidity(k, tx, t, who, to) ==
    [kind |-> k, tx |-> tx, time |-> t, about |-> "pool", who |-> who, to |-> to]

MCEvent == <<Oracles("t1", 1, "p"), Oracles("t2", 2, "p"),
             Liquidity("removed", "t3", 3, "ann", "none"),
             Liquidity("transfer", "t3", 3, "ann", "bob")>>
MissedEvent == <<Liquidity("transfer", "t1", 1, "ann", "bob"),
                 Liquidity("added", "t2", 2, "ann", "none")>>
=============================================================================
