------------------------------ MODULE EventLog ------------------------------
(***************************************************************************)
(* The contract events that the tables of names, earnings and withdrawals  *)
(* are filled from.  An event has a kind, its transaction, the time of its *)
(* block, what it is about (a perpetual or a pool), and the wallet it names *)
(* ("to" is the receiver of a transfer).  Its number stands for the amount *)
(* of shares it moves.                                                     *)
(***************************************************************************)
EXTENDS Integers, FiniteSets, FiniteSetsExt

CONSTANTS NumEvents, Event

Log == 1..NumEvents
OfKind(k) == {e \in Log : Event[e].kind = k}
EarningsTypes == {"added", "removed", "transfer"}
EventKinds == EarningsTypes \cup {"oracles", "initiated"}
Txs == {Event[e].tx : e \in Log}
Wallets == {Event[e].who : e \in Log} \cup {Event[e].to : e \in Log}
Subjects(k) == {Event[e].about : e \in OfKind(k)}
Pools == UNION {Subjects(k) : k \in EventKinds \ {"oracles"}}
Times == {Event[e].time : e \in Log}

ASSUME EventAssumption ==
    /\ NumEvents \in Nat \ {0}
    /\ DOMAIN Event = Log
    /\ \A e \in Log : Event[e].kind \in EventKinds /\ Event[e].time \in Nat \ {0}
    /\ \A e, f \in Log : e < f => Event[e].time <= Event[f].time

Callers == {"live", "backfill"}      \* isCollectedByEvent: true, false
=============================================================================
