--------------------------- MODULE MCIndexPrices ---------------------------
(* Index 1 serves two perpetuals in different pools, one of them deployed  *)
(* later, index 2 two prediction markets.  Two different events of the      *)
(* first perpetual have the same sum.  With a ring of two hashes, an event  *)
(* may pass again after two others.                                        *)
EXTENDS IndexPrices

MCIndexOf == (1 :> 1) @@ (2 :> 1) @@ (3 :> 2) @@ (4 :> 2)

Event(p, prem, spot) == [perp |-> p, prem |-> prem, spot |-> spot]
MCEvents == {Event(1, 1, 0), Event(1, 0, 1), Event(2, 1, 0), Event(3, 1, 0)}

MCStartPremia == {[p \in Perps |-> 0]}
=============================================================================
