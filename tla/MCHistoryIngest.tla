-------------------------- MODULE MCHistoryIngest --------------------------
(***************************************************************************)
(* Two tables: trades (upsert, watermark set back) and funding payments    *)
(* (find, then create; watermark not set back), or trades alone.           *)
(***************************************************************************)
EXTENDS HistoryIngest

MCKindOrder == <<"trade", "funding">>
OneTable == <<KindOf[1]>>
Alternating == [e \in Log |-> IF e % 2 = 1 THEN "funding" ELSE "trade"]
AllTrade == [e \in Log |-> "trade"]
MCLookback == [k \in {"trade", "funding"} |-> IF k = "trade" THEN 1 ELSE 0]
NoLookback == [k \in {"trade"} |-> 0]
=============================================================================
