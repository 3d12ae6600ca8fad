--------------------------- MODULE MCBlockSearch ---------------------------
(* All chains of 1, 2, 3, 5 and 8 blocks that begin at time 0 or 4 and have *)
(* gaps of 0, 1 or 4 between block times; every time before, on, between   *)
(* and after their blocks.                                                 *)
EXTENDS BlockSearch

Gaps == {0, 1, 4}

TimesOf(first, gap, n) ==
    LET t[b \in 0..n] == IF b = 0 THEN first ELSE t[b - 1] + gap[b]
    IN  t

MCChains ==
    UNION {{TimesOf(first, gap, n) : first \in {0, 4}, gap \in [1..n -> Gaps]}
              : n \in {0, 1, 2, 4, 7}}
MCInstants == 0..33
=============================================================================
