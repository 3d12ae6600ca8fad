------------------------ MODULE HistoryIngestProofs ------------------------
(***************************************************************************)
(* What holds of the ingestion for every chain, number of tables, lookback *)
(* and number of overlapping runs: nothing is left behind a backfilled row *)
(* without a trace, and a confirmed row stays confirmed where inserts find *)
(* before they create.                                                     *)
(***************************************************************************)
EXTENDS HistoryIngest, FiniteSetTheorems, SequenceTheorems,
        WellFoundedInduction, TLAPS

(* A set of numbers has a least element, and a bounded one a greatest: Min   *)
(* and Max are elements of it.                                             *)
LEMMA Least ==
    ASSUME NEW S \in SUBSET Nat, S # {} PROVE \E x \in S : \A y \in S : x <= y
  <1> DEFINE R == OpToRel(<, Nat)
  <1>1. IsWellFoundedOn(R, Nat)
    BY NatLessThanWellFounded
  <1>2. R = {ss \in Nat \X Nat : ss[1] < ss[2]}
    BY DEF OpToRel
  <1> HIDE DEF R
  <1>3. PICK x \in S : \A y \in S : ~(<<y, x>> \in R)
    BY <1>1, WFMin
  <1>4. ASSUME NEW y \in S PROVE x <= y
    <2>1. ~(<<y, x>> \in {ss \in Nat \X Nat : ss[1] < ss[2]})
      BY <1>2, <1>3
    <2>2. x \in Nat /\ y \in Nat
      OBVIOUS
    <2>3. ~(y < x)
      BY <2>1, <2>2
    <2> QED
      BY <2>2, <2>3
  <1> QED
    BY <1>4

LEMMA Greatest ==
    ASSUME NEW S \in SUBSET Nat, S # {}, NEW n \in Nat, \A x \in S : x <= n
    PROVE \E x \in S : \A y \in S : x >= y
  <1> DEFINE D == {n - x : x \in S}
  <1>1. D \in SUBSET Nat
    <2> SUFFICES ASSUME NEW x \in S PROVE n - x \in Nat
      OBVIOUS
    <2>1. x \in Nat /\ x <= n
      OBVIOUS
    <2> QED
      BY <2>1
  <1>0. D # {}
    <2>1. PICK x \in S : TRUE
      OBVIOUS
    <2>2. n - x \in D
      BY <2>1
    <2> QED
      BY <2>2
  <1>2. PICK d \in D : \A e \in D : d <= e
    BY <1>1, <1>0, Least
  <1>3. PICK x \in S : d = n - x
    OBVIOUS
  <1>4. ASSUME NEW y \in S PROVE x >= y
    <2>1. n - y \in D
      OBVIOUS
    <2>2. n - x <= n - y
      BY <1>2, <1>3, <2>1
    <2> QED
      BY <2>2
  <1> QED
    BY <1>4

\* One below a bound has its successor within the bound.
LEMMA Next0To ==
    ASSUME NEW n \in Nat, NEW a \in 0..n, a < n
    PROVE  a + 1 \in 0..n
  OBVIOUS

LEMMA MaxOfSet == 
    ASSUME NEW S \in SUBSET Nat, S # {}, NEW n \in Nat, \A x \in S : x <= n
    PROVE  Max(S) \in S /\ \A x \in S : x <= Max(S)
  <1>1. PICK m \in S : \A y \in S : m >= y
    BY Greatest
  <1>2. Max(S) \in S /\ \A y \in S : Max(S) >= y
    BY <1>1, Zenon DEF Max
  <1> QED
    BY <1>2

LEMMA MinOfSet == 
    ASSUME NEW S \in SUBSET Nat, S # {}
    PROVE  Min(S) \in S /\ \A x \in S : Min(S) <= x
  <1>1. PICK m \in S : \A y \in S : m <= y
    BY Least
  <1> QED
    BY <1>1, Zenon DEF Min

-----------------------------------------------------------------------------
(* Types.                                                                  *)

LEMMA Constants ==
    /\ NumEvents \in Nat \ {0} /\ Len(KindOrder) \in Nat
    /\ NoMark \in Nat /\ NoMark > NumEvents /\ Kinds # {}
    /\ {Window, GapWindow, Precision, GapThreshold, MaxFaults, MaxCrashes} \subseteq Nat
    /\ \A k \in Kinds : Lookback[k] \in Nat
    /\ \A e \in Log : KindOf[e] \in Kinds
    /\ "main" \in Runners /\ "main" \notin GapRunners
  <1>1. NumEvents \in Nat \ {0} /\ 1 \in Log /\ KindOf[1] \in Kinds
    BY IngestAssumption DEF Log
  <1>2. Len(KindOrder) \in Nat
    BY IngestAssumption, LenProperties
  <1> QED
    BY <1>1, <1>2, IngestAssumption DEF NoMark, Runners

LEMMA WatermarkType ==
    ASSUME TypeOK, NEW k \in Kinds
    PROVE  \/ Watermark(k) = NoMark
           \/ \E f \in Backfilled(k) : Watermark(k) \in 0..f
  <1>1. CASE Backfilled(k) = {}
    BY <1>1 DEF Watermark
  <1>2. CASE Backfilled(k) # {}
    <2>1. Backfilled(k) \in SUBSET Nat /\ \A x \in Backfilled(k) : x <= NumEvents
      BY Constants DEF Backfilled, Log
    <2>2. Max(Backfilled(k)) \in Backfilled(k)
      BY <1>2, <2>1, Constants, MaxOfSet
    <2>3. Lookback[k] \in Nat /\ Max(Backfilled(k)) \in Nat
      BY <2>1, <2>2, Constants
    <2> QED
      BY <1>2, <2>2, <2>3 DEF Watermark, MoreOf
  <1> QED
    BY <1>1, <1>2

LEMMA SinceType ==
    ASSUME TypeOK, NEW r \in Runners
    PROVE  /\ Since(r) \in 0..NumEvents /\ Since(r) <= run[r].start
           /\ \A k \in Kinds : Since(r) <= run[r].mark[k]
  <1> DEFINE M == {run[r].mark[k] : k \in Kinds}
  <1>1. run[r].start \in 0..NumEvents /\ run[r].mark \in [Kinds -> 0..NoMark]
    BY DEF TypeOK, Runs
  <1>2. M \in SUBSET Nat /\ M # {}
    BY <1>1, Constants
  <1>3. Min(M) \in M /\ \A x \in M : Min(M) <= x
    BY <1>2, MinOfSet
  <1>4. Min(M) \in Nat /\ \A k \in Kinds : Min(M) <= run[r].mark[k]
    BY <1>2, <1>3
  <1>5. Since(r) = IF run[r].start <= Min(M) THEN run[r].start ELSE Min(M)
    BY DEF Since, LessOf
  <1> DEFINE m == Min(M)
             start == run[r].start
  <1>6. m \in Nat /\ start \in 0..NumEvents /\ NumEvents \in Nat
        /\ Since(r) = IF start <= m THEN start ELSE m
    BY <1>1, <1>4, <1>5, Constants
  <1>7. \A k \in Kinds : run[r].mark[k] \in Nat /\ m <= run[r].mark[k]
    <2> SUFFICES ASSUME NEW k \in Kinds
                 PROVE  run[r].mark[k] \in Nat /\ m <= run[r].mark[k]
      OBVIOUS
    <2>1. run[r].mark[k] \in 0..NoMark
      BY <1>1
    <2> QED
      BY <2>1, <1>4, Constants
  <1> HIDE DEF M, m
  <1>8. Since(r) \in 0..NumEvents /\ Since(r) <= start /\ Since(r) <= m
    <2> HIDE DEF start
    <2> QED
      BY <1>6
  <1>9. ASSUME NEW k \in Kinds PROVE Since(r) <= run[r].mark[k]
    <2>1. run[r].mark[k] \in Nat /\ m <= run[r].mark[k] /\ Since(r) <= m
      BY <1>7, <1>8
    <2>2. m \in Nat /\ Since(r) \in Nat
      BY <1>6, <1>8
    <2> QED
      BY <2>1, <2>2
  <1> QED
    BY <1>8, <1>9

LEMMA IdleType == Idle \in Runs
  <1>1. 0 \in 0..NumEvents /\ 0 \in 0..Len(KindOrder) /\ 1 \in 1..NoMark
    BY Constants
  <1>2. [k \in Kinds |-> NoMark] \in [Kinds -> 0..NoMark]
    BY Constants
  <1> QED
    BY <1>1, <1>2 DEF Idle, Runs

LEMMA BeginType ==
    ASSUME TypeOK, NEW r \in Runners, NEW start \in 0..NumEvents, NEW skip \in BOOLEAN
    PROVE  Begin(r, start, skip) \in Runs
  <1>1. run[r] \in Runs /\ 0 \in 0..Len(KindOrder)
    BY Constants DEF TypeOK
  <1>2. Idle.mark \in [Kinds -> 0..NoMark]
    BY IdleType DEF Runs
  <1> QED
    BY <1>1, <1>2 DEF Begin, Runs

LEMMA NextGapType ==
    ASSUME TypeOK, NEW r \in Runners, NEW gaps \in SUBSET Log, NEW base \in 0..NumEvents
    PROVE  NextGap(r, gaps, base) \in Runs
  <1>1. CASE gaps = {}
    BY <1>1, IdleType DEF NextGap
  <1>2. CASE gaps # {}
    <2>0. gaps \in SUBSET Nat /\ NumEvents \in Nat /\ \A g \in gaps : g \in 0..NumEvents
      BY Constants DEF Log
    <2>3. \A g \in gaps : g <= NumEvents
      BY <2>0
    <2>4. Max(gaps) \in gaps
      BY <1>2, <2>0, <2>3, MaxOfSet
    <2>1. Max(gaps) \in 0..NumEvents
      BY <2>0, <2>4
    <2>2. MoreOf(Max(gaps), base) \in 0..NumEvents
      BY <2>1 DEF MoreOf
    <2>5. Begin(r, MoreOf(Max(gaps), base), FALSE) \in Runs
      BY <2>2, BeginType
    <2> QED
      BY <1>2, <2>5 DEF NextGap, Runs
  <1> QED
    BY <1>1, <1>2

LEMMA WindowStartType == TypeOK => WindowStart \in 0..head
  BY Constants DEF TypeOK, WindowStart, MoreOf

LEMMA InitType == Init => TypeOK /\ (fresh => head >= 1)
  <1> SUFFICES ASSUME Init PROVE TypeOK /\ (fresh => head >= 1)
    OBVIOUS
  <1>1. run \in [Runners -> Runs]
    BY IdleType DEF Init
  <1>2. head \in 0..NumEvents /\ floor \in 0..NumEvents /\ faults \in 0..MaxFaults
        /\ crashes \in 0..MaxCrashes
    BY Constants DEF Init
  <1>3. row \in [Log -> {"none", "live", "backfill"}] /\ tasks \subseteq Tasks /\ lost \subseteq Log
    BY DEF Init
  <1>4. fresh = FALSE /\ initial = FALSE /\ up = FALSE
    BY DEF Init
  <1> QED
    BY <1>1, <1>2, <1>3, <1>4, Zenon DEF TypeOK

LEMMA EndMainType ==
    ASSUME TypeOK, EndMain
    PROVE  run' \in [Runners -> Runs] /\ initial' \in BOOLEAN
  <1>1. run \in [Runners -> Runs] /\ Idle \in Runs
    BY IdleType DEF TypeOK
  <1>2. Detecting(MoreOf(0, head - GapWindow)) \in Runs
    <2>1. MoreOf(0, head - GapWindow) \in 0..NumEvents
      BY Constants DEF TypeOK, MoreOf
    <2> QED
      BY <1>1, <2>1 DEF Detecting, Runs
  <1> QED
    BY <1>1, <1>2 DEF EndMain

\* Reading a watermark changes two fields of one runner.
LEMMA ReadWatermarkEffect ==
    ASSUME TypeOK, NEW r \in Runners, ReadWatermark(r)
    PROVE  \E k \in Kinds :
              /\ run'[r] = [run[r] EXCEPT !.mark = [run[r].mark EXCEPT ![k] = Watermark(k)],
                                          !.read = run[r].read + 1]
              /\ run' = [run EXCEPT ![r] = run'[r]]
              /\ run[r].read + 1 \in 0..Len(KindOrder)
  <1> DEFINE k == KindOrder[run[r].read + 1]
  <1>1. run \in [Runners -> Runs] /\ run[r] \in Runs
    BY DEF TypeOK
  <1>2. run[r].read \in 0..Len(KindOrder) /\ run[r].read < Len(KindOrder)
    BY <1>1 DEF ReadWatermark, Runs
  <1>3. run[r].read + 1 \in 1..Len(KindOrder)
    BY <1>2, Constants
  <1>4. k \in Kinds
    BY <1>3 DEF Kinds
  <1>5. run' = [run EXCEPT ![r].mark[k] = Watermark(k), ![r].read = @ + 1]
    BY DEF ReadWatermark
  <1>6. run[r].read + 1 \in 0..Len(KindOrder)
    BY <1>2, Constants, Next0To
  <1> HIDE DEF k
  <1>7. run'[r] = [run[r] EXCEPT !.mark = [run[r].mark EXCEPT ![k] = Watermark(k)],
                                 !.read = run[r].read + 1]
    BY <1>1, <1>5 DEF Runs
  <1>8. run' = [run EXCEPT ![r] = run'[r]]
    BY <1>1, <1>5
  <1> QED
    BY <1>4, <1>6, <1>7, <1>8

LEMMA ReadWatermarkType ==
    ASSUME TypeOK, NEW r \in Runners, ReadWatermark(r)
    PROVE  run' \in [Runners -> Runs]
  <1>1. run \in [Runners -> Runs] /\ run[r] \in Runs
    BY DEF TypeOK
  <1>2. PICK k \in Kinds :
           /\ run'[r] = [run[r] EXCEPT !.mark = [run[r].mark EXCEPT ![k] = Watermark(k)],
                                       !.read = run[r].read + 1]
           /\ run' = [run EXCEPT ![r] = run'[r]]
           /\ run[r].read + 1 \in 0..Len(KindOrder)
    BY ReadWatermarkEffect
  <1>3. Watermark(k) \in 0..NoMark
    BY WatermarkType, Constants DEF Backfilled, Log
  <1> DEFINE mark == [run[r].mark EXCEPT ![k] = Watermark(k)]
  <1>4. mark \in [Kinds -> 0..NoMark]
    BY <1>1, <1>3 DEF Runs
  <1> HIDE DEF mark
  <1>5. run'[r] \in Runs
    BY <1>1, <1>2, <1>4 DEF Runs, mark
  <1> QED
    BY <1>1, <1>2, <1>5

LEMMA StartScanType ==
    ASSUME TypeOK, fresh => head >= 1, NEW r \in Runners, StartScan(r)
    PROVE  run' \in [Runners -> Runs]
  <1>1. run \in [Runners -> Runs] /\ run[r] \in Runs /\ head \in 0..NumEvents
    BY DEF TypeOK
  <1>2. PICK p \in MoreOf(1, Since(r) - Precision)..MoreOf(1, Since(r)),
             l \in IF fresh THEN {head - 1, head} ELSE {head} :
          run' = [run EXCEPT ![r].phase = "scan", ![r].pos = p, ![r].last = l,
                             ![r].start = 0, ![r].read = 0,
                             ![r].mark = IF run[r].skip THEN @ ELSE Idle.mark]
    BY DEF StartScan
  <1>3. Since(r) \in 0..NumEvents
    BY SinceType
  <1>4. p \in 1..NoMark
    BY <1>3, Constants DEF MoreOf, NoMark
  <1>5. l \in 0..NumEvents
    BY <1>1, Constants
  <1> DEFINE mark == IF run[r].skip THEN run[r].mark ELSE Idle.mark
  <1>6. mark \in [Kinds -> 0..NoMark]
    BY <1>1, IdleType DEF Runs
  <1>7. run' = [run EXCEPT ![r] = [run[r] EXCEPT !.phase = "scan", !.pos = p, !.last = l,
                                                 !.start = 0, !.read = 0, !.mark = mark]]
    BY <1>1, <1>2
  <1> HIDE DEF mark
  <1>8. 0 \in 0..NumEvents /\ 0 \in 0..Len(KindOrder)
    BY Constants
  <1> QED
    BY <1>1, <1>4, <1>5, <1>6, <1>7, <1>8 DEF Runs

LEMMA TypeNext ==
    ASSUME TypeOK, fresh => head >= 1, [Next]_vars
    PROVE  TypeOK' /\ (fresh => head >= 1)'
  <1> USE Constants
  <1>1. CASE Mine
    <2>1. head + 1 \in Log /\ head' \in 0..NumEvents /\ head' >= 1
      BY <1>1 DEF Mine, TypeOK, Log
    <2>2. tasks' \subseteq Tasks
      BY <1>1, <2>1 DEF Mine, TypeOK, Tasks
    <2> QED
      BY <1>1, <2>1, <2>2 DEF Mine, TypeOK
  <1>2. CASE NewBlock
    BY <1>2 DEF NewBlock, TypeOK
  <1>3. CASE Write
    <2> PICK t \in tasks : Upsert(t) \/ FindRow(t) \/ CreateOrUpdate(t)
      BY <1>3 DEF Write
    <2>1. t \in Tasks
      BY DEF TypeOK
    <2>2. CASE Upsert(t)
      BY <2>1, <2>2 DEF Upsert, TypeOK, Tasks
    <2>3. CASE FindRow(t)
      BY <2>1, <2>3 DEF FindRow, TypeOK, Tasks
    <2>4. CASE CreateOrUpdate(t)
      BY <2>1, <2>4 DEF CreateOrUpdate, TypeOK, Tasks
    <2> QED
      BY <2>2, <2>3, <2>4
  <1>4. CASE Start
    <2>1. WindowStart \in 0..NumEvents
      BY WindowStartType DEF TypeOK
    <2>2. Begin("main", WindowStart, FALSE) \in Runs
      BY <2>1, BeginType
    <2>3. floor' \in 0..NumEvents
      BY <1>4, <2>1 DEF Start, TypeOK, MoreOf
    <2> QED
      BY <1>4, <2>2, <2>3 DEF Start, TypeOK
  <1>5. CASE Redundancy
    <2>0. 0 \in 0..NumEvents
      OBVIOUS
    <2>1. Begin("main", 0, TRUE) \in Runs
      BY <2>0, BeginType
    <2> QED
      BY <1>5, <2>1 DEF Redundancy, TypeOK
  <1>6. CASE Crash
    <2>1. run' \in [Runners -> Runs]
      BY <1>6, IdleType DEF Crash
    <2>2. crashes' \in 0..MaxCrashes
      BY <1>6 DEF Crash, TypeOK
    <2> QED
      BY <1>6, <2>1, <2>2 DEF Crash, TypeOK
  <1>7. ASSUME NEW t \in tasks, InsertFails(t) PROVE TypeOK' /\ (fresh => head >= 1)'
    BY <1>7 DEF InsertFails, Fail, TypeOK, Tasks
  <1>8. ASSUME NEW r \in Runners, GiveUp(r) PROVE TypeOK' /\ (fresh => head >= 1)'
    <2>1. run[r] \in Runs /\ run[r].pos \in 1..NoMark /\ run[r].last \in 0..NumEvents
      BY DEF TypeOK, Runs
    <2>2. PICK p \in run[r].pos + 1..run[r].last + 1 :
            /\ run' = [run EXCEPT ![r].pos = p]
            /\ lost' = lost \cup {e \in run[r].pos..p - 1 : ~Skipped(r, e)}
      BY <1>8 DEF GiveUp
    <2>3. p \in 1..NoMark /\ \A e \in run[r].pos..p - 1 : e \in Log
      <3> DEFINE pos == run[r].pos
                 last == run[r].last
      <3>1. pos \in 1..NumEvents + 1 /\ last \in 0..NumEvents /\ p \in pos + 1..last + 1
        BY <2>1, <2>2 DEF NoMark
      <3> HIDE DEF pos, last
      <3>2. p \in 1..NumEvents + 1 /\ \A e \in pos..p - 1 : e \in 1..NumEvents
        BY <3>1
      <3> QED
        BY <3>2 DEF pos, NoMark, Log
    <2>4. run' \in [Runners -> Runs]
      BY <2>1, <2>2, <2>3 DEF TypeOK, Runs
    <2> QED
      BY <1>8, <2>2, <2>3, <2>4 DEF GiveUp, Fail, TypeOK
  <1>9. ASSUME NEW r \in Runners, RunFails(r) PROVE TypeOK' /\ (fresh => head >= 1)'
    <2>1. run' \in [Runners -> Runs] /\ initial' \in BOOLEAN
      BY <1>9, EndMainType, IdleType DEF RunFails, TypeOK
    <2> QED
      BY <1>9, <2>1 DEF RunFails, Fail, TypeOK
  <1>10. ASSUME NEW r \in Runners, ReadWatermark(r) PROVE TypeOK' /\ (fresh => head >= 1)'
    <2>1. run' \in [Runners -> Runs]
      BY <1>10, ReadWatermarkType
    <2> QED
      BY <1>10, <2>1 DEF ReadWatermark, TypeOK
  <1>11. ASSUME NEW r \in Runners, StartScan(r) PROVE TypeOK' /\ (fresh => head >= 1)'
    <2>1. run' \in [Runners -> Runs]
      BY <1>11, StartScanType
    <2> QED
      BY <1>11, <2>1 DEF StartScan, TypeOK
  <1>12. ASSUME NEW r \in Runners, HandNext(r) PROVE TypeOK' /\ (fresh => head >= 1)'
    <2>4. run[r] \in Runs /\ run[r].pos \in 1..NoMark /\ run[r].last \in 0..NumEvents
      BY DEF TypeOK, Runs
    <2>5. run[r].pos <= run[r].last
      BY <1>12 DEF HandNext
    <2>1. run[r] \in Runs /\ run[r].pos \in Log /\ run[r].pos + 1 \in 1..NoMark
      BY <2>4, <2>5 DEF Log, NoMark
    <2>2. run' \in [Runners -> Runs]
      BY <1>12, <2>1 DEF HandNext, TypeOK, Runs
    <2>3. tasks' \subseteq Tasks
      BY <1>12, <2>1 DEF HandNext, TypeOK, Tasks
    <2> QED
      BY <1>12, <2>2, <2>3 DEF HandNext, TypeOK
  <1>13. ASSUME NEW r \in Runners, EndRun(r) PROVE TypeOK' /\ (fresh => head >= 1)'
    <2>1. run[r] \in Runs /\ run[r].gaps \in SUBSET Log /\ run[r].base \in 0..NumEvents
      BY DEF TypeOK, Runs
    <2>2. NextGap(r, run[r].gaps, run[r].base) \in Runs
      BY <2>1, NextGapType
    <2>3. run' \in [Runners -> Runs] /\ initial' \in BOOLEAN
      BY <1>13, <2>2, EndMainType DEF EndRun, TypeOK
    <2> QED
      BY <1>13, <2>3 DEF EndRun, TypeOK
  <1>14. ASSUME NEW r \in GapRunners, GapTimer(r) PROVE TypeOK' /\ (fresh => head >= 1)'
    <2>0. 0 \in 0..NumEvents
      OBVIOUS
    <2>1. Detecting(0) \in Runs
      BY <2>0, IdleType DEF Detecting, Runs
    <2> QED
      BY <1>14, <2>1 DEF GapTimer, TypeOK, Runners
  <1>15. ASSUME NEW r \in GapRunners, DetectGaps(r) PROVE TypeOK' /\ (fresh => head >= 1)'
    <2> DEFINE k == KindOrder[run[r].read + 1]
    <2>1. r \in Runners /\ run[r] \in Runs /\ run[r].read \in 0..Len(KindOrder)
      BY DEF TypeOK, Runs, Runners
    <2>6. run[r].read < Len(KindOrder)
      BY <1>15 DEF DetectGaps
    <2>2. run[r].read + 1 \in 0..Len(KindOrder)
      BY <2>1, <2>6, Constants, Next0To
    <2>3. GapStarts(k) \subseteq Log
      BY DEF GapStarts, Backfilled
    <2>4. run' = [run EXCEPT ![r].gaps = @ \cup GapStarts(k), ![r].read = @ + 1]
      BY <1>15 DEF DetectGaps
    <2> HIDE DEF k
    <2>5. run' \in [Runners -> Runs]
      BY <2>1, <2>2, <2>3, <2>4 DEF Runs, TypeOK
    <2> QED
      BY <1>15, <2>5 DEF DetectGaps, TypeOK
  <1>16. ASSUME NEW r \in GapRunners, FillGaps(r) PROVE TypeOK' /\ (fresh => head >= 1)'
    <2>1. r \in Runners /\ run[r].gaps \in SUBSET Log /\ run[r].base \in 0..NumEvents
      BY DEF TypeOK, Runs, Runners
    <2>2. NextGap(r, run[r].gaps, run[r].base) \in Runs
      BY <2>1, NextGapType
    <2> QED
      BY <1>16, <2>1, <2>2 DEF FillGaps, TypeOK
  <1>17. CASE UNCHANGED vars
    BY <1>17 DEF vars, TypeOK
  <1> QED
    BY <1>1, <1>2, <1>3, <1>4, <1>5, <1>6, <1>7, <1>8, <1>9, <1>10, <1>11, <1>12, <1>13,
       <1>14, <1>15, <1>16, <1>17 DEF Next, Fault, RunStep, GapStep

-----------------------------------------------------------------------------
(* The inductive invariant.                                                *)

\* What happens to e no longer depends on a run that may skip it: it is stored,
\* being stored, ahead of a run that skips nothing, or recorded as failed.
Settled(e) ==
    \/ row[e] # "none"
    \/ \E t \in tasks : t.ev = e
    \/ \E r \in Runners : ~run[r].skip /\ WillHand(r, e)
    \/ e \in lost

\* Everything before f that is in reach of an initial run is settled, so that
\* a backfilled row at f, or a watermark there, hides nothing.
Covered(f) == \A e \in Log : floor <= e /\ e < f => Settled(e)

MarksOK(r) ==
    \A k \in Kinds : \/ run[r].mark[k] = NoMark
                     \/ run[r].mark[k] <= head /\ Covered(run[r].mark[k])

\* Wherever a runner is, what it has handed over or passed is settled.
RunnerOK(r) ==
    /\ MarksOK(r)
    /\ run[r].start <= head /\ Covered(run[r].start)
    /\ run[r].base <= head /\ Covered(run[r].base)
    /\ \A g \in run[r].gaps : g <= head /\ Covered(g)
    /\ run[r].last <= head
    /\ run[r].phase = "scan" /\ run[r].pos <= run[r].last => Covered(run[r].pos)

TasksOK ==
    \A t \in tasks : /\ t.ev <= head
                     /\ t.seen = "present" => row[t.ev] # "none"
                     /\ t.by = "backfill" => Covered(t.ev)

RowsOK == \A f \in Log : /\ row[f] # "none" => f <= head
                         /\ row[f] = "backfill" /\ up => Covered(f)

\* The initial run is alone and skips nothing; once it scans, what it has not
\* handed over is ahead of it, and it ends in time.
InitialOK ==
    initial =>
        /\ up /\ ~run["main"].skip
        /\ \A g \in GapRunners : run[g] = Idle
        /\ \/ run["main"].phase = "marks" /\ run["main"].start <= floor
           \/ /\ run["main"].phase = "scan" /\ Covered(run["main"].last + 1)
              /\ head <= run["main"].last + 1 + GapWindow

DownOK == ~up => tasks = {} /\ run = [r \in Runners |-> Idle]

ChainOK == floor <= head /\ (fresh => head >= 1)

IngestInv ==
    /\ TypeOK /\ ChainOK /\ RowsOK /\ TasksOK
    /\ \A r \in Runners : RunnerOK(r)
    /\ InitialOK /\ DownOK
-----------------------------------------------------------------------------
(* Once settled, an event stays settled, unless the process dies: only a   *)
(* scan that starts short of the newest block may still drop the newest    *)
(* event.                                                                  *)

\* The step leaves settled what was settled before n.
Keeps(n) == \A e \in Log : e < n /\ Settled(e) => Settled(e)'

LEMMA CoveredLess ==
    ASSUME NEW f \in Int, NEW g \in Int, g <= f, Covered(f), TypeOK
    PROVE  Covered(g)
  BY DEF Covered, Log, TypeOK

LEMMA CoveredStays ==
    ASSUME TypeOK, NEW n \in Int, Keeps(n), floor' = floor, NEW f \in Int, f <= n, Covered(f)
    PROVE  Covered(f)'
  <1> SUFFICES ASSUME NEW e \in Log, floor <= e, e < f PROVE Settled(e)'
    BY DEF Covered
  <1>1. Settled(e) /\ e \in Int
    BY DEF Covered, Log
  <1>2. e < n
    BY <1>1
  <1> QED
    BY <1>1, <1>2 DEF Keeps

LEMMA RunnerFields ==
    ASSUME TypeOK, NEW r \in Runners
    PROVE  /\ run[r].phase \in {"idle", "detect", "marks", "scan"} /\ run[r].skip \in BOOLEAN
           /\ run[r].start \in 0..NumEvents /\ run[r].base \in 0..NumEvents
           /\ run[r].mark \in [Kinds -> 0..NoMark] /\ run[r].gaps \in SUBSET Log
           /\ run[r].pos \in 1..NoMark /\ run[r].last \in 0..NumEvents
           /\ run[r].read \in 0..Len(KindOrder)
           /\ run[r].start \in Nat /\ run[r].base \in Nat /\ run[r].pos \in Nat
           /\ run[r].last \in Nat /\ \A k \in Kinds : run[r].mark[k] \in Nat
           /\ \A g \in run[r].gaps : g \in Nat
  <1>1. run[r] \in Runs
    BY DEF TypeOK
  <1>2. /\ run[r].phase \in {"idle", "detect", "marks", "scan"} /\ run[r].skip \in BOOLEAN
        /\ run[r].start \in 0..NumEvents /\ run[r].base \in 0..NumEvents
        /\ run[r].mark \in [Kinds -> 0..NoMark] /\ run[r].gaps \in SUBSET Log
        /\ run[r].pos \in 1..NoMark /\ run[r].last \in 0..NumEvents
        /\ run[r].read \in 0..Len(KindOrder)
    BY <1>1 DEF Runs
  <1>3. \A k \in Kinds : run[r].mark[k] \in Nat
    BY <1>2, Constants
  <1>4. \A g \in run[r].gaps : g \in Nat
    BY <1>2 DEF Log
  <1>5. run[r].start \in Nat /\ run[r].base \in Nat /\ run[r].pos \in Nat /\ run[r].last \in Nat
    <2>1. \A n \in Nat : 0..n \subseteq Nat /\ 1..n \subseteq Nat
      OBVIOUS
    <2> QED
      BY <1>2, <2>1, Constants
  <1> QED
    BY <1>2, <1>3, <1>4, <1>5

LEMMA RunnerStays ==
    ASSUME TypeOK, NEW r \in Runners, run'[r] = run[r], head' \in Int, head <= head',
           floor' = floor, Keeps(head), RunnerOK(r)
    PROVE  RunnerOK(r)'
  <1>0. head \in Int /\ \A f \in Nat : f <= head /\ Covered(f) => f <= head' /\ Covered(f)'
    <2>1. head \in Int
      BY DEF TypeOK
    <2> SUFFICES ASSUME NEW f \in Nat, f <= head, Covered(f) PROVE f <= head' /\ Covered(f)'
      BY <2>1
    <2> QED
      BY <2>1, CoveredStays
  <1>1. MarksOK(r)'
    <2> SUFFICES ASSUME NEW k \in Kinds, run[r].mark[k] # NoMark
                 PROVE  run[r].mark[k] <= head' /\ Covered(run[r].mark[k])'
      BY DEF MarksOK
    <2>1. run[r].mark[k] <= head /\ Covered(run[r].mark[k])
      BY DEF RunnerOK, MarksOK
    <2> QED
      BY <2>1, <1>0, RunnerFields
  <1>2. run[r].start <= head' /\ Covered(run[r].start)' /\ run[r].base <= head' /\ Covered(run[r].base)'
    BY <1>0, RunnerFields DEF RunnerOK
  <1>3. \A g \in run[r].gaps : g <= head' /\ Covered(g)'
    BY <1>0, RunnerFields DEF RunnerOK
  <1>4. run[r].last <= head'
    BY <1>0, RunnerFields DEF RunnerOK
  <1>5. run[r].phase = "scan" /\ run[r].pos <= run[r].last => Covered(run[r].pos)'
    BY <1>0, RunnerFields DEF RunnerOK
  <1> QED
    BY <1>1, <1>2, <1>3, <1>4, <1>5 DEF RunnerOK

LEMMA KeepsLess ==
    ASSUME Keeps(NoMark), TypeOK
    PROVE  Keeps(head)
  BY Constants DEF Keeps, NoMark, Log, TypeOK

LEMMA QuietKeeps ==
    ASSUME TypeOK, run' = run, lost \subseteq lost', head' \in Int, head <= head',
           \A e \in Log : row[e] # "none" => row'[e] # "none",
           \A t \in tasks :
              \/ \E u \in tasks' : u.ev = t.ev
              \/ row'[t.ev] # "none"
              \/ t.ev \in lost'
    PROVE  Keeps(NoMark)
  <1> SUFFICES ASSUME NEW e \in Log, Settled(e) PROVE Settled(e)'
    BY DEF Keeps
  <1>1. CASE row[e] # "none"
    BY <1>1 DEF Settled
  <1>2. CASE \E t \in tasks : t.ev = e
    BY <1>2 DEF Settled
  <1>3. CASE e \in lost
    BY <1>3 DEF Settled
  <1>4. ASSUME NEW r \in Runners, ~run[r].skip, WillHand(r, e) PROVE Settled(e)'
    <2>1. WillHand(r, e)'
      BY <1>4 DEF WillHand, Skipped, TypeOK, Log
    <2> QED
      BY <1>4, <2>1 DEF Settled
  <1> QED
    BY <1>1, <1>2, <1>3, <1>4 DEF Settled

LEMMA MovesKeep ==
    ASSUME TypeOK, NEW n, row' = row, tasks \subseteq tasks', lost \subseteq lost', head' = head,
           \A q \in Runners :
              \/ run'[q] = run[q]
              \/ \A e \in Log : e < n /\ ~run[q].skip /\ WillHand(q, e) => Settled(e)'
    PROVE  Keeps(n)
  <1> SUFFICES ASSUME NEW e \in Log, e < n, Settled(e) PROVE Settled(e)'
    BY DEF Keeps
  <1>1. CASE row[e] # "none"
    BY <1>1 DEF Settled
  <1>2. CASE \E t \in tasks : t.ev = e
    BY <1>2 DEF Settled
  <1>3. CASE e \in lost
    BY <1>3 DEF Settled
  <1>4. ASSUME NEW r \in Runners, ~run[r].skip, WillHand(r, e) PROVE Settled(e)'
    <2>1. CASE run'[r] = run[r]
      <3>1. WillHand(r, e)'
        BY <1>4, <2>1 DEF WillHand, Skipped
      <3> QED
        BY <1>4, <2>1, <3>1 DEF Settled
    <2> QED
      BY <1>4, <2>1
  <1> QED
    BY <1>1, <1>2, <1>3, <1>4 DEF Settled

LEMMA AllRunnersStay ==
    ASSUME IngestInv, run' = run, head' \in Int, head <= head', floor' = floor, Keeps(NoMark)
    PROVE  \A r \in Runners : RunnerOK(r)'
  <1> SUFFICES ASSUME NEW r \in Runners PROVE RunnerOK(r)'
    OBVIOUS
  <1>1. TypeOK /\ RunnerOK(r) /\ Keeps(head)
    BY KeepsLess DEF IngestInv
  <1> QED
    BY <1>1, RunnerStays

\* Steps in which no runner moves.
LEMMA QuietInv ==
    ASSUME IngestInv, TypeOK', ChainOK', TasksOK', Keeps(NoMark),
           run' = run, floor' = floor, up' = up, initial' = initial,
           head' = head \/ (head' = head + 1 /\ InTime),
           \A f \in Log : row'[f] # row[f] =>
              /\ f <= head'
              /\ row'[f] = "backfill" => Covered(f)',
           up \/ tasks' = tasks
    PROVE  IngestInv'
  <1>1. TypeOK /\ head \in Int /\ head' \in Int /\ head <= head'
    BY DEF IngestInv, TypeOK
  <1>2. \A r \in Runners : RunnerOK(r)'
    BY <1>1, AllRunnersStay
  <1>3. RowsOK'
    <2> SUFFICES ASSUME NEW f \in Log
                 PROVE  /\ row'[f] # "none" => f <= head'
                        /\ row'[f] = "backfill" /\ up' => Covered(f)'
      BY DEF RowsOK
    <2>1. CASE row'[f] # row[f]
      BY <2>1, Zenon
    <2>2. CASE row'[f] = row[f]
      <3>1. row[f] # "none" => f <= head
        BY DEF IngestInv, RowsOK
      <3>2. f \in Int /\ f <= NoMark
        BY Constants DEF Log, NoMark
      <3>3. ASSUME row[f] = "backfill", up PROVE Covered(f)'
        <4>1. Covered(f)
          BY <3>3 DEF IngestInv, RowsOK
        <4> QED
          BY <1>1, <3>2, <4>1, CoveredStays, Constants
      <3> QED
        BY <1>1, <2>2, <3>1, <3>2, <3>3
    <2> QED
      BY <2>1, <2>2
  <1>4. InitialOK'
    <2> SUFFICES ASSUME initial
                 PROVE  /\ up /\ ~run["main"].skip
                        /\ \A g \in GapRunners : run[g] = Idle
                        /\ \/ run["main"].phase = "marks" /\ run["main"].start <= floor
                           \/ /\ run["main"].phase = "scan" /\ Covered(run["main"].last + 1)'
                              /\ head' <= run["main"].last + 1 + GapWindow
      BY DEF InitialOK
    <2>1. InitialOK /\ run["main"].last \in 0..NumEvents
      BY <1>1, Constants, RunnerFields DEF IngestInv
    <2>2. CASE run["main"].phase = "scan"
      <3> DEFINE last == run["main"].last
      <3>1. Covered(last + 1) /\ head <= last + 1 + GapWindow
        BY <2>1, <2>2 DEF InitialOK
      <3>2. last + 1 \in Int /\ last + 1 <= NoMark
        BY <2>1, Constants DEF NoMark
      <3>3. Covered(last + 1)'
        <4>1. ASSUME NEW n \in Int, n <= NoMark, Covered(n) PROVE Covered(n)'
          BY <1>1, <4>1, CoveredStays, Constants
        <4>2. \A e \in Log : floor <= e /\ e < last + 1 => Settled(e)'
          BY <3>1, <3>2, <4>1 DEF Covered
        <4> QED
          BY <4>2 DEF Covered
      <3>4. head' <= last + 1 + GapWindow
        <4>1. head' = head \/ (head' = head + 1 /\ head <= last + GapWindow)
          BY <2>2 DEF InTime
        <4>2. last \in Int /\ GapWindow \in Int
          BY <2>1, Constants
        <4> HIDE DEF last
        <4> QED
          BY <1>1, <3>1, <4>1, <4>2
      <3> QED
        BY <2>1, <2>2, <3>3, <3>4 DEF InitialOK
    <2>3. CASE run["main"].phase # "scan"
      BY <2>1, <2>3 DEF InitialOK
    <2> QED
      BY <2>2, <2>3
  <1>5. DownOK'
    BY DEF IngestInv, DownOK
  <1> QED
    BY <1>2, <1>3, <1>4, <1>5 DEF IngestInv

\* What TasksOK says of a task that was there before.
LEMMA TaskStays ==
    ASSUME IngestInv, NEW t \in tasks, head' \in Int, head <= head', floor' = floor,
           Keeps(head), \A e \in Log : row[e] # "none" => row'[e] # "none"
    PROVE  /\ t \in Tasks /\ t.ev <= head'
           /\ t.seen = "present" => row'[t.ev] # "none"
           /\ t.by = "backfill" => Covered(t.ev)'
  <1>1. TypeOK /\ t \in Tasks /\ t.ev \in Log /\ t.ev \in Int /\ head \in Int
    BY DEF IngestInv, TypeOK, Tasks, Log
  <1>2. /\ t.ev <= head
        /\ t.seen = "present" => row[t.ev] # "none"
        /\ t.by = "backfill" => Covered(t.ev)
    BY DEF IngestInv, TasksOK
  <1>3. t.ev <= head'
    BY <1>1, <1>2
  <1>4. t.by = "backfill" => Covered(t.ev)'
    BY <1>1, <1>2, CoveredStays
  <1> QED
    BY <1>1, <1>2, <1>3, <1>4

LEMMA MineInv ==
    ASSUME IngestInv, TypeOK', Mine
    PROVE  IngestInv'
  <1>1. TypeOK /\ head \in Int /\ head' = head + 1 /\ head' \in Int /\ head' \in Log /\ floor \in Nat
    BY DEF IngestInv, TypeOK, Mine, Log
  <1>2. run' = run /\ row' = row /\ lost' = lost /\ floor' = floor /\ up' = up
        /\ initial' = initial /\ tasks \subseteq tasks'
    BY DEF Mine
  <1>3. Keeps(NoMark)
    BY <1>1, <1>2, QuietKeeps
  <1>4. ChainOK'
    BY <1>1, <1>2 DEF IngestInv, ChainOK
  <1>5. ASSUME NEW t \in tasks'
        PROVE  /\ t.ev <= head'
               /\ t.seen = "present" => row'[t.ev] # "none"
               /\ t.by = "backfill" => Covered(t.ev)'
    <2>1. CASE t \in tasks
      BY <1>1, <1>2, <1>3, <2>1, KeepsLess, TaskStays
    <2>2. CASE t = [ev |-> head + 1, by |-> "live", seen |-> "no"]
      BY <1>1, <2>2
    <2> QED
      BY <2>1, <2>2 DEF Mine
  <1>6. TasksOK'
    BY <1>5 DEF TasksOK
  <1>7. head' = head + 1 /\ InTime /\ (up \/ tasks' = tasks)
    BY DEF Mine, Audible
  <1> QED
    BY <1>2, <1>3, <1>4, <1>6, <1>7, QuietInv

LEMMA NewBlockInv ==
    ASSUME IngestInv, TypeOK', NewBlock
    PROVE  IngestInv'
  <1>1. TypeOK /\ head \in Int /\ head' = head
    BY DEF IngestInv, TypeOK, NewBlock
  <1>2. run' = run /\ row' = row /\ lost' = lost /\ floor' = floor /\ up' = up
        /\ initial' = initial /\ tasks' = tasks
    BY DEF NewBlock
  <1>3. Keeps(NoMark)
    BY <1>1, <1>2, QuietKeeps
  <1>4. ChainOK'
    BY <1>1, <1>2 DEF IngestInv, ChainOK, NewBlock
  <1>5. TasksOK'
    BY <1>1, <1>2, <1>3, KeepsLess, TaskStays DEF TasksOK
  <1> QED
    BY <1>1, <1>2, <1>3, <1>4, <1>5, QuietInv

\* A step of one insert t: the row of its event may change, and t ends or has
\* looked for the row.
LEMMA InsertInv ==
    ASSUME IngestInv, TypeOK', NEW t \in tasks,
           run' = run, head' = head, fresh' = fresh, floor' = floor, up' = up, initial' = initial,
           lost \subseteq lost',
           \A e \in Log : e # t.ev => row'[e] = row[e],
           row'[t.ev] = row[t.ev] \/ row'[t.ev] = t.by,
           row[t.ev] # "none" => row'[t.ev] # "none",
           \/ tasks' = tasks \ {t} /\ (row'[t.ev] # "none" \/ t.ev \in lost')
           \/ \E seen \in {"absent", "present"} :
                 /\ tasks' = (tasks \ {t}) \cup {[t EXCEPT !.seen = seen]}
                 /\ seen = "present" => row'[t.ev] # "none"
    PROVE  IngestInv'
  <1>1. TypeOK /\ head \in Int /\ t \in Tasks /\ t.ev \in Log
    BY DEF IngestInv, TypeOK, Tasks
  <1>2. \A e \in Log : row[e] # "none" => row'[e] # "none"
    OBVIOUS
  <1>3. Keeps(NoMark)
    <2>1. ASSUME NEW u \in tasks
          PROVE  (\E v \in tasks' : v.ev = u.ev) \/ row'[u.ev] # "none" \/ u.ev \in lost'
      <3>1. CASE u # t
        BY <3>1
      <3>2. CASE u = t
        <4>1. \A s \in {"absent", "present"} : [t EXCEPT !.seen = s].ev = t.ev
          BY <1>1 DEF Tasks
        <4> QED
          BY <3>2, <4>1
      <3> QED
        BY <3>1, <3>2
    <2> QED
      BY <1>1, <1>2, <2>1, QuietKeeps
  <1>4. ChainOK'
    BY DEF IngestInv, ChainOK
  <1>5. \A u \in tasks : /\ u.ev <= head'
                         /\ u.seen = "present" => row'[u.ev] # "none"
                         /\ u.by = "backfill" => Covered(u.ev)'
    BY <1>1, <1>2, <1>3, KeepsLess, TaskStays
  <1>6. TasksOK'
    <2> SUFFICES ASSUME NEW u \in tasks'
                 PROVE  /\ u.ev <= head'
                        /\ u.seen = "present" => row'[u.ev] # "none"
                        /\ u.by = "backfill" => Covered(u.ev)'
      BY DEF TasksOK
    <2>1. CASE u \in tasks
      BY <1>5, <2>1
    <2>2. CASE u \notin tasks
      <3>1. PICK seen \in {"absent", "present"} :
               u = [t EXCEPT !.seen = seen] /\ (seen = "present" => row'[t.ev] # "none")
        BY <2>2
      <3>2. u.ev = t.ev /\ u.by = t.by /\ u.seen = seen
        BY <1>1, <3>1 DEF Tasks
      <3>3. u.ev <= head' /\ (u.by = "backfill" => Covered(t.ev)')
        BY <1>5, <3>2
      <3> QED
        BY <3>1, <3>2, <3>3
    <2> QED
      BY <2>1, <2>2
  <1>7. ASSUME NEW f \in Log, row'[f] # row[f]
        PROVE  f <= head' /\ (row'[f] = "backfill" => Covered(f)')
    <2>1. f = t.ev /\ row'[f] = t.by
      BY <1>7
    <2> QED
      BY <1>5, <2>1
  <1>8. up
    BY DEF IngestInv, DownOK
  <1> QED
    BY <1>3, <1>4, <1>6, <1>7, <1>8, QuietInv

LEMMA WriteInv ==
    ASSUME IngestInv, TypeOK', NEW t \in tasks,
           Upsert(t) \/ FindRow(t) \/ CreateOrUpdate(t) \/ InsertFails(t)
    PROVE  IngestInv'
  <1>1. TypeOK /\ t \in Tasks /\ t.ev \in Log /\ t.by \in {"live", "backfill"}
        /\ row \in [Log -> {"none", "live", "backfill"}]
    BY DEF IngestInv, TypeOK, Tasks
  <1>2. t.seen = "present" => row[t.ev] # "none"
    BY DEF IngestInv, TasksOK
  <1>3. CASE Upsert(t)
    <2>1. run' = run /\ head' = head /\ fresh' = fresh /\ floor' = floor /\ up' = up
          /\ initial' = initial /\ lost' = lost
      BY <1>3 DEF Upsert
    <2>2. tasks' = tasks \ {t} /\ row' = [row EXCEPT ![t.ev] = t.by]
      BY <1>3 DEF Upsert
    <2>3. row'[t.ev] = t.by /\ row'[t.ev] # "none" /\ \A e \in Log : e # t.ev => row'[e] = row[e]
      BY <1>1, <2>2
    <2> QED
      BY <2>1, <2>2, <2>3, InsertInv
  <1>4. CASE FindRow(t)
    <2>1. run' = run /\ head' = head /\ fresh' = fresh /\ floor' = floor /\ up' = up
          /\ initial' = initial /\ lost' = lost /\ row' = row
      BY <1>4 DEF FindRow
    <2>2. \E seen \in {"absent", "present"} :
             /\ tasks' = (tasks \ {t}) \cup {[t EXCEPT !.seen = seen]}
             /\ seen = "present" => row'[t.ev] # "none"
      BY <1>4 DEF FindRow
    <2> QED
      BY <2>1, <2>2, InsertInv
  <1>5. CASE CreateOrUpdate(t)
    <2>1. run' = run /\ head' = head /\ fresh' = fresh /\ floor' = floor /\ up' = up
          /\ initial' = initial /\ lost' = lost
      BY <1>5 DEF CreateOrUpdate
    <2>2. tasks' = tasks \ {t} /\ t.seen \in {"absent", "present"}
      BY <1>1, <1>5 DEF CreateOrUpdate, Tasks
    <2>3. \/ row' = [row EXCEPT ![t.ev] = t.by]
          \/ row' = row /\ ~(t.seen = "absent" /\ row[t.ev] = "none")
      BY <1>5 DEF CreateOrUpdate
    <2>4. (row'[t.ev] = t.by \/ row'[t.ev] = row[t.ev]) /\ row'[t.ev] # "none"
          /\ \A e \in Log : e # t.ev => row'[e] = row[e]
      BY <1>1, <1>2, <2>2, <2>3
    <2> QED
      BY <2>1, <2>2, <2>4, InsertInv
  <1>6. CASE InsertFails(t)
    <2>1. run' = run /\ head' = head /\ fresh' = fresh /\ floor' = floor /\ up' = up
          /\ initial' = initial /\ lost' = lost \cup {t.ev} /\ row' = row /\ tasks' = tasks \ {t}
      BY <1>6 DEF InsertFails
    <2>2. t.ev \in lost' /\ lost \subseteq lost'
      BY <2>1
    <2> QED
      BY <2>1, <2>2, InsertInv
  <1> QED
    BY <1>3, <1>4, <1>5, <1>6

-----------------------------------------------------------------------------
(* Steps of the runs.                                                      *)

\* Steps in which the process runs and runners move: what is to be shown is
\* that what was settled stays so, that the runners that moved are where they
\* may be, and what new inserts and the initial run rest on.
LEMMA MoveInv ==
    ASSUME IngestInv, TypeOK', up, up' = up, head' = head, fresh' = fresh, floor' = floor,
           row' = row, Keeps(head), InitialOK',
           \A t \in tasks' : \/ t \in tasks
                             \/ t.ev <= head /\ t.seen = "no" /\ Covered(t.ev)',
           \A r \in Runners : run'[r] = run[r] \/ RunnerOK(r)'
    PROVE  IngestInv'
  <1>1. TypeOK /\ head \in Int /\ \A f \in Log : f \in Int
    BY DEF IngestInv, TypeOK, Log
  <1>2. RowsOK'
    <2> SUFFICES ASSUME NEW f \in Log, row[f] # "none"
                 PROVE  f <= head /\ (row[f] = "backfill" => Covered(f)')
      BY DEF RowsOK
    <2>1. f <= head /\ (row[f] = "backfill" => Covered(f))
      BY DEF IngestInv, RowsOK
    <2> QED
      BY <1>1, <2>1, CoveredStays
  <1>3. TasksOK'
    <2> SUFFICES ASSUME NEW t \in tasks'
                 PROVE  /\ t.ev <= head'
                        /\ t.seen = "present" => row'[t.ev] # "none"
                        /\ t.by = "backfill" => Covered(t.ev)'
      BY DEF TasksOK
    <2>1. CASE t \in tasks
      BY <1>1, <2>1, TaskStays
    <2>2. CASE t \notin tasks
      BY <2>2
    <2> QED
      BY <2>1, <2>2
  <1>4. ASSUME NEW r \in Runners PROVE RunnerOK(r)'
    <2>1. CASE run'[r] = run[r]
      <3>1. RunnerOK(r)
        BY DEF IngestInv
      <3> QED
        BY <1>1, <2>1, <3>1, RunnerStays
    <2> QED
      BY <2>1
  <1>5. ChainOK' /\ DownOK'
    BY DEF IngestInv, ChainOK, DownOK
  <1> QED
    BY <1>2, <1>3, <1>4, <1>5 DEF IngestInv

LEMMA MovingIsUp ==
    ASSUME IngestInv, NEW r \in Runners, run[r].phase # "idle"
    PROVE  up /\ (initial => r = "main")
  <1>1. Idle.phase = "idle"
    BY DEF Idle
  <1> QED
    BY <1>1 DEF IngestInv, DownOK, InitialOK, Runners

\* The watermark of a table hides nothing.
LEMMA WatermarkCovered ==
    ASSUME IngestInv, up, NEW k \in Kinds
    PROVE  \/ Watermark(k) = NoMark
           \/ Watermark(k) \in Nat /\ Watermark(k) <= head /\ Covered(Watermark(k))
  <1>1. TypeOK
    BY DEF IngestInv
  <1>2. CASE Watermark(k) # NoMark
    <2>1. PICK f \in Backfilled(k) : Watermark(k) \in 0..f
      BY <1>1, <1>2, WatermarkType
    <2>2. f \in Log /\ f \in Int /\ f <= head /\ Covered(f)
      BY DEF Backfilled, IngestInv, RowsOK, Log
    <2>3. Watermark(k) \in Int /\ Watermark(k) \in Nat /\ Watermark(k) <= f
      BY <2>1, <2>2
    <2>4. Watermark(k) <= head
      BY <1>1, <2>2, <2>3 DEF TypeOK
    <2> QED
      BY <1>1, <2>2, <2>3, <2>4, CoveredLess
  <1> QED
    BY <1>2

LEMMA CoveredKept ==
    ASSUME TypeOK, floor' = floor, Keeps(head)
    PROVE  \A f \in Nat : f <= head /\ Covered(f) => Covered(f)'
  <1> SUFFICES ASSUME NEW f \in Nat, f <= head, Covered(f) PROVE Covered(f)'
    OBVIOUS
  <1>1. head \in Int
    BY DEF TypeOK
  <1> QED
    BY <1>1, CoveredStays

LEMMA CoveredLow ==
    ASSUME NEW f \in Int, f <= 1
    PROVE  Covered(f) /\ Covered(f)'
  BY DEF Covered, Log

LEMMA IdleOK ==
    ASSUME TypeOK, NEW r \in Runners, head' = head, run'[r] = Idle
    PROVE  RunnerOK(r)'
  <1>1. head >= 0 /\ Covered(0)'
    BY CoveredLow DEF TypeOK
  <1>2. /\ Idle.phase = "idle" /\ Idle.start = 0 /\ Idle.base = 0 /\ Idle.gaps = {}
        /\ Idle.last = 0 /\ \A k \in Kinds : Idle.mark[k] = NoMark
    BY DEF Idle
  <1> QED
    BY <1>1, <1>2 DEF RunnerOK, MarksOK

LEMMA ReadWatermarkInv ==
    ASSUME IngestInv, TypeOK', NEW r \in Runners, ReadWatermark(r)
    PROVE  IngestInv'
  <1>1. TypeOK /\ run \in [Runners -> Runs] /\ run[r] \in Runs /\ run[r].phase = "marks"
    BY DEF IngestInv, TypeOK, ReadWatermark
  <1>2. up /\ (initial => r = "main")
    BY <1>1, MovingIsUp
  <1>3. PICK k \in Kinds :
           /\ run'[r] = [run[r] EXCEPT !.mark = [run[r].mark EXCEPT ![k] = Watermark(k)],
                                       !.read = run[r].read + 1]
           /\ run' = [run EXCEPT ![r] = run'[r]]
    BY <1>1, ReadWatermarkEffect
  <1>4. /\ run'[r].phase = "marks" /\ run'[r].skip = run[r].skip /\ run'[r].start = run[r].start
        /\ run'[r].base = run[r].base /\ run'[r].gaps = run[r].gaps /\ run'[r].last = run[r].last
        /\ run'[r].mark = [run[r].mark EXCEPT ![k] = Watermark(k)]
    BY <1>1, <1>3 DEF Runs
  <1>5. \A q \in Runners : q # r => run'[q] = run[q]
    BY <1>1, <1>3
  <1>6. head' = head /\ fresh' = fresh /\ row' = row /\ tasks' = tasks /\ initial' = initial
        /\ up' = up /\ floor' = floor /\ lost' = lost
    BY DEF ReadWatermark
  <1>7. Keeps(NoMark)
    <2>1. ASSUME NEW e \in Log, ~run[r].skip, WillHand(r, e) PROVE Settled(e)'
      <3>1. WillHand(r, e)'
        BY <1>1, <1>4, <1>6, <2>1 DEF WillHand
      <3> QED
        BY <1>4, <2>1, <3>1 DEF Settled
    <2> QED
      BY <1>1, <1>5, <1>6, <2>1, MovesKeep
  <1>8. Keeps(head) /\ \A f \in Nat : f <= head /\ Covered(f) => Covered(f)'
    BY <1>1, <1>6, <1>7, KeepsLess, CoveredKept
  <1>9. RunnerOK(r)'
    <2>1. RunnerOK(r)
      BY DEF IngestInv
    <2>2. MarksOK(r)'
      <3> SUFFICES ASSUME NEW j \in Kinds, run'[r].mark[j] # NoMark
                   PROVE  run'[r].mark[j] <= head /\ Covered(run[r].mark[j])'
        BY <1>6 DEF MarksOK
      <3>1. run[r].mark \in [Kinds -> 0..NoMark]
        BY <1>1 DEF Runs
      <3>2. CASE j = k
        <4>1. run'[r].mark[j] = Watermark(k)
          BY <1>4, <3>1, <3>2
        <4>2. Watermark(k) \in Nat /\ Watermark(k) <= head /\ Covered(Watermark(k))
          BY <1>2, <4>1, WatermarkCovered
        <4> QED
          BY <1>8, <4>1, <4>2
      <3>3. CASE j # k
        <4>1. run'[r].mark[j] = run[r].mark[j] /\ run[r].mark[j] \in Nat
          BY <1>1, <1>4, <3>1, <3>3, RunnerFields
        <4>2. run[r].mark[j] <= head /\ Covered(run[r].mark[j])
          BY <2>1, <4>1 DEF RunnerOK, MarksOK
        <4> QED
          BY <1>8, <4>1, <4>2
      <3> QED
        BY <3>2, <3>3
    <2>3. run'[r].start <= head /\ Covered(run[r].start)' /\ run'[r].base <= head /\ Covered(run[r].base)'
      BY <1>1, <1>4, <1>8, <2>1, RunnerFields DEF RunnerOK
    <2>4. \A g \in run'[r].gaps : g <= head /\ Covered(g)'
      BY <1>1, <1>4, <1>8, <2>1, RunnerFields DEF RunnerOK
    <2>5. run'[r].last <= head
      BY <1>4, <2>1 DEF RunnerOK
    <2> QED
      BY <1>4, <1>6, <2>2, <2>3, <2>4, <2>5 DEF RunnerOK
  <1>10. InitialOK'
    <2> SUFFICES ASSUME initial
                 PROVE  /\ ~run'["main"].skip /\ \A g \in GapRunners : run'[g] = Idle
                        /\ run'["main"].phase = "marks" /\ run'["main"].start <= floor
      BY <1>2, <1>6 DEF InitialOK
    <2>1. r = "main" /\ InitialOK /\ \A g \in GapRunners : g \in Runners /\ g # r
      BY <1>2, Constants DEF IngestInv, Runners
    <2> QED
      BY <1>1, <1>4, <1>5, <2>1 DEF InitialOK
  <1> QED
    BY <1>2, <1>5, <1>6, <1>8, <1>9, <1>10, MoveInv

LEMMA StartScanInv ==
    ASSUME IngestInv, TypeOK', NEW r \in Runners, StartScan(r)
    PROVE  IngestInv'
  <1> DEFINE since == Since(r)
  <1>1. /\ TypeOK /\ run \in [Runners -> Runs] /\ run[r] \in Runs /\ run[r].phase = "marks"
        /\ RunnerOK(r) /\ ChainOK /\ InitialOK /\ head \in Nat /\ floor \in Nat
        /\ run[r].skip \in BOOLEAN
    <2>1. TypeOK /\ run \in [Runners -> Runs] /\ run[r] \in Runs /\ head \in Nat /\ floor \in Nat
      BY DEF IngestInv, TypeOK
    <2>2. run[r].phase = "marks" /\ RunnerOK(r) /\ ChainOK /\ InitialOK
      BY Zenon DEF IngestInv, StartScan
    <2> QED
      BY <2>1, <2>2, RunnerFields
  <1>2. up /\ (initial => r = "main")
    BY <1>1, MovingIsUp
  <1>3. PICK p \in MoreOf(1, since - Precision)..MoreOf(1, since),
             l \in IF fresh THEN {head - 1, head} ELSE {head} :
          run' = [run EXCEPT ![r].phase = "scan", ![r].pos = p, ![r].last = l,
                             ![r].start = 0, ![r].read = 0,
                             ![r].mark = IF run[r].skip THEN @ ELSE Idle.mark]
    BY DEF StartScan
  <1>4. /\ since \in Nat /\ since <= run[r].start /\ run[r].start \in Nat
        /\ run[r].start <= head /\ Covered(run[r].start)
    BY <1>1, SinceType, RunnerFields, Constants DEF RunnerOK
  <1>5. p \in Int /\ p >= 1 /\ (p <= since \/ p <= 1)
    BY <1>4, Constants DEF MoreOf
  <1>6. l \in Int /\ l <= head /\ head <= l + 1
    BY <1>1 DEF ChainOK
  <1>7. /\ run'[r].phase = "scan" /\ run'[r].pos = p /\ run'[r].last = l
        /\ run'[r].start = 0 /\ run'[r].skip = run[r].skip
        /\ run'[r].base = run[r].base /\ run'[r].gaps = run[r].gaps
        /\ run'[r].mark = IF run[r].skip THEN run[r].mark ELSE Idle.mark
    BY <1>1, <1>3 DEF Runs
  <1>8. \A q \in Runners : q # r => run'[q] = run[q]
    BY <1>1, <1>3
  <1>9. head' = head /\ fresh' = fresh /\ row' = row /\ tasks' = tasks /\ initial' = initial
        /\ up' = up /\ floor' = floor /\ lost' = lost
    BY DEF StartScan
  <1> HIDE DEF since
  <1>10. ASSUME NEW e \in Log, ~run[r].skip, run[r].start <= e, e <= l PROVE Settled(e)'
    <2>1. e \in Int /\ e >= 1
      BY DEF Log
    <2>2. p <= e
      BY <1>4, <1>5, <1>10, <2>1
    <2>3. WillHand(r, e)'
      BY <1>7, <1>10, <2>2 DEF WillHand, Skipped
    <2> QED
      BY <1>7, <1>10, <2>3 DEF Settled
  <1>11. Keeps(head)
    <2>1. ASSUME NEW e \in Log, e < head, ~run[r].skip, WillHand(r, e) PROVE Settled(e)'
      <3>1. run[r].start <= e
        BY <1>1, <2>1 DEF WillHand
      <3>2. e <= l
        BY <1>1, <1>6, <2>1 DEF Log
      <3> QED
        BY <1>10, <2>1, <3>1, <3>2
    <2> QED
      BY <1>1, <1>8, <1>9, <2>1, MovesKeep
  <1>12. \A f \in Nat : f <= head /\ Covered(f) => Covered(f)'
    BY <1>1, <1>9, <1>11, CoveredKept
  <1>13. RunnerOK(r)'
    <2>1. MarksOK(r)'
      <3> SUFFICES ASSUME NEW j \in Kinds, run'[r].mark[j] # NoMark
                   PROVE  run'[r].mark[j] <= head /\ Covered(run[r].mark[j])'
        BY <1>9 DEF MarksOK
      <3>1. run'[r].mark = run[r].mark
        BY <1>7 DEF Idle
      <3>2. run[r].mark[j] \in Nat /\ run[r].mark[j] <= head /\ Covered(run[r].mark[j])
        BY <1>1, <3>1, RunnerFields DEF RunnerOK, MarksOK
      <3> QED
        BY <1>12, <3>1, <3>2
    <2>2. run'[r].start <= head /\ Covered(run[r].start)'
      BY <1>1, <1>7, CoveredLow
    <2>3. run'[r].base <= head /\ Covered(run[r].base)'
      BY <1>1, <1>7, <1>12, RunnerFields DEF RunnerOK
    <2>4. \A g \in run'[r].gaps : g <= head /\ Covered(g)'
      BY <1>1, <1>7, <1>12, RunnerFields DEF RunnerOK
    <2>5. p <= l => Covered(run[r].pos)'
      <3> SUFFICES ASSUME p <= l PROVE Covered(run[r].pos)'
        OBVIOUS
      <3>1. CASE p <= 1
        BY <1>5, <1>7, <3>1, CoveredLow
      <3>2. CASE p <= since
        <4>1. p <= run[r].start /\ p <= head /\ p \in Nat
          BY <1>1, <1>4, <1>5, <1>6, <3>2
        <4>2. Covered(p)
          BY <1>1, <1>4, <4>1, CoveredLess
        <4> QED
          BY <1>7, <1>12, <4>1, <4>2
      <3> QED
        BY <1>5, <3>1, <3>2
    <2> QED
      BY <1>6, <1>7, <1>9, <2>1, <2>2, <2>3, <2>4, <2>5 DEF RunnerOK
  <1>14. InitialOK'
    <2> SUFFICES ASSUME initial
                 PROVE  /\ ~run'["main"].skip /\ \A g \in GapRunners : run'[g] = Idle
                        /\ run'["main"].phase = "scan" /\ Covered(run["main"].last + 1)'
                        /\ head <= run'["main"].last + 1 + GapWindow
      BY <1>2, <1>9 DEF InitialOK
    <2>1. r = "main" /\ \A g \in GapRunners : g \in Runners /\ g # r
      BY <1>2, Constants DEF Runners
    <2>2. ~run[r].skip /\ run[r].start <= floor
      BY <1>1, <2>1 DEF InitialOK
    <2>3. Covered(run[r].last + 1)'
      <3>1. ASSUME NEW e \in Log, floor <= e, e < l + 1 PROVE Settled(e)'
        <4>1. run[r].start <= e /\ e <= l
          BY <1>1, <1>4, <1>6, <2>2, <3>1 DEF Log
        <4> QED
          BY <1>10, <2>2, <4>1
      <3> QED
        BY <1>7, <1>9, <3>1 DEF Covered
    <2>4. head <= l + 1 + GapWindow
      BY <1>1, <1>6, Constants
    <2>5. \A g \in GapRunners : run'[g] = Idle
      BY <1>1, <1>8, <2>1 DEF InitialOK
    <2> QED
      BY <1>7, <2>1, <2>2, <2>3, <2>4, <2>5
  <1> QED
    BY <1>2, <1>8, <1>9, <1>11, <1>13, <1>14, MoveInv

\* A scan's cursor goes on to p: what it leaves behind is skipped, or has been
\* handed over or given up.
LEMMA ScanInv ==
    ASSUME IngestInv, TypeOK', NEW r \in Runners, run[r].phase = "scan",
           NEW p \in Int, run[r].pos < p, p <= run[r].last + 1, run' = [run EXCEPT ![r].pos = p],
           \A e \in Log : /\ run[r].pos <= e /\ e < p /\ ~Skipped(r, e)
                          => (\E t \in tasks' : t.ev = e) \/ e \in lost',
           head' = head, fresh' = fresh, row' = row, initial' = initial, up' = up,
           floor' = floor, lost \subseteq lost', tasks \subseteq tasks',
           \A t \in tasks' : \/ t \in tasks
                             \/ t.ev = run[r].pos /\ t.seen = "no"
    PROVE  IngestInv'
  <1> DEFINE pos == run[r].pos
             last == run[r].last
  <1>1. /\ TypeOK /\ run \in [Runners -> Runs] /\ run[r] \in Runs
        /\ RunnerOK(r) /\ ChainOK /\ InitialOK /\ head \in Nat /\ floor \in Nat
    BY DEF IngestInv, TypeOK
  <1>2. up /\ (initial => r = "main")
    BY <1>1, MovingIsUp
  <1>3. pos \in Nat /\ last \in Nat /\ last <= head /\ pos <= last /\ Covered(pos)
    BY <1>1, RunnerFields DEF RunnerOK
  <1>4. /\ run'[r].phase = "scan" /\ run'[r].pos = p /\ run'[r].last = last
        /\ run'[r].start = run[r].start /\ run'[r].skip = run[r].skip
        /\ run'[r].base = run[r].base /\ run'[r].gaps = run[r].gaps /\ run'[r].mark = run[r].mark
    BY <1>1 DEF Runs
  <1>5. \A q \in Runners : q # r => run'[q] = run[q]
    BY <1>1
  <1>6. Keeps(NoMark)
    <2>1. ASSUME NEW e \in Log, ~run[r].skip, WillHand(r, e) PROVE Settled(e)'
      <3>1. pos <= e /\ e <= last /\ ~Skipped(r, e) /\ e \in Int
        BY <2>1 DEF WillHand, Log
      <3>2. CASE e < p
        BY <3>1, <3>2 DEF Settled
      <3>3. CASE p <= e
        <4>1. WillHand(r, e)'
          BY <2>1, <3>1, <3>3, <1>4 DEF WillHand, Skipped
        <4> QED
          BY <1>4, <2>1, <4>1 DEF Settled
      <3> QED
        BY <3>1, <3>2, <3>3
    <2> QED
      BY <1>1, <1>5, <2>1, MovesKeep
  <1>7. Keeps(head) /\ \A f \in Nat : f <= head /\ Covered(f) => Covered(f)'
    BY <1>1, <1>6, KeepsLess, CoveredKept
  <1>8. Covered(p)'
    <2> SUFFICES ASSUME NEW e \in Log, floor <= e, e < p PROVE Settled(e)'
      BY DEF Covered
    <2>1. e \in Int /\ e < NoMark
      BY Constants DEF Log, NoMark
    <2>2. CASE e < pos
      BY <1>3, <1>6, <2>1, <2>2 DEF Covered, Keeps
    <2>3. CASE pos <= e /\ ~Skipped(r, e)
      BY <2>3 DEF Settled
    <2>4. CASE pos <= e /\ Skipped(r, e)
      <3> DEFINE m == run[r].mark[KindOf[e]]
      <3>1. m # NoMark /\ e < m /\ KindOf[e] \in Kinds
        BY <2>4, Constants DEF Skipped
      <3>2. Covered(m)
        BY <1>1, <3>1 DEF RunnerOK, MarksOK
      <3>3. Settled(e)
        BY <3>1, <3>2 DEF Covered
      <3> QED
        BY <1>6, <2>1, <3>3 DEF Keeps
    <2> QED
      BY <1>3, <2>1, <2>2, <2>3, <2>4
  <1>9. RunnerOK(r)'
    <2>1. MarksOK(r)'
      <3> SUFFICES ASSUME NEW j \in Kinds, run[r].mark[j] # NoMark
                   PROVE  run[r].mark[j] <= head /\ Covered(run[r].mark[j])'
        BY <1>4 DEF MarksOK
      <3>1. run[r].mark[j] \in Nat /\ run[r].mark[j] <= head /\ Covered(run[r].mark[j])
        BY <1>1, RunnerFields DEF RunnerOK, MarksOK
      <3> QED
        BY <1>4, <1>7, <3>1
    <2>2. /\ run'[r].start <= head /\ Covered(run[r].start)'
          /\ run'[r].base <= head /\ Covered(run[r].base)'
      BY <1>1, <1>4, <1>7, RunnerFields DEF RunnerOK
    <2>3. \A g \in run'[r].gaps : g <= head /\ Covered(g)'
      BY <1>1, <1>4, <1>7, RunnerFields DEF RunnerOK
    <2>4. Covered(run[r].pos)'
      BY <1>4, <1>8
    <2> QED
      BY <1>3, <1>4, <2>1, <2>2, <2>3, <2>4 DEF RunnerOK
  <1>10. InitialOK'
    <2> SUFFICES ASSUME initial
                 PROVE  /\ ~run'["main"].skip /\ \A g \in GapRunners : run'[g] = Idle
                        /\ run'["main"].phase = "scan" /\ Covered(run["main"].last + 1)'
                        /\ head <= run'["main"].last + 1 + GapWindow
      BY <1>2 DEF InitialOK
    <2>1. r = "main" /\ \A g \in GapRunners : g \in Runners /\ g # r
      BY <1>2, Constants DEF Runners
    <2>2. /\ ~run[r].skip /\ \A g \in GapRunners : run[g] = Idle
          /\ Covered(last + 1) /\ head <= last + 1 + GapWindow
      BY <1>1, <2>1 DEF InitialOK
    <2>3. Covered(run[r].last + 1)'
      <3>1. ASSUME NEW e \in Log, floor <= e, e < last + 1 PROVE Settled(e)'
        <4>1. Settled(e) /\ e < NoMark
          BY <2>2, <3>1, Constants DEF Covered, Log, NoMark
        <4> QED
          BY <1>6, <4>1 DEF Keeps
      <3> QED
        BY <1>4, <3>1 DEF Covered
    <2> QED
      BY <1>4, <1>5, <2>1, <2>2, <2>3
  <1>11. ASSUME NEW t \in tasks', t \notin tasks
         PROVE  t.ev <= head /\ t.seen = "no" /\ Covered(t.ev)'
    <2>1. t.ev = pos /\ t.seen = "no"
      BY <1>11
    <2>2. t.ev \in Nat /\ t.ev <= head /\ Covered(t.ev)
      BY <1>1, <1>3, <2>1
    <2> QED
      BY <1>7, <2>1, <2>2
  <1> QED
    BY <1>2, <1>5, <1>7, <1>9, <1>10, <1>11, MoveInv

LEMMA HandNextInv ==
    ASSUME IngestInv, TypeOK', NEW r \in Runners, HandNext(r)
    PROVE  IngestInv'
  <1> DEFINE pos == run[r].pos
             t == [ev |-> pos, by |-> "backfill", seen |-> "no"]
  <1>1. TypeOK /\ pos \in Nat /\ run[r].last \in Nat /\ pos <= run[r].last
    BY RunnerFields DEF IngestInv, HandNext
  <1>2. run' = [run EXCEPT ![r].pos = pos + 1]
    BY DEF HandNext
  <1>3. \/ tasks' = tasks /\ Skipped(r, pos)
        \/ tasks' = tasks \cup {t}
    BY DEF HandNext
  <1>4. ASSUME NEW e \in Log, pos <= e, e < pos + 1, ~Skipped(r, e)
        PROVE  \E u \in tasks' : u.ev = e
    <2>1. e = pos
      BY <1>1, <1>4 DEF Log
    <2>2. t \in tasks' /\ t.ev = e
      BY <1>3, <1>4, <2>1
    <2> QED
      BY <2>2
  <1>5. tasks \subseteq tasks' /\ \A u \in tasks' : u \in tasks \/ (u.ev = pos /\ u.seen = "no")
    BY <1>3
  <1>6. /\ run[r].phase = "scan" /\ head' = head /\ fresh' = fresh /\ row' = row
        /\ initial' = initial /\ up' = up /\ floor' = floor /\ lost \subseteq lost'
    BY DEF HandNext
  <1>7. pos + 1 \in Int /\ pos < pos + 1 /\ pos + 1 <= run[r].last + 1
    BY <1>1
  <1> QED
    BY <1>2, <1>4, <1>5, <1>6, <1>7, ScanInv

LEMMA GiveUpInv ==
    ASSUME IngestInv, TypeOK', NEW r \in Runners, GiveUp(r)
    PROVE  IngestInv'
  <1> DEFINE pos == run[r].pos
  <1>1. TypeOK /\ pos \in Nat /\ run[r].last \in Nat
    BY RunnerFields DEF IngestInv
  <1>2. PICK p \in pos + 1..run[r].last + 1 :
           /\ run' = [run EXCEPT ![r].pos = p]
           /\ lost' = lost \cup {e \in pos..p - 1 : ~Skipped(r, e)}
    BY DEF GiveUp
  <1>3. p \in Int /\ pos < p /\ p <= run[r].last + 1
    BY <1>1
  <1>4. ASSUME NEW e \in Log, pos <= e, e < p, ~Skipped(r, e) PROVE e \in lost'
    BY <1>1, <1>2, <1>3, <1>4 DEF Log
  <1>5. /\ run[r].phase = "scan" /\ head' = head /\ fresh' = fresh /\ row' = row
        /\ initial' = initial /\ up' = up /\ floor' = floor /\ tasks' = tasks
    BY DEF GiveUp
  <1> QED
    BY <1>2, <1>3, <1>4, <1>5, ScanInv

\* The next gap is filled from its start, or from where the filling looks back
\* to: neither is past something missing.
LEMMA NextGapOK ==
    ASSUME IngestInv, NEW r \in Runners, head' = head, floor' = floor, Keeps(head),
           run'[r] = NextGap(r, run[r].gaps, run[r].base)
    PROVE  RunnerOK(r)'
  <1> DEFINE gaps == run[r].gaps
             base == run[r].base
  <1>1. /\ TypeOK /\ run[r] \in Runs /\ RunnerOK(r) /\ head \in Nat
        /\ gaps \in SUBSET Log /\ base \in Nat /\ \A g \in gaps : g \in Nat
    BY RunnerFields DEF IngestInv, TypeOK
  <1>2. CASE gaps = {}
    BY <1>1, <1>2, IdleOK DEF NextGap
  <1>3. CASE gaps # {}
    <2> DEFINE start == MoreOf(Max(gaps), base)
    <2>1. \A f \in Nat : f <= head /\ Covered(f) => Covered(f)'
      BY <1>1, CoveredKept
    <2>2. Max(gaps) \in gaps
      <3>1. gaps \in SUBSET Nat /\ \A g \in gaps : g <= head
        BY <1>1 DEF RunnerOK
      <3> QED
        BY <1>1, <1>3, <3>1, MaxOfSet
    <2>3. Max(gaps) \in Nat /\ Max(gaps) <= head /\ Covered(Max(gaps))
      BY <1>1, <2>2 DEF RunnerOK
    <2>4. base <= head /\ Covered(base)
      BY <1>1 DEF RunnerOK
    <2>5. start \in Nat /\ start <= head /\ Covered(start)
      BY <1>1, <2>3, <2>4 DEF MoreOf
    <2>6. run'[r] = [Begin(r, start, FALSE) EXCEPT !.gaps = gaps \ {Max(gaps)}, !.base = base]
      BY <1>3 DEF NextGap
    <2> HIDE DEF start
    <2>7. /\ run'[r].phase = "marks" /\ run'[r].start = start /\ run'[r].base = base
          /\ run'[r].gaps = gaps \ {Max(gaps)} /\ run'[r].mark = Idle.mark
          /\ run'[r].last = run[r].last
      BY <1>1, <2>6 DEF Begin, Runs
    <2>8. MarksOK(r)'
      <3>1. \A k \in Kinds : run'[r].mark[k] = NoMark
        BY <2>7 DEF Idle
      <3> QED
        BY <3>1 DEF MarksOK
    <2>9. /\ run'[r].start <= head /\ Covered(run[r].start)'
          /\ run'[r].base <= head /\ Covered(run[r].base)'
      BY <1>1, <2>1, <2>4, <2>5, <2>7
    <2>10. \A g \in run'[r].gaps : g <= head /\ Covered(g)'
      BY <1>1, <2>1, <2>7 DEF RunnerOK
    <2>11. run'[r].last <= head
      BY <1>1, <2>7 DEF RunnerOK
    <2> QED
      BY <2>7, <2>8, <2>9, <2>10, <2>11 DEF RunnerOK
  <1> QED
    BY <1>2, <1>3

\* A run ends, and the gap filling chained to the initial one starts.
LEMMA EndMainInv ==
    ASSUME IngestInv, TypeOK', EndMain, run["main"].phase # "idle",
           head' = head, fresh' = fresh, row' = row, up' = up, floor' = floor, tasks' = tasks,
           Keeps(head), initial => Covered(MoreOf(0, head - GapWindow))'
    PROVE  IngestInv'
  <1> DEFINE base == MoreOf(0, head - GapWindow)
  <1>1. TypeOK /\ run \in [Runners -> Runs] /\ head \in Nat /\ "main" \in Runners
    BY Constants DEF IngestInv, TypeOK
  <1>2. up
    BY <1>1, MovingIsUp
  <1>3. InitialOK'
    BY DEF EndMain, InitialOK
  <1>4. CASE run' = [run EXCEPT !["main"] = Idle]
    <2>1. run'["main"] = Idle /\ \A r \in Runners : r # "main" => run'[r] = run[r]
      BY <1>1, <1>4
    <2>2. RunnerOK("main")'
      BY <1>1, <2>1, IdleOK
    <2>3. \A r \in Runners : run'[r] = run[r] \/ RunnerOK(r)'
      BY <2>1, <2>2
    <2> QED
      BY <1>2, <1>3, <2>3, MoveInv
  <1>5. ASSUME initial, NEW g \in GapRunners,
               run' = [run EXCEPT !["main"] = Idle, ![g] = Detecting(base)]
        PROVE  IngestInv'
    <2>1. g \in Runners /\ g # "main"
      BY Constants DEF Runners
    <2>2. /\ run'["main"] = Idle /\ run'[g] = Detecting(base)
          /\ \A r \in Runners : r # "main" /\ r # g => run'[r] = run[r]
      BY <1>1, <1>5, <2>1
    <2>3. RunnerOK("main")'
      BY <1>1, <2>2, IdleOK
    <2>4. base <= head /\ Covered(base)'
      BY <1>1, <1>5, Constants DEF MoreOf
    <2>5. RunnerOK(g)'
      <3>1. /\ run'[g].phase = "detect" /\ run'[g].start = 0 /\ run'[g].base = base
            /\ run'[g].gaps = {} /\ run'[g].last = 0 /\ \A k \in Kinds : run'[g].mark[k] = NoMark
        BY <2>2 DEF Detecting, Idle
      <3>2. Covered(run[g].start)' /\ MarksOK(g)'
        BY <3>1, CoveredLow DEF MarksOK
      <3>3. Covered(run[g].base)'
        BY <2>4, <3>1
      <3> QED
        BY <1>1, <2>4, <3>1, <3>2, <3>3 DEF RunnerOK
    <2>6. \A r \in Runners : run'[r] = run[r] \/ RunnerOK(r)'
      BY <2>2, <2>3, <2>5
    <2> QED
      BY <1>2, <1>3, <2>6, MoveInv
  <1> QED
    BY <1>4, <1>5 DEF EndMain

LEMMA EndRunInv ==
    ASSUME IngestInv, TypeOK', NEW r \in Runners, EndRun(r)
    PROVE  IngestInv'
  <1>1. /\ TypeOK /\ run \in [Runners -> Runs] /\ head \in Nat /\ floor \in Nat
        /\ run[r].phase = "scan" /\ run[r].pos > run[r].last
        /\ run[r].pos \in Nat /\ run[r].last \in Nat
    BY RunnerFields DEF IngestInv, TypeOK, EndRun
  <1>2. up /\ (initial => r = "main")
    BY <1>1, MovingIsUp
  <1>3. head' = head /\ fresh' = fresh /\ row' = row /\ tasks' = tasks /\ up' = up
        /\ floor' = floor /\ lost' = lost
    BY DEF EndRun
  <1>4. \A e \in Log : ~WillHand(r, e)
    BY <1>1 DEF WillHand, Log
  <1>5. CASE r = "main" /\ EndMain
    <2>1. ASSUME NEW q \in Runners, run'[q] # run[q] PROVE \A e \in Log : ~WillHand(q, e)
      <3>1. CASE q = r
        BY <1>4, <3>1
      <3>2. CASE q # r
        <4>1. initial /\ q \in GapRunners
          BY <1>1, <1>5, <2>1, <3>2 DEF EndMain, Runners
        <4>2. run[q] = Idle
          BY <4>1 DEF IngestInv, InitialOK
        <4> QED
          BY <4>2 DEF WillHand, Idle
      <3> QED
        BY <3>1, <3>2
    <2>2. Keeps(NoMark)
      BY <1>1, <1>3, <2>1, MovesKeep
    <2>3. ASSUME initial PROVE Covered(MoreOf(0, head - GapWindow))'
      <3> DEFINE last == run["main"].last
      <3>1. Covered(last + 1) /\ head <= last + 1 + GapWindow /\ last \in Nat
        BY <1>1, <1>5, <2>3 DEF IngestInv, InitialOK
      <3>2. MoreOf(0, head - GapWindow) \in Nat /\ MoreOf(0, head - GapWindow) <= last + 1
        BY <1>1, <3>1, Constants DEF MoreOf
      <3>3. ASSUME NEW e \in Log, floor <= e, e < MoreOf(0, head - GapWindow) PROVE Settled(e)'
        <4>1. Settled(e) /\ e < NoMark
          BY <3>1, <3>2, <3>3, Constants DEF Covered, Log, NoMark
        <4> QED
          BY <2>2, <4>1 DEF Keeps
      <3> QED
        BY <1>3, <3>3 DEF Covered, MoreOf
    <2> QED
      BY <1>1, <1>3, <1>5, <2>2, <2>3, KeepsLess, EndMainInv
  <1>6. CASE r # "main" /\ run' = [run EXCEPT ![r] = NextGap(r, run[r].gaps, run[r].base)]
             /\ initial' = initial
    <2>1. run'[r] = NextGap(r, run[r].gaps, run[r].base)
          /\ \A q \in Runners : q # r => run'[q] = run[q]
      BY <1>1, <1>6
    <2>2. Keeps(NoMark)
      BY <1>1, <1>3, <1>4, <2>1, MovesKeep
    <2>3. RunnerOK(r)'
      BY <1>1, <1>3, <2>1, <2>2, KeepsLess, NextGapOK
    <2>4. InitialOK'
      BY <1>2, <1>6 DEF InitialOK
    <2> QED
      BY <1>1, <1>2, <1>3, <2>1, <2>2, <2>3, <2>4, KeepsLess, MoveInv
  <1> QED
    BY <1>5, <1>6 DEF EndRun

LEMMA RunFailsInv ==
    ASSUME IngestInv, TypeOK', NEW r \in Runners, RunFails(r)
    PROVE  IngestInv'
  <1>1. /\ TypeOK /\ run \in [Runners -> Runs] /\ head \in Nat /\ floor \in Nat
        /\ run[r].phase \in {"marks", "scan"} /\ run[r].phase # "idle"
    BY DEF IngestInv, TypeOK, RunFails
  <1>2. up /\ (initial => r = "main")
    BY <1>1, MovingIsUp
  <1>3. head' = head /\ fresh' = fresh /\ row' = row /\ tasks' = tasks /\ up' = up
        /\ floor' = floor /\ lost \subseteq lost'
    BY DEF RunFails
  <1>4. ASSUME NEW e \in Log, ~run[r].skip, WillHand(r, e) PROVE Settled(e)'
    <2>1. e \in lost'
      BY <1>4 DEF RunFails
    <2> QED
      BY <2>1 DEF Settled
  <1>5. CASE r = "main" /\ EndMain
    <2>1. ASSUME NEW q \in Runners, run'[q] # run[q], q # r PROVE \A e \in Log : ~WillHand(q, e)
      <3>1. initial /\ q \in GapRunners
        BY <1>1, <1>5, <2>1 DEF EndMain, Runners
      <3>2. run[q] = Idle
        BY <3>1 DEF IngestInv, InitialOK
      <3> QED
        BY <3>2 DEF WillHand, Idle
    <2>2. Keeps(NoMark)
      BY <1>1, <1>3, <1>4, <2>1, MovesKeep
    <2>3. ASSUME initial PROVE Covered(MoreOf(0, head - GapWindow))'
      <3> DEFINE base == MoreOf(0, head - GapWindow)
      <3>1. ASSUME NEW e \in Log, floor <= e, e < base PROVE Settled(e)'
        <4>1. base <= head /\ e \in Int /\ e < NoMark /\ base \in Int /\ e <= head
          BY <1>1, <3>1, Constants DEF MoreOf, Log, NoMark
        <4>2. InitialOK /\ ~run[r].skip
          BY <1>5, <2>3 DEF IngestInv, InitialOK
        <4>3. CASE run[r].phase = "marks"
          <5>1. run[r].start <= floor /\ run[r].start \in Nat
            BY <1>1, <1>5, <2>3, <4>2, <4>3, RunnerFields DEF InitialOK
          <5>2. WillHand(r, e)
            BY <1>1, <3>1, <4>1, <4>2, <4>3, <5>1 DEF WillHand
          <5> QED
            BY <1>4, <4>2, <5>2
        <4>4. CASE run[r].phase = "scan"
          <5> DEFINE last == run[r].last
          <5>1. Covered(last + 1) /\ head <= last + 1 + GapWindow /\ last \in Nat
            BY <1>1, <1>5, <2>3, <4>2, <4>4, RunnerFields DEF InitialOK
          <5>2. base <= last + 1
            BY <1>1, <5>1, Constants DEF MoreOf
          <5>3. Settled(e)
            BY <3>1, <4>1, <5>1, <5>2 DEF Covered
          <5> QED
            BY <2>2, <4>1, <5>3 DEF Keeps
        <4> QED
          BY <1>1, <4>3, <4>4
      <3> QED
        BY <1>3, <3>1 DEF Covered, MoreOf
    <2> QED
      BY <1>1, <1>3, <1>5, <2>2, <2>3, KeepsLess, EndMainInv
  <1>6. CASE r # "main" /\ run' = [run EXCEPT ![r] = Idle] /\ initial' = initial
    <2>1. run'[r] = Idle /\ \A q \in Runners : q # r => run'[q] = run[q]
      BY <1>1, <1>6
    <2>2. Keeps(NoMark)
      BY <1>1, <1>3, <1>4, <2>1, MovesKeep
    <2>3. RunnerOK(r)'
      BY <1>1, <1>3, <2>1, IdleOK
    <2>4. InitialOK'
      BY <1>2, <1>6 DEF InitialOK
    <2> QED
      BY <1>1, <1>2, <1>3, <2>1, <2>2, <2>3, <2>4, KeepsLess, MoveInv
  <1> QED
    BY <1>5, <1>6 DEF RunFails

\* While the main runner is idle or a gap runner is busy, no initial run is on.
LEMMA NotInitial ==
    ASSUME IngestInv,
           run["main"].phase = "idle" \/ \E g \in GapRunners : run[g].phase # "idle"
    PROVE  ~initial
  <1>1. Idle.phase = "idle"
    BY DEF Idle
  <1> QED
    BY <1>1 DEF IngestInv, InitialOK

LEMMA GapTimerInv ==
    ASSUME IngestInv, TypeOK', NEW r \in GapRunners, GapTimer(r)
    PROVE  IngestInv'
  <1>1. TypeOK /\ run \in [Runners -> Runs] /\ head \in Nat /\ r \in Runners
    BY DEF IngestInv, TypeOK, Runners
  <1>2. up /\ ~initial /\ run[r].phase = "idle" /\ run' = [run EXCEPT ![r] = Detecting(0)]
    BY NotInitial DEF GapTimer
  <1>3. head' = head /\ fresh' = fresh /\ row' = row /\ tasks' = tasks /\ up' = up
        /\ floor' = floor /\ lost' = lost /\ initial' = initial
    BY DEF GapTimer
  <1>4. run'[r] = Detecting(0) /\ \A q \in Runners : q # r => run'[q] = run[q]
    BY <1>1, <1>2
  <1>5. Keeps(NoMark)
    BY <1>1, <1>2, <1>3, <1>4, MovesKeep DEF WillHand
  <1>6. RunnerOK(r)'
    <2>1. /\ run'[r].phase = "detect" /\ run'[r].start = 0 /\ run'[r].base = 0
          /\ run'[r].gaps = {} /\ run'[r].last = 0 /\ \A k \in Kinds : run'[r].mark[k] = NoMark
      BY <1>4 DEF Detecting, Idle
    <2>2. Covered(run[r].start)' /\ Covered(run[r].base)' /\ MarksOK(r)'
      BY <2>1, CoveredLow DEF MarksOK
    <2> QED
      BY <1>1, <1>3, <2>1, <2>2 DEF RunnerOK
  <1>7. InitialOK'
    BY <1>2, <1>3 DEF InitialOK
  <1> QED
    BY <1>1, <1>2, <1>3, <1>4, <1>5, <1>6, <1>7, KeepsLess, MoveInv

LEMMA DetectGapsInv ==
    ASSUME IngestInv, TypeOK', NEW r \in GapRunners, DetectGaps(r)
    PROVE  IngestInv'
  <1> DEFINE found == GapStarts(KindOrder[run[r].read + 1])
  <1>1. TypeOK /\ run \in [Runners -> Runs] /\ run[r] \in Runs /\ head \in Nat /\ r \in Runners
        /\ RunnerOK(r)
    <2>1. r \in Runners
      BY DEF Runners
    <2> QED
      BY <2>1 DEF IngestInv, TypeOK
  <1>2. run[r].phase = "detect"
        /\ run' = [run EXCEPT ![r].gaps = @ \cup found, ![r].read = @ + 1]
    BY DEF DetectGaps
  <1>3. up /\ ~initial
    BY <1>1, <1>2, MovingIsUp, NotInitial
  <1>4. head' = head /\ fresh' = fresh /\ row' = row /\ tasks' = tasks /\ up' = up
        /\ floor' = floor /\ lost' = lost /\ initial' = initial
    BY DEF DetectGaps
  <1>5. \A g \in found : g \in Nat /\ g <= head /\ Covered(g)
    <2>1. \A g \in found : g \in Log /\ row[g] = "backfill"
      BY DEF GapStarts, Backfilled
    <2> QED
      BY <1>3, <2>1 DEF IngestInv, RowsOK, Log
  <1> HIDE DEF found
  <1>6. /\ run'[r].phase = "detect" /\ run'[r].start = run[r].start /\ run'[r].base = run[r].base
        /\ run'[r].gaps = run[r].gaps \cup found /\ run'[r].last = run[r].last
        /\ run'[r].mark = run[r].mark
    BY <1>1, <1>2 DEF Runs
  <1>7. \A q \in Runners : q # r => run'[q] = run[q]
    BY <1>1, <1>2
  <1>8. Keeps(NoMark)
    BY <1>1, <1>2, <1>4, <1>7, MovesKeep DEF WillHand
  <1>9. Keeps(head) /\ \A f \in Nat : f <= head /\ Covered(f) => Covered(f)'
    BY <1>1, <1>4, <1>8, KeepsLess, CoveredKept
  <1>10. RunnerOK(r)'
    <2>1. MarksOK(r)'
      <3> SUFFICES ASSUME NEW j \in Kinds, run[r].mark[j] # NoMark
                   PROVE  run[r].mark[j] <= head /\ Covered(run[r].mark[j])'
        BY <1>4, <1>6 DEF MarksOK
      <3>1. run[r].mark[j] \in Nat /\ run[r].mark[j] <= head /\ Covered(run[r].mark[j])
        BY <1>1, RunnerFields DEF RunnerOK, MarksOK
      <3> QED
        BY <1>6, <1>9, <3>1
    <2>2. /\ run'[r].start <= head /\ Covered(run[r].start)'
          /\ run'[r].base <= head /\ Covered(run[r].base)'
      BY <1>1, <1>6, <1>9, RunnerFields DEF RunnerOK
    <2>3. \A g \in run'[r].gaps : g <= head /\ Covered(g)'
      BY <1>1, <1>5, <1>6, <1>9, RunnerFields DEF RunnerOK
    <2> QED
      BY <1>1, <1>4, <1>6, <2>1, <2>2, <2>3 DEF RunnerOK
  <1>11. InitialOK'
    BY <1>3, <1>4 DEF InitialOK
  <1> QED
    BY <1>3, <1>4, <1>7, <1>9, <1>10, <1>11, MoveInv

LEMMA FillGapsInv ==
    ASSUME IngestInv, TypeOK', NEW r \in GapRunners, FillGaps(r)
    PROVE  IngestInv'
  <1>1. TypeOK /\ run \in [Runners -> Runs] /\ head \in Nat /\ r \in Runners
    BY DEF IngestInv, TypeOK, Runners
  <1>2. run[r].phase = "detect"
        /\ run' = [run EXCEPT ![r] = NextGap(r, run[r].gaps, run[r].base)]
    BY DEF FillGaps
  <1>3. up /\ ~initial
    BY <1>1, <1>2, MovingIsUp, NotInitial
  <1>4. head' = head /\ fresh' = fresh /\ row' = row /\ tasks' = tasks /\ up' = up
        /\ floor' = floor /\ lost' = lost /\ initial' = initial
    BY DEF FillGaps
  <1>5. run'[r] = NextGap(r, run[r].gaps, run[r].base)
        /\ \A q \in Runners : q # r => run'[q] = run[q]
    BY <1>1, <1>2
  <1>6. Keeps(NoMark)
    BY <1>1, <1>2, <1>4, <1>5, MovesKeep DEF WillHand
  <1>7. RunnerOK(r)'
    BY <1>1, <1>4, <1>5, <1>6, KeepsLess, NextGapOK
  <1>8. InitialOK'
    BY <1>3, <1>4 DEF InitialOK
  <1> QED
    BY <1>1, <1>3, <1>4, <1>5, <1>6, <1>7, <1>8, KeepsLess, MoveInv

LEMMA RedundancyInv ==
    ASSUME IngestInv, TypeOK', Redundancy
    PROVE  IngestInv'
  <1>1. /\ TypeOK /\ run \in [Runners -> Runs] /\ head \in Nat /\ "main" \in Runners
        /\ run["main"] \in Runs /\ RunnerOK("main")
    BY Constants DEF IngestInv, TypeOK
  <1>2. up /\ ~initial /\ run["main"].phase = "idle"
        /\ run' = [run EXCEPT !["main"] = Begin("main", 0, TRUE)]
    BY NotInitial DEF Redundancy
  <1>3. head' = head /\ fresh' = fresh /\ row' = row /\ tasks' = tasks /\ up' = up
        /\ floor' = floor /\ lost' = lost /\ initial' = initial
    BY DEF Redundancy
  <1>4. run'["main"] = Begin("main", 0, TRUE)
        /\ \A q \in Runners : q # "main" => run'[q] = run[q]
    BY <1>1, <1>2
  <1>5. Keeps(NoMark)
    BY <1>1, <1>2, <1>3, <1>4, MovesKeep DEF WillHand
  <1>6. RunnerOK("main")'
    <2>1. /\ run'["main"].phase = "marks" /\ run'["main"].start = 0
          /\ run'["main"].base = run["main"].base /\ run'["main"].gaps = run["main"].gaps
          /\ run'["main"].last = run["main"].last /\ run'["main"].mark = Idle.mark
      BY <1>1, <1>4 DEF Begin, Runs
    <2>2. \A f \in Nat : f <= head /\ Covered(f) => Covered(f)'
      BY <1>1, <1>3, <1>5, KeepsLess, CoveredKept
    <2>3. \A k \in Kinds : run'["main"].mark[k] = NoMark
      BY <2>1 DEF Idle
    <2>4. MarksOK("main")' /\ Covered(run["main"].start)'
      BY <2>1, <2>3, CoveredLow DEF MarksOK
    <2>5. run'["main"].base <= head /\ Covered(run["main"].base)'
      BY <1>1, <2>1, <2>2, RunnerFields DEF RunnerOK
    <2>6. \A g \in run'["main"].gaps : g <= head /\ Covered(g)'
      BY <1>1, <2>1, <2>2, RunnerFields DEF RunnerOK
    <2> QED
      BY <1>1, <1>3, <2>1, <2>4, <2>5, <2>6 DEF RunnerOK
  <1>7. InitialOK'
    BY <1>2, <1>3 DEF InitialOK
  <1> QED
    BY <1>1, <1>2, <1>3, <1>4, <1>5, <1>6, <1>7, KeepsLess, MoveInv

\* main() starts: every event in reach is ahead of the initial run.
LEMMA StartInv ==
    ASSUME IngestInv, TypeOK', Start
    PROVE  IngestInv'
  <1> DEFINE start == WindowStart
  <1>1. /\ TypeOK /\ run \in [Runners -> Runs] /\ head \in Nat /\ floor \in Nat
        /\ floor <= head /\ "main" \in Runners /\ run["main"] \in Runs
    <2>1. TypeOK /\ floor <= head
      BY Zenon DEF IngestInv, ChainOK
    <2>2. /\ run \in [Runners -> Runs] /\ head \in 0..NumEvents
          /\ floor \in 0..NumEvents
      BY <2>1, Zenon DEF TypeOK
    <2>3. "main" \in Runners
      BY Constants
    <2>4. head \in Nat /\ floor \in Nat
      BY <2>2
    <2> QED
      BY <2>1, <2>2, <2>3, <2>4
  <1>2. tasks = {} /\ run = [r \in Runners |-> Idle]
    BY DEF IngestInv, DownOK, Start
  <1>3. start \in Nat /\ start <= head
    BY <1>1, WindowStartType
  <1>4. /\ up' = TRUE /\ run' = [run EXCEPT !["main"] = Begin("main", start, FALSE)]
        /\ floor' = MoreOf(floor, start)
        /\ head' = head /\ fresh' = fresh /\ row' = row /\ tasks' = tasks /\ lost' = lost
    BY DEF Start
  <1> HIDE DEF start
  <1>5. /\ run'["main"].phase = "marks" /\ run'["main"].start = start /\ ~run'["main"].skip
        /\ run'["main"].base = 0 /\ run'["main"].gaps = {} /\ run'["main"].last = 0
        /\ \A k \in Kinds : run'["main"].mark[k] = NoMark
    <2>1. run'["main"] = Begin("main", start, FALSE) /\ run["main"] = Idle
      BY <1>1, <1>2, <1>4
    <2> QED
      BY <2>1 DEF Begin, Idle
  <1>6. \A r \in Runners : r # "main" => run'[r] = Idle
    BY <1>1, <1>2, <1>4
  <1>7. floor' \in Nat /\ floor <= floor' /\ start <= floor' /\ floor' <= head
    BY <1>1, <1>3, <1>4 DEF MoreOf
  <1>8. \A f \in Int : f <= head => Covered(f)'
    <2> SUFFICES ASSUME NEW f \in Int, f <= head, NEW e \in Log, floor' <= e, e < f
                 PROVE  Settled(e)'
      BY DEF Covered
    <2>1. e \in Int /\ start <= e /\ e <= head
      BY <1>1, <1>3, <1>7 DEF Log
    <2>2. WillHand("main", e)'
      BY <1>4, <1>5, <2>1 DEF WillHand
    <2> QED
      BY <1>1, <1>5, <2>2 DEF Settled
  <1>9. ChainOK' /\ TasksOK' /\ DownOK'
    BY <1>2, <1>4, <1>7 DEF IngestInv, ChainOK, TasksOK, DownOK
  <1>10. RowsOK'
    BY <1>4, <1>8 DEF IngestInv, RowsOK, Log
  <1>11. ASSUME NEW r \in Runners PROVE RunnerOK(r)'
    <2>1. CASE r = "main"
      <3>1. Covered(run["main"].start)' /\ Covered(run["main"].base)' /\ MarksOK("main")'
        BY <1>3, <1>5, <1>8, CoveredLow DEF MarksOK
      <3>2. /\ run'["main"].start <= head' /\ run'["main"].base <= head'
            /\ run'["main"].last <= head' /\ run'["main"].gaps = {} /\ run'["main"].phase = "marks"
        <4>1. head' = head /\ head \in Nat
          BY <1>1, <1>4
        <4>2. /\ run'["main"].phase = "marks" /\ run'["main"].start = start
              /\ run'["main"].base = 0 /\ run'["main"].gaps = {} /\ run'["main"].last = 0
          BY <1>5
        <4> QED
          BY <1>3, <4>1, <4>2
      <3>3. RunnerOK("main")'
        BY <3>1, <3>2 DEF RunnerOK
      <3> QED
        BY <2>1, <3>3
    <2>2. CASE r # "main"
      BY <1>1, <1>4, <1>6, <2>2, IdleOK
    <2> QED
      BY <2>1, <2>2
  <1>12. InitialOK'
    <2>1. \A g \in GapRunners : run'[g] = Idle
      BY <1>6, Constants DEF Runners
    <2> QED
      BY <1>4, <1>5, <1>7, <2>1 DEF InitialOK
  <1> QED
    BY <1>9, <1>10, <1>11, <1>12 DEF IngestInv

LEMMA CrashInv ==
    ASSUME IngestInv, TypeOK', Crash
    PROVE  IngestInv'
  <1>1. TypeOK /\ head \in Nat
    BY DEF IngestInv, TypeOK
  <1>2. /\ up' = FALSE /\ tasks' = {} /\ run' = [r \in Runners |-> Idle] /\ initial' = FALSE
        /\ head' = head /\ fresh' = fresh /\ row' = row /\ floor' = floor
    BY DEF Crash
  <1>3. ASSUME NEW r \in Runners PROVE RunnerOK(r)'
    BY <1>1, <1>2, IdleOK
  <1>4. RowsOK' /\ TasksOK' /\ ChainOK' /\ InitialOK' /\ DownOK'
    BY <1>2 DEF IngestInv, RowsOK, TasksOK, ChainOK, InitialOK, DownOK
  <1> QED
    BY <1>3, <1>4 DEF IngestInv

LEMMA InitInv == Init => IngestInv
  <1> SUFFICES ASSUME Init PROVE IngestInv
    OBVIOUS
  <1>1. TypeOK
    BY InitType
  <1>2. /\ head = 0 /\ floor = 0 /\ fresh = FALSE /\ initial = FALSE /\ up = FALSE /\ tasks = {}
        /\ run = [r \in Runners |-> Idle] /\ \A e \in Log : row[e] = "none"
    BY DEF Init
  <1>3. ASSUME NEW r \in Runners PROVE RunnerOK(r)
    <2>1. run[r] = Idle /\ Covered(0)
      BY <1>2, CoveredLow
    <2>2. /\ Idle.phase = "idle" /\ Idle.start = 0 /\ Idle.base = 0 /\ Idle.gaps = {}
          /\ Idle.last = 0 /\ \A k \in Kinds : Idle.mark[k] = NoMark
      BY DEF Idle
    <2> QED
      BY <1>2, <2>1, <2>2 DEF RunnerOK, MarksOK
  <1>4. RowsOK /\ TasksOK /\ ChainOK /\ InitialOK /\ DownOK
    BY <1>2 DEF RowsOK, TasksOK, ChainOK, InitialOK, DownOK
  <1> QED
    BY <1>1, <1>3, <1>4 DEF IngestInv

LEMMA StutterInv ==
    ASSUME IngestInv, TypeOK', UNCHANGED vars
    PROVE  IngestInv'
  <1>1. TypeOK /\ head \in Int
    BY DEF IngestInv, TypeOK
  <1>2. /\ run' = run /\ head' = head /\ fresh' = fresh /\ floor' = floor /\ up' = up
        /\ initial' = initial /\ row' = row /\ tasks' = tasks /\ lost' = lost
    BY DEF vars
  <1>3. Keeps(NoMark)
    BY <1>1, <1>2, QuietKeeps
  <1>4. ChainOK'
    BY <1>2 DEF IngestInv, ChainOK
  <1>5. TasksOK'
    BY <1>1, <1>2, <1>3, KeepsLess, TaskStays DEF TasksOK
  <1> QED
    BY <1>2, <1>3, <1>4, <1>5, QuietInv

LEMMA NextInv ==
    ASSUME IngestInv, [Next]_vars
    PROVE  IngestInv'
  <1>1. TypeOK /\ (fresh => head >= 1)
    BY DEF IngestInv, ChainOK
  <1>2. TypeOK'
    BY <1>1, TypeNext
  <1>3. CASE Mine
    BY <1>2, <1>3, MineInv
  <1>4. CASE NewBlock
    BY <1>2, <1>4, NewBlockInv
  <1>5. CASE Write
    BY <1>2, <1>5, WriteInv DEF Write
  <1>6. CASE Start
    BY <1>2, <1>6, StartInv
  <1>7. CASE Redundancy
    BY <1>2, <1>7, RedundancyInv
  <1>8. CASE Crash
    BY <1>2, <1>8, CrashInv
  <1>9. CASE Fault
    BY <1>2, <1>9, WriteInv, GiveUpInv, RunFailsInv DEF Fault
  <1>10. CASE \E r \in Runners : RunStep(r)
    BY <1>2, <1>10, ReadWatermarkInv, StartScanInv, HandNextInv, EndRunInv DEF RunStep
  <1>11. CASE \E r \in GapRunners : GapStep(r)
    BY <1>2, <1>11, GapTimerInv, DetectGapsInv, FillGapsInv DEF GapStep
  <1>12. CASE UNCHANGED vars
    BY <1>2, <1>12, StutterInv
  <1> QED
    BY <1>3, <1>4, <1>5, <1>6, <1>7, <1>8, <1>9, <1>10, <1>11, <1>12 DEF Next

-----------------------------------------------------------------------------
(* Every behaviour keeps to the inductive invariant: what watermarks,       *)
(* backfilled rows and gap starts rest on is settled, and so is what any    *)
(* runner has passed, however runs, inserts, faults and crashes interleave. *)
THEOREM IngestInvariant == Spec => []IngestInv
  <1>1. IngestInv /\ [Next]_vars => IngestInv'
    BY NextInv
  <1> QED
    BY <1>1, InitInv, PTL DEF Spec

(* The variables have their types, for every chain and any tables.          *)
THEOREM TypeCorrect == Spec => []TypeOK
  <1>1. IngestInv => TypeOK
    BY DEF IngestInv
  <1> QED
    BY <1>1, IngestInvariant, PTL

(* NoSilentHole: behind a row the backfill has confirmed, every event in    *)
(* reach of an initial run is stored, being stored, ahead of a run, or      *)
(* recorded as failed.                                                      *)
THEOREM NothingSilentlyMissed == Spec => []NoSilentHole
  <1>1. IngestInv => NoSilentHole
    <2> SUFFICES ASSUME IngestInv, up, NEW e \in Log, NEW f \in Log,
                        e < f, row[f] = "backfill", e >= floor
                 PROVE  Safe(e)
      BY DEF NoSilentHole
    <2>1. Covered(f) /\ floor \in Int /\ e \in Int
      BY DEF IngestInv, RowsOK, TypeOK, Log
    <2>2. Settled(e)
      BY <2>1 DEF Covered
    <2> QED
      BY <2>2 DEF Settled, Safe
  <1> QED
    BY <1>1, IngestInvariant, PTL

(* BackfilledStays: in the tables that find before they create, no insert,  *)
(* however late, takes back the confirmation of a row.                      *)
THEOREM ConfirmedStays == Spec => BackfilledStays
  <1>1. TypeOK /\ [Next]_vars
        => [\A e \in Log : row[e] = "backfill" /\ KindOf[e] \notin Upserts
                             => row'[e] = "backfill"]_vars
    <2> SUFFICES ASSUME TypeOK, Next, NEW e \in Log, row[e] = "backfill", KindOf[e] \notin Upserts
                 PROVE  row'[e] = "backfill"
      OBVIOUS
    <2>1. row \in [Log -> {"none", "live", "backfill"}]
      BY DEF TypeOK
    <2>2. CASE Write
      <3> PICK t \in tasks : Upsert(t) \/ FindRow(t) \/ CreateOrUpdate(t)
        BY <2>2 DEF Write
      <3>1. CASE Upsert(t)
        BY <2>1, <3>1 DEF Upsert
      <3>2. CASE FindRow(t)
        BY <3>2 DEF FindRow
      <3>3. CASE CreateOrUpdate(t)
        <4>1. CASE t.ev = e
          BY <2>1, <3>3, <4>1 DEF CreateOrUpdate
        <4>2. CASE t.ev # e
          BY <2>1, <3>3, <4>2 DEF CreateOrUpdate
        <4> QED
          BY <4>1, <4>2
      <3> QED
        BY <3>1, <3>2, <3>3
    <2>3. CASE ~Write
      <3>1. row' = row
        BY <2>3 DEF Next, Fault, RunStep, GapStep, Mine, NewBlock, Start, Redundancy, Crash,
                    InsertFails, GiveUp, RunFails, ReadWatermark, StartScan, HandNext, EndRun,
                    GapTimer, DetectGaps, FillGaps
      <3> QED
        BY <3>1
    <2> QED
      BY <2>2, <2>3
  <1> QED
    BY <1>1, TypeCorrect, PTL DEF Spec, BackfilledStays
=============================================================================
