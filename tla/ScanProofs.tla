----------------------------- MODULE ScanProofs -----------------------------
(***************************************************************************)
(* ChunkScan for every log, block range, chunk size and number of          *)
(* failures: its safety properties, and that it implements ScanContract.   *)
(* Then BlockSearch, where such a scan starts: never too late and not much *)
(* too early, for every chain with non-decreasing block times, every time  *)
(* asked for, every number of calls and precision.                         *)
(***************************************************************************)
EXTENDS ChunkScan, BlockSearch, SequenceTheorems, TLAPS

-----------------------------------------------------------------------------
(* The inductive invariant.  Accounted alone is not inductive: that the     *)
(* next chunk does not overlap what was fetched, and that an abandoned     *)
(* chunk comes after all that was handed over, needs where the entries of   *)
(* buf lie.                                                                *)

Fetched == ToSet(saved) \cup dropped \cup buf

BufOnlyInSave == status # "save" => buf = {}

Behind ==
    /\ FromBlock <= next
    /\ \A f \in Fetched : FromBlock <= BlockOf[f] /\ BlockOf[f] < next /\ BlockOf[f] <= EndBlock

Ordered == \A f \in ToSet(saved) \cup dropped, e \in buf : f < e

\* The back-off records the failures in a row; saving starts after a success.
Backoff ==
    /\ wait = 4 => streak >= 1
    /\ wait = 8 => streak >= 2
    /\ wait = 16 => streak >= 3
    /\ wait = 32 => streak >= 4
    /\ status = "save" => wait = InitWait

IInv == TypeOK /\ Accounted /\ BufOnlyInSave /\ Behind /\ Ordered /\ Backoff
        /\ ThrowsOnlyAfterBackoff /\ InChainOrder

-----------------------------------------------------------------------------
(* What a sequence of entries holds, and what it holds after one more.     *)
LEMMA Handed ==
    ASSUME NEW q \in Seq(Log)
    PROVE  /\ ToSet(q) \subseteq Log /\ Len(q) \in Nat
           /\ \A i \in 1..Len(q) : q[i] \in ToSet(q)
<1>1. Len(q) \in Nat /\ DOMAIN q = 1..Len(q) /\ \A i \in 1..Len(q) : q[i] \in Log
    BY LenProperties, ElementOfSeq
<1> QED BY <1>1 DEF ToSet

LEMMA HandedOneMore ==
    ASSUME NEW q \in Seq(Log), NEW e \in Log
    PROVE  Append(q, e) \in Seq(Log) /\ ToSet(Append(q, e)) = ToSet(q) \cup {e}
<1>1. /\ Append(q, e) \in Seq(Log) /\ Len(Append(q, e)) = Len(q) + 1 /\ Len(q) \in Nat
      /\ Append(q, e)[Len(q) + 1] = e
      /\ \A i \in 1..Len(q) : Append(q, e)[i] = q[i]
    BY AppendProperties, LenProperties
<1>2. DOMAIN q = 1..Len(q) /\ DOMAIN Append(q, e) = 1..Len(q) + 1
    BY <1>1, LenProperties
<1>3. \A i \in 1..Len(q) + 1 : i \in 1..Len(q) \/ i = Len(q) + 1
    BY <1>1
<1>4. Len(q) + 1 \in 1..Len(q) + 1 /\ \A i \in 1..Len(q) : i \in 1..Len(q) + 1
    BY <1>1
<1>5. ToSet(Append(q, e)) \subseteq ToSet(q) \cup {e}
    BY <1>1, <1>2, <1>3 DEF ToSet
<1>6. ToSet(q) \cup {e} \subseteq ToSet(Append(q, e))
    BY <1>1, <1>2, <1>4 DEF ToSet
<1> QED BY <1>1, <1>5, <1>6

(* The order is kept when what comes later is handed over next.            *)
LEMMA OrderOneMore ==
    ASSUME TypeOK, InChainOrder, NEW e \in Log, \A f \in ToSet(saved) : f < e,
           saved' = Append(saved, e)
    PROVE  InChainOrder'
<1>1. /\ Len(saved') = Len(saved) + 1 /\ Len(saved) \in Nat /\ saved'[Len(saved) + 1] = e
      /\ \A i \in 1..Len(saved) : saved'[i] = saved[i] /\ saved[i] \in ToSet(saved)
    BY AppendProperties, Handed DEF TypeOK
<1>2. ASSUME NEW i \in 1..Len(saved'), NEW j \in 1..Len(saved'), i < j
      PROVE  saved'[i] < saved'[j]
    <2>1. i \in 1..Len(saved) /\ (j \in 1..Len(saved) \/ j = Len(saved) + 1)
        BY <1>1, <1>2
    <2>2. CASE j \in 1..Len(saved)
        BY <1>1, <1>2, <2>1, <2>2 DEF InChainOrder
    <2>3. CASE j = Len(saved) + 1
        BY <1>1, <2>1, <2>3
    <2> QED BY <2>1, <2>2, <2>3
<1> QED BY <1>2 DEF InChainOrder

-----------------------------------------------------------------------------
(* Chunk sizes stay within their bounds.                                   *)
LEMMA GrowBounds ==
    ASSUME NEW d \in MinDelta..MaxDelta
    PROVE  Grow(d) \in MinDelta..MaxDelta
<1>1. d \in Nat /\ MinDelta <= d /\ d <= MaxDelta /\ MinDelta \in Nat /\ MaxDelta \in Nat
    BY ChunkAssumption
<1>2. (5 * d + 2) \div 4 \in Nat /\ (5 * d + 2) \div 4 >= d
    BY <1>1
<1> QED BY <1>1, <1>2 DEF Grow, MinOf

LEMMA ShrinkBounds ==
    ASSUME NEW d \in MinDelta..MaxDelta
    PROVE  Shrink(d) \in MinDelta..MaxDelta
<1>1. d \in Nat \ {0} /\ MinDelta <= d /\ d <= MaxDelta /\ MinDelta \in Nat /\ MaxDelta \in Nat
    BY ChunkAssumption
<1>2. (3 * d + 2) \div 4 \in Nat /\ (3 * d + 2) \div 4 <= d
    BY <1>1
<1> QED BY <1>1, <1>2 DEF Shrink, MaxOf

-----------------------------------------------------------------------------
(* The catch block: delta stays within its bounds, the wait is one of the   *)
(* five, and the loop only gives up after the fifth failure in a row.      *)
LEMMA HandleErrorKeeps ==
    ASSUME IInv, NEW class \in ErrorClass, HandleError(class)
    PROVE  /\ delta' \in MinDelta..MaxDelta
           /\ wait' \in {2, 4, 8, 16, 32}
           /\ streak' \in Nat
           /\ status' \in {"query", "thrown"}
           /\ wait' = 4 => streak' >= 1
           /\ wait' = 8 => streak' >= 2
           /\ wait' = 16 => streak' >= 3
           /\ wait' = 32 => streak' >= 4
           /\ status' = "thrown" => streak' >= 5 /\ wait = 32
<1>1. /\ delta \in MinDelta..MaxDelta /\ streak \in Nat
      /\ wait \in {2, 4, 8, 16, 32}
    BY DEF IInv, TypeOK
<1>2. CASE class = "tooLarge"
    BY <1>1, <1>2, ShrinkBounds DEF HandleError, IInv, Backoff
<1>3. CASE class = "rateLimit"
    BY <1>1, <1>3 DEF HandleError, IInv, Backoff, MinOf, MaxWait
<1>4. CASE class = "other"
    BY <1>1, <1>4 DEF HandleError, IInv, Backoff, MaxWait
<1> QED BY <1>2, <1>3, <1>4 DEF ErrorClass

LEMMA InitEstablishes == Init => IInv
<1> SUFFICES ASSUME Init PROVE IInv
    OBVIOUS
<1>1. TypeOK
    BY RangeAssumption, ChunkAssumption DEF Init, TypeOK, InitWait, MaxRetries
<1>2. Accounted
    BY LogAssumption, RangeAssumption DEF Init, Accounted, Log
<1>3. ToSet(saved) = {} /\ InChainOrder
    BY DEF Init, ToSet, InChainOrder
<1> QED
    BY <1>1, <1>2, <1>3, RangeAssumption
       DEF Init, IInv, BufOnlyInSave, Behind, Fetched, Ordered,
           Backoff, ThrowsOnlyAfterBackoff, InitWait

LEMMA NextPreserves == IInv /\ [Next]_svars => IInv'
<1> SUFFICES ASSUME IInv, [Next]_svars PROVE IInv'
    OBVIOUS
<1> USE DEF Log
<1>t. /\ TypeOK /\ next \in Nat /\ delta \in Nat /\ delta >= 1
      /\ MinDelta \in Nat /\ MaxDelta \in Nat /\ MaxFaults \in Nat
      /\ FromBlock \in Nat /\ EndBlock \in Nat
      /\ \A e \in Log : BlockOf[e] \in Nat /\ e \in Nat
      /\ buf \subseteq Log /\ ToSet(saved) \subseteq Log /\ dropped \subseteq Log
      /\ saved \in Seq(Log)
    BY ChunkAssumption, LogAssumption, RangeAssumption, Handed DEF IInv, TypeOK
<1>1. CASE QueryOk
    <2>1. delta' \in MinDelta..MaxDelta
        BY <1>1, GrowBounds DEF QueryOk, IInv, TypeOK
    <2>2. TypeOK'
        BY <1>1, <1>t, <2>1 DEF QueryOk, TypeOK, InitWait
    <2>3. buf = {}
        BY <1>1 DEF QueryOk, IInv, BufOnlyInSave
    <2>4. Accounted'
        BY <1>1, <1>t, <2>3 DEF QueryOk, IInv, Accounted, LastOfChunk, MinOf
    <2>5. Behind'
        <3> SUFFICES ASSUME NEW f \in Fetched'
                     PROVE  FromBlock <= BlockOf[f] /\ BlockOf[f] < next' /\ BlockOf[f] <= EndBlock
            BY <1>1, <1>t DEF QueryOk, IInv, Behind
        <3>1. CASE f \in ToSet(saved) \cup dropped
            <4>1. FromBlock <= BlockOf[f] /\ BlockOf[f] < next /\ BlockOf[f] <= EndBlock
                BY <3>1 DEF IInv, Behind, Fetched
            <4>2. next' = next + delta /\ BlockOf[f] \in Nat
                BY <1>1, <1>t, <3>1 DEF QueryOk
            <4> QED BY <4>1, <4>2, <1>t
        <3>2. CASE f \in buf'
            BY <1>1, <1>t, <3>2 DEF QueryOk, IInv, Behind, LastOfChunk, MinOf
        <3>3. ToSet(saved') = ToSet(saved) /\ dropped' = dropped
            BY <1>1 DEF QueryOk
        <3> QED BY <3>1, <3>2, <3>3 DEF Fetched
    <2>6. Ordered'
        <3> SUFFICES ASSUME NEW f \in ToSet(saved) \cup dropped, NEW e \in buf' PROVE f < e
            BY <1>1 DEF QueryOk, Ordered
        <3>1. BlockOf[f] < next /\ next <= BlockOf[e] /\ e \in Log /\ f \in Log
            BY <1>1, <1>t DEF QueryOk, IInv, Behind, Fetched
        <3> QED BY <3>1, <1>t, LogAssumption
    <2> QED
        BY <1>1, <2>2, <2>4, <2>5, <2>6
        DEF QueryOk, IInv, BufOnlyInSave, Backoff, ThrowsOnlyAfterBackoff, InChainOrder, InitWait
<1>2. ASSUME NEW e \in Log, SaveOne(e) PROVE IInv'
    <2>0. BlockOf[e] \in Nat /\ 0 \in 0..MaxRetries
        BY <1>2, <1>t DEF MaxRetries
    <2>5. /\ saved' \in Seq(Log) /\ ToSet(saved') = ToSet(saved) \cup {e}
          /\ saved' = Append(saved, e)
        BY <1>2, <1>t, HandedOneMore DEF SaveOne
    <2>1. TypeOK'
        BY <1>2, <1>t, <2>0, <2>5 DEF SaveOne, IsFirst, TypeOK
    <2>2. Accounted'
        BY <1>2, <2>5 DEF SaveOne, IInv, Accounted
    <2>3. Behind'
        BY <1>2, <2>5 DEF SaveOne, IsFirst, IInv, Behind, Fetched
    <2>4. Ordered'
        BY <1>2, <1>t, <2>5 DEF SaveOne, IsFirst, IInv, Ordered
    <2>6. InChainOrder'
        BY <1>2, <1>t, <2>5, OrderOneMore DEF SaveOne, IsFirst, IInv, Ordered
    <2> QED
        BY <1>2, <2>1, <2>2, <2>3, <2>4, <2>6
        DEF SaveOne, IInv, BufOnlyInSave, Backoff, ThrowsOnlyAfterBackoff
<1>3. CASE ChunkSaved
    BY <1>3 DEF ChunkSaved, IInv, TypeOK, Accounted, BufOnlyInSave, Behind, Fetched,
                Ordered, Backoff, ThrowsOnlyAfterBackoff, InChainOrder
<1>4. CASE Finish
    BY <1>4 DEF Finish, IInv, TypeOK, Accounted, BufOnlyInSave, Behind, Fetched,
                Ordered, Backoff, ThrowsOnlyAfterBackoff, InChainOrder
<1>5. ASSUME NEW class \in ErrorClass, QueryFail(class) PROVE IInv'
    <2>1. HandleError(class) /\ status = "query" /\ buf = {}
        BY <1>5 DEF QueryFail, IInv, BufOnlyInSave
    <2>2. TypeOK'
        BY <1>5, <1>t, <2>1, HandleErrorKeeps DEF QueryFail, Fail, TypeOK
    <2>3. Accounted' /\ Behind' /\ Ordered' /\ BufOnlyInSave'
        BY <1>5, <2>1
        DEF QueryFail, IInv, Accounted, Behind, Fetched, Ordered, BufOnlyInSave
    <2> QED
        BY <1>5, <2>1, <2>2, <2>3, HandleErrorKeeps
        DEF QueryFail, IInv, Backoff, ThrowsOnlyAfterBackoff, InChainOrder
<1>6. ASSUME NEW e \in Log, GetBlockRetry(e) PROVE IInv'
    <2>1. TypeOK'
        BY <1>6, <1>t DEF GetBlockRetry, Fail, TypeOK, MaxRetries
    <2> QED
        BY <1>6, <2>1 DEF GetBlockRetry, IInv, Accounted, BufOnlyInSave, Behind, Fetched,
                          Ordered, Backoff, ThrowsOnlyAfterBackoff, InChainOrder
<1>7. ASSUME NEW e \in Log, NEW class \in ErrorClass, GetBlockThrow(e, class) PROVE IInv'
    <2>1. HandleError(class)
        BY <1>7 DEF GetBlockThrow
    <2>2. TypeOK'
        BY <1>7, <1>t, <2>1, HandleErrorKeeps DEF GetBlockThrow, Fail, TypeOK, MaxRetries
    <2>3. Accounted' /\ Behind' /\ Ordered' /\ BufOnlyInSave'
        BY <1>7 DEF GetBlockThrow, IInv, Accounted, Behind, Fetched, Ordered, BufOnlyInSave
    <2> QED
        BY <1>7, <2>1, <2>2, <2>3, HandleErrorKeeps
        DEF GetBlockThrow, IInv, Backoff, ThrowsOnlyAfterBackoff, InChainOrder
<1>8. CASE UNCHANGED svars
    BY <1>8 DEF svars, IInv, TypeOK, Accounted, BufOnlyInSave, Behind, Fetched,
                Ordered, Backoff, ThrowsOnlyAfterBackoff, InChainOrder
<1> QED
    BY <1>1, <1>2, <1>3, <1>4, <1>5, <1>6, <1>7, <1>8 DEF Next, Progress, Fault

THEOREM Invariance == Spec => []IInv
<1> QED BY InitEstablishes, NextPreserves, PTL DEF Spec

-----------------------------------------------------------------------------
(* The variables of the scan stay within their types.                      *)
THEOREM TypeCorrect == Spec => []TypeOK
<1>1. IInv => TypeOK
    BY DEF IInv
<1> QED BY Invariance, <1>1, PTL

(* No chunk boundary swallows a block, whatever sizes the chunks had.      *)
THEOREM NoBlockSwallowed == Spec => []Accounted
<1>1. IInv => Accounted
    BY DEF IInv
<1> QED BY Invariance, <1>1, PTL

(* The scan gives up only after five failures in a row.                    *)
THEOREM ThrowsLate == Spec => []ThrowsOnlyAfterBackoff
<1>1. IInv => ThrowsOnlyAfterBackoff
    BY DEF IInv
<1> QED BY Invariance, <1>1, PTL

(* The callback gets the entries in the order of the chain, none twice.    *)
THEOREM ChainOrder == Spec => []InChainOrder
<1>1. IInv => InChainOrder
    BY DEF IInv
<1> QED BY Invariance, <1>1, PTL

-----------------------------------------------------------------------------
(* Every step of the scan is a step of the contract its callers rely on, or *)
(* none: an answer to a query and a retry stutter, saveEvents hands over    *)
(* the next entry, and a saveEvents that throws gives up what was fetched.  *)
THEOREM ScanImplementsContract == Spec => ImplementsContract
<1> USE DEF Log, Contract!Log
<1>1. Init => Contract!CInit
    BY DEF Init, Contract!CInit, Outcome
<1>s. Contract!Settled = ToSet(saved) \cup dropped
    BY DEF Contract!Settled, Contract!ToSet, ToSet
<1>2. IInv /\ [Next]_svars => [Contract!CNext]_(Contract!cvars)
    <2> SUFFICES ASSUME IInv, [Next]_svars PROVE [Contract!CNext]_(Contract!cvars)
        OBVIOUS
    <2>t. /\ TypeOK /\ next \in Nat
          /\ FromBlock \in Nat /\ EndBlock \in Nat
          /\ \A e \in Log : BlockOf[e] \in Nat /\ e \in Nat
          /\ buf \subseteq Log /\ ToSet(saved) \subseteq Log /\ dropped \subseteq Log
        BY LogAssumption, RangeAssumption, Handed DEF IInv, TypeOK
    <2>buf. buf \subseteq Contract!InRange \ Contract!Settled
        BY <1>s, <2>t DEF IInv, Behind, Fetched, Ordered, Contract!InRange
    \* Whatever precedes a fetched entry has been fetched.
    <2>pre. ASSUME NEW e \in buf, NEW f \in Contract!InRange, f < e
            PROVE  f \in ToSet(saved) \cup dropped \cup buf
        <3>1. f \in Log /\ e \in Log /\ BlockOf[e] < next /\ BlockOf[f] <= EndBlock
              /\ FromBlock <= BlockOf[f]
            BY <2>t DEF IInv, Behind, Fetched, Contract!InRange
        <3>2. BlockOf[f] <= BlockOf[e]
            BY <3>1, <2>pre, <2>t, LogAssumption
        <3>3. BlockOf[f] < next
            BY <3>1, <3>2, <2>t
        <3> QED BY <3>1, <3>3 DEF IInv, Accounted
    <2>1. CASE QueryOk
        BY <2>1 DEF QueryOk, Outcome, Contract!cvars
    <2>2. ASSUME NEW e \in Log, SaveOne(e) PROVE Contract!Hand(e) /\ e \in Contract!InRange
        <3>1. e \in buf /\ \A f \in buf : e <= f
            BY <2>2 DEF SaveOne, IsFirst
        <3>2. Contract!IsNext(e)
            BY <1>s, <3>1, <2>pre, <2>t DEF Contract!IsNext, Contract!InRange
        <3> QED
            BY <2>2, <3>1, <3>2, <2>buf DEF SaveOne, Outcome, Contract!Hand
    <2>3. CASE ChunkSaved
        BY <2>3 DEF ChunkSaved, Outcome, Contract!cvars
    <2>4. CASE Finish
        <3>1. buf = {} /\ next >= EndBlock
            BY <2>4 DEF Finish, IInv, BufOnlyInSave
        <3>2. Contract!Owed \subseteq Contract!Settled
            BY <1>s, <3>1, <2>t DEF IInv, Accounted, Contract!Owed
        <3>3. Contract!Finish
            BY <2>4, <3>2 DEF Finish, Outcome, Contract!Finish
        <3> QED BY <3>3 DEF Contract!CNext
    <2>5. ASSUME NEW class \in ErrorClass, QueryFail(class)
          PROVE  [Contract!CNext]_(Contract!cvars)
        <3>1. status = "query" /\ status' \in {"query", "thrown"}
              /\ saved' = saved /\ dropped' = dropped
            BY <2>5, HandleErrorKeeps DEF QueryFail
        <3>2. CASE status' = "query"
            BY <3>1, <3>2 DEF Outcome, Contract!cvars
        <3>3. CASE status' = "thrown"
            BY <3>1, <3>3 DEF Outcome, Contract!Abort, Contract!CNext
        <3> QED BY <3>1, <3>2, <3>3
    <2>6. ASSUME NEW e \in Log, GetBlockRetry(e) PROVE UNCHANGED Contract!cvars
        BY <2>6 DEF GetBlockRetry, Outcome, Contract!cvars
    <2>7. ASSUME NEW e \in Log, NEW class \in ErrorClass, GetBlockThrow(e, class)
          PROVE  Contract!GiveUp(buf) /\ buf \in SUBSET Contract!InRange
        <3>1. HandleError(class) /\ status = "save" /\ wait = InitWait
            BY <2>7 DEF GetBlockThrow, IInv, Backoff
        <3>2. status' = "query"
            BY <3>1, HandleErrorKeeps DEF InitWait
        <3>3. \A g \in buf : \A f \in Contract!InRange : f < g => f \in Contract!Settled \cup buf
            BY <1>s, <2>pre
        <3> QED
            BY <2>7, <3>1, <3>2, <3>3, <2>buf DEF GetBlockThrow, Outcome, Contract!GiveUp
    <2>8. CASE UNCHANGED svars
        BY <2>8 DEF svars, Outcome, Contract!cvars
    <2> QED
        BY <2>1, <2>2, <2>3, <2>4, <2>5, <2>6, <2>7, <2>8
        DEF Next, Progress, Fault, Contract!CNext
<1> QED
    BY Invariance, <1>1, <1>2, PTL DEF Spec, ImplementsContract, Contract!CSpec

(***************************************************************************)
(* The block search.                                                       *)
(***************************************************************************)
(* The types, with the chain's length known once the first call is back.   *)
SearchTypes ==
    /\ times \in Chains /\ since \in Instants
    /\ latest \in Nat /\ left \in Nat /\ right \in Nat
    /\ leftTime \in Nat /\ rightTime \in Nat
    /\ calls \in 0..MaxCalls /\ weight \in Nat \ {0}
    /\ pc \in {"latest", "search", "done", "failed"}

(* What the first call returns stays the chain's last block.               *)
Chain == pc \in {"search", "done"} => times \in [0..latest -> Nat]

(* Before the first call both ends are at block 0.                         *)
Fresh == pc = "latest" => left = 0 /\ leftTime = 0 /\ calls = 0 /\ weight = 1

(* The two ends bracket the time asked for, each until it first moves.      *)
Bracket ==
    pc \in {"search", "done"} =>
        /\ left <= right /\ right <= latest
        /\ left = 0 \/ times[left] < since
        /\ right = latest \/ times[right] >= since
        /\ rightTime = times[right]

(* Each call halves the number of blocks strictly between the ends.        *)
Halved ==
    pc \in {"search", "done"} => (right - left - 1) * weight < latest

(* The loop goes on while there are calls left, and ends for one of its    *)
(* two reasons.                                                            *)
Stopped ==
    /\ pc = "search" => calls < MaxCalls
    /\ pc = "done" => rightTime - leftTime < Precision \/ calls = MaxCalls

SearchIInv == SearchTypes /\ Chain /\ Fresh /\ Bracket /\ Halved /\ Stopped

-----------------------------------------------------------------------------
(* What the assumption says of one chain: it has a last block, and only    *)
(* that one is last.                                                       *)
LEMMA ChainShape ==
    ASSUME NEW t \in Chains
    PROVE  \E n \in Nat :
              /\ t \in [0..n -> Nat]
              /\ \A b, c \in 0..n : b <= c => t[b] <= t[c]
  BY BlockSearchAssumption DEF BlockSearchAssumption, IsChain

(* A domain 0..n determines n.                                             *)
LEMMA LastBlock ==
    ASSUME NEW n \in Nat, NEW m \in 0..n, \A b \in 0..n : b <= m
    PROVE  m = n
  OBVIOUS

(* Block times of a chain whose last block is n do not decrease.           *)
LEMMA TimesOrdered ==
    ASSUME NEW t \in Chains, NEW n \in Nat, t \in [0..n -> Nat],
           NEW b \in 0..n, NEW c \in 0..n, b <= c
    PROVE  t[b] <= t[c]
<1>1. PICK k \in Nat : /\ t \in [0..k -> Nat]
                       /\ \A x, y \in 0..k : x <= y => t[x] <= t[y]
  BY ChainShape
<1>2. 0..k = 0..n
  BY <1>1
<1> QED BY <1>1, <1>2

(* Doubling the weight is paid for by halving the width.                    *)
LEMMA Halving ==
    ASSUME NEW w \in Int, NEW v \in Int, NEW k \in Nat, NEW n \in Nat,
           2 * v <= w, w * k < n
    PROVE  v * (2 * k) < n
<1>1. (2 * v) * k <= w * k
  <2>1. (w - 2 * v) * k >= 0
    <3> DEFINE d == w - 2 * v
    <3>1. d \in Nat
      OBVIOUS
    <3>2. d * k \in Nat
      BY <3>1
    <3> QED BY <3>2
  <2>2. (w - 2 * v) * k = w * k - (2 * v) * k
    OBVIOUS
  <2> QED BY <2>1, <2>2
<1>2. (2 * v) * k = v * (2 * k)
  OBVIOUS
<1> QED BY <1>1, <1>2

-----------------------------------------------------------------------------
LEMMA SearchInitInv == SearchInit => SearchIInv
<1> SUFFICES ASSUME SearchInit PROVE SearchIInv
  OBVIOUS
<1> USE DEF SearchInit
<1>1. SearchTypes
  BY BlockSearchAssumption DEF SearchTypes, BlockSearchAssumption
<1> QED BY <1>1 DEF SearchIInv, Chain, Fresh, Bracket, Halved, Stopped

(* The first call sets the right end to the last block.                     *)
LEMMA LatestStep == SearchIInv /\ GetLatest => SearchIInv'
<1> SUFFICES ASSUME SearchIInv, GetLatest PROVE SearchIInv'
  OBVIOUS
<1> USE DEF GetLatest, inputs
<1>1. PICK n \in Nat : times \in [0..n -> Nat]
  BY ChainShape DEF SearchIInv, SearchTypes
<1>2. latest' = n /\ right' = n /\ rightTime' = times[n] /\ times[n] \in Nat
  <2>1. PICK m \in DOMAIN times :
           /\ \A b \in DOMAIN times : b <= m
           /\ latest' = m /\ right' = m /\ rightTime' = times[m]
    OBVIOUS
  <2>2. m = n
    BY <1>1, <2>1, LastBlock
  <2> QED BY <1>1, <2>1, <2>2
<1>3. SearchTypes'
  BY <1>2 DEF SearchIInv, SearchTypes
<1>4. Chain' /\ Fresh'
  BY <1>1, <1>2 DEF Chain, Fresh
<1>5. Bracket' /\ Halved' /\ Stopped'
  BY <1>2, BlockSearchAssumption
     DEF SearchIInv, Fresh, Bracket, Halved, Stopped, BlockSearchAssumption
<1> QED BY <1>3, <1>4, <1>5 DEF SearchIInv

(* A turn of the loop moves one end to the middle.                         *)
LEMMA BisectStep == SearchIInv /\ Bisect => SearchIInv'
<1> SUFFICES ASSUME SearchIInv, Bisect PROVE SearchIInv'
  OBVIOUS
<1> USE DEF Bisect, inputs
<1>1. /\ left \in Nat /\ right \in Nat /\ left <= right /\ right <= latest
      /\ latest \in Nat /\ times \in [0..latest -> Nat]
      /\ weight \in Nat \ {0} /\ calls \in 0..MaxCalls
      /\ (right - left - 1) * weight < latest
  BY DEF SearchIInv, SearchTypes, Chain, Bracket, Halved
<1>2. /\ Middle \in Nat /\ left <= Middle /\ Middle <= right
      /\ 2 * Middle <= left + right + 1 /\ left + right <= 2 * Middle
      /\ times[Middle] \in Nat
  <2>1. Middle \in Int /\ 2 * Middle <= left + right + 1 /\ left + right <= 2 * Middle
    BY <1>1 DEF Middle
  <2>2. Middle \in 0..latest
    BY <1>1, <2>1
  <2> QED BY <1>1, <2>1, <2>2
<1>3. SearchTypes'
  <2>1. /\ left' \in Nat /\ right' \in Nat /\ leftTime' \in Nat /\ rightTime' \in Nat
    BY <1>2 DEF MoveEnd, SearchIInv, SearchTypes
  <2>2. calls' \in 0..MaxCalls
    BY <1>1, BlockSearchAssumption DEF SearchIInv, Stopped, BlockSearchAssumption
  <2>3. weight' \in Nat \ {0}
    BY <1>1
  <2> QED BY <2>1, <2>2, <2>3 DEF SearchIInv, SearchTypes
<1>4. Chain' /\ Fresh'
  BY <1>1 DEF Chain, Fresh
<1>5. Bracket'
  BY <1>1, <1>2 DEF MoveEnd, SearchIInv, Bracket
<1>6. Halved'
  <2>1. 2 * (right' - left' - 1) <= right - left - 1
    BY <1>1, <1>2 DEF MoveEnd
  <2>2. right' - left' - 1 \in Int /\ right - left - 1 \in Int
    BY <1>1, <1>3 DEF SearchTypes
  <2>3. (right' - left' - 1) * (2 * weight) < latest
    BY <1>1, <2>1, <2>2, Halving
  <2> QED BY <2>3 DEF Halved
<1>7. Stopped'
  <2>1. CASE rightTime' - leftTime' < Precision /\ pc' = "done"
    BY <2>1 DEF Stopped
  <2>2. CASE calls' = calls + 1 /\ pc' = IF calls + 1 < MaxCalls THEN "search" ELSE "done"
    <3>1. calls < MaxCalls /\ MaxCalls \in Nat
      BY BlockSearchAssumption DEF SearchIInv, Stopped, BlockSearchAssumption
    <3> QED BY <1>1, <2>2, <3>1 DEF Stopped
  <2> QED BY <2>1, <2>2
<1> QED BY <1>3, <1>4, <1>5, <1>6, <1>7 DEF SearchIInv

LEMMA SearchNextInv == SearchIInv /\ [SearchNext]_vars => SearchIInv'
<1>1. SearchIInv /\ SearchFails => SearchIInv'
  BY DEF SearchIInv, SearchFails, inputs, SearchTypes, Chain, Fresh, Bracket, Halved, Stopped
<1>2. SearchIInv /\ UNCHANGED vars => SearchIInv'
  BY DEF SearchIInv, vars, SearchTypes, Chain, Fresh, Bracket, Halved, Stopped
<1> QED BY <1>1, <1>2, LatestStep, BisectStep DEF SearchNext

(* The state of the search is well typed, its ends bracket the time asked  *)
(* for, and the number of blocks between them halves.                      *)
THEOREM SearchInvariant == SearchSpec => []SearchIInv
  BY SearchInitInv, SearchNextInv, PTL DEF SearchSpec

-----------------------------------------------------------------------------
(* calculateBlockFromTime never returns a block after one that is at or     *)
(* after the time asked for, so a scan that starts there misses nothing.    *)
THEOREM NeverTooLate == SearchSpec => []SinceCovered
<1>1. SearchIInv => SinceCovered
  <2> SUFFICES ASSUME SearchIInv, pc = "done", NEW b \in DOMAIN times, times[b] >= since
               PROVE  left <= b
    BY DEF SinceCovered
  <2>1. /\ latest \in Nat /\ times \in Chains /\ times \in [0..latest -> Nat]
        /\ left \in 0..latest /\ since \in Nat
        /\ left = 0 \/ times[left] < since
    BY BlockSearchAssumption DEF SearchIInv, SearchTypes, Chain, Bracket, BlockSearchAssumption
  <2>2. CASE left = 0
    BY <2>1, <2>2
  <2>3. CASE times[left] < since
    <3> SUFFICES ASSUME b < left PROVE FALSE
      BY <2>1
    <3>1. times[b] <= times[left]
      BY <2>1, TimesOrdered
    <3> QED BY <2>1, <2>3, <3>1
  <2> QED BY <2>1, <2>2, <2>3
<1> QED BY <1>1, SearchInvariant, PTL

(* What such a scan looks at for nothing is bounded by the precision, or    *)
(* halves with every call.                                                  *)
THEOREM NeverMuchTooEarly == SearchSpec => []NotTooEarly
<1>1. SearchIInv => NotTooEarly
  <2> SUFFICES ASSUME SearchIInv, pc = "done", NEW b \in DOMAIN times,
                      left < b, times[b] < since
               PROVE  \/ times[b] - leftTime < Precision
                      \/ calls = MaxCalls /\ (b - left - 1) * weight < latest
    BY DEF NotTooEarly
  <2>1. /\ latest \in Nat /\ times \in Chains /\ times \in [0..latest -> Nat]
        /\ left \in Nat /\ right \in 0..latest /\ since \in Nat
        /\ right = latest \/ times[right] >= since
        /\ rightTime = times[right] /\ leftTime \in Nat
        /\ weight \in Nat /\ (right - left - 1) * weight < latest
        /\ Precision \in Nat
    BY BlockSearchAssumption DEF SearchIInv, SearchTypes, Chain, Bracket, Halved, BlockSearchAssumption
  <2>2. b <= right
    <3> SUFFICES ASSUME right < b PROVE FALSE
      BY <2>1
    <3>1. b \in 0..latest /\ right <= b
      BY <2>1
    <3>2. times[right] <= times[b]
      BY <2>1, <3>1, TimesOrdered
    <3> QED BY <2>1, <3>1, <3>2
  <2>3. times[b] <= rightTime /\ times[b] \in Nat
    BY <2>1, <2>2, TimesOrdered
  <2>4. (b - left - 1) * weight < latest
    <3> DEFINE v == right - b
    <3>1. v \in Nat /\ v * weight \in Nat
      BY <2>1, <2>2
    <3>2. (right - left - 1) * weight = (b - left - 1) * weight + v * weight
      BY <2>1
    <3>3. (b - left - 1) * weight \in Int
      BY <2>1
    <3> QED BY <2>1, <3>1, <3>2, <3>3
  <2>5. rightTime - leftTime < Precision \/ calls = MaxCalls
    BY DEF SearchIInv, Stopped
  <2> QED BY <2>1, <2>3, <2>4, <2>5
<1> QED BY <1>1, SearchInvariant, PTL
=============================================================================
