----------------------------- MODULE ChunkScan -----------------------------
(***************************************************************************)
(* HistoricalDataFilterer.genericFilterer and saveEvents: one scan of the  *)
(* log of a contract, in chunks of deltaBlocks blocks.                     *)
(*                                                                         *)
(* Every await of the code is a point where the RPC node answers or fails: *)
(* queryFilter (one call per chunk) and getBlock (one call per block with  *)
(* an event).  A failure is one of the classes the catch block tells apart.*)
(***************************************************************************)
EXTENDS Integers, Sequences, SequencesExt

CONSTANTS
    NumEvents, BlockOf, FromBlock, EndBlock,   \* see ScanContract
    MaxDelta,    \* 9_999 blocks, the initial and largest chunk
    MinDelta,    \* 100 blocks, the smallest chunk
    MaxFaults    \* bound: RPC failures per behaviour

Log == 1..NumEvents
MinOf(a, b) == IF a <= b THEN a ELSE b
MaxOf(a, b) == IF a >= b THEN a ELSE b

InitWait   == 2     \* lastWaitSeconds after a success
MaxWait    == 32    \* maxWaitSeconds
MaxRetries == 5     \* getBlock retries on a rate limit

ASSUME LogAssumption ==
    /\ NumEvents \in Nat
    /\ BlockOf \in [Log -> Nat]
    /\ \A e, f \in Log : e <= f => BlockOf[e] <= BlockOf[f]

ASSUME RangeAssumption == FromBlock \in Nat /\ EndBlock \in Nat

ASSUME ChunkAssumption ==
    /\ MinDelta \in Nat \ {0}
    /\ MaxDelta \in Nat
    /\ MinDelta <= MaxDelta
    /\ MaxFaults \in Nat

\* How the catch block tells errors apart, in the order it tests them.
ErrorClass == {"tooLarge", "rateLimit", "other"}

VARIABLES
    status,   \* "query", "save", "done" or "thrown"
    next,     \* i: first block of the next chunk
    delta,    \* deltaBlocks
    wait,     \* lastWaitSeconds
    buf,      \* fetched entries that saveEvents has not handed over yet
    known,    \* blocks whose timestamp is in the blockTimestamp map
    retries,  \* retries of the current getBlock call
    saved,    \* entries handed to the callback, in that order
    dropped,  \* history: entries of chunks whose saveEvents threw
    streak,   \* history: waits and throws since a query last succeeded
    faults    \* number of RPC failures so far, for the bound MaxFaults

svars == <<status, next, delta, wait, buf, known, retries, saved, dropped,
           streak, faults>>

Init ==
    /\ status = "query" /\ next = FromBlock /\ delta = MaxDelta
    /\ wait = InitWait /\ buf = {} /\ known = {} /\ retries = 0
    /\ saved = <<>> /\ dropped = {} /\ streak = 0 /\ faults = 0

-----------------------------------------------------------------------------
\* Math.round(delta * 1.25) and Math.round(delta * 0.75)
Grow(d) == IF 4 * d < 3 * MaxDelta THEN MinOf(MaxDelta, (5 * d + 2) \div 4) ELSE d
\* Mutant: no lower bound on deltaBlocks.
Shrink_NoFloor(d) == (3 * d) \div 4
Shrink(d) == MaxOf(MinDelta, (3 * d + 2) \div 4)

\* Mutant: the end of a chunk is the start of the next.
LastOfChunk_Overlap == MinOf(EndBlock, next + delta)
LastOfChunk == MinOf(EndBlock, next + delta - 1)

\* Mutant: adapts deltaBlocks before the cursor advances.
QueryOk_GrowFirst ==
    /\ status = "query" /\ next < EndBlock
    /\ buf' = {e \in Log : next <= BlockOf[e] /\ BlockOf[e] <= LastOfChunk}
    /\ next' = next + Grow(delta)
    /\ delta' = Grow(delta)
    /\ wait' = InitWait
    /\ streak' = 0
    /\ status' = "save"
    /\ UNCHANGED <<known, retries, saved, dropped, faults>>

\* queryFilter answers: the cursor moves on before the events are saved.
QueryOk ==
    /\ status = "query" /\ next < EndBlock
    /\ buf' = {e \in Log : next <= BlockOf[e] /\ BlockOf[e] <= LastOfChunk}
    /\ next' = next + delta
    /\ delta' = Grow(delta)
    /\ wait' = InitWait
    /\ streak' = 0
    /\ status' = "save"
    /\ UNCHANGED <<known, retries, saved, dropped, faults>>

Fail == faults < MaxFaults /\ faults' = faults + 1

\* Mutant: gives up instead of waiting the longest time.
HandleError_ThrowEarly(class) ==
    \/ /\ class = "tooLarge"
       /\ delta' = Shrink(delta)
       /\ status' = "query"
       /\ UNCHANGED <<wait, streak>>
    \/ /\ class # "tooLarge" /\ 2 * wait < MaxWait
       /\ wait' = 2 * wait
       /\ streak' = streak + 1
       /\ status' = "query"
       /\ UNCHANGED delta
    \/ /\ class # "tooLarge" /\ 2 * wait >= MaxWait
       /\ streak' = streak + 1
       /\ status' = "thrown"
       /\ UNCHANGED <<delta, wait>>

\* The catch block: shrink the chunk, back off, or rethrow.
HandleError(class) ==
    \/ /\ class = "tooLarge"
       /\ delta' = Shrink(delta)
       /\ status' = "query"
       /\ UNCHANGED <<wait, streak>>
    \/ /\ class = "rateLimit"
       /\ wait' = MinOf(2 * wait, MaxWait)
       /\ streak' = streak + 1
       /\ status' = "query"
       /\ UNCHANGED delta
    \/ /\ class = "other" /\ wait < MaxWait
       /\ wait' = 2 * wait
       /\ streak' = streak + 1
       /\ status' = "query"
       /\ UNCHANGED delta
    \/ /\ class = "other" /\ wait >= MaxWait
       /\ streak' = streak + 1
       /\ status' = "thrown"
       /\ UNCHANGED <<delta, wait>>

QueryFail(class) ==
    /\ status = "query" /\ next < EndBlock
    /\ Fail
    /\ HandleError(class)
    /\ UNCHANGED <<next, buf, known, retries, saved, dropped>>

-----------------------------------------------------------------------------
\* saveEvents takes the fetched entries in the order of the log.
IsFirst(e) == e \in buf /\ \A f \in buf : e <= f

\* The block's timestamp is known, or getBlock answers: invoke the callback.
SaveOne(e) ==
    /\ status = "save" /\ IsFirst(e)
    /\ known' = known \cup {BlockOf[e]}
    /\ saved' = Append(saved, e)
    /\ buf' = buf \ {e}
    /\ retries' = 0
    /\ UNCHANGED <<status, next, delta, wait, dropped, streak, faults>>

GetBlockRetry(e) ==
    /\ status = "save" /\ IsFirst(e) /\ BlockOf[e] \notin known
    /\ retries < MaxRetries
    /\ Fail
    /\ retries' = retries + 1
    /\ UNCHANGED <<status, next, delta, wait, buf, known, saved, dropped, streak>>

\* getBlock fails for good: saveEvents throws and the rest of the chunk is
\* abandoned, since the loop goes on at the cursor QueryOk has moved.
GetBlockThrow(e, class) ==
    /\ status = "save" /\ IsFirst(e) /\ BlockOf[e] \notin known
    /\ class = "rateLimit" => retries = MaxRetries
    /\ Fail
    /\ dropped' = dropped \cup buf
    /\ buf' = {}
    /\ retries' = 0
    /\ HandleError(class)
    /\ UNCHANGED <<next, known, saved>>

ChunkSaved ==
    /\ status = "save" /\ buf = {}
    /\ status' = "query"
    /\ UNCHANGED <<next, delta, wait, buf, known, retries, saved, dropped, streak, faults>>

\* Mutant: the loop condition looks at the end of the chunk.
Finish_ChunkEnd ==
    /\ status = "query" /\ next + delta >= EndBlock
    /\ status' = "done"
    /\ UNCHANGED <<next, delta, wait, buf, known, retries, saved, dropped, streak, faults>>

Finish ==
    /\ status = "query" /\ next >= EndBlock
    /\ status' = "done"
    /\ UNCHANGED <<next, delta, wait, buf, known, retries, saved, dropped, streak, faults>>

-----------------------------------------------------------------------------
Progress == QueryOk \/ (\E e \in Log : SaveOne(e)) \/ ChunkSaved \/ Finish

Fault ==
    \/ \E class \in ErrorClass : QueryFail(class)
    \/ \E e \in Log : GetBlockRetry(e)
    \/ \E e \in Log, class \in ErrorClass : GetBlockThrow(e, class)

Next == Progress \/ Fault

Spec == Init /\ [][Next]_svars

\* The node eventually answers: it fails at most MaxFaults times.
FairSpec == Spec /\ WF_svars(Progress)

-----------------------------------------------------------------------------
TypeOK ==
    /\ status \in {"query", "save", "done", "thrown"}
    /\ next \in Nat
    /\ delta \in MinDelta..MaxDelta
    /\ wait \in {2, 4, 8, 16, 32}
    /\ buf \subseteq Log
    /\ known \subseteq Nat
    /\ retries \in 0..MaxRetries
    /\ saved \in Seq(Log)
    /\ dropped \subseteq Log
    /\ streak \in Nat
    /\ faults \in 0..MaxFaults

(* No chunk boundary swallows a block: whatever deltaBlocks was when the    *)
(* chunks were cut (it shrinks on 413 and grows on success while the cursor *)
(* advances), each entry before the cursor was handed to the callback, is   *)
(* about to be, or was in a chunk whose saveEvents threw.                   *)
Accounted ==
    \A e \in Log :
        FromBlock <= BlockOf[e] /\ BlockOf[e] < next /\ BlockOf[e] <= EndBlock
            => e \in ToSet(saved) \cup buf \cup dropped

(* Consecutive chunks do not overlap, and a chunk that is fetched again      *)
(* after an error has not been handed over before: callbacks get the log's  *)
(* entries in chain order, and none of them twice.                          *)
InChainOrder == \A i, j \in 1..Len(saved) : i < j => saved[i] < saved[j]

(* A scan is abandoned only by a fifth wait-class error in a row (four      *)
(* doublings from 2s to 32s), never by isolated failures: a success resets  *)
(* the back-off, and so do the failures of getBlock that follow it.         *)
ThrowsOnlyAfterBackoff == status = "thrown" => streak >= 5

(* The loop ends: it finishes or rethrows once the node stops failing.      *)
Terminates == <>(status \in {"done", "thrown"})

-----------------------------------------------------------------------------
Outcome == IF status \in {"done", "thrown"} THEN status ELSE "running"

Contract == INSTANCE ScanContract WITH out <- saved, lost <- dropped, outcome <- Outcome

(* The scan implements the contract its callers rely on.                    *)
ImplementsContract == Contract!CSpec

=============================================================================
