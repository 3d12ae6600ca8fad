---------------------------- MODULE BlockSearch ----------------------------
(***************************************************************************)
(* calculateBlockFromTime: the block from which a scan of history starts.  *)
(* A bisection of the chain by block time, one RPC call per step, that     *)
(* stops after a fixed number of calls or when the two block times are     *)
(* close.  It looks at the blocks there were when it began; the history    *)
(* filters use its left end.                                               *)
(***************************************************************************)
EXTENDS Integers

CONSTANTS
    Chains,     \* block times, per chain: functions from 0..latest
    Instants,   \* the times asked for
    MaxCalls,   \* MAX_RPC_CALLS
    Precision   \* in units of block time (six hours)

(* Block times are not negative and never decrease.                        *)
IsChain(t) ==
    \E n \in DOMAIN t :
        /\ n \in Nat /\ t \in [0..n -> Nat]
        /\ \A b, c \in 0..n : b <= c => t[b] <= t[c]

ASSUME BlockSearchAssumption ==
    /\ \A t \in Chains : IsChain(t)
    /\ Instants \subseteq Nat
    /\ MaxCalls \in Nat \ {0} /\ Precision \in Nat

VARIABLES
    times,                  \* the chain searched
    since,                  \* the time asked for
    latest,                 \* maxBlockNum
    left, leftTime,         \* leftBlockNum, leftBlockTime
    right, rightTime,       \* rightBlockNum, rightBlockTime
    calls,                  \* i
    weight,                 \* history: 2 to the number of calls
    pc                      \* "latest", "search", "done" or "failed"

vars == <<times, since, latest, left, leftTime, right, rightTime, calls, weight, pc>>
inputs == <<times, since>>

SearchInit ==
    /\ times \in Chains /\ since \in Instants
    /\ latest = 0 /\ left = 0 /\ leftTime = 0 /\ right = 0 /\ rightTime = 0
    /\ calls = 0 /\ weight = 1 /\ pc = "latest"

\* getBlock("latest"): the right end.  The left end is block 0, at the epoch.
GetLatest ==
    /\ pc = "latest" /\ pc' = "search"
    /\ \E n \in DOMAIN times :
          /\ \A b \in DOMAIN times : b <= n
          /\ latest' = n /\ right' = n /\ rightTime' = times[n]
    /\ UNCHANGED <<inputs, left, leftTime, calls, weight>>

\* Math.round rounds a half up.
Middle == (left + right + 1) \div 2

\* Mutant: a block at the time asked for counts as being before it.
MoveEnd_Equal ==
    \/ /\ times[Middle] <= since
       /\ left' = Middle /\ leftTime' = times[Middle]
       /\ UNCHANGED <<right, rightTime>>
    \/ /\ times[Middle] > since
       /\ right' = Middle /\ rightTime' = times[Middle]
       /\ UNCHANGED <<left, leftTime>>

\* Mutant: the right end stays where it is.
MoveEnd_RightKept ==
    \/ /\ times[Middle] >= since
       /\ UNCHANGED <<left, leftTime, right, rightTime>>
    \/ /\ times[Middle] < since
       /\ left' = Middle /\ leftTime' = times[Middle]
       /\ UNCHANGED <<right, rightTime>>

\* The middle block replaces the end on its side of the time asked for.
MoveEnd ==
    \/ /\ times[Middle] < since
       /\ left' = Middle /\ leftTime' = times[Middle]
       /\ UNCHANGED <<right, rightTime>>
    \/ /\ times[Middle] >= since
       /\ right' = Middle /\ rightTime' = times[Middle]
       /\ UNCHANGED <<left, leftTime>>

\* One turn of the loop: getBlock(middle), then the test for precision, which
\* leaves the loop before the counter moves.
Bisect ==
    /\ pc = "search" /\ MoveEnd
    /\ weight' = 2 * weight
    /\ \/ /\ rightTime' - leftTime' < Precision
          /\ pc' = "done" /\ calls' = calls
       \/ /\ rightTime' - leftTime' >= Precision
          /\ calls' = calls + 1
          /\ pc' = IF calls + 1 < MaxCalls THEN "search" ELSE "done"
    /\ UNCHANGED <<inputs, latest>>

\* getBlock throws, or the caller's timeout has passed.
SearchFails ==
    /\ pc \in {"latest", "search"} /\ pc' = "failed"
    /\ UNCHANGED <<inputs, latest, left, leftTime, right, rightTime, calls, weight>>

SearchNext == GetLatest \/ Bisect \/ SearchFails

SearchSpec == SearchInit /\ [][SearchNext]_vars

-----------------------------------------------------------------------------
(* The search never starts a scan too late: whatever happened at or after   *)
(* the time asked for lies at or after the block it returns, also if many   *)
(* blocks have the same time or the time is before the first block.        *)
SinceCovered ==
    pc = "done" => \A b \in DOMAIN times : times[b] >= since => left <= b

(* Nor much too early: a block before the time asked for that is scanned   *)
(* for nothing is within the precision of the block returned, or, when the *)
(* calls ran out, less than the chain's length divided by 2^MaxCalls away.  *)
NotTooEarly ==
    pc = "done" =>
        \A b \in DOMAIN times : left < b /\ times[b] < since =>
            \/ times[b] - leftTime < Precision
            \/ calls = MaxCalls /\ (b - left - 1) * weight < latest
=============================================================================
