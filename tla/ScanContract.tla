---------------------------- MODULE ScanContract ----------------------------
(***************************************************************************)
(* What one historical scan promises its caller, whatever the RPC node     *)
(* does: it hands the log entries of its block range to the callback in    *)
(* chain order and at most once each, it may give up on entries (they are  *)
(* then lost to this scan), and it reports success only when every entry   *)
(* below the end block has been handed over or given up.                   *)
(*                                                                         *)
(* ChunkScan shows that HistoricalDataFilterer.genericFilterer implements  *)
(* this contract; HistoryIngest composes scans that obey it.  What is      *)
(* assumed of the constants is stated where the log is declared, there.    *)
(***************************************************************************)
EXTENDS Integers, Sequences, SequencesExt

CONSTANTS
    NumEvents,  \* length of the chain's log, entries are 1..NumEvents in chain order
    BlockOf,    \* block of each log entry
    FromBlock,  \* first block to scan
    EndBlock    \* last known block when the scan starts

Log == 1..NumEvents

VARIABLES
    out,      \* entries handed to the callback, in that order
    lost,     \* entries this scan has given up on
    outcome   \* "running", "done" or "thrown"

cvars == <<out, lost, outcome>>

\* The entries the scan has to account for before it may report success.
Owed == {e \in Log : FromBlock <= BlockOf[e] /\ BlockOf[e] < EndBlock}

\* The entries the scan may touch: the last query includes the end block.
InRange == {e \in Log : FromBlock <= BlockOf[e] /\ BlockOf[e] <= EndBlock}

Settled == ToSet(out) \cup lost

CInit == out = <<>> /\ lost = {} /\ outcome = "running"

\* e is the next entry: nothing in range before it is still open.
IsNext(e) == \A f \in InRange : f < e => f \in Settled

Hand(e) ==
    /\ outcome = "running"
    /\ e \in InRange \ Settled
    /\ IsNext(e)
    /\ out' = Append(out, e)
    /\ UNCHANGED <<lost, outcome>>

\* Entries are given up from the front: no later entry is overtaken.
GiveUp(S) ==
    /\ outcome = "running"
    /\ S \subseteq InRange \ Settled
    /\ \A e \in S : \A f \in InRange : f < e => f \in Settled \cup S
    /\ lost' = lost \cup S
    /\ UNCHANGED <<out, outcome>>

Finish ==
    /\ outcome = "running"
    /\ Owed \subseteq Settled
    /\ outcome' = "done"
    /\ UNCHANGED <<out, lost>>

Abort ==
    /\ outcome = "running"
    /\ outcome' = "thrown"
    /\ UNCHANGED <<out, lost>>

CNext ==
    \/ \E e \in InRange : Hand(e)
    \/ \E S \in SUBSET InRange : GiveUp(S)
    \/ Finish
    \/ Abort

CSpec == CInit /\ [][CNext]_cvars
=============================================================================
