----------------------------- MODULE RpcManager -----------------------------
(***************************************************************************)
(* RPCManager: a queue of RPC URLs shared by concurrent callers of getRPC. *)
(*                                                                         *)
(* A caller takes the last URL of the queue; when its health is unknown or *)
(* older than a minute the caller awaits a probe with the URL in its hand, *)
(* and only then puts it back in front.  Other callers run meanwhile.      *)
(***************************************************************************)
EXTENDS Integers, Sequences, SequencesExt

CONSTANTS
    URLs,       \* the configured endpoints
    InitQueue,  \* the queue at construction
    Callers     \* calls that may be under way at the same time

\* The configuration lists each endpoint once.
ASSUME PoolAssumption ==
    /\ URLs # {}
    /\ InitQueue \in Seq(URLs)
    /\ \A i, j \in 1..Len(InitQueue) : InitQueue[i] = InitQueue[j] => i = j
    /\ \A u \in URLs : \E i \in 1..Len(InitQueue) : InitQueue[i] = u

VARIABLES
    rpcURLs,   \* the queue: pop takes its last element
    healthy,   \* URLs whose last probe succeeded
    recent,    \* URLs probed within CHECK_INTERVAL_MS
    pc,        \* "idle", "loop", "probe", "test", "returned" or "failed"
    want,      \* getRPC's argument: only a healthy URL will do
    numTries,
    rpc,       \* the URL the caller took last
    tried      \* history: URLs some call took, or had in hand, since this one began

vars == <<rpcURLs, healthy, recent, pc, want, numTries, rpc, tried>>

Init ==
    /\ rpcURLs = InitQueue
    /\ healthy = {} /\ recent = {}
    /\ pc = [c \in Callers |-> "idle"]
    /\ want = [c \in Callers |-> TRUE]
    /\ numTries = [c \in Callers |-> 0]
    /\ rpc = [c \in Callers |-> InitQueue[1]]
    /\ tried = [c \in Callers |-> {}]

Goto(c, label) == pc' = [pc EXCEPT ![c] = label]

UnderWay(c) == pc[c] \in {"loop", "probe", "test"}

\* A call is over, and what was tried since it began no longer matters.
Leave(c, label) == Goto(c, label) /\ tried' = [tried EXCEPT ![c] = {}]

\* The calls that have a URL in their hand.
Holders == {c \in Callers : pc[c] = "probe"}

\* Mutant: the count starts below zero.
Call_FromMinusOne(c) ==
    /\ ~UnderWay(c)
    /\ \E w \in BOOLEAN : want' = [want EXCEPT ![c] = w]
    /\ Goto(c, IF Len(rpcURLs) < 1 THEN "failed" ELSE "loop")
    /\ numTries' = [numTries EXCEPT ![c] = -1]
    /\ tried' = [tried EXCEPT ![c] = {rpc[d] : d \in Holders}]
    /\ UNCHANGED <<rpcURLs, healthy, recent, rpc>>

\* getRPC(healthy) is called.
Call(c) ==
    /\ ~UnderWay(c)
    /\ \E w \in BOOLEAN : want' = [want EXCEPT ![c] = w]
    /\ Goto(c, IF Len(rpcURLs) < 1 THEN "failed" ELSE "loop")
    /\ numTries' = [numTries EXCEPT ![c] = 0]
    /\ tried' = [tried EXCEPT ![c] = {rpc[d] : d \in Holders}]
    /\ UNCHANGED <<rpcURLs, healthy, recent, rpc>>

\* A URL goes back in front.
PutBack(u, queue) == <<u>> \o queue

\* Mutant: the tries are not counted.
Take_Uncounted(c) ==
    /\ pc[c] = "loop" /\ numTries[c] < Len(rpcURLs)
    /\ LET u == Last(rpcURLs) IN
          /\ rpc' = [rpc EXCEPT ![c] = u]
          /\ tried' = [d \in Callers |-> IF UnderWay(d) THEN tried[d] \cup {u} ELSE {}]
          /\ \/ /\ u \in recent
                /\ rpcURLs' = PutBack(u, Front(rpcURLs))
                /\ Goto(c, "test")
             \/ /\ u \notin recent
                /\ rpcURLs' = Front(rpcURLs)
                /\ Goto(c, "probe")
    /\ UNCHANGED <<healthy, recent, want, numTries>>

\* The loop takes the last URL; one whose health is known goes back at once.
Take(c) ==
    /\ pc[c] = "loop" /\ numTries[c] < Len(rpcURLs)
    /\ numTries' = [numTries EXCEPT ![c] = @ + 1]
    /\ LET u == Last(rpcURLs) IN
          /\ rpc' = [rpc EXCEPT ![c] = u]
          /\ tried' = [d \in Callers |-> IF UnderWay(d) THEN tried[d] \cup {u} ELSE {}]
          /\ \/ /\ u \in recent
                /\ rpcURLs' = PutBack(u, Front(rpcURLs))
                /\ Goto(c, "test")
             \/ /\ u \notin recent
                /\ rpcURLs' = Front(rpcURLs)
                /\ Goto(c, "probe")
    /\ UNCHANGED <<healthy, recent, want>>

\* Mutant: a URL that failed its probe does not go back into the queue.
Probe_Discard(c) ==
    /\ pc[c] = "probe"
    /\ \/ /\ healthy' = healthy \cup {rpc[c]}
          /\ rpcURLs' = PutBack(rpc[c], rpcURLs)
       \/ healthy' = healthy \ {rpc[c]} /\ UNCHANGED rpcURLs
    /\ recent' = recent \cup {rpc[c]}
    /\ Goto(c, "test")
    /\ UNCHANGED <<want, numTries, rpc, tried>>

\* The probe succeeds, fails or times out; the URL goes back in front.
Probe(c) ==
    /\ pc[c] = "probe"
    /\ \/ healthy' = healthy \cup {rpc[c]}
       \/ healthy' = healthy \ {rpc[c]}
    /\ recent' = recent \cup {rpc[c]}
    /\ rpcURLs' = PutBack(rpc[c], rpcURLs)
    /\ Goto(c, "test")
    /\ UNCHANGED <<want, numTries, rpc, tried>>

Test(c) ==
    /\ pc[c] = "test"
    /\ IF ~want[c] \/ rpc[c] \in healthy THEN Leave(c, "returned")
       ELSE Goto(c, "loop") /\ UNCHANGED tried
    /\ UNCHANGED <<rpcURLs, healthy, recent, want, numTries, rpc>>

\* Mutant: the loop leaves the last URL out.
Fail_OneShort(c) ==
    /\ pc[c] = "loop" /\ numTries[c] >= Len(rpcURLs) - 1
    /\ Leave(c, "failed")
    /\ UNCHANGED <<rpcURLs, healthy, recent, want, numTries, rpc>>

\* throw new Error("No healthy RPCs")
Fail(c) ==
    /\ pc[c] = "loop" /\ numTries[c] >= Len(rpcURLs)
    /\ Leave(c, "failed")
    /\ UNCHANGED <<rpcURLs, healthy, recent, want, numTries, rpc>>

\* CHECK_INTERVAL_MS has passed since u was probed.
Expire(u) ==
    /\ u \in recent
    /\ recent' = recent \ {u}
    /\ UNCHANGED <<rpcURLs, healthy, pc, want, numTries, rpc, tried>>

Step(c) == Take(c) \/ Probe(c) \/ Test(c) \/ Fail(c)

Next ==
    \/ \E c \in Callers : Call(c) \/ Step(c)
    \/ \E u \in URLs : Expire(u)

Spec == Init /\ [][Next]_vars

\* A call that is under way goes on: a probe ends within NETWORK_READY_MS.
FairSpec == Spec /\ \A c \in Callers : WF_vars(Step(c))

-----------------------------------------------------------------------------
TypeOK ==
    /\ rpcURLs \in Seq(URLs)
    /\ healthy \subseteq URLs
    /\ recent \subseteq URLs
    /\ pc \in [Callers -> {"idle", "loop", "probe", "test", "returned", "failed"}]
    /\ want \in [Callers -> BOOLEAN]
    /\ numTries \in [Callers -> Nat]
    /\ rpc \in [Callers -> URLs]
    /\ tried \in [Callers -> SUBSET URLs]

(* No URL is ever lost or duplicated, however many calls pop the shared     *)
(* queue and rebuild it around their await: each is either in the queue, at *)
(* one place, or in the hand of one caller that is probing it.              *)
Conserved ==
    /\ \A i, j \in 1..Len(rpcURLs) : rpcURLs[i] = rpcURLs[j] => i = j
    /\ \A c, d \in Holders : rpc[c] = rpc[d] => c = d
    /\ \A u \in URLs : (\E i \in 1..Len(rpcURLs) : rpcURLs[i] = u)
                        # (\E c \in Holders : rpc[c] = u)

(* "No healthy RPCs" is thrown only after every URL was tried, by this call  *)
(* or by one beside it: the loop counts against the length of a queue that  *)
(* the others shorten and rotate, and a call may take one URL twice and     *)
(* another never, but then another call took that one since this one began, *)
(* or had it in hand.                                                       *)
FailsAfterAll ==
    [][\A c \in Callers : pc[c] = "loop" /\ pc'[c] = "failed" => tried[c] = URLs]_vars

(* Every call comes to an end, though the length its loop is compared with  *)
(* changes with the calls of others.                                        *)
CallsEnd == \A c \in Callers : (pc[c] = "loop") ~> (pc[c] \in {"returned", "failed"})
=============================================================================
