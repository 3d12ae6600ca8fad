---------------------------- MODULE IndexPrices ----------------------------
(***************************************************************************)
(* The prices the API sends to websocket clients.  A feed service keeps    *)
(* index prices in redis and names the ones that changed in a message; for *)
(* each name the value is fetched, one await per name, and then the prices *)
(* of all perpetuals of these indices are sent.  UpdateMarkPrice events    *)
(* bring new premia, through the filter of duplicates, and send the prices *)
(* of one perpetual.                                                       *)
(*                                                                         *)
(* A price is not computed: it is the index value, the premium and how     *)
(* often the transformation 1+x of prediction markets was applied to it.   *)
(* The mid and mark premium of an event are one number.                    *)
(***************************************************************************)
EXTENDS DuplicateFilter, FiniteSets, SequencesExt

CONSTANTS
    Perps,          \* perpetual ids, in the order of the exchange info
    Later,          \* those deployed while the service runs
    IndexOf,        \* the index of each perpetual
    PredictionMkt,  \* perpetuals whose index is a probability
    Events,         \* small set of UpdateMarkPrice events: [perp, prem, spot]
    StartPremia,    \* small set of premia in the exchange info, per perpetual
    NoPrice,        \* nothing sent yet
    MaxFeed,        \* bound: changes of each index in the feed
    MaxEvents,      \* bound: UpdateMarkPrice events since the start
    MaxFaults       \* bound: failing reads of redis

ASSUME IndexPricesAssumption ==
    /\ Perps \subseteq Nat /\ IsFiniteSet(Perps) /\ Later \subseteq Perps /\ PredictionMkt \subseteq Perps
    /\ Events \subseteq [perp : Perps, prem : Nat, spot : Nat]
    /\ StartPremia \subseteq [Perps -> Nat]
    /\ MaxFeed \in Nat /\ MaxEvents \in Nat /\ MaxFaults \in Nat

Indices == {IndexOf[p] : p \in Perps}

VARIABLES
    feed,           \* redis: the value of each index
    inbox,          \* px_update messages not yet handled: sequences of indices
    fetching,       \* handlers in the order in which they asked redis: the
                    \* indices still to fetch, the value of the first, those fetched
    ready,          \* handlers that have fetched all: the updated indices
    idxPrices,      \* the service's copy of the feed
    premium,        \* midPremium and mrkPremium
    isInitialized,
    ring,           \* the duplicate filter of onUpdateMarkPrice
    told,           \* the last price sent, per perpetual
    known,          \* isPredictionMkt's keys: the perpetuals there were at the start
    passed,         \* history: hashes of the events let through since the start
    faults

vars == <<feed, inbox, fetching, ready, idxPrices, premium, isInitialized,
          ring, told, known, passed, faults>>
feedVars == <<feed, inbox, fetching, ready, idxPrices>>
priceVars == <<premium, isInitialized, ring, told, known, passed>>

\* priceInterfaceInitialize has read the exchange info and the feed.
Init ==
    /\ feed = [i \in Indices |-> 0] /\ idxPrices = feed
    /\ inbox = <<>> /\ fetching = <<>> /\ ready = <<>>
    /\ premium \in StartPremia
    /\ isInitialized = FALSE /\ ring = EmptyRing
    /\ told = [p \in Perps |-> NoPrice] /\ known = Perps \ Later
    /\ passed = <<>> /\ faults = 0

\* The process exits; its successor reads everything again, messages that
\* were on their way are lost, and clients have to connect anew.
Restart ==
    /\ idxPrices' = feed
    /\ inbox' = <<>> /\ fetching' = <<>> /\ ready' = <<>>
    /\ premium' \in StartPremia
    /\ isInitialized' = FALSE /\ ring' = EmptyRing
    /\ told' = [p \in Perps |-> NoPrice] /\ known' = Perps
    /\ passed' = <<>>
    /\ UNCHANGED <<feed, faults>>

\* initialize has read funding rates and open interest.
Initialized ==
    /\ ~isInitialized /\ isInitialized' = TRUE
    /\ UNCHANGED <<feedVars, premium, ring, told, known, passed, faults>>

Price(p, premia, steps) ==
    [index |-> idxPrices[IndexOf[p]], premium |-> premia[p], steps |-> steps]

-----------------------------------------------------------------------------
(* The feed.                                                               *)

\* External: the candles service writes prices and then names them.
Publish ==
    \E changed \in (SUBSET Indices) \ {{}} : \E names \in SetToSeqs(changed) :
        /\ \A i \in changed : feed[i] < MaxFeed
        /\ feed' = [i \in Indices |-> IF i \in changed THEN feed[i] + 1 ELSE feed[i]]
        /\ inbox' = Append(inbox, names)
        /\ UNCHANGED <<fetching, ready, idxPrices, priceVars, faults>>

Fetch(todo, got) == [todo |-> todo, value |-> feed[Head(todo)], got |-> got]

\* _onRedisFeedHandlerMsg asks for the first index.
Message ==
    /\ inbox # <<>> /\ inbox' = Tail(inbox)
    /\ fetching' = Append(fetching, Fetch(Head(inbox), <<>>))
    /\ UNCHANGED <<feed, ready, idxPrices, priceVars, faults>>

\* fetchIndicesFromRedis goes on with the next index, if there is one.
FetchNext(task, got) ==
    IF Len(task.todo) > 1
    THEN /\ fetching' = Append(Tail(fetching), Fetch(Tail(task.todo), got))
         /\ UNCHANGED ready
    ELSE /\ fetching' = Tail(fetching)
         /\ ready' = Append(ready, got)

\* The value of an index arrives.
Fetched ==
    /\ fetching # <<>>
    /\ LET task == Head(fetching)
           i == Head(task.todo)
       IN  /\ idxPrices' = [idxPrices EXCEPT ![i] = task.value]
           /\ FetchNext(task, Append(task.got, i))
    /\ UNCHANGED <<feed, inbox, priceVars, faults>>

\* The read throws, or there is no value: the index is left out.
FetchFails ==
    /\ fetching # <<>> /\ faults < MaxFaults /\ faults' = faults + 1
    /\ FetchNext(Head(fetching), Head(fetching).got)
    /\ UNCHANGED <<feed, inbox, idxPrices, priceVars>>

\* The transformation is applied to a variable that all perpetuals of the
\* index share: the second prediction market gets it twice.
FeedSteps(p) ==
    Cardinality({q \in PredictionMkt \cap known : IndexOf[q] = IndexOf[p] /\ q <= p})

\* Mutant: the other perpetuals of the index are forgotten.
Told_FirstPerp(updated) ==
    [p \in Perps |->
        IF p \in known /\ IndexOf[p] \in updated
           /\ \A q \in known : IndexOf[q] = IndexOf[p] => p <= q
        THEN Price(p, premium, FeedSteps(p)) ELSE told[p]]

\* _updatePricesOnIndexPrice: the perpetuals of the updated indices.
Told(updated) ==
    [p \in Perps |->
        IF p \in known /\ IndexOf[p] \in updated
        THEN Price(p, premium, FeedSteps(p)) ELSE told[p]]

\* Mutant: only the first of the updated indices is sent.
Broadcast_First ==
    /\ ready # <<>> /\ ready' = Tail(ready)
    /\ told' = IF isInitialized
               THEN Told({Head(ready)[k] : k \in DOMAIN Head(ready) \cap {1}})
               ELSE told
    /\ UNCHANGED <<feed, inbox, fetching, idxPrices, premium, isInitialized, ring,
                   known, passed, faults>>

\* updateMarkPrice sends nothing before the listener is initialized.
Broadcast ==
    /\ ready # <<>> /\ ready' = Tail(ready)
    /\ told' = IF isInitialized THEN Told(ToSet(Head(ready))) ELSE told
    /\ UNCHANGED <<feed, inbox, fetching, idxPrices, premium, isInitialized, ring,
                   known, passed, faults>>

-----------------------------------------------------------------------------
(* UpdateMarkPrice.                                                        *)

\* The numbers of an event are added up.
Hash(e) == <<e.prem + e.spot, e.perp>>

EventSteps(p) == IF p \in PredictionMkt THEN 1 ELSE 0

\* onUpdateMarkPrice returns at once before the listener is initialized.
EventTooEarly(e) ==
    /\ ~isInitialized
    /\ UNCHANGED <<feedVars, priceVars, faults>>

\* Mutant: the premium is kept before the event is recognised as a duplicate.
EventDuplicate_PremiumFirst(e) ==
    /\ isInitialized /\ e.perp \in known /\ ~Passes(ring, Hash(e))
    /\ premium' = [premium EXCEPT ![e.perp] = e.prem]
    /\ UNCHANGED <<feedVars, isInitialized, ring, told, known, passed, faults>>

EventDuplicate(e) ==
    /\ isInitialized /\ e.perp \in known /\ ~Passes(ring, Hash(e))
    /\ UNCHANGED <<feedVars, priceVars, faults>>

\* Keep the premium, send the prices and pass them to the exchange-info cache.
EventPasses(e) ==
    /\ isInitialized /\ e.perp \in known /\ Passes(ring, Hash(e))
    /\ ring' = Remember(ring, Hash(e))
    /\ passed' = Append(passed, Hash(e))
    /\ premium' = [premium EXCEPT ![e.perp] = e.prem]
    /\ told' = [told EXCEPT ![e.perp] = Price(e.perp, premium', EventSteps(e.perp))]
    /\ UNCHANGED <<feedVars, isInitialized, known, faults>>

\* A perpetual that was deployed after the start.
EventUnknown(e) == isInitialized /\ e.perp \notin known /\ Restart

UpdateMarkPrice(e) ==
    /\ Len(passed) < MaxEvents
    /\ EventTooEarly(e) \/ EventDuplicate(e) \/ EventPasses(e) \/ EventUnknown(e)

-----------------------------------------------------------------------------
Next ==
    \/ Initialized
    \/ Publish \/ Message \/ Fetched \/ FetchFails \/ Broadcast
    \/ \E e \in Events : UpdateMarkPrice(e)

Fairness == WF_vars(Message) /\ WF_vars(Fetched \/ FetchFails) /\ WF_vars(Broadcast)

Spec == Init /\ [][Next]_vars /\ Fairness

-----------------------------------------------------------------------------
Hashes == {Hash(e) : e \in Events}
Prices == [index : 0..MaxFeed, premium : Nat, steps : 0..Cardinality(Perps)]
Messages == Seq(Indices) \ {<<>>}
Tasks == [todo : Messages, value : 0..MaxFeed, got : Seq(Indices)]

TypeOK ==
    /\ feed \in [Indices -> 0..MaxFeed] /\ idxPrices \in [Indices -> 0..MaxFeed]
    /\ inbox \in Seq(Messages) /\ fetching \in Seq(Tasks)
    /\ ready \in Seq(Seq(Indices))
    /\ premium \in [Perps -> Nat] /\ isInitialized \in BOOLEAN
    /\ ring \in Rings(Hashes) /\ passed \in Seq(Hashes)
    /\ told \in [Perps -> Prices \cup {NoPrice}] /\ known \subseteq Perps
    /\ faults \in 0..MaxFaults

(* The value of index i has reached idxPrices and will be sent.             *)
Outstanding(i) ==
    \/ \E k \in DOMAIN fetching : i \in ToSet(fetching[k].got)
    \/ \E k \in DOMAIN ready : i \in ToSet(ready[k])

(* Whatever order handlers of the feed and of events take turns in, clients *)
(* were last told of each perpetual what follows from the index and premium *)
(* the service has, unless a handler is about to tell them: a price is      *)
(* neither taken back nor forgotten.  It is left open what is sent of an    *)
(* index's second prediction market, where feed and events disagree.        *)
ToldCurrent ==
    \A p \in known :
        told[p] # NoPrice /\ FeedSteps(p) = EventSteps(p) =>
            \/ told[p] = Price(p, premium, EventSteps(p))
            \/ Outstanding(IndexOf[p])

(* An event delivered again is not taken for a new one before RingSize     *)
(* others have been let through.                                           *)
PassedOnce ==
    \A j \in DOMAIN passed : \A i \in 1..(j - 1) :
        passed[i] = passed[j] => j - i > RingSize

(* Once the feed is quiet, clients have its value of each index they were  *)
(* ever told about, if no read failed: not one of two messages whose reads  *)
(* overlapped is lost.                                                     *)
FeedReaches ==
    <>[](faults = 0 =>
           \A p \in known : told[p] # NoPrice => told[p].index = feed[IndexOf[p]])
=============================================================================
