--------------------------- MODULE EventHeartbeat ---------------------------
(***************************************************************************)
(* How the API notices that its blockchain websocket has gone deaf, wholly *)
(* or to one of its two contracts.  The order books tell of posted orders, *)
(* the proxy of trades; market orders are counted on both sides.  The main *)
(* loop's heartbeat replaces the provider when no event came for ten       *)
(* minutes or the two counts differ too much.                              *)
(*                                                                         *)
(* Of Subscriptions only the number of order-book handler sets is kept: an *)
(* order is counted once per set, and there may be one stray set.          *)
(***************************************************************************)
EXTENDS Integers

CONSTANTS
    MinCount,   \* five: below it the counts always match
    MaxOpen,    \* bound: market orders open at a time
    MaxCount    \* bound: counts between two resets of the counters

ASSUME HeartbeatAssumption ==
    MinCount \in Nat \ {0} /\ MaxOpen \in Nat \ {0} /\ MaxCount \in Nat

VARIABLES
    sets,           \* handler sets on an order book: one, or two with a stray one
    hearing,        \* the contracts whose events still arrive
    phase,          \* rpcResetting: "idle" or "resetting"
    open,           \* market orders posted to followed order books, not yet executed
    created,        \* mktOrderFrequency.createdCount
    executed,       \* mktOrderFrequency.executedCount
    quiet,          \* lastBlockChainEventTs is more than ten minutes ago
    countsOld,      \* mktOrderFrequency.lastResetTs is more than ten minutes ago
    skewed          \* history: since the counters were reset, an event was missed,
                    \* counted twice, or has no counterpart

heartbeatVars == <<sets, hearing, phase, open, created, executed, quiet, countsOld, skewed>>

Both == {"book", "proxy"}

\* initialize calls resetRPCWebsocket without awaiting it.
HeartbeatInit ==
    /\ sets \in 1..2 /\ hearing = {} /\ phase = "resetting"
    /\ open = 0 /\ created = 0 /\ executed = 0
    /\ quiet = FALSE /\ countsOld = FALSE /\ skewed = FALSE

-----------------------------------------------------------------------------
(* Events.  Both counts grow before duplicates are filtered.               *)

\* onPerpetualLimitOrderCreated, once per handler set.
HearCreated ==
    /\ "book" \in hearing /\ created + sets <= MaxCount
    /\ created' = created + sets /\ quiet' = FALSE
    /\ UNCHANGED executed

\* onTrade: the proxy has one handler set.
HearTrade ==
    /\ "proxy" \in hearing /\ executed < MaxCount
    /\ executed' = executed + 1 /\ quiet' = FALSE
    /\ UNCHANGED created

Unheard(contract) ==
    /\ contract \notin hearing /\ UNCHANGED <<created, executed, quiet>>

\* A market order in a perpetual somebody follows.
Post ==
    /\ open < MaxOpen /\ open' = open + 1
    /\ \/ HearCreated /\ skewed' = (skewed \/ sets > 1)
       \/ Unheard("book") /\ skewed' = TRUE
    /\ UNCHANGED <<sets, hearing, phase, countsOld>>

\* It is executed ...
Execute ==
    /\ open > 0 /\ open' = open - 1
    /\ \/ HearTrade /\ skewed' = skewed
       \/ Unheard("proxy") /\ skewed' = TRUE
    /\ UNCHANGED <<sets, hearing, phase, countsOld>>

\* ... or its execution fails, which onExecutionFailed does not count.
Reject ==
    /\ open > 0 /\ open' = open - 1
    /\ quiet' = (quiet /\ "book" \notin hearing)
    /\ skewed' = TRUE
    /\ UNCHANGED <<sets, hearing, phase, created, executed, countsOld>>

\* A market order is executed in a perpetual nobody follows: the proxy tells
\* of the trade, and there are no handlers on its order book.
TradeElsewhere ==
    /\ HearTrade /\ skewed' = TRUE
    /\ UNCHANGED <<sets, hearing, phase, open, countsOld>>

\* The provider delivers an event again.
Repeat ==
    /\ HearCreated \/ HearTrade
    /\ skewed' = TRUE
    /\ UNCHANGED <<sets, hearing, phase, open, countsOld>>

\* Any other event: prices, funding, margin accounts, cancelled orders.
Other ==
    /\ hearing # {} /\ quiet' = FALSE
    /\ UNCHANGED <<sets, hearing, phase, open, created, executed, countsOld, skewed>>

\* The provider is destroyed after an error, or stops delivering some events.
Lose ==
    /\ \E h \in SUBSET hearing : h # hearing /\ hearing' = h
    /\ UNCHANGED <<sets, phase, open, created, executed, quiet, countsOld, skewed>>

\* A subscription while the provider is replaced leaves a stray set; it goes
\* with the provider.
Subscribe ==
    /\ sets' \in 1..2
    /\ UNCHANGED <<hearing, phase, open, created, executed, quiet, countsOld, skewed>>

-----------------------------------------------------------------------------
(* The heartbeat.                                                          *)

Distance == IF created > executed THEN created - executed ELSE executed - created
Larger == IF created > executed THEN created ELSE executed

\* Mutant: orders that are not executed are noticed, trades without orders not.
Match_OneSided == Larger < MinCount \/ 2 * (created - executed) < Larger

\* doMarketOrderFrequenciesMatch: the relative deviation is below one half.
Match == Larger < MinCount \/ 2 * Distance < Larger

\* Mutant: only one of the counters is reset.
ResetEventFrequencies_CreatedOnly ==
    /\ created' = 0 /\ countsOld' = FALSE /\ skewed' = (open > 0)
    /\ UNCHANGED executed

ResetEventFrequencies ==
    /\ created' = 0 /\ executed' = 0 /\ countsOld' = FALSE
    /\ skewed' = (open > 0)

\* checkTradeEventListenerHeartbeat.  Enough counts of more than ten minutes
\* are forgotten after they have been compared.  Unless a reset is running,
\* it begins by destroying the provider.
Heartbeat ==
    /\ \/ Larger >= MinCount /\ countsOld /\ ResetEventFrequencies
       \/ ~(Larger >= MinCount /\ countsOld)
          /\ UNCHANGED <<created, executed, countsOld, skewed>>
    /\ \/ /\ phase = "idle" /\ (quiet \/ ~Match)
          /\ phase' = "resetting" /\ hearing' = {}
       \/ /\ ~(phase = "idle" /\ (quiet \/ ~Match))
          /\ UNCHANGED <<phase, hearing>>
    /\ UNCHANGED <<sets, open, quiet>>

\* resetRPCWebsocket has put the handlers on a new provider.
ResetDone ==
    /\ phase = "resetting" /\ phase' = "idle"
    /\ hearing' = Both /\ sets' \in 1..2
    /\ quiet' = FALSE /\ ResetEventFrequencies
    /\ UNCHANGED open

\* It gave up waiting, or createProxyInstance threw.  The new provider may
\* connect later: order books subscribed to since then have handlers on it.
ResetFails ==
    /\ phase = "resetting" /\ phase' = "idle"
    /\ hearing' \in {{}, {"book"}}
    /\ UNCHANGED <<sets, open, created, executed, quiet, countsOld, skewed>>

\* Ten minutes pass.
AgeEvents ==
    /\ ~quiet /\ quiet' = TRUE
    /\ UNCHANGED <<sets, hearing, phase, open, created, executed, countsOld, skewed>>

AgeCounts ==
    /\ ~countsOld /\ countsOld' = TRUE
    /\ UNCHANGED <<sets, hearing, phase, open, created, executed, quiet, skewed>>

-----------------------------------------------------------------------------
HeartbeatNext ==
    \/ Post \/ Execute \/ Reject \/ TradeElsewhere \/ Repeat \/ Other
    \/ Lose \/ Subscribe
    \/ Heartbeat \/ ResetDone \/ ResetFails
    \/ AgeEvents \/ AgeCounts

HeartbeatFairness ==
    /\ WF_heartbeatVars(Heartbeat) /\ WF_heartbeatVars(AgeEvents) /\ WF_heartbeatVars(AgeCounts)
    /\ WF_heartbeatVars(ResetDone \/ ResetFails) /\ SF_heartbeatVars(ResetDone)

HeartbeatSpec == HeartbeatInit /\ [][HeartbeatNext]_heartbeatVars /\ HeartbeatFairness

-----------------------------------------------------------------------------
HeartbeatTypeOK ==
    /\ sets \in 1..2 /\ hearing \subseteq Both
    /\ phase \in {"idle", "resetting"}
    /\ open \in 0..MaxOpen
    /\ created \in 0..MaxCount /\ executed \in 0..MaxCount
    /\ quiet \in BOOLEAN /\ countsOld \in BOOLEAN /\ skewed \in BOOLEAN

(* A connection over which each market order and each trade was heard once *)
(* since the counters were reset is not replaced for its counts, unless at *)
(* least half of the orders wait for their execution.                      *)
AlarmHasCause ==
    [][phase = "idle" /\ phase' = "resetting" /\ ~quiet
         => skewed \/ 2 * open >= created]_heartbeatVars

(* As long as market orders are posted and executed in perpetuals that are  *)
(* followed, the listener hears both contracts again and again: whatever   *)
(* falls silent, wholly or in part, and however often a reset fails, and   *)
(* although counters are forgotten, the difference is noticed.             *)
HeardAgain ==
    SF_heartbeatVars(Post) /\ SF_heartbeatVars(Execute) => []<>(hearing = Both)
=============================================================================
