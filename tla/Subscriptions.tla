--------------------------- MODULE Subscriptions ---------------------------
(***************************************************************************)
(* The API's EventListener: which websocket client follows which perpetual *)
(* for which trader, and the order-book event handlers this keeps on the   *)
(* blockchain websocket, which is replaced whenever it looks dead.         *)
(*                                                                         *)
(* Handlers of an order book live on the provider that was current when    *)
(* they were added.  orderBookContracts only refers to the latest contract *)
(* of a symbol: handlers of an earlier one on the same provider stay, and  *)
(* nothing can remove them any more (stray).                               *)
(***************************************************************************)
EXTENDS Integers

CONSTANTS
    Clients,    \* websocket connections; a client that reconnects is a new one
    Perps,      \* perpetuals, each with its symbol
    Traders,    \* trader addresses
    MaxResets,  \* bound: calls of resetRPCWebsocket
    MaxFaults   \* bound: handler registrations that throw

ASSUME SubscriptionAssumption == MaxResets \in Nat /\ MaxFaults \in Nat

VARIABLES
    conn,           \* "open" or "closed", per client
    pending,        \* subscribe messages awaiting the perpetual's state
    clients,        \* the clients map's keys
    subs,           \* ... and its values: <<perp, trader>> pairs per client
    open,           \* the subscriptions map's keys
    subscriptions,  \* ... and its content: <<perp, trader, client>>
    symbols,        \* the keys of orderBookContracts
    attached,       \* perpetuals whose latest contract listens on the current provider
    stray,          \* number of unreachable handler sets on the current provider
    phase,          \* rpcResetting: "idle", "connecting" or "creating"
    alive,          \* the current provider has not been destroyed after an error
    ready,          \* the last reset ran to its end: the provider has its handlers
    resets, faults  \* counters for the bounds

vars == <<conn, pending, clients, subs, open, subscriptions, symbols,
          attached, stray, phase, alive, ready, resets, faults>>

wsVars == <<conn, pending>>
mapVars == <<clients, subs, open, subscriptions>>
bookVars == <<symbols, attached, stray>>
resetVars == <<phase, alive, ready, resets>>

Init ==
    /\ conn = [c \in Clients |-> "open"] /\ pending = {}
    /\ clients = {} /\ subs = [c \in Clients |-> {}]
    /\ open = {} /\ subscriptions = {}
    /\ symbols = {} /\ attached = {} /\ stray = [p \in Perps |-> 0]
    /\ phase = "idle" /\ alive = FALSE /\ ready = FALSE
    /\ resets = 0 /\ faults = 0

-----------------------------------------------------------------------------
(* Order-book handlers.                                                    *)

\* Mutant: the contract is not kept in orderBookContracts.
AddHandlers_Unkept(ps) ==
    /\ attached' = attached \cup ps
    /\ UNCHANGED <<symbols, stray>>

\* addOrderBookEventHandlers for each symbol of ps: the contract's reference
\* is replaced; handlers of the one it referred to become stray.
AddHandlers(ps) ==
    /\ symbols' = symbols \cup ps
    /\ attached' = attached \cup ps
    /\ stray' = [p \in Perps |-> IF p \in ps \cap attached THEN stray[p] + 1 ELSE stray[p]]

\* removeOrderBookEventHandlers: the contract is kept in orderBookContracts.
RemoveHandlers(ps) ==
    /\ attached' = attached \ ps
    /\ UNCHANGED <<symbols, stray>>

-----------------------------------------------------------------------------
(* Websocket clients.                                                      *)

\* A subscribe message: its handler awaits the perpetual's state first.
Message(c, p, t) ==
    /\ conn[c] = "open"
    /\ <<c, p, t>> \notin pending
    /\ pending' = pending \cup {<<c, p, t>>}
    /\ UNCHANGED <<conn, mapVars, bookVars, resetVars, faults>>

\* The state is there: subscribe, unless the client has this subscription.
\* Its maps are filled around the registration of the handlers, which may throw.
Subscribe(c, p, t) ==
    /\ <<c, p, t>> \in pending
    /\ pending' = pending \ {<<c, p, t>>}
    /\ clients' = clients \cup {c}
    /\ subs' = [subs EXCEPT ![c] = @ \cup {<<p, t>>}]
    /\ \/ /\ <<p, t>> \in subs[c]
          /\ UNCHANGED <<open, subscriptions, bookVars, faults>>
       \/ /\ <<p, t>> \notin subs[c] /\ p \in open
          /\ subscriptions' = subscriptions \cup {<<p, t, c>>}
          /\ UNCHANGED <<open, bookVars, faults>>
       \/ /\ <<p, t>> \notin subs[c] /\ p \notin open
          /\ open' = open \cup {p}
          /\ \/ /\ AddHandlers({p})
                /\ subscriptions' = subscriptions \cup {<<p, t, c>>}
                /\ UNCHANGED faults
             \/ /\ faults < MaxFaults /\ faults' = faults + 1
                /\ UNCHANGED <<subscriptions, bookVars>>
    /\ UNCHANGED <<conn, resetVars>>

\* extractPerpetualStateFromExchangeInfo throws: unknown symbol.
Refuse(c, p, t) ==
    /\ <<c, p, t>> \in pending
    /\ pending' = pending \ {<<c, p, t>>}
    /\ UNCHANGED <<conn, mapVars, bookVars, resetVars, faults>>

\* Mutant: the client is not taken out of the traders' lists.
Forget_KeepEntry(c) ==
    IF c \in clients
    THEN /\ clients' = clients \ {c}
         /\ subs' = [subs EXCEPT ![c] = {}]
         /\ UNCHANGED <<open, subscriptions, bookVars>>
    ELSE UNCHANGED <<mapVars, bookVars>>

\* Mutant: perpetuals are released though other clients follow them.
Forget_Others(c) ==
    LET released == {p \in open : \E t \in Traders : <<p, t>> \in subs[c]}
    IN  IF c \in clients
        THEN /\ subscriptions' = {s \in subscriptions : s[3] # c /\ s[1] \notin released}
             /\ open' = open \ released
             /\ RemoveHandlers(released)
             /\ clients' = clients \ {c}
             /\ subs' = [subs EXCEPT ![c] = {}]
        ELSE UNCHANGED <<mapVars, bookVars>>

\* unsubscribe: drop the client from each of its perpetuals; a perpetual
\* without traders is released with its handlers.
Forget(c) ==
    LET rest == {s \in subscriptions : s[3] # c}
        released == {p \in open : (\E t \in Traders : <<p, t>> \in subs[c])
                                  /\ ~\E s \in rest : s[1] = p}
    IN  IF c \in clients
        THEN /\ subscriptions' = rest
             /\ open' = open \ released
             /\ RemoveHandlers(released)
             /\ clients' = clients \ {c}
             /\ subs' = [subs EXCEPT ![c] = {}]
        ELSE UNCHANGED <<mapVars, bookVars>>

Unsubscribe(c) ==
    /\ conn[c] = "open" /\ Forget(c)
    /\ UNCHANGED <<conn, pending, resetVars, faults>>

Close(c) ==
    /\ conn[c] = "open" /\ Forget(c)
    /\ conn' = [conn EXCEPT ![c] = "closed"]
    /\ UNCHANGED <<pending, resetVars, faults>>

-----------------------------------------------------------------------------
(* resetRPCWebsocket.                                                      *)

\* Mutant: the old provider is kept.
ResetStart_Keep ==
    /\ phase = "idle" /\ resets < MaxResets
    /\ phase' = "connecting" /\ alive' = TRUE /\ ready' = FALSE
    /\ resets' = resets + 1
    /\ UNCHANGED <<wsVars, mapVars, bookVars, faults>>

\* The old provider is destroyed, with every handler on it, and a new one
\* becomes current before it is connected.
ResetStart ==
    /\ phase = "idle" /\ resets < MaxResets
    /\ phase' = "connecting" /\ alive' = TRUE /\ ready' = FALSE
    /\ resets' = resets + 1
    /\ attached' = {} /\ stray' = [p \in Perps |-> 0]
    /\ UNCHANGED <<wsVars, mapVars, symbols, faults>>

Connected ==
    /\ phase = "connecting" /\ alive /\ phase' = "creating"
    /\ UNCHANGED <<wsVars, mapVars, bookVars, alive, ready, resets, faults>>

\* "provider ready wait timeout", or createProxyInstance throws.
ResetFails ==
    /\ phase # "idle" /\ phase' = "idle"
    /\ UNCHANGED <<wsVars, mapVars, bookVars, alive, ready, resets, faults>>

\* Mutant: only the proxy handlers are renewed.
ResetDone_ProxyOnly ==
    /\ phase = "creating" /\ phase' = "idle" /\ ready' = TRUE
    /\ UNCHANGED <<wsVars, mapVars, bookVars, alive, resets, faults>>

\* Proxy handlers, and those of every symbol ever subscribed to; a symbol
\* whose registration throws is skipped.
ResetDone ==
    /\ phase = "creating" /\ phase' = "idle" /\ ready' = TRUE
    /\ \E failed \in SUBSET symbols :
          /\ \/ failed = {} /\ UNCHANGED faults
             \/ failed # {} /\ faults < MaxFaults /\ faults' = faults + 1
          /\ AddHandlers(symbols \ failed)
    /\ UNCHANGED <<wsVars, mapVars, alive, resets>>

\* The provider reports an error and is destroyed; the next reset replaces it.
ProviderDies ==
    /\ alive /\ alive' = FALSE
    /\ attached' = {} /\ stray' = [p \in Perps |-> 0]
    /\ UNCHANGED <<wsVars, mapVars, symbols, phase, ready, resets, faults>>

-----------------------------------------------------------------------------
Next ==
    \/ \E c \in Clients, p \in Perps, t \in Traders :
          Message(c, p, t) \/ Subscribe(c, p, t) \/ Refuse(c, p, t)
    \/ \E c \in Clients : Unsubscribe(c) \/ Close(c)
    \/ ResetStart \/ Connected \/ ResetFails \/ ResetDone \/ ProviderDies

Spec == Init /\ [][Next]_vars

-----------------------------------------------------------------------------
TypeOK ==
    /\ conn \in [Clients -> {"open", "closed"}]
    /\ pending \subseteq Clients \X Perps \X Traders
    /\ clients \subseteq Clients
    /\ subs \in [Clients -> SUBSET (Perps \X Traders)]
    /\ open \subseteq Perps
    /\ subscriptions \subseteq Perps \X Traders \X Clients
    /\ symbols \subseteq Perps
    /\ attached \subseteq symbols
    /\ stray \in [Perps -> Nat]
    /\ phase \in {"idle", "connecting", "creating"}
    /\ alive \in BOOLEAN /\ ready \in BOOLEAN
    /\ resets \in 0..MaxResets /\ faults \in 0..MaxFaults

(* The two maps that subscribe and unsubscribe keep in step agree: events   *)
(* go only to clients that asked for them and are still known, and each map *)
(* entry has a perpetual that is open.                                      *)
IndexSound ==
    \A s \in subscriptions :
        /\ s[3] \in clients /\ <<s[1], s[2]>> \in subs[s[3]]
        /\ s[1] \in open

(* ... and, as long as no registration of handlers throws between the two   *)
(* updates, every subscription a client holds is served, so no client waits *)
(* for events that are sent to nobody.                                      *)
IndexComplete ==
    faults = 0 =>
        /\ \A c \in Clients : \A x \in subs[c] : <<x[1], x[2], c>> \in subscriptions
        /\ \A p \in open : \E s \in subscriptions : s[1] = p

(* After a reset that ran to its end, whatever was subscribed before,       *)
(* during or after it, each perpetual with a subscriber has handlers on the *)
(* provider that is current now.                                            *)
SubscribersHeard ==
    ready /\ alive /\ phase = "idle" /\ faults = 0 =>
        \A s \in subscriptions : s[1] \in attached

(* Handlers of one order book may pile up on a provider, but there is never *)
(* more than one set that nothing can remove, so that an event is delivered *)
(* at most twice.                                                           *)
AtMostOneStray == \A p \in Perps : stray[p] <= 1
=============================================================================
