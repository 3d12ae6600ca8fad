------------------------- MODULE ExchangeInfoCache -------------------------
(***************************************************************************)
(* The API's exchange info: a copy of the perpetuals' numbers in redis,    *)
(* pulled through the SDK when it is old or missing, and patched by the    *)
(* event handlers in between.                                              *)
(*                                                                         *)
(* SDKInterface has one redis connection: commands take effect in the      *)
(* order in which they are issued and their replies arrive in that order.  *)
(* A command therefore takes effect in the step that issues it, with what  *)
(* it read put into replies; the code after its await runs when the entry  *)
(* reaches the head of that queue.                                         *)
(*                                                                         *)
(* One turn of the event loop handles one or several replies, or one other *)
(* event, and ends with the calls whose await is over at once; the calls   *)
(* that one promise wakes go on one after the other in the same turn.  A   *)
(* turn takes no time.                                                     *)
(*                                                                         *)
(* The numbers of a perpetual are one version, raised by each event on     *)
(* chain; version 0 means that the perpetual does not exist.               *)
(***************************************************************************)
EXTENDS Integers, Sequences, FiniteSets

CONSTANTS
    Perps,       \* perpetuals deployed at some time
    Deployed,    \* perpetuals deployed at the beginning
    Clients,     \* HTTP and websocket clients
    MaxVersion   \* bound: versions of a perpetual's numbers

ASSUME CacheAssumption ==
    /\ Deployed \subseteq Perps /\ Deployed # {}
    /\ "boot" \notin Clients
    /\ MaxVersion \in Nat \ {0}

VARIABLES
    chain,       \* current version of each perpetual
    proxy,       \* perpetuals the SDK's proxy instance knows
    known,       \* perpetuals of isPredictionMkt; empty until the listener is initialized
    content,     \* redis: field "content"; Missing if there is none
    query,       \* redis: field "ts:query": "never", "recent" or "old"
    mutex,       \* MUTEX_TS_EXCHANGE_INFO is less than a minute ago
    cooldown,    \* lastInitTs is less than five minutes ago
    renewing,    \* refreshProxyInflight is set
    job,         \* cacheExchangeInfoInflight: where it stands and what the SDK returned
    req,         \* exchangeInfo calls: where each stands, its delay > 60_000, and
                 \* timeElapsedS > TIMEOUTSEC once the renewal it awaits is over
    replies      \* commands whose reply has not been handled, in order

vars == <<chain, proxy, known, content, query, mutex, cooldown, renewing, job, req, replies>>

Callers == Clients \cup {"boot"}        \* "boot" is priceInterfaceInitialize
Missing == [p \in Perps |-> 0]
Listed(info) == {p \in Perps : info[p] > 0}
NoJob == [at |-> "idle", snap |-> Missing]
NoReq == [at |-> "idle", late |-> FALSE, due |-> FALSE]

\* Calls that have been woken, and calls that will be in this turn.
Resuming == \E c \in Callers : req[c].at = "resume"
BetweenTurns == ~Resuming /\ \A c \in Callers : req[c].at # "cool"

Init ==
    /\ chain = [p \in Perps |-> IF p \in Deployed THEN 1 ELSE 0]
    /\ proxy = {} /\ known = {}
    /\ content = Missing /\ query = "never"
    /\ mutex = FALSE /\ cooldown = FALSE /\ renewing = FALSE
    /\ job = NoJob /\ req = [c \in Callers |-> NoReq] /\ replies = <<>>

\* A request's hGetAll, an event handler's, and a command of the pull.
AskEntry(c, info, q) == [kind |-> "request", client |-> c, seen |-> info, query |-> q]
EventEntry(p, v) == [kind |-> "event", perp |-> p, version |-> v, seen |-> content]
JobEntry == [kind |-> "job"]

-----------------------------------------------------------------------------
(* Start of the service.                                                   *)

\* SDKInterface.initialize drops the old copy; the first request follows.
\* The same again when that request failed.
Initialize ==
    /\ known = {} /\ req["boot"].at = "idle"
    /\ proxy' = Listed(chain) /\ cooldown' = TRUE
    /\ content' = Missing /\ query' = "never"
    /\ req' = [req EXCEPT !["boot"] = [NoReq EXCEPT !.at = "read"]]
    /\ replies' = Append(replies, AskEntry("boot", Missing, "never"))
    /\ UNCHANGED <<chain, known, mutex, renewing, job>>

-----------------------------------------------------------------------------
(* cacheExchangeInfo: one pull at a time.                                  *)

\* A call joins the pull in flight or stamps "ts:query" and starts one.
StartPull(queue) ==
    IF job.at # "idle" THEN UNCHANGED <<job, query>> /\ replies' = queue
    ELSE /\ query' = "recent" /\ job' = [NoJob EXCEPT !.at = "stamp"]
         /\ replies' = Append(queue, JobEntry)

\* The pull has ended: the calls that awaited it return, the first of them
\* to the initialization of the event listener.
PullEnds(info) ==
    /\ job' = NoJob
    /\ req' = [c \in Callers |-> IF req[c].at = "first" THEN NoReq ELSE req[c]]
    /\ known' = IF req["boot"].at = "first" THEN Listed(info) ELSE known

\* The SDK returns what the perpetuals known to its proxy instance are now;
\* RedisOI.getMax24h follows for each of them.
PullReads ==
    /\ BetweenTurns /\ job.at = "sdk"
    /\ job' = [at |-> "oi", snap |-> [p \in Perps |-> IF p \in proxy THEN chain[p] ELSE 0]]
    /\ replies' = Append(replies, JobEntry)
    /\ UNCHANGED <<chain, proxy, known, content, query, mutex, cooldown, renewing, req>>

\* Mutant: the promise of a failed pull is never cleared.
PullFails_Uncleared ==
    /\ BetweenTurns /\ job.at = "sdk"
    /\ job' = [at |-> "failed", snap |-> content]
    /\ UNCHANGED <<chain, proxy, known, content, query, mutex, cooldown, renewing, req, replies>>

\* Mutant: a failed pull stores what it got.
PullFails_Store ==
    /\ BetweenTurns /\ job.at = "sdk"
    /\ job' = [at |-> "prev", snap |-> content]
    /\ content' = Missing
    /\ replies' = Append(replies, JobEntry)
    /\ UNCHANGED <<chain, proxy, known, query, mutex, cooldown, renewing, req>>

\* The SDK fails: the content stays, and the awaiting calls get it.
PullFails ==
    /\ BetweenTurns /\ job.at = "sdk"
    /\ job' = [at |-> "prev", snap |-> content]
    /\ replies' = Append(replies, JobEntry)
    /\ UNCHANGED <<chain, proxy, known, content, query, mutex, cooldown, renewing, req>>

\* A reply to the pull: it goes on with its next command, or ends.
PullReply ==
    /\ ~Resuming /\ replies # <<>> /\ Head(replies).kind = "job"
    /\ \/ /\ job.at = "stamp" /\ job' = [job EXCEPT !.at = "sdk"]
          /\ replies' = Tail(replies)
          /\ UNCHANGED <<content, known, req>>
       \/ /\ job.at = "oi" /\ job' = [job EXCEPT !.at = "store"]
          /\ content' = job.snap
          /\ replies' = Append(Tail(replies), JobEntry)
          /\ UNCHANGED <<known, req>>
       \/ /\ job.at \in {"store", "prev"} /\ PullEnds(job.snap)
          /\ replies' = Tail(replies)
          /\ UNCHANGED content
    /\ UNCHANGED <<chain, proxy, query, mutex, cooldown, renewing>>

-----------------------------------------------------------------------------
(* exchangeInfo.                                                           *)

Ask(c) ==
    /\ BetweenTurns /\ known # {} /\ req[c].at = "idle"
    /\ req' = [req EXCEPT ![c] = [NoReq EXCEPT !.at = "read"]]
    /\ replies' = Append(replies, AskEntry(c, content, query))
    /\ UNCHANGED <<chain, proxy, known, content, query, mutex, cooldown, renewing, job>>

\* The call that the reply at the head of the queue is for.
Answered(c) ==
    /\ ~Resuming /\ replies # <<>>
    /\ Head(replies).kind = "request" /\ Head(replies).client = c

\* Mutant: lastInitTs is set when the renewal starts.
AskReply_StampEarly(c) ==
    /\ Answered(c)
    /\ LET r == Head(replies) IN
       \/ /\ r.query = "never" \/ r.seen = Missing
          /\ req' = [req EXCEPT ![c].at = "first"]
          /\ StartPull(Tail(replies))
          /\ UNCHANGED <<mutex, cooldown, renewing>>
       \/ /\ r.query # "never" /\ r.seen # Missing
          /\ req' = [req EXCEPT ![c] =
                [at |-> IF cooldown THEN "cool" ELSE "proxy", late |-> ~mutex,
                 due |-> ~cooldown \/ r.query = "old"]]
          /\ renewing' = (renewing \/ ~cooldown) /\ cooldown' = TRUE
          /\ replies' = Tail(replies)
          /\ UNCHANGED <<mutex, job, query>>
    /\ UNCHANGED <<chain, proxy, known, content>>

\* The reply to the hGetAll.  Without content the pull is awaited; otherwise
\* the call looks at the clock, and then awaits refreshProxyInstance, which
\* skips the renewal, starts it or joins it.
AskReply(c) ==
    /\ Answered(c)
    /\ LET r == Head(replies) IN
       \/ /\ r.query = "never" \/ r.seen = Missing
          /\ req' = [req EXCEPT ![c].at = "first"]
          /\ StartPull(Tail(replies))
          /\ UNCHANGED <<mutex, renewing>>
       \/ /\ r.query # "never" /\ r.seen # Missing
          /\ req' = [req EXCEPT ![c] =
                [at |-> IF cooldown THEN "cool" ELSE "proxy", late |-> ~mutex,
                 due |-> ~cooldown \/ r.query = "old"]]
          /\ renewing' = (renewing \/ ~cooldown) /\ replies' = Tail(replies)
          /\ UNCHANGED <<mutex, job, query>>
    /\ UNCHANGED <<chain, proxy, known, content, cooldown>>

Wake(stage) ==
    req' = [c \in Callers |->
                IF req[c].at = stage THEN [req[c] EXCEPT !.at = "resume"] ELSE req[c]]

\* The promise of a skipped renewal is over at once.
RenewalSkipped ==
    /\ ~Resuming /\ \E c \in Callers : req[c].at = "cool"
    /\ Wake("cool")
    /\ UNCHANGED <<chain, proxy, known, content, query, mutex, cooldown, renewing, job, replies>>

\* createProxyInstance ends, and wakes the waiting calls.
ProxyRenewed ==
    /\ BetweenTurns /\ renewing /\ renewing' = FALSE
    /\ proxy' = Listed(chain) /\ cooldown' = TRUE
    /\ Wake("proxy")
    /\ UNCHANGED <<chain, known, content, query, mutex, job, replies>>

\* createProxyInstance throws, and with it the waiting calls.
ProxyFails ==
    /\ BetweenTurns /\ renewing /\ renewing' = FALSE
    /\ req' = [c \in Callers |-> IF req[c].at = "proxy" THEN NoReq ELSE req[c]]
    /\ UNCHANGED <<chain, proxy, known, content, query, mutex, cooldown, job, replies>>

\* Mutant: the last refresh must be recent.
Resume_Inverted(c) ==
    /\ req[c].at = "resume" /\ req' = [req EXCEPT ![c] = NoReq]
    /\ IF ~req[c].late /\ req[c].due THEN mutex' = TRUE /\ StartPull(replies)
       ELSE UNCHANGED <<mutex, job, query, replies>>
    /\ UNCHANGED <<chain, proxy, known, content, cooldown, renewing>>

\* A woken call sets the mutex and refreshes, going by the look it had before
\* the await.  The content is returned as it was read; the pull is not awaited.
Resume(c) ==
    /\ req[c].at = "resume" /\ req' = [req EXCEPT ![c] = NoReq]
    /\ IF req[c].late /\ req[c].due THEN mutex' = TRUE /\ StartPull(replies)
       ELSE UNCHANGED <<mutex, job, query, replies>>
    /\ UNCHANGED <<chain, proxy, known, content, cooldown, renewing>>

-----------------------------------------------------------------------------
(* Events.                                                                 *)

\* A perpetual is deployed, or its numbers change with an event that the
\* service does not get or drops: not initialized yet, taken for a duplicate,
\* no index price yet.
Unheard(p) ==
    /\ chain[p] < MaxVersion
    /\ chain' = [chain EXCEPT ![p] = @ + 1]
    /\ UNCHANGED <<proxy, known, content, query, mutex, cooldown, renewing, job, req, replies>>

\* onUpdateMarkPrice calls updateExchangeInfoNumbersOfPerpetual.
Event(p) ==
    /\ BetweenTurns /\ p \in known /\ chain[p] < MaxVersion
    /\ chain' = [chain EXCEPT ![p] = @ + 1]
    /\ replies' = Append(replies, EventEntry(p, chain'[p]))
    /\ UNCHANGED <<proxy, known, content, query, mutex, cooldown, renewing, job, req>>

\* An event of a perpetual missing from isPredictionMkt: process.exit(1).
UnknownPerp(p) ==
    /\ BetweenTurns /\ known # {} /\ p \notin known /\ chain[p] < MaxVersion
    /\ chain' = [chain EXCEPT ![p] = @ + 1]
    /\ proxy' = {} /\ known' = {}
    /\ mutex' = FALSE /\ cooldown' = FALSE /\ renewing' = FALSE
    /\ job' = NoJob /\ req' = [c \in Callers |-> NoReq] /\ replies' = <<>>
    /\ UNCHANGED <<content, query>>

\* The whole content is written back as it was read, but for this perpetual.
EventReply ==
    /\ ~Resuming /\ replies # <<>> /\ Head(replies).kind = "event"
    /\ LET h == Head(replies)
       IN  content' = IF h.seen[h.perp] = 0 THEN content
                      ELSE [h.seen EXCEPT ![h.perp] = h.version]
    /\ replies' = Tail(replies)
    /\ UNCHANGED <<chain, proxy, known, query, mutex, cooldown, renewing, job, req>>

-----------------------------------------------------------------------------
(* Time.                                                                   *)

QueryAges ==
    /\ BetweenTurns /\ query = "recent" /\ query' = "old"
    /\ UNCHANGED <<chain, proxy, known, content, mutex, cooldown, renewing, job, req, replies>>

MutexAges ==
    /\ BetweenTurns /\ mutex /\ mutex' = FALSE
    /\ UNCHANGED <<chain, proxy, known, content, query, cooldown, renewing, job, req, replies>>

CooldownEnds ==
    /\ BetweenTurns /\ cooldown /\ cooldown' = FALSE
    /\ UNCHANGED <<chain, proxy, known, content, query, mutex, renewing, job, req, replies>>

-----------------------------------------------------------------------------
Reply == PullReply \/ EventReply \/ \E c \in Callers : AskReply(c)

Next ==
    \/ Initialize \/ Reply \/ PullReads \/ PullFails
    \/ \E c \in Clients : Ask(c)
    \/ RenewalSkipped \/ ProxyRenewed \/ ProxyFails
    \/ \E c \in Callers : Resume(c)
    \/ \E p \in Perps : Unheard(p) \/ Event(p) \/ UnknownPerp(p)
    \/ QueryAges \/ MutexAges \/ CooldownEnds

Spec == Init /\ [][Next]_vars

\* Time passes, although not within a turn, replies arrive, clients keep
\* asking, and the RPC works now and then; nothing forces events.
FairSpec ==
    /\ Spec
    /\ WF_vars(Initialize) /\ WF_vars(Reply)
    /\ WF_vars(RenewalSkipped \/ \E c \in Callers : Resume(c))
    /\ WF_vars(\E c \in Clients : Ask(c))
    /\ SF_vars(PullReads) /\ SF_vars(ProxyRenewed)
    /\ SF_vars(QueryAges) /\ SF_vars(MutexAges) /\ SF_vars(CooldownEnds)

-----------------------------------------------------------------------------
Infos == [Perps -> 0..MaxVersion]
Stamps == {"never", "recent", "old"}
Reqs ==
    [at : {"idle", "read", "cool", "proxy", "resume", "first"}, late : BOOLEAN, due : BOOLEAN]
Entries ==
    [kind : {"request"}, client : Callers, seen : Infos, query : Stamps]
        \cup [kind : {"event"}, perp : Perps, version : 0..MaxVersion, seen : Infos]
        \cup [kind : {"job"}]

TypeOK ==
    /\ chain \in Infos /\ proxy \subseteq Perps /\ known \subseteq Perps
    /\ content \in Infos /\ query \in Stamps
    /\ mutex \in BOOLEAN /\ cooldown \in BOOLEAN /\ renewing \in BOOLEAN
    /\ job \in [at : {"idle", "stamp", "sdk", "oi", "store", "prev"}, snap : Infos]
    /\ req \in [Callers -> Reqs]
    /\ replies \in Seq(Entries)

(* updateExchangeInfoNumbersOfPerpetual parses what it read without looking *)
(* whether there is any: a handler never finds the copy missing, in spite   *)
(* of the deletion at the start and of pulls that fail, nor a copy that     *)
(* lists less than the perpetuals whose events are handled.                 *)
HandlersFindContent ==
    \A i \in 1..Len(replies) :
        replies[i].kind = "event" => known \subseteq Listed(replies[i].seen)

(* "prevent multiple clients calling at the same time via MUTEX": the calls *)
(* that one promise wakes go by a look at the clock from before the await,  *)
(* and several of them may set the mutex.  That happens only within their   *)
(* turn, where the pull of the call that set it first is in flight: a late  *)
(* call joins a pull, it does not start a second one.                       *)
LateCallsJoin ==
    \A c \in Callers : req[c].late /\ mutex => req[c].at = "resume" /\ job.at # "idle"

(* "we don't update the timestamp ts:query, so that all information will    *)
(* still be pulled at some time": whatever the handlers overwrite, and also *)
(* for perpetuals deployed later, once events stop the content becomes and  *)
(* stays what is on chain.                                                  *)
Converges == <>[][FALSE]_chain => <>[](content = chain)
=============================================================================
