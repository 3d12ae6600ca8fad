------------------------ MODULE ExchangeInfoProofs ------------------------
(***************************************************************************)
(* For any perpetuals, clients and number of versions: types, and the two  *)
(* invariants of the exchange-info cache.                                  *)
(*                                                                         *)
(* LateCallsJoin.  Nobody sets the mutex while calls await a renewal: that *)
(* takes a woken call, and calls are woken by a renewal that ended, which  *)
(* wakes them all, or skipped one, which happens only when lastInitTs is   *)
(* recent and nobody awaits a renewal.  Woken calls go on before anything  *)
(* else does, so that the pull of the first of them is still in flight.    *)
(*                                                                         *)
(* HandlersFindContent.  From the end of the initialization on, the        *)
(* perpetuals whose events are handled are known to the SDK's proxy        *)
(* instance, hence in every snapshot of a pull, hence in the content and   *)
(* in every copy of it that a handler is about to write back.  During the  *)
(* initialization nothing but its own pull touches the content.            *)
(***************************************************************************)
EXTENDS ExchangeInfoCache, SequenceTheorems, TLAPS

(* The calls: nobody asks before the initialization is over, the           *)
(* initialization itself never awaits a renewal, and there are never calls *)
(* of two kinds among those that await a renewal, those that were told     *)
(* that none is due, and those that have been woken.                       *)
CallsOK ==
    /\ known = {} => ~renewing /\ \A c \in Clients : req[c].at = "idle"
    /\ req["boot"].at \in {"idle", "read", "first"}
    /\ req["boot"].at # "idle" => known = {}
    /\ \A c \in Callers :
        /\ req[c].at = "proxy" => renewing /\ ~cooldown /\ ~Resuming
        /\ req[c].at = "cool" => cooldown /\ ~Resuming
        /\ req[c].late => req[c].at \in {"cool", "proxy", "resume"}

(* The replies to come: one for each call that reads, a miss for the       *)
(* initialization, and for the handlers copies that list what they need.   *)
EntryOK(e, calls, handled) ==
    /\ e.kind = "request" => /\ calls[e.client].at = "read"
                             /\ e.client = "boot" => e.seen = Missing
    /\ e.kind = "event" => /\ handled # {} /\ handled \subseteq Listed(e.seen)
                           /\ e.version > 0

QueueOK(queue, calls, handled) ==
    /\ \A i \in 1..Len(queue) : EntryOK(queue[i], calls, handled)
    /\ \A i, j \in 1..Len(queue) :
        i # j /\ queue[i].kind = "request" /\ queue[j].kind = "request"
            => queue[i].client # queue[j].client

(* The pull: the initialization starts its own, whose content is the first *)
(* there is; a snapshot lists what the proxy instance knows.               *)
PullOK ==
    /\ known = {} /\ req["boot"].at # "first" => job.at = "idle"
    /\ req["boot"].at # "idle" /\ job.at # "store" => content = Missing
    /\ req["boot"].at = "first" =>
        /\ job.at = "store" => Listed(job.snap) \subseteq Listed(content)
        /\ job.at = "prev" => job.snap = Missing
    /\ job.at = "oi" => known \subseteq Listed(job.snap)
    /\ job.at \in {"oi", "store"} => Listed(job.snap) \subseteq proxy

(* The copies: what is handled is known to the proxy instance and cached.  *)
CopiesOK ==
    /\ proxy \subseteq Listed(chain)
    /\ known \subseteq proxy
    /\ known \subseteq Listed(content)

IInv ==
    /\ TypeOK /\ CallsOK /\ QueueOK(replies, req, known) /\ PullOK /\ CopiesOK
    /\ LateCallsJoin

-----------------------------------------------------------------------------
(* Queues.                                                                 *)

LEMMA Appended ==
    ASSUME NEW q \in Seq(Entries), NEW e \in Entries
    PROVE  /\ Append(q, e) \in Seq(Entries) /\ Len(Append(q, e)) = Len(q) + 1
           /\ Len(q) \in Nat
           /\ Append(q, e)[Len(q) + 1] = e
           /\ \A i \in 1..Len(q) : Append(q, e)[i] = q[i]
  BY AppendProperties

LEMMA Taken ==
    ASSUME NEW q \in Seq(Entries), q # <<>>
    PROVE  /\ Head(q) = q[1] /\ Head(q) \in Entries
           /\ Tail(q) \in Seq(Entries) /\ Len(q) \in Nat \ {0}
           /\ Len(Tail(q)) = Len(q) - 1
           /\ \A i \in 1..Len(Tail(q)) : i + 1 \in 1..Len(q) /\ Tail(q)[i] = q[i + 1]
  BY HeadTailProperties, EmptySeq

(* A reply to the pull, or to a handler, is added and taken.               *)
LEMMA QueueAppend ==
    ASSUME NEW q \in Seq(Entries), NEW e \in Entries, NEW calls, NEW handled,
           QueueOK(q, calls, handled), EntryOK(e, calls, handled),
           e.kind = "request" =>
               \A i \in 1..Len(q) : q[i].kind = "request" => q[i].client # e.client
    PROVE  QueueOK(Append(q, e), calls, handled)
  <1> DEFINE longer == Append(q, e)
  <1>1. /\ Len(longer) = Len(q) + 1 /\ Len(q) \in Nat
        /\ longer[Len(q) + 1] = e
        /\ \A i \in 1..Len(q) : longer[i] = q[i]
    BY Appended
  <1> HIDE DEF longer
  <1>2. \A i \in 1..Len(longer) : i = Len(q) + 1 \/ i \in 1..Len(q)
    BY <1>1
  <1>3. \A i \in 1..Len(longer) : EntryOK(longer[i], calls, handled)
    BY <1>1, <1>2 DEF QueueOK
  <1>4. ASSUME NEW i \in 1..Len(longer), NEW j \in 1..Len(longer), i # j,
               longer[i].kind = "request", longer[j].kind = "request"
        PROVE  longer[i].client # longer[j].client
    BY <1>1, <1>2, <1>4 DEF QueueOK
  <1>5. QueueOK(longer, calls, handled)
    BY <1>3, <1>4 DEF QueueOK
  <1> QED
    BY <1>5 DEF longer

LEMMA JobEntryType == JobEntry \in Entries /\ JobEntry.kind = "job"
  BY DEF JobEntry, Entries

LEMMA QueueJob ==
    ASSUME NEW q \in Seq(Entries), NEW calls, NEW handled, QueueOK(q, calls, handled)
    PROVE  /\ Append(q, JobEntry) \in Seq(Entries)
           /\ QueueOK(Append(q, JobEntry), calls, handled)
  BY JobEntryType, QueueAppend, Appended DEF EntryOK

(* What is left after the reply to a call no longer speaks of that call.   *)
LEMMA QueueTail ==
    ASSUME NEW q \in Seq(Entries), NEW calls, NEW handled, QueueOK(q, calls, handled),
           q # <<>>, NEW others,
           \A x \in Callers : \/ Head(q).kind = "request" /\ x = Head(q).client
                              \/ others[x] = calls[x]
    PROVE  Tail(q) \in Seq(Entries) /\ QueueOK(Tail(q), others, handled)
  <1> DEFINE rest == Tail(q)
  <1>1. /\ rest \in Seq(Entries) /\ Len(q) \in Nat \ {0} /\ Head(q) = q[1]
        /\ \A i \in 1..Len(rest) : i + 1 \in 1..Len(q) /\ rest[i] = q[i + 1]
    BY Taken
  <1>2. Len(rest) \in Nat /\ \A i \in 1..Len(rest) : rest[i] \in Entries
    BY <1>1
  <1> HIDE DEF rest
  <1>3. ASSUME NEW i \in 1..Len(rest)
        PROVE  EntryOK(rest[i], others, handled)
    <2>1. EntryOK(q[i + 1], calls, handled)
      BY <1>1 DEF QueueOK
    <2>2. CASE rest[i].kind = "request"
      <3>1. rest[i].client \in Callers
        BY <1>2, <2>2 DEF Entries
      <3>2. Head(q).kind = "request" => rest[i].client # Head(q).client
        BY <1>1, <1>2, <2>2 DEF QueueOK
      <3> QED
        BY <1>1, <2>1, <2>2, <3>1, <3>2 DEF EntryOK
    <2> QED
      BY <1>1, <2>1, <2>2 DEF EntryOK
  <1>4. ASSUME NEW i \in 1..Len(rest), NEW j \in 1..Len(rest), i # j,
               rest[i].kind = "request", rest[j].kind = "request"
        PROVE  rest[i].client # rest[j].client
    BY <1>1, <1>2, <1>4 DEF QueueOK
  <1>5. QueueOK(rest, others, handled)
    BY <1>3, <1>4 DEF QueueOK
  <1> QED
    BY <1>1, <1>5 DEF rest

(* Calls that do not read may change.                                      *)
LEMMA QueueCalls ==
    ASSUME NEW q \in Seq(Entries), NEW calls, NEW handled, QueueOK(q, calls, handled),
           NEW others,
           \A x \in Callers : calls[x].at = "read" => others[x].at = "read"
    PROVE  QueueOK(q, others, handled)
  <1>1. ASSUME NEW i \in 1..Len(q) PROVE EntryOK(q[i], others, handled)
    <2>1. EntryOK(q[i], calls, handled) /\ q[i] \in Entries
      BY DEF QueueOK
    <2>2. q[i].kind = "request" => q[i].client \in Callers
      BY <2>1 DEF Entries
    <2> QED
      BY <2>1, <2>2 DEF EntryOK
  <1> QED
    BY <1>1 DEF QueueOK

(* Without copies under way the handled perpetuals may change.             *)
LEMMA QueueHandled ==
    ASSUME NEW q \in Seq(Entries), NEW calls, QueueOK(q, calls, {}), NEW handled
    PROVE  QueueOK(q, calls, handled)
  BY DEF QueueOK, EntryOK

-----------------------------------------------------------------------------
(* The actions.                                                            *)

LEMMA JobTypes ==
    /\ NoJob.at = "idle" /\ NoReq.at = "idle" /\ ~NoReq.late /\ NoReq \in Reqs
    /\ Missing \in Infos /\ Listed(Missing) = {} /\ {} \subseteq Perps
  BY CacheAssumption DEF NoJob, NoReq, Reqs, Missing, Infos, Listed, CacheAssumption

(* Without woken calls, the mutex is set only if nobody found it unset.    *)
LEMMA MutexUnused ==
    ASSUME IInv, ~Resuming, mutex, NEW c \in Callers
    PROVE  ~req[c].late
  BY DEF IInv, LateCallsJoin, Resuming

(* Where the calls stay as they are, they stay consistent.                 *)
LEMMA CallsKept ==
    ASSUME IInv, UNCHANGED <<known, renewing, req>>,
           cooldown' = cooldown \/ (BetweenTurns /\ cooldown' = FALSE)
    PROVE  CallsOK'
  BY DEF IInv, CallsOK, Resuming, BetweenTurns

LEMMA JoinKept ==
    ASSUME IInv, UNCHANGED req, mutex' = mutex \/ mutex' = FALSE,
           job'.at # "idle" \/ job'.at = job.at \/ ~Resuming
    PROVE  LateCallsJoin'
  BY MutexUnused DEF IInv, LateCallsJoin

LEMMA InitInv == Init => IInv
  <1> SUFFICES ASSUME Init PROVE IInv
    OBVIOUS
  <1> USE JobTypes DEF Init
  <1>1. chain \in Infos
    BY CacheAssumption DEF Infos, CacheAssumption
  <1>2. TypeOK
    <2>1. mutex \in BOOLEAN /\ cooldown \in BOOLEAN /\ renewing \in BOOLEAN
      BY Zenon
    <2> QED
      BY <1>1, <2>1 DEF TypeOK, Stamps, NoJob
  <1>3. CallsOK
    BY DEF CallsOK, Callers, Resuming
  <1>4. QueueOK(replies, req, known)
    BY DEF QueueOK
  <1>5. PullOK /\ CopiesOK /\ LateCallsJoin
    BY DEF PullOK, CopiesOK, LateCallsJoin
  <1> QED
    BY <1>2, <1>3, <1>4, <1>5 DEF IInv

(* Before the initialization there is no pull, and nobody awaits anything. *)
LEMMA InitializeInv == ASSUME IInv, Initialize PROVE IInv'
  <1> DEFINE e == AskEntry("boot", Missing, "never")
  <1> USE JobTypes DEF Initialize
  <1>1. /\ e \in Entries /\ e.kind = "request" /\ e.client = "boot" /\ e.seen = Missing
        /\ "boot" \in Callers
    BY DEF AskEntry, Entries, Callers, Stamps
  <1>2. replies \in Seq(Entries) /\ chain \in Infos /\ Listed(chain) \subseteq Perps
    BY DEF IInv, TypeOK, Listed
  <1> HIDE DEF e
  <1>3. TypeOK'
    <2>1. replies' \in Seq(Entries)
      BY <1>1, <1>2, Appended DEF e
    <2>2. req' \in [Callers -> Reqs]
      BY <1>1 DEF IInv, TypeOK, Reqs
    <2>3. cooldown' \in BOOLEAN
      BY Zenon
    <2> QED
      BY <1>1, <1>2, <2>1, <2>2, <2>3 DEF IInv, TypeOK, Stamps
  <1>4. CallsOK' /\ LateCallsJoin'
    <2>1. \A c \in Callers : ~req[c].late /\ req[c].at = "idle"
      BY DEF IInv, CallsOK, Callers
    <2>2. /\ \A c \in Callers : req'[c].at \in {"idle", "read"} /\ ~req'[c].late
          /\ \A c \in Clients : req'[c].at = "idle"
          /\ req'["boot"].at = "read" /\ known' = {} /\ ~renewing'
      BY <1>1, <2>1, CacheAssumption
      DEF IInv, CallsOK, TypeOK, CacheAssumption, Callers
    <2> QED
      BY <2>2 DEF CallsOK, LateCallsJoin
  <1>5. QueueOK(replies', req', known')
    <2>1. QueueOK(replies, req', known')
      BY <1>1, QueueCalls, <1>2 DEF IInv, TypeOK
    <2>2. EntryOK(e, req', known')
      BY <1>1 DEF EntryOK, IInv, TypeOK
    <2>3. \A i \in 1..Len(replies) : replies[i].kind = "request" => replies[i].client # "boot"
      BY DEF IInv, QueueOK, EntryOK
    <2> QED
      BY <1>1, <1>2, <2>1, <2>2, <2>3, QueueAppend DEF e
  <1>6. PullOK' /\ CopiesOK'
    BY <1>1 DEF IInv, PullOK, CopiesOK, TypeOK
  <1> QED
    BY <1>3, <1>4, <1>5, <1>6 DEF IInv

(* A pull reads, or fails.                                                 *)
LEMMA PullStepInv == ASSUME IInv, PullReads \/ PullFails PROVE IInv'
  <1> USE JobTypes DEF PullReads, PullFails
  <1>1. /\ replies \in Seq(Entries) /\ chain \in Infos /\ content \in Infos
        /\ proxy \subseteq Perps /\ job.at = "sdk"
    BY DEF IInv, TypeOK
  <1>2. /\ replies' \in Seq(Entries) /\ QueueOK(replies', req', known')
        /\ UNCHANGED <<chain, proxy, known, content, query, mutex, cooldown, renewing, req>>
    BY <1>1, QueueJob DEF IInv
  <1>3. CallsOK' /\ CopiesOK' /\ LateCallsJoin'
    BY <1>2, CallsKept, JoinKept DEF BetweenTurns, IInv, CopiesOK
  <1>4. TypeOK' /\ PullOK'
    <2>1. CASE PullReads
      <3> DEFINE snap == [p \in Perps |-> IF p \in proxy THEN chain[p] ELSE 0]
      <3>1. snap \in Infos
        BY <1>1, CacheAssumption DEF Infos, CacheAssumption
      <3>2. Listed(snap) = proxy
        BY <1>1 DEF IInv, CopiesOK, Listed, Infos
      <3>3. job' = [at |-> "oi", snap |-> snap]
        BY <2>1
      <3> HIDE DEF snap
      <3>4. TypeOK'
        BY <1>2, <3>1, <3>3 DEF IInv, TypeOK
      <3>5. PullOK'
        BY <1>1, <1>2, <3>2, <3>3 DEF IInv, PullOK, CopiesOK
      <3> QED
        BY <3>4, <3>5
    <2>2. CASE PullFails
      BY <1>1, <1>2, <2>2 DEF IInv, TypeOK, PullOK, CallsOK
    <2> QED
      BY <2>1, <2>2
  <1> QED
    BY <1>2, <1>3, <1>4 DEF IInv

(* The pull goes on or ends.  At the end of the initialization no handler  *)
(* has run yet, so that what is handled from now on is what was stored.    *)
LEMMA PullReplyInv == ASSUME IInv, PullReply PROVE IInv'
  <1> USE JobTypes
  <1>1. /\ replies \in Seq(Entries) /\ replies # <<>> /\ Head(replies).kind = "job"
        /\ UNCHANGED <<chain, proxy, query, mutex, cooldown, renewing>>
        /\ "boot" \in Callers /\ Clients \subseteq Callers /\ ~Resuming
    BY DEF IInv, TypeOK, PullReply, Callers
  <1>2. /\ Tail(replies) \in Seq(Entries) /\ QueueOK(Tail(replies), req, known)
        /\ req \in [Callers -> Reqs]
        /\ job.snap \in Infos /\ Listed(job.snap) \subseteq Perps
    BY <1>1, QueueTail DEF IInv, TypeOK, Listed
  <1>3. CASE job.at = "stamp" /\ job' = [job EXCEPT !.at = "sdk"]
             /\ replies' = Tail(replies) /\ UNCHANGED <<content, known, req>>
    <2>1. TypeOK' /\ PullOK'
      BY <1>1, <1>2, <1>3 DEF IInv, TypeOK, PullOK
    <2> QED
      BY <1>1, <1>2, <1>3, <2>1, CallsKept, JoinKept DEF IInv, CopiesOK
  <1>4. CASE job.at = "oi" /\ job' = [job EXCEPT !.at = "store"] /\ content' = job.snap
             /\ replies' = Append(Tail(replies), JobEntry) /\ UNCHANGED <<known, req>>
    <2>1. replies' \in Seq(Entries) /\ QueueOK(replies', req', known')
      BY <1>2, <1>4, QueueJob
    <2>2. TypeOK' /\ PullOK'
      BY <1>1, <1>2, <1>4, <2>1 DEF IInv, TypeOK, PullOK
    <2> QED
      BY <1>1, <1>4, <2>1, <2>2, CallsKept, JoinKept DEF IInv, CopiesOK, PullOK
  <1>5. CASE /\ job.at \in {"store", "prev"} /\ PullEnds(job.snap)
             /\ replies' = Tail(replies) /\ UNCHANGED content
    <2>1. /\ job' = NoJob /\ req' \in [Callers -> Reqs]
          /\ \A c \in Callers : req'[c] = IF req[c].at = "first" THEN NoReq ELSE req[c]
      BY <1>2, <1>5 DEF PullEnds
    <2>0. ~Resuming' /\ LateCallsJoin'
      BY <1>1, <2>1, MutexUnused DEF Resuming, LateCallsJoin
    <2>2. QueueOK(replies', req', known)
      BY <1>2, <1>5, <2>1, QueueCalls
    <2>3. CASE req["boot"].at # "first"
      <3>1. known' = known
        BY <1>5, <2>3 DEF PullEnds
      <3>2. TypeOK' /\ QueueOK(replies', req', known')
        BY <1>1, <1>2, <1>5, <2>1, <2>2, <3>1 DEF IInv, TypeOK, NoJob
      <3>3. known # {} /\ req["boot"].at = "idle"
        BY <1>5, <2>3 DEF IInv, PullOK, CallsOK
      <3>4. CallsOK'
        BY <1>1, <2>0, <2>1, <3>1, <3>3 DEF IInv, CallsOK
      <3> QED
        BY <1>1, <1>5, <2>1, <3>1, <3>2, <3>3, <3>4, <2>0 DEF IInv, PullOK, CopiesOK
    <2>4. CASE req["boot"].at = "first"
      <3>1. known = {} /\ known' = Listed(job.snap)
        BY <1>5, <2>4 DEF PullEnds, IInv, CallsOK
      <3>2. TypeOK' /\ QueueOK(replies', req', known')
        BY <1>1, <1>2, <1>5, <2>1, <2>2, <3>1, QueueHandled DEF IInv, TypeOK, NoJob
      <3>3. req'["boot"].at = "idle"
        BY <1>1, <2>1, <2>4
      <3>4. CallsOK'
        BY <1>1, <2>0, <2>1, <3>1, <3>3 DEF IInv, CallsOK
      <3>5. known' \subseteq proxy /\ known' \subseteq Listed(content)
        BY <1>5, <2>4, <3>1 DEF IInv, PullOK
      <3> QED
        BY <1>1, <1>5, <2>1, <3>2, <3>3, <3>4, <3>5, <2>0 DEF IInv, PullOK, CopiesOK
    <2> QED
      BY <2>3, <2>4
  <1> QED
    BY <1>3, <1>4, <1>5 DEF PullReply

(* A client asks only when what is handled is in the content.              *)
LEMMA AskInv == ASSUME IInv, NEW c \in Clients, Ask(c) PROVE IInv'
  <1> DEFINE e == AskEntry(c, content, query)
  <1> USE JobTypes
  <1>1. /\ e \in Entries /\ e.kind = "request" /\ e.client = c
        /\ c \in Callers /\ c # "boot" /\ "boot" \in Callers
    BY CacheAssumption DEF AskEntry, Entries, Callers, IInv, TypeOK, CacheAssumption
  <1>2. /\ replies \in Seq(Entries) /\ replies' = Append(replies, e)
        /\ req \in [Callers -> Reqs]
        /\ known # {} /\ req[c].at = "idle" /\ ~Resuming
        /\ req' = [req EXCEPT ![c] = [NoReq EXCEPT !.at = "read"]]
        /\ UNCHANGED <<chain, proxy, known, content, query, mutex, cooldown, renewing, job>>
    BY DEF IInv, TypeOK, Ask, BetweenTurns
  <1> HIDE DEF e
  <1>3. \A x \in Callers : x # c => req'[x] = req[x]
    BY <1>2
  <1>4. req'[c].at = "read" /\ ~req'[c].late /\ req' \in [Callers -> Reqs]
    BY <1>1, <1>2 DEF Reqs
  <1>5. TypeOK'
    <2>1. replies' \in Seq(Entries)
      BY <1>1, <1>2, Appended
    <2> QED
      BY <1>2, <1>4, <2>1 DEF IInv, TypeOK
  <1>6. QueueOK(replies', req', known')
    <2>1. QueueOK(replies, req', known)
      BY <1>2, <1>3, <1>4, QueueCalls DEF IInv
    <2>2. EntryOK(e, req', known)
      BY <1>1, <1>4 DEF EntryOK
    <2>3. \A i \in 1..Len(replies) : replies[i].kind = "request" => replies[i].client # c
      BY <1>2 DEF IInv, QueueOK, EntryOK
    <2> QED
      BY <1>1, <1>2, <2>1, <2>2, <2>3, QueueAppend
  <1>7. CallsOK' /\ LateCallsJoin'
    <2>1. ~Resuming'
      BY <1>2, <1>3, <1>4 DEF Resuming
    <2> QED
      BY <1>1, <1>2, <1>3, <1>4, <2>1, MutexUnused DEF IInv, CallsOK, LateCallsJoin
  <1>8. PullOK' /\ CopiesOK'
    BY <1>1, <1>2, <1>3 DEF IInv, PullOK, CopiesOK
  <1> QED
    BY <1>5, <1>6, <1>7, <1>8 DEF IInv

(* Whoever starts a pull starts it at its first command.                   *)
LEMMA StartPullSteps ==
    ASSUME IInv, NEW queue \in Seq(Entries), NEW calls, NEW handled,
           QueueOK(queue, calls, handled), StartPull(queue)
    PROVE  /\ replies' \in Seq(Entries) /\ QueueOK(replies', calls, handled)
           /\ query' \in Stamps
           /\ \/ job' = job /\ job.at # "idle"
              \/ job.at = "idle" /\ job'.at = "stamp" /\ job'.snap = Missing
           /\ job' \in [at : {"idle", "stamp", "sdk", "oi", "store", "prev"}, snap : Infos]
  <1>0. job \in [at : {"idle", "stamp", "sdk", "oi", "store", "prev"}, snap : Infos]
        /\ query \in Stamps
    BY DEF IInv, TypeOK
  <1>1. CASE job.at # "idle"
    <2>1. job' = job /\ query' = query /\ replies' = queue
      BY <1>1 DEF StartPull
    <2> QED
      BY <1>0, <1>1, <2>1
  <1>2. CASE job.at = "idle"
    <2>1. query' = "recent" /\ job' = [at |-> "stamp", snap |-> Missing]
      BY <1>2 DEF StartPull, NoJob
    <2>2. replies' = Append(queue, JobEntry)
      BY <1>2 DEF StartPull
    <2>3. replies' \in Seq(Entries) /\ QueueOK(replies', calls, handled)
      BY <2>2, QueueJob
    <2> QED
      BY <1>2, <2>1, <2>3, JobTypes DEF Stamps
  <1> QED
    BY <1>1, <1>2

(* A call learns what the copy holds.  What it finds out about the mutex   *)
(* is still true, and all calls of a turn find the same cooldown.          *)
LEMMA AskReplyInv == ASSUME IInv, NEW c \in Callers, AskReply(c) PROVE IInv'
  <1> DEFINE r == Head(replies)
             rest == Tail(replies)
  <1> USE JobTypes
  <1>1. /\ replies \in Seq(Entries) /\ replies # <<>> /\ ~Resuming
        /\ r.kind = "request" /\ r.client = c
        /\ UNCHANGED <<chain, proxy, known, content, cooldown>>
        /\ req \in [Callers -> Reqs]
        /\ "boot" \in Callers /\ Clients = Callers \ {"boot"}
    BY CacheAssumption DEF IInv, TypeOK, AskReply, Answered, Callers, CacheAssumption
  <1>2. EntryOK(r, req, known)
    BY <1>1, Taken DEF IInv, QueueOK
  <1>3. /\ req[c].at = "read" /\ ~req[c].late /\ (c = "boot" => r.seen = Missing)
        /\ c # "boot" => known # {}
        /\ c = "boot" => known = {} /\ job.at = "idle"
    BY <1>1, <1>2 DEF EntryOK, IInv, CallsOK, PullOK
  <1>4. ASSUME NEW others, \A x \in Callers : x # c => others[x] = req[x]
        PROVE  rest \in Seq(Entries) /\ QueueOK(rest, others, known)
    BY <1>1, <1>4, QueueTail DEF IInv
  <1> HIDE DEF rest
  <1>5. CASE /\ req' = [req EXCEPT ![c].at = "first"]
             /\ StartPull(rest) /\ UNCHANGED <<mutex, renewing>>
    <2>1. /\ \A x \in Callers : x # c => req'[x] = req[x]
          /\ req'[c].at = "first" /\ ~req'[c].late
          /\ req' \in [Callers -> Reqs]
      BY <1>1, <1>3, <1>5 DEF Reqs
    <2>2. /\ replies' \in Seq(Entries) /\ QueueOK(replies', req', known)
          /\ query' \in Stamps
          /\ \/ job' = job /\ job.at # "idle"
             \/ job.at = "idle" /\ job'.at = "stamp" /\ job'.snap = Missing
          /\ job' \in [at : {"idle", "stamp", "sdk", "oi", "store", "prev"}, snap : Infos]
      BY <1>4, <1>5, <2>1, StartPullSteps
    <2>3. TypeOK' /\ CopiesOK'
      BY <1>1, <1>3, <1>5, <2>1, <2>2 DEF IInv, TypeOK, CopiesOK
    <2>4. CallsOK' /\ LateCallsJoin'
      <3>1. ~Resuming'
        BY <1>1, <2>1 DEF Resuming
      <3> QED
        BY <1>1, <1>3, <1>5, <2>1, <3>1, MutexUnused DEF IInv, CallsOK, LateCallsJoin
    <2>5. PullOK'
      BY <1>1, <1>3, <2>1, <2>2 DEF IInv, PullOK, CallsOK
    <2> QED
      BY <1>1, <2>2, <2>3, <2>4, <2>5 DEF IInv
  <1>6. CASE /\ r.seen # Missing
             /\ req' = [req EXCEPT ![c] =
                   [at |-> IF cooldown THEN "cool" ELSE "proxy", late |-> ~mutex,
                    due |-> ~cooldown \/ r.query = "old"]]
             /\ renewing' = (renewing \/ ~cooldown) /\ replies' = rest
             /\ UNCHANGED <<mutex, job, query>>
    <2>1. /\ \A x \in Callers : x # c => req'[x] = req[x]
          /\ req'[c].at = IF cooldown THEN "cool" ELSE "proxy"
          /\ req'[c].late = ~mutex
          /\ req' \in [Callers -> Reqs]
      <3>1. (~mutex) \in BOOLEAN /\ (~cooldown \/ r.query = "old") \in BOOLEAN
        BY Zenon
      <3> QED
        BY <1>1, <1>6, <3>1 DEF Reqs
    <2>2. replies' \in Seq(Entries) /\ QueueOK(replies', req', known)
      BY <1>4, <1>6, <2>1
    <2>3. c # "boot" /\ known # {}
      BY <1>3, <1>6
    <2>4. TypeOK' /\ CopiesOK'
      <3>1. renewing' \in BOOLEAN
        BY <1>6, Zenon
      <3> QED
        BY <1>1, <1>6, <2>1, <2>2, <3>1 DEF IInv, TypeOK, CopiesOK
    <2>5. CallsOK' /\ LateCallsJoin'
      <3>1. ~Resuming'
        BY <1>1, <2>1 DEF Resuming
      <3>2. \A x \in Callers : mutex => ~req'[x].late
        BY <1>1, <2>1, MutexUnused
      <3>3. cooldown \/ renewing'
        BY <1>6
      <3>4. renewing => renewing'
        BY <1>6
      <3> QED
        BY <1>1, <1>6, <2>1, <2>3, <3>1, <3>2, <3>3, <3>4 DEF IInv, CallsOK, LateCallsJoin
    <2>6. PullOK'
      BY <1>1, <1>6, <2>1, <2>3 DEF IInv, PullOK
    <2> QED
      BY <1>1, <2>2, <2>4, <2>5, <2>6 DEF IInv
  <1> QED
    BY <1>5, <1>6 DEF AskReply, rest

LEMMA WakeSteps ==
    ASSUME IInv, NEW stage \in {"cool", "proxy"}, Wake(stage)
    PROVE  /\ req' \in [Callers -> Reqs]
           /\ \A x \in Callers :
                IF req[x].at = stage THEN req'[x].at = "resume" /\ req'[x].late = req[x].late
                ELSE req'[x] = req[x]
           /\ QueueOK(replies, req', known)
  <1>1. req \in [Callers -> Reqs] /\ replies \in Seq(Entries)
    BY DEF IInv, TypeOK
  <1>2. \A x \in Callers :
            req'[x] = IF req[x].at = stage THEN [req[x] EXCEPT !.at = "resume"] ELSE req[x]
    BY DEF Wake
  <1>3. req' \in [Callers -> Reqs]
    BY <1>1 DEF Wake, Reqs
  <1>4. QueueOK(replies, req', known)
    BY <1>1, <1>2, QueueCalls DEF IInv
  <1> QED
    BY <1>1, <1>2, <1>3, <1>4 DEF Reqs

(* All calls that a promise wakes, and no others, go on in this turn.      *)
LEMMA RenewalSkippedInv == ASSUME IInv, RenewalSkipped PROVE IInv'
  <1>1. /\ ~Resuming /\ Wake("cool") /\ \E x \in Callers : req[x].at = "cool"
        /\ UNCHANGED <<chain, proxy, known, content, query, mutex, cooldown, renewing, job, replies>>
        /\ "boot" \in Callers /\ Clients \subseteq Callers
    BY DEF RenewalSkipped, Callers
  <1>2. /\ req' \in [Callers -> Reqs] /\ QueueOK(replies, req', known)
        /\ \A x \in Callers :
             IF req[x].at = "cool" THEN req'[x].at = "resume" /\ req'[x].late = req[x].late
             ELSE req'[x] = req[x]
    BY <1>1, WakeSteps
  <1>3. \A x \in Callers : req'[x].at \notin {"cool", "proxy"}
    BY <1>1, <1>2 DEF IInv, CallsOK
  <1>4. TypeOK' /\ CopiesOK' /\ PullOK'
    BY <1>1, <1>2 DEF IInv, TypeOK, CopiesOK, PullOK, CallsOK
  <1>5. CallsOK' /\ LateCallsJoin'
    BY <1>1, <1>2, <1>3, MutexUnused DEF IInv, CallsOK, LateCallsJoin
  <1> QED
    BY <1>1, <1>2, <1>4, <1>5 DEF IInv

LEMMA ProxyRenewedInv == ASSUME IInv, ProxyRenewed PROVE IInv'
  <1>1. /\ ~Resuming /\ Wake("proxy") /\ renewing /\ renewing' = FALSE
        /\ \A x \in Callers : req[x].at # "cool"
        /\ proxy' = Listed(chain) /\ cooldown' = TRUE
        /\ UNCHANGED <<chain, known, content, query, mutex, job, replies>>
        /\ "boot" \in Callers /\ Clients \subseteq Callers /\ Listed(chain) \subseteq Perps
    BY DEF ProxyRenewed, BetweenTurns, Callers, Listed
  <1>2. /\ req' \in [Callers -> Reqs] /\ QueueOK(replies, req', known)
        /\ \A x \in Callers :
             IF req[x].at = "proxy" THEN req'[x].at = "resume" /\ req'[x].late = req[x].late
             ELSE req'[x] = req[x]
    BY <1>1, WakeSteps
  <1>3. \A x \in Callers : req'[x].at \notin {"cool", "proxy"}
    BY <1>1, <1>2
  <1>4. TypeOK' /\ CopiesOK' /\ PullOK'
    BY <1>1, <1>2 DEF IInv, TypeOK, CopiesOK, PullOK, CallsOK
  <1>5. CallsOK' /\ LateCallsJoin'
    BY <1>1, <1>2, <1>3, MutexUnused DEF IInv, CallsOK, LateCallsJoin
  <1> QED
    BY <1>1, <1>2, <1>4, <1>5 DEF IInv

LEMMA ProxyFailsInv == ASSUME IInv, ProxyFails PROVE IInv'
  <1> USE JobTypes
  <1>1. /\ ~Resuming /\ renewing /\ renewing' = FALSE
        /\ UNCHANGED <<chain, proxy, known, content, query, mutex, cooldown, job, replies>>
        /\ replies \in Seq(Entries) /\ req \in [Callers -> Reqs]
        /\ "boot" \in Callers /\ Clients \subseteq Callers
    BY DEF ProxyFails, BetweenTurns, Callers, IInv, TypeOK
  <1>2. /\ req' \in [Callers -> Reqs]
        /\ \A x \in Callers : req'[x] = IF req[x].at = "proxy" THEN NoReq ELSE req[x]
    BY <1>1 DEF ProxyFails
  <1>3. QueueOK(replies, req', known)
    BY <1>1, <1>2, QueueCalls DEF IInv
  <1>4. TypeOK' /\ CopiesOK' /\ PullOK'
    BY <1>1, <1>2 DEF IInv, TypeOK, CopiesOK, PullOK, CallsOK
  <1>5. CallsOK' /\ LateCallsJoin'
    <2>1. ~Resuming'
      BY <1>1, <1>2 DEF Resuming
    <2> QED
      BY <1>1, <1>2, <2>1, MutexUnused DEF IInv, CallsOK, LateCallsJoin
  <1> QED
    BY <1>1, <1>3, <1>4, <1>5 DEF IInv

(* The other calls of the turn find the pull of a call that set the mutex. *)
LEMMA ResumeInv == ASSUME IInv, NEW c \in Callers, Resume(c) PROVE IInv'
  <1> USE JobTypes
  <1>1. /\ req[c].at = "resume" /\ Resuming
        /\ UNCHANGED <<chain, proxy, known, content, cooldown, renewing>>
        /\ replies \in Seq(Entries) /\ req \in [Callers -> Reqs]
        /\ "boot" \in Callers /\ Clients = Callers \ {"boot"}
    BY CacheAssumption DEF Resume, Resuming, Callers, IInv, TypeOK, CacheAssumption
  <1>2. /\ req' \in [Callers -> Reqs] /\ req'[c] = NoReq
        /\ \A x \in Callers : x # c => req'[x] = req[x]
    BY <1>1 DEF Resume
  <1>3. c # "boot" /\ known # {} /\ req["boot"].at = "idle"
    BY <1>1 DEF IInv, CallsOK
  <1>4. QueueOK(replies, req', known)
    BY <1>1, <1>2, QueueCalls DEF IInv
  <1>5. /\ replies' \in Seq(Entries) /\ QueueOK(replies', req', known)
        /\ query' \in Stamps
        /\ \/ job' = job
           \/ job.at = "idle" /\ job'.at = "stamp" /\ job'.snap = Missing
        /\ job' \in [at : {"idle", "stamp", "sdk", "oi", "store", "prev"}, snap : Infos]
        /\ mutex' = mutex \/ (mutex' = TRUE /\ job'.at # "idle")
    <2>1. CASE req[c].late /\ req[c].due
      <3>1. mutex' = TRUE /\ StartPull(replies)
        BY <2>1 DEF Resume
      <3> QED
        BY <1>1, <1>4, <3>1, StartPullSteps
    <2>2. CASE ~(req[c].late /\ req[c].due)
      <3>1. UNCHANGED <<mutex, job, query, replies>>
        BY <2>2 DEF Resume
      <3> QED
        BY <1>1, <1>4, <3>1 DEF IInv, TypeOK
    <2> QED
      BY <2>1, <2>2
  <1>6. TypeOK' /\ CopiesOK'
    BY <1>1, <1>2, <1>5 DEF IInv, TypeOK, CopiesOK
  <1>7. PullOK'
    BY <1>1, <1>2, <1>3, <1>5 DEF IInv, PullOK
  <1>8. \A x \in Callers : req'[x].at \notin {"cool", "proxy"}
    BY <1>1, <1>2 DEF IInv, CallsOK
  <1>9. CallsOK'
    BY <1>1, <1>2, <1>3, <1>8 DEF IInv, CallsOK
  <1>10. LateCallsJoin'
    <2> SUFFICES ASSUME NEW x \in Callers, req'[x].late, mutex'
                 PROVE  req'[x].at = "resume" /\ job'.at # "idle"
      BY DEF LateCallsJoin
    <2>1. x # c /\ req[x].late /\ req'[x] = req[x]
      BY <1>2
    <2>2. req[x].at = "resume"
      BY <1>1, <2>1 DEF IInv, CallsOK
    <2>3. job'.at # "idle"
      BY <1>5, <2>1 DEF IInv, LateCallsJoin
    <2> QED
      BY <2>1, <2>2, <2>3
  <1> QED
    BY <1>1, <1>5, <1>6, <1>7, <1>9, <1>10 DEF IInv

(* Numbers change on chain, heard or not.                                  *)
LEMMA RaisedTypes ==
    ASSUME IInv, NEW p \in Perps, chain[p] < MaxVersion,
           chain' = [chain EXCEPT ![p] = @ + 1]
    PROVE  /\ chain' \in Infos /\ chain'[p] \in 1..MaxVersion
           /\ Listed(chain) \subseteq Listed(chain')
  BY CacheAssumption DEF IInv, TypeOK, Infos, Listed, CacheAssumption

LEMMA UnheardInv == ASSUME IInv, NEW p \in Perps, Unheard(p) PROVE IInv'
  <1>1. /\ chain' \in Infos /\ Listed(chain) \subseteq Listed(chain')
        /\ UNCHANGED <<proxy, known, content, query, mutex, cooldown, renewing, job, req, replies>>
    BY RaisedTypes DEF Unheard
  <1> QED
    BY <1>1, CallsKept, JoinKept DEF IInv, TypeOK, PullOK, CopiesOK

LEMMA EventInv == ASSUME IInv, NEW p \in Perps, Event(p) PROVE IInv'
  <1> DEFINE e == EventEntry(p, chain'[p])
  <1>1. /\ chain' \in Infos /\ chain'[p] \in 1..MaxVersion
        /\ Listed(chain) \subseteq Listed(chain')
        /\ UNCHANGED <<proxy, known, content, query, mutex, cooldown, renewing, job, req>>
        /\ replies \in Seq(Entries) /\ replies' = Append(replies, e) /\ known # {}
    BY RaisedTypes DEF Event, IInv, TypeOK
  <1>2. e \in Entries /\ e.kind = "event" /\ e.seen = content /\ e.version > 0
    BY <1>1, CacheAssumption DEF EventEntry, Entries, IInv, TypeOK, CacheAssumption
  <1> HIDE DEF e
  <1>3. EntryOK(e, req, known)
    BY <1>1, <1>2 DEF EntryOK, IInv, CopiesOK
  <1>4. replies' \in Seq(Entries) /\ QueueOK(replies', req', known')
    BY <1>1, <1>2, <1>3, Appended, QueueAppend DEF IInv
  <1> QED
    BY <1>1, <1>4, CallsKept, JoinKept DEF IInv, TypeOK, PullOK, CopiesOK

LEMMA UnknownPerpInv == ASSUME IInv, NEW p \in Perps, UnknownPerp(p) PROVE IInv'
  <1> USE JobTypes
  <1>1. /\ chain' \in Infos /\ UNCHANGED <<content, query>> /\ proxy' = {} /\ known' = {}
        /\ mutex' = FALSE /\ cooldown' = FALSE /\ renewing' = FALSE
        /\ job' = NoJob /\ req' = [c \in Callers |-> NoReq] /\ replies' = <<>>
    BY RaisedTypes DEF UnknownPerp
  <1>2. TypeOK'
    <2>1. mutex' \in BOOLEAN /\ cooldown' \in BOOLEAN /\ renewing' \in BOOLEAN
      BY <1>1, Zenon
    <2>2. req' \in [Callers -> Reqs]
      BY <1>1
    <2>3. job' \in [at : {"idle"}, snap : Infos]
      BY <1>1 DEF NoJob
    <2> QED
      BY <1>1, <2>1, <2>2, <2>3 DEF IInv, TypeOK
  <1>3. QueueOK(replies', req', known')
    BY <1>1 DEF QueueOK
  <1>4. CallsOK' /\ PullOK' /\ CopiesOK' /\ LateCallsJoin'
    BY <1>1 DEF CallsOK, PullOK, CopiesOK, LateCallsJoin, Resuming, Callers
  <1> QED
    BY <1>2, <1>3, <1>4 DEF IInv

(* A handler writes back a copy that lists all that is handled.            *)
LEMMA EventReplyInv == ASSUME IInv, EventReply PROVE IInv'
  <1> DEFINE h == Head(replies)
  <1>1. /\ replies \in Seq(Entries) /\ replies # <<>> /\ h.kind = "event"
        /\ UNCHANGED <<chain, proxy, known, query, mutex, cooldown, renewing, job, req>>
        /\ content' = IF h.seen[h.perp] = 0 THEN content
                      ELSE [h.seen EXCEPT ![h.perp] = h.version]
        /\ replies' = Tail(replies)
    BY DEF IInv, TypeOK, EventReply
  <1>2. EntryOK(h, req, known) /\ h \in Entries
    BY <1>1, Taken DEF IInv, QueueOK
  <1>3. /\ h.seen \in Infos /\ h.version \in 1..MaxVersion /\ known # {}
        /\ known \subseteq Listed(h.seen)
    BY <1>1, <1>2, CacheAssumption DEF EntryOK, Entries, CacheAssumption
  <1>4. replies' \in Seq(Entries) /\ QueueOK(replies', req', known')
    BY <1>1, QueueTail DEF IInv
  <1>5. content' \in Infos /\ known \subseteq Listed(content')
    <2>1. CASE h.seen[h.perp] = 0
      BY <1>1, <2>1 DEF IInv, TypeOK, CopiesOK
    <2>2. CASE h.seen[h.perp] # 0
      <3>1. content' = [h.seen EXCEPT ![h.perp] = h.version]
        BY <1>1, <2>2
      <3>2. h.version \in 0..MaxVersion /\ h.version > 0
        BY <1>3, CacheAssumption DEF CacheAssumption
      <3> QED
        BY <1>3, <3>1, <3>2 DEF Infos, Listed
    <2> QED
      BY <2>1, <2>2
  <1>6. req["boot"].at = "idle"
    BY <1>3 DEF IInv, CallsOK
  <1> QED
    BY <1>1, <1>3, <1>4, <1>5, <1>6, CallsKept, JoinKept DEF IInv, TypeOK, PullOK, CopiesOK

LEMMA TimeInv == ASSUME IInv, QueryAges \/ MutexAges \/ CooldownEnds PROVE IInv'
  <1>1. /\ UNCHANGED <<chain, proxy, known, content, renewing, job, req, replies>>
        /\ query' \in Stamps
        /\ mutex' = mutex \/ mutex' = FALSE
        /\ cooldown' = cooldown \/ (BetweenTurns /\ cooldown' = FALSE)
    BY DEF QueryAges, MutexAges, CooldownEnds, IInv, TypeOK, Stamps
  <1>2. TypeOK'
    BY <1>1 DEF IInv, TypeOK
  <1>3. CallsOK' /\ PullOK' /\ CopiesOK' /\ LateCallsJoin'
    BY <1>1, CallsKept, JoinKept DEF IInv, TypeOK, PullOK, CopiesOK
  <1> QED
    BY <1>1, <1>2, <1>3 DEF IInv

-----------------------------------------------------------------------------
(* The inductive invariant of the exchange-info cache: types, the calls,   *)
(* the replies to come, the pull and the copies of the perpetuals, for any *)
(* perpetuals, clients and number of versions.                             *)
THEOREM CacheInvariant == Spec => []IInv
  <1>1. IInv /\ [Next]_vars => IInv'
    <2> SUFFICES ASSUME IInv, [Next]_vars PROVE IInv'
      OBVIOUS
    <2>1. CASE UNCHANGED vars
      BY <2>1, CallsKept, JoinKept DEF vars, IInv, TypeOK, PullOK, CopiesOK
    <2>2. CASE Next
      BY <2>2, InitializeInv, PullStepInv, PullReplyInv, AskInv, AskReplyInv, RenewalSkippedInv,
         ProxyRenewedInv, ProxyFailsInv, ResumeInv, UnheardInv, EventInv, UnknownPerpInv, EventReplyInv, TimeInv
      DEF Next, Reply
    <2> QED
      BY <2>1, <2>2
  <1> QED
    BY InitInv, <1>1, PTL DEF Spec

(* Every variable has its type, and every reply the form its handler       *)
(* expects.                                                                *)
THEOREM TypeCorrect == Spec => []TypeOK
  BY CacheInvariant, PTL DEF IInv

(* MUTEX_TS_EXCHANGE_INFO: a call whose look at it is out of date joins    *)
(* the pull of the call that set it since; between two turns there is no   *)
(* such call.                                                              *)
THEOREM LateJoins == Spec => []LateCallsJoin
  BY CacheInvariant, PTL DEF IInv

(* updateExchangeInfoNumbersOfPerpetual: a handler never finds the copy    *)
(* missing, nor one that lists less than the perpetuals handled.           *)
THEOREM NeverMissing == Spec => []HandlersFindContent
  <1>1. IInv => HandlersFindContent
    BY DEF IInv, QueueOK, EntryOK, HandlersFindContent
  <1> QED
    BY CacheInvariant, <1>1, PTL
=============================================================================
