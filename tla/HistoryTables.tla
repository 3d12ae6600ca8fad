--------------------------- MODULE HistoryTables ---------------------------
(***************************************************************************)
(* The tables whose inserts depend on rows of other events, filled by the  *)
(* live listener and by the guarded runs of the backfill: perpetual names, *)
(* and earnings with withdrawals.  HistoryIngest has the other tables, the  *)
(* window of an initial run and the gap filler; here every event is within *)
(* reach of an initial run, and a run reads its watermarks at once.        *)
(***************************************************************************)
EXTENDS PerpetualNames, LiquidityTables

CONSTANTS
    Heard,        \* bound: events the listener may deliver
    MaxInserts,   \* bound: inserts in flight at a time
    MaxFaults     \* bound: queries that throw, abandoned scans, failed runs, exits

ASSUME TablesAssumption ==
    /\ Heard \subseteq Log
    /\ MaxInserts \in Nat \ {0} /\ MaxFaults \in Nat

VARIABLES
    mined,      \* events on the chain
    up,         \* the process is running
    run,        \* the guarded run
    p2p,        \* transfer scans under way: [pool, todo], nobody awaits them
    lost,       \* history: events whose insert or scan failed
    faults

serviceVars == <<mined, up, run, p2p, lost, faults>>
vars == <<nameVars, liquidityVars, serviceVars>>

Idle == [phase |-> "idle", skip |-> FALSE, added |-> 0, initiated |-> 0, oracles |-> 0,
         pools |-> [p \in Pools |-> 0], read |-> FALSE, pos |-> 1, last |-> 0]

Init ==
    /\ NamesInit /\ LiquidityInit
    /\ mined = 0 /\ up = FALSE /\ run = Idle /\ p2p = {}
    /\ lost = {} /\ faults = 0

\* A listener or a filter calls the insert of an event, without awaiting it.
StartInsert(e, by) ==
    /\ Cardinality(naming) + Cardinality(booking) < MaxInserts
    /\ IF Event[e].kind = "oracles"
       THEN naming' = naming \cup {NewName(e, by)} /\ UNCHANGED <<names, liquidityVars>>
       ELSE /\ booking' = booking \cup {NewBooking(e, by)}
            /\ UNCHANGED <<nameVars, earnings, withdrawals>>

\* An event is mined; the listener hears it, or misses it.
Mine ==
    /\ mined < NumEvents /\ mined' = mined + 1
    /\ \/ up /\ mined + 1 \in Heard /\ StartInsert(mined + 1, "live")
       \/ UNCHANGED <<nameVars, liquidityVars>>
    /\ UNCHANGED <<up, run, p2p, lost, faults>>

-----------------------------------------------------------------------------
(* runHistoricalDataFilterers, from main() or from the four-hour timer.    *)

\* The initial run skips nothing; the watermarks it reads are not used.
Start ==
    /\ ~up /\ up' = TRUE
    /\ run' = [Idle EXCEPT !.phase = "scan", !.last = mined]
    /\ UNCHANGED <<nameVars, liquidityVars, mined, p2p, lost, faults>>

Redundancy ==
    /\ up /\ run.phase = "idle"
    /\ run' = [Idle EXCEPT !.phase = "scan", !.skip = TRUE, !.last = mined,
                           !.added = LatestAdded, !.initiated = LatestInitiated,
                           !.oracles = LatestName]
    /\ UNCHANGED <<nameVars, liquidityVars, mined, up, p2p, lost, faults>>

\* The transfers' watermarks are read while the proxy's events are scanned.
ReadPools ==
    /\ run.phase = "scan" /\ ~run.read
    /\ run' = [run EXCEPT !.read = TRUE, !.pools = [p \in Pools |-> LatestOfPool(p)]]
    /\ UNCHANGED <<nameVars, liquidityVars, mined, up, p2p, lost, faults>>

WatermarkOf(e) ==
    CASE Event[e].kind = "oracles" -> run.oracles
      [] Event[e].kind = "initiated" -> run.initiated
      [] OTHER -> run.added

Skipped(e) == run.skip /\ Event[e].time < WatermarkOf(e)

\* Transfers are events of other contracts.
HandNext ==
    /\ run.phase = "scan" /\ run.pos <= run.last
    /\ IF Event[run.pos].kind = "transfer" \/ Skipped(run.pos)
       THEN UNCHANGED <<nameVars, liquidityVars>>
       ELSE StartInsert(run.pos, "backfill")
    /\ run' = [run EXCEPT !.pos = @ + 1]
    /\ UNCHANGED <<mined, up, p2p, lost, faults>>

TransfersSince(p) ==
    {e \in OfKind("transfer") : e <= mined /\ Event[e].about = p /\ Event[e].time >= run.pools[p]}

\* filterP2Ptransfers: a scan per share token, from the watermark of its pool.
ScanTransfers ==
    /\ run.phase = "scan" /\ run.pos > run.last /\ run.read
    /\ run' = [Idle EXCEPT !.phase = "align"]
    /\ p2p' = p2p \cup {s \in {[pool |-> p, todo |-> TransfersSince(p)] : p \in Pools} : s.todo # {}}
    /\ UNCHANGED <<nameVars, liquidityVars, mined, up, lost, faults>>

\* The run ends with the repair of the names, whatever is still in flight.
Align ==
    /\ run.phase = "align"
    /\ AlignTimestamps
    /\ run' = Idle
    /\ UNCHANGED <<liquidityVars, mined, up, p2p, lost, faults>>

HandTransfer(s) ==
    /\ s \in p2p
    /\ StartInsert(Min(s.todo), "backfill")
    /\ p2p' = (p2p \ {s}) \cup {r \in {[s EXCEPT !.todo = @ \ {Min(s.todo)}]} : r.todo # {}}
    /\ UNCHANGED <<mined, up, run, lost, faults>>

-----------------------------------------------------------------------------
Fail(events) ==
    /\ faults < MaxFaults /\ faults' = faults + 1
    /\ lost' = lost \cup events

InsertFails ==
    /\ \/ \E t \in naming : NameFails(t) /\ Fail({t.ev}) /\ UNCHANGED liquidityVars
       \/ \E t \in booking : (LookupFails(t) \/ WriteFails(t)) /\ Fail({t.ev}) /\ UNCHANGED nameVars
    /\ UNCHANGED <<mined, up, run, p2p>>

ScanFails ==
    /\ \/ /\ run.phase # "idle"
          /\ Fail({e \in run.pos..run.last : ~Skipped(e)})
          /\ run' = Idle /\ UNCHANGED p2p
       \/ \E s \in p2p : Fail(s.todo) /\ p2p' = p2p \ {s} /\ UNCHANGED run
    /\ UNCHANGED <<nameVars, liquidityVars, mined, up>>

\* The process exits; what was in memory or in flight is gone.
Crash ==
    /\ up /\ up' = FALSE /\ Fail({})
    /\ naming' = {} /\ booking' = {} /\ run' = Idle /\ p2p' = {}
    /\ UNCHANGED <<names, earnings, withdrawals, mined>>

-----------------------------------------------------------------------------
NameInsert(t) == NameStep(t) /\ UNCHANGED <<liquidityVars, serviceVars>>
Booking(t) == BookingStep(t) /\ UNCHANGED <<nameVars, serviceVars>>
RunStep == ReadPools \/ HandNext \/ ScanTransfers \/ Align

Next ==
    \/ Mine \/ Start \/ Redundancy \/ RunStep
    \/ \E t \in naming : NameInsert(t)
    \/ \E t \in booking : Booking(t)
    \/ \E s \in p2p : HandTransfer(s)
    \/ InsertFails \/ ScanFails \/ Crash

Spec == Init /\ [][Next]_vars

\* Queries return, runs advance, the timer fires, a stopped process is
\* started again; nothing forces events to be mined or heard.
FairSpec ==
    /\ Spec
    /\ WF_vars(Start) /\ WF_vars(Redundancy) /\ WF_vars(RunStep)
    /\ WF_vars(\E s \in p2p : HandTransfer(s))
    /\ \A e \in OfKind("oracles"), at \in {"find", "pred", "adjust", "create"} :
          WF_vars(\E t \in naming : t.ev = e /\ t.at = at /\ NameInsert(t))
    /\ \A e \in Log \ OfKind("oracles"), seen \in {{"no"}, {"absent", "present"}} :
          WF_vars(\E t \in booking :
                    t.ev = e /\ t.leg \in EarningsLegs /\ t.seen \in seen /\ Booking(t))
    /\ \A e \in OfKind("removed") :
          /\ WF_vars(\E t \in booking : t.ev = e /\ t.leg = "price" /\ Booking(t))
          /\ \A seen \in {{"no"}, {"absent", "present"}} :
                WF_vars(\E t \in booking :
                          t.ev = e /\ t.leg = "withdrawal" /\ t.seen \in seen /\ Booking(t))

\* MaxInserts may delay a scan of transfers, but not for ever.
FairScans == FairSpec /\ SF_vars(\E s \in p2p : HandTransfer(s))

-----------------------------------------------------------------------------
TypeOK ==
    /\ NamesTypeOK /\ LiquidityTypeOK
    /\ mined \in 0..NumEvents /\ up \in BOOLEAN
    /\ run \in [phase : {"idle", "scan", "align"}, skip : BOOLEAN,
                added : Times \cup {0}, initiated : Times \cup {0}, oracles : Times \cup {0},
                pools : [Pools -> Times \cup {0}], read : BOOLEAN,
                pos : 1..NumEvents + 1, last : 0..NumEvents]
    /\ p2p \subseteq [pool : Pools, todo : (SUBSET OfKind("transfer")) \ {{}}]
    /\ lost \subseteq Log /\ faults \in 0..MaxFaults

\* A name ends where the next one of its perpetual begins; the last is open,
\* or ends where a name begins whose insert failed.
Chained(r) ==
    LET later == {q.from : q \in {q \in names : q.perp = r.perp /\ q.from > r.from}}
    IN  IF later # {} THEN r.to = Min(later)
        ELSE r.to = Far \/ \E e \in lost : r.to = Event[e].time

(* "align timestamps in perpetual_long_id (because we have asynchronous     *)
(* events)": inserts of one perpetual that run into each other, a crash     *)
(* between ending a predecessor and creating its successor, and repairs     *)
(* that run while inserts are in flight leave gaps and overlaps, but in the *)
(* end the intervals of each perpetual follow one another.                  *)
NamesChained == <>[](\A r \in names : Chained(r))

(* A removal that is booked in the earnings gets its withdrawal row in the  *)
(* end, even if the process stops between the two or a row was there        *)
(* before, unless a query of its handler failed.                            *)
RemovalsBooked ==
    <>[](\A e \in OfKind("removed") \ lost :
           (\E r \in earnings : r.tx = Event[e].tx /\ r.type = "removed")
             => \E w \in withdrawals : w.tx = Event[e].tx /\ w.removal)

(* Rows are found by transaction and type but updated by pool and           *)
(* transaction.  In transactions with one event of a type, rows of added    *)
(* and removed liquidity keep the wallet, the amount and the sign of their  *)
(* event, whichever handlers run into each other or repeat.                 *)
SharesTrue ==
    \A r \in earnings : r.type # "transfer" =>
        \E e \in OfKind(r.type) :
            /\ Event[e].tx = r.tx /\ Event[e].about = r.pool /\ Event[e].who = r.who
            /\ r.shares = IF r.type = "added" THEN -e ELSE e

(* getBlockTs: "caller should skip the event and let the backfill pick it   *)
(* up later": a transfer mined before the event that the listener is        *)
(* delivering, while no backfill runs, gets a row in the end.               *)
BackfillPicksUp ==
    \A e \in OfKind("transfer") :
        (/\ e < mined /\ \E t \in booking : t.ev = mined /\ t.by = "live"
         /\ run.phase = "idle" /\ p2p = {})
            ~> \E r \in earnings : r.tx = Event[e].tx /\ r.type = "transfer"
=============================================================================
