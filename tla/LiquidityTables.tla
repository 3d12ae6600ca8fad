-------------------------- MODULE LiquidityTables --------------------------
(***************************************************************************)
(* estimated_earnings.ts and liquidity_withdrawals.ts with the handlers of *)
(* listeners.ts that call them.  A handler is a chain of legs, each a find *)
(* followed by a create or an update:                                      *)
(*     added       own                                                     *)
(*     removed     own, then the pool token price, then the withdrawal     *)
(*     transfer    the sender's, then the receiver's                       *)
(*     initiated   the withdrawal                                          *)
(* Token amounts, written once at creation, and prices are left out.       *)
(***************************************************************************)
EXTENDS EventLog

VARIABLES
    earnings,      \* rows [pool, tx, type, who, shares, by], one per (pool, tx)
    withdrawals,   \* rows [who, tx, removal, by], one per (who, tx)
    booking        \* handlers in flight [ev, by, leg, seen]

liquidityVars == <<earnings, withdrawals, booking>>

LiquidityInit == earnings = {} /\ withdrawals = {} /\ booking = {}

EarningsLegs == {"own", "from", "to"}

Leg(e, by, l) == [ev |-> e, by |-> by, leg |-> l, seen |-> "no"]

FirstLeg(e) ==
    CASE Event[e].kind = "transfer" -> "from"
      [] Event[e].kind = "initiated" -> "withdrawal"
      [] OTHER -> "own"

NewBooking(e, by) == Leg(e, by, FirstLeg(e))

\* What the handler goes on to when a leg has returned.
NextLegs(t) ==
    CASE t.leg = "from" -> {Leg(t.ev, t.by, "to")}
      [] t.leg = "own" /\ Event[t.ev].kind = "removed" -> {Leg(t.ev, t.by, "price")}
      [] t.leg = "price" -> {Leg(t.ev, t.by, "withdrawal")}
      [] OTHER -> {}

Returns(t) == booking' = (booking \ {t}) \cup NextLegs(t)

-----------------------------------------------------------------------------
(* The wallet and the share amount of a leg: shares given up count plus,   *)
(* shares received count minus.                                            *)

WalletOf(t) == IF t.leg = "to" THEN Event[t.ev].to ELSE Event[t.ev].who

SharesOf(t) ==
    IF t.leg = "to" \/ Event[t.ev].kind = "added" THEN -t.ev ELSE t.ev

EarningsRow(t) ==
    [pool |-> Event[t.ev].about, tx |-> Event[t.ev].tx, type |-> Event[t.ev].kind,
     who |-> WalletOf(t), shares |-> SharesOf(t), by |-> t.by]

\* Mutant: the key also has the event type.
SameKey_Typed(r, t) ==
    r.pool = Event[t.ev].about /\ r.tx = Event[t.ev].tx /\ r.type = Event[t.ev].kind

\* The primary key is (pool_id, tx_hash).
SameKey(r, t) == r.pool = Event[t.ev].about /\ r.tx = Event[t.ev].tx

\* Mutant: the lookup leaves out the event type.
FoundEarnings_AnyType(t) == \E r \in earnings : r.tx = Event[t.ev].tx

\* The lookup is by transaction and type, whatever the pool and the wallet.
FoundEarnings(t) ==
    \E r \in earnings : r.tx = Event[t.ev].tx /\ r.type = Event[t.ev].kind

FindEarnings(t) ==
    /\ t.leg \in EarningsLegs /\ t.seen = "no"
    /\ booking' = (booking \ {t})
          \cup {[t EXCEPT !.seen = IF FoundEarnings(t) THEN "present" ELSE "absent"]}
    /\ UNCHANGED <<earnings, withdrawals>>

\* Create unless the key is taken; or, called by the backfill, update the
\* row with that key, if there is one.  Errors are logged and the leg returns.
WriteEarnings(t) ==
    /\ t.leg \in EarningsLegs /\ t.seen # "no"
    /\ earnings' =
          CASE t.seen = "absent" ->
                 IF \E r \in earnings : SameKey(r, t) THEN earnings
                 ELSE earnings \cup {EarningsRow(t)}
            [] t.seen = "present" /\ t.by = "backfill" ->
                 {IF SameKey(r, t) THEN [r EXCEPT !.by = "backfill", !.shares = SharesOf(t)]
                  ELSE r : r \in earnings}
            [] OTHER -> earnings
    /\ Returns(t)
    /\ UNCHANGED withdrawals

\* Mutant: an outlier ends the handler.
NotePrice_Ends(t) ==
    /\ t.leg = "price"
    /\ booking' = booking \ {t}
    /\ UNCHANGED <<earnings, withdrawals>>

\* The price is upserted or rejected as an outlier; the handler goes on.
NotePrice(t) ==
    /\ t.leg = "price"
    /\ Returns(t)
    /\ UNCHANGED <<earnings, withdrawals>>

-----------------------------------------------------------------------------
IsRemoval(t) == Event[t.ev].kind = "removed"

FindWithdrawal(t) ==
    /\ t.leg = "withdrawal" /\ t.seen = "no"
    /\ LET found == \E w \in withdrawals : /\ w.tx = Event[t.ev].tx /\ w.who = Event[t.ev].who
                                           /\ w.removal = IsRemoval(t)
       IN  booking' = (booking \ {t})
              \cup {[t EXCEPT !.seen = IF found THEN "present" ELSE "absent"]}
    /\ UNCHANGED <<earnings, withdrawals>>

\* Create unless the key is taken.  A row that was there is confirmed by a
\* second live event, and left alone by the backfill.
WriteWithdrawal(t) ==
    /\ t.leg = "withdrawal" /\ t.seen # "no"
    /\ LET ev == Event[t.ev]
           key(w) == w.who = ev.who /\ w.tx = ev.tx
       IN  withdrawals' =
             CASE t.seen = "absent" ->
                    IF \E w \in withdrawals : key(w) THEN withdrawals
                    ELSE withdrawals \cup {[who |-> ev.who, tx |-> ev.tx,
                                            removal |-> IsRemoval(t), by |-> t.by]}
               [] t.seen = "present" /\ t.by = "live" ->
                    {IF key(w) THEN [w EXCEPT !.by = "backfill"] ELSE w : w \in withdrawals}
               [] OTHER -> withdrawals
    /\ Returns(t)
    /\ UNCHANGED earnings

\* A lookup throws: the handler ends where it is.
LookupFails(t) ==
    /\ t.seen = "no"
    /\ booking' = booking \ {t} /\ UNCHANGED <<earnings, withdrawals>>

\* A write throws: the error is caught, and the handler goes on.
WriteFails(t) ==
    /\ t.seen # "no"
    /\ Returns(t) /\ UNCHANGED <<earnings, withdrawals>>

BookingStep(t) ==
    FindEarnings(t) \/ WriteEarnings(t) \/ NotePrice(t) \/ FindWithdrawal(t) \/ WriteWithdrawal(t)

TimeOfTx(tx) == Event[CHOOSE e \in Log : Event[e].tx = tx].time
LatestOf(rows) == Max({0} \cup {TimeOfTx(r.tx) : r \in rows})

\* The watermarks of the proxy's liquidity events, and of a pool's transfers:
\* the latter is the latest row of any type and origin.
LatestAdded == LatestOf({r \in earnings : r.type = "added" /\ r.by = "backfill"})
LatestInitiated == LatestOf({w \in withdrawals : ~w.removal /\ w.by = "backfill"})
LatestOfPool(p) == LatestOf({r \in earnings : r.pool = p})

-----------------------------------------------------------------------------
LiquidityTypeOK ==
    /\ earnings \subseteq [pool : Pools, tx : Txs, type : EarningsTypes, who : Wallets,
                           shares : -NumEvents..NumEvents, by : Callers]
    /\ \A r, q \in earnings : r.pool = q.pool /\ r.tx = q.tx => r = q
    /\ withdrawals \subseteq [who : Wallets, tx : Txs, removal : BOOLEAN, by : Callers]
    /\ \A w, v \in withdrawals : w.who = v.who /\ w.tx = v.tx => w = v
    /\ booking \subseteq [ev : Log, by : Callers, leg : EarningsLegs \cup {"price", "withdrawal"},
                          seen : {"no", "absent", "present"}]
=============================================================================
