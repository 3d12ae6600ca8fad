------------------------ MODULE HistoryTablesProofs ------------------------
(***************************************************************************)
(* The tables of names, earnings and withdrawals for every log of events,  *)
(* number of inserts in flight and number of failures: the types, one row  *)
(* per key, and that a booked amount is the one of its event as long as no *)
(* transaction has two events of a type.                                   *)
(***************************************************************************)
EXTENDS HistoryTables, WellFoundedInduction, TLAPS

-----------------------------------------------------------------------------
(* Numbers and constants.                                                  *)

(* A set of numbers has a least element.                                   *)
LEMMA LeastElement ==
    ASSUME NEW S \in SUBSET Nat, S # {}
    PROVE  Min(S) \in S /\ \A x \in S : Min(S) <= x
  <1> DEFINE R == OpToRel(<, Nat)
  <1>1. IsWellFoundedOn(R, Nat)
    BY NatLessThanWellFounded
  <1>2. R = {p \in Nat \X Nat : p[1] < p[2]}
    BY DEF OpToRel
  <1> HIDE DEF R
  <1>3. PICK x \in S : \A y \in S : ~(<<y, x>> \in R)
    BY <1>1, WFMin
  <1>4. ASSUME NEW y \in S PROVE x <= y
    <2>1. ~(<<y, x>> \in {p \in Nat \X Nat : p[1] < p[2]})
      BY <1>2, <1>3
    <2>2. x \in Nat /\ y \in Nat
      OBVIOUS
    <2>3. ~(y < x)
      BY <2>1, <2>2
    <2> QED
      BY <2>2, <2>3
  <1> QED
    BY <1>4, Zenon DEF Min

(* A bounded one has a greatest: the least of its bounds.                   *)
LEMMA GreatestElement ==
    ASSUME NEW S \in SUBSET Nat, S # {}, NEW n \in Nat, \A x \in S : x <= n
    PROVE  Max(S) \in S
  <1> DEFINE B == {m \in Nat : \A x \in S : x <= m}
  <1>1. B \in SUBSET Nat /\ n \in B
    OBVIOUS
  <1>2. Min(B) \in B /\ \A m \in B : Min(B) <= m
    BY <1>1, LeastElement
  <1>3. PICK m \in B : \A b \in B : m <= b
    BY <1>2
  <1>4. m \in S
    <2> SUFFICES ASSUME m \notin S PROVE FALSE
      OBVIOUS
    <2>1. \A x \in S : x \in Nat /\ x <= m /\ x # m
      OBVIOUS
    <2>2. m - 1 \in Nat /\ \A x \in S : x <= m - 1
      <3>1. PICK y \in S : TRUE
        OBVIOUS
      <3>2. m \in Nat /\ y \in Nat /\ y <= m /\ y # m
        BY <2>1
      <3> QED
        BY <2>1, <3>2
    <2>3. m <= m - 1
      BY <1>3, <2>2
    <2> QED
      BY <2>3
  <1>5. \A x \in S : m >= x
    OBVIOUS
  <1> QED
    BY <1>4, <1>5, Zenon DEF Max

(* What the assumption on the events says of each of them.                 *)
LEMMA EventTypes ==
    /\ NumEvents \in Nat \ {0}
    /\ \A e \in Log : /\ Event[e].kind \in EventKinds
                      /\ Event[e].time \in Times /\ Event[e].tx \in Txs
                      /\ Event[e].who \in Wallets /\ Event[e].to \in Wallets
                      /\ e \in OfKind(Event[e].kind)
                      /\ e \in OfKind("oracles") => Event[e].about \in Subjects("oracles")
                      /\ Event[e].kind # "oracles" => Event[e].about \in Pools
  BY EventAssumption
     DEF EventAssumption, Times, Txs, Wallets, OfKind, Subjects, Pools

(* Times are numbers, and none is later than the last event's.              *)
LEMMA LastTime ==
    /\ Times \subseteq Nat \ {0}
    /\ Event[NumEvents].time \in Nat
    /\ \A x \in Times : x <= Event[NumEvents].time
  <1>1. NumEvents \in Nat \ {0} /\ NumEvents \in Log
    BY EventAssumption DEF EventAssumption, Log
  <1>2. \A e \in Log : /\ Event[e].time \in Nat \ {0}
                       /\ Event[e].time <= Event[NumEvents].time
    <2> SUFFICES ASSUME NEW e \in Log
                 PROVE  /\ Event[e].time \in Nat \ {0}
                        /\ Event[e].time <= Event[NumEvents].time
      OBVIOUS
    <2>1. e \in 1..NumEvents /\ Event[e].time \in Nat \ {0} /\ Event[NumEvents].time \in Nat
      BY <1>1, EventAssumption DEF EventAssumption, Log
    <2>2. CASE e = NumEvents
      BY <2>1, <2>2
    <2>3. CASE e < NumEvents
      BY <1>1, <2>1, <2>3, EventAssumption DEF EventAssumption
    <2> QED
      BY <1>1, <2>1, <2>2, <2>3
  <1> QED
    BY <1>1, <1>2 DEF Times

(* A watermark is the time of an event, or zero.                           *)
LEMMA WatermarkType ==
    ASSUME NEW S \in SUBSET (Times \cup {0})
    PROVE  Max({0} \cup S) \in Times \cup {0}
  <1> DEFINE M == {0} \cup S
  <1>1. M \in SUBSET Nat /\ M # {} /\ \A x \in M : x <= Event[NumEvents].time
    BY LastTime
  <1> HIDE DEF M
  <1>2. Max(M) \in M
    BY <1>1, LastTime, GreatestElement
  <1> QED
    BY <1>2 DEF M

LEMMA LatestType ==
    ASSUME NEW rows, \A r \in rows : r.tx \in Txs
    PROVE  LatestOf(rows) \in Times \cup {0}
  <1>1. ASSUME NEW tx \in Txs PROVE TimeOfTx(tx) \in Times
    <2>1. \E e \in Log : Event[e].tx = tx
      BY DEF Txs
    <2> DEFINE f == CHOOSE e \in Log : Event[e].tx = tx
    <2>2. f \in Log
      BY <2>1
    <2> QED
      BY <2>2, EventTypes DEF TimeOfTx
  <1>2. {TimeOfTx(r.tx) : r \in rows} \in SUBSET (Times \cup {0})
    BY <1>1
  <1> QED
    BY <1>2, WatermarkType DEF LatestOf
-----------------------------------------------------------------------------
(* The table of names.                                                     *)

NameRows == [tx : Txs, perp : Subjects("oracles"), from : Times, to : Times \cup {Far}]
Namings == [ev : OfKind("oracles"), by : Callers,
            at : {"find", "pred", "adjust", "create"}, pred : Txs \cup {NoTx}]

LEMMA NamesTypes ==
    NamesTypeOK <=> /\ names \subseteq NameRows
                    /\ \A r, q \in names : r.tx = q.tx => r = q
                    /\ naming \subseteq Namings
  BY DEF NamesTypeOK, NameRows, Namings

(* What the provers need of the elements of the two sets.                  *)
LEMMA NameFields ==
    /\ \A r \in NameRows : /\ r.tx \in Txs /\ r.perp \in Subjects("oracles")
                           /\ r.from \in Times /\ r.to \in Times \cup {Far}
    /\ \A t \in Namings : /\ t.ev \in OfKind("oracles") /\ t.by \in Callers
                          /\ t.ev \in Log /\ t.pred \in Txs \cup {NoTx}
    /\ \A r \in NameRows, x \in Times \cup {Far} : [r EXCEPT !.to = x] \in NameRows
    /\ \A t \in Namings, p \in Txs \cup {NoTx}, at \in {"find", "pred", "adjust", "create"} :
          [t EXCEPT !.at = at, !.pred = p] \in Namings
    /\ \A t \in Namings, at \in {"find", "pred", "adjust", "create"} :
          [t EXCEPT !.at = at] \in Namings
    /\ \A e \in OfKind("oracles"), by \in Callers : NewName(e, by) \in Namings
  BY DEF NameRows, Namings, OfKind, NewName, NoTx

LEMMA NameStepTypes ==
    ASSUME NamesTypeOK, NEW t \in naming, NameStep(t) \/ NameFails(t)
    PROVE  NamesTypeOK'
  <1>t. /\ names \subseteq NameRows /\ naming \subseteq Namings /\ t \in Namings
        /\ \A r, q \in names : r.tx = q.tx => r = q
    BY NamesTypes
  <1>s. SUFFICES /\ (names \subseteq NameRows)'
                 /\ (\A r, q \in names : r.tx = q.tx => r = q)'
                 /\ (naming \subseteq Namings)'
    BY DEF NamesTypeOK, NameRows, Namings
  <1>1. CASE FindName(t)
    BY <1>1, <1>t, NameFields DEF FindName
  <1>2. CASE FindPredecessor(t)
    <2>1. CASE OpenBefore(t.ev) = {}
      BY <1>2, <1>t, <2>1, NameFields DEF FindPredecessor
    <2>2. CASE OpenBefore(t.ev) # {}
      <3>1. PICK r \in OpenBefore(t.ev) :
              naming' = (naming \ {t}) \cup {[t EXCEPT !.at = "adjust", !.pred = r.tx]}
        BY <1>2, <2>2 DEF FindPredecessor
      <3>2. r \in NameRows /\ names' = names
        BY <1>2, <1>t DEF OpenBefore, FindPredecessor
      <3> QED
        BY <1>t, <3>1, <3>2, NameFields
    <2> QED
      BY <2>1, <2>2
  <1>3. CASE AdjustPredecessor(t)
    <2>1. Event[t.ev].time \in Times
      BY <1>t, NameFields, EventTypes
    <2> DEFINE moved(r) == IF r.tx = t.pred THEN [r EXCEPT !.to = Event[t.ev].time] ELSE r
    <2>2. names' = {moved(r) : r \in names}
          /\ naming' = (naming \ {t}) \cup {[t EXCEPT !.at = "create", !.pred = NoTx]}
      BY <1>3 DEF AdjustPredecessor
    <2>3. ASSUME NEW r \in names PROVE moved(r) \in NameRows /\ moved(r).tx = r.tx
      BY <1>t, <2>1, NameFields DEF NameRows
    <2> HIDE DEF moved
    <2>4. \A n \in names' : \E r \in names : n = moved(r)
      BY <2>2
    <2>5. names' \subseteq NameRows /\ \A n, m \in names' : n.tx = m.tx => n = m
      BY <1>t, <2>3, <2>4
    <2>6. naming' \subseteq Namings
      BY <1>t, <2>2, NameFields
    <2> QED
      BY <2>5, <2>6
  <1>4. CASE CreateName(t)
    <2> DEFINE row == [tx |-> Event[t.ev].tx, perp |-> Event[t.ev].about,
                       from |-> Event[t.ev].time, to |-> Far]
    <2>1. row \in NameRows /\ row.tx = Event[t.ev].tx
      BY <1>t, NameFields, EventTypes DEF NameRows
    <2>2. /\ naming' = naming \ {t}
          /\ \/ names' = names
             \/ names' = names \cup {row} /\ \A r \in names : r.tx # row.tx
      BY <1>4, <2>1 DEF CreateName
    <2> HIDE DEF row
    <2> QED
      BY <1>t, <2>1, <2>2
  <1>5. CASE NameFails(t)
    BY <1>5, <1>t DEF NameFails
  <1> QED
    BY <1>1, <1>2, <1>3, <1>4, <1>5 DEF NameStep

(* The repair ends each name where another one begins, or leaves it.        *)
LEMMA AlignTypes ==
    ASSUME NamesTypeOK, AlignTimestamps
    PROVE  NamesTypeOK'
  <1>t. /\ names \subseteq NameRows /\ naming \subseteq Namings
        /\ \A r, q \in names : r.tx = q.tx => r = q
    BY NamesTypes
  <1>s. SUFFICES /\ (names \subseteq NameRows)'
                 /\ (\A r, q \in names : r.tx = q.tx => r = q)'
                 /\ (naming \subseteq Namings)'
    BY DEF NamesTypeOK, NameRows, Namings
  <1>1. PICK next \in [names -> 0..Far] :
          /\ \A r \in names : IF NextFrom(r) = {} THEN next[r] = r.to ELSE next[r] \in NextFrom(r)
          /\ names' = {[r EXCEPT !.to = next[r]] : r \in names}
          /\ naming' = naming
    BY DEF AlignTimestamps
  <1>2. ASSUME NEW r \in names PROVE NextFrom(r) \subseteq Times
    <2> DEFINE others == {q \in names \ {r} : q.perp = r.perp}
               later == {q.from : q \in {p \in others : p.from > r.from}}
    <2>1. later \subseteq Times /\ {q.from : q \in {p \in others : p.from = r.from}} \subseteq Times
      BY <1>t, NameFields
    <2>2. later # {} => Min(later) \in Times
      <3>1. later \in SUBSET Nat
        BY <2>1, LastTime
      <3> HIDE DEF later
      <3> QED
        BY <2>1, <3>1, LeastElement
    <2> QED
      BY <2>1, <2>2 DEF NextFrom
  <1>3. ASSUME NEW r \in names PROVE next[r] \in Times \cup {Far}
    BY <1>1, <1>2, <1>t, NameFields
  <1> DEFINE moved(r) == [r EXCEPT !.to = next[r]]
  <1>4. ASSUME NEW r \in names PROVE moved(r) \in NameRows /\ moved(r).tx = r.tx
    BY <1>3, <1>t, NameFields DEF NameRows
  <1>5. names' = {moved(r) : r \in names}
    BY <1>1
  <1> HIDE DEF moved
  <1>6. \A n \in names' : \E r \in names : n = moved(r)
    BY <1>5
  <1>7. names' \subseteq NameRows /\ \A n, m \in names' : n.tx = m.tx => n = m
    BY <1>t, <1>4, <1>6
  <1> QED
    BY <1>1, <1>7, <1>t
-----------------------------------------------------------------------------
(* Earnings and withdrawals.                                               *)

EarningsRows == [pool : Pools, tx : Txs, type : EarningsTypes, who : Wallets,
                 shares : -NumEvents..NumEvents, by : Callers]
WithdrawalRows == [who : Wallets, tx : Txs, removal : BOOLEAN, by : Callers]
Bookings == [ev : Log, by : Callers, leg : EarningsLegs \cup {"price", "withdrawal"},
             seen : {"no", "absent", "present"}]

(* A handler is at a leg that its event has.                               *)
Fits(t) ==
    /\ Event[t.ev].kind # "oracles"
    /\ t.leg \in EarningsLegs => Event[t.ev].kind \in EarningsTypes
    /\ t.leg \in {"from", "to"} => Event[t.ev].kind = "transfer"

LegsFit == \A t \in booking : Fits(t)

LEMMA LiquidityTypes ==
    LiquidityTypeOK <=> /\ earnings \subseteq EarningsRows
                        /\ \A r, q \in earnings : r.pool = q.pool /\ r.tx = q.tx => r = q
                        /\ withdrawals \subseteq WithdrawalRows
                        /\ \A w, v \in withdrawals : w.who = v.who /\ w.tx = v.tx => w = v
                        /\ booking \subseteq Bookings
  BY DEF LiquidityTypeOK, EarningsRows, WithdrawalRows, Bookings

LEMMA LiquidityFields ==
    /\ \A r \in EarningsRows : r.pool \in Pools /\ r.tx \in Txs /\ r.type \in EarningsTypes
    /\ \A w \in WithdrawalRows : w.who \in Wallets /\ w.tx \in Txs
    /\ \A t \in Bookings : /\ t.ev \in Log /\ t.by \in Callers
                           /\ t.leg \in EarningsLegs \cup {"price", "withdrawal"}
                           /\ t.seen \in {"no", "absent", "present"}
  BY DEF EarningsRows, WithdrawalRows, Bookings

(* A new handler, the next leg of one, and what a lookup makes of it.       *)
LEMMA NewBookingType ==
    ASSUME NEW e \in Log, NEW by \in Callers, Event[e].kind # "oracles"
    PROVE  /\ NewBooking(e, by) \in Bookings /\ Fits(NewBooking(e, by))
           /\ NewBooking(e, by).seen = "no"
  BY EventTypes DEF NewBooking, Leg, FirstLeg, Bookings, Fits, EventKinds, EarningsTypes, EarningsLegs

LEMMA NextLegsType ==
    ASSUME NEW t \in Bookings, Fits(t), NEW n \in NextLegs(t)
    PROVE  n \in Bookings /\ Fits(n) /\ n.seen = "no"
  BY LiquidityFields DEF NextLegs, Leg, Bookings, Fits, EarningsTypes, EarningsLegs

LEMMA SeenType ==
    ASSUME NEW t \in Bookings, Fits(t), NEW s \in {"no", "absent", "present"}
    PROVE  [t EXCEPT !.seen = s] \in Bookings /\ Fits([t EXCEPT !.seen = s])
  BY DEF Bookings, Fits

(* The row of a handler, and that row after an update by the backfill.      *)
LEMMA SharesType ==
    ASSUME NEW t \in Bookings PROVE SharesOf(t) \in -NumEvents..NumEvents
  <1>1. t.ev \in 1..NumEvents /\ NumEvents \in Nat
    BY LiquidityFields, EventTypes DEF Log
  <1> QED
    BY <1>1 DEF SharesOf

LEMMA EarningsRowType ==
    ASSUME NEW t \in Bookings, Fits(t), t.leg \in EarningsLegs
    PROVE  EarningsRow(t) \in EarningsRows
  <1>1. /\ t.ev \in Log /\ t.by \in Callers /\ WalletOf(t) \in Wallets
        /\ Event[t.ev].about \in Pools /\ Event[t.ev].tx \in Txs
        /\ Event[t.ev].kind \in EarningsTypes
    BY LiquidityFields, EventTypes DEF WalletOf, Fits
  <1> QED
    BY <1>1, SharesType DEF EarningsRow, EarningsRows

LEMMA UpdatedRowType ==
    ASSUME NEW t \in Bookings, NEW r \in EarningsRows
    PROVE  [r EXCEPT !.by = "backfill", !.shares = SharesOf(t)] \in EarningsRows
  BY SharesType DEF EarningsRows, Callers

(* What the steps of a handler leave: handlers at legs they have.           *)
LEMMA ReturnsTypes ==
    ASSUME booking \subseteq Bookings, LegsFit, NEW t \in booking, Returns(t)
    PROVE  booking' \subseteq Bookings /\ LegsFit'
  <1>1. booking' = (booking \ {t}) \cup NextLegs(t) /\ t \in Bookings /\ Fits(t)
    BY DEF Returns, LegsFit
  <1>2. \A n \in booking' : n \in Bookings /\ Fits(n)
    BY <1>1, NextLegsType DEF LegsFit
  <1> QED
    BY <1>2 DEF LegsFit, Fits

LEMMA SeesTypes ==
    ASSUME booking \subseteq Bookings, LegsFit, NEW t \in booking,
           NEW s \in {"no", "absent", "present"},
           booking' = (booking \ {t}) \cup {[t EXCEPT !.seen = s]}
    PROVE  booking' \subseteq Bookings /\ LegsFit'
  <1>1. t \in Bookings /\ Fits(t)
    BY DEF LegsFit
  <1>2. \A n \in booking' : n \in Bookings /\ Fits(n)
    BY <1>1, SeenType DEF LegsFit
  <1> QED
    BY <1>2 DEF LegsFit, Fits

(* A write creates the row unless its key is taken, or changes a row but    *)
(* not its key.                                                            *)
LEMMA WriteEarningsTypes ==
    ASSUME LiquidityTypeOK, LegsFit, NEW t \in booking, WriteEarnings(t)
    PROVE  LiquidityTypeOK' /\ LegsFit'
  <1>t. /\ earnings \subseteq EarningsRows /\ withdrawals \subseteq WithdrawalRows
        /\ \A r, q \in earnings : r.pool = q.pool /\ r.tx = q.tx => r = q
        /\ \A w, v \in withdrawals : w.who = v.who /\ w.tx = v.tx => w = v
        /\ booking \subseteq Bookings /\ t \in Bookings /\ Fits(t)
    BY LiquidityTypes DEF LegsFit
  <1>1. booking' \subseteq Bookings /\ LegsFit' /\ withdrawals' = withdrawals
    BY <1>t, ReturnsTypes DEF WriteEarnings
  <1>2. earnings' \subseteq EarningsRows
        /\ \A r, q \in earnings' : r.pool = q.pool /\ r.tx = q.tx => r = q
    <2>1. CASE t.seen = "absent" /\ ~(\E r \in earnings : SameKey(r, t))
      <3>1. /\ earnings' = earnings \cup {EarningsRow(t)}
            /\ \A r \in earnings : ~SameKey(r, t)
        BY <2>1 DEF WriteEarnings
      <3>2. EarningsRow(t) \in EarningsRows
        BY <1>t, EarningsRowType DEF WriteEarnings
      <3>3. EarningsRow(t).pool = Event[t.ev].about /\ EarningsRow(t).tx = Event[t.ev].tx
        BY DEF EarningsRow
      <3> QED
        BY <1>t, <3>1, <3>2, <3>3 DEF SameKey
    <2>2. CASE t.seen = "present" /\ t.by = "backfill"
      <3> DEFINE updated(r) == IF SameKey(r, t)
                               THEN [r EXCEPT !.by = "backfill", !.shares = SharesOf(t)] ELSE r
      <3>1. earnings' = {updated(r) : r \in earnings}
        BY <2>2 DEF WriteEarnings
      <3>2. ASSUME NEW r \in earnings
            PROVE  updated(r) \in EarningsRows /\ updated(r).pool = r.pool /\ updated(r).tx = r.tx
        BY <1>t, UpdatedRowType DEF EarningsRows
      <3> HIDE DEF updated
      <3>3. \A n \in earnings' : \E r \in earnings : n = updated(r)
        BY <3>1
      <3> QED
        BY <1>t, <3>2, <3>3
    <2>3. CASE earnings' = earnings
      BY <1>t, <2>3
    <2> QED
      BY <2>1, <2>2, <2>3 DEF WriteEarnings
  <1> QED
    BY <1>t, <1>1, <1>2 DEF LiquidityTypeOK, EarningsRows, WithdrawalRows, Bookings

LEMMA WriteWithdrawalTypes ==
    ASSUME LiquidityTypeOK, LegsFit, NEW t \in booking, WriteWithdrawal(t)
    PROVE  LiquidityTypeOK' /\ LegsFit'
  <1>t. /\ earnings \subseteq EarningsRows /\ withdrawals \subseteq WithdrawalRows
        /\ \A r, q \in earnings : r.pool = q.pool /\ r.tx = q.tx => r = q
        /\ \A w, v \in withdrawals : w.who = v.who /\ w.tx = v.tx => w = v
        /\ booking \subseteq Bookings /\ t \in Bookings /\ Fits(t)
    BY LiquidityTypes DEF LegsFit
  <1>1. booking' \subseteq Bookings /\ LegsFit' /\ earnings' = earnings
    BY <1>t, ReturnsTypes DEF WriteWithdrawal
  <1> DEFINE key(w) == w.who = Event[t.ev].who /\ w.tx = Event[t.ev].tx
             row == [who |-> Event[t.ev].who, tx |-> Event[t.ev].tx,
                     removal |-> IsRemoval(t), by |-> t.by]
             confirmed(w) == IF key(w) THEN [w EXCEPT !.by = "backfill"] ELSE w
  <1>2. \/ withdrawals' = withdrawals \cup {row} /\ \A w \in withdrawals : ~key(w)
        \/ withdrawals' = {confirmed(w) : w \in withdrawals}
        \/ withdrawals' = withdrawals
    BY Zenon DEF WriteWithdrawal
  <1>3. withdrawals' \subseteq WithdrawalRows
        /\ \A w, v \in withdrawals' : w.who = v.who /\ w.tx = v.tx => w = v
    <2>1. CASE withdrawals' = withdrawals \cup {row} /\ \A w \in withdrawals : ~key(w)
      <3>1. Event[t.ev].who \in Wallets /\ Event[t.ev].tx \in Txs /\ t.by \in Callers
        BY <1>t, LiquidityFields, EventTypes
      <3>2. IsRemoval(t) \in BOOLEAN
        BY Zenon DEF IsRemoval
      <3>3. row \in WithdrawalRows
        BY <3>1, <3>2, Zenon DEF WithdrawalRows
      <3>4. row.who = Event[t.ev].who /\ row.tx = Event[t.ev].tx
        OBVIOUS
      <3> HIDE DEF row
      <3> QED
        BY <1>t, <2>1, <3>3, <3>4
    <2>2. CASE withdrawals' = {confirmed(w) : w \in withdrawals}
      <3>1. ASSUME NEW w \in withdrawals
            PROVE  confirmed(w) \in WithdrawalRows
                   /\ confirmed(w).who = w.who /\ confirmed(w).tx = w.tx
        BY <1>t DEF WithdrawalRows, Callers
      <3> HIDE DEF confirmed
      <3>2. \A n \in withdrawals' : \E w \in withdrawals : n = confirmed(w)
        BY <2>2
      <3> QED
        BY <1>t, <3>1, <3>2
    <2>3. CASE withdrawals' = withdrawals
      BY <1>t, <2>3
    <2> QED
      BY <1>2, <2>1, <2>2, <2>3
  <1> QED
    BY <1>t, <1>1, <1>3 DEF LiquidityTypeOK, EarningsRows, WithdrawalRows, Bookings

LEMMA BookingTypes ==
    ASSUME LiquidityTypeOK, LegsFit, NEW t \in booking,
           BookingStep(t) \/ LookupFails(t) \/ WriteFails(t)
    PROVE  LiquidityTypeOK' /\ LegsFit'
  <1>t. booking \subseteq Bookings
    BY LiquidityTypes
  <1>s. ASSUME booking' \subseteq Bookings /\ LegsFit',
               earnings' = earnings /\ withdrawals' = withdrawals
        PROVE  LiquidityTypeOK' /\ LegsFit'
    BY <1>s DEF LiquidityTypeOK, Bookings
  <1>1. CASE FindEarnings(t)
    <2>1. PICK s \in {"no", "absent", "present"} :
             booking' = (booking \ {t}) \cup {[t EXCEPT !.seen = s]}
      <3> DEFINE s == IF FoundEarnings(t) THEN "present" ELSE "absent"
      <3>1. s \in {"no", "absent", "present"}
        OBVIOUS
      <3>2. booking' = (booking \ {t}) \cup {[t EXCEPT !.seen = s]}
        BY <1>1 DEF FindEarnings
      <3> QED
        BY <3>1, <3>2
    <2> QED
      BY <1>1, <1>t, <1>s, <2>1, SeesTypes DEF FindEarnings
  <1>2. CASE FindWithdrawal(t)
    <2>1. PICK s \in {"no", "absent", "present"} :
             booking' = (booking \ {t}) \cup {[t EXCEPT !.seen = s]}
      <3> DEFINE found == \E w \in withdrawals : /\ w.tx = Event[t.ev].tx /\ w.who = Event[t.ev].who
                                                 /\ w.removal = IsRemoval(t)
                 s == IF found THEN "present" ELSE "absent"
      <3>1. s \in {"no", "absent", "present"}
        OBVIOUS
      <3>2. booking' = (booking \ {t}) \cup {[t EXCEPT !.seen = s]}
        BY <1>2, Zenon DEF FindWithdrawal
      <3> QED
        BY <3>1, <3>2
    <2> QED
      BY <1>2, <1>t, <1>s, <2>1, SeesTypes DEF FindWithdrawal
  <1>3. CASE NotePrice(t)
    BY <1>3, <1>t, <1>s, ReturnsTypes DEF NotePrice
  <1>4. CASE LookupFails(t)
    BY <1>4, <1>t, <1>s DEF LookupFails, LegsFit, Fits
  <1>5. CASE WriteFails(t)
    BY <1>5, <1>t, <1>s, ReturnsTypes DEF WriteFails
  <1> QED
    BY <1>1, <1>2, <1>3, <1>4, <1>5, WriteEarningsTypes, WriteWithdrawalTypes DEF BookingStep
-----------------------------------------------------------------------------
(* The service: what is under way and what has been handed over.           *)

Runs == [phase : {"idle", "scan", "align"}, skip : BOOLEAN,
         added : Times \cup {0}, initiated : Times \cup {0}, oracles : Times \cup {0},
         pools : [Pools -> Times \cup {0}], read : BOOLEAN,
         pos : 1..NumEvents + 1, last : 0..NumEvents]
Scans == [pool : Pools, todo : (SUBSET OfKind("transfer")) \ {{}}]

ServiceTypeOK ==
    /\ mined \in 0..NumEvents /\ up \in BOOLEAN /\ run \in Runs
    /\ p2p \subseteq Scans /\ lost \subseteq Log /\ faults \in 0..MaxFaults

TablesTypeOK == NamesTypeOK /\ LiquidityTypeOK /\ LegsFit

LEMMA TypesInParts == TypeOK <=> NamesTypeOK /\ LiquidityTypeOK /\ ServiceTypeOK
  BY Zenon DEF TypeOK, ServiceTypeOK, Runs, Scans

LEMMA ScanFields ==
    /\ \A s \in Scans : /\ s.pool \in Pools /\ s.todo \in SUBSET OfKind("transfer")
                        /\ s.todo # {} /\ s.todo \in SUBSET Nat /\ s.todo \subseteq Log
                        /\ Min(s.todo) \in s.todo /\ Min(s.todo) \in Log
  <1> SUFFICES ASSUME NEW s \in Scans
               PROVE  /\ s.pool \in Pools /\ s.todo \in SUBSET OfKind("transfer")
                      /\ s.todo # {} /\ s.todo \in SUBSET Nat /\ s.todo \subseteq Log
                      /\ Min(s.todo) \in s.todo /\ Min(s.todo) \in Log
    OBVIOUS
  <1>1. s.pool \in Pools /\ s.todo \in SUBSET OfKind("transfer") /\ s.todo # {}
    BY DEF Scans
  <1>2. s.todo \in SUBSET Nat /\ s.todo \subseteq Log
    BY <1>1, EventTypes DEF OfKind, Log
  <1> QED
    BY <1>1, <1>2, LeastElement

LEMMA IdleType == Idle \in Runs
  <1>1. /\ [p \in Pools |-> 0] \in [Pools -> Times \cup {0}]
        /\ 1 \in 1..NumEvents + 1 /\ 0 \in 0..NumEvents
    BY EventTypes
  <1> QED
    BY <1>1, Zenon DEF Idle, Runs

(* An insert begins at the first query of its event's kind.                 *)
LEMMA InsertTypes ==
    ASSUME TablesTypeOK, NEW e \in Log, NEW by \in Callers, StartInsert(e, by)
    PROVE  TablesTypeOK'
  <1>1. CASE Event[e].kind = "oracles"
    <2>1. naming' = naming \cup {NewName(e, by)} /\ names' = names
          /\ UNCHANGED liquidityVars
      BY <1>1 DEF StartInsert
    <2>2. NewName(e, by) \in Namings
      BY <1>1, EventTypes, NameFields
    <2>3. naming \subseteq Namings
      BY NamesTypes DEF TablesTypeOK
    <2>4. NamesTypeOK'
      BY <2>1, <2>2, <2>3 DEF TablesTypeOK, NamesTypeOK, Namings
    <2>5. LiquidityTypeOK' /\ LegsFit'
      BY <2>1 DEF liquidityVars, TablesTypeOK, LiquidityTypeOK, LegsFit, Fits
    <2> QED
      BY <2>4, <2>5 DEF TablesTypeOK
  <1>2. CASE Event[e].kind # "oracles"
    <2>1. /\ booking' = booking \cup {NewBooking(e, by)} /\ UNCHANGED nameVars
          /\ UNCHANGED <<earnings, withdrawals>>
      BY <1>2 DEF StartInsert
    <2>2. booking' \subseteq Bookings
      BY <2>1, <1>2, NewBookingType, LiquidityTypes DEF TablesTypeOK
    <2>3. LegsFit'
      <3>1. \A t \in booking' : Fits(t)
        BY <2>1, <1>2, NewBookingType DEF TablesTypeOK, LegsFit
      <3> QED
        BY <3>1 DEF LegsFit, Fits
    <2>4. LiquidityTypeOK'
      BY <2>1, <2>2 DEF TablesTypeOK, LiquidityTypeOK, Bookings
    <2>5. NamesTypeOK'
      BY <2>1 DEF nameVars, TablesTypeOK, NamesTypeOK
    <2> QED
      BY <2>3, <2>4, <2>5 DEF TablesTypeOK
  <1> QED
    BY <1>1, <1>2

(* The tables and the inserts in flight keep their types when they do not   *)
(* change.                                                                 *)
LEMMA TablesStutter ==
    ASSUME UNCHANGED <<nameVars, liquidityVars>>, TablesTypeOK PROVE TablesTypeOK'
  BY DEF nameVars, liquidityVars, TablesTypeOK, NamesTypeOK, LiquidityTypeOK, LegsFit, Fits

LEMMA InitTypes == Init => TypeOK /\ LegsFit
  <1> SUFFICES ASSUME Init PROVE TypeOK /\ LegsFit
    OBVIOUS
  <1>1. NamesTypeOK /\ LiquidityTypeOK /\ LegsFit
    BY DEF Init, NamesInit, LiquidityInit, NamesTypeOK, LiquidityTypeOK, LegsFit
  <1>2. ServiceTypeOK
    <2>1. mined \in 0..NumEvents /\ faults \in 0..MaxFaults
      BY EventTypes, TablesAssumption DEF Init
    <2>2. up \in BOOLEAN /\ run \in Runs /\ p2p \subseteq Scans /\ lost \subseteq Log
      BY IdleType, Zenon DEF Init
    <2> QED
      BY <2>1, <2>2 DEF ServiceTypeOK
  <1> QED
    BY <1>1, <1>2, TypesInParts

(* What happens to the tables in a step: an insert begins, a query of one   *)
(* returns or throws, the repair runs, they vanish with the process, or    *)
(* nothing.                                                                *)
LEMMA TablesNext ==
    ASSUME TypeOK, LegsFit, [Next]_vars PROVE TablesTypeOK'
  <1>t. TablesTypeOK /\ ServiceTypeOK
    BY TypesInParts DEF TablesTypeOK
  <1>n. ASSUME NamesTypeOK', UNCHANGED liquidityVars PROVE TablesTypeOK'
    BY <1>n, <1>t DEF liquidityVars, TablesTypeOK, LiquidityTypeOK, LegsFit, Fits
  <1>l. ASSUME LiquidityTypeOK' /\ LegsFit', UNCHANGED nameVars PROVE TablesTypeOK'
    BY <1>l, <1>t DEF nameVars, TablesTypeOK, NamesTypeOK
  <1>1. CASE Mine
    <2>1. mined + 1 \in Log /\ "live" \in Callers
      BY <1>1, <1>t, EventTypes DEF Mine, ServiceTypeOK, Log, Callers
    <2>2. StartInsert(mined + 1, "live") \/ UNCHANGED <<nameVars, liquidityVars>>
      BY <1>1, Zenon DEF Mine
    <2> QED
      BY <1>t, <2>1, <2>2, InsertTypes, TablesStutter
  <1>2. CASE Start \/ Redundancy \/ ReadPools \/ ScanTransfers \/ ScanFails \/ UNCHANGED vars
    <2>1. UNCHANGED <<nameVars, liquidityVars>>
      BY <1>2 DEF Start, Redundancy, ReadPools, ScanTransfers, ScanFails, vars
    <2> QED
      BY <1>t, <2>1, TablesStutter
  <1>3. CASE HandNext
    <2>1. run.pos \in Log /\ "backfill" \in Callers
      <3>1. run.pos \in Nat /\ run.pos >= 1 /\ run.pos <= run.last /\ run.last <= NumEvents
            /\ run.last \in Nat
        BY <1>3, <1>t, EventTypes DEF HandNext, ServiceTypeOK, Runs
      <3> QED
        BY <3>1, EventTypes DEF Log, Callers
    <2>2. StartInsert(run.pos, "backfill") \/ UNCHANGED <<nameVars, liquidityVars>>
      BY <1>3, Zenon DEF HandNext
    <2> QED
      BY <1>t, <2>1, <2>2, InsertTypes, TablesStutter
  <1>4. CASE Align
    BY <1>4, <1>t, <1>n, AlignTypes DEF Align, TablesTypeOK
  <1>5. ASSUME NEW t \in naming, NameInsert(t) PROVE TablesTypeOK'
    BY <1>5, <1>t, <1>n, NameStepTypes DEF NameInsert, TablesTypeOK
  <1>6. ASSUME NEW t \in booking, Booking(t) PROVE TablesTypeOK'
    BY <1>6, <1>t, <1>l, BookingTypes DEF Booking, TablesTypeOK
  <1>7. ASSUME NEW s \in p2p, HandTransfer(s) PROVE TablesTypeOK'
    <2>1. Min(s.todo) \in Log /\ "backfill" \in Callers
      BY <1>t, ScanFields DEF ServiceTypeOK, Callers
    <2> QED
      BY <1>7, <1>t, <2>1, InsertTypes DEF HandTransfer
  <1>8. CASE InsertFails
    <2>1. CASE \E t \in naming : NameFails(t) /\ UNCHANGED liquidityVars
      BY <2>1, <1>t, <1>n, NameStepTypes DEF TablesTypeOK
    <2>2. CASE \E t \in booking : (LookupFails(t) \/ WriteFails(t)) /\ UNCHANGED nameVars
      BY <2>2, <1>t, <1>l, BookingTypes DEF TablesTypeOK
    <2> QED
      BY <1>8, <2>1, <2>2 DEF InsertFails
  <1>9. CASE Crash
    BY <1>9, <1>t DEF Crash, TablesTypeOK, NamesTypeOK, LiquidityTypeOK, LegsFit
  <1> QED
    BY <1>1, <1>2, <1>3, <1>4, <1>5, <1>6, <1>7, <1>8, <1>9 DEF Next, RunStep
LEMMA RunFields ==
    \A r \in Runs : /\ r.phase \in {"idle", "scan", "align"}
                    /\ r.pos \in 1..NumEvents + 1 /\ r.last \in 0..NumEvents
                    /\ \A q \in 1..NumEvents + 1 : [r EXCEPT !.pos = q] \in Runs
                    /\ \A m \in [Pools -> Times \cup {0}] :
                          [r EXCEPT !.read = TRUE, !.pools = m] \in Runs
  <1> SUFFICES ASSUME NEW r \in Runs
               PROVE  /\ r.phase \in {"idle", "scan", "align"}
                      /\ r.pos \in 1..NumEvents + 1 /\ r.last \in 0..NumEvents
                      /\ \A q \in 1..NumEvents + 1 : [r EXCEPT !.pos = q] \in Runs
                      /\ \A m \in [Pools -> Times \cup {0}] :
                            [r EXCEPT !.read = TRUE, !.pools = m] \in Runs
    OBVIOUS
  <1>1. /\ r.phase \in {"idle", "scan", "align"}
        /\ r.pos \in 1..NumEvents + 1 /\ r.last \in 0..NumEvents
    BY DEF Runs
  <1>2. ASSUME NEW q \in 1..NumEvents + 1 PROVE [r EXCEPT !.pos = q] \in Runs
    BY Zenon DEF Runs
  <1>3. ASSUME NEW m \in [Pools -> Times \cup {0}]
        PROVE  [r EXCEPT !.read = TRUE, !.pools = m] \in Runs
    BY Zenon DEF Runs
  <1> QED
    BY <1>1, <1>2, <1>3

LEMMA FaultsType ==
    ASSUME ServiceTypeOK, NEW events \in SUBSET Log, Fail(events)
    PROVE  lost' \subseteq Log /\ faults' \in 0..MaxFaults
  <1>1. faults' = faults + 1 /\ faults < MaxFaults /\ faults \in 0..MaxFaults
        /\ MaxFaults \in Nat /\ lost' = lost \cup events /\ lost \subseteq Log
    BY TablesAssumption DEF Fail, ServiceTypeOK
  <1> QED
    BY <1>1

(* A timer's run reads watermarks, which are times of rows.                 *)
LEMMA RedundancyType ==
    ASSUME TypeOK, Redundancy
    PROVE  run' \in Runs
  <1>1. LatestAdded \in Times \cup {0} /\ LatestInitiated \in Times \cup {0}
    <2>1. /\ \A r \in earnings : r.tx \in Txs
          /\ \A w \in withdrawals : w.tx \in Txs
      BY LiquidityTypes, LiquidityFields DEF TypeOK
    <2> QED
      BY <2>1, LatestType DEF LatestAdded, LatestInitiated
  <1>2. LatestName \in Times \cup {0}
    <2>0. \A r \in names : r.from \in Times
      BY TypesInParts, NamesTypes, NameFields
    <2>1. {r.from : r \in names} \in SUBSET (Times \cup {0})
      BY <2>0
    <2> QED
      BY <2>1, WatermarkType DEF LatestName
  <1>3. mined \in 0..NumEvents
    BY TypesInParts DEF ServiceTypeOK
  <1>4. \A a, i, o \in Times \cup {0}, m \in 0..NumEvents :
           [Idle EXCEPT !.phase = "scan", !.skip = TRUE, !.last = m,
                        !.added = a, !.initiated = i, !.oracles = o] \in Runs
    BY IdleType, Zenon DEF Runs
  <1> QED
    BY <1>1, <1>2, <1>3, <1>4 DEF Redundancy

(* Each step keeps the run within its events, the scans among transfers and *)
(* the failures within their bound.                                        *)
LEMMA ServiceNext ==
    ASSUME TypeOK, [Next]_vars PROVE ServiceTypeOK'
  <1>t. ServiceTypeOK /\ NumEvents \in Nat \ {0} /\ run \in Runs /\ p2p \subseteq Scans
    BY TypesInParts, EventTypes DEF ServiceTypeOK
  <1>s. ASSUME mined' \in 0..NumEvents, up' = up \/ up' \in BOOLEAN,
               run' \in Runs, p2p' \subseteq Scans,
               lost' \subseteq Log /\ faults' \in 0..MaxFaults
        PROVE  ServiceTypeOK'
    <2>1. up' \in BOOLEAN
      BY <1>s, <1>t, Zenon DEF ServiceTypeOK
    <2>2. (run \in Runs)' /\ (p2p \subseteq Scans)'
      BY <1>s
    <2> QED
      BY <1>s, <2>1, <2>2, Zenon DEF ServiceTypeOK, Runs, Scans
  <1>f. mined \in 0..NumEvents /\ lost \subseteq Log /\ faults \in 0..MaxFaults
    BY <1>t DEF ServiceTypeOK
  <1>1. CASE Mine
    <2>1. mined' \in 0..NumEvents
      BY <1>1, <1>t, <1>f DEF Mine
    <2> QED
      BY <1>1, <1>t, <1>f, <1>s, <2>1 DEF Mine
  <1>2. CASE Start
    <2>1. [Idle EXCEPT !.phase = "scan", !.last = mined] \in Runs
      BY <1>f, IdleType, Zenon DEF Runs
    <2>2. up' \in BOOLEAN
      BY <1>2, Zenon DEF Start
    <2> QED
      BY <1>2, <1>t, <1>f, <1>s, <2>1, <2>2 DEF Start
  <1>3. CASE Redundancy
    <2>1. run' \in Runs
      BY <1>3, RedundancyType
    <2> QED
      BY <1>3, <1>t, <1>f, <1>s, <2>1 DEF Redundancy
  <1>4. CASE ReadPools
    <2>1. \A r \in earnings : r.tx \in Txs
      BY LiquidityTypes, LiquidityFields DEF TypeOK
    <2>2. [p \in Pools |-> LatestOfPool(p)] \in [Pools -> Times \cup {0}]
      BY <2>1, LatestType DEF LatestOfPool
    <2>3. run' \in Runs
      BY <1>4, <1>t, <2>2, RunFields DEF ReadPools
    <2> QED
      BY <1>4, <1>t, <1>f, <1>s, <2>3 DEF ReadPools
  <1>5. CASE HandNext
    <2>1. run.pos \in 1..NumEvents + 1 /\ run.last \in 0..NumEvents /\ run.pos <= run.last
      BY <1>5, <1>t, RunFields DEF HandNext
    <2>2. run.pos + 1 \in 1..NumEvents + 1
      BY <1>t, <2>1
    <2>3. run' \in Runs
      BY <1>5, <1>t, <2>2, RunFields DEF HandNext
    <2> QED
      BY <1>5, <1>t, <1>f, <1>s, <2>3 DEF HandNext
  <1>6. CASE ScanTransfers
    <2>1. run' \in Runs
      BY <1>6, IdleType, Zenon DEF ScanTransfers, Runs
    <2>2. ASSUME NEW p \in Pools, TransfersSince(p) # {}
          PROVE  [pool |-> p, todo |-> TransfersSince(p)] \in Scans
      BY <2>2 DEF TransfersSince, Scans
    <2>3. p2p' \subseteq Scans
      BY <1>6, <1>t, <2>2 DEF ScanTransfers
    <2> QED
      BY <1>6, <1>t, <1>f, <1>s, <2>1, <2>3 DEF ScanTransfers
  <1>7. CASE Align
    BY <1>7, <1>t, <1>f, <1>s, IdleType DEF Align
  <1>8. CASE \E t \in naming : NameInsert(t)
    BY <1>8, <1>t, <1>f, <1>s DEF NameInsert, serviceVars
  <1>9. CASE \E t \in booking : Booking(t)
    BY <1>9, <1>t, <1>f, <1>s DEF Booking, serviceVars
  <1>10. ASSUME NEW s \in p2p, HandTransfer(s) PROVE ServiceTypeOK'
    <2>1. ASSUME s.todo \ {Min(s.todo)} # {}
          PROVE  [s EXCEPT !.todo = @ \ {Min(s.todo)}] \in Scans
      BY <1>t, <2>1, ScanFields DEF Scans
    <2>2. p2p' \subseteq Scans
      BY <1>10, <1>t, <2>1 DEF HandTransfer, Scans
    <2> QED
      BY <1>10, <1>t, <1>f, <1>s, <2>2 DEF HandTransfer
  <1>11. CASE InsertFails
    <2>1. /\ \A t \in naming : t.ev \in Log
          /\ \A t \in booking : t.ev \in Log
      BY NamesTypes, NameFields, LiquidityTypes, LiquidityFields DEF TypeOK
    <2>2. \E e \in Log : Fail({e})
      BY <1>11, <2>1 DEF InsertFails
    <2>3. lost' \subseteq Log /\ faults' \in 0..MaxFaults
      BY <1>t, <2>2, FaultsType
    <2> QED
      BY <1>11, <1>t, <1>f, <1>s, <2>3 DEF InsertFails
  <1>12. CASE ScanFails
    <2>1. {e \in run.pos..run.last : ~Skipped(e)} \in SUBSET Log
      <3>1. run.pos \in 1..NumEvents + 1 /\ run.last \in 0..NumEvents
        BY <1>t, RunFields
      <3> QED
        BY <1>t, <3>1 DEF Log
    <2>2. \A s \in p2p : s.todo \in SUBSET Log
      BY <1>t, ScanFields
    <2>3. \E events \in SUBSET Log : Fail(events)
      BY <1>12, <2>1, <2>2, Zenon DEF ScanFails
    <2>4. lost' \subseteq Log /\ faults' \in 0..MaxFaults
      BY <1>t, <2>3, FaultsType
    <2>5. run' \in Runs /\ p2p' \subseteq Scans
      BY <1>12, <1>t, IdleType DEF ScanFails
    <2> QED
      BY <1>12, <1>t, <1>f, <1>s, <2>4, <2>5 DEF ScanFails
  <1>13. CASE Crash
    <2>1. Fail({}) /\ up' \in BOOLEAN
      BY <1>13, Zenon DEF Crash
    <2>2. lost' \subseteq Log /\ faults' \in 0..MaxFaults
      BY <1>t, <2>1, FaultsType
    <2> QED
      BY <1>13, <1>t, <1>f, <1>s, <2>1, <2>2, IdleType DEF Crash
  <1>14. CASE UNCHANGED vars
    BY <1>14, <1>t, <1>f, <1>s DEF vars, serviceVars
  <1> QED
    BY <1>1, <1>2, <1>3, <1>4, <1>5, <1>6, <1>7, <1>8, <1>9, <1>10, <1>11, <1>12, <1>13, <1>14
       DEF Next, RunStep

(* Types of all variables, one row per key in each table, and handlers at   *)
(* the legs of their events.                                               *)
THEOREM TypesAndLegs == Spec => [](TypeOK /\ LegsFit)
  <1>1. TypeOK /\ LegsFit /\ [Next]_vars => (TypeOK /\ LegsFit)'
    <2> SUFFICES ASSUME TypeOK, LegsFit, [Next]_vars PROVE TypeOK' /\ LegsFit'
      OBVIOUS
    <2>1. NamesTypeOK' /\ LiquidityTypeOK' /\ LegsFit'
      BY TablesNext DEF TablesTypeOK
    <2>2. ServiceTypeOK'
      BY ServiceNext
    <2> QED
      BY <2>1, <2>2, Zenon DEF TypeOK, ServiceTypeOK, Runs, Scans
  <1> QED
    BY <1>1, InitTypes, PTL DEF Spec

(* Types, and one row per key of each of the three tables, whatever inserts *)
(* run into each other.                                                    *)
THEOREM TypeCorrect == Spec => []TypeOK
  BY TypesAndLegs, PTL
-----------------------------------------------------------------------------
(* Amounts.                                                                *)

(* No transaction has two events of a type of the earnings.                 *)
OneOfAType ==
    \A k \in EarningsTypes : \A e, f \in OfKind(k) : Event[e].tx = Event[f].tx => e = f

(* A row is the one its event asks for.                                    *)
OfEvent(r, e) ==
    /\ Event[e].tx = r.tx /\ Event[e].about = r.pool
    /\ r.type # "transfer" =>
          r.who = Event[e].who /\ r.shares = IF r.type = "added" THEN -e ELSE e

Traced == \A r \in earnings : \E e \in OfKind(r.type) : OfEvent(r, e)

(* A row that a lookup has found is still there when the answer is used.    *)
LookupsStand ==
    \A t \in booking : t.leg \in EarningsLegs /\ t.seen = "present" => FoundEarnings(t)

(* SharesTrue is not inductive: a handler that was told that its row is     *)
(* there updates the row with its pool and transaction, and that this is   *)
(* the row it found, of its own event, needs transfers to be traced too and *)
(* what lookups have seen.                                                 *)
SharesIInv == TypeOK /\ LegsFit /\ Traced /\ LookupsStand

LEMMA Undisturbed ==
    ASSUME Traced, LookupsStand, earnings' = earnings,
           \A n \in booking' : n \in booking \/ n.seen = "no"
    PROVE  Traced' /\ LookupsStand'
  BY DEF Traced, OfEvent, LookupsStand, FoundEarnings

LEMMA NextLegsUnseen ==
    ASSUME NEW t \in booking, booking \subseteq Bookings, LegsFit, Returns(t)
    PROVE  \A n \in booking' : n \in booking \/ n.seen = "no"
  BY NextLegsType DEF Returns, LegsFit

(* Amount and wallet of a row of added or removed liquidity.                *)
LEMMA OwnRow ==
    ASSUME NEW t \in Bookings, Fits(t), t.leg \in EarningsLegs, Event[t.ev].kind # "transfer"
    PROVE  /\ WalletOf(t) = Event[t.ev].who
           /\ SharesOf(t) = IF Event[t.ev].kind = "added" THEN -t.ev ELSE t.ev
  BY DEF Fits, WalletOf, SharesOf

LEMMA FindEarningsShares ==
    ASSUME Traced, LookupsStand, NEW t \in booking, booking \subseteq Bookings, FindEarnings(t)
    PROVE  Traced' /\ LookupsStand'
  <1>1. earnings' = earnings
    BY DEF FindEarnings
  <1>2. ASSUME NEW n \in booking', n.leg \in EarningsLegs, n.seen = "present"
        PROVE  FoundEarnings(n)
    <2>1. CASE n \in booking
      BY <1>2, <2>1 DEF LookupsStand
    <2>2. CASE n = [t EXCEPT !.seen = IF FoundEarnings(t) THEN "present" ELSE "absent"]
      <3>1. t \in Bookings
        OBVIOUS
      <3>2. n.ev = t.ev /\ n.seen = IF FoundEarnings(t) THEN "present" ELSE "absent"
        BY <2>2, <3>1 DEF Bookings
      <3>3. FoundEarnings(t)
        BY <1>2, <3>2
      <3> QED
        BY <3>2, <3>3 DEF FoundEarnings
    <2> QED
      BY <2>1, <2>2 DEF FindEarnings
  <1> QED
    BY <1>1, <1>2 DEF Traced, OfEvent, LookupsStand, FoundEarnings

(* The row that is updated is the one that was found.                      *)
LEMMA WriteEarningsShares ==
    ASSUME OneOfAType, TypeOK, LegsFit, Traced, LookupsStand, NEW t \in booking, WriteEarnings(t)
    PROVE  Traced' /\ LookupsStand'
  <1>t. /\ earnings \subseteq EarningsRows /\ booking \subseteq Bookings
        /\ \A r, q \in earnings : r.pool = q.pool /\ r.tx = q.tx => r = q
        /\ t \in Bookings /\ Fits(t) /\ t.ev \in Log /\ t.leg \in EarningsLegs
        /\ Event[t.ev].kind \in EarningsTypes /\ t.ev \in OfKind(Event[t.ev].kind)
    BY TypesInParts, LiquidityTypes, LiquidityFields, EventTypes DEF LegsFit, WriteEarnings, Fits
  <1>u. \A n \in booking' : n \in booking \/ n.seen = "no"
    BY <1>t, NextLegsUnseen DEF WriteEarnings
  <1>1. CASE earnings' = earnings
    BY <1>1, <1>u, Undisturbed
  <1>2. CASE earnings' = earnings \cup {EarningsRow(t)}
    <2> DEFINE row == EarningsRow(t)
    <2>1. row.type = Event[t.ev].kind /\ OfEvent(row, t.ev)
      BY <1>t, OwnRow DEF EarningsRow, OfEvent
    <2>2. Traced'
      BY <1>2, <1>t, <2>1 DEF Traced, OfEvent
    <2>3. LookupsStand'
      BY <1>2, <1>u DEF LookupsStand, FoundEarnings
    <2> QED
      BY <2>2, <2>3
  <1>3. CASE t.seen = "present" /\ t.by = "backfill"
    <2> DEFINE updated(r) == IF SameKey(r, t)
                             THEN [r EXCEPT !.by = "backfill", !.shares = SharesOf(t)] ELSE r
    <2>1. earnings' = {updated(r) : r \in earnings}
      BY <1>3 DEF WriteEarnings
    <2>2. PICK f \in earnings : f.tx = Event[t.ev].tx /\ f.type = Event[t.ev].kind
      BY <1>3, <1>t DEF LookupsStand, FoundEarnings
    <2>3. f.pool = Event[t.ev].about
      <3>1. PICK e \in OfKind(f.type) : OfEvent(f, e)
        BY DEF Traced
      <3>2. e = t.ev
        BY <1>t, <2>2, <3>1 DEF OneOfAType, OfEvent
      <3> QED
        BY <3>1, <3>2 DEF OfEvent
    <2>4. ASSUME NEW r \in earnings, SameKey(r, t) PROVE r.type = Event[t.ev].kind
      BY <1>t, <2>2, <2>3, <2>4 DEF SameKey
    <2>5. ASSUME NEW r \in earnings
          PROVE  /\ updated(r).tx = r.tx /\ updated(r).type = r.type
                 /\ \E e \in OfKind(r.type) : OfEvent(updated(r), e)
      <3>1. r \in EarningsRows
        BY <1>t
      <3>2. CASE SameKey(r, t)
        <4> DEFINE n == [r EXCEPT !.by = "backfill", !.shares = SharesOf(t)]
        <4>1. /\ n.tx = r.tx /\ n.type = r.type /\ n.pool = r.pool /\ n.who = r.who
              /\ n.shares = SharesOf(t)
          BY <3>1 DEF EarningsRows
        <4>2. PICK e \in OfKind(r.type) : OfEvent(r, e)
          BY DEF Traced
        <4>3. e = t.ev /\ r.type = Event[t.ev].kind
          BY <1>t, <2>4, <3>2, <4>2 DEF OneOfAType, OfEvent, SameKey
        <4>4. updated(r) = n
          BY <3>2
        <4> HIDE DEF n, updated
        <4>5. OfEvent(n, e)
          BY <1>t, <4>1, <4>2, <4>3, OwnRow DEF OfEvent
        <4> QED
          BY <4>1, <4>4, <4>5
      <3>3. CASE ~SameKey(r, t)
        BY <3>3 DEF Traced
      <3> QED
        BY <3>2, <3>3
    <2> HIDE DEF updated
    <2>6. \A n \in earnings' : \E r \in earnings : n = updated(r)
      BY <2>1
    <2>7. Traced'
      <3>1. \A n \in earnings' : \E e \in OfKind(n.type) : OfEvent(n, e)
        BY <2>5, <2>6
      <3> QED
        BY <3>1 DEF Traced, OfEvent
    <2>8. LookupsStand'
      <3>1. \A r \in earnings : updated(r) \in earnings'
        BY <2>1
      <3>2. ASSUME NEW n \in booking', n.leg \in EarningsLegs, n.seen = "present"
            PROVE  \E r \in earnings' : r.tx = Event[n.ev].tx /\ r.type = Event[n.ev].kind
        <4>1. n \in booking
          BY <1>u, <3>2
        <4>2. PICK r \in earnings : r.tx = Event[n.ev].tx /\ r.type = Event[n.ev].kind
          BY <3>2, <4>1 DEF LookupsStand, FoundEarnings
        <4> QED
          BY <2>5, <3>1, <4>2
      <3> QED
        BY <3>2 DEF LookupsStand, FoundEarnings
    <2> QED
      BY <2>7, <2>8
  <1> QED
    BY <1>1, <1>2, <1>3 DEF WriteEarnings

LEMMA SharesNext ==
    ASSUME OneOfAType, SharesIInv, [Next]_vars PROVE Traced' /\ LookupsStand'
  <1>t. /\ TypeOK /\ LegsFit /\ Traced /\ LookupsStand /\ booking \subseteq Bookings
    BY TypesInParts, LiquidityTypes DEF SharesIInv
  <1>i. ASSUME NEW e \in Log, NEW by \in Callers, StartInsert(e, by)
        PROVE  Traced' /\ LookupsStand'
    <2>1. CASE Event[e].kind = "oracles"
      BY <1>i, <1>t, <2>1, Undisturbed DEF StartInsert, liquidityVars
    <2>2. CASE Event[e].kind # "oracles"
      BY <1>i, <1>t, <2>2, NewBookingType, Undisturbed DEF StartInsert
    <2> QED
      BY <2>1, <2>2
  <1>u. ASSUME UNCHANGED liquidityVars PROVE Traced' /\ LookupsStand'
    BY <1>u, <1>t, Undisturbed DEF liquidityVars
  <1>1. CASE Mine
    <2>1. mined + 1 \in Log /\ "live" \in Callers
      BY <1>1, <1>t, TypesInParts, EventTypes DEF Mine, ServiceTypeOK, Log, Callers
    <2>2. StartInsert(mined + 1, "live") \/ UNCHANGED liquidityVars
      BY <1>1, Zenon DEF Mine
    <2> QED
      BY <2>1, <2>2, <1>i, <1>u
  <1>2. CASE Start \/ Redundancy \/ ReadPools \/ ScanTransfers \/ ScanFails \/ Align \/ UNCHANGED vars
    <2>1. UNCHANGED liquidityVars
      BY <1>2 DEF Start, Redundancy, ReadPools, ScanTransfers, ScanFails, Align, vars
    <2> QED
      BY <2>1, <1>u
  <1>3. CASE HandNext
    <2>1. run.pos \in Log /\ "backfill" \in Callers
      <3>1. run.pos \in Nat /\ run.pos >= 1 /\ run.pos <= run.last /\ run.last <= NumEvents
            /\ run.last \in Nat
        BY <1>3, <1>t, TypesInParts, EventTypes DEF HandNext, ServiceTypeOK, Runs
      <3> QED
        BY <3>1, EventTypes DEF Log, Callers
    <2>2. StartInsert(run.pos, "backfill") \/ UNCHANGED liquidityVars
      BY <1>3, Zenon DEF HandNext
    <2> QED
      BY <2>1, <2>2, <1>i, <1>u
  <1>4. CASE \E t \in naming : NameInsert(t)
    BY <1>4, <1>u DEF NameInsert
  <1>5. ASSUME NEW t \in booking, Booking(t) PROVE Traced' /\ LookupsStand'
    <2>1. CASE FindEarnings(t)
      BY <2>1, <1>t, FindEarningsShares
    <2>2. CASE WriteEarnings(t)
      BY <2>2, <1>t, WriteEarningsShares
    <2>3. CASE NotePrice(t) \/ WriteWithdrawal(t)
      BY <2>3, <1>t, NextLegsUnseen, Undisturbed DEF NotePrice, WriteWithdrawal
    <2>4. CASE FindWithdrawal(t)
      <3> DEFINE found == \E w \in withdrawals : /\ w.tx = Event[t.ev].tx /\ w.who = Event[t.ev].who
                                                 /\ w.removal = IsRemoval(t)
                 s == IF found THEN "present" ELSE "absent"
                 n == [t EXCEPT !.seen = s]
      <3>1. booking' = (booking \ {t}) \cup {n} /\ earnings' = earnings /\ t.leg = "withdrawal"
        BY <2>4, Zenon DEF FindWithdrawal
      <3>2. n.leg = "withdrawal"
        BY <3>1, <1>t DEF Bookings
      <3>3. n.leg \notin EarningsLegs
        BY <3>2 DEF EarningsLegs
      <3> HIDE DEF n
      <3> QED
        BY <1>t, <3>1, <3>3 DEF Traced, OfEvent, LookupsStand, FoundEarnings
    <2> QED
      BY <1>5, <2>1, <2>2, <2>3, <2>4 DEF Booking, BookingStep
  <1>6. ASSUME NEW s \in p2p, HandTransfer(s) PROVE Traced' /\ LookupsStand'
    <2>1. Min(s.todo) \in Log /\ "backfill" \in Callers
      BY <1>t, TypesInParts, ScanFields DEF ServiceTypeOK, Callers
    <2> QED
      BY <1>6, <1>i, <2>1 DEF HandTransfer
  <1>7. CASE InsertFails
    <2>1. CASE UNCHANGED liquidityVars
      BY <2>1, <1>u
    <2>2. ASSUME NEW t \in booking, LookupFails(t) \/ WriteFails(t)
          PROVE  Traced' /\ LookupsStand'
      BY <2>2, <1>t, NextLegsUnseen, Undisturbed DEF LookupFails, WriteFails
    <2> QED
      BY <1>7, <2>1, <2>2 DEF InsertFails
  <1>8. CASE Crash
    BY <1>8, <1>t, Undisturbed DEF Crash
  <1> QED
    BY <1>1, <1>2, <1>3, <1>4, <1>5, <1>6, <1>7, <1>8 DEF Next, RunStep

(* As long as no transaction has two events of a type: every row of the     *)
(* earnings comes from an event of its type, transaction and pool, and a    *)
(* handler that waits after its lookup still has the row it found.          *)
THEOREM RowsTraced ==
    ASSUME OneOfAType PROVE Spec => []SharesIInv
  <1>1. Init => SharesIInv
    <2>1. Init => Traced /\ LookupsStand
      BY DEF Init, LiquidityInit, Traced, LookupsStand
    <2> QED
      BY <2>1, InitTypes DEF SharesIInv
  <1>2. SharesIInv /\ TypeOK' /\ LegsFit' /\ [Next]_vars => SharesIInv'
    BY SharesNext DEF SharesIInv
  <1> QED
    BY <1>1, <1>2, TypesAndLegs, PTL DEF Spec

(* Whichever handlers of whichever transactions run into each other or      *)
(* repeat, an amount that was booked for added or removed liquidity is the  *)
(* one of its event, with its sign and wallet.                             *)
THEOREM AmountsTrue ==
    ASSUME OneOfAType PROVE Spec => []SharesTrue
  <1>1. SharesIInv => SharesTrue
    BY DEF SharesIInv, Traced, OfEvent, SharesTrue
  <1> QED
    BY <1>1, RowsTraced, PTL
=============================================================================
