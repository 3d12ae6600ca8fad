-------------------------- MODULE EventRelayProofs --------------------------
(* What clients were told is current, and no repeated event passes the     *)
(* filter too early, for every size of the ring, any perpetuals, indices,  *)
(* events and numbers of them.  A connection is not replaced for its       *)
(* counts without cause, for every smallest number that is compared and    *)
(* any number of open orders.                                              *)
EXTENDS IndexPrices, EventHeartbeat, SequenceTheorems, FiniteSetTheorems, TLAPS

-----------------------------------------------------------------------------
(* The duplicate filter.                                                   *)

(* The next position in the ring.                                          *)
LEMMA Wraps ==
    ASSUME NEW p \in Slots
    PROVE  (p + 1) % RingSize = IF p + 1 = RingSize THEN 0 ELSE p + 1
  BY DuplicateFilterAssumption DEF DuplicateFilterAssumption, Slots

LEMMA EmptyRingType == \A hashes : EmptyRing \in Rings(hashes)
  BY DuplicateFilterAssumption DEF DuplicateFilterAssumption, EmptyRing, Rings, Slots

LEMMA RememberType ==
    ASSUME NEW hashes, NEW r \in Rings(hashes), NEW h \in hashes
    PROVE  Remember(r, h) \in Rings(hashes)
  <1>1. r.pointer \in Slots /\ r.hash \in [Slots -> hashes \cup {NoHash}]
    BY DEF Rings
  <1>2. (r.pointer + 1) % RingSize \in Slots
    BY <1>1, Wraps, DuplicateFilterAssumption DEF DuplicateFilterAssumption, Slots
  <1> QED
    BY <1>1, <1>2 DEF Remember, Rings

(* The slot of the hash that was remembered before age others.             *)
SlotOf(pointer, age) ==
    IF pointer > age THEN pointer - 1 - age ELSE pointer - 1 - age + RingSize

LEMMA SlotFixed ==
    ASSUME NEW p \in Slots, NEW age \in Nat, age + 1 < RingSize
    PROVE  /\ SlotOf((p + 1) % RingSize, age + 1) = SlotOf(p, age)
           /\ SlotOf(p, age) \in Slots \ {p}
  <1>1. p \in 0..(RingSize - 1) /\ RingSize \in Nat \ {0}
    BY DuplicateFilterAssumption DEF DuplicateFilterAssumption, Slots
  <1>2. CASE p + 1 = RingSize
    BY <1>1, <1>2, Wraps DEF SlotOf, Slots
  <1>3. CASE p + 1 # RingSize
    <2>1. (p + 1) % RingSize = p + 1
      BY <1>3, Wraps
    <2>2. SlotOf(p + 1, age + 1) = SlotOf(p, age)
      <3>1. CASE p > age
        BY <1>1, <3>1 DEF SlotOf
      <3>2. CASE ~(p > age)
        BY <1>1, <3>2 DEF SlotOf
      <3> QED
        BY <3>1, <3>2
    <2>3. SlotOf(p, age) \in Slots \ {p}
      BY <1>1 DEF SlotOf, Slots
    <2> QED
      BY <2>1, <2>2, <2>3
  <1> QED
    BY <1>2, <1>3

(* The ring holds the last RingSize hashes of a sequence.                  *)
Holds(r, seq) ==
    \A j \in 1..Len(seq) :
        Len(seq) - j < RingSize => r.hash[SlotOf(r.pointer, Len(seq) - j)] = seq[j]

LEMMA HoldsEmpty == \A r : Holds(r, <<>>)
  BY DEF Holds

(* Remembering a hash keeps that so ...                                    *)
LEMMA HoldsNext ==
    ASSUME NEW hashes, NEW r \in Rings(hashes), NEW seq \in Seq(hashes),
           NEW h \in hashes, Holds(r, seq)
    PROVE  Holds(Remember(r, h), Append(seq, h))
  <1> DEFINE new == Remember(r, h)
             longer == Append(seq, h)
  <1>1. r.pointer \in Slots /\ r.hash \in [Slots -> hashes \cup {NoHash}]
    BY DEF Rings
  <1>2. /\ new.hash = [r.hash EXCEPT ![r.pointer] = h]
        /\ new.pointer = IF r.pointer + 1 = RingSize THEN 0 ELSE r.pointer + 1
    BY <1>1, Wraps DEF Remember
  <1>3. /\ Len(longer) = Len(seq) + 1 /\ longer[Len(seq) + 1] = h
        /\ \A i \in 1..Len(seq) : longer[i] = seq[i]
    BY AppendProperties
  <1> SUFFICES ASSUME NEW j \in 1..(Len(seq) + 1), Len(seq) + 1 - j < RingSize
               PROVE  new.hash[SlotOf(new.pointer, Len(seq) + 1 - j)] = longer[j]
    BY <1>3 DEF Holds
  <1>4. Len(seq) \in Nat
    OBVIOUS
  <1>5. CASE j = Len(seq) + 1
    <2>1. SlotOf(new.pointer, Len(seq) + 1 - j) = r.pointer
      BY <1>1, <1>2, <1>4, <1>5, DuplicateFilterAssumption
      DEF DuplicateFilterAssumption, SlotOf, Slots
    <2> QED
      BY <1>1, <1>2, <1>3, <1>5, <2>1
  <1>6. CASE j \in 1..Len(seq)
    <2> DEFINE age == Len(seq) - j
    <2>1. age \in Nat /\ age + 1 < RingSize /\ Len(seq) + 1 - j = age + 1
      BY <1>4, <1>6
    <2> HIDE DEF age
    <2>2. /\ SlotOf(new.pointer, age + 1) = SlotOf(r.pointer, age)
          /\ SlotOf(r.pointer, age) \in Slots \ {r.pointer}
      BY <1>1, <2>1, SlotFixed DEF Remember
    <2>3. r.hash[SlotOf(r.pointer, age)] = seq[j]
      <3>1. r.hash[SlotOf(r.pointer, Len(seq) - j)] = seq[j]
        <4>1. Len(seq) - j < RingSize
          BY <1>4, <1>6, <2>1, DuplicateFilterAssumption
          DEF age, DuplicateFilterAssumption
        <4> QED
          BY <1>6, <4>1 DEF Holds
      <3> QED
        BY <3>1 DEF age
    <2> QED
      BY <1>1, <1>2, <1>3, <1>6, <2>1, <2>2, <2>3
  <1> QED
    BY <1>4, <1>5, <1>6

(* ... and one that passes is none of those.                               *)
LEMMA PassesIsNew ==
    ASSUME NEW hashes, NEW r \in Rings(hashes), NEW seq \in Seq(hashes),
           NEW h \in hashes, Holds(r, seq), Passes(r, h),
           NEW j \in 1..Len(seq), Len(seq) - j < RingSize
    PROVE  seq[j] # h
  <1>1. r.pointer \in Slots /\ Len(seq) \in Nat
    BY DEF Rings
  <1>2. SlotOf(r.pointer, Len(seq) - j) \in Slots
    BY <1>1, DuplicateFilterAssumption DEF DuplicateFilterAssumption, SlotOf, Slots
  <1> QED
    BY <1>2 DEF Holds, Passes

-----------------------------------------------------------------------------
(* Types.                                                                  *)

LEMMA IndicesFinite == IsFiniteSet(Indices)
  <1> DEFINE index == [p \in Perps |-> IndexOf[p]]
  <1>1. index \in Surjection(Perps, Indices)
    BY DEF Surjection, Indices
  <1> QED
    BY <1>1, FS_Surjection, IndexPricesAssumption DEF IndexPricesAssumption

(* A message names at least one index.                                     *)
LEMMA NamesType ==
    ASSUME NEW changed \in (SUBSET Indices) \ {{}}, NEW names \in SetToSeqs(changed)
    PROVE  names \in Messages
  <1>1. IsFiniteSet(changed)
    BY IndicesFinite, FS_Subset
  <1>2. Cardinality(changed) \in Nat \ {0}
    BY <1>1, FS_CardinalityType, FS_EmptySet
  <1>3. names \in [1..Cardinality(changed) -> changed]
    BY DEF SetToSeqs
  <1>4. names \in Seq(Indices) /\ Len(names) = Cardinality(changed)
    BY <1>2, <1>3
  <1> QED
    BY <1>2, <1>4 DEF Messages

LEMMA StepsType ==
    ASSUME NEW p \in Perps
    PROVE  FeedSteps(p) \in 0..Cardinality(Perps) /\ EventSteps(p) \in 0..Cardinality(Perps)
  <1> DEFINE before == {q \in PredictionMkt \cap known : IndexOf[q] = IndexOf[p] /\ q <= p}
  <1>1. IsFiniteSet(Perps) /\ before \in SUBSET Perps
    BY IndexPricesAssumption DEF IndexPricesAssumption
  <1>2. /\ Cardinality(before) \in Nat /\ Cardinality(Perps) \in Nat
        /\ Cardinality(before) <= Cardinality(Perps)
    BY <1>1, FS_Subset, FS_CardinalityType
  <1>3. Cardinality(Perps) # 0
    BY <1>1, FS_EmptySet
  <1> QED
    BY <1>2, <1>3 DEF FeedSteps, EventSteps

LEMMA PriceType ==
    ASSUME TypeOK, NEW p \in Perps, NEW premia \in [Perps -> Nat],
           NEW steps \in 0..Cardinality(Perps)
    PROVE  Price(p, premia, steps) \in Prices
  BY DEF TypeOK, Price, Prices, Indices

LEMMA LongTail ==
    ASSUME NEW S, NEW s \in Seq(S), Len(s) > 1
    PROVE  Tail(s) \in Seq(S) /\ Tail(s) # <<>>
  <1>1. s # <<>>
    OBVIOUS
  <1>2. Tail(s) \in Seq(S) /\ Len(Tail(s)) = Len(s) - 1
    BY <1>1, HeadTailProperties
  <1>3. Len(s) \in Nat
    BY LenProperties
  <1>4. \A k \in Nat : k > 1 => k - 1 # 0
    OBVIOUS
  <1>5. Len(Tail(s)) # 0
    BY <1>2, <1>3, <1>4, Zenon
  <1> QED
    BY <1>2, <1>5, EmptySeq, Zenon

(* A handler with more than one index left goes on as a task.              *)
LEMMA FetchTaskType ==
    ASSUME TypeOK, fetching # <<>>, NEW got \in Seq(Indices),
           Len(Head(fetching).todo) > 1
    PROVE  Fetch(Tail(Head(fetching).todo), got) \in Tasks
  <1> DEFINE task == Head(fetching)
  <1>1. task \in Tasks
    BY HeadTailProperties DEF TypeOK
  <1> HIDE DEF task
  <1>2. task.todo \in Seq(Indices) /\ Len(task.todo) > 1
    BY <1>1 DEF Tasks, Messages, task
  <1>3. Tail(task.todo) \in Seq(Indices) /\ Tail(task.todo) # <<>>
    BY <1>2, LongTail
  <1>4. feed[Head(Tail(task.todo))] \in 0..MaxFeed
    BY <1>3, HeadTailProperties DEF TypeOK
  <1> QED
    BY <1>3, <1>4 DEF Fetch, Tasks, Messages, task

LEMMA FetchNextType ==
    ASSUME TypeOK, fetching # <<>>, NEW got \in Seq(Indices),
           FetchNext(Head(fetching), got)
    PROVE  fetching' \in Seq(Tasks) /\ ready' \in Seq(Seq(Indices))
  <1> DEFINE next == Fetch(Tail(Head(fetching).todo), got)
  <1>1. Tail(fetching) \in Seq(Tasks)
    BY HeadTailProperties DEF TypeOK
  <1>2. CASE Len(Head(fetching).todo) > 1
    <2>1. next \in Tasks
      BY <1>2, FetchTaskType
    <2>2. fetching' = Append(Tail(fetching), next) /\ ready' = ready
      BY <1>2 DEF FetchNext
    <2> QED
      BY <1>1, <2>1, <2>2, AppendProperties DEF TypeOK
  <1>3. CASE ~(Len(Head(fetching).todo) > 1)
    <2>1. fetching' = Tail(fetching) /\ ready' = Append(ready, got)
      BY <1>3 DEF FetchNext
    <2> QED
      BY <1>1, <2>1, AppendProperties DEF TypeOK
  <1> QED
    BY <1>2, <1>3

LEMMA InitType == Init => TypeOK
  <1> SUFFICES ASSUME Init PROVE TypeOK
    OBVIOUS
  <1> USE IndexPricesAssumption DEF IndexPricesAssumption, Init
  <1>1. feed \in [Indices -> 0..MaxFeed] /\ idxPrices \in [Indices -> 0..MaxFeed]
    OBVIOUS
  <1>2. inbox \in Seq(Messages) /\ fetching \in Seq(Tasks) /\ ready \in Seq(Seq(Indices))
    OBVIOUS
  <1>3. premium \in [Perps -> Nat] /\ faults \in 0..MaxFaults
    OBVIOUS
  <1>6. isInitialized \in BOOLEAN
    BY Zenon
  <1>4. ring \in Rings(Hashes) /\ passed \in Seq(Hashes)
    BY EmptyRingType
  <1>5. told \in [Perps -> Prices \cup {NoPrice}] /\ known \subseteq Perps
    OBVIOUS
  <1> QED
    BY <1>1, <1>2, <1>3, <1>4, <1>5, <1>6 DEF TypeOK

(* What a restart leaves behind has its types.                             *)
LEMMA RestartType == TypeOK /\ Restart => TypeOK'
  <1> SUFFICES ASSUME TypeOK, Restart PROVE TypeOK'
    OBVIOUS
  <1> USE IndexPricesAssumption DEF IndexPricesAssumption, Restart, TypeOK
  <1>1. feed' \in [Indices -> 0..MaxFeed] /\ idxPrices' \in [Indices -> 0..MaxFeed]
    OBVIOUS
  <1>2. /\ inbox' \in Seq(Messages) /\ fetching' \in Seq(Tasks)
        /\ ready' \in Seq(Seq(Indices))
    OBVIOUS
  <1>3. premium' \in [Perps -> Nat] /\ isInitialized' \in BOOLEAN /\ faults' \in 0..MaxFaults
    OBVIOUS
  <1>4. ring' \in Rings(Hashes) /\ passed' \in Seq(Hashes)
    BY EmptyRingType
  <1>5. told' \in [Perps -> Prices \cup {NoPrice}] /\ known' \subseteq Perps
    OBVIOUS
  <1> QED
    BY <1>1, <1>2, <1>3, <1>4, <1>5

LEMMA EventType ==
    ASSUME TypeOK, NEW e \in Events, EventPasses(e)
    PROVE  TypeOK'
  <1> USE IndexPricesAssumption DEF IndexPricesAssumption
  <1>1. e.perp \in Perps /\ e.prem \in Nat /\ Hash(e) \in Hashes
    BY DEF Hashes
  <1>2. premium' \in [Perps -> Nat]
    BY <1>1 DEF EventPasses, TypeOK
  <1>3. Price(e.perp, premium', EventSteps(e.perp)) \in Prices
    BY <1>1, <1>2, StepsType, PriceType
  <1>4. told' \in [Perps -> Prices \cup {NoPrice}]
    BY <1>1, <1>3 DEF EventPasses, TypeOK
  <1>5. ring' \in Rings(Hashes) /\ passed' \in Seq(Hashes)
    BY <1>1, RememberType, AppendProperties DEF EventPasses, TypeOK
  <1> QED
    BY <1>2, <1>4, <1>5 DEF EventPasses, TypeOK, feedVars

LEMMA TypeNext == TypeOK /\ [Next]_vars => TypeOK'
  <1> SUFFICES ASSUME TypeOK, [Next]_vars PROVE TypeOK'
    OBVIOUS
  <1>1. CASE Initialized
    BY <1>1 DEF Initialized, TypeOK, feedVars
  <1>2. CASE Publish
    <2>1. PICK changed \in (SUBSET Indices) \ {{}} : \E names \in SetToSeqs(changed) :
            /\ \A i \in changed : feed[i] < MaxFeed
            /\ feed' = [i \in Indices |-> IF i \in changed THEN feed[i] + 1 ELSE feed[i]]
            /\ inbox' = Append(inbox, names)
      BY <1>2 DEF Publish
    <2>2. feed' \in [Indices -> 0..MaxFeed]
      BY <2>1, IndexPricesAssumption DEF IndexPricesAssumption, TypeOK
    <2>3. inbox' \in Seq(Messages)
      <3>1. PICK names \in SetToSeqs(changed) : inbox' = Append(inbox, names)
        BY <2>1
      <3>2. names \in Messages
        BY NamesType
      <3> QED
        BY <3>1, <3>2, AppendProperties DEF TypeOK
    <2> QED
      BY <1>2, <2>2, <2>3 DEF Publish, TypeOK, priceVars
  <1>3. CASE Message
    <2>1. Head(inbox) \in Messages /\ Tail(inbox) \in Seq(Messages)
      BY <1>3, HeadTailProperties DEF Message, TypeOK
    <2>2. Head(Head(inbox)) \in Indices
      BY <2>1, HeadTailProperties DEF Messages
    <2>3. Fetch(Head(inbox), <<>>) \in Tasks
      BY <2>1, <2>2 DEF Fetch, Tasks, TypeOK
    <2>4. fetching' \in Seq(Tasks)
      BY <1>3, <2>3, AppendProperties DEF Message, TypeOK
    <2> QED
      BY <1>3, <2>1, <2>4 DEF Message, TypeOK, priceVars
  <1>4. CASE Fetched
    <2>1. Head(fetching) \in Tasks
      BY <1>4, HeadTailProperties DEF Fetched, TypeOK
    <2>2. Head(Head(fetching).todo) \in Indices
      BY <2>1, HeadTailProperties DEF Tasks, Messages
    <2>3. Append(Head(fetching).got, Head(Head(fetching).todo)) \in Seq(Indices)
      BY <2>1, <2>2, AppendProperties DEF Tasks
    <2>4. fetching' \in Seq(Tasks) /\ ready' \in Seq(Seq(Indices))
      BY <1>4, <2>3, FetchNextType DEF Fetched
    <2>5. idxPrices' \in [Indices -> 0..MaxFeed]
      BY <1>4, <2>1, <2>2 DEF Fetched, Tasks, TypeOK
    <2> QED
      BY <1>4, <2>4, <2>5 DEF Fetched, TypeOK, priceVars
  <1>5. CASE FetchFails
    <2>1. Head(fetching).got \in Seq(Indices)
      <3>1. Head(fetching) \in Tasks
        BY <1>5, HeadTailProperties DEF FetchFails, TypeOK
      <3> QED
        BY <3>1 DEF Tasks
    <2>2. fetching' \in Seq(Tasks) /\ ready' \in Seq(Seq(Indices))
      BY <1>5, <2>1, FetchNextType DEF FetchFails
    <2>3. faults' \in 0..MaxFaults
      BY <1>5, IndexPricesAssumption DEF IndexPricesAssumption, FetchFails, TypeOK
    <2> QED
      BY <1>5, <2>2, <2>3 DEF FetchFails, TypeOK, priceVars
  <1>6. CASE Broadcast
    <2>1. ready' \in Seq(Seq(Indices))
      BY <1>6, HeadTailProperties DEF Broadcast, TypeOK
    <2>2. \A p \in Perps : Price(p, premium, FeedSteps(p)) \in Prices
      BY StepsType, PriceType DEF TypeOK
    <2>3. told' \in [Perps -> Prices \cup {NoPrice}]
      BY <1>6, <2>2 DEF Broadcast, Told, TypeOK
    <2> QED
      BY <1>6, <2>1, <2>3 DEF Broadcast, TypeOK
  <1>7. ASSUME NEW e \in Events, UpdateMarkPrice(e) PROVE TypeOK'
    <2>1. CASE EventTooEarly(e) \/ EventDuplicate(e)
      BY <2>1 DEF EventTooEarly, EventDuplicate, TypeOK, feedVars, priceVars
    <2>2. CASE EventPasses(e)
      BY <2>2, EventType
    <2>3. CASE EventUnknown(e)
      BY <2>3, RestartType DEF EventUnknown
    <2> QED
      BY <1>7, <2>1, <2>2, <2>3 DEF UpdateMarkPrice
  <1>8. CASE UNCHANGED vars
    BY <1>8 DEF vars, TypeOK
  <1> QED
    BY <1>1, <1>2, <1>3, <1>4, <1>5, <1>6, <1>7, <1>8 DEF Next

-----------------------------------------------------------------------------
(* The invariant.                                                          *)

(* Nobody is told anything before the listener is initialized.             *)
Silent == \A p \in Perps : told[p] # NoPrice => isInitialized

(* The ring of the event handler holds the last hashes let through.        *)
RingHolds == Holds(ring, passed)

IInv == TypeOK /\ Silent /\ ToldCurrent /\ RingHolds /\ PassedOnce

(* Appending keeps the elements, and adds one.                             *)
LEMMA AppendedSet ==
    ASSUME NEW S, NEW s \in Seq(S), NEW x \in S
    PROVE  /\ \A k \in DOMAIN s : k \in DOMAIN Append(s, x) /\ Append(s, x)[k] = s[k]
           /\ \E k \in DOMAIN Append(s, x) : Append(s, x)[k] = x
           /\ \A y \in ToSet(s) \cup {x} : y \in ToSet(Append(s, x))
  <1>1. /\ Append(s, x) \in Seq(S) /\ Len(Append(s, x)) = Len(s) + 1
        /\ \A k \in 1..Len(s) : Append(s, x)[k] = s[k]
        /\ Append(s, x)[Len(s) + 1] = x
    BY AppendProperties
  <1>2. /\ DOMAIN s = 1..Len(s) /\ Len(s) \in Nat
        /\ DOMAIN Append(s, x) = 1..(Len(s) + 1)
    BY <1>1, LenProperties
  <1>3. \A k \in DOMAIN s : k \in DOMAIN Append(s, x) /\ Append(s, x)[k] = s[k]
    BY <1>1, <1>2
  <1>4. \E k \in DOMAIN Append(s, x) : Append(s, x)[k] = x
    BY <1>1, <1>2
  <1> QED
    BY <1>3, <1>4, Zenon DEF ToSet

LEMMA AppendedLast ==
    ASSUME NEW S, NEW s \in Seq(S), NEW x \in S
    PROVE  \E k \in DOMAIN Append(s, x) : Append(s, x)[k] = x
  BY AppendedSet

(* Dropping the first element keeps the others.                            *)
LEMMA TailSet ==
    ASSUME NEW S, NEW s \in Seq(S), s # <<>>, NEW k \in DOMAIN s
    PROVE  \/ s[k] = Head(s)
           \/ \E n \in DOMAIN Tail(s) : Tail(s)[n] = s[k]
  <1>1. /\ Tail(s) \in Seq(S) /\ Len(Tail(s)) = Len(s) - 1
        /\ \A i \in 1..Len(Tail(s)) : Tail(s)[i] = s[i + 1]
    BY HeadTailProperties
  <1>2. DOMAIN s = 1..Len(s) /\ DOMAIN Tail(s) = 1..(Len(s) - 1) /\ Len(s) \in Nat
    BY <1>1, LenProperties
  <1>3. CASE k = 1
    BY <1>3
  <1>4. CASE k # 1
    <2>1. k - 1 \in DOMAIN Tail(s) /\ (k - 1) + 1 = k
      BY <1>2, <1>4
    <2>2. Tail(s)[k - 1] = s[k]
      BY <1>1, <1>2, <2>1
    <2> QED
      BY <2>1, <2>2
  <1> QED
    BY <1>3, <1>4

(* Handlers that go on with their next index still have what they fetched. *)
LEMMA FetchNextKeeps ==
    ASSUME TypeOK, TypeOK', fetching # <<>>, NEW got \in Seq(Indices),
           FetchNext(Head(fetching), got),
           ToSet(Head(fetching).got) \subseteq ToSet(got),
           NEW i, Outstanding(i) \/ i \in ToSet(got)
    PROVE  Outstanding(i)'
  <1> DEFINE task == Head(fetching)
             next == Fetch(Tail(task.todo), got)
  <1>1. Tail(fetching) \in Seq(Tasks) /\ fetching \in Seq(Tasks) /\ ready \in Seq(Seq(Indices))
    BY HeadTailProperties DEF TypeOK
  <1>2. CASE Len(task.todo) > 1
    <2>1. fetching' = Append(Tail(fetching), next) /\ ready' = ready
      BY <1>2 DEF FetchNext
    <2>2. next \in Tasks
      BY <2>1, FetchTaskType, <1>2
    <2>3. next.got = got
      BY DEF Fetch
    <2>4. CASE i \in ToSet(got)
      <3>1. PICK k \in DOMAIN Append(Tail(fetching), next) :
              Append(Tail(fetching), next)[k] = next
        BY <1>1, <2>2, AppendedLast
      <3>2. k \in DOMAIN fetching' /\ fetching'[k] = next
        BY <2>1, <3>1, Zenon
      <3> QED
        BY <2>3, <2>4, <3>2 DEF Outstanding
    <2>5. ASSUME NEW k \in DOMAIN fetching, i \in ToSet(fetching[k].got), i \notin ToSet(got)
          PROVE  Outstanding(i)'
      <3>1. fetching[k] # task
        BY <2>5
      <3>2. PICK n \in DOMAIN Tail(fetching) : Tail(fetching)[n] = fetching[k]
        BY <1>1, <3>1, TailSet
      <3>3. n \in DOMAIN fetching' /\ fetching'[n] = fetching[k]
        BY <1>1, <2>1, <2>2, <3>2, AppendedSet
      <3> QED
        BY <2>5, <3>3 DEF Outstanding
    <2>6. ASSUME NEW k \in DOMAIN ready, i \in ToSet(ready[k])
          PROVE  Outstanding(i)'
      BY <2>1, <2>6 DEF Outstanding
    <2> QED
      BY <2>4, <2>5, <2>6 DEF Outstanding
  <1>3. CASE ~(Len(task.todo) > 1)
    <2>1. fetching' = Tail(fetching) /\ ready' = Append(ready, got)
      BY <1>3 DEF FetchNext
    <2>2. CASE i \in ToSet(got)
      <3>1. PICK k \in DOMAIN Append(ready, got) : Append(ready, got)[k] = got
        BY <1>1, AppendedLast
      <3>2. k \in DOMAIN ready' /\ ready'[k] = got
        BY <2>1, <3>1, Zenon
      <3> QED
        BY <2>2, <3>2 DEF Outstanding
    <2>3. ASSUME NEW k \in DOMAIN fetching, i \in ToSet(fetching[k].got), i \notin ToSet(got)
          PROVE  Outstanding(i)'
      <3>1. fetching[k] # task
        BY <2>3
      <3>2. PICK n \in DOMAIN Tail(fetching) : Tail(fetching)[n] = fetching[k]
        BY <1>1, <3>1, TailSet
      <3> QED
        BY <2>1, <2>3, <3>2 DEF Outstanding
    <2>4. ASSUME NEW k \in DOMAIN ready, i \in ToSet(ready[k])
          PROVE  Outstanding(i)'
      <3>1. k \in DOMAIN ready' /\ ready'[k] = ready[k]
        BY <1>1, <2>1, AppendedSet
      <3> QED
        BY <2>4, <3>1 DEF Outstanding
    <2> QED
      BY <2>2, <2>3, <2>4 DEF Outstanding
  <1> QED
    BY <1>2, <1>3

-----------------------------------------------------------------------------
LEMMA InitInv == Init => IInv
  <1> SUFFICES ASSUME Init PROVE IInv
    OBVIOUS
  <1>1. TypeOK
    BY InitType
  <1>2. Silent /\ ToldCurrent
    BY DEF Init, Silent, ToldCurrent
  <1>3. RingHolds /\ PassedOnce
    BY HoldsEmpty DEF Init, RingHolds, PassedOnce
  <1> QED
    BY <1>1, <1>2, <1>3 DEF IInv

LEMMA SilentNext == TypeOK /\ Silent /\ [Next]_vars => Silent'
  <1> SUFFICES ASSUME TypeOK, Silent, [Next]_vars PROVE Silent'
    OBVIOUS
  <1> USE DEF Silent
  <1>1. CASE Initialized \/ Publish \/ Message \/ Fetched \/ FetchFails
    BY <1>1 DEF Initialized, Publish, Message, Fetched, FetchFails, priceVars
  <1>2. CASE Broadcast
    BY <1>2 DEF Broadcast, Told
  <1>3. ASSUME NEW e \in Events, UpdateMarkPrice(e) PROVE Silent'
    <2>1. CASE EventTooEarly(e) \/ EventDuplicate(e)
      BY <2>1 DEF EventTooEarly, EventDuplicate, priceVars
    <2>2. CASE EventPasses(e)
      BY <2>2 DEF EventPasses
    <2>3. CASE EventUnknown(e)
      BY <2>3 DEF EventUnknown, Restart
    <2> QED
      BY <1>3, <2>1, <2>2, <2>3 DEF UpdateMarkPrice
  <1>4. CASE UNCHANGED vars
    BY <1>4 DEF vars
  <1> QED
    BY <1>1, <1>2, <1>3, <1>4 DEF Next

(* The filter: what passes differs from the last RingSize hashes.          *)
LEMMA OnceNext ==
    TypeOK /\ RingHolds /\ PassedOnce /\ [Next]_vars => RingHolds' /\ PassedOnce'
  <1> SUFFICES ASSUME TypeOK, RingHolds, PassedOnce, [Next]_vars
               PROVE  RingHolds' /\ PassedOnce'
    OBVIOUS
  <1>1. CASE UNCHANGED <<ring, passed>>
    BY <1>1 DEF RingHolds, PassedOnce, Holds
  <1>2. CASE ring' = EmptyRing /\ passed' = <<>>
    BY <1>2, HoldsEmpty DEF RingHolds, PassedOnce
  <1>3. ASSUME NEW e \in Events, EventPasses(e) PROVE RingHolds' /\ PassedOnce'
    <2> DEFINE h == Hash(e)
    <2>1. /\ ring \in Rings(Hashes) /\ passed \in Seq(Hashes) /\ h \in Hashes
          /\ Passes(ring, h) /\ ring' = Remember(ring, h) /\ passed' = Append(passed, h)
      BY <1>3 DEF EventPasses, TypeOK, Hashes
    <2> HIDE DEF h
    <2>2. RingHolds'
      BY <2>1, HoldsNext DEF RingHolds
    <2>3. /\ Len(passed) \in Nat /\ Len(passed') = Len(passed) + 1
          /\ DOMAIN passed = 1..Len(passed) /\ DOMAIN passed' = 1..(Len(passed) + 1)
          /\ passed'[Len(passed) + 1] = h
          /\ \A k \in 1..Len(passed) : passed'[k] = passed[k]
      BY <2>1, AppendProperties
    <2>4. ASSUME NEW j \in 1..(Len(passed) + 1), NEW i \in 1..(j - 1), passed'[i] = passed'[j]
          PROVE  j - i > RingSize
      <3>1. CASE j \in 1..Len(passed)
        BY <2>3, <2>4, <3>1 DEF PassedOnce
      <3>2. CASE j = Len(passed) + 1
        <4>1. i \in 1..Len(passed) /\ passed[i] = h
          BY <2>3, <2>4, <3>2
        <4>2. ~(Len(passed) - i < RingSize)
          BY <2>1, <4>1, PassesIsNew DEF RingHolds
        <4> QED
          BY <2>3, <3>2, <4>1, <4>2, DuplicateFilterAssumption
          DEF DuplicateFilterAssumption
      <3> QED
        BY <2>3, <3>1, <3>2
    <2> QED
      BY <2>2, <2>3, <2>4 DEF PassedOnce
  <1>4. ASSUME NEW e \in Events, UpdateMarkPrice(e)
        PROVE  UNCHANGED <<ring, passed>> \/ Restart \/ EventPasses(e)
    BY <1>4 DEF UpdateMarkPrice, EventTooEarly, EventDuplicate, EventUnknown, priceVars
  <1>5. CASE Next
    BY <1>1, <1>2, <1>3, <1>4, <1>5
    DEF Next, Initialized, Publish, Message, Fetched, FetchFails, Broadcast, priceVars,
        Restart
  <1>6. CASE UNCHANGED vars
    BY <1>1, <1>6 DEF vars
  <1> QED
    BY <1>5, <1>6

(* Prices, step by step.                                                   *)
LEMMA CurrentNext ==
    TypeOK /\ TypeOK' /\ Silent /\ ToldCurrent /\ [Next]_vars => ToldCurrent'
  <1> SUFFICES ASSUME TypeOK, TypeOK', Silent, ToldCurrent, [Next]_vars,
                      NEW p \in known', told'[p] # NoPrice,
                      (FeedSteps(p) = EventSteps(p))'
               PROVE  \/ (told[p] = Price(p, premium, EventSteps(p)))'
                      \/ Outstanding(IndexOf[p])'
    BY DEF ToldCurrent
  <1>1. p \in Perps
    BY DEF TypeOK
  <1> DEFINE Current == told[p] = Price(p, premium, EventSteps(p))
  <1>2. CASE known' = known
    <2>1. FeedSteps(p) = EventSteps(p)
      BY <1>2 DEF FeedSteps, EventSteps
    <2>2. told[p] # NoPrice => Current \/ Outstanding(IndexOf[p])
      BY <1>2, <2>1 DEF ToldCurrent
    <2>3. CASE UNCHANGED <<fetching, ready, idxPrices, premium, told>>
      BY <2>2, <2>3 DEF Price, Outstanding, EventSteps
    <2>4. CASE Message
      <3>1. ASSUME NEW k \in DOMAIN fetching
            PROVE  k \in DOMAIN fetching' /\ fetching'[k] = fetching[k]
        <4>1. fetching \in Seq(Tasks) /\ Len(fetching) \in Nat
          BY LenProperties DEF TypeOK
        <4> QED
          BY <2>4, <4>1 DEF Message
      <3>2. Outstanding(IndexOf[p]) => Outstanding(IndexOf[p])'
        BY <2>4, <3>1 DEF Message, Outstanding
      <3> QED
        BY <2>2, <2>4, <3>2 DEF Message, priceVars, Price, EventSteps
    <2>5. CASE Fetched
      <3> DEFINE i == Head(Head(fetching).todo)
                 got == Append(Head(fetching).got, i)
      <3>1. Head(fetching) \in Tasks
        BY <2>5, HeadTailProperties DEF Fetched, TypeOK
      <3>2. i \in Indices /\ Head(fetching).got \in Seq(Indices)
        BY <3>1, HeadTailProperties DEF Tasks, Messages
      <3>3. got \in Seq(Indices) /\ FetchNext(Head(fetching), got) /\ fetching # <<>>
        BY <2>5, <3>2, AppendProperties DEF Fetched
      <3>4. ToSet(Head(fetching).got) \subseteq ToSet(got) /\ i \in ToSet(got)
        BY <3>2, AppendedSet
      <3> HIDE DEF got
      <3>5. Outstanding(IndexOf[p]) \/ IndexOf[p] = i => Outstanding(IndexOf[p])'
        BY <3>3, <3>4, FetchNextKeeps
      <3>6. IndexOf[p] # i => idxPrices'[IndexOf[p]] = idxPrices[IndexOf[p]]
        BY <1>1, <2>5 DEF Fetched, TypeOK, Indices
      <3> QED
        BY <2>2, <2>5, <3>5, <3>6 DEF Fetched, priceVars, Price, EventSteps
    <2>6. CASE FetchFails
      <3>1. Head(fetching) \in Tasks
        BY <2>6, HeadTailProperties DEF FetchFails, TypeOK
      <3>2. Head(fetching).got \in Seq(Indices)
        BY <3>1 DEF Tasks
      <3>3. Outstanding(IndexOf[p]) => Outstanding(IndexOf[p])'
        BY <2>6, <3>2, FetchNextKeeps DEF FetchFails
      <3> QED
        BY <2>2, <2>6, <3>3 DEF FetchFails, priceVars, Price, EventSteps
    <2>7. CASE Broadcast
      <3>1. CASE isInitialized /\ IndexOf[p] \in ToSet(Head(ready))
        <4>1. told'[p] = Price(p, premium, FeedSteps(p))
          BY <1>1, <1>2, <2>7, <3>1 DEF Broadcast, Told
        <4> QED
          BY <2>1, <2>7, <4>1 DEF Broadcast, Price, EventSteps
      <3>2. CASE ~isInitialized
        BY <1>1, <2>7, <3>2 DEF Broadcast, Silent
      <3>3. CASE isInitialized /\ IndexOf[p] \notin ToSet(Head(ready))
        <4>1. told'[p] = told[p]
          BY <1>1, <2>7, <3>3 DEF Broadcast, Told
        <4>2. ASSUME NEW k \in DOMAIN ready, IndexOf[p] \in ToSet(ready[k])
              PROVE  \E n \in DOMAIN ready' : IndexOf[p] \in ToSet(ready'[n])
          <5>1. ready \in Seq(Seq(Indices)) /\ ready # <<>> /\ ready' = Tail(ready)
            BY <2>7 DEF Broadcast, TypeOK
          <5>2. ready[k] # Head(ready)
            BY <3>3, <4>2
          <5> QED
            BY <4>2, <5>1, <5>2, TailSet
        <4>3. Outstanding(IndexOf[p]) => Outstanding(IndexOf[p])'
          BY <2>7, <4>2 DEF Broadcast, Outstanding
        <4> QED
          BY <2>2, <2>7, <4>1, <4>3 DEF Broadcast, Price, EventSteps
      <3> QED
        BY <3>1, <3>2, <3>3
    <2>8. ASSUME NEW e \in Events, EventPasses(e)
          PROVE  Current' \/ Outstanding(IndexOf[p])'
      <3>1. CASE p = e.perp
        BY <1>1, <2>8, <3>1 DEF EventPasses, TypeOK, feedVars, Price, EventSteps
      <3>2. CASE p # e.perp
        <4>1. told'[p] = told[p] /\ premium'[p] = premium[p]
          BY <1>1, <2>8, <3>2 DEF EventPasses, TypeOK
        <4> QED
          BY <2>2, <2>8, <4>1 DEF EventPasses, feedVars, Price, EventSteps, Outstanding
      <3> QED
        BY <3>1, <3>2
    <2>9. CASE \E e \in Events : UpdateMarkPrice(e)
      <3>1. CASE Restart
        BY <1>1, <3>1 DEF Restart
      <3> QED
        BY <2>3, <2>8, <2>9, <3>1
        DEF UpdateMarkPrice, EventTooEarly, EventDuplicate, EventUnknown, feedVars, priceVars
    <2> QED
      BY <2>3, <2>4, <2>5, <2>6, <2>7, <2>9
      DEF Next, Initialized, Publish, feedVars, priceVars, vars
  <1>3. CASE known' # known
    <2>1. Restart
      BY <1>3 DEF Next, Initialized, Publish, Message, Fetched, FetchFails, Broadcast,
                  UpdateMarkPrice, EventTooEarly, EventDuplicate, EventPasses,
                  EventUnknown, feedVars, priceVars, vars
    <2> QED
      BY <1>1, <2>1 DEF Restart
  <1> QED
    BY <1>2, <1>3

LEMMA NextInv == IInv /\ [Next]_vars => IInv'
  BY TypeNext, SilentNext, OnceNext, CurrentNext DEF IInv

-----------------------------------------------------------------------------
(* The inductive invariant: types, the ring holds the last hashes let      *)
(* through, and nobody is told anything too early.                         *)
THEOREM PricesInvariant == Spec => []IInv
  BY InitInv, NextInv, PTL DEF Spec

(* Types of all variables; the pointer stays within the ring.              *)
THEOREM TypeCorrect == Spec => []TypeOK
  BY PricesInvariant, PTL DEF IInv

(* Whatever handlers of feed and events overlap, what clients were last    *)
(* told is what the service has, or a handler is about to tell them.       *)
THEOREM AlwaysCurrent == Spec => []ToldCurrent
  BY PricesInvariant, PTL DEF IInv

(* No event passes again before as many others as the ring has slots.      *)
THEOREM NoEarlyRepeat == Spec => []PassedOnce
  BY PricesInvariant, PTL DEF IInv

(***************************************************************************)
(* The heartbeat.                                                          *)
(***************************************************************************)
(* While nothing was missed, counted twice or without a counterpart, the   *)
(* orders counted are those executed and those still open.                 *)
Balanced == ~skewed => created = executed + open

HeartbeatIInv == HeartbeatTypeOK /\ Balanced

-----------------------------------------------------------------------------
(* The types in two halves, since numbers and truth values go to different *)
(* provers.                                                                *)
Numbers ==
    /\ sets \in 1..2 /\ open \in 0..MaxOpen
    /\ created \in 0..MaxCount /\ executed \in 0..MaxCount

Flags ==
    /\ hearing \subseteq Both /\ phase \in {"idle", "resetting"}
    /\ quiet \in BOOLEAN /\ countsOld \in BOOLEAN /\ skewed \in BOOLEAN

LEMMA Halves == HeartbeatTypeOK <=> Numbers /\ Flags
  BY Zenon DEF HeartbeatTypeOK, Numbers, Flags

(* An alarm about the counts of a balanced connection means that half of   *)
(* the orders are open.                                                    *)
LEMMA NoMatch ==
    ASSUME HeartbeatTypeOK, ~Match, created = executed + open
    PROVE  2 * open >= created
  BY HeartbeatAssumption DEF HeartbeatAssumption, HeartbeatTypeOK, Match, Larger, Distance

LEMMA HeartbeatInitInv == HeartbeatInit => HeartbeatIInv
  <1> SUFFICES ASSUME HeartbeatInit PROVE HeartbeatIInv
    OBVIOUS
  <1>1. Numbers
    BY HeartbeatAssumption DEF HeartbeatAssumption, HeartbeatInit, Numbers
  <1>2. Flags
    BY Zenon DEF HeartbeatInit, Flags
  <1>3. Balanced
    BY DEF HeartbeatInit, Balanced
  <1> QED
    BY <1>1, <1>2, <1>3, Halves DEF HeartbeatIInv

(* Each step keeps the numbers in their ranges ...                         *)
LEMMA NumbersNext == Numbers /\ [HeartbeatNext]_heartbeatVars => Numbers'
  <1> SUFFICES ASSUME Numbers, [HeartbeatNext]_heartbeatVars PROVE Numbers'
    OBVIOUS
  <1> USE HeartbeatAssumption DEF HeartbeatAssumption, Numbers
  <1>1. CASE Post
    BY <1>1 DEF Post, HearCreated, Unheard
  <1>2. CASE Execute
    BY <1>2 DEF Execute, HearTrade, Unheard
  <1>3. CASE Reject
    BY <1>3 DEF Reject
  <1>4. CASE TradeElsewhere
    BY <1>4 DEF TradeElsewhere, HearTrade
  <1>5. CASE Repeat
    BY <1>5 DEF Repeat, HearCreated, HearTrade
  <1>6. CASE Other \/ Lose \/ Subscribe
    BY <1>6 DEF Other, Lose, Subscribe
  <1>7. CASE Heartbeat
    BY <1>7 DEF Heartbeat, ResetEventFrequencies
  <1>8. CASE ResetDone \/ ResetFails
    BY <1>8 DEF ResetDone, ResetFails, ResetEventFrequencies
  <1>9. CASE AgeEvents \/ AgeCounts \/ UNCHANGED heartbeatVars
    BY <1>9 DEF AgeEvents, AgeCounts, heartbeatVars
  <1> QED
    BY <1>1, <1>2, <1>3, <1>4, <1>5, <1>6, <1>7, <1>8, <1>9 DEF HeartbeatNext

(* ... and the truth values ...                                            *)
LEMMA FlagsNext == Flags /\ [HeartbeatNext]_heartbeatVars => Flags'
  <1> SUFFICES ASSUME Flags, [HeartbeatNext]_heartbeatVars PROVE Flags'
    OBVIOUS
  <1> USE DEF Flags
  <1>1. CASE Post
    BY <1>1, Zenon DEF Post, HearCreated, Unheard
  <1>2. CASE Execute
    BY <1>2, Zenon DEF Execute, HearTrade, Unheard
  <1>3. CASE Reject
    <2>1. (quiet /\ "book" \notin hearing) \in BOOLEAN
      OBVIOUS
    <2>2. quiet' \in BOOLEAN
      BY <1>3, <2>1, Zenon DEF Reject
    <2> QED
      BY <1>3, <2>2, Zenon DEF Reject
  <1>4. CASE TradeElsewhere \/ Repeat
    BY <1>4, Zenon DEF TradeElsewhere, Repeat, HearCreated, HearTrade
  <1>5. CASE Other \/ Subscribe
    BY <1>5, Zenon DEF Other, Subscribe
  <1>6. CASE Lose
    BY <1>6, Zenon DEF Lose
  <1>7. CASE Heartbeat
    <2>1. (open > 0) \in BOOLEAN
      OBVIOUS
    <2>2. countsOld' \in BOOLEAN /\ skewed' \in BOOLEAN
      BY <1>7, <2>1, Zenon DEF Heartbeat, ResetEventFrequencies
    <2>3. hearing' \subseteq Both /\ phase' \in {"idle", "resetting"}
      BY <1>7 DEF Heartbeat
    <2> QED
      BY <1>7, <2>2, <2>3, Zenon DEF Heartbeat
  <1>8. CASE ResetDone
    <2>1. (open > 0) \in BOOLEAN
      OBVIOUS
    <2> QED
      BY <1>8, <2>1, Zenon DEF ResetDone, ResetEventFrequencies
  <1>9. CASE ResetFails
    <2>1. hearing' \subseteq Both
      BY <1>9 DEF ResetFails, Both
    <2> QED
      BY <1>9, <2>1, Zenon DEF ResetFails
  <1>10. CASE AgeEvents \/ AgeCounts \/ UNCHANGED heartbeatVars
    BY <1>10, Zenon DEF AgeEvents, AgeCounts, heartbeatVars
  <1> QED
    BY <1>1, <1>2, <1>3, <1>4, <1>5, <1>6, <1>7, <1>8, <1>9, <1>10 DEF HeartbeatNext

(* When the counts are forgotten and no order is open, they balance.       *)
LEMMA Forgotten ==
    ASSUME Numbers, ResetEventFrequencies, open' = open, ~skewed'
    PROVE  created' = executed' + open'
  <1>1. ~(open > 0) /\ created' = 0 /\ executed' = 0
    BY Zenon DEF ResetEventFrequencies
  <1> QED
    BY <1>1 DEF Numbers

(* ... and what is not skewed balanced.                                    *)
LEMMA BalancedNext == Numbers /\ Balanced /\ [HeartbeatNext]_heartbeatVars => Balanced'
  <1> SUFFICES ASSUME Numbers, Balanced, [HeartbeatNext]_heartbeatVars, ~skewed'
               PROVE  created' = executed' + open'
    BY DEF Balanced
  <1> USE HeartbeatAssumption DEF HeartbeatAssumption, Numbers, Balanced
  <1>1. CASE Post
    <2>1. ~skewed /\ ~(sets > 1) /\ HearCreated /\ open' = open + 1
      BY <1>1, Zenon DEF Post
    <2> QED
      BY <2>1 DEF HearCreated
  <1>2. CASE Execute
    <2>1. skewed' = skewed /\ HearTrade /\ open > 0 /\ open' = open - 1
      BY <1>2, Zenon DEF Execute
    <2>2. ~skewed
      BY <2>1
    <2> QED
      BY <2>1, <2>2 DEF HearTrade
  <1>3. CASE Reject \/ TradeElsewhere \/ Repeat
    BY <1>3 DEF Reject, TradeElsewhere, Repeat
  <1>4. CASE Other \/ Lose \/ Subscribe
    BY <1>4 DEF Other, Lose, Subscribe
  <1>5. CASE Heartbeat
    <2>1. CASE ResetEventFrequencies
      BY <1>5, <2>1, Forgotten DEF Heartbeat
    <2>2. CASE UNCHANGED <<created, executed, countsOld, skewed>>
      BY <1>5, <2>2 DEF Heartbeat
    <2> QED
      BY <1>5, <2>1, <2>2 DEF Heartbeat
  <1>6. CASE ResetDone \/ ResetFails
    BY <1>6, Forgotten DEF ResetDone, ResetFails
  <1>7. CASE AgeEvents \/ AgeCounts \/ UNCHANGED heartbeatVars
    BY <1>7 DEF AgeEvents, AgeCounts, heartbeatVars
  <1> QED
    BY <1>1, <1>2, <1>3, <1>4, <1>5, <1>6, <1>7 DEF HeartbeatNext

LEMMA HeartbeatNextInv == HeartbeatIInv /\ [HeartbeatNext]_heartbeatVars => HeartbeatIInv'
  <1>1. HeartbeatTypeOK' <=> Numbers' /\ Flags'
    BY Zenon DEF HeartbeatTypeOK, Numbers, Flags
  <1> QED
    BY <1>1, Halves, NumbersNext, FlagsNext, BalancedNext DEF HeartbeatIInv

(* The inductive invariant: types, and counts that balance unless an event *)
(* was missed, repeated or foreign.                                        *)
THEOREM HeartbeatInvariant == HeartbeatSpec => []HeartbeatIInv
  BY HeartbeatInitInv, HeartbeatNextInv, PTL DEF HeartbeatSpec

(* Types of all variables; the counts stay within their bounds.            *)
THEOREM HeartbeatTypeCorrect == HeartbeatSpec => []HeartbeatTypeOK
  BY HeartbeatInvariant, PTL DEF HeartbeatIInv

(* The heartbeat replaces a connection on which no event was missed,       *)
(* repeated or foreign only if it was quiet or half of its orders wait.    *)
THEOREM AlarmJustified == HeartbeatSpec => AlarmHasCause
  <1> DEFINE Alarm == phase = "idle" /\ phase' = "resetting" /\ ~quiet
                        => skewed \/ 2 * open >= created
  <1>1. ASSUME HeartbeatIInv, HeartbeatNext PROVE Alarm
    <2> SUFFICES ASSUME phase = "idle", phase' = "resetting", ~quiet, ~skewed
                 PROVE  2 * open >= created
      OBVIOUS
    <2>1. ~Match
      BY <1>1 DEF HeartbeatNext, Post, Execute, Reject, TradeElsewhere, Repeat, Other, Lose,
                  Subscribe, Heartbeat, ResetDone, ResetFails, AgeEvents, AgeCounts
    <2> QED
      BY <1>1, <2>1, NoMatch DEF HeartbeatIInv, Balanced
  <1>2. HeartbeatIInv /\ [HeartbeatNext]_heartbeatVars => [Alarm]_heartbeatVars
    BY <1>1
  <1> QED
    BY <1>2, HeartbeatInvariant, PTL DEF HeartbeatSpec, AlarmHasCause
=============================================================================
