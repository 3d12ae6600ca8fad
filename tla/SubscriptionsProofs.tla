------------------------ MODULE SubscriptionsProofs ------------------------
(* The two maps agree, subscribers are heard and handler sets do not pile  *)
(* up, for any clients, perpetuals, traders and numbers of resets and      *)
(* failing registrations.                                                  *)
EXTENDS Subscriptions, TLAPS

(* What is open has handlers once a reset has run to its end, because it   *)
(* renews them for every symbol ever seen.                                 *)
OpenHeard ==
    /\ ready => phase = "idle"
    /\ faults = 0 => open \subseteq symbols
    /\ faults = 0 /\ ready /\ alive => open \subseteq attached

(* Only a perpetual that is followed has two handler sets; while a reset   *)
(* runs, none has.                                                         *)
StrayFollowed ==
    /\ \A p \in Perps : p \in attached \ open => stray[p] = 0
    /\ phase # "idle" => attached \subseteq open /\ \A p \in Perps : stray[p] = 0

IInv ==
    /\ TypeOK /\ IndexSound /\ IndexComplete
    /\ OpenHeard /\ AtMostOneStray /\ StrayFollowed

-----------------------------------------------------------------------------
(* The actions by what they do to the maps and the handlers.               *)

\* Steps that leave maps and handlers alone.
Elsewhere == UNCHANGED <<mapVars, bookVars, faults>>

LEMMA InitInv == Init => IInv
  <1> SUFFICES ASSUME Init PROVE IInv
    OBVIOUS
  <1> USE SubscriptionAssumption DEF SubscriptionAssumption, Init
  <1>1. TypeOK
    <2>1. alive \in BOOLEAN /\ ready \in BOOLEAN
      BY Zenon
    <2> QED
      BY <2>1 DEF TypeOK
  <1>2. IndexSound /\ IndexComplete
    BY DEF IndexSound, IndexComplete
  <1>3. OpenHeard /\ AtMostOneStray /\ StrayFollowed
    BY DEF OpenHeard, AtMostOneStray, StrayFollowed
  <1> QED
    BY <1>1, <1>2, <1>3 DEF IInv

(* A subscription.                                                         *)
LEMMA SubscribeInv ==
    ASSUME IInv, NEW c \in Clients, NEW p \in Perps, NEW t \in Traders, Subscribe(c, p, t)
    PROVE  IInv'
  <1> USE SubscriptionAssumption DEF SubscriptionAssumption, IInv
  <1>1. TypeOK'
    BY DEF TypeOK, Subscribe, AddHandlers, bookVars, resetVars
  <1>2. IndexSound'
    <2> SUFFICES ASSUME NEW s \in subscriptions'
                 PROVE  s[3] \in clients' /\ <<s[1], s[2]>> \in subs'[s[3]] /\ s[1] \in open'
      BY DEF IndexSound
    <2>1. /\ clients' = clients \cup {c} /\ open \subseteq open'
          /\ <<p, t>> \in subs'[c] /\ \A d \in Clients : subs[d] \subseteq subs'[d]
      BY DEF TypeOK, Subscribe
    <2>2. CASE s \in subscriptions
      BY <2>1, <2>2 DEF TypeOK, IndexSound
    <2>3. CASE s = <<p, t, c>> /\ p \in open'
      BY <2>1, <2>3
    <2>4. s \in subscriptions \/ (s = <<p, t, c>> /\ p \in open')
      BY DEF Subscribe
    <2> QED
      BY <2>2, <2>3, <2>4
  <1>3. IndexComplete'
    <2> SUFFICES ASSUME faults' = 0
                 PROVE  /\ \A d \in Clients : \A x \in subs'[d] :
                              <<x[1], x[2], d>> \in subscriptions'
                        /\ \A q \in open' : \E s \in subscriptions' : s[1] = q
      BY DEF IndexComplete
    <2>1. faults = 0 /\ subscriptions \subseteq subscriptions'
      BY DEF TypeOK, Subscribe
    <2>2. <<p, t, c>> \in subscriptions'
      BY <2>1 DEF TypeOK, IndexComplete, Subscribe
    <2>3. open' \subseteq open \cup {p}
      BY DEF Subscribe
    <2>4. \A d \in Clients : subs'[d] \subseteq subs[d] \cup {<<p, t>>}
      BY DEF Subscribe, TypeOK
    <2>5. \A d \in Clients : d # c => subs'[d] = subs[d]
      BY DEF Subscribe, TypeOK
    <2>6. ASSUME NEW d \in Clients, NEW x \in subs'[d]
          PROVE  <<x[1], x[2], d>> \in subscriptions'
      BY <2>1, <2>2, <2>4, <2>5, <2>6 DEF IndexComplete
    <2>7. ASSUME NEW q \in open' PROVE \E s \in subscriptions' : s[1] = q
      BY <2>1, <2>2, <2>3, <2>7 DEF IndexComplete
    <2> QED
      BY <2>6, <2>7
  <1>4. OpenHeard'
    BY DEF TypeOK, OpenHeard, Subscribe, AddHandlers, bookVars, resetVars
  <1>5. AtMostOneStray' /\ StrayFollowed'
    BY DEF TypeOK, AtMostOneStray, StrayFollowed, Subscribe, AddHandlers, bookVars, resetVars
  <1> QED
    BY <1>1, <1>2, <1>3, <1>4, <1>5

(* A client is forgotten.                                                  *)
LEMMA ForgetInv ==
    ASSUME IInv, NEW c \in Clients, Forget(c), conn' \in [Clients -> {"open", "closed"}],
           UNCHANGED <<pending, resetVars, faults>>
    PROVE  IInv'
  <1> DEFINE rest == {s \in subscriptions : s[3] # c}
             released == {p \in open : (\E t \in Traders : <<p, t>> \in subs[c])
                                       /\ ~\E s \in rest : s[1] = p}
  <1> USE DEF IInv
  <1>1. CASE c \notin clients
    <2>1. Elsewhere
      BY <1>1 DEF Forget, Elsewhere
    <2> QED
      BY <2>1 DEF Elsewhere, TypeOK, IndexSound, IndexComplete, OpenHeard, AtMostOneStray,
                  StrayFollowed, mapVars, bookVars, resetVars
  <1>2. CASE c \in clients
    <2>1. /\ subscriptions' = rest /\ open' = open \ released
          /\ attached' = attached \ released /\ symbols' = symbols /\ stray' = stray
          /\ clients' = clients \ {c} /\ subs' = [subs EXCEPT ![c] = {}]
      BY <1>2 DEF Forget, RemoveHandlers
    <2>2. TypeOK'
      BY <2>1 DEF TypeOK, resetVars
    <2>3. IndexSound'
      BY <2>1 DEF TypeOK, IndexSound
    <2>4. ASSUME faults = 0, NEW q \in open' PROVE \E s \in rest : s[1] = q
      <3>1. PICK s \in subscriptions : s[1] = q
        BY <2>1, <2>4 DEF IndexComplete
      <3>2. CASE s[3] # c
        BY <3>1, <3>2
      <3>3. CASE s[3] = c
        <4>1. s[2] \in Traders /\ <<q, s[2]>> \in subs[c]
          BY <3>1, <3>3 DEF TypeOK, IndexSound
        <4> QED
          BY <2>1, <2>4, <4>1
      <3> QED
        BY <3>2, <3>3
    <2>5. ASSUME faults = 0, NEW d \in Clients, NEW x \in subs'[d]
          PROVE  <<x[1], x[2], d>> \in rest
      <3>1. d # c /\ x \in subs[d]
        BY <2>1, <2>5 DEF TypeOK
      <3>2. <<x[1], x[2], d>> \in subscriptions
        BY <2>5, <3>1 DEF IndexComplete
      <3> QED
        BY <3>1, <3>2
    <2>6. IndexComplete'
      BY <2>1, <2>4, <2>5 DEF IndexComplete
    <2>7. OpenHeard' /\ AtMostOneStray' /\ StrayFollowed'
      BY <2>1 DEF TypeOK, OpenHeard, AtMostOneStray, StrayFollowed, resetVars
    <2> QED
      BY <2>2, <2>3, <2>6, <2>7
  <1> QED
    BY <1>1, <1>2

(* The end of a reset.                                                     *)
LEMMA ResetDoneInv == IInv /\ ResetDone => IInv'
  <1> SUFFICES ASSUME IInv, ResetDone PROVE IInv'
    OBVIOUS
  <1> USE SubscriptionAssumption DEF SubscriptionAssumption, IInv
  <1>1. PICK failed \in SUBSET symbols :
          /\ \/ failed = {} /\ UNCHANGED faults
             \/ failed # {} /\ faults < MaxFaults /\ faults' = faults + 1
          /\ AddHandlers(symbols \ failed)
    BY DEF ResetDone
  <1>2. /\ phase = "creating" /\ phase' = "idle" /\ ready' = TRUE
        /\ UNCHANGED <<wsVars, mapVars, alive, resets>>
    BY DEF ResetDone
  <1>3. TypeOK'
    <2>1. ready' \in BOOLEAN
      BY <1>2, Zenon
    <2> QED
      BY <1>1, <1>2, <2>1 DEF TypeOK, AddHandlers, wsVars, mapVars
  <1>4. IndexSound'
    BY <1>2 DEF IndexSound, mapVars
  <1>5. IndexComplete' /\ OpenHeard'
    BY <1>1, <1>2 DEF TypeOK, IndexComplete, OpenHeard, AddHandlers, mapVars
  <1>6. AtMostOneStray' /\ StrayFollowed'
    BY <1>1, <1>2 DEF TypeOK, AtMostOneStray, StrayFollowed, AddHandlers, mapVars
  <1> QED
    BY <1>3, <1>4, <1>5, <1>6

(* Each step.                                                              *)
LEMMA NextInv == IInv /\ [Next]_vars => IInv'
  <1> SUFFICES ASSUME IInv, [Next]_vars PROVE IInv'
    OBVIOUS
  <1> USE SubscriptionAssumption DEF SubscriptionAssumption
  <1>1. ASSUME NEW c \in Clients, NEW p \in Perps, NEW t \in Traders,
               Message(c, p, t) \/ Refuse(c, p, t)
        PROVE  IInv'
    BY <1>1 DEF IInv, Message, Refuse, TypeOK, IndexSound, IndexComplete, OpenHeard,
                AtMostOneStray, StrayFollowed, mapVars, bookVars, resetVars
  <1>2. ASSUME NEW c \in Clients, Unsubscribe(c) \/ Close(c) PROVE IInv'
    <2>1. conn' \in [Clients -> {"open", "closed"}]
      BY <1>2 DEF IInv, TypeOK, Unsubscribe, Close
    <2> QED
      BY <1>2, <2>1, ForgetInv DEF Unsubscribe, Close
  <1>3. CASE ResetStart
    <2>1. TypeOK'
      <3>1. alive' \in BOOLEAN /\ ready' \in BOOLEAN
        BY <1>3, Zenon DEF ResetStart
      <3> QED
        BY <1>3, <3>1 DEF IInv, ResetStart, TypeOK, wsVars, mapVars
    <2>2. IndexSound' /\ IndexComplete'
      BY <1>3 DEF IInv, ResetStart, IndexSound, IndexComplete, mapVars
    <2>3. OpenHeard' /\ AtMostOneStray' /\ StrayFollowed'
      BY <1>3 DEF IInv, ResetStart, OpenHeard, AtMostOneStray, StrayFollowed, mapVars
    <2> QED
      BY <2>1, <2>2, <2>3 DEF IInv
  <1>4. CASE Connected \/ ResetFails
    BY <1>4 DEF IInv, Connected, ResetFails, TypeOK, IndexSound, IndexComplete, OpenHeard,
                AtMostOneStray, StrayFollowed, wsVars, mapVars, bookVars
  <1>5. CASE ProviderDies
    <2>1. TypeOK'
      BY <1>5 DEF IInv, ProviderDies, TypeOK, wsVars, mapVars
    <2>2. IndexSound' /\ IndexComplete'
      BY <1>5 DEF IInv, ProviderDies, IndexSound, IndexComplete, mapVars
    <2>3. OpenHeard' /\ AtMostOneStray' /\ StrayFollowed'
      BY <1>5 DEF IInv, ProviderDies, OpenHeard, AtMostOneStray, StrayFollowed, mapVars
    <2> QED
      BY <2>1, <2>2, <2>3 DEF IInv
  <1>6. CASE UNCHANGED vars
    BY <1>6 DEF IInv, vars, TypeOK, IndexSound, IndexComplete, OpenHeard, AtMostOneStray,
                StrayFollowed
  <1> QED
    BY <1>1, <1>2, <1>3, <1>4, <1>5, <1>6, SubscribeInv, ResetDoneInv DEF Next

-----------------------------------------------------------------------------
(* The inductive invariant: types, the two maps, and which perpetuals have  *)
(* handlers or two sets of them.                                           *)
THEOREM SubscriptionsInvariant == Spec => []IInv
  BY InitInv, NextInv, PTL DEF Spec

(* Types of all variables.                                                 *)
THEOREM TypeCorrect == Spec => []TypeOK
  BY SubscriptionsInvariant, PTL DEF IInv

(* Events go only to known clients that asked for them.                    *)
THEOREM MapsSound == Spec => []IndexSound
  BY SubscriptionsInvariant, PTL DEF IInv

(* Unless a registration threw, every subscription is served.              *)
THEOREM MapsComplete == Spec => []IndexComplete
  BY SubscriptionsInvariant, PTL DEF IInv

(* After a complete reset each subscribed perpetual has handlers.          *)
THEOREM AllHeard == Spec => []SubscribersHeard
  <1>1. IInv => SubscribersHeard
    BY DEF IInv, TypeOK, IndexSound, OpenHeard, SubscribersHeard
  <1> QED
    BY <1>1, SubscriptionsInvariant, PTL

(* There is never more than one handler set that nothing can remove.       *)
THEOREM NoPile == Spec => []AtMostOneStray
  BY SubscriptionsInvariant, PTL DEF IInv
=============================================================================
