---------------------- MODULE HistoryConnectionProofs ----------------------
(***************************************************************************)
(* HistoryConnection for every number of resets and of faults.             *)
(***************************************************************************)
EXTENDS HistoryConnection, TLAPS

-----------------------------------------------------------------------------
(* Providers are told apart by their mode and their number.                *)
LEMMA Providers ==
    ASSUME NEW m, NEW n
    PROVE  /\ Socket(n)[1] = "WS" /\ Socket(n)[2] = n
           /\ Http(n)[1] = "HTTP" /\ Http(n)[2] = n
           /\ Socket(m) = Socket(n) => m = n
           /\ Socket(m) # Http(n)
BY DEF Socket, Http

\* The other HTTP endpoint, whatever the listener is on.
LEMMA NextIsHttp ==
    ASSUME NEW n \in Nat, \/ provider = Socket(n) \/ provider = Http(n)
    PROVE  NextHttp \in {Http(0), Http(1)}
<1>1. provider[2] = n
    BY Providers
<1>2. 1 - (n % 2) \in {0, 1}
    OBVIOUS
<1> QED BY <1>1, <1>2 DEF NextHttp

-----------------------------------------------------------------------------
(* The inductive invariant.                                                *)

\* On a websocket the listener is on the latest one, it is open, and no
\* reset is under way.
OnLatest == Mode = "WS" => provider = Socket(ws) /\ Socket(ws) \notin destroyed /\ pc = "idle"

\* The provider that is probed is open.
ProbesOpen == pc = "probe" => Socket(ws) \notin destroyed

\* Only providers that were created have been destroyed.
Existed == destroyed \subseteq {Socket(n) : n \in 0..resets}

\* The process exits at the limit: only the last probe may be at it.
BelowLimit == pc # "probe" => resets < MaxResets

IInv == TypeOK /\ OnLatest /\ ProbesOpen /\ Existed /\ BelowLimit /\ ReplacedDestroyed

\* A listener on HTTP is not on a destroyed websocket provider.
LEMMA Open == IInv => ListensToOpen
<1> SUFFICES ASSUME IInv PROVE provider \notin destroyed
    BY DEF ListensToOpen
<1>1. CASE provider \in Sockets
    <2>1. PICK n \in 0..MaxResets : provider = Socket(n)
        BY <1>1 DEF Sockets
    <2>2. Mode = "WS"
        BY <2>1, Providers DEF Mode
    <2> QED BY <2>2 DEF IInv, OnLatest
<1>2. CASE provider \in {Http(0), Http(1)}
    BY <1>2, Providers DEF IInv, Existed
<1> QED BY <1>1, <1>2 DEF IInv, TypeOK

LEMMA Starts == Init => IInv
<1> SUFFICES ASSUME Init PROVE IInv
    OBVIOUS
<1>1. Socket(0) \in Sockets
    BY ConnectionAssumption DEF Sockets
<1>2. TypeOK
    <2>1. resets \in 0..MaxResets /\ ws = resets /\ faults \in 0..MaxFaults
        BY ConnectionAssumption DEF Init
    <2> QED BY <1>1, <2>1 DEF Init, TypeOK
<1>3. OnLatest /\ ProbesOpen /\ Existed /\ BelowLimit /\ ReplacedDestroyed
    BY ConnectionAssumption DEF Init, OnLatest, ProbesOpen, Existed, BelowLimit, ReplacedDestroyed
<1> QED BY <1>2, <1>3 DEF IInv

-----------------------------------------------------------------------------
(* What the shared parts of the actions do.                                *)

\* A created provider is one of the process's, and a fault is counted.
LEMMA CreatedTyped ==
    ASSUME NEW p, NEW gone, IInv, Created(p, gone), p \in Sockets \cup {Http(0), Http(1)}
    PROVE  works' \subseteq Sockets \cup {Http(0), Http(1)} /\ faults' \in 0..MaxFaults
BY ConnectionAssumption DEF IInv, TypeOK, Created, Faulty

\* The next HTTP provider exists, and is no websocket.
LEMMA HttpTyped == IInv => NextHttp \in {Http(0), Http(1)}
<1> SUFFICES ASSUME IInv PROVE NextHttp \in {Http(0), Http(1)}
    OBVIOUS
<1>1. PICK n \in Nat : provider = Socket(n) \/ provider = Http(n)
    BY ConnectionAssumption DEF IInv, TypeOK, Sockets
<1> QED BY <1>1, NextIsHttp

\* Destroying the latest websocket provider, whether it succeeds or hangs.
LEMMA Destroying ==
    ASSUME IInv, DestroySocket
    PROVE  /\ destroyed' \subseteq Sockets /\ hung' \subseteq Sockets
           /\ destroyed' \subseteq {Socket(n) : n \in 0..resets}
           /\ \A n \in 0..resets : Socket(n) \in destroyed' \cup hung'
<1>1. ws = resets /\ resets \in 0..MaxResets /\ resets \in 0..resets
    BY ConnectionAssumption DEF IInv, TypeOK
<1>2. Socket(ws) \in Sockets /\ Socket(ws) \in {Socket(n) : n \in 0..resets}
    BY <1>1 DEF Sockets
<1>3. destroyed \subseteq destroyed' /\ hung \subseteq hung'
    BY DEF DestroySocket
<1>4. ASSUME NEW n \in 0..resets PROVE Socket(n) \in destroyed' \cup hung'
    <2>1. CASE n = resets
        BY <2>1, <1>1 DEF DestroySocket
    <2>2. CASE n # resets
        <3>1. n \in 0..resets - 1
            BY <2>2, <1>1
        <3> QED BY <3>1, <1>3 DEF IInv, ReplacedDestroyed
    <2> QED BY <2>1, <2>2
<1> QED BY <1>2, <1>4 DEF IInv, TypeOK, Existed, DestroySocket

\* An HTTP provider disturbs none of the statements about websockets.
LEMMA OnHttp ==
    ASSUME provider' \in {Http(0), Http(1)}
    PROVE  OnLatest'
BY Providers DEF OnLatest, Mode

-----------------------------------------------------------------------------
LEMMA Preserved == IInv /\ [Next]_vars => IInv'
<1> SUFFICES ASSUME IInv, [Next]_vars PROVE IInv'
    OBVIOUS
<1>t. TypeOK /\ resets \in Nat /\ ws = resets /\ faults \in Nat
    BY ConnectionAssumption DEF IInv, TypeOK
<1>1. CASE Boot
    <2>1. Socket(0) \in Sockets \cup {Http(0), Http(1)}
        BY ConnectionAssumption DEF Sockets
    <2>2. TypeOK'
        BY <1>1, <1>t, <2>1, CreatedTyped DEF Boot, TypeOK
    <2>3. (OnLatest /\ ProbesOpen /\ Existed /\ BelowLimit /\ ReplacedDestroyed)'
        BY <1>1 DEF Boot, IInv, OnLatest, Mode, ProbesOpen, Existed, BelowLimit, ReplacedDestroyed
    <2> QED BY <2>2, <2>3 DEF IInv
<1>2. CASE Block \/ Silence
    <2>1. TypeOK'
        BY <1>2, <1>t DEF Block, Silence, TypeOK
    <2>2. (OnLatest /\ ProbesOpen /\ Existed /\ BelowLimit /\ ReplacedDestroyed)'
        BY <1>2 DEF Block, Silence, IInv, OnLatest, Mode, ProbesOpen, Existed, BelowLimit,
                    ReplacedDestroyed
    <2> QED BY <2>1, <2>2 DEF IInv
<1>3. CASE Dies \/ Revives
    <2>1. works' \subseteq Sockets \cup {Http(0), Http(1)} /\ faults' \in 0..MaxFaults
        BY <1>3, <1>t, ConnectionAssumption DEF Dies, Revives, Faulty, TypeOK
    <2>2. TypeOK'
        BY <1>3, <1>t, <2>1 DEF Dies, Revives, TypeOK
    <2>3. (OnLatest /\ ProbesOpen /\ Existed /\ BelowLimit /\ ReplacedDestroyed)'
        BY <1>3 DEF Dies, Revives, IInv, OnLatest, Mode, ProbesOpen, Existed, BelowLimit,
                    ReplacedDestroyed
    <2> QED BY <2>2, <2>3 DEF IInv
<1>4. CASE LeaveSocket
    <2>1. provider' \in {Http(0), Http(1)}
        BY <1>4, HttpTyped DEF LeaveSocket
    <2>2. TypeOK'
        BY <1>4, <1>t, <2>1, CreatedTyped DEF LeaveSocket, Begin, TypeOK
    <2>3. OnLatest'
        BY <2>1, OnHttp
    <2>4. (ProbesOpen /\ Existed /\ BelowLimit /\ ReplacedDestroyed)'
        BY <1>4 DEF LeaveSocket, Begin, IInv, ProbesOpen, Existed, BelowLimit, ReplacedDestroyed
    <2> QED BY <2>2, <2>3, <2>4 DEF IInv
<1>5. CASE LeaveHttp
    <2>1. TypeOK'
        BY <1>5, <1>t DEF LeaveHttp, Begin, TypeOK
    <2>2. (OnLatest /\ ProbesOpen /\ Existed /\ BelowLimit /\ ReplacedDestroyed)'
        BY <1>5 DEF LeaveHttp, Begin, IInv, OnLatest, Mode, ProbesOpen, Existed, BelowLimit,
                    ReplacedDestroyed
    <2> QED BY <2>1, <2>2 DEF IInv
<1>6. CASE Left
    <2>1. Mode # "WS"
        BY <1>6 DEF Left, IInv, OnLatest
    <2>2. TypeOK'
        BY <1>6, <1>t, Destroying DEF Left, TypeOK
    <2>3. (OnLatest /\ ProbesOpen /\ Existed /\ BelowLimit)'
        BY <1>6, <2>1, Destroying DEF Left, IInv, OnLatest, Mode, ProbesOpen, Existed, BelowLimit
    <2>4. ReplacedDestroyed'
        BY <1>6, <1>t, Destroying DEF Left, ReplacedDestroyed
    <2> QED BY <2>2, <2>3, <2>4 DEF IInv
<1>7. CASE CreateThrows
    <2>1. Mode # "WS" /\ faults' \in 0..MaxFaults
        BY <1>7, <1>t, ConnectionAssumption DEF CreateThrows, Faulty, IInv, OnLatest
    <2>2. TypeOK'
        BY <1>7, <1>t, <2>1, Destroying DEF CreateThrows, TypeOK
    <2>3. (OnLatest /\ ProbesOpen /\ Existed /\ BelowLimit)'
        BY <1>7, <2>1, Destroying
        DEF CreateThrows, IInv, OnLatest, Mode, ProbesOpen, Existed, BelowLimit
    <2>4. ReplacedDestroyed'
        BY <1>7, <1>t, Destroying DEF CreateThrows, ReplacedDestroyed
    <2> QED BY <2>2, <2>3, <2>4 DEF IInv
<1>8. CASE Replace
    <2>1. resets' = resets + 1 /\ ws' = resets + 1 /\ resets' \in 0..MaxResets
        BY <1>8, <1>t, ConnectionAssumption DEF Replace, IInv, BelowLimit, TypeOK
    <2>2. Socket(resets + 1) \in Sockets
        BY <2>1 DEF Sockets
    <2>3. TypeOK'
        BY <1>8, <1>t, <2>1, <2>2, CreatedTyped, Destroying DEF Replace, TypeOK
    <2>4. Mode # "WS" /\ OnLatest'
        BY <1>8 DEF Replace, IInv, OnLatest, Mode
    <2>5. Socket(resets + 1) \notin destroyed'
        <3>1. resets + 1 \notin 0..resets
            BY <1>t
        <3> QED BY <1>8, <3>1, Destroying, Providers DEF Replace
    <2>6. ProbesOpen' /\ BelowLimit'
        BY <1>8, <2>1, <2>5 DEF Replace, ProbesOpen, BelowLimit
    <2>7. Existed' /\ ReplacedDestroyed'
        <3>1. 0..resets \subseteq 0..resets' /\ 0..resets' - 1 = 0..resets
            BY <1>t, <2>1
        <3> QED BY <1>8, <3>1, Destroying DEF Replace, Existed, ReplacedDestroyed
    <2> QED BY <2>3, <2>4, <2>6, <2>7 DEF IInv
<1>9. CASE Probed
    <2>1. CASE resets >= MaxResets
        <3>1. Exit
            BY <1>9, <2>1 DEF Probed
        <3>2. Socket(0) \in Sockets
            BY ConnectionAssumption DEF Sockets
        <3>3. TypeOK'
            <4>1. /\ resets' \in 0..MaxResets /\ ws' = resets'
                  /\ faults' \in 0..MaxFaults
                BY <3>1, <1>t, ConnectionAssumption DEF Exit, TypeOK
            <4> QED BY <3>1, <3>2, <4>1 DEF Exit, TypeOK
        <3>4. (OnLatest /\ ProbesOpen /\ Existed /\ BelowLimit /\ ReplacedDestroyed)'
            BY <3>1, ConnectionAssumption
            DEF Exit, OnLatest, ProbesOpen, Existed, BelowLimit, ReplacedDestroyed
        <3> QED BY <3>3, <3>4 DEF IInv
    <2>2. CASE ~(resets >= MaxResets)
        <3>1. Move /\ pc = "probe" /\ resets < MaxResets
            BY <1>9, <2>2, <1>t, ConnectionAssumption DEF Probed
        <3>2. Socket(ws) \in Sockets /\ Socket(ws) \notin destroyed
            BY <3>1 DEF IInv, TypeOK, ProbesOpen, Sockets
        <3>3. TypeOK'
            BY <3>1, <3>2, <1>t, HttpTyped, CreatedTyped DEF Move, TypeOK
        <3>4. OnLatest'
            <4>1. CASE provider' = Socket(ws)
                BY <3>1, <3>2, <4>1 DEF Move, OnLatest
            <4>2. CASE provider' = NextHttp
                BY <4>2, HttpTyped, OnHttp
            <4> QED BY <3>1, <4>1, <4>2 DEF Move
        <3>5. (ProbesOpen /\ Existed /\ BelowLimit /\ ReplacedDestroyed)'
            BY <3>1 DEF Move, IInv, ProbesOpen, Existed, BelowLimit, ReplacedDestroyed
        <3> QED BY <3>3, <3>4, <3>5 DEF IInv
    <2> QED BY <2>1, <2>2
<1>10. CASE UNCHANGED vars
    BY <1>10 DEF vars, IInv, TypeOK, OnLatest, Mode, ProbesOpen, Existed, BelowLimit,
                 ReplacedDestroyed
<1> QED BY <1>1, <1>2, <1>3, <1>4, <1>5, <1>6, <1>7, <1>8, <1>9, <1>10 DEF Next, Reset

-----------------------------------------------------------------------------
(* The invariant holds in every reachable state of every configuration.    *)
THEOREM Invariance == Spec => []IInv
BY Starts, Preserved, PTL DEF Spec

(* resetRpcFunc and its timer keep their variables within their types, and  *)
(* wsProvider is always the provider created by the latest reset.           *)
THEOREM TypeCorrect == Spec => []TypeOK
<1>1. IInv => TypeOK
    BY DEF IInv
<1> QED BY <1>1, Invariance, PTL

(* The listener is never left on a destroyed provider, whatever dies, hangs *)
(* or throws, and at whatever await of a reset.                             *)
THEOREM NeverOnDestroyed == Spec => []ListensToOpen
BY Open, Invariance, PTL

(* No websocket provider is replaced without an attempt to destroy it.      *)
THEOREM ReplacedAreDestroyed == Spec => []ReplacedDestroyed
<1>1. IInv => ReplacedDestroyed
    BY DEF IInv
<1> QED BY <1>1, Invariance, PTL
=============================================================================
