------------------------- MODULE HistoryConnection -------------------------
(***************************************************************************)
(* The history service's live connection: the event listener is moved      *)
(* between a websocket provider and HTTP providers by a heartbeat that     *)
(* finds no recent block.  Before a new websocket provider replaces the    *)
(* old one the old one is destroyed, which may hang; a new one is probed   *)
(* for a block before the listener moves to it.                            *)
(***************************************************************************)
EXTENDS Integers

CONSTANTS
    MaxResets,    \* maxWsResetCounter: the process exits after so many new providers
    MaxFaults     \* bound: dead or dying providers, constructors that throw

ASSUME ConnectionAssumption == MaxResets \in Nat \ {0} /\ MaxFaults \in Nat

VARIABLES
    up,           \* the process is running
    provider,     \* the listener's provider
    ws,           \* wsProvider, a number: the wsResetCounter of its creation
    works,        \* providers that deliver blocks
    destroyed,    \* websocket providers destroyed
    hung,         \* websocket providers whose destroy threw or timed out
    stale,        \* no block within the last 30 seconds
    running,      \* resetRpcRunning
    pc,           \* where resetRpcFunc waits: "idle", "leave", "replace", "probe"
    resets,       \* wsResetCounter
    faults

vars == <<up, provider, ws, works, destroyed, hung, stale, running, pc, resets, faults>>

Socket(n) == <<"WS", n>>
Http(n) == <<"HTTP", n>>
Mode == provider[1]               \* listeningMode
NextHttp == Http(1 - (provider[2] % 2))

Faulty == faults < MaxFaults /\ faults' = faults + 1

\* A provider is created in place of another: it works, or it does not.
Created(p, gone) ==
    \/ works' = (works \ {gone}) \cup {p} /\ UNCHANGED faults
    \/ works' = works \ {gone, p} /\ Faulty

Init ==
    /\ up = TRUE /\ provider = Socket(0) /\ ws = 0 /\ works = {Socket(0)}
    /\ destroyed = {} /\ hung = {} /\ stale = FALSE
    /\ running = FALSE /\ pc = "idle" /\ resets = 0 /\ faults = 0

\* process.exit at the end of a reset, and the container's restart.
Exit ==
    /\ up' = FALSE /\ provider' = Socket(0) /\ ws' = 0 /\ works' = {}
    /\ destroyed' = {} /\ hung' = {} /\ stale' = FALSE
    /\ running' = FALSE /\ pc' = "idle" /\ resets' = 0 /\ UNCHANGED faults

Boot ==
    /\ ~up /\ up' = TRUE
    /\ Created(Socket(0), Socket(0))
    /\ UNCHANGED <<provider, ws, destroyed, hung, stale, running, pc, resets>>

-----------------------------------------------------------------------------
Block ==
    /\ up /\ provider \in works /\ stale /\ stale' = FALSE
    /\ UNCHANGED <<up, provider, ws, works, destroyed, hung, running, pc, resets, faults>>

Silence ==
    /\ up /\ ~stale /\ stale' = TRUE
    /\ UNCHANGED <<up, provider, ws, works, destroyed, hung, running, pc, resets, faults>>

Dies ==
    /\ up /\ Faulty
    /\ \E p \in works : works' = works \ {p}
    /\ UNCHANGED <<up, provider, ws, destroyed, hung, stale, running, pc, resets>>

\* An endpoint comes back by itself.
Revives ==
    /\ up /\ provider \notin works \cup destroyed
    /\ works' = works \cup {provider}
    /\ UNCHANGED <<up, provider, ws, destroyed, hung, stale, running, pc, resets, faults>>

-----------------------------------------------------------------------------
(* resetRpcFunc.                                                           *)

Begin == up /\ stale /\ ~running /\ pc = "idle" /\ running' = TRUE

\* Mutant: the websocket provider is destroyed before the listener leaves it.
LeaveSocket_DestroyFirst ==
    /\ Begin /\ Mode = "WS"
    /\ destroyed' = destroyed \cup {provider} /\ works' = works \ {provider} /\ pc' = "replace"
    /\ UNCHANGED <<up, provider, ws, hung, stale, resets, faults>>

\* The websocket is not working: listen on HTTP, then destroy it.
LeaveSocket ==
    /\ Begin /\ Mode = "WS"
    /\ provider' = NextHttp /\ Created(NextHttp, NextHttp) /\ pc' = "leave"
    /\ UNCHANGED <<up, ws, destroyed, hung, stale, resets>>

\* HTTP is not working either: destroy the previous websocket provider.
LeaveHttp ==
    /\ Begin /\ Mode = "HTTP" /\ pc' = "replace"
    /\ UNCHANGED <<up, provider, ws, works, destroyed, hung, stale, resets, faults>>

\* wsProvider.destroy returns, or it throws or exceeds its ten seconds.
DestroySocket ==
    \/ destroyed' = destroyed \cup {Socket(ws)} /\ UNCHANGED hung
    \/ hung' = hung \cup {Socket(ws)} /\ UNCHANGED destroyed

Left ==
    /\ pc = "leave"
    /\ DestroySocket /\ works' = works \ {Socket(ws)}
    /\ pc' = "idle" /\ running' = FALSE
    /\ UNCHANGED <<up, provider, ws, stale, resets, faults>>

\* Mutant: on HTTP, the previous websocket provider is just replaced.
Replace_Undestroyed ==
    /\ pc = "replace"
    /\ Created(Socket(resets + 1), Socket(ws))
    /\ resets' = resets + 1 /\ ws' = resets + 1 /\ pc' = "probe"
    /\ UNCHANGED <<up, provider, destroyed, hung, stale, running>>

\* A new websocket provider is created, and probed for a block.
Replace ==
    /\ pc = "replace"
    /\ DestroySocket /\ Created(Socket(resets + 1), Socket(ws))
    /\ resets' = resets + 1 /\ ws' = resets + 1 /\ pc' = "probe"
    /\ UNCHANGED <<up, provider, stale, running>>

\* Mutant: the handler around resetRpcFunc does not release the guard.
CreateThrows_Guarded ==
    /\ pc = "replace" /\ Faulty
    /\ DestroySocket /\ works' = works \ {Socket(ws)} /\ pc' = "idle"
    /\ UNCHANGED <<up, provider, ws, stale, running, resets>>

\* The creation throws: the timer's handler releases the guard.
CreateThrows ==
    /\ pc = "replace" /\ Faulty
    /\ DestroySocket /\ works' = works \ {Socket(ws)}
    /\ pc' = "idle" /\ running' = FALSE
    /\ UNCHANGED <<up, provider, ws, stale, resets>>

\* The probe has seen a block, or 30 seconds have passed without one.
Move ==
    /\ \/ Socket(ws) \in works /\ provider' = Socket(ws) /\ UNCHANGED <<works, faults>>
       \/ provider' = NextHttp /\ Created(NextHttp, NextHttp)
    /\ pc' = "idle" /\ running' = FALSE
    /\ UNCHANGED <<up, ws, destroyed, hung, stale, resets>>

\* Mutant: the number of resets is not looked at.
Probed_Endless == pc = "probe" /\ Move

\* The listener moves; once enough providers were created the process exits.
Probed ==
    /\ pc = "probe"
    /\ IF resets >= MaxResets THEN Exit ELSE Move

Reset == LeaveSocket \/ LeaveHttp \/ Left \/ Replace \/ Probed

Next == Boot \/ Block \/ Silence \/ Dies \/ Revives \/ Reset \/ CreateThrows

Spec == Init /\ [][Next]_vars

\* The heartbeat timer fires and every await of resetRpcFunc is bounded by a
\* timeout; a provider that works delivers a block before the next heartbeat.
FairSpec == Spec /\ WF_vars(Boot) /\ WF_vars(Reset) /\ SF_vars(Block)

-----------------------------------------------------------------------------
Sockets == {Socket(n) : n \in 0..MaxResets}

TypeOK ==
    /\ up \in BOOLEAN /\ stale \in BOOLEAN /\ running \in BOOLEAN
    /\ provider \in Sockets \cup {Http(0), Http(1)}
    /\ works \subseteq Sockets \cup {Http(0), Http(1)}
    /\ destroyed \subseteq Sockets /\ hung \subseteq Sockets
    /\ pc \in {"idle", "leave", "replace", "probe"}
    /\ resets \in 0..MaxResets /\ ws = resets /\ faults \in 0..MaxFaults

(* The listener never has its handlers on a provider that has been          *)
(* destroyed, at any await of a reset and whatever resets went before.      *)
ListensToOpen == provider \notin destroyed

(* A websocket provider that has been replaced has been destroyed, unless   *)
(* its destroy failed: "Websocket provider leaks memory".                   *)
ReplacedDestroyed == \A n \in 0..resets - 1 : Socket(n) \in destroyed \cup hung

(* However providers die, hang or fail to be created, blocks arrive again   *)
(* and again once providers can be created that work.                       *)
Recovers == []<>(up /\ ~stale)
=============================================================================
