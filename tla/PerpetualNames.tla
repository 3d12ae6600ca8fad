--------------------------- MODULE PerpetualNames ---------------------------
(***************************************************************************)
(* set_oracles.ts: the table of perpetual names with the interval in which *)
(* each is valid.  An insert is four queries (is the row there, who is the *)
(* predecessor, end its interval, create the row); nobody awaits it, so    *)
(* inserts interleave, and alignTimestamps repairs the intervals later.    *)
(***************************************************************************)
EXTENDS EventLog

VARIABLES
    names,    \* rows [tx, perp, from, to] of perpetual_long_id, one per tx
    naming    \* inserts in flight [ev, by, at, pred]

nameVars == <<names, naming>>

Far == Max(Times) + 1       \* 9999-12-31
NoTx == "none"

NamesInit == names = {} /\ naming = {}

NewName(e, by) == [ev |-> e, by |-> by, at |-> "find", pred |-> NoTx]

FindName(t) ==
    /\ t.at = "find"
    /\ naming' = (naming \ {t}) \cup
          IF \E r \in names : r.tx = Event[t.ev].tx THEN {} ELSE {[t EXCEPT !.at = "pred"]}
    /\ UNCHANGED names

\* Mutant: the predecessor may have begun later.
OpenBefore_Any(e) == {r \in names : r.perp = Event[e].about /\ r.to = Far}

\* Open rows of the same perpetual that began earlier.
OpenBefore(e) ==
    {r \in names : r.perp = Event[e].about /\ r.to = Far /\ r.from < Event[e].time}

FindPredecessor(t) ==
    /\ t.at = "pred"
    /\ IF OpenBefore(t.ev) = {}
       THEN naming' = (naming \ {t}) \cup {[t EXCEPT !.at = "create"]}
       ELSE \E r \in OpenBefore(t.ev) :
              /\ \A q \in OpenBefore(t.ev) : q.from <= r.from
              /\ naming' = (naming \ {t}) \cup {[t EXCEPT !.at = "adjust", !.pred = r.tx]}
    /\ UNCHANGED names

AdjustPredecessor(t) ==
    /\ t.at = "adjust"
    /\ names' = {IF r.tx = t.pred THEN [r EXCEPT !.to = Event[t.ev].time] ELSE r : r \in names}
    /\ naming' = (naming \ {t}) \cup {[t EXCEPT !.at = "create", !.pred = NoTx]}

\* The transaction hash is the key: a second creation is rejected.
CreateName(t) ==
    /\ t.at = "create"
    /\ LET ev == Event[t.ev]
       IN  names' = IF \E r \in names : r.tx = ev.tx THEN names
                    ELSE names \cup {[tx |-> ev.tx, perp |-> ev.about,
                                      from |-> ev.time, to |-> Far]}
    /\ naming' = naming \ {t}

\* A query throws: the insert ends where it is.
NameFails(t) == naming' = naming \ {t} /\ UNCHANGED names

NameStep(t) ==
    FindName(t) \/ FindPredecessor(t) \/ AdjustPredecessor(t) \/ CreateName(t)

\* The begins that LEAD may give a row: the next later one, and its own if
\* another row began at the same time (their order is then arbitrary).
NextFrom(r) ==
    LET others == {q \in names \ {r} : q.perp = r.perp}
        later == {q.from : q \in {p \in others : p.from > r.from}}
    IN  (IF later = {} THEN {} ELSE {Min(later)})
          \cup {q.from : q \in {p \in others : p.from = r.from}}

\* One statement: each row with a successor ends where the next one begins.
AlignTimestamps ==
    /\ \E next \in [names -> 0..Far] :
          /\ \A r \in names : IF NextFrom(r) = {} THEN next[r] = r.to ELSE next[r] \in NextFrom(r)
          /\ names' = {[r EXCEPT !.to = next[r]] : r \in names}
    /\ UNCHANGED naming

\* Latest row of any origin: the table has no is_collected_by_event.
LatestName == Max({0} \cup {r.from : r \in names})

-----------------------------------------------------------------------------
NamesTypeOK ==
    /\ names \subseteq [tx : Txs, perp : Subjects("oracles"), from : Times, to : Times \cup {Far}]
    /\ \A r, q \in names : r.tx = q.tx => r = q
    /\ naming \subseteq [ev : OfKind("oracles"), by : Callers,
                         at : {"find", "pred", "adjust", "create"}, pred : Txs \cup {NoTx}]
=============================================================================
