--------------------------- MODULE HistoryIngest ---------------------------
(***************************************************************************)
(* How the history service gets contract events into its tables: the       *)
(* live listener, the guarded backfill (initial and redundancy runs), the  *)
(* gap filler, the per-table watermarks that let a run skip events, the    *)
(* inserts nobody awaits, and crashes with a restart.                      *)
(*                                                                         *)
(* The chain is a log 1..NumEvents; the position of an event stands for    *)
(* its block and its timestamp, and head is the current time.  A scan is   *)
(* abstracted to the contract ScanContract that ChunkScan implements.      *)
(***************************************************************************)
EXTENDS Integers, Sequences, FiniteSets, FiniteSetsExt

CONSTANTS
    NumEvents,     \* bound: length of the chain's log
    KindOf,        \* the table an event goes to
    KindOrder,     \* the tables, in the order their watermarks are read
    Lookback,      \* what the table's watermark is set back by (one hour or nothing)
    Upserts,       \* tables written by an upsert; the others find, then create
    GapRunners,    \* concurrent activations of detectAndFillGaps
    Window,        \* 30 days: the initial run and gap detection look no further
    GapWindow,     \* 7 days: the gap filling after the initial run
    Precision,     \* how much earlier than asked a scan may start (6 hours)
    GapThreshold,  \* rows of a table further apart than this are a gap
    Heard,         \* bound: events the listener may deliver
    MaxFaults,     \* bound: failed inserts, abandoned chunks, failed runs
    MaxCrashes     \* bound: crashes and process.exit

Log == 1..NumEvents
Kinds == {KindOrder[i] : i \in 1..Len(KindOrder)}
NoMark == NumEvents + 1         \* the table has no backfilled row
Runners == {"main"} \cup GapRunners

ASSUME IngestAssumption ==
    /\ NumEvents \in Nat \ {0}
    /\ KindOrder \in Seq(STRING) /\ KindOf \in [Log -> Kinds]
    /\ \A k \in Kinds : Lookback[k] \in Nat
    /\ Upserts \subseteq STRING
    /\ "main" \notin GapRunners /\ Heard \subseteq Log
    /\ {Window, GapWindow, Precision, GapThreshold, MaxFaults, MaxCrashes} \subseteq Nat

VARIABLES
    head,     \* events mined so far
    fresh,    \* the newest event is in the newest block
    row,      \* row of each event: "none", "live" or "backfill" (is_collected_by_event)
    tasks,    \* inserts in flight: [ev, by, seen], by = "live" or "backfill"
    run,      \* local state of each runner
    initial,  \* the main runner's run is the one started by main()
    up,       \* the process is running
    floor,    \* history: events before it were out of an initial run's window
    lost,     \* history: events whose insert or scan failed
    faults, crashes

vars == <<head, fresh, row, tasks, run, initial, up, floor, lost, faults, crashes>>

LessOf(a, b) == IF a <= b THEN a ELSE b
MoreOf(a, b) == IF a >= b THEN a ELSE b

Idle == [phase |-> "idle", skip |-> FALSE, start |-> 0, read |-> 0,
         mark |-> [k \in Kinds |-> NoMark], pos |-> 1, last |-> 0,
         gaps |-> {}, base |-> 0]

\* runHistoricalDataFilterers is called: the watermarks are read next.
Begin(r, start, skip) ==
    [run[r] EXCEPT !.phase = "marks", !.start = start, !.skip = skip,
                   !.read = 0, !.mark = Idle.mark]

WindowStart == MoreOf(0, head - Window)

Init ==
    /\ head = 0 /\ fresh = FALSE /\ row = [e \in Log |-> "none"] /\ tasks = {}
    /\ run = [r \in Runners |-> Idle]
    /\ initial = FALSE /\ up = FALSE
    /\ floor = 0 /\ lost = {} /\ faults = 0 /\ crashes = 0

-----------------------------------------------------------------------------
(* The chain and the live listener.                                        *)

\* The listener may hear e and get its block's timestamp: getBlockTs did not
\* give up.
Audible(e) == up /\ e \in Heard

\* Bound: the scan of an initial run takes less than the seven days that the gap
\* filling after it looks back.
InTime == initial /\ run["main"].phase = "scan" => head <= run["main"].last + GapWindow

\* An event is mined; its handler starts the insert, or the listener misses it
\* (no connection, or no timestamp).
Mine ==
    /\ head < NumEvents /\ InTime
    /\ head' = head + 1 /\ fresh' = TRUE
    /\ \/ /\ Audible(head + 1)
          /\ tasks' = tasks \cup {[ev |-> head + 1, by |-> "live", seen |-> "no"]}
       \/ UNCHANGED tasks
    /\ UNCHANGED <<row, run, initial, up, floor, lost, faults, crashes>>

\* A block without an event of ours.
NewBlock ==
    /\ fresh /\ fresh' = FALSE
    /\ UNCHANGED <<head, row, tasks, run, initial, up, floor, lost, faults, crashes>>

-----------------------------------------------------------------------------
(* The inserts: each is a promise nobody awaits.  Two inserts in flight for *)
(* the same event from the same kind of caller write the same and count as *)
(* one.                                                                    *)

Upsert(t) ==
    /\ t \in tasks /\ KindOf[t.ev] \in Upserts
    /\ row' = [row EXCEPT ![t.ev] = t.by]
    /\ tasks' = tasks \ {t}
    /\ UNCHANGED <<head, fresh, run, initial, up, floor, lost, faults, crashes>>

FindRow(t) ==
    /\ t \in tasks /\ KindOf[t.ev] \notin Upserts /\ t.seen = "no"
    /\ LET found == IF row[t.ev] = "none" THEN "absent" ELSE "present"
       IN  tasks' = (tasks \ {t}) \cup {[t EXCEPT !.seen = found]}
    /\ UNCHANGED <<head, fresh, row, run, initial, up, floor, lost, faults, crashes>>

\* Mutant: a late live insert overwrites the row that appeared meanwhile.
CreateOrUpdate_Overwrite(t) ==
    /\ t \in tasks /\ t.seen # "no"
    /\ row' = IF t.seen = "absent" \/ t.by = "backfill"
              THEN [row EXCEPT ![t.ev] = t.by]
              ELSE row
    /\ tasks' = tasks \ {t}
    /\ UNCHANGED <<head, fresh, run, initial, up, floor, lost, faults, crashes>>

\* Create after not finding the row (the key rejects a second creation), or
\* clear the flag of the row found.
CreateOrUpdate(t) ==
    /\ t \in tasks /\ t.seen # "no"
    /\ row' = IF \/ t.seen = "absent" /\ row[t.ev] = "none"
                 \/ t.seen = "present" /\ t.by = "backfill"
              THEN [row EXCEPT ![t.ev] = t.by]
              ELSE row
    /\ tasks' = tasks \ {t}
    /\ UNCHANGED <<head, fresh, run, initial, up, floor, lost, faults, crashes>>

Fail == faults < MaxFaults /\ faults' = faults + 1

\* The database rejects the insert: the error is logged.
InsertFails(t) ==
    /\ t \in tasks
    /\ Fail
    /\ tasks' = tasks \ {t}
    /\ lost' = lost \cup {t.ev}
    /\ UNCHANGED <<head, fresh, row, run, initial, up, floor, crashes>>

-----------------------------------------------------------------------------
(* A run: watermarks one table at a time, then the scan.                   *)

Backfilled(k) == {e \in Log : KindOf[e] = k /\ row[e] = "backfill"}

\* Mutant: the query forgets is_collected_by_event = false.
Watermark_AnyRow(k) ==
    LET stored == {e \in Log : KindOf[e] = k /\ row[e] # "none"} IN
    IF stored = {} THEN NoMark ELSE MoreOf(0, Max(stored) - Lookback[k])

\* The latest row the backfill has confirmed, set back by the lookback.
Watermark(k) ==
    IF Backfilled(k) = {} THEN NoMark ELSE MoreOf(0, Max(Backfilled(k)) - Lookback[k])

ReadWatermark(r) ==
    /\ run[r].phase = "marks" /\ run[r].read < Len(KindOrder)
    /\ LET k == KindOrder[run[r].read + 1]
       IN  run' = [run EXCEPT ![r].mark[k] = Watermark(k), ![r].read = @ + 1]
    /\ UNCHANGED <<head, fresh, row, tasks, initial, up, floor, lost, faults, crashes>>

\* The earliest watermark, and the start the caller asked for.
Since(r) == LessOf(run[r].start, Min({run[r].mark[k] : k \in Kinds}))

\* calculateBlockFromTime: some block before Since, and the newest block;
\* the scan's last query reaches the events of the newest block or not.
StartScan(r) ==
    /\ run[r].phase = "marks" /\ run[r].read = Len(KindOrder)
    /\ \E p \in MoreOf(1, Since(r) - Precision)..MoreOf(1, Since(r)),
          l \in IF fresh THEN {head - 1, head} ELSE {head} :
          run' = [run EXCEPT ![r].phase = "scan", ![r].pos = p, ![r].last = l,
                             ![r].start = 0, ![r].read = 0,
                             ![r].mark = IF run[r].skip THEN @ ELSE Idle.mark]
    /\ UNCHANGED <<head, fresh, row, tasks, initial, up, floor, lost, faults, crashes>>

Skipped(r, e) ==
    LET m == run[r].mark[KindOf[e]] IN run[r].skip /\ m # NoMark /\ e < m

\* r's run is going to hand e to an insert, whatever it reads from now on.
WillHand(r, e) ==
    \/ run[r].phase = "marks" /\ ~run[r].skip /\ run[r].start <= e /\ e <= head
    \/ run[r].phase = "scan" /\ run[r].pos <= e /\ e <= run[r].last /\ ~Skipped(r, e)

\* Mutant: the loop runs one event past the end.
HandNext_PastEnd(r) ==
    /\ run[r].phase = "scan" /\ run[r].pos <= run[r].last + 1
    /\ LET e == run[r].pos
       IN  tasks' = IF Skipped(r, e) THEN tasks
                    ELSE tasks \cup {[ev |-> e, by |-> "backfill", seen |-> "no"]}
    /\ run' = [run EXCEPT ![r].pos = @ + 1]
    /\ UNCHANGED <<head, fresh, row, initial, up, floor, lost, faults, crashes>>

\* The callback sees the next event: skip it, or start an insert.
HandNext(r) ==
    /\ run[r].phase = "scan" /\ run[r].pos <= run[r].last
    /\ LET e == run[r].pos
       IN  tasks' = IF Skipped(r, e) THEN tasks
                    ELSE tasks \cup {[ev |-> e, by |-> "backfill", seen |-> "no"]}
    /\ run' = [run EXCEPT ![r].pos = @ + 1]
    /\ UNCHANGED <<head, fresh, row, initial, up, floor, lost, faults, crashes>>

\* The rest of a chunk is abandoned (ScanContract!GiveUp).
GiveUp(r) ==
    /\ run[r].phase = "scan"
    /\ Fail
    /\ \E p \in run[r].pos + 1..run[r].last + 1 :
          /\ run' = [run EXCEPT ![r].pos = p]
          /\ lost' = lost \cup {e \in run[r].pos..p - 1 : ~Skipped(r, e)}
    /\ UNCHANGED <<head, fresh, row, tasks, initial, up, floor, crashes>>

\* A gap runner starts to look for gaps.
Detecting(base) == [Idle EXCEPT !.phase = "detect", !.base = base]

\* The main run ends, successfully or not, and the guard is released.  The gap
\* filling chained to the initial run starts at once; it looks back seven days.
EndMain ==
    /\ \/ /\ ~initial \/ GapRunners = {}
          /\ run' = [run EXCEPT !["main"] = Idle]
       \/ /\ initial
          /\ \E g \in GapRunners :
                run' = [run EXCEPT !["main"] = Idle,
                                   ![g] = Detecting(MoreOf(0, head - GapWindow))]
    /\ initial' = FALSE

\* Mutant: gaps are filled by runs that skip what is below the watermark.
NextGap_Skipping(r, gaps, base) ==
    IF gaps = {} THEN Idle
    ELSE [Begin(r, MoreOf(Max(gaps), base), TRUE)
            EXCEPT !.gaps = gaps \ {Max(gaps)}, !.base = base]

\* A gap runner goes on to its next gap, most recent first.
NextGap(r, gaps, base) ==
    IF gaps = {} THEN Idle
    ELSE [Begin(r, MoreOf(Max(gaps), base), FALSE)
            EXCEPT !.gaps = gaps \ {Max(gaps)}, !.base = base]

EndRun(r) ==
    /\ run[r].phase = "scan" /\ run[r].pos > run[r].last
    /\ \/ r = "main" /\ EndMain
       \/ /\ r # "main"
          /\ run' = [run EXCEPT ![r] = NextGap(r, run[r].gaps, run[r].base)]
          /\ UNCHANGED initial
    /\ UNCHANGED <<head, fresh, row, tasks, up, floor, lost, faults, crashes>>

\* A query or the scan throws: the run rejects, and a gap runner stops.  What
\* a skipping run had ahead of it the next one finds again; what the others
\* had ahead of them may lie below the watermark by then.
RunFails(r) ==
    /\ run[r].phase \in {"marks", "scan"}
    /\ Fail
    /\ lost' = lost \cup {e \in Log : ~run[r].skip /\ WillHand(r, e)}
    /\ \/ r = "main" /\ EndMain
       \/ /\ r # "main"
          /\ run' = [run EXCEPT ![r] = Idle]
          /\ UNCHANGED initial
    /\ UNCHANGED <<head, fresh, row, tasks, up, floor, crashes>>

-----------------------------------------------------------------------------
(* Who starts a run.                                                       *)

\* Mutant: the initial run skips, like the redundancy runs.
Start_Skipping ==
    /\ ~up /\ up' = TRUE
    /\ run' = [run EXCEPT !["main"] = Begin("main", WindowStart, TRUE)]
    /\ initial' = TRUE
    /\ floor' = MoreOf(floor, WindowStart)
    /\ UNCHANGED <<head, fresh, row, tasks, lost, faults, crashes>>

\* main(): the initial run skips nothing and covers the last 30 days.
Start ==
    /\ ~up /\ up' = TRUE
    /\ run' = [run EXCEPT !["main"] = Begin("main", WindowStart, FALSE)]
    /\ initial' = TRUE
    /\ floor' = MoreOf(floor, WindowStart)
    /\ UNCHANGED <<head, fresh, row, tasks, lost, faults, crashes>>

\* The four-hour timer: from the deployment block, with skipping.
Redundancy ==
    /\ up /\ run["main"].phase = "idle"
    /\ run' = [run EXCEPT !["main"] = Begin("main", 0, TRUE)]
    /\ UNCHANGED <<head, fresh, row, tasks, initial, up, floor, lost, faults, crashes>>

\* The two-hour timer looks at the guard, once; gaps are then filled unguarded.
GapTimer(r) ==
    /\ up /\ run["main"].phase = "idle" /\ run[r].phase = "idle"
    /\ run' = [run EXCEPT ![r] = Detecting(0)]
    /\ UNCHANGED <<head, fresh, row, tasks, initial, up, floor, lost, faults, crashes>>

\* detectGaps: backfilled rows of one table whose successor is too far away.
GapStarts(k) ==
    LET rows == {e \in Backfilled(k) : e > head - Window}
    IN  {e \in rows : \E f \in rows : /\ f - e > GapThreshold
                                      /\ \A g \in rows : ~(e < g /\ g < f)}

DetectGaps(r) ==
    /\ run[r].phase = "detect" /\ run[r].read < Len(KindOrder)
    /\ LET k == KindOrder[run[r].read + 1]
       IN  run' = [run EXCEPT ![r].gaps = @ \cup GapStarts(k), ![r].read = @ + 1]
    /\ UNCHANGED <<head, fresh, row, tasks, initial, up, floor, lost, faults, crashes>>

FillGaps(r) ==
    /\ run[r].phase = "detect" /\ run[r].read = Len(KindOrder)
    /\ run' = [run EXCEPT ![r] = NextGap(r, run[r].gaps, run[r].base)]
    /\ UNCHANGED <<head, fresh, row, tasks, initial, up, floor, lost, faults, crashes>>

\* The process exits: what was in memory or in flight is gone.
Crash ==
    /\ up /\ crashes < MaxCrashes
    /\ up' = FALSE /\ crashes' = crashes + 1
    /\ tasks' = {} /\ run' = [r \in Runners |-> Idle]
    /\ initial' = FALSE
    /\ UNCHANGED <<head, fresh, row, floor, lost, faults>>

-----------------------------------------------------------------------------
Write == \E t \in tasks : Upsert(t) \/ FindRow(t) \/ CreateOrUpdate(t)
RunStep(r) == ReadWatermark(r) \/ StartScan(r) \/ HandNext(r) \/ EndRun(r)
GapStep(r) == GapTimer(r) \/ DetectGaps(r) \/ FillGaps(r)
Fault == (\E t \in tasks : InsertFails(t)) \/ (\E r \in Runners : GiveUp(r) \/ RunFails(r))

Next ==
    \/ Mine \/ NewBlock \/ Write \/ Start \/ Redundancy \/ Crash \/ Fault
    \/ \E r \in Runners : RunStep(r)
    \/ \E r \in GapRunners : GapStep(r)

Spec == Init /\ [][Next]_vars

\* Inserts complete, runs advance, timers fire, and a stopped process is
\* started again; the chain grows, but nothing forces events to be mined or the listener to work.
FairSpec ==
    /\ Spec
    /\ \A e \in Log : /\ WF_vars(\E t \in tasks : t.ev = e /\ (Upsert(t) \/ FindRow(t)))
                      /\ WF_vars(\E t \in tasks : t.ev = e /\ CreateOrUpdate(t))
    /\ \A r \in Runners : WF_vars(RunStep(r))
    /\ \A r \in GapRunners : WF_vars(DetectGaps(r) \/ FillGaps(r))
    /\ WF_vars(NewBlock) /\ WF_vars(Start) /\ WF_vars(Redundancy)

\* The gap timer keeps firing, and now and then it finds the guard released.
GapFairSpec == FairSpec /\ \A r \in GapRunners : SF_vars(GapTimer(r))

-----------------------------------------------------------------------------
Tasks == [ev : Log, by : {"live", "backfill"}, seen : {"no", "absent", "present"}]
Runs == [phase : {"idle", "detect", "marks", "scan"}, skip : BOOLEAN,
         start : 0..NumEvents, read : 0..Len(KindOrder),
         mark : [Kinds -> 0..NoMark], pos : 1..NoMark, last : 0..NumEvents,
         gaps : SUBSET Log, base : 0..NumEvents]

TypeOK ==
    /\ head \in 0..NumEvents /\ fresh \in BOOLEAN
    /\ row \in [Log -> {"none", "live", "backfill"}]
    /\ tasks \subseteq Tasks
    /\ run \in [Runners -> Runs]
    /\ initial \in BOOLEAN /\ up \in BOOLEAN
    /\ floor \in 0..NumEvents
    /\ lost \subseteq Log
    /\ faults \in 0..MaxFaults /\ crashes \in 0..MaxCrashes

Safe(e) ==
    \/ row[e] # "none"
    \/ \E t \in tasks : t.ev = e
    \/ \E r \in Runners : WillHand(r, e)
    \/ e \in lost

(* A redundancy run skips every event below its table's watermark, so the   *)
(* whole design rests on this: behind a backfilled row there is no event    *)
(* that is neither stored, nor being stored, nor ahead of a run that will   *)
(* store it, nor recorded as failed.  Runs overlap, inserts finish out of   *)
(* order, watermarks are read one after the other while rows change, and a  *)
(* crash forgets the inserts in flight.                                     *)
NoSilentHole ==
    up => \A e, f \in Log :
              e < f /\ row[f] = "backfill" /\ e >= floor => Safe(e)

(* In the tables that find before they create, a row the backfill has       *)
(* confirmed stays confirmed, so that their watermark never falls back,     *)
(* although a late live insert may have looked before the row was there.    *)
BackfilledStays ==
    [][\A e \in Log : row[e] = "backfill" /\ KindOf[e] \notin Upserts
                        => row'[e] = "backfill"]_vars

(* Whatever the listener misses and wherever the process stops, every event *)
(* in reach of an initial run is stored in the end unless its insert or its *)
(* scan failed.                                                             *)
EventuallyStored ==
    <>[](\A e \in 1..head : row[e] # "none" \/ e < floor \/ e \in lost)

InGap(e) ==
    /\ row[e] = "none"
    /\ \E a \in GapStarts(KindOf[e]), f \in Backfilled(KindOf[e]) :
          /\ a < e /\ e < f
          /\ \A g \in Backfilled(KindOf[e]) : ~(a < g /\ g < f)

(* Gap detection repairs what the skipping runs cannot: in the end no event *)
(* is missing between two backfilled rows of its table that are further     *)
(* apart than the threshold, even if its first insert failed - it has been  *)
(* stored, or a row next to it has lost the flag that made the gap visible. *)
GapsHeal == <>[](\A e \in Log : ~InGap(e))
=============================================================================
