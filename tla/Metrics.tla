------------------------------- MODULE Metrics -------------------------------
(***************************************************************************)
(* Counters (src/metrics.rs), what is kept of them (src/db/stats.rs), and  *)
(* the tasks of src/main.rs that keep it: totals loaded at start, a tick   *)
(* every five minutes, and a last flush at shutdown that nothing keeps     *)
(* from overlapping a tick.  One counter stands for the five, which are    *)
(* alike: the downloads, each of which also has its blob's row.  A         *)
(* statement is an action; the database has one connection, which a        *)
(* transaction holds from its first statement to its commit.               *)
(***************************************************************************)
EXTENDS Naturals, FiniteSets

CONSTANTS
    Worker,      \* downloads in progress
    Retention,   \* SERIES_RETENTION
    MaxEvents,   \* bound: downloads ever
    MaxHour,     \* bound: hours that pass
    MaxStarts,   \* bound: lives of the process
    Nil

ASSUME MetricsAssumption ==
    /\ Retention \in Nat \ {0}
    /\ MaxEvents \in Nat /\ MaxHour \in Nat /\ MaxStarts \in Nat
    /\ Nil \notin Nat \cup Worker

VARIABLES
    phase,       \* of the process
    counter,     \* the atomic
    totals,      \* the totals row
    series,      \* the sample of each hour that has one
    row,         \* the blob's download count
    conn,        \* who holds the connection in a transaction
    job,         \* what each download is doing
    flush,       \* what each persist is doing
    hour,
    starts,
    bumps,       \* history: downloads whose row was committed
    floor,       \* history: the downloads that are to be remembered
    flaw         \* history: what went wrong so far

process == <<phase, starts>>
stored == <<totals, series, row>>
history == <<bumps, floor, flaw>>
vars == <<process, counter, stored, conn, job, flush, hour, history>>

Count == 0..MaxEvents
Hour == 0..MaxHour

\* The persists: the ticking task's, and the one main makes on its way out.
Persist == {"tick", "final"}

Flush == [pc : {"idle", "present", "write", "count", "oldest", "delete", "save", "store"},
          sample : Count,         \* the counters as the persist began
          at : Hour,              \* the sample's bucket
          there : BOOLEAN,        \* whether a row was found to update
          arg : 0..(MaxHour + 1), \* how many buckets to drop, and up to which
          total : Count]          \* the totals to save

Done == [pc |-> "idle", sample |-> 0, at |-> 0, there |-> FALSE, arg |-> 0, total |-> 0]

Job == [pc : {"idle", "read", "commit"}, got : Count]

Idle == [pc |-> "idle", got |-> 0]

TypeOK ==
    /\ phase \in {"down", "up", "stopping"} /\ starts \in 0..MaxStarts
    /\ counter \in Count
    /\ totals \in Count \cup {Nil}
    /\ series \in [Hour -> Count \cup {Nil}]
    /\ row \in Count
    /\ conn \in Worker \cup {Nil}
    /\ job \in [Worker -> Job]
    /\ flush \in [Persist -> Flush]
    /\ hour \in Hour
    /\ bumps \in Count /\ floor \in Count
    /\ flaw \subseteq {"unread", "other"}

Init ==
    /\ phase = "down" /\ starts = 0
    /\ counter = 0
    /\ totals = Nil /\ series = [h \in Hour |-> Nil] /\ row = 0
    /\ conn = Nil
    /\ job = [w \in Worker |-> Idle]
    /\ flush = [p \in Persist |-> Done]
    /\ hour = 0
    /\ bumps = 0 /\ floor = 0 /\ flaw = {}

At(p, pc) == flush[p].pc = pc

Goto(p, pc) == flush' = [flush EXCEPT ![p].pc = pc]

Saved == IF totals = Nil THEN 0 ELSE totals

\* What is there is all that can still be asked for, once the last flush is lost.
Lost(p) == floor' = IF p = "final" THEN Saved ELSE floor

\* A statement of its own waits for a transaction to end.
Free == conn = Nil

-----------------------------------------------------------------------------
(* The process *)

\* The process is gone, with the counters and whatever was in progress; an
\* open transaction is rolled back.
Exit ==
    /\ phase' = "down"
    /\ counter' = 0
    /\ conn' = Nil
    /\ job' = [w \in Worker |-> Idle]
    /\ flush' = [p \in Persist |-> Done]

\* Slip: the counters not seeded.
SeedNothing == counter' = 0

\* metrics.seed of load_totals.
Seed == counter' = Saved

\* The load may fail: then the process starts all the same, from zero.
Start ==
    /\ phase = "down" /\ starts < MaxStarts
    /\ phase' = "up" /\ starts' = starts + 1
    /\ \/ Seed /\ UNCHANGED flaw
       \/ /\ totals # Nil
          /\ counter' = 0
          /\ flaw' = flaw \cup {"unread"}
    /\ UNCHANGED <<stored, conn, job, flush, hour, bumps, floor>>

Crash ==
    /\ phase # "down"
    /\ Exit
    /\ IF phase = "stopping" THEN Lost("final") ELSE UNCHANGED floor
    /\ flaw' = flaw \cup {"other"}
    /\ UNCHANGED <<starts, stored, hour, bumps>>

Tock ==
    /\ hour < MaxHour
    /\ hour' = hour + 1
    /\ UNCHANGED <<process, counter, stored, conn, job, flush, history>>

-----------------------------------------------------------------------------
(* A download: the counter, then the blob's row in a transaction *)

\* Connections are served until the process is gone, a last flush or not.
Download(w) ==
    /\ phase # "down"
    /\ job[w] = Idle
    /\ counter < MaxEvents
    /\ counter' = counter + 1
    /\ job' = [job EXCEPT ![w].pc = "read"]
    /\ UNCHANGED <<process, stored, conn, flush, hour, history>>

\* Slip: two statements, and no transaction.
ReadAlone(w) ==
    /\ job[w].pc = "read" /\ Free
    /\ job' = [job EXCEPT ![w] = [pc |-> "commit", got |-> row]]
    /\ UNCHANGED <<process, counter, stored, conn, flush, hour, history>>

ReadRow(w) ==
    /\ job[w].pc = "read" /\ Free
    /\ conn' = w
    /\ job' = [job EXCEPT ![w] = [pc |-> "commit", got |-> row]]
    /\ UNCHANGED <<process, counter, stored, flush, hour, history>>

Commit(w) ==
    /\ job[w].pc = "commit" /\ bumps < MaxEvents
    /\ row' = job[w].got + 1
    /\ bumps' = bumps + 1
    /\ conn' = Nil
    /\ job' = [job EXCEPT ![w] = Idle]
    /\ UNCHANGED <<process, counter, totals, series, flush, hour, floor, flaw>>

-----------------------------------------------------------------------------
(* persist_metrics: the hour's sample *)

Busy(p) == ~At(p, "idle")

\* The counters are read, and then the store's counts.
Begin(p) == flush' = [flush EXCEPT ![p] = [Done EXCEPT !.pc = "present", !.sample = counter]]

Overlapping(p) == flaw' = IF \E q \in Persist \ {p} : Busy(q)
                            THEN flaw \cup {"other"} ELSE flaw

Tick ==
    /\ phase # "down"
    /\ ~Busy("tick")
    /\ Begin("tick") /\ Overlapping("tick")
    /\ UNCHANGED <<process, counter, stored, conn, job, hour, bumps, floor>>

Counted == floor' = IF counter > floor THEN counter ELSE floor

\* Slip: no last flush.
ExitAtOnce ==
    /\ phase = "up"
    /\ Exit /\ Counted
    /\ UNCHANGED <<starts, stored, hour, bumps, flaw>>

\* Ctrl-C, and main goes on to the last flush; the task is not told.
Stop ==
    /\ phase = "up"
    /\ phase' = "stopping"
    /\ Begin("final") /\ Overlapping("final") /\ Counted
    /\ UNCHANGED <<starts, counter, stored, conn, job, hour, bumps>>

\* The clock is read, and whether its hour has a row.
Present(p) ==
    /\ At(p, "present") /\ Free
    /\ flush' = [flush EXCEPT ![p] = [@ EXCEPT !.pc = "write", !.at = hour,
                                               !.there = series[hour] # Nil]]
    /\ UNCHANGED <<process, counter, stored, conn, job, hour, history>>

\* On to the totals, which are read afresh and not from the sample.
Totals(p) == flush' = [flush EXCEPT ![p] = [Done EXCEPT !.pc = "save", !.total = counter]]

\* An insert of a bucket that has come to be there fails, and an update of one
\* that is gone does nothing.
Write(p) ==
    /\ At(p, "write") /\ Free
    /\ LET f == flush[p]
           done == f.there <=> series[f.at] # Nil
       IN  /\ series' = IF done THEN [series EXCEPT ![f.at] = f.sample] ELSE series
           /\ IF done \/ f.there
                THEN flush' = [flush EXCEPT ![p] = [Done EXCEPT !.pc = "count"]]
                ELSE Totals(p)
    /\ UNCHANGED <<process, counter, totals, row, conn, job, hour, history>>

Buckets == {h \in Hour : series[h] # Nil}

CountBuckets(p) ==
    /\ At(p, "count") /\ Free
    /\ IF Cardinality(Buckets) > Retention
         THEN flush' = [flush EXCEPT ![p] = [@ EXCEPT !.pc = "oldest",
                                                      !.arg = Cardinality(Buckets) - Retention]]
         ELSE Totals(p)
    /\ UNCHANGED <<process, counter, stored, conn, job, hour, history>>

OldestBuckets(n) == {h \in Buckets : Cardinality({g \in Buckets : g < h}) < n}

\* The other persist's trim may have left none.
OldestSamples(p) ==
    /\ At(p, "oldest") /\ Free
    /\ LET oldest == OldestBuckets(flush[p].arg)
       IN  IF oldest = {}
             THEN Totals(p)
             ELSE \E last \in oldest :
                    /\ \A h \in oldest : h <= last
                    /\ flush' = [flush EXCEPT ![p] = [@ EXCEPT !.pc = "delete", !.arg = last]]
    /\ UNCHANGED <<process, counter, stored, conn, job, hour, history>>

DeleteSamples(p) ==
    /\ At(p, "delete") /\ Free
    /\ series' = [h \in Hour |-> IF h <= flush[p].arg THEN Nil ELSE series[h]]
    /\ Totals(p)
    /\ UNCHANGED <<process, counter, totals, row, conn, job, hour, history>>

-----------------------------------------------------------------------------
(* persist_metrics: the totals *)

Save(p) ==
    /\ At(p, "save") /\ Free
    /\ flush' = [flush EXCEPT ![p] = [@ EXCEPT !.pc = "store", !.there = totals # Nil]]
    /\ UNCHANGED <<process, counter, stored, conn, job, hour, history>>

Finished(p) == IF p = "final" THEN Exit
               ELSE /\ flush' = [flush EXCEPT ![p] = Done]
                    /\ UNCHANGED <<phase, counter, conn, job>>

\* An insert that finds the row there by now fails.
Store(p) ==
    /\ At(p, "store") /\ Free
    /\ LET total == flush[p].total
       IN  IF flush[p].there <=> totals # Nil
             THEN /\ totals' = total
                  /\ floor' = IF phase = "up" /\ total > floor THEN total ELSE floor
             ELSE UNCHANGED totals /\ Lost(p)
    /\ Finished(p)
    /\ UNCHANGED <<starts, series, row, hour, bumps, flaw>>

\* A statement fails, and what it was of is logged and skipped: the sample, or
\* the totals.
Fail(p) ==
    /\ \/ /\ flush[p].pc \in {"present", "write", "count", "oldest", "delete"}
          /\ Totals(p)
          /\ UNCHANGED <<phase, counter, conn, job, floor>>
       \/ /\ flush[p].pc \in {"save", "store"}
          /\ Finished(p) /\ Lost(p)
    /\ flaw' = flaw \cup {"other"}
    /\ UNCHANGED <<starts, stored, hour, bumps>>

Next ==
    \/ Start \/ Stop \/ Crash \/ Tock \/ Tick
    \/ \E w \in Worker : Download(w) \/ ReadRow(w) \/ Commit(w)
    \/ \E p \in Persist :
          \/ Present(p) \/ Write(p)
          \/ CountBuckets(p) \/ OldestSamples(p) \/ DeleteSamples(p)
          \/ Save(p) \/ Store(p) \/ Fail(p)

Spec == Init /\ [][Next]_vars

-----------------------------------------------------------------------------
(* Properties *)

\* "Totals survive restarts": with the process down, the totals row holds all
\* that a flush had saved before the shutdown and, unless the last flush itself
\* was lost, every download counted before it, whatever crashed, failed or
\* overlapped.  Downloads answered while the last flush is under way may be
\* lost with it, and so may what an overlapping tick saved of them.  What
\* "unread" excepts is a start that could not read the totals.
TotalsSurvive == phase = "down" /\ "unread" \notin flaw => Saved >= floor

\* "Concurrent bumps can't lose an increment": a blob's count is the number of
\* downloads whose commit was reached, whatever died in between.  And over
\* restarts that went as they should, the lifetime counter never falls from one
\* hour's sample to a later one's: "a deploy loses at most the sub-interval
\* tail", none of which the chart has shown.  (Checked with the types.)
NoneUncounted ==
    /\ TypeOK
    /\ row = bumps
    /\ flaw = {} => \A g, h \in Buckets : g < h => series[g] <= series[h]
=============================================================================
