---------------------------- MODULE MetricsProofs ----------------------------
(***************************************************************************)
(* Theorems about Metrics, for any number of downloads at once, any bounds *)
(* on what happens and any length of the series.                           *)
(***************************************************************************)
EXTENDS Metrics, TLAPS, FiniteSetTheorems

USE MetricsAssumption

-----------------------------------------------------------------------------
(* The invariants *)

\* Who holds the connection is the one that read the row, as it is; and nothing
\* is under way that the process is not there for.
Bumping ==
    /\ row = bumps
    /\ \A w \in Worker : job[w].pc = "commit" => conn = w /\ job[w].got = row

Phases ==
    /\ phase = "down" => \A p \in Persist : flush[p] = Done
    /\ phase # "stopping" => flush["final"] = Done

Saving(p) == flush[p].pc \in {"save", "store"}

\* While the process is up only the ticks save, each more than the one before;
\* on the way out, what the last flush has read is all that counted.
Surviving ==
    "unread" \notin flaw =>
        /\ phase # "stopping" => Saved >= floor
        /\ phase = "up" =>
              /\ Saved <= counter
              /\ Saving("tick") => Saved <= flush["tick"].total /\ flush["tick"].total <= counter
        /\ phase = "stopping" =>
              /\ floor <= counter
              /\ Saving("final") => floor <= flush["final"].total

\* Nothing went wrong: one persist at a time, each with more than there is, and
\* a bucket past all there are.
Rising ==
    /\ \A g, h \in Buckets : g < h => series[g] <= series[h]
    /\ \A h \in Buckets : h <= hour /\ series[h] <= IF phase = "down" THEN Saved ELSE counter
    /\ phase # "down" => Saved <= counter
    /\ \A p, q \in Persist : p # q => At(p, "idle") \/ At(q, "idle")
    /\ phase = "stopping" => ~ At("final", "idle")

Held(f) ==
    /\ f.pc \in {"present", "write"} =>
          f.sample <= counter /\ \A h \in Buckets : series[h] <= f.sample
    /\ f.pc = "write" =>
          /\ f.at <= hour /\ \A h \in Buckets : h <= f.at
          /\ f.there <=> series[f.at] # Nil
    /\ f.pc \in {"save", "store"} =>
          f.total <= counter /\ \A h \in Buckets : series[h] <= f.total
    /\ f.pc = "store" => (f.there <=> totals # Nil)

MetricsInv ==
    /\ TypeOK
    /\ Bumping /\ Phases /\ Surviving
    /\ flaw = {} => Rising /\ \A p \in Persist : Held(flush[p])

-----------------------------------------------------------------------------
(* Types, and what steps do to a persist *)

LEMMA Types ==
    ASSUME TypeOK
    PROVE  /\ phase \in {"down", "up", "stopping"} /\ starts \in 0..MaxStarts
           /\ counter \in Count /\ totals \in Count \cup {Nil}
           /\ series \in [Hour -> Count \cup {Nil}] /\ row \in Count
           /\ conn \in Worker \cup {Nil} /\ job \in [Worker -> Job]
           /\ flush \in [Persist -> Flush] /\ hour \in Hour
           /\ bumps \in Count /\ floor \in Count /\ flaw \subseteq {"unread", "other"}
BY DEF TypeOK

LEMMA Numbers ==
    /\ Count \subseteq Nat /\ Hour \subseteq Nat /\ 0 \in Count /\ 0 \in Hour
    /\ Nil \notin Count /\ Nil \notin Hour
BY DEF Count, Hour

LEMMA DoneIs == Done \in Flush /\ Done.pc = "idle" /\ Done.arg = 0
<1>1. 0 \in 0..(MaxHour + 1)
  OBVIOUS
<1>2. QED  BY <1>1, Numbers DEF Done, Flush

LEMMA IdleIs == Idle \in Job /\ Idle.pc = "idle"
BY Numbers DEF Idle, Job

LEMMA SavedIs == ASSUME TypeOK PROVE Saved \in Count
BY Types, Numbers DEF Saved

\* The persist p goes on as j.
Becomes(p, j) ==
    /\ flush' = [flush EXCEPT ![p] = j]
    /\ flush'[p] = j /\ \A q \in Persist \ {p} : flush'[q] = flush[q]

LEMMA BecomesIs ==
    ASSUME TypeOK, NEW p \in Persist, NEW j \in Flush, flush' = [flush EXCEPT ![p] = j]
    PROVE  Becomes(p, j) /\ flush' \in [Persist -> Flush]
BY Types DEF Becomes

LEMMA BeginIs ==
    ASSUME TypeOK, NEW p \in Persist, Begin(p)
    PROVE  \E j \in Flush : Becomes(p, j) /\ j.pc = "present" /\ j.sample = counter
<1> DEFINE j == [Done EXCEPT !.pc = "present", !.sample = counter]
<1>1. j \in Flush /\ j.pc = "present" /\ j.sample = counter
  BY DoneIs, Types DEF Flush
<1>2. flush' = [flush EXCEPT ![p] = j]
  BY DEF Begin
<1> HIDE DEF j
<1>3. QED  BY <1>1, <1>2, BecomesIs

LEMMA TotalsIs ==
    ASSUME TypeOK, NEW p \in Persist, Totals(p)
    PROVE  \E j \in Flush : Becomes(p, j) /\ j.pc = "save" /\ j.total = counter
<1> DEFINE j == [Done EXCEPT !.pc = "save", !.total = counter]
<1>1. j \in Flush /\ j.pc = "save" /\ j.total = counter
  BY DoneIs, Types DEF Flush
<1>2. flush' = [flush EXCEPT ![p] = j]
  BY DEF Totals
<1> HIDE DEF j
<1>3. QED  BY <1>1, <1>2, BecomesIs

LEMMA PresentIs ==
    ASSUME TypeOK, NEW p \in Persist, Present(p)
    PROVE  /\ flush[p].pc = "present"
           /\ \E j \in Flush : /\ Becomes(p, j) /\ j.pc = "write" /\ j.sample = flush[p].sample
                               /\ j.at = hour /\ (j.there <=> series[hour] # Nil)
           /\ UNCHANGED <<process, counter, stored, conn, job, hour, history>>
<1> DEFINE there == series[hour] # Nil
           j == [flush[p] EXCEPT !.pc = "write", !.at = hour, !.there = there]
<1>1. flush' = [flush EXCEPT ![p] = j]
  BY DEF Present
<1>2. there \in BOOLEAN
  OBVIOUS
<1> HIDE DEF there
<1>3. j \in Flush /\ j.pc = "write" /\ j.sample = flush[p].sample /\ j.at = hour
      /\ j.there = there
  <2>1. flush[p] \in Flush /\ hour \in Hour
    BY Types
  <2>2. QED  BY <1>2, <2>1 DEF Flush
<1> HIDE DEF j
<1>4. QED  BY <1>1, <1>3, BecomesIs DEF Present, At, there

LEMMA WriteIs ==
    ASSUME TypeOK, NEW p \in Persist, Write(p)
    PROVE  LET f == flush[p]
               done == f.there <=> series[f.at] # Nil
           IN  /\ f.pc = "write" /\ f.at \in Hour /\ f.sample \in Count
               /\ series' \in [Hour -> Count \cup {Nil}]
               /\ done => series' = [series EXCEPT ![f.at] = f.sample]
               /\ ~ done => series' = series
               /\ \E j \in Flush : /\ Becomes(p, j)
                                   /\ j.pc = "count" \/ (~ done /\ j.pc = "save" /\ j.total = counter)
               /\ UNCHANGED <<process, counter, totals, row, conn, job, hour, history>>
<1> DEFINE f == flush[p]
           done == f.there <=> series[f.at] # Nil
           i == [Done EXCEPT !.pc = "count"]
<1>1. f \in Flush
  BY Types
<1>2. f.pc = "write" /\ f.at \in Hour /\ f.sample \in Count
  BY <1>1 DEF Write, At, Flush
<1>3. series' = IF done THEN [series EXCEPT ![f.at] = f.sample] ELSE series
  BY DEF Write
<1>4. IF done \/ f.there THEN flush' = [flush EXCEPT ![p] = i] ELSE Totals(p)
  BY DEF Write
<1>5. UNCHANGED <<process, counter, totals, row, conn, job, hour, history>>
  BY DEF Write
<1>6. i \in Flush /\ i.pc = "count"
  BY DoneIs DEF Flush
<1> HIDE DEF f, done, i
<1>7. \E j \in Flush : /\ Becomes(p, j)
                       /\ j.pc = "count" \/ (~ done /\ j.pc = "save" /\ j.total = counter)
  BY <1>4, <1>6, BecomesIs, TotalsIs
<1>8. series' \in [Hour -> Count \cup {Nil}]
  BY <1>2, <1>3, Types
<1>9. QED  BY <1>2, <1>3, <1>5, <1>7, <1>8 DEF f, done

LEMMA BucketsFinite ==
    ASSUME TypeOK
    PROVE  IsFiniteSet(Buckets) /\ Cardinality(Buckets) \in 0..(MaxHour + 1)
<1>1. IsFiniteSet(Hour) /\ Cardinality(Hour) = MaxHour + 1
  BY FS_Interval DEF Hour
<1>2. Buckets \subseteq Hour
  BY DEF Buckets
<1>3. IsFiniteSet(Buckets) /\ Cardinality(Buckets) <= MaxHour + 1
  BY <1>1, <1>2, FS_Subset
<1>4. Cardinality(Buckets) \in Nat
  BY <1>3, FS_CardinalityType
<1>5. QED  BY <1>3, <1>4

\* The trim, up to its delete, changes nothing stored.
LEMMA TrimIs ==
    ASSUME TypeOK, NEW p \in Persist, CountBuckets(p) \/ OldestSamples(p)
    PROVE  /\ flush[p].pc \in {"count", "oldest"}
           /\ \E j \in Flush : /\ Becomes(p, j)
                               /\ \/ j.pc \in {"oldest", "delete"}
                                  \/ j.pc = "save" /\ j.total = counter
           /\ UNCHANGED <<process, counter, stored, conn, job, hour, history>>
<1>1. flush[p] \in Flush
  BY Types
<1>2. CASE CountBuckets(p)
  <2> DEFINE n == Cardinality(Buckets) - Retention
             j == [flush[p] EXCEPT !.pc = "oldest", !.arg = n]
  <2>1. CASE Cardinality(Buckets) > Retention /\ flush' = [flush EXCEPT ![p] = j]
    <3>1. n \in 0..(MaxHour + 1)
      BY <2>1, BucketsFinite
    <3> HIDE DEF n
    <3>2. j \in Flush /\ j.pc = "oldest"
      BY <1>1, <3>1 DEF Flush
    <3> HIDE DEF j
    <3>3. QED  BY <1>2, <2>1, <3>2, BecomesIs DEF CountBuckets, At
  <2>2. CASE Totals(p)
    BY <1>2, <2>2, TotalsIs DEF CountBuckets, At
  <2>3. QED
    <3>1. (Cardinality(Buckets) > Retention /\ flush' = [flush EXCEPT ![p] = j]) \/ Totals(p)
      BY <1>2 DEF CountBuckets
    <3>2. QED  BY <2>1, <2>2, <3>1
<1>3. CASE OldestSamples(p)
  <2>1. ASSUME NEW last \in OldestBuckets(flush[p].arg),
               flush' = [flush EXCEPT ![p] = [@ EXCEPT !.pc = "delete", !.arg = last]]
        PROVE  \E j \in Flush : Becomes(p, j) /\ j.pc = "delete"
    <3> DEFINE j == [flush[p] EXCEPT !.pc = "delete", !.arg = last]
    <3>1. last \in 0..(MaxHour + 1)
      BY DEF OldestBuckets, Buckets, Hour
    <3>2. j \in Flush /\ j.pc = "delete"
      BY <1>1, <3>1 DEF Flush
    <3>3. flush' = [flush EXCEPT ![p] = j]
      BY <2>1
    <3> HIDE DEF j
    <3>4. QED  BY <3>2, <3>3, BecomesIs
  <2>2. QED  BY <1>3, <2>1, TotalsIs DEF OldestSamples, At
<1>4. QED  BY <1>2, <1>3

LEMMA DeleteIs ==
    ASSUME TypeOK, NEW p \in Persist, DeleteSamples(p)
    PROVE  /\ flush[p].pc = "delete"
           /\ series' \in [Hour -> Count \cup {Nil}]
           /\ \A h \in Hour : series'[h] \in {Nil, series[h]}
           /\ \E j \in Flush : Becomes(p, j) /\ j.pc = "save" /\ j.total = counter
           /\ UNCHANGED <<process, counter, totals, row, conn, job, hour, history>>
<1>1. \E j \in Flush : Becomes(p, j) /\ j.pc = "save" /\ j.total = counter
  BY TotalsIs DEF DeleteSamples
<1>2. series' = [h \in Hour |-> IF h <= flush[p].arg THEN Nil ELSE series[h]]
  BY DEF DeleteSamples
<1>3. \A h \in Hour : series'[h] \in {Nil, series[h]}
  BY <1>2
<1>4. series' \in [Hour -> Count \cup {Nil}]
  BY <1>2, Types
<1>5. QED  BY <1>1, <1>3, <1>4 DEF DeleteSamples, At

LEMMA SaveIs ==
    ASSUME TypeOK, NEW p \in Persist, Save(p)
    PROVE  /\ flush[p].pc = "save"
           /\ \E j \in Flush : /\ Becomes(p, j) /\ j.pc = "store" /\ j.total = flush[p].total
                               /\ (j.there <=> totals # Nil)
           /\ UNCHANGED <<process, counter, stored, conn, job, hour, history>>
<1> DEFINE there == totals # Nil
           j == [flush[p] EXCEPT !.pc = "store", !.there = there]
<1>1. flush' = [flush EXCEPT ![p] = j]
  BY DEF Save
<1>2. there \in BOOLEAN
  OBVIOUS
<1> HIDE DEF there
<1>3. j \in Flush /\ j.pc = "store" /\ j.total = flush[p].total /\ j.there = there
  <2>1. flush[p] \in Flush
    BY Types
  <2>2. QED  BY <1>2, <2>1 DEF Flush
<1> HIDE DEF j
<1>4. QED  BY <1>1, <1>3, BecomesIs DEF Save, At, there

LEMMA ExitIs ==
    ASSUME Exit
    PROVE  /\ phase' = "down" /\ counter' = 0 /\ conn' = Nil /\ job' \in [Worker -> Job]
           /\ flush' \in [Persist -> Flush] /\ \A p \in Persist : flush'[p] = Done
           /\ \A w \in Worker : job'[w].pc = "idle"
BY DoneIs, IdleIs DEF Exit

\* A persist ends, and after the last one the process.
LEMMA FinishedIs ==
    ASSUME TypeOK, NEW p \in Persist, Finished(p)
    PROVE  \/ p = "final" /\ Exit
           \/ p = "tick" /\ Becomes(p, Done) /\ UNCHANGED <<phase, counter, conn, job>>
BY DoneIs, BecomesIs DEF Finished, Persist

LEMMA StoreIs ==
    ASSUME TypeOK, NEW p \in Persist, Store(p)
    PROVE  LET f == flush[p]
           IN  /\ f.pc = "store" /\ f.total \in Count
               /\ \/ /\ f.there <=> totals # Nil
                     /\ totals' = f.total
                     /\ floor' = IF phase = "up" /\ f.total > floor THEN f.total ELSE floor
                  \/ ~ (f.there <=> totals # Nil) /\ totals' = totals /\ Lost(p)
               /\ Finished(p)
               /\ UNCHANGED <<starts, series, row, hour, bumps, flaw>>
<1>1. flush[p] \in Flush
  BY Types
<1>2. flush[p].total \in Count
  BY <1>1 DEF Flush
<1>3. QED  BY <1>2 DEF Store, At

LEMMA LostIs == ASSUME TypeOK, NEW p \in Persist, Lost(p) PROVE floor' \in {floor, Saved}
BY DEF Lost

-----------------------------------------------------------------------------
(* The invariants hold *)

LEMMA InitHolds == Init => MetricsInv
<1> SUFFICES ASSUME Init PROVE MetricsInv
  OBVIOUS
<1>1. TypeOK
  <2>1. \A h \in Hour : series[h] = Nil
    BY DEF Init
  <2>2. /\ series \in [Hour -> Count \cup {Nil}] /\ job \in [Worker -> Job]
        /\ flush \in [Persist -> Flush]
    BY DoneIs, IdleIs DEF Init
  <2>3. starts \in 0..MaxStarts
    BY DEF Init
  <2>4. QED  BY <2>2, <2>3, Numbers DEF Init, TypeOK
<1>2. Bumping /\ Phases
  BY IdleIs DEF Init, Bumping, Phases, Persist
<1>3. Surviving
  BY DEF Init, Surviving, Saved
<1>4. Buckets = {}
  BY DEF Init, Buckets
<1>5. \A p \in Persist : flush[p].pc = "idle"
  BY DoneIs DEF Init
<1>6. Rising
  BY <1>4, <1>5 DEF Init, Rising, At
<1>7. \A p \in Persist : Held(flush[p])
  BY <1>5 DEF Held
<1>8. QED  BY <1>1, <1>2, <1>3, <1>6, <1>7 DEF MetricsInv

LEMMA TypeNext == TypeOK /\ Bumping /\ [Next]_vars => TypeOK'
<1> SUFFICES ASSUME TypeOK, Bumping, [Next]_vars PROVE TypeOK'
  OBVIOUS
<1>0. counter \in Nat /\ hour \in Nat
  BY Types, Numbers
<1>1. CASE UNCHANGED vars
  <2>1. UNCHANGED <<process, counter, stored, conn, job, flush, hour, history>>
    BY <1>1 DEF vars
  <2>2. QED  BY <2>1, Types DEF TypeOK, process, stored, history
<1>2. CASE Start
  <2>1. starts' \in 0..MaxStarts
    BY <1>2, Types DEF Start
  <2>2. counter' \in Count /\ flaw' \subseteq {"unread", "other"}
    BY <1>2, Types, SavedIs, Numbers DEF Start, Seed
  <2>3. phase' = "up" /\ UNCHANGED <<totals, series, row, conn, job, flush, hour, bumps, floor>>
    BY <1>2 DEF Start, stored
  <2>4. QED  BY <2>1, <2>2, <2>3, Types DEF TypeOK
<1>3. CASE Stop
  <2>1. flush' \in [Persist -> Flush]
    <3>1. PICK j \in Flush : Becomes("final", j)
      BY <1>3, BeginIs DEF Stop, Persist
    <3>2. QED  BY <3>1, Types DEF Becomes
  <2>2. floor' \in Count /\ flaw' \subseteq {"unread", "other"}
    BY <1>3, Types DEF Stop, Counted, Overlapping
  <2>3. phase' = "stopping" /\ UNCHANGED <<starts, counter, totals, series, row, conn, job, hour, bumps>>
    BY <1>3 DEF Stop, stored
  <2>4. QED  BY <2>1, <2>2, <2>3, Types DEF TypeOK
<1>4. CASE Crash
  <2>1. floor' \in Count /\ flaw' \subseteq {"unread", "other"}
    BY <1>4, Types, SavedIs DEF Crash, Lost
  <2>2. Exit /\ UNCHANGED <<starts, totals, series, row, hour, bumps>>
    BY <1>4 DEF Crash, stored
  <2>3. QED  BY <2>1, <2>2, ExitIs, Types, Numbers DEF TypeOK
<1>5. CASE Tock
  <2>1. hour' \in Hour
    BY <1>0, <1>5, Types DEF Tock, Hour
  <2>2. UNCHANGED <<process, counter, stored, conn, job, flush, history>>
    BY <1>5 DEF Tock
  <2>3. QED  BY <2>1, <2>2, Types DEF TypeOK, process, stored, history
<1>6. CASE Tick
  <2>1. flush' \in [Persist -> Flush]
    <3>1. PICK j \in Flush : Becomes("tick", j)
      BY <1>6, BeginIs DEF Tick, Persist
    <3>2. QED  BY <3>1, Types DEF Becomes
  <2>2. flaw' \subseteq {"unread", "other"}
    BY <1>6, Types DEF Tick, Overlapping
  <2>3. UNCHANGED <<process, counter, stored, conn, job, hour, bumps, floor>>
    BY <1>6 DEF Tick
  <2>4. QED  BY <2>1, <2>2, <2>3, Types DEF TypeOK, process, stored
<1>7. ASSUME NEW w \in Worker, Download(w) \/ ReadRow(w) \/ Commit(w) PROVE TypeOK'
  <2>1. CASE Download(w)
    <3>1. counter' \in Count
      BY <1>0, <2>1 DEF Download, Count
    <3>2. job' \in [Worker -> Job]
      <4>1. [job[w] EXCEPT !.pc = "read"] \in Job
        BY Types DEF Job
      <4>2. job' = [job EXCEPT ![w] = [job[w] EXCEPT !.pc = "read"]]
        BY <2>1, Types DEF Download
      <4>3. QED  BY <4>1, <4>2, Types
    <3>3. UNCHANGED <<process, stored, conn, flush, hour, history>>
      BY <2>1 DEF Download
    <3>4. QED  BY <3>1, <3>2, <3>3, Types DEF TypeOK, process, stored, history
  <2>2. CASE ReadRow(w)
    <3>1. [pc |-> "commit", got |-> row] \in Job
      BY Types DEF Job
    <3>2. job' \in [Worker -> Job] /\ conn' \in Worker \cup {Nil}
      BY <2>2, <3>1, Types DEF ReadRow
    <3>3. UNCHANGED <<process, counter, stored, flush, hour, history>>
      BY <2>2 DEF ReadRow
    <3>4. QED  BY <3>2, <3>3, Types DEF TypeOK, process, stored, history
  <2>3. CASE Commit(w)
    <3>1. bumps' \in Count /\ row' \in Count
      BY <2>3, Types DEF Commit, Bumping, Count
    <3>2. job' \in [Worker -> Job] /\ conn' \in Worker \cup {Nil}
      BY <2>3, IdleIs, Types DEF Commit
    <3>3. UNCHANGED <<process, counter, totals, series, flush, hour, floor, flaw>>
      BY <2>3 DEF Commit
    <3>4. QED  BY <2>3, <3>1, <3>2, <3>3, Types DEF TypeOK, process
  <2>4. QED  BY <1>7, <2>1, <2>2, <2>3
<1>8. ASSUME NEW p \in Persist,
             \/ Present(p) \/ Write(p) \/ CountBuckets(p) \/ OldestSamples(p) \/ DeleteSamples(p)
             \/ Save(p)
      PROVE  TypeOK'
  <2>1. /\ flush' \in [Persist -> Flush]
        /\ series' \in [Hour -> Count \cup {Nil}]
        /\ UNCHANGED <<process, counter, totals, row, conn, job, hour, history>>
    <3>1. CASE Present(p)
      BY <3>1, PresentIs, Types DEF Becomes, stored
    <3>2. CASE Write(p)
      BY <3>2, WriteIs, Types DEF Becomes
    <3>3. CASE CountBuckets(p) \/ OldestSamples(p)
      BY <3>3, TrimIs, Types DEF Becomes, stored
    <3>4. CASE DeleteSamples(p)
      BY <3>4, DeleteIs, Types DEF Becomes
    <3>5. CASE Save(p)
      BY <3>5, SaveIs, Types DEF Becomes, stored
    <3>6. QED  BY <1>8, <3>1, <3>2, <3>3, <3>4, <3>5
  <2>2. QED  BY <2>1, Types DEF TypeOK, process, history
<1>9. ASSUME NEW p \in Persist, Finished(p)
      PROVE  /\ phase' \in {"down", "up", "stopping"} /\ counter' \in Count
             /\ conn' \in Worker \cup {Nil} /\ job' \in [Worker -> Job]
             /\ flush' \in [Persist -> Flush]
  <2>1. CASE Exit
    BY <2>1, ExitIs, Numbers
  <2>2. CASE Becomes(p, Done) /\ UNCHANGED <<phase, counter, conn, job>>
    BY <2>2, DoneIs, Types DEF Becomes
  <2>3. QED  BY <1>9, <2>1, <2>2, FinishedIs
<1>10. ASSUME NEW p \in Persist, Store(p) PROVE TypeOK'
  <2>1. totals' \in Count \cup {Nil}
    BY <1>10, StoreIs, Types
  <2>2. floor' \in Count
    BY <1>10, StoreIs, LostIs, SavedIs, Types
  <2>3. Finished(p) /\ UNCHANGED <<starts, series, row, hour, bumps, flaw>>
    BY <1>10, StoreIs
  <2>4. QED  BY <1>9, <2>1, <2>2, <2>3, Types DEF TypeOK
<1>11. ASSUME NEW p \in Persist, Fail(p) PROVE TypeOK'
  <2>1. UNCHANGED <<starts, totals, series, row, hour, bumps>> /\ flaw' = flaw \cup {"other"}
    BY <1>11 DEF Fail, stored
  <2>2. CASE Totals(p) /\ UNCHANGED <<phase, counter, conn, job, floor>>
    <3>1. flush' \in [Persist -> Flush]
      BY <2>2, TotalsIs, Types DEF Becomes
    <3>2. QED  BY <2>1, <2>2, <3>1, Types DEF TypeOK
  <2>3. CASE Finished(p) /\ Lost(p)
    BY <1>9, <2>1, <2>3, LostIs, SavedIs, Types DEF TypeOK
  <2>4. QED  BY <1>11, <2>2, <2>3 DEF Fail
<1>12. QED
  BY <1>1, <1>2, <1>3, <1>4, <1>5, <1>6, <1>7, <1>8, <1>10, <1>11 DEF Next

LEMMA FailIs ==
    ASSUME TypeOK, NEW p \in Persist, Fail(p)
    PROVE  /\ flaw' = flaw \cup {"other"} /\ UNCHANGED <<starts, totals, series, row, hour, bumps>>
           /\ flush[p].pc # "idle"
           /\ \/ /\ \E j \in Flush : Becomes(p, j) /\ j.pc = "save" /\ j.total = counter
                 /\ UNCHANGED <<phase, counter, conn, job, floor>>
              \/ Finished(p) /\ Lost(p)
BY TotalsIs DEF Fail, stored

\* What a step of a persist does to the rest.
LEMMA PersistIs ==
    ASSUME TypeOK, NEW p \in Persist,
           \/ Present(p) \/ Write(p) \/ CountBuckets(p) \/ OldestSamples(p) \/ DeleteSamples(p)
           \/ Save(p) \/ Store(p) \/ Fail(p)
    PROVE  /\ flush[p].pc # "idle" /\ row' = row /\ bumps' = bumps
           /\ \/ p = "final" /\ Exit
              \/ /\ \E j \in Flush : Becomes(p, j)
                 /\ UNCHANGED <<phase, counter, conn, job>>
<1>1. CASE Present(p)
  BY <1>1, PresentIs DEF process, stored, history
<1>2. CASE Write(p)
  BY <1>2, WriteIs DEF process, history
<1>3. CASE CountBuckets(p) \/ OldestSamples(p)
  BY <1>3, TrimIs DEF process, stored, history
<1>4. CASE DeleteSamples(p)
  BY <1>4, DeleteIs DEF process, history
<1>5. CASE Save(p)
  BY <1>5, SaveIs DEF process, stored, history
<1>6. CASE Store(p)
  BY <1>6, StoreIs, FinishedIs, DoneIs
<1>7. CASE Fail(p)
  BY <1>7, FailIs, FinishedIs, DoneIs
<1>8. QED  BY <1>1, <1>2, <1>3, <1>4, <1>5, <1>6, <1>7

\* The one connection keeps two downloads' reads and writes apart.
LEMMA BumpingNext == TypeOK /\ Bumping /\ [Next]_vars => Bumping'
<1> SUFFICES ASSUME TypeOK, Bumping, [Next]_vars PROVE Bumping'
  OBVIOUS
<1>1. CASE UNCHANGED <<row, bumps, conn, job>>
  BY <1>1 DEF Bumping
<1>2. CASE Exit /\ UNCHANGED <<row, bumps>>
  BY <1>2, ExitIs DEF Bumping
<1>3. ASSUME NEW w \in Worker, Download(w) PROVE Bumping'
  <2>1. /\ \A v \in Worker : v # w => job'[v] = job[v]
        /\ job'[w].pc = "read"
    <3>1. job[w] \in Job
      BY Types
    <3>2. QED  BY <1>3, <3>1, Types DEF Download, Job
  <2>2. UNCHANGED <<row, bumps, conn>>
    BY <1>3 DEF Download, stored, history
  <2>3. QED  BY <2>1, <2>2 DEF Bumping
<1>4. ASSUME NEW w \in Worker, ReadRow(w) PROVE Bumping'
  <2>1. /\ \A v \in Worker : v # w => job'[v] = job[v]
        /\ job'[w].pc = "commit" /\ job'[w].got = row /\ conn' = w /\ conn = Nil
    BY <1>4, Types DEF ReadRow, Free
  <2>2. UNCHANGED <<row, bumps>>
    BY <1>4 DEF ReadRow, stored, history
  <2>3. QED  BY <2>1, <2>2 DEF Bumping
<1>5. ASSUME NEW w \in Worker, Commit(w) PROVE Bumping'
  <2>1. /\ \A v \in Worker : v # w => job'[v] = job[v]
        /\ job'[w].pc = "idle" /\ row' = row + 1 /\ bumps' = bumps + 1 /\ conn = w
    BY <1>5, IdleIs, Types DEF Commit, Bumping
  <2>2. QED  BY <2>1 DEF Bumping
<1>6. ASSUME NEW p \in Persist,
             \/ Present(p) \/ Write(p) \/ CountBuckets(p) \/ OldestSamples(p) \/ DeleteSamples(p)
             \/ Save(p) \/ Store(p) \/ Fail(p)
      PROVE  Bumping'
  BY <1>1, <1>2, <1>6, PersistIs
<1>7. CASE Start \/ Stop \/ Tock \/ Tick \/ UNCHANGED vars
  BY <1>1, <1>7 DEF Start, Stop, Tock, Tick, vars, stored, history
<1>8. CASE Crash
  BY <1>2, <1>8 DEF Crash, stored
<1>9. QED  BY <1>3, <1>4, <1>5, <1>6, <1>7, <1>8 DEF Next

LEMMA PhasesNext == TypeOK /\ Phases /\ [Next]_vars => Phases'
<1> SUFFICES ASSUME TypeOK, Phases, [Next]_vars PROVE Phases'
  OBVIOUS
<1>1. CASE UNCHANGED <<phase, flush>>
  BY <1>1 DEF Phases
<1>2. CASE Exit
  BY <1>2, ExitIs DEF Phases, Persist
<1>3. CASE Start
  BY <1>3 DEF Start, Phases, Persist
<1>4. CASE Stop
  BY <1>4 DEF Stop, Phases
<1>5. CASE Tick
  <2>1. phase' = phase /\ phase # "down" /\ \E j \in Flush : Becomes("tick", j)
    BY <1>5, BeginIs DEF Tick, process, Persist
  <2>2. flush'["final"] = flush["final"]
    BY <2>1 DEF Becomes, Persist
  <2>3. QED  BY <2>1, <2>2 DEF Phases
<1>6. ASSUME NEW p \in Persist,
             \/ Present(p) \/ Write(p) \/ CountBuckets(p) \/ OldestSamples(p) \/ DeleteSamples(p)
             \/ Save(p) \/ Store(p) \/ Fail(p)
      PROVE  Phases'
  <2>1. phase # "down" /\ (p = "final" => phase = "stopping")
    BY <1>6, PersistIs, DoneIs DEF Phases
  <2>2. ASSUME NEW j \in Flush, Becomes(p, j), phase' = phase PROVE Phases'
    <3>1. p # "final" => flush'["final"] = flush["final"]
      BY <2>2 DEF Becomes, Persist
    <3>2. QED  BY <2>1, <2>2, <3>1 DEF Phases
  <2>3. QED  BY <1>2, <1>6, <2>2, PersistIs
<1>7. CASE Crash
  BY <1>2, <1>7 DEF Crash
<1>8. CASE \/ UNCHANGED vars \/ Tock
           \/ \E w \in Worker : Download(w) \/ ReadRow(w) \/ Commit(w)
  BY <1>1, <1>8 DEF vars, Tock, Download, ReadRow, Commit, process
<1>9. QED  BY <1>3, <1>4, <1>5, <1>6, <1>7, <1>8 DEF Next

\* Short of its end, a persist saves what counts when it comes to the totals.
LEMMA GoesIs ==
    ASSUME TypeOK, NEW p \in Persist,
           \/ Present(p) \/ Write(p) \/ CountBuckets(p) \/ OldestSamples(p) \/ DeleteSamples(p)
           \/ Save(p)
    PROVE  /\ \E j \in Flush :
                 /\ Becomes(p, j)
                 /\ j.pc \in {"save", "store"} =>
                       j.total = counter \/ (Saving(p) /\ j.total = flush[p].total)
           /\ UNCHANGED <<phase, counter, totals, floor, flaw>>
<1>1. CASE Present(p)
  BY <1>1, PresentIs DEF process, stored, history
<1>2. CASE Write(p)
  BY <1>2, WriteIs DEF process, history
<1>3. CASE CountBuckets(p) \/ OldestSamples(p)
  BY <1>3, TrimIs DEF process, stored, history
<1>4. CASE DeleteSamples(p)
  BY <1>4, DeleteIs DEF process, history
<1>5. CASE Save(p)
  BY <1>5, SaveIs DEF process, stored, history, Saving
<1>6. QED  BY <1>1, <1>2, <1>3, <1>4, <1>5

LEMMA FlawGrows == ASSUME TypeOK, [Next]_vars PROVE flaw \subseteq flaw'
<1>1. CASE UNCHANGED flaw
  BY <1>1
<1>2. CASE Start \/ Stop \/ Crash \/ Tick
  BY <1>2 DEF Start, Stop, Crash, Tick, Overlapping
<1>3. ASSUME NEW p \in Persist, Store(p) \/ Fail(p) PROVE flaw \subseteq flaw'
  BY <1>3, StoreIs, FailIs
<1>4. ASSUME NEW w \in Worker, Download(w) \/ ReadRow(w) \/ Commit(w) PROVE UNCHANGED flaw
  BY <1>4 DEF Download, ReadRow, Commit, history
<1>5. CASE UNCHANGED vars \/ Tock
  BY <1>5 DEF vars, Tock, history
<1>6. QED  BY <1>1, <1>2, <1>3, <1>4, <1>5, GoesIs DEF Next

LEMMA SurvivingNext ==
    TypeOK /\ TypeOK' /\ Phases /\ Surviving /\ [Next]_vars => Surviving'
<1> SUFFICES ASSUME TypeOK, TypeOK', Phases, Surviving, [Next]_vars, "unread" \notin flaw'
             PROVE  /\ phase' # "stopping" => Saved' >= floor'
                    /\ phase' = "up" =>
                          /\ Saved' <= counter'
                          /\ Saving("tick")' => Saved' <= flush'["tick"].total
                                                /\ flush'["tick"].total <= counter'
                    /\ phase' = "stopping" =>
                          /\ floor' <= counter'
                          /\ Saving("final")' => floor' <= flush'["final"].total
  BY DEF Surviving
<1>0. /\ phase # "stopping" => Saved >= floor
      /\ phase = "up" =>
            /\ Saved <= counter
            /\ Saving("tick") => Saved <= flush["tick"].total /\ flush["tick"].total <= counter
      /\ phase = "stopping" =>
            /\ floor <= counter
            /\ Saving("final") => floor <= flush["final"].total
  BY FlawGrows DEF Surviving
<1>n. /\ Saved \in Nat /\ floor \in Nat /\ counter \in Nat
      /\ phase \in {"down", "up", "stopping"} /\ "tick" \in Persist /\ "final" \in Persist
  BY SavedIs, Types, Numbers DEF Persist
<1>1. CASE UNCHANGED <<phase, counter, totals, floor, flush>>
  BY <1>0, <1>1 DEF Saved, Saving
<1>2. CASE Start
  <2>1. phase = "down" /\ phase' = "up" /\ counter' = Saved /\ flush' = flush
        /\ totals' = totals /\ floor' = floor
    BY <1>2 DEF Start, Seed, stored
  <2>2. ~ Saving("tick")'
    BY <1>n, <2>1, DoneIs DEF Saving, Phases
  <2>3. QED  BY <1>0, <1>n, <2>1, <2>2 DEF Saved
<1>3. CASE Stop
  <2>1. phase' = "stopping" /\ counter' = counter /\ floor' <= counter
    BY <1>0, <1>3, <1>n DEF Stop, Counted
  <2>2. ~ Saving("final")'
    BY <1>3, <1>n, BeginIs DEF Stop, Becomes, Saving
  <2>3. QED  BY <2>1, <2>2
<1>4. CASE Crash
  <2>1. phase' = "down" /\ totals' = totals
        /\ floor' = IF phase = "stopping" THEN Saved ELSE floor
    BY <1>4 DEF Crash, Exit, Lost, stored
  <2>2. Saved' = Saved
    BY <2>1 DEF Saved
  <2>3. QED  BY <1>0, <1>n, <2>1, <2>2
<1>5. CASE Tick
  <2>1. UNCHANGED <<phase, counter, totals, floor>>
    BY <1>5 DEF Tick, process, stored
  <2>2. ~ Saving("tick")' /\ flush'["final"] = flush["final"]
    BY <1>5, <1>n, BeginIs DEF Tick, Becomes, Saving
  <2>3. QED  BY <1>0, <2>1, <2>2 DEF Saved, Saving
<1>6. ASSUME NEW w \in Worker, Download(w) PROVE Surviving'
  <2>1. UNCHANGED <<phase, totals, floor, flush>> /\ counter' = counter + 1
    BY <1>6 DEF Download, process, stored, history
  <2>2. flush["tick"].total \in Nat
    BY <1>n, Types, Numbers DEF Flush
  <2>3. Saved' = Saved /\ (Saving("tick")' <=> Saving("tick"))
        /\ (Saving("final")' <=> Saving("final"))
    BY <2>1 DEF Saved, Saving
  <2>4. QED  BY <1>0, <1>n, <2>1, <2>2, <2>3 DEF Surviving
<1>7. ASSUME NEW p \in Persist, NEW j \in Flush, Becomes(p, j),
             j.pc \in {"save", "store"} =>
                j.total = counter \/ (Saving(p) /\ j.total = flush[p].total),
             UNCHANGED <<phase, counter, totals, floor>>
      PROVE  Surviving'
  <2>1. CASE p = "tick"
    <3>1. flush'["tick"] = j /\ flush'["final"] = flush["final"]
      BY <1>7, <1>n, <2>1 DEF Becomes
    <3>2. QED  BY <1>0, <1>7, <1>n, <2>1, <3>1 DEF Surviving, Saved, Saving
  <2>2. CASE p = "final"
    <3>1. flush'["final"] = j /\ flush'["tick"] = flush["tick"]
      BY <1>7, <1>n, <2>2 DEF Becomes
    <3>2. QED  BY <1>0, <1>7, <1>n, <2>2, <3>1 DEF Surviving, Saved, Saving
  <2>3. QED  BY <2>1, <2>2 DEF Persist
<1>8. ASSUME NEW p \in Persist, Store(p) PROVE Surviving'
  <2>1. /\ flush[p].pc = "store" /\ flush[p].total \in Nat /\ Saving(p)
        /\ p = "final" => phase = "stopping"
    BY <1>8, StoreIs, DoneIs, Numbers DEF Saving, Phases
  <2>2. CASE p = "final"
    <3>1. phase' = "down" /\ Finished(p)
      BY <1>8, <2>2, StoreIs DEF Finished, Exit
    <3>2. Saved' >= floor'
      <4>1. CASE totals' = flush[p].total /\ floor' = floor
        BY <1>0, <1>n, <2>1, <2>2, <4>1, Numbers DEF Saved
      <4>2. CASE totals' = totals /\ Lost(p)
        BY <1>n, <2>2, <4>2 DEF Saved, Lost
      <4>3. QED  BY <1>8, <2>1, <2>2, <4>1, <4>2, StoreIs
    <3>3. QED  BY <3>1, <3>2 DEF Surviving
  <2>3. CASE p = "tick"
    <3>1. Becomes(p, Done) /\ UNCHANGED <<phase, counter>>
      BY <1>8, <2>3, StoreIs, FinishedIs
    <3>2. ~ Saving("tick")' /\ flush'["final"] = flush["final"]
      BY <1>n, <2>3, <3>1, DoneIs DEF Becomes, Saving
    <3>3. CASE phase = "up" /\ totals' = flush[p].total
               /\ floor' = IF flush[p].total > floor THEN flush[p].total ELSE floor
      <4>1. Saved' = flush[p].total
        BY <2>1, <3>3 DEF Saved
      <4>2. QED  BY <1>0, <1>n, <2>1, <2>3, <3>1, <3>2, <3>3, <4>1 DEF Surviving
    <3>4. CASE phase # "up" /\ floor' = floor
      <4>1. phase = "stopping"
        BY <1>n, <2>1, <3>4, DoneIs DEF Phases
      <4>2. QED  BY <1>0, <3>1, <3>2, <3>4, <4>1 DEF Surviving, Saving
    <3>5. CASE totals' = totals /\ floor' = floor
      BY <1>0, <3>1, <3>2, <3>5 DEF Surviving, Saved, Saving
    <3>6. QED  BY <1>8, <2>3, <3>3, <3>4, <3>5, StoreIs DEF Lost
  <2>4. QED  BY <2>2, <2>3 DEF Persist
<1>9. ASSUME NEW p \in Persist, Fail(p) PROVE Surviving'
  <2>1. totals' = totals
    BY <1>9, FailIs
  <2>2. CASE Finished(p) /\ Lost(p) /\ p = "final"
    BY <1>n, <2>1, <2>2 DEF Finished, Exit, Lost, Saved, Surviving
  <2>3. CASE Finished(p) /\ Lost(p) /\ p = "tick"
    <3>1. Becomes(p, Done) /\ UNCHANGED <<phase, counter>> /\ floor' = floor
      BY <2>3, FinishedIs DEF Lost
    <3>2. QED  BY <1>7, <2>1, <3>1, DoneIs
  <2>4. QED  BY <1>7, <1>9, <2>1, <2>2, <2>3, FailIs DEF Persist
<1>10. CASE UNCHANGED vars \/ Tock \/ \E w \in Worker : ReadRow(w) \/ Commit(w)
  BY <1>1, <1>10 DEF vars, Tock, ReadRow, Commit, process, stored, history
<1>11. QED
  <2>1. CASE Surviving'
    BY <2>1 DEF Surviving
  <2>2. QED
    BY <1>2, <1>3, <1>4, <1>5, <1>6, <1>7, <1>8, <1>9, <1>10, <2>1, GoesIs DEF Next

Rise == flaw = {} => Rising /\ \A p \in Persist : Held(flush[p])

LEMMA BucketNumbers ==
    ASSUME TypeOK
    PROVE  /\ counter \in Nat /\ hour \in Nat /\ Saved \in Nat
           /\ \A h \in Buckets : h \in Nat /\ series[h] \in Nat
           /\ \A h \in Hour : h \in Buckets <=> series[h] # Nil
           /\ \A h \in Buckets : h \in Hour
           /\ "tick" \in Persist /\ "final" \in Persist
<1>1. counter \in Nat /\ hour \in Nat /\ Saved \in Nat
  BY Types, SavedIs, Numbers
<1>2. \A h \in Buckets : h \in Hour /\ series[h] \in Count
  BY Types DEF Buckets
<1>3. QED  BY <1>1, <1>2, Numbers DEF Buckets, Persist

\* A persist goes on and the other, alone, does nothing.
LEMMA RiseGoes ==
    ASSUME TypeOK, TypeOK', Phases, Rise, flaw = {}, NEW p \in Persist, NEW j \in Flush,
           flush[p].pc # "idle", Becomes(p, j), j.pc # "idle", Held(j)',
           UNCHANGED <<phase, counter, totals, hour>>,
           \A g, h \in Buckets' : g < h => series'[g] <= series'[h],
           \A h \in Buckets' : h <= hour /\ series'[h] <= counter
    PROVE  Rise'
<1>1. Rising
  BY DEF Rise
<1>2. phase # "down"
  BY DoneIs DEF Phases
<1>3. \A q \in Persist \ {p} : flush[q].pc = "idle" /\ flush'[q] = flush[q]
  BY <1>1 DEF Rising, At, Becomes
<1>4. Rising'
  <2>1. \A q, r \in Persist : q # r => At(q, "idle")' \/ At(r, "idle")'
    BY <1>3 DEF At
  <2>2. phase = "stopping" => flush'["final"].pc # "idle"
    BY <1>1, <1>3 DEF Rising, At, Becomes
  <2>3. phase # "down" => Saved' <= counter'
    BY <1>1 DEF Rising, Saved
  <2>4. QED  BY <1>2, <2>1, <2>2, <2>3 DEF Rising, At
<1>5. ASSUME NEW q \in Persist PROVE Held(flush[q])'
  <2>1. CASE q = p
    BY <2>1 DEF Held, Becomes
  <2>2. CASE q # p
    BY <1>3, <2>2 DEF Held
  <2>3. QED  BY <2>1, <2>2
<1>6. QED  BY <1>4, <1>5 DEF Rise

LEMMA RiseNext == TypeOK /\ TypeOK' /\ Phases /\ Rise /\ [Next]_vars => Rise'
<1> SUFFICES ASSUME TypeOK, TypeOK', Phases, Rise, [Next]_vars, flaw' = {} PROVE Rise'
  BY DEF Rise
<1>0. flaw = {} /\ Rising /\ \A p \in Persist : Held(flush[p])
  BY FlawGrows DEF Rise
<1>n. /\ counter \in Nat /\ hour \in Nat /\ Saved \in Nat
      /\ \A h \in Buckets : h \in Nat /\ series[h] \in Nat
      /\ \A h \in Hour : h \in Buckets <=> series[h] # Nil
      /\ \A h \in Buckets : h \in Hour
      /\ "tick" \in Persist /\ "final" \in Persist
  BY BucketNumbers
<1>1. CASE UNCHANGED <<phase, counter, totals, series, hour, flush>>
  BY <1>0, <1>1 DEF Rise, Rising, Held, Buckets, Saved, At
<1>2. CASE Start
  <2>1. phase = "down" /\ phase' = "up" /\ counter' = Saved /\ totals' = totals
        /\ series' = series /\ hour' = hour /\ flush' = flush
    BY <1>2 DEF Start, Seed, stored
  <2>2. \A p \in Persist : flush[p].pc = "idle"
    BY <2>1, DoneIs DEF Phases
  <2>3. Buckets' = Buckets /\ Saved' = Saved
    BY <2>1 DEF Buckets, Saved
  <2>4. Rising'
    BY <1>0, <1>n, <2>1, <2>2, <2>3 DEF Rising, At
  <2>5. \A p \in Persist : Held(flush[p])'
    BY <2>1, <2>2 DEF Held
  <2>6. QED  BY <2>4, <2>5 DEF Rise
<1>3. ASSUME NEW p \in Persist, Begin(p), Overlapping(p), phase # "down",
             phase' = "stopping" => p = "final",
             phase' \in {phase, "stopping"},
             UNCHANGED <<counter, totals, series, hour>>
      PROVE  Rise'
  <2>1. PICK j \in Flush : Becomes(p, j) /\ j.pc = "present" /\ j.sample = counter
    BY <1>3, BeginIs
  <2>2. \A q \in Persist \ {p} : flush[q].pc = "idle" /\ flush'[q] = flush[q]
    BY <1>3, <2>1 DEF Overlapping, Busy, At, Becomes
  <2>3. Buckets' = Buckets /\ Saved' = Saved
    BY <1>3 DEF Buckets, Saved
  <2>4. Held(j)'
    BY <1>0, <1>3, <1>n, <2>1, <2>3 DEF Held, Rising
  <2>5. Rising'
    <3>1. \A q, r \in Persist : q # r => At(q, "idle")' \/ At(r, "idle")'
      BY <2>2 DEF At
    <3>2. phase' = "stopping" => flush'["final"].pc # "idle"
      BY <1>3, <2>1 DEF Becomes
    <3>3. QED  BY <1>0, <1>3, <2>3, <3>1, <3>2 DEF Rising, At
  <2>6. \A q \in Persist : Held(flush[q])'
    BY <2>1, <2>2, <2>4 DEF Held, Becomes
  <2>7. QED  BY <2>5, <2>6 DEF Rise
<1>4. CASE Stop
  BY <1>3, <1>4, <1>n DEF Stop, stored
<1>5. CASE Tick
  <2>1. phase # "stopping"
    BY <1>0, <1>5, <1>n DEF Tick, Overlapping, Busy, Rising
  <2>2. QED  BY <1>3, <1>5, <1>n, <2>1 DEF Tick, process, stored
<1>6. CASE Crash \/ \E p \in Persist : Fail(p)
  BY <1>6, FailIs DEF Crash
<1>7. CASE Tock
  <2>1. hour' = hour + 1 /\ UNCHANGED <<phase, counter, totals, series, flush>>
    BY <1>7 DEF Tock, process, stored
  <2>2. Buckets' = Buckets /\ Saved' = Saved
    BY <2>1 DEF Buckets, Saved
  <2>3. Rising'
    BY <1>0, <1>n, <2>1, <2>2 DEF Rising, At
  <2>4. ASSUME NEW p \in Persist PROVE Held(flush[p])'
    <3>1. Held(flush[p]) /\ flush[p].at \in Nat
      BY <1>0, Types, Numbers DEF Flush
    <3>2. QED  BY <1>n, <2>1, <2>2, <3>1 DEF Held
  <2>5. QED  BY <2>3, <2>4 DEF Rise
<1>8. ASSUME NEW w \in Worker, Download(w) PROVE Rise'
  <2>1. counter' = counter + 1 /\ UNCHANGED <<phase, totals, series, hour, flush>>
        /\ phase # "down"
    BY <1>8 DEF Download, process, stored
  <2>2. Buckets' = Buckets /\ Saved' = Saved
    BY <2>1 DEF Buckets, Saved
  <2>3. Rising'
    BY <1>0, <1>n, <2>1, <2>2 DEF Rising, At
  <2>4. ASSUME NEW p \in Persist PROVE Held(flush[p])'
    <3>1. Held(flush[p]) /\ flush[p].sample \in Nat /\ flush[p].total \in Nat
      BY <1>0, Types, Numbers DEF Flush
    <3>2. QED  BY <1>n, <2>1, <2>2, <3>1 DEF Held
  <2>5. QED  BY <2>3, <2>4 DEF Rise
<1>9. ASSUME NEW p \in Persist, flush[p].pc # "idle"
      PROVE  \A h \in Buckets : h <= hour /\ series[h] <= counter
  <2>1. phase # "down"
    BY <1>9, DoneIs DEF Phases
  <2>2. QED  BY <1>0, <2>1 DEF Rising
<1>10. ASSUME NEW p \in Persist, Present(p) \/ CountBuckets(p) \/ OldestSamples(p) \/ Save(p)
       PROVE  Rise'
  <2>1. PICK j \in Flush :
           /\ Becomes(p, j) /\ flush[p].pc # "idle"
           /\ \/ /\ flush[p].pc = "present" /\ j.pc = "write" /\ j.sample = flush[p].sample
                 /\ j.at = hour /\ (j.there <=> series[hour] # Nil)
              \/ j.pc \in {"oldest", "delete"}
              \/ j.pc = "save" /\ j.total = counter
              \/ /\ flush[p].pc = "save" /\ j.pc = "store" /\ j.total = flush[p].total
                 /\ (j.there <=> totals # Nil)
    BY <1>10, PresentIs, TrimIs, SaveIs
  <2>2. UNCHANGED <<phase, counter, totals, series, hour>>
    BY <1>10, PresentIs, TrimIs, SaveIs DEF process, stored
  <2>3. Buckets' = Buckets
    BY <2>2 DEF Buckets
  <2>4. Held(flush[p]) /\ \A h \in Buckets : h <= hour /\ series[h] <= counter
    BY <1>0, <1>9, <2>1
  <2>5. Held(j)'
    BY <1>n, <2>1, <2>2, <2>3, <2>4 DEF Held
  <2>6. QED  BY <1>0, <2>1, <2>2, <2>3, <2>4, <2>5, RiseGoes DEF Rising
<1>11. ASSUME NEW p \in Persist, Write(p) PROVE Rise'
  <2> DEFINE f == flush[p]
  <2>1. f.pc = "write" /\ f.at \in Hour /\ f.sample \in Count
    BY <1>11, WriteIs
  <2>2. f.there <=> series[f.at] # Nil
    BY <1>0, <2>1 DEF Held
  <2>3. /\ series' = [series EXCEPT ![f.at] = f.sample]
        /\ \E j \in Flush : Becomes(p, j) /\ j.pc = "count"
        /\ UNCHANGED <<phase, counter, totals, hour>>
    BY <1>11, <2>2, WriteIs DEF process
  <2>4. PICK j \in Flush : Becomes(p, j) /\ j.pc = "count"
    BY <2>3
  <2>5. Held(j)'
    BY <2>4 DEF Held
  <2>6. /\ f.sample \in Nat /\ f.at \in Nat /\ f.sample <= counter /\ f.at <= hour
        /\ \A h \in Buckets : series[h] <= f.sample /\ h <= f.at
    BY <1>0, <2>1, Numbers DEF Held
  <2> HIDE DEF f
  <2>7. /\ Buckets' = Buckets \cup {f.at} /\ series'[f.at] = f.sample
        /\ \A h \in Hour : h # f.at => series'[h] = series[h]
    BY <2>1, <2>3, Types, Numbers DEF Buckets
  <2>8. \A h \in Buckets : h <= hour /\ series[h] <= counter
    BY <1>9, <2>1 DEF f
  <2>9. \A h \in Buckets' : h <= hour /\ series'[h] <= counter
    BY <1>n, <2>6, <2>7, <2>8
  <2>10. ASSUME NEW g \in Buckets', NEW h \in Buckets', g < h PROVE series'[g] <= series'[h]
    <3>1. CASE g = f.at
      BY <1>n, <2>6, <2>7, <2>10, <3>1
    <3>2. CASE g # f.at /\ h = f.at
      BY <1>n, <2>6, <2>7, <3>2
    <3>3. CASE g # f.at /\ h # f.at
      BY <1>0, <1>n, <2>7, <2>10, <3>3 DEF Rising
    <3>4. QED  BY <3>1, <3>2, <3>3
  <2>11. flush[p].pc # "idle"
    BY <2>1 DEF f
  <2>12. QED  BY <1>0, <2>3, <2>4, <2>5, <2>9, <2>10, <2>11, RiseGoes
<1>12. ASSUME NEW p \in Persist, DeleteSamples(p) PROVE Rise'
  <2>1. PICK j \in Flush : Becomes(p, j) /\ j.pc = "save" /\ j.total = counter
    BY <1>12, DeleteIs
  <2>2. flush[p].pc = "delete" /\ UNCHANGED <<phase, counter, totals, hour>>
    BY <1>12, DeleteIs DEF process
  <2>3. Buckets' \subseteq Buckets /\ \A h \in Buckets' : series'[h] = series[h]
    BY <1>12, DeleteIs DEF Buckets
  <2>4. \A h \in Buckets : h <= hour /\ series[h] <= counter
    BY <1>9, <2>2
  <2>5. Held(j)'
    BY <1>n, <2>1, <2>2, <2>3, <2>4 DEF Held
  <2>6. \A g, h \in Buckets' : g < h => series'[g] <= series'[h]
    BY <1>0, <2>3 DEF Rising
  <2>7. \A h \in Buckets' : h <= hour /\ series'[h] <= counter
    BY <2>3, <2>4
  <2>8. QED  BY <1>0, <2>1, <2>2, <2>5, <2>6, <2>7, RiseGoes
<1>13. ASSUME NEW p \in Persist, Store(p) PROVE Rise'
  <2>1. /\ flush[p].pc = "store" /\ flush[p].total \in Count /\ Finished(p)
        /\ series' = series /\ hour' = hour
    BY <1>13, StoreIs
  <2>2. totals' = flush[p].total
    BY <1>0, <1>13, <2>1, StoreIs DEF Held
  <2>3. /\ Buckets' = Buckets /\ Saved' = flush[p].total /\ Saved' <= counter
        /\ \A h \in Buckets : series[h] <= Saved'
    BY <1>0, <2>1, <2>2, Numbers DEF Buckets, Saved, Held
  <2>4. \A q \in Persist \ {p} : flush[q].pc = "idle"
    BY <1>0, <2>1 DEF Rising, At
  <2>5. \A h \in Buckets : h <= hour /\ series[h] <= counter
    BY <1>9, <2>1
  <2>6. (\A q \in Persist : flush'[q].pc = "idle") /\ phase' # "stopping"
        /\ (phase' = "down" \/ counter' = counter)
    <3>1. CASE p = "final" /\ Exit
      BY <3>1, ExitIs, DoneIs
    <3>2. CASE p = "tick" /\ Becomes(p, Done) /\ UNCHANGED <<phase, counter>>
      BY <1>0, <1>n, <2>4, <3>2, DoneIs DEF Becomes, Rising, At, Persist
    <3>3. QED  BY <2>1, <3>1, <3>2, FinishedIs
  <2>7. Rising'
    BY <1>0, <2>1, <2>3, <2>5, <2>6 DEF Rising, At
  <2>8. \A q \in Persist : Held(flush[q])'
    BY <2>6 DEF Held
  <2>9. QED  BY <2>7, <2>8 DEF Rise
<1>14. CASE UNCHANGED vars \/ \E w \in Worker : ReadRow(w) \/ Commit(w)
  BY <1>1, <1>14 DEF vars, ReadRow, Commit, process, stored
<1>15. QED
  BY <1>2, <1>4, <1>5, <1>6, <1>7, <1>8, <1>10, <1>11, <1>12, <1>13, <1>14 DEF Next

LEMMA InvNext == MetricsInv /\ [Next]_vars => MetricsInv'
BY TypeNext, BumpingNext, PhasesNext, SurvivingNext, RiseNext DEF MetricsInv, Rise

-----------------------------------------------------------------------------
(* The theorems *)

\* The invariant of the module.
THEOREM InvHolds == Spec => []MetricsInv
<1>1. QED  BY InitHolds, InvNext, PTL DEF Spec

\* With the process down the totals row holds all that had been saved or, the
\* last flush not lost, counted: over any crashes, failures and overlaps, but
\* for a start that could not read it.
THEOREM TotalsSurviveHolds == Spec => []TotalsSurvive
<1>1. MetricsInv => TotalsSurvive
  BY DEF MetricsInv, Surviving, TotalsSurvive
<1>2. QED  BY <1>1, InvHolds, PTL

\* No download's row is lost to another's, and the chart never falls over
\* restarts that went as they should.
THEOREM NoneUncountedHolds == Spec => []NoneUncounted
<1>1. MetricsInv => NoneUncounted
  BY DEF MetricsInv, Bumping, Rising, NoneUncounted
<1>2. QED  BY <1>1, InvHolds, PTL
=============================================================================
