----------------------------- MODULE LogsProofs -----------------------------
(***************************************************************************)
(* Theorems about Logs, for any number of requests, readers and users, and *)
(* whatever the caps: no trim or mark reaches another table's rows, or the *)
(* newest of its own; no waiting stream is behind without something that   *)
(* will wake it, and neither a stream nor a reader of pages misses an entry. *)
(***************************************************************************)
EXTENDS Logs, TLAPS, FiniteSetTheorems, WellFoundedInduction

USE LogsAssumption

-----------------------------------------------------------------------------
(* Operators *)

\* A set of seqs has a least element.
LEMMA LeastExists ==
    ASSUME NEW s \in SUBSET Seqs, s # {}
    PROVE  \E i \in s : \A j \in s : i <= j
<1>1. s \subseteq Nat
  BY DEF Seqs
<1>2. PICK i \in s : \A j \in s : ~ (<<j, i>> \in OpToRel(<, Nat))
  BY <1>1, WFMin, NatLessThanWellFounded
<1>3. \A j \in s : ~ (j < i)
  BY <1>1, <1>2 DEF OpToRel
<1>4. QED  BY <1>1, <1>3

\* And a greatest.
LEMMA GreatestSeq ==
    ASSUME NEW s \in SUBSET Seqs, s # {}
    PROVE  \E i \in s : \A j \in s : j <= i
<1> DEFINE mirrored == {MaxSeq + 1 - i : i \in s}
<1>1. mirrored \in SUBSET Seqs /\ mirrored # {}
  <2>1. \A i \in s : i \in 1..MaxSeq
    BY DEF Seqs
  <2>2. \A i \in s : MaxSeq + 1 - i \in 1..MaxSeq
    BY <2>1
  <2>3. QED  BY <2>2 DEF Seqs
<1>2. PICK x \in mirrored : \A y \in mirrored : x <= y
  <2> HIDE DEF mirrored
  <2> QED  BY <1>1, LeastExists
<1>3. PICK i \in s : x = MaxSeq + 1 - i
  OBVIOUS
<1>4. ASSUME NEW j \in s PROVE j <= i
  <2>1. MaxSeq + 1 - j \in mirrored
    OBVIOUS
  <2>2. MaxSeq + 1 - i <= MaxSeq + 1 - j
    BY <1>2, <1>3, <2>1
  <2>3. QED  BY <2>2 DEF Seqs
<1>5. QED  BY <1>4

\* The cursor that a set of rows leaves is its greatest seq, or none.
LEMMA HighestIs ==
    ASSUME NEW s \in SUBSET Seqs
    PROVE  /\ Highest(s) \in 0..MaxSeq
           /\ s # {} => Highest(s) \in s
           /\ \A j \in s : j <= Highest(s)
<1>1. CASE s = {}
  BY <1>1 DEF Highest
<1>2. CASE s # {}
  <2>1. \E i \in s : \A j \in s : j <= i
    BY <1>2, GreatestSeq
  <2>2. Highest(s) \in s /\ \A j \in s : j <= Highest(s)
    BY <1>2, <2>1 DEF Highest
  <2>3. Highest(s) \in 1..MaxSeq
    BY <2>2 DEF Seqs
  <2>4. QED  BY <2>2, <2>3
<1>3. QED  BY <1>1, <1>2

LEMMA LowestIs ==
    ASSUME NEW s \in SUBSET Seqs
    PROVE  Lowest(s) \in 0..MaxSeq
<1>1. CASE s = {}
  BY <1>1 DEF Lowest
<1>2. CASE s # {}
  <2>1. \E i \in s : \A j \in s : i <= j
    BY <1>2, LeastExists
  <2>2. Lowest(s) \in s
    BY <1>2, <2>1 DEF Lowest
  <2>3. Lowest(s) \in 1..MaxSeq
    BY <2>2 DEF Seqs
  <2>4. QED  BY <2>3
<1>3. QED  BY <1>1, <1>2

\* The newest of a set of rows have its greatest: a batch cut at SINCE_CAP, or
\* a snapshot cut at its limit, ends where the table does.
LEMMA NewestHasHighest ==
    ASSUME NEW s \in SUBSET Seqs, NEW n \in Nat \ {0}
    PROVE  /\ Newest(s, n) \subseteq s
           /\ s # {} => Newest(s, n) # {}
           /\ s # {} => Highest(Newest(s, n)) = Highest(s)
<1>1. Newest(s, n) \subseteq s
  BY DEF Newest
<1>2. ASSUME s # {} PROVE Highest(s) \in Newest(s, n)
  <2> DEFINE above == {j \in s : j > Highest(s)}
  <2>1. above = {}
    <3>1. \A j \in s : j \in 1..MaxSeq
      BY DEF Seqs
    <3>2. \A j \in s : j <= Highest(s) /\ Highest(s) \in 0..MaxSeq
      BY HighestIs
    <3>3. QED  BY <3>1, <3>2
  <2>2. Cardinality(above) = 0
    BY <2>1, FS_EmptySet
  <2>3. QED  BY <1>2, <2>2, HighestIs DEF Newest
<1>3. ASSUME s # {} PROVE Highest(Newest(s, n)) = Highest(s)
  <2>1. /\ Highest(Newest(s, n)) \in s
        /\ \A j \in Newest(s, n) : j <= Highest(Newest(s, n))
    BY <1>1, <1>2, <1>3, HighestIs
  <2>2. Highest(s) <= Highest(Newest(s, n)) /\ Highest(Newest(s, n)) <= Highest(s)
    BY <1>2, <1>3, <2>1, HighestIs
  <2>3. Highest(s) \in 0..MaxSeq /\ Highest(Newest(s, n)) \in 1..MaxSeq
    BY <2>1, HighestIs DEF Seqs
  <2>4. QED  BY <2>2, <2>3
<1>4. QED  BY <1>1, <1>2, <1>3

-----------------------------------------------------------------------------
(* Types, and what a request between two statements is pointed at *)

\* What each pc says of its job.
Pointed(j) ==
    /\ j.pc = "idle" => j.to # Audit
    /\ j.pc = "prune" => j.to = Audit
    /\ j.pc \in {"flip", "flip all"} => j.to \in User
    /\ j.pc = "flip" => j.arg \in Drawn /\ log[j.arg] = j.to

LogsInv == TypeOK /\ \A w \in Worker : Pointed(job[w])

\* The rows of a table are among the seqs, no more than there are.
LEMMA RowsAre ==
    ASSUME TypeOK, NEW t
    PROVE  /\ Len(log) \in Nat
           /\ Drawn \subseteq Seqs
           /\ Rows(t) \in SUBSET Seqs
           /\ Rows(t) \subseteq Drawn
           /\ Cardinality(Rows(t)) \in 0..MaxSeq
<1>1. Drawn = 1..Len(log) /\ Len(log) \in Nat /\ Len(log) <= MaxSeq
  BY DEF TypeOK, Drawn
<1>2. IsFiniteSet(1..MaxSeq) /\ Cardinality(1..MaxSeq) = MaxSeq
  BY FS_Interval
<1>3. Drawn \subseteq Seqs
  BY <1>1 DEF Seqs
<1>4. Rows(t) \subseteq Drawn
  BY DEF Rows
<1>5. Cardinality(Rows(t)) \in Nat /\ Cardinality(Rows(t)) <= MaxSeq
  BY <1>2, <1>3, <1>4, FS_Subset, FS_CardinalityType DEF Seqs
<1>6. QED  BY <1>1, <1>3, <1>4, <1>5

\* A step that leaves the tables alone and gives one request another job keeps
\* the types of both, and what jobs are pointed at.
LEMMA JobStep ==
    ASSUME LogsInv, NEW w \in Worker, NEW j \in Job, Pointed(j),
           job' = [job EXCEPT ![w] = j], log' = log
    PROVE  job' \in [Worker -> Job] /\ \A v \in Worker : Pointed(job[v])'
<1>1. job \in [Worker -> Job]
  BY DEF LogsInv, TypeOK
<1>2. job' \in [Worker -> Job]
  BY <1>1
<1>3. ASSUME NEW v \in Worker PROVE Pointed(job[v])'
  <2>1. CASE v = w
    BY <1>1, <2>1 DEF Pointed, Drawn
  <2>2. CASE v # w
    BY <1>1, <2>2 DEF Pointed, Drawn, LogsInv
  <2>3. QED  BY <2>1, <2>2
<1>4. QED  BY <1>2, <1>3

LEMMA IdleIs == Idle \in Job /\ Pointed(Idle)
BY DEF Idle, Job, Statements, Table, Pointed

\* What Done leaves of a job.
LEMMA DoneIs ==
    ASSUME LogsInv, NEW w \in Worker, Done(w), log' = log
    PROVE  job' \in [Worker -> Job] /\ \A v \in Worker : Pointed(job[v])'
<1> DEFINE j == IF job[w].to = Audit THEN [pc |-> "bump", to |-> Audit, arg |-> 0] ELSE Idle
<1>1. j \in Job /\ Pointed(j)
  <2>1. CASE job[w].to = Audit
    BY <2>1 DEF Job, Table, Pointed
  <2>2. CASE job[w].to # Audit
    BY <2>2, IdleIs
  <2>3. QED  BY <2>1, <2>2
<1>2. job' = [job EXCEPT ![w] = j]
  BY DEF Done
<1>3. QED
  <2> HIDE DEF j
  <2> QED  BY <1>1, <1>2, JobStep

LEMMA ReturnIs ==
    ASSUME LogsInv, NEW w \in Worker, Return(w), log' = log
    PROVE  job' \in [Worker -> Job] /\ \A v \in Worker : Pointed(job[v])'
BY IdleIs, JobStep DEF Return

\* Only an insertion changes log, and it changes no row.
LEMMA InsertIs ==
    ASSUME LogsInv, NEW t \in Table, Insert(t)
    PROVE  /\ log' \in Seq(Table) /\ Len(log') <= MaxSeq
           /\ Len(log') = Len(log) + 1
           /\ Drawn \subseteq Drawn' /\ Drawn = 1..Len(log) /\ Drawn' = 1..Len(log')
           /\ \A i \in Drawn : log'[i] = log[i]
           /\ log'[Len(log')] = t
<1>1. log \in Seq(Table) /\ Len(log) \in Nat /\ Len(log) < MaxSeq /\ log' = Append(log, t)
  BY DEF LogsInv, TypeOK, Insert
<1>2. log' \in Seq(Table) /\ Len(log') = Len(log) + 1
  BY <1>1
<1>3. (\A i \in 1..Len(log) : log'[i] = log[i]) /\ log'[Len(log')] = t
  BY <1>1
<1>4. Drawn = 1..Len(log) /\ Drawn' = 1..Len(log')
  BY <1>1, <1>2 DEF Drawn
<1>5. QED  BY <1>1, <1>2, <1>3, <1>4

\* What the readers' steps send, and where they leave the cursors.
LEMMA ReaderTypes ==
    ASSUME TypeOK, NEW c \in Client,
           Subscribe(c) \/ Snapshot(c) \/ Changed(c) \/ Since(c) \/ ListAuditLog(c) \/ Page(c)
    PROVE  reader' \in [Client -> Reader]
<1>0. reader \in [Client -> Reader] /\ reader[c] \in Reader /\ Rows(Audit) \in SUBSET Seqs
  BY RowsAre DEF TypeOK
<1>1. CASE Subscribe(c)
  BY <1>0, <1>1 DEF Subscribe, Reader
<1>2. CASE Snapshot(c)
  <2>1. Highest(Rows(Audit)) \in 0..MaxSeq /\ Newest(Rows(Audit), Limit) \in SUBSET Seqs
    BY <1>0, HighestIs, NewestHasHighest
  <2>2. QED  BY <1>0, <1>2, <2>1 DEF Snapshot, Reader
<1>3. CASE Changed(c)
  BY <1>0, <1>3 DEF Changed, Reader
<1>4. CASE Since(c)
  <2> DEFINE after == After(reader[c].cursor)
             batch == Newest(after, SinceCap)
  <2>1. after \in SUBSET Seqs
    BY <1>0 DEF After
  <2>2. batch \in SUBSET Seqs
    <3> HIDE DEF after
    <3> QED  BY <2>1, NewestHasHighest
  <2>3. Resume(batch, reader[c].cursor) \in 0..MaxSeq
    <3> HIDE DEF batch
    <3> QED  BY <1>0, <2>2, HighestIs DEF Resume, Reader
  <2>4. reader' = [reader EXCEPT ![c].pc = "wait", ![c].sent = batch,
                      ![c].cursor = Resume(batch, reader[c].cursor),
                      ![c].owed = reader[c].owed \cup (after \ batch)]
    BY <1>0, <1>4 DEF Since
  <2> HIDE DEF after, batch
  <2>5. QED  BY <1>0, <2>1, <2>2, <2>3, <2>4 DEF Reader
<1>5. CASE ListAuditLog(c)
  BY <1>0, <1>5 DEF ListAuditLog, Reader
<1>6. CASE Page(c)
  <2> DEFINE before == Before(reader[c].cursor)
             page == Newest(before, Limit)
             next == NextCursor(page)
  <2>1. before \in SUBSET Seqs
    BY <1>0 DEF Before
  <2>2. page \in SUBSET Seqs
    <3> HIDE DEF before
    <3> QED  BY <2>1, NewestHasHighest
  <2>3. next \in 0..MaxSeq
    <3> HIDE DEF page
    <3> QED  BY <2>2, LowestIs DEF NextCursor
  <2>4. reader' = [reader EXCEPT ![c].pc = IF next = 0 THEN "paged" ELSE "page",
                      ![c].cursor = next, ![c].seen = reader[c].seen \cup (page \cap Wanted)]
    BY <1>0, <1>6 DEF Page
  <2> HIDE DEF before, page, next
  <2>5. QED  BY <1>0, <2>2, <2>3, <2>4 DEF Reader
<1>7. QED  BY <1>1, <1>2, <1>3, <1>4, <1>5, <1>6

LEMMA OneMore ==
    ASSUME NEW n \in Nat, NEW m, m = n + 1, NEW i \in 0..n
    PROVE  i \in 0..m
OBVIOUS

\* A step that inserts a row and gives one request a job keeps the invariant.
LEMMA AppendKeeps ==
    ASSUME LogsInv, NEW w \in Worker, NEW t \in Table, NEW j \in Job, Pointed(j),
           j.pc \notin {"flip", "flip all"}, Insert(t), job' = [job EXCEPT ![w] = j],
           gone' = gone, read' = read, aged' = aged, reader' = reader, fault' = fault
    PROVE  LogsInv'
<1>1. TypeOK'
  <2>1. /\ log' \in Seq(Table) /\ Len(log') <= MaxSeq /\ Len(log') = Len(log) + 1
        /\ Drawn \subseteq Drawn'
    BY InsertIs
  <2>2. gone' \subseteq Drawn' /\ read' \subseteq Drawn'
    BY <2>1 DEF LogsInv, TypeOK
  <2>3. aged' \in 0..Len(log')
    <3>1. aged \in 0..Len(log) /\ aged' = aged
      BY DEF LogsInv, TypeOK
    <3>2. Len(log) \in Nat
      BY RowsAre DEF LogsInv
    <3>3. QED
      BY <2>1, <3>1, <3>2, OneMore
  <2>4. job' \in [Worker -> Job] /\ reader' \in [Client -> Reader] /\ fault' \in Fault
    BY DEF LogsInv, TypeOK
  <2>5. QED  BY <2>1, <2>2, <2>3, <2>4 DEF TypeOK
<1>2. ASSUME NEW v \in Worker PROVE Pointed(job[v])'
  <2>1. CASE v = w
    BY <2>1 DEF Pointed, LogsInv, TypeOK
  <2>2. CASE v # w
    BY <2>2, InsertIs DEF Pointed, LogsInv, TypeOK
  <2>3. QED  BY <2>1, <2>2
<1>3. QED  BY <1>1, <1>2 DEF LogsInv

LEMMA LogsInit == Init => LogsInv
<1> SUFFICES ASSUME Init PROVE LogsInv
  OBVIOUS
<1>1. log \in Seq(Table) /\ Len(log) = 0
  BY DEF Init
<1>2. job \in [Worker -> Job] /\ \A w \in Worker : Pointed(job[w])
  BY IdleIs DEF Init
<1>3. reader \in [Client -> Reader]
  BY DEF Init, Closed, Reader
<1>4. QED  BY <1>1, <1>2, <1>3 DEF Init, LogsInv, TypeOK, Fault

\* A step that leaves log alone keeps the invariant if it keeps the rest.
LEMMA KeepsInv ==
    ASSUME LogsInv, log' = log, gone' \subseteq Drawn, read' \subseteq Drawn,
           aged' \in 0..Len(log), reader' \in [Client -> Reader], fault' \in Fault,
           job' \in [Worker -> Job], \A v \in Worker : Pointed(job[v])'
    PROVE  LogsInv'
BY DEF LogsInv, TypeOK, Drawn

LEMMA LogsNext == LogsInv /\ [Next]_vars => LogsInv'
<1> SUFFICES ASSUME LogsInv, [Next]_vars PROVE LogsInv'
  OBVIOUS
<1>0. /\ gone \subseteq Drawn /\ read \subseteq Drawn /\ aged \in 0..Len(log)
      /\ job \in [Worker -> Job] /\ reader \in [Client -> Reader] /\ fault \in Fault
      /\ TypeOK /\ \A w \in Worker : Pointed(job[w])
  BY DEF LogsInv, TypeOK
<1>1. ASSUME NEW w \in Worker, AppendEntry(w) PROVE LogsInv'
  <2> DEFINE j == [pc |-> "prune", to |-> Audit, arg |-> 0]
  <2>1. j \in Job /\ Pointed(j) /\ j.pc \notin {"flip", "flip all"}
    BY DEF Job, Statements, Table, Pointed
  <2>2. Insert(Audit) /\ job' = [job EXCEPT ![w] = j]
        /\ UNCHANGED <<gone, read, aged, reader, fault>>
    BY <1>1 DEF AppendEntry
  <2> HIDE DEF j
  <2>3. QED  BY <2>1, <2>2, AppendKeeps DEF Table
<1>2. ASSUME NEW w \in Worker, NEW u \in User, Push(w, u) PROVE LogsInv'
  <2> DEFINE j == [pc |-> "count", to |-> u, arg |-> 0]
  <2>1. j \in Job /\ Pointed(j) /\ j.pc \notin {"flip", "flip all"}
    BY DEF Job, Statements, Table, Pointed
  <2>2. Insert(u) /\ job' = [job EXCEPT ![w] = j]
        /\ UNCHANGED <<gone, read, aged, reader, fault>>
    BY <1>2 DEF Push
  <2> HIDE DEF j
  <2>3. QED  BY <2>1, <2>2, AppendKeeps DEF Table
<1>3. ASSUME NEW w \in Worker, NEW u \in User, MarkAllRead(w, u) PROVE LogsInv'
  <2> DEFINE j == [pc |-> "flip all", to |-> u, arg |-> 0]
  <2>1. j \in Job /\ Pointed(j)
    BY DEF Job, Statements, Table, Pointed
  <2>2. job' = [job EXCEPT ![w] = j] /\ UNCHANGED <<table, reader, fault>>
    BY <1>3 DEF MarkAllRead
  <2> HIDE DEF j
  <2>3. QED  BY <1>0, <2>1, <2>2, JobStep, KeepsInv DEF table
<1>4. ASSUME NEW w \in Worker, NEW u \in User, NEW i \in Drawn, MarkRead(w, u, i)
      PROVE  LogsInv'
  <2> DEFINE j == [pc |-> "flip", to |-> u, arg |-> i]
  <2>1. i \in 0..MaxSeq /\ log[i] = u
    <3>1. i \in Rows(u) /\ Drawn \subseteq Seqs
      BY <1>0, <1>4, RowsAre DEF MarkRead
    <3>2. QED  BY <3>1 DEF Rows, Seqs
  <2>2. j \in Job /\ Pointed(j)
    BY <2>1 DEF Job, Statements, Table, Pointed
  <2>3. job' = [job EXCEPT ![w] = j] /\ UNCHANGED <<table, reader, fault>>
    BY <1>4 DEF MarkRead
  <2> HIDE DEF j
  <2>4. QED  BY <1>0, <2>2, <2>3, JobStep, KeepsInv DEF table
<1>5. ASSUME NEW w \in Worker, Prune(w) PROVE LogsInv'
  <2> DEFINE j == [job[w] EXCEPT !.pc = "count"]
  <2>1. j \in Job /\ Pointed(j)
    <3>1. j \in Job /\ j.pc = "count"
      BY <1>0 DEF Job, Statements
    <3>2. QED  BY <3>1 DEF Pointed
  <2>2. job' = [job EXCEPT ![w] = j] /\ UNCHANGED <<log, read, aged, reader, fault>>
    BY <1>0, <1>5 DEF Prune, Goto
  <2>3. gone' \subseteq Drawn
    BY <1>0, <1>5 DEF Prune, Rows
  <2> HIDE DEF j
  <2>4. QED  BY <1>0, <2>1, <2>2, <2>3, JobStep, KeepsInv
<1>6. ASSUME NEW w \in Worker, Count(w) PROVE LogsInv'
  <2> DEFINE extra == Surplus(Cardinality(Rows(job[w].to)))
             j == [pc |-> "oldest", to |-> job[w].to, arg |-> extra]
  <2>1. extra \in 0..MaxSeq
    BY <1>0, RowsAre DEF Surplus
  <2>2. j \in Job /\ Pointed(j)
    BY <1>0, <2>1 DEF Job, Statements, Pointed
  <2>3. UNCHANGED <<table, reader, fault>> /\ (job' = [job EXCEPT ![w] = j] \/ Done(w))
    BY <1>0, <1>6 DEF Count
  <2> HIDE DEF j
  <2>4. QED  BY <1>0, <2>2, <2>3, JobStep, DoneIs, KeepsInv DEF table
<1>7. ASSUME NEW w \in Worker, SelectOldest(w) PROVE LogsInv'
  <2> DEFINE upto == Highest(Oldest(Rows(job[w].to), job[w].arg))
             j == [pc |-> "delete", to |-> job[w].to, arg |-> upto]
  <2>1. upto \in 0..MaxSeq
    <3>1. Oldest(Rows(job[w].to), job[w].arg) \in SUBSET Seqs
      BY <1>0, RowsAre DEF Oldest
    <3>2. QED  BY <3>1, HighestIs
  <2>2. j \in Job /\ Pointed(j)
    BY <1>0, <2>1 DEF Job, Statements, Pointed
  <2>3. UNCHANGED <<table, reader, fault>> /\ (job' = [job EXCEPT ![w] = j] \/ Done(w))
    BY <1>0, <1>7 DEF SelectOldest
  <2> HIDE DEF j
  <2>4. QED  BY <1>0, <2>2, <2>3, JobStep, DoneIs, KeepsInv DEF table
<1>8. ASSUME NEW w \in Worker, Delete(w) PROVE LogsInv'
  <2>1. Done(w) /\ UNCHANGED <<log, read, aged, reader, fault>> /\ gone' \subseteq Drawn
    BY <1>0, <1>8 DEF Delete, Upto, Rows
  <2>2. QED  BY <1>0, <2>1, DoneIs, KeepsInv
<1>9. ASSUME NEW w \in Worker, Flip(w) PROVE LogsInv'
  <2>1. Return(w) /\ UNCHANGED <<log, gone, aged, reader, fault>> /\ read' \subseteq Drawn
    BY <1>0, <1>9 DEF Flip, At, Pointed
  <2>2. QED  BY <1>0, <2>1, ReturnIs, KeepsInv
<1>10. ASSUME NEW w \in Worker, FlipAll(w) PROVE LogsInv'
  <2>1. Return(w) /\ UNCHANGED <<log, gone, aged, reader, fault>> /\ read' \subseteq Drawn
    BY <1>0, <1>10 DEF FlipAll, Rows
  <2>2. QED  BY <1>0, <2>1, ReturnIs, KeepsInv
<1>11. ASSUME NEW w \in Worker, Bump(w) PROVE LogsInv'
  <2>1. Return(w) /\ UNCHANGED table /\ fault' \in Fault
    BY <1>0, <1>11 DEF Bump, Fault
  <2>2. reader' \in [Client -> Reader]
    <3>1. ASSUME NEW c \in Client PROVE [reader[c] EXCEPT !.dirty = TRUE] \in Reader
      BY <1>0 DEF Reader
    <3>2. QED  BY <1>0, <1>11, <3>1 DEF Bump
  <2>3. QED  BY <1>0, <2>1, <2>2, ReturnIs, KeepsInv DEF table
<1>12. ASSUME NEW w \in Worker, Fail(w) PROVE LogsInv'
  <2>1. Return(w) /\ UNCHANGED <<table, reader>> /\ fault' \in Fault
    BY <1>12 DEF Fail, Fault
  <2>2. QED  BY <1>0, <2>1, ReturnIs, KeepsInv DEF table
<1>13. ASSUME Age PROVE LogsInv'
  <2>1. aged' \in Drawn /\ UNCHANGED <<log, gone, read, job, reader, fault>>
    BY <1>13 DEF Age, Rows
  <2>2. aged' \in 0..Len(log)
    BY <1>0, <2>1 DEF TypeOK, Drawn
  <2>3. QED  BY <1>0, <2>1, <2>2, KeepsInv DEF Pointed, Drawn
<1>14. ASSUME Crash PROVE LogsInv'
  <2>1. UNCHANGED table /\ fault' \in Fault /\ reader' \in [Client -> Reader]
    BY <1>14 DEF Crash, Fault, Closed, Reader
  <2>2. job' \in [Worker -> Job] /\ \A w \in Worker : Pointed(job[w])'
    BY <1>14, IdleIs DEF Crash, Pointed, Idle
  <2>3. QED  BY <1>0, <2>1, <2>2, KeepsInv DEF table
<1>15. ASSUME NEW c \in Client,
              Subscribe(c) \/ Snapshot(c) \/ Changed(c) \/ Since(c) \/ ListAuditLog(c) \/ Page(c)
       PROVE  LogsInv'
  <2>1. UNCHANGED <<table, job, fault>>
    BY <1>15 DEF Subscribe, Snapshot, Changed, Since, ListAuditLog, Page
  <2>2. reader' \in [Client -> Reader]
    BY <1>0, <1>15, ReaderTypes
  <2>3. QED  BY <1>0, <2>1, <2>2, KeepsInv DEF table, Pointed, Drawn
<1>16. CASE UNCHANGED vars
  BY <1>0, <1>16, KeepsInv DEF vars, Pointed, Drawn
<1>17. QED
  BY <1>1, <1>2, <1>3, <1>4, <1>5, <1>6, <1>7, <1>8, <1>9, <1>10, <1>11, <1>12, <1>13,
     <1>14, <1>15, <1>16 DEF Next

\* The cursors, bounds and surpluses stay within the ids ever drawn, a prune is
\* of the audit log, and a mark that was looked up before the flip still names a
\* notice of the inbox it was looked up in.
THEOREM TypesHold == Spec => []LogsInv
<1>1. Init => LogsInv
  BY LogsInit
<1>2. LogsInv /\ [Next]_vars => LogsInv'
  BY LogsNext
<1>3. QED  BY <1>1, <1>2, PTL DEF Spec

-----------------------------------------------------------------------------
(* No request touches another table's rows *)

Touched == (gone' \ gone) \cup (read' \ read)

\* Whose rows a step deletes or marks.
TouchesOwn ==
    \A i \in Drawn : i \in Touched =>
        \E w \in Worker : job[w].to = log[i] /\ job'[w] # job[w]

\* A step of a request that stays at its table's rows, and goes on.
LEMMA OwnRows ==
    ASSUME NEW w \in Worker, Touched \subseteq Rows(job[w].to), job'[w] # job[w]
    PROVE  TouchesOwn
BY DEF TouchesOwn, Rows

\* A step that deletes nothing and marks nothing.
LEMMA NoRows ==
    ASSUME gone' = gone, read' = read
    PROVE  TouchesOwn
BY DEF TouchesOwn, Touched

\* Done and Return leave the pc they were called at.
LEMMA Leaves ==
    ASSUME LogsInv, NEW w \in Worker, Done(w) \/ Return(w), job[w].pc \notin {"idle", "bump"}
    PROVE  job'[w] # job[w]
<1>1. job \in [Worker -> Job]
  BY DEF LogsInv, TypeOK
<1>2. job'[w].pc \in {"idle", "bump"}
  BY <1>1 DEF Done, Return, Idle
<1>3. QED  BY <1>2

LEMMA TouchesStep == LogsInv /\ [Next]_vars => TouchesOwn
<1> SUFFICES ASSUME LogsInv, [Next]_vars PROVE TouchesOwn
  OBVIOUS
<1>0. job \in [Worker -> Job] /\ \A w \in Worker : Pointed(job[w])
  BY DEF LogsInv, TypeOK
<1>1. ASSUME NEW w \in Worker, Prune(w) PROVE TouchesOwn
  <2>1. job[w].pc = "prune" /\ job[w].to = Audit
    BY <1>0, <1>1 DEF Prune, At, Pointed
  <2>2. job'[w].pc = "count"
    BY <1>0, <1>1 DEF Prune, Goto
  <2>3. Touched \subseteq Rows(job[w].to)
    BY <1>1, <2>1 DEF Prune, Touched
  <2>4. QED  BY <2>1, <2>2, <2>3, OwnRows
<1>2. ASSUME NEW w \in Worker, Delete(w) PROVE TouchesOwn
  <2>1. job'[w] # job[w]
    BY <1>2, Leaves DEF Delete, At
  <2>2. Touched \subseteq Rows(job[w].to)
    BY <1>2 DEF Delete, Touched, Upto
  <2>3. QED  BY <2>1, <2>2, OwnRows
<1>3. ASSUME NEW w \in Worker, Flip(w) PROVE TouchesOwn
  <2>1. job'[w] # job[w]
    BY <1>3, Leaves DEF Flip, At
  <2>2. Touched \subseteq Rows(job[w].to)
    BY <1>0, <1>3 DEF Flip, At, Touched, Pointed, Rows
  <2>3. QED  BY <2>1, <2>2, OwnRows
<1>4. ASSUME NEW w \in Worker, FlipAll(w) PROVE TouchesOwn
  <2>1. job'[w] # job[w]
    BY <1>4, Leaves DEF FlipAll, At
  <2>2. Touched \subseteq Rows(job[w].to)
    BY <1>4 DEF FlipAll, Touched
  <2>3. QED  BY <2>1, <2>2, OwnRows
<1>5. ASSUME NEW w \in Worker,
             \/ AppendEntry(w) \/ Count(w) \/ SelectOldest(w) \/ Bump(w) \/ Fail(w)
             \/ \E u \in User : Push(w, u) \/ MarkAllRead(w, u)
             \/ \E u \in User, i \in Drawn : MarkRead(w, u, i)
      PROVE  TouchesOwn
  <2>1. gone' = gone /\ read' = read
    BY <1>5 DEF AppendEntry, Count, SelectOldest, Bump, Fail, Push, MarkAllRead, MarkRead, table
  <2>2. QED  BY <2>1, NoRows
<1>6. ASSUME NEW c \in Client,
             Subscribe(c) \/ Snapshot(c) \/ Changed(c) \/ Since(c) \/ ListAuditLog(c) \/ Page(c)
      PROVE  TouchesOwn
  <2>1. gone' = gone /\ read' = read
    BY <1>6 DEF Subscribe, Snapshot, Changed, Since, ListAuditLog, Page, table
  <2>2. QED  BY <2>1, NoRows
<1>7. CASE Age \/ Crash \/ UNCHANGED vars
  <2>1. gone' = gone /\ read' = read
    BY <1>7 DEF Age, Crash, vars, table
  <2>2. QED  BY <2>1, NoRows
<1>8. QED
  BY <1>1, <1>2, <1>3, <1>4, <1>5, <1>6, <1>7 DEF Next

\* The ids are shared by every inbox and a trim deletes by an id bound, yet a
\* request deletes and marks rows of its own table only, however many trims,
\* marks and inserts come between its statements (audit.rs, notifications.rs).
THEOREM OthersUntouchedHolds == Spec => OthersUntouched
<1>1. LogsInv /\ [Next]_vars => [TouchesOwn]_vars
  BY TouchesStep
<1>2. OthersUntouched <=> [][TouchesOwn]_vars
  BY DEF OthersUntouched, TouchesOwn, Touched
<1>3. QED  BY <1>1, <1>2, TypesHold, PTL DEF Spec

-----------------------------------------------------------------------------
(* No waiting stream is behind without something that will wake it *)

CaughtUp(c) ==
    reader[c].pc = "wait" /\ ~reader[c].dirty => After(reader[c].cursor) = {}

\* A step that sends nothing, inserts no entry and drops no announcement.
LEMMA QuietKeeps ==
    ASSUME WaitsAtTheEnd, reader' = reader, Rows(Audit)' \subseteq Rows(Audit), Owed => Owed'
    PROVE  WaitsAtTheEnd'
BY DEF WaitsAtTheEnd, After

\* The tables and the readers are as they were, and a job not the log's is
\* replaced by another.
LEMMA OwedKeeps ==
    ASSUME LogsInv, NEW w \in Worker, fault' = fault, job[w].to # Audit,
           \A v \in Worker \ {w} : job'[v] = job[v]
    PROVE  Owed => Owed'
BY DEF Owed

LEMMA DoneOwes ==
    ASSUME LogsInv, NEW w \in Worker, Done(w), fault' = fault
    PROVE  Owed => Owed'
<1>1. job \in [Worker -> Job]
  BY DEF LogsInv, TypeOK
<1>2. CASE job[w].to = Audit
  BY <1>1, <1>2 DEF Done, Owed
<1>3. CASE job[w].to # Audit
  BY <1>1, <1>3 DEF Done, Owed
<1>4. QED  BY <1>2, <1>3

LEMMA WaitsInit == Init => WaitsAtTheEnd
BY DEF Init, WaitsAtTheEnd, Closed

\* A reader's step leaves what it reads caught up, or is not waiting.
LEMMA ReaderKeeps ==
    ASSUME LogsInv, WaitsAtTheEnd, NEW c \in Client,
           Subscribe(c) \/ Snapshot(c) \/ Changed(c) \/ Since(c) \/ ListAuditLog(c) \/ Page(c)
    PROVE  WaitsAtTheEnd'
<1>0. /\ reader \in [Client -> Reader] /\ reader[c].cursor \in 0..MaxSeq
      /\ Rows(Audit) \in SUBSET Seqs /\ Rows(Audit) \subseteq Nat
  BY RowsAre DEF LogsInv, TypeOK, Reader, Seqs
<1>1. UNCHANGED <<table, job, fault>> /\ \A d \in Client \ {c} : reader'[d] = reader[d]
  BY <1>0 DEF Subscribe, Snapshot, Changed, Since, ListAuditLog, Page
<1>2. Rows(Audit)' = Rows(Audit) /\ (Owed' <=> Owed)
  BY <1>1 DEF table, Rows, Drawn, Owed
<1> SUFFICES ASSUME ~Owed, reader'[c].pc = "wait"
             PROVE  After(reader[c].cursor)' = {}
  <2>1. ASSUME NEW d \in Client, d # c PROVE CaughtUp(d)' \/ Owed
    BY <1>1, <1>2, <2>1 DEF CaughtUp, WaitsAtTheEnd, After
  <2>2. QED  BY <1>2, <2>1 DEF WaitsAtTheEnd, CaughtUp
<1>3. CASE Snapshot(c)
  <2>1. reader'[c].cursor = Highest(Rows(Audit))
    BY <1>0, <1>3 DEF Snapshot
  <2>2. \A i \in Rows(Audit) : i <= Highest(Rows(Audit))
    BY <1>0, HighestIs
  <2>3. Highest(Rows(Audit)) \in 0..MaxSeq
    BY <1>0, HighestIs
  <2>4. QED
    BY <1>0, <1>2, <2>1, <2>2, <2>3 DEF After
<1>4. CASE Since(c)
  <2> DEFINE after == After(reader[c].cursor)
             batch == Newest(after, SinceCap)
  <2>1. after \in SUBSET Seqs
    BY <1>0 DEF After
  <2>2. reader'[c].cursor = Resume(batch, reader[c].cursor)
    BY <1>0, <1>4 DEF Since
  <2>3. CASE after = {}
    <3>1. batch = {}
      BY <2>3 DEF Newest
    <3>2. reader'[c].cursor = reader[c].cursor
      BY <2>2, <3>1 DEF Resume
    <3>3. QED  BY <1>2, <2>3, <3>2 DEF After
  <2>4. CASE after # {}
    <3> HIDE DEF after
    <3>1. batch # {} /\ Highest(batch) = Highest(after)
      BY <2>1, <2>4, NewestHasHighest
    <3>2. reader'[c].cursor = Highest(after)
      BY <2>2, <3>1 DEF Resume
    <3>3. Highest(after) \in after /\ Highest(after) \in 0..MaxSeq
          /\ \A i \in after : i <= Highest(after)
      BY <2>1, <2>4, HighestIs
    <3>4. ASSUME NEW i \in Rows(Audit), i > Highest(after) PROVE FALSE
      <4>1. Highest(after) > reader[c].cursor
        BY <3>3 DEF after, After
      <4>2. i \in after
        BY <1>0, <3>3, <3>4, <4>1 DEF after, After
      <4>3. QED  BY <1>0, <3>3, <3>4, <4>2
    <3>5. QED  BY <1>2, <3>2, <3>4 DEF After
  <2>5. QED  BY <2>3, <2>4
<1>5. CASE Subscribe(c) \/ Changed(c) \/ ListAuditLog(c) \/ Page(c)
  <2>1. CASE Subscribe(c)
    BY <1>0, <2>1 DEF Subscribe
  <2>2. CASE Changed(c)
    <3>1. reader'[c].pc = "since"
      BY <1>0, <2>2 DEF Changed, Reader
    <3>2. QED  BY <3>1
  <2>3. CASE ListAuditLog(c)
    BY <1>0, <2>3 DEF ListAuditLog
  <2>4. CASE Page(c)
    <3>1. reader'[c].pc \in {"paged", "page"}
      BY <1>0, <2>4 DEF Page
    <3>2. QED  BY <3>1
  <2>5. QED  BY <1>5, <2>1, <2>2, <2>3, <2>4
<1>6. QED  BY <1>3, <1>4, <1>5

LEMMA WaitsNext == LogsInv /\ WaitsAtTheEnd /\ [Next]_vars => WaitsAtTheEnd'
<1> SUFFICES ASSUME LogsInv, WaitsAtTheEnd, [Next]_vars PROVE WaitsAtTheEnd'
  OBVIOUS
<1>0. job \in [Worker -> Job] /\ \A w \in Worker : Pointed(job[w])
  BY DEF LogsInv, TypeOK
<1>1. ASSUME NEW w \in Worker, AppendEntry(w) \/ Prune(w) PROVE WaitsAtTheEnd'
  <2>1. job'[w].to = Audit
    <3>1. CASE AppendEntry(w)
      BY <1>0, <3>1 DEF AppendEntry
    <3>2. CASE Prune(w)
      <4>1. job[w] \in Job /\ job[w].to = Audit
        BY <1>0, <3>2 DEF Prune, At, Pointed
      <4>2. job'[w].to = job[w].to
        BY <1>0, <3>2, <4>1 DEF Prune, Goto, Job
      <4>3. QED  BY <4>1, <4>2
    <3>3. QED  BY <1>1, <3>1, <3>2
  <2>2. QED  BY <2>1 DEF WaitsAtTheEnd, Owed
<1>2. ASSUME NEW w \in Worker, NEW u \in User, Push(w, u) PROVE WaitsAtTheEnd'
  <2>1. Rows(Audit)' \subseteq Rows(Audit)
    <3>1. Insert(u) /\ u \in Table /\ gone' = gone /\ u # Audit
      BY <1>2 DEF Push, Table
    <3>2. \A i \in Drawn' : i \in Drawn \/ i = Len(log')
      BY <3>1, InsertIs, RowsAre DEF LogsInv
    <3>3. QED  BY <3>1, <3>2, InsertIs DEF Rows
  <2>2. Owed => Owed'
    BY <1>0, <1>2, OwedKeeps DEF Push, At, Pointed
  <2>3. QED  BY <1>2, <2>1, <2>2, QuietKeeps DEF Push
<1>3. ASSUME NEW w \in Worker,
             \/ \E u \in User : MarkAllRead(w, u)
             \/ \E u \in User, i \in Drawn : MarkRead(w, u, i)
             \/ Flip(w) \/ FlipAll(w)
      PROVE  WaitsAtTheEnd'
  <2>1. log' = log /\ gone' = gone /\ reader' = reader /\ fault' = fault
    BY <1>3 DEF MarkAllRead, MarkRead, Flip, FlipAll, table
  <2>2. job[w].to # Audit /\ \A v \in Worker \ {w} : job'[v] = job[v]
    BY <1>0, <1>3 DEF MarkAllRead, MarkRead, Flip, FlipAll, At, Pointed, Return
  <2>3. QED  BY <2>1, <2>2, OwedKeeps, QuietKeeps DEF Rows, Drawn
<1>4. ASSUME NEW w \in Worker, Count(w) PROVE WaitsAtTheEnd'
  <2>1. UNCHANGED <<table, reader, fault>>
    BY <1>4 DEF Count
  <2>2. Owed => Owed'
    BY <1>0, <1>4, <2>1, DoneOwes DEF Count, Owed
  <2>3. QED  BY <2>1, <2>2, QuietKeeps DEF table, Rows, Drawn
<1>5. ASSUME NEW w \in Worker, SelectOldest(w) PROVE WaitsAtTheEnd'
  <2>1. UNCHANGED <<table, reader, fault>>
    BY <1>5 DEF SelectOldest
  <2>2. Owed => Owed'
    BY <1>0, <1>5, <2>1, DoneOwes DEF SelectOldest, Owed
  <2>3. QED  BY <2>1, <2>2, QuietKeeps DEF table, Rows, Drawn
<1>6. ASSUME NEW w \in Worker, Delete(w) PROVE WaitsAtTheEnd'
  <2>1. Rows(Audit)' \subseteq Rows(Audit) /\ reader' = reader
    BY <1>6 DEF Delete, Rows, Drawn
  <2>2. Owed => Owed'
    BY <1>6, DoneOwes DEF Delete
  <2>3. QED  BY <2>1, <2>2, QuietKeeps
<1>7. ASSUME NEW w \in Worker, Bump(w) PROVE WaitsAtTheEnd'
  <2>1. \A c \in Client : reader'[c].pc = "wait" => reader'[c].dirty
    <3>1. ASSUME NEW c \in Client, reader'[c].pc = "wait" PROVE reader'[c].dirty
      <4>1. reader[c] \in Reader
        BY DEF LogsInv, TypeOK
      <4>2. CASE reader[c].pc \in {"snapshot", "wait", "since"}
        BY <1>7, <4>1, <4>2 DEF Bump, Reader
      <4>3. CASE reader[c].pc \notin {"snapshot", "wait", "since"}
        BY <1>7, <3>1, <4>3 DEF Bump
      <4>4. QED  BY <4>2, <4>3
    <3>2. QED  BY <3>1
  <2>2. QED  BY <2>1 DEF WaitsAtTheEnd
<1>8. ASSUME NEW w \in Worker, Fail(w) PROVE WaitsAtTheEnd'
  <2>1. UNCHANGED <<table, reader>> /\ fault = "none"
    BY <1>8 DEF Fail
  <2>2. CASE job[w].to = Audit
    BY <1>8, <2>2 DEF Fail, WaitsAtTheEnd, Owed
  <2>3. CASE job[w].to # Audit
    <3>1. Owed => Owed'
      BY <1>0, <1>8, <2>1, <2>3 DEF Fail, Return, Owed
    <3>2. QED  BY <2>1, <3>1, QuietKeeps DEF table, Rows, Drawn
  <2>4. QED  BY <2>2, <2>3
<1>9. ASSUME NEW c \in Client,
             Subscribe(c) \/ Snapshot(c) \/ Changed(c) \/ Since(c) \/ ListAuditLog(c) \/ Page(c)
      PROVE  WaitsAtTheEnd'
  BY <1>9, ReaderKeeps
<1>10. CASE Age
  BY <1>10, QuietKeeps DEF Age, Rows, Drawn, Owed
<1>11. CASE Crash
  BY <1>11 DEF Crash, Closed, WaitsAtTheEnd
<1>12. CASE UNCHANGED vars
  BY <1>12, QuietKeeps DEF vars, Rows, Drawn, Owed
<1>13. QED
  BY <1>1, <1>2, <1>3, <1>4, <1>5, <1>6, <1>7, <1>8, <1>9, <1>10, <1>11, <1>12 DEF Next

\* "An append landing in the gap is picked up by the next since"
\* (services/mod.rs, audit_stream): however appends, trims, bumps and looks
\* interleave, a stream waits only at the newest entry, unless a bump it has not
\* looked after, an append not yet announced, or a failed statement says why.
THEOREM WaitsAtTheEndHolds == Spec => []WaitsAtTheEnd
<1>1. Init => LogsInv /\ WaitsAtTheEnd
  BY LogsInit, WaitsInit
<1>2. LogsInv /\ WaitsAtTheEnd /\ [Next]_vars => (LogsInv /\ WaitsAtTheEnd)'
  BY LogsNext, WaitsNext
<1>3. QED  BY <1>1, <1>2, PTL DEF Spec

-----------------------------------------------------------------------------
(* What the readers have been sent *)

\* A table's rows past the newest n lie below all of those; and fewer than n
\* are all there are.
LEMMA NewestAbove ==
    ASSUME NEW s \in SUBSET Seqs, NEW n \in Nat \ {0}
    PROVE  /\ \A i \in s \ Newest(s, n), j \in Newest(s, n) : i < j
           /\ Cardinality(Newest(s, n)) < n => Newest(s, n) = s
<1> DEFINE Above(i) == {j \in s : j > i}
<1>1. IsFiniteSet(s) /\ \A i \in s : i \in Nat
  <2>1. IsFiniteSet(1..MaxSeq)
    BY FS_Interval
  <2>2. s \subseteq 1..MaxSeq
    BY DEF Seqs
  <2>3. IsFiniteSet(s)
    BY <2>1, <2>2, FS_Subset
  <2>4. QED  BY <2>2, <2>3
<1>2. \A i : IsFiniteSet(Above(i)) /\ Cardinality(Above(i)) \in Nat
  BY <1>1, FS_Subset, FS_CardinalityType
<1>3. ASSUME NEW i \in s \ Newest(s, n) PROVE Cardinality(Above(i)) >= n
  BY <1>2, <1>3 DEF Newest
<1>4. ASSUME NEW i \in s \ Newest(s, n), NEW j \in Newest(s, n), ~ (i < j) PROVE FALSE
  <2>1. j \in s /\ Cardinality(Above(j)) < n
    BY DEF Newest
  <2>2. Above(i) \subseteq Above(j)
    BY <1>1, <1>4, <2>1
  <2>3. Cardinality(Above(i)) <= Cardinality(Above(j))
    <3> HIDE DEF Above
    <3>1. QED  BY <1>2, <2>2, FS_Subset
  <2>4. QED
    <3> HIDE DEF Above
    <3>1. QED  BY <1>2, <1>3, <2>1, <2>3
<1>5. ASSUME Newest(s, n) # s, Cardinality(Newest(s, n)) < n PROVE FALSE
  <2>1. Newest(s, n) \subseteq s
    BY DEF Newest
  <2>2. s \ Newest(s, n) \in SUBSET Seqs /\ s \ Newest(s, n) # {}
    BY <1>5, <2>1
  <2>3. PICK i \in s \ Newest(s, n) : \A j \in s \ Newest(s, n) : j <= i
    BY <2>2, GreatestSeq
  <2>4. Above(i) \subseteq Newest(s, n)
    BY <1>1, <2>3
  <2>5. Cardinality(Above(i)) <= Cardinality(Newest(s, n)) /\ Cardinality(Newest(s, n)) \in Nat
    <3> HIDE DEF Above
    <3>1. QED  BY <1>1, <2>1, <2>4, FS_Subset, FS_CardinalityType
  <2>6. QED
    <3> HIDE DEF Above
    <3>1. QED  BY <1>2, <1>3, <1>5, <2>5
<1>6. QED  BY <1>4, <1>5

\* What is right of a stream, and of a client that follows the pages.
Unbroken(r) ==
    /\ \A i \in r.seen, j \in r.sent : i < j
    /\ \A i \in Rows(Audit) \ (r.owed \cup r.seen \cup r.sent) :
           i > r.cursor \/ \A j \in r.seen \cup r.sent : i < j

SentOK(r) ==
    /\ r.cursor = 0 \/ r.cursor \in Drawn
    /\ r.pc = "off" => r = Closed
    /\ r.pc = "snapshot" => r.seen = {} /\ r.owed = {}
    /\ r.pc = "since" => r.sent = {}
    /\ r.pc \in {"wait", "since"} =>
           Unbroken(r) /\ \A j \in r.seen \cup r.sent : j <= r.cursor
    /\ r.pc \in {"page", "paged"} => r.owed \subseteq Drawn
    /\ r.pc = "page" => \A i \in r.owed \cap Rows(Audit) \cap Wanted :
                            i \in r.seen \/ r.cursor = 0 \/ i < r.cursor
    /\ r.pc = "paged" => r.owed \cap Rows(Audit) \cap Wanted \subseteq r.seen

ReadInv == \A c \in Client : SentOK(reader[c])

\* A step of the tables: a new entry is above all there ever was.
Grows ==
    /\ Drawn \subseteq Drawn'
    /\ \A i \in Rows(Audit)' \ Rows(Audit) : i \notin Drawn /\ i > 0 /\ \A j \in Drawn : i > j

LEMMA TablesGrow == ASSUME LogsInv, [Next]_vars PROVE Grows
<1>1. ASSUME NEW t \in Table, Insert(t), gone' = gone PROVE Grows
  <2>1. Drawn \subseteq Drawn' /\ \A i \in Drawn : log'[i] = log[i]
    BY <1>1, InsertIs
  <2>2. \A i \in Drawn' \ Drawn : i = Len(log) + 1
    BY <1>1, InsertIs, RowsAre DEF LogsInv
  <2>3. \A j \in Drawn : Len(log) + 1 > j /\ Len(log) + 1 > 0
    BY <1>1, InsertIs, RowsAre DEF LogsInv
  <2>4. ASSUME NEW i \in Rows(Audit)' \ Rows(Audit) PROVE i = Len(log) + 1 /\ i \notin Drawn
    BY <1>1, <2>1, <2>2 DEF Rows
  <2>5. Len(log) + 1 > 0
    BY RowsAre DEF LogsInv
  <2>6. QED  BY <2>1, <2>3, <2>4, <2>5 DEF Grows
<1>2. ASSUME log' = log, gone \subseteq gone' PROVE Grows
  BY <1>2 DEF Grows, Rows, Drawn
<1>3. ASSUME NEW w \in Worker, AppendEntry(w) PROVE Grows
  BY <1>1, <1>3 DEF AppendEntry, Table
<1>4. ASSUME NEW w \in Worker, NEW u \in User, Push(w, u) PROVE Grows
  BY <1>1, <1>4 DEF Push, Table
<1>5. ASSUME /\ ~ \E w \in Worker : AppendEntry(w)
             /\ ~ \E w \in Worker, u \in User : Push(w, u)
      PROVE  log' = log /\ gone \subseteq gone'
  BY <1>5 DEF Next, vars, table, Prune, Count, SelectOldest, Delete, Age, MarkRead, Flip, MarkAllRead,
              FlipAll, Bump, Subscribe, Snapshot, Changed, Since, ListAuditLog, Page, Fail, Crash
<1>6. QED  BY <1>2, <1>3, <1>4, <1>5

\* What was sent to a reader stays right while the tables change.
LEMMA SentKeeps ==
    ASSUME LogsInv, Grows, NEW r \in Reader, SentOK(r)
    PROVE  SentOK(r)'
<1>1. \A i \in Rows(Audit)' : i \in Rows(Audit) \/ (i \notin Drawn /\ i > 0 /\ \A j \in Drawn : i > j)
  BY DEF Grows
<1>2. Unbroken(r) => Unbroken(r)'
  BY <1>1 DEF Unbroken, SentOK
<1>3. r.owed \subseteq Drawn => \A i \in r.owed : i \in Rows(Audit)' => i \in Rows(Audit)
  BY <1>1
<1>4. r.cursor = 0 \/ r.cursor \in Drawn'
  BY DEF SentOK, Grows
<1>5. /\ r.pc = "off" => r = Closed
      /\ r.pc = "snapshot" => r.seen = {} /\ r.owed = {}
      /\ r.pc = "since" => r.sent = {}
      /\ r.pc \in {"wait", "since"} =>
             Unbroken(r)' /\ \A j \in r.seen \cup r.sent : j <= r.cursor
  BY <1>2 DEF SentOK
<1>6. /\ r.pc \in {"page", "paged"} => r.owed \subseteq Drawn'
      /\ r.pc = "page" => \A i \in r.owed \cap Rows(Audit)' \cap Wanted :
                              i \in r.seen \/ r.cursor = 0 \/ i < r.cursor
      /\ r.pc = "paged" => r.owed \cap Rows(Audit)' \cap Wanted \subseteq r.seen
  BY <1>3 DEF SentOK, Grows
<1>7. QED  BY <1>4, <1>5, <1>6 DEF SentOK, Closed

LEMMA ClosedOK == SentOK(Closed)
BY DEF SentOK, Closed, Unbroken

\* One reader goes on, the tables as they were.
LEMMA OneReads ==
    ASSUME LogsInv, ReadInv, NEW c \in Client, NEW r, SentOK(r),
           reader' = [reader EXCEPT ![c] = r], UNCHANGED table
    PROVE  ReadInv'
<1>1. reader \in [Client -> Reader]
  BY DEF LogsInv, TypeOK
<1>2. ASSUME NEW d \in Client PROVE SentOK(reader'[d])
  BY <1>1, <1>2 DEF ReadInv
<1>3. QED  BY <1>2 DEF ReadInv, SentOK, Unbroken, Rows, Drawn, table

LEMMA SnapshotReads == ASSUME LogsInv, ReadInv, NEW c \in Client, Snapshot(c) PROVE ReadInv'
<1> DEFINE rows == Rows(Audit)
           r == [reader[c] EXCEPT !.pc = "wait", !.sent = Newest(rows, Limit),
                                  !.cursor = Highest(rows)]
<1>1. reader[c] \in Reader /\ rows \in SUBSET Seqs /\ rows \subseteq Drawn
  BY RowsAre DEF LogsInv, TypeOK
<1>2. reader' = [reader EXCEPT ![c] = r] /\ UNCHANGED table
  BY DEF Snapshot
<1>3. reader[c].seen = {} /\ reader[c].owed = {}
  BY DEF ReadInv, SentOK, Snapshot
<1>4. /\ r.pc = "wait" /\ r.seen = {} /\ r.owed = {} /\ r.sent = Newest(rows, Limit)
      /\ r.cursor = Highest(rows)
  BY <1>1, <1>3 DEF Reader
<1>5. /\ Newest(rows, Limit) \subseteq rows
      /\ \A i \in rows \ Newest(rows, Limit), j \in Newest(rows, Limit) : i < j
  <2> HIDE DEF rows
  <2>1. QED  BY <1>1, NewestHasHighest, NewestAbove
<1>6. (Highest(rows) = 0 \/ Highest(rows) \in rows) /\ \A j \in rows : j <= Highest(rows)
  <2>1. CASE rows = {}
    BY <2>1 DEF Highest
  <2>2. CASE rows # {}
    <3> HIDE DEF rows
    <3>1. QED  BY <1>1, <2>2, HighestIs
  <2>3. QED  BY <2>1, <2>2
<1>7. Unbroken(r)
  <2> HIDE DEF r
  <2>1. QED  BY <1>4, <1>5 DEF Unbroken
<1>8. SentOK(r)
  <2> HIDE DEF r, rows
  <2>1. QED  BY <1>1, <1>4, <1>5, <1>6, <1>7 DEF SentOK
<1>9. QED
  <2> HIDE DEF r
  <2>1. QED  BY <1>2, <1>8, OneReads

LEMMA ChangedReads == ASSUME LogsInv, ReadInv, NEW c \in Client, Changed(c) PROVE ReadInv'
<1> DEFINE r == [reader[c] EXCEPT !.pc = "since", !.dirty = FALSE,
                      !.seen = reader[c].seen \cup reader[c].sent, !.sent = {}]
<1>1. reader[c] \in Reader /\ SentOK(reader[c]) /\ reader[c].pc = "wait"
  BY DEF LogsInv, TypeOK, ReadInv, Changed
<1>2. reader' = [reader EXCEPT ![c] = r] /\ UNCHANGED table
  BY DEF Changed
<1>3. /\ r.pc = "since" /\ r.seen = reader[c].seen \cup reader[c].sent /\ r.sent = {}
      /\ r.cursor = reader[c].cursor /\ r.owed = reader[c].owed
  BY <1>1 DEF Reader
<1>4. SentOK(r)
  <2> HIDE DEF r
  <2>1. QED  BY <1>1, <1>3 DEF SentOK, Unbroken
<1>5. QED
  <2> HIDE DEF r
  <2>1. QED  BY <1>2, <1>4, OneReads

\* The batch follows on the cursor; what a batch past SINCE_CAP leaves is owed.
LEMMA SinceReads == ASSUME LogsInv, ReadInv, NEW c \in Client, Since(c) PROVE ReadInv'
<1> DEFINE old == reader[c]
           after == After(old.cursor)
           batch == Newest(after, SinceCap)
           r == [old EXCEPT !.pc = "wait", !.sent = batch, !.cursor = Resume(batch, old.cursor),
                            !.owed = old.owed \cup (after \ batch)]
<1>1. old \in Reader /\ SentOK(old) /\ old.pc = "since" /\ old.sent = {}
  BY DEF LogsInv, TypeOK, ReadInv, Since, SentOK
<1>2. reader' = [reader EXCEPT ![c] = r] /\ UNCHANGED table
  BY DEF Since
<1>3. /\ r.pc = "wait" /\ r.seen = old.seen /\ r.sent = batch
      /\ r.cursor = Resume(batch, old.cursor) /\ r.owed = old.owed \cup (after \ batch)
  BY <1>1 DEF Reader
<1>4. /\ Rows(Audit) \in SUBSET Seqs /\ Rows(Audit) \subseteq Drawn /\ Rows(Audit) \subseteq Nat
      /\ after \subseteq Rows(Audit) /\ old.cursor \in Nat /\ Drawn \subseteq Nat
  BY <1>1, RowsAre DEF LogsInv, TypeOK, Seqs, After, Reader
<1>5. batch \subseteq after
  <2> HIDE DEF after
  <2>1. QED  BY <1>4, NewestHasHighest
<1>6. /\ Resume(batch, old.cursor) = 0 \/ Resume(batch, old.cursor) \in Drawn
      /\ Resume(batch, old.cursor) >= old.cursor
      /\ \A j \in batch : j <= Resume(batch, old.cursor)
  <2>1. CASE batch = {}
    BY <1>1, <1>4, <2>1 DEF Resume, SentOK
  <2>2. CASE batch # {}
    <3>1. Resume(batch, old.cursor) \in batch /\ \A j \in batch : j <= Resume(batch, old.cursor)
      <4> HIDE DEF batch, old
      <4>1. QED  BY <1>4, <1>5, <2>2, HighestIs DEF Resume
    <3>2. Resume(batch, old.cursor) \in Rows(Audit) /\ Resume(batch, old.cursor) > old.cursor
      <4> HIDE DEF batch
      <4>1. QED  BY <1>5, <3>1 DEF After
    <3>3. QED  BY <1>4, <3>1, <3>2
  <2>3. QED  BY <2>1, <2>2
<1>7. \A j \in batch : j \in Nat /\ j > old.cursor
  BY <1>4, <1>5 DEF After
<1>8. \A j \in old.seen : j <= old.cursor /\ j \in Nat
  BY <1>1 DEF SentOK, Reader, Seqs
<1>9. Unbroken(r)
  <2>1. \A i \in r.seen, j \in r.sent : i < j
    <3> HIDE DEF r, batch, old
    <3>1. QED  BY <1>3, <1>4, <1>7, <1>8
  <2>2. ASSUME NEW i \in Rows(Audit) \ (r.owed \cup r.seen \cup r.sent)
        PROVE  \A j \in r.seen \cup r.sent : i < j
    <3>1. i \in Rows(Audit) \ (old.owed \cup old.seen) /\ i \notin after
      BY <1>3, <2>2
    <3>2. ~ (i > old.cursor)
      BY <3>1 DEF After
    <3>3. \A j \in old.seen : i < j
      BY <1>1, <3>1, <3>2 DEF SentOK, Unbroken
    <3>4. \A j \in batch : i < j
      <4> HIDE DEF batch, old
      <4>1. QED  BY <1>4, <1>7, <3>1, <3>2
    <3>5. QED  BY <1>3, <3>3, <3>4
  <2>3. QED  BY <2>1, <2>2 DEF Unbroken
<1>10. SentOK(r)
  <2>1. \A j \in r.seen \cup r.sent : j <= r.cursor
    <3> HIDE DEF r, batch, old
    <3>1. r.cursor \in Nat
      <4>1. Resume(batch, old.cursor) \in Nat
        <5>1. Drawn \subseteq Nat
          BY <1>4
        <5>2. CASE Resume(batch, old.cursor) = 0
          BY <5>2
        <5>3. CASE Resume(batch, old.cursor) \in Drawn
          BY <5>1, <5>3
        <5>4. QED  BY <1>6, <5>2, <5>3
      <4>2. QED  BY <1>3, <4>1
    <3>2. QED  BY <1>3, <1>4, <1>6, <1>8, <3>1
  <2> HIDE DEF r, batch, old
  <2>2. QED  BY <1>3, <1>6, <1>9, <2>1 DEF SentOK
<1>11. QED
  <2> HIDE DEF r
  <2>1. QED  BY <1>2, <1>10, OneReads

\* A full page ends above what is still to come; a short one is the last.
LEMMA PageReads == ASSUME LogsInv, ReadInv, NEW c \in Client, Page(c) PROVE ReadInv'
<1> DEFINE old == reader[c]
           before == Before(old.cursor)
           page == Newest(before, Limit)
           next == NextCursor(page)
           r == [old EXCEPT !.pc = IF next = 0 THEN "paged" ELSE "page", !.cursor = next,
                            !.seen = old.seen \cup (page \cap Wanted)]
<1>1. old \in Reader /\ SentOK(old) /\ old.pc = "page"
  BY DEF LogsInv, TypeOK, ReadInv, Page
<1>2. reader' = [reader EXCEPT ![c] = r] /\ UNCHANGED table
  BY DEF Page
<1>3. /\ r.pc = IF next = 0 THEN "paged" ELSE "page"
      /\ r.cursor = next /\ r.seen = old.seen \cup (page \cap Wanted) /\ r.owed = old.owed
  BY <1>1 DEF Reader
<1>4. /\ Rows(Audit) \subseteq Drawn /\ before \subseteq Rows(Audit)
      /\ before \in SUBSET Seqs
  BY RowsAre DEF LogsInv, Before
<1>5. /\ page \subseteq before
      /\ \A i \in before \ page, j \in page : i < j
      /\ Cardinality(page) < Limit => page = before
  <2> HIDE DEF before
  <2>1. QED  BY <1>4, NewestHasHighest, NewestAbove
<1>6. next # 0 => next \in page
  <2>1. CASE page = {}
    BY <2>1, FS_EmptySet DEF NextCursor
  <2>2. CASE page # {}
    <3>1. \E i \in page : \A j \in page : i <= j
      <4> HIDE DEF page
      <4>1. QED  BY <1>4, <1>5, <2>2, LeastExists
    <3>2. QED  BY <2>2, <3>1 DEF NextCursor, Lowest
  <2>3. QED  BY <2>1, <2>2
<1>7. next = 0 => page = before
  <2>1. CASE Cardinality(page) < Limit
    BY <1>5, <2>1
  <2>2. CASE ~ (Cardinality(page) < Limit)
    <3>1. page # {}
      BY <2>2, FS_EmptySet
    <3>2. \E i \in page : \A j \in page : i <= j
      <4> HIDE DEF page
      <4>1. QED  BY <1>4, <1>5, <3>1, LeastExists
    <3>3. next \in page
      BY <2>2, <3>1, <3>2 DEF NextCursor, Lowest
    <3>4. \A i \in page : i # 0
      BY <1>4, <1>5 DEF Seqs
    <3>5. QED  BY <3>3, <3>4
  <2>3. QED  BY <2>1, <2>2
<1>8. ASSUME NEW i \in old.owed \cap Rows(Audit) \cap Wanted
      PROVE  i \in r.seen \/ (i \in before \ page)
  <2>1. i \in old.seen \/ i \in before
    BY <1>1, <1>8 DEF SentOK, Before
  <2>2. QED  BY <1>3, <1>8, <2>1
<1>9. SentOK(r)
  <2>1. (r.cursor = 0 \/ r.cursor \in Drawn) /\ r.owed \subseteq Drawn
    <3>1. old.owed \subseteq Drawn
      BY <1>1 DEF SentOK
    <3> HIDE DEF r, next, page, before, old
    <3>2. QED  BY <1>3, <1>4, <1>5, <1>6, <3>1
  <2>2. ASSUME next # 0, NEW i \in old.owed \cap Rows(Audit) \cap Wanted
        PROVE  i \in r.seen \/ i < next
    <3> HIDE DEF r, next, page, before, old
    <3>1. QED  BY <1>5, <1>6, <1>8, <2>2
  <2>3. ASSUME next = 0, NEW i \in old.owed \cap Rows(Audit) \cap Wanted PROVE i \in r.seen
    <3> HIDE DEF r, next, page, before, old
    <3>1. QED  BY <1>7, <1>8, <2>3
  <2> HIDE DEF r, next, page, before, old
  <2>4. QED  BY <1>3, <2>1, <2>2, <2>3 DEF SentOK
<1>10. QED
  <2> HIDE DEF r
  <2>1. QED  BY <1>2, <1>9, OneReads

LEMMA StartReads ==
    ASSUME LogsInv, ReadInv, NEW c \in Client, Subscribe(c) \/ ListAuditLog(c)
    PROVE  ReadInv'
<1>1. reader[c] = Closed /\ UNCHANGED table
  BY DEF ReadInv, SentOK, Subscribe, ListAuditLog
<1>2. CASE Subscribe(c)
  <2> DEFINE r == [Closed EXCEPT !.pc = "snapshot"]
  <2>1. SentOK(r)
    BY DEF Closed, SentOK
  <2>2. reader' = [reader EXCEPT ![c] = r]
    BY <1>1, <1>2 DEF Subscribe
  <2> HIDE DEF r
  <2>3. QED  BY <1>1, <2>1, <2>2, OneReads
<1>3. CASE ListAuditLog(c)
  <2> DEFINE r == [Closed EXCEPT !.pc = "page", !.owed = Rows(Audit)]
  <2>1. r.pc = "page" /\ r.owed = Rows(Audit) /\ r.cursor = 0
    BY DEF Closed
  <2>2. SentOK(r)
    <3> HIDE DEF r
    <3>1. QED  BY <2>1 DEF SentOK, Rows
  <2>3. reader' = [reader EXCEPT ![c] = r]
    BY <1>1, <1>3 DEF ListAuditLog
  <2> HIDE DEF r
  <2>4. QED  BY <1>1, <2>2, <2>3, OneReads
<1>4. QED  BY <1>2, <1>3

\* A bump tells the streams to look again, and nothing else.
LEMMA BumpReads == ASSUME LogsInv, ReadInv, NEW w \in Worker, Bump(w) PROVE ReadInv'
<1>1. UNCHANGED table
  BY DEF Bump
<1>2. ASSUME NEW c \in Client PROVE SentOK(reader'[c])
  <2>1. reader[c] \in Reader /\ SentOK(reader[c])
    BY DEF LogsInv, TypeOK, ReadInv
  <2>2. CASE reader[c].pc \in {"snapshot", "wait", "since"}
    <3> DEFINE r == [reader[c] EXCEPT !.dirty = TRUE]
    <3>1. reader'[c] = r
      BY <2>2 DEF Bump
    <3>2. /\ r.pc = reader[c].pc /\ r.cursor = reader[c].cursor /\ r.seen = reader[c].seen
          /\ r.sent = reader[c].sent /\ r.owed = reader[c].owed
      BY <2>1 DEF Reader
    <3>3. SentOK(r)
      <4> HIDE DEF r
      <4>1. QED  BY <2>1, <2>2, <3>2 DEF SentOK, Unbroken
    <3>4. QED  BY <3>1, <3>3
  <2>3. CASE reader[c].pc \notin {"snapshot", "wait", "since"}
    BY <2>1, <2>3 DEF Bump
  <2>4. QED  BY <2>2, <2>3
<1>3. QED  BY <1>1, <1>2 DEF ReadInv, SentOK, Unbroken, Rows, Drawn, table

LEMMA ReadNext == LogsInv /\ ReadInv /\ [Next]_vars => ReadInv'
<1> SUFFICES ASSUME LogsInv, ReadInv, [Next]_vars PROVE ReadInv'
  OBVIOUS
<1>1. ASSUME reader' = reader PROVE ReadInv'
  <2>1. ASSUME NEW c \in Client PROVE SentOK(reader[c])'
    <3>1. reader[c] \in Reader /\ SentOK(reader[c])
      BY DEF LogsInv, TypeOK, ReadInv
    <3> DEFINE r == reader[c]
    <3>2. r' = r
      BY <1>1
    <3>3. ASSUME NEW q \in Reader, SentOK(q) PROVE SentOK(q)'
      BY <3>3, TablesGrow, SentKeeps
    <3>4. QED  BY <3>1, <3>2, <3>3 DEF SentOK, Unbroken
  <2>2. QED  BY <2>1 DEF ReadInv
<1>2. CASE Crash
  <2>1. \A c \in Client : reader'[c] = Closed
    BY <1>2 DEF Crash
  <2>2. QED  BY <1>2, <2>1, ClosedOK DEF ReadInv, SentOK, Unbroken, Crash, table, Rows, Drawn
<1>3. ASSUME /\ ~ Crash /\ ~ \E w \in Worker : Bump(w)
             /\ ~ \E c \in Client : Subscribe(c) \/ Snapshot(c) \/ Changed(c) \/ Since(c)
                                        \/ ListAuditLog(c) \/ Page(c)
      PROVE  reader' = reader
  BY <1>3 DEF Next, vars, table, AppendEntry, Push, Prune, Count, SelectOldest, Delete, Age, MarkRead,
              Flip, MarkAllRead, FlipAll, Fail
<1>4. QED
  BY <1>1, <1>2, <1>3, BumpReads, StartReads, SnapshotReads, ChangedReads, SinceReads, PageReads

LEMMA ReadHolds == Spec => [](LogsInv /\ ReadInv)
<1>1. Init => LogsInv /\ ReadInv
  <2>1. Init => ReadInv
    BY ClosedOK DEF Init, ReadInv
  <2>2. QED  BY <2>1, LogsInit
<1>2. LogsInv /\ ReadInv /\ [Next]_vars => (LogsInv /\ ReadInv)'
  BY LogsNext, ReadNext
<1>3. QED  BY <1>1, <1>2, PTL DEF Spec

\* What a stream's client has is an unbroken run up to its cursor, in the order
\* the entries were made and none twice, whatever is appended and pruned between
\* its looks; only SINCE_CAP cuts a burst, at its oldest end (services/mod.rs
\* audit_stream, db/audit.rs since).
THEOREM FeedUnbrokenHolds == Spec => []FeedUnbroken
<1>1. LogsInv /\ ReadInv => FeedUnbroken
  BY DEF ReadInv, SentOK, Unbroken, FeedUnbroken
<1>2. QED  BY <1>1, ReadHolds, PTL

\* A client that follows next_cursor to the end has had every matching entry
\* that was there from first to last, for any page size and any filter, whatever
\* is appended and pruned between its pages (services/firmware.rs
\* list_audit_log, db/audit.rs page).
THEOREM PagesCompleteHolds == Spec => []PagesComplete
<1>1. LogsInv /\ ReadInv => PagesComplete
  BY DEF ReadInv, SentOK, PagesComplete
<1>2. QED  BY <1>1, ReadHolds, PTL

-----------------------------------------------------------------------------
(* Trims never reach the newest rows *)

Most == Cardinality(Worker)

Trimming == {"prune", "count", "oldest", "delete"}

InFlight(t) == {w \in Worker : job[w].pc \in Trimming /\ job[w].to = t}

\* Those that have counted a surplus.
Trimmers(t) == {w \in Worker : job[w].pc \in {"oldest", "delete"} /\ job[w].to = t}

\* Of the rows s, how many the trim j still takes, and how many it would leave.
Takes(s, j) == IF j.pc = "oldest" THEN j.arg ELSE Cardinality({i \in s : i <= j.arg})

Left(s, j) == Cardinality(s) - Takes(s, j)

\* Of any set of trims that have counted, one leaves no more than the cap and the
\* rows of those that will count later.
Over(t) ==
    \A s \in SUBSET Trimmers(t) :
        LET n == MaxRows + Cardinality(InFlight(t) \ s)
        IN  Cardinality(Rows(t)) <= n \/ \E w \in s : Left(Rows(t), job[w]) <= n

\* The last to have counted counted right: what it leaves falls short of the cap
\* only by what the trims that were under way then have taken since.
Short(t) ==
    Trimmers(t) # {} =>
        \E w \in Trimmers(t) :
            Left(Rows(t), job[w]) >= MaxRows + Most * Cardinality(Trimmers(t)) - Most * Most

TrimOK(t, w) ==
    /\ w \in Trimmers(t) => Takes(Rows(t), job[w]) <= Most
    /\ w \in Trimmers(t) /\ job[w].pc = "oldest" => job[w].arg > 0
    /\ w \in Trimmers(t) /\ job[w].pc = "delete" => job[w].arg \in Drawn
    /\ t = Audit /\ w \in InFlight(t) /\ job[w].pc # "prune" => \A i \in Rows(t) : i > aged

Ever(t) == {i \in Drawn : log[i] = t}

Kept(t) == \A i \in Newest(Ever(t), Spared) : i \in gone => t = Audit /\ i <= aged

TableOK(t) == Over(t) /\ Short(t) /\ Kept(t) /\ \A w \in Worker : TrimOK(t, w)

TrimInv == fault = "none" => \A t \in Table : TableOK(t)

LEMMA MostIs ==
    /\ Most \in Nat /\ Spared \in Int
    /\ \A s \in SUBSET Worker : IsFiniteSet(s) /\ Cardinality(s) \in 0..Most
<1>1. Most \in Nat
  BY FS_CardinalityType DEF Most
<1>2. ASSUME NEW s \in SUBSET Worker PROVE IsFiniteSet(s) /\ Cardinality(s) \in 0..Most
  BY <1>1, FS_Subset, FS_CardinalityType DEF Most
<1>3. Spared \in Int
  BY <1>1 DEF Spared, Most
<1>4. QED  BY <1>1, <1>2, <1>3

LEMMA SetsAre ==
    ASSUME LogsInv, NEW t
    PROVE  /\ IsFiniteSet(Rows(t)) /\ Cardinality(Rows(t)) \in Nat
           /\ Rows(t) \subseteq Nat /\ Rows(t) \subseteq Drawn
           /\ IsFiniteSet(Ever(t)) /\ Ever(t) \subseteq Nat
           /\ InFlight(t) \subseteq Worker /\ Trimmers(t) \subseteq InFlight(t)
           /\ Cardinality(InFlight(t)) \in 0..Most /\ Cardinality(Trimmers(t)) \in 0..Most
<1>1. IsFiniteSet(Seqs) /\ Seqs \subseteq Nat
  BY FS_Interval DEF Seqs
<1>2. Rows(t) \subseteq Drawn /\ Ever(t) \subseteq Drawn /\ Drawn \subseteq Seqs
  BY RowsAre DEF LogsInv, Ever
<1>3. IsFiniteSet(Rows(t)) /\ IsFiniteSet(Ever(t))
  BY <1>1, <1>2, FS_Subset
<1>4. InFlight(t) \subseteq Worker /\ Trimmers(t) \subseteq InFlight(t)
  BY DEF InFlight, Trimmers, Trimming
<1>5. QED  BY <1>1, <1>2, <1>3, <1>4, MostIs, FS_CardinalityType

LEMMA TakesIs ==
    ASSUME NEW s \in SUBSET Nat, IsFiniteSet(s), NEW j, j.arg \in Nat
    PROVE  /\ Takes(s, j) \in Nat /\ Left(s, j) \in Int /\ Cardinality(s) \in Nat
           /\ Left(s, j) <= Cardinality(s)
           /\ j.pc # "oldest" => Left(s, j) = Cardinality({i \in s : i > j.arg})
<1> DEFINE low == {i \in s : i <= j.arg}
           high == {i \in s : i > j.arg}
<1>1. low \cup high = s /\ low \cap high = {}
  <2>1. \A i \in s : (i <= j.arg \/ i > j.arg) /\ ~ (i <= j.arg /\ i > j.arg)
    OBVIOUS
  <2>2. QED  BY <2>1
<1>2. IsFiniteSet(low) /\ IsFiniteSet(high)
  BY FS_Subset
<1>3. Cardinality(low) \in Nat /\ Cardinality(high) \in Nat /\ Cardinality(s) \in Nat
  BY <1>2, FS_CardinalityType
<1>4. Cardinality(s) = Cardinality(low) + Cardinality(high)
  <2> HIDE DEF low, high
  <2>1. Cardinality(low \cap high) = 0
    BY <1>1, FS_EmptySet
  <2>2. Cardinality(low \cup high) = Cardinality(low) + Cardinality(high) - Cardinality(low \cap high)
    BY <1>2, FS_Union
  <2>3. Cardinality(low \cup high) = Cardinality(s)
    BY <1>1
  <2>4. QED  BY <1>3, <2>1, <2>2, <2>3
<1>5. Takes(s, j) = IF j.pc = "oldest" THEN j.arg ELSE Cardinality(low)
  BY DEF Takes
<1>6. Left(s, j) = Cardinality(s) - Takes(s, j)
  BY DEF Left
<1> HIDE DEF low, high
<1>7. /\ Takes(s, j) \in Nat /\ Left(s, j) \in Int /\ Cardinality(s) \in Nat
      /\ Left(s, j) <= Cardinality(s)
      /\ j.pc # "oldest" => Left(s, j) = Cardinality(high)
  BY <1>3, <1>4, <1>5, <1>6
<1>8. QED  BY <1>7 DEF high

\* Of fewer rows a trim takes no more and leaves no more.
LEMMA TakesFewer ==
    ASSUME NEW s \in SUBSET Nat, IsFiniteSet(s), NEW r \in SUBSET s, NEW j, j.arg \in Nat
    PROVE  /\ Takes(r, j) <= Takes(s, j) /\ Left(r, j) <= Left(s, j)
           /\ Cardinality(r) <= Cardinality(s) /\ IsFiniteSet(r)
<1>1. /\ IsFiniteSet(r) /\ r \in SUBSET Nat
      /\ IsFiniteSet({i \in s : i > j.arg}) /\ IsFiniteSet({i \in s : i <= j.arg})
  BY FS_Subset
<1>2. {i \in r : i > j.arg} \subseteq {i \in s : i > j.arg}
      /\ {i \in r : i <= j.arg} \subseteq {i \in s : i <= j.arg}
  OBVIOUS
<1>3. /\ Cardinality({i \in r : i > j.arg}) <= Cardinality({i \in s : i > j.arg})
      /\ Cardinality({i \in r : i <= j.arg}) <= Cardinality({i \in s : i <= j.arg})
      /\ Cardinality(r) <= Cardinality(s)
  BY <1>1, <1>2, FS_Subset
<1>4. Takes(r, j) <= Takes(s, j)
  BY <1>3 DEF Takes
<1>5. CASE j.pc = "oldest"
  <2>1. Left(r, j) = Cardinality(r) - j.arg /\ Left(s, j) = Cardinality(s) - j.arg
    BY <1>5 DEF Left, Takes
  <2>2. Cardinality(r) \in Nat /\ Cardinality(s) \in Nat
    BY <1>1, TakesIs
  <2>3. QED  BY <1>1, <1>3, <1>4, <2>1, <2>2
<1>6. CASE j.pc # "oldest"
  BY <1>1, <1>3, <1>4, <1>6, TakesIs
<1>7. QED  BY <1>5, <1>6

LEMMA ArgIs == ASSUME LogsInv, NEW w \in Worker PROVE job[w] \in Job /\ job[w].arg \in Nat
BY DEF LogsInv, TypeOK, Job

\* What becomes of the sets of trims when w goes on as j.
LEMMA TrimsAre ==
    ASSUME LogsInv, NEW w \in Worker, NEW j, job' = [job EXCEPT ![w] = j], NEW t
    PROVE  /\ job'[w] = j /\ \A v \in Worker \ {w} : job'[v] = job[v]
           /\ InFlight(t)' = IF j.pc \in Trimming /\ j.to = t THEN InFlight(t) \cup {w}
                                                               ELSE InFlight(t) \ {w}
           /\ Trimmers(t)' = IF j.pc \in {"oldest", "delete"} /\ j.to = t
                                THEN Trimmers(t) \cup {w} ELSE Trimmers(t) \ {w}
<1>1. job'[w] = j /\ \A v \in Worker \ {w} : job'[v] = job[v]
  BY DEF LogsInv, TypeOK
<1>2. /\ InFlight(t)' = {v \in Worker : job'[v].pc \in Trimming /\ job'[v].to = t}
      /\ Trimmers(t)' = {v \in Worker : job'[v].pc \in {"oldest", "delete"} /\ job'[v].to = t}
  BY DEF InFlight, Trimmers, Trimming
<1>3. QED  BY <1>1, <1>2 DEF InFlight, Trimmers

\* Nothing happens to the table.
LEMMA SameTrims ==
    ASSUME NEW t, Over(t), Short(t), Rows(t)' = Rows(t),
           InFlight(t)' = InFlight(t), Trimmers(t)' = Trimmers(t),
           \A w \in Trimmers(t) : job'[w] = job[w]
    PROVE  Over(t)' /\ Short(t)'
BY DEF Over, Short

\* A row is inserted.
LEMMA InsertTrims ==
    ASSUME LogsInv, NEW t, Over(t), Short(t),
           NEW x \in Nat \ Rows(t), Rows(t)' = Rows(t) \cup {x},
           NEW w \in Worker \ InFlight(t), InFlight(t)' = InFlight(t) \cup {w},
           Trimmers(t)' = Trimmers(t),
           \A v \in Trimmers(t) : job'[v] = job[v] /\ (job[v].pc = "delete" => job[v].arg < x)
    PROVE  /\ Over(t)' /\ Short(t)'
           /\ \A v \in Trimmers(t) : Takes(Rows(t)', job'[v]) = Takes(Rows(t), job[v])
<1> DEFINE r == Rows(t)
           q == Rows(t) \cup {x}
<1>1. /\ IsFiniteSet(r) /\ r \in SUBSET Nat /\ Trimmers(t) \subseteq InFlight(t)
      /\ InFlight(t) \subseteq Worker
  BY SetsAre
<1>2. Cardinality(q) = Cardinality(r) + 1 /\ Cardinality(r) \in Nat
  BY <1>1, FS_AddElement, FS_CardinalityType
<1>3. ASSUME NEW v \in Trimmers(t)
      PROVE  /\ Takes(q, job[v]) = Takes(r, job[v]) /\ Left(q, job[v]) = Left(r, job[v]) + 1
             /\ Left(r, job[v]) \in Int
  <2>1. v \in Worker /\ job[v].arg \in Nat /\ (job[v].pc # "oldest" => job[v].arg < x)
    BY <1>1, <1>3, ArgIs DEF Trimmers
  <2>2. job[v].pc # "oldest" => {i \in q : i <= job[v].arg} = {i \in r : i <= job[v].arg}
    BY <1>1, <2>1
  <2>3. Takes(q, job[v]) = Takes(r, job[v])
    BY <2>2 DEF Takes
  <2>4. Takes(r, job[v]) \in Nat
    BY <1>1, <2>1, TakesIs
  <2>5. QED  BY <1>2, <2>3, <2>4 DEF Left
<1>4. Over(t)'
  <2>0. Over(t)' <=>
            \A s \in SUBSET Trimmers(t)' :
                \/ Cardinality(Rows(t)') <= MaxRows + Cardinality(InFlight(t)' \ s)
                \/ \E v \in s : Left(Rows(t)', job'[v]) <= MaxRows + Cardinality(InFlight(t)' \ s)
    BY DEF Over
  <2> SUFFICES ASSUME NEW s \in SUBSET Trimmers(t)
               PROVE  \/ Cardinality(q) <= MaxRows + Cardinality((InFlight(t) \cup {w}) \ s)
                      \/ \E v \in s : Left(q, job[v]) <=
                                MaxRows + Cardinality((InFlight(t) \cup {w}) \ s)
    BY <2>0
  <2> DEFINE f == InFlight(t) \ s
  <2>1. (InFlight(t) \cup {w}) \ s = f \cup {w} /\ w \notin f /\ f \in SUBSET Worker
    BY <1>1
  <2>2. Cardinality(f \cup {w}) = Cardinality(f) + 1 /\ Cardinality(f) \in Nat
    <3> HIDE DEF f
    <3> QED  BY <2>1, MostIs, FS_AddElement
  <2>3. Cardinality(r) <= MaxRows + Cardinality(f)
        \/ \E v \in s : Left(r, job[v]) <= MaxRows + Cardinality(f)
    BY DEF Over
  <2>4. CASE Cardinality(r) <= MaxRows + Cardinality(f)
    <3> HIDE DEF q, r, f
    <3>1. Cardinality(q) <= MaxRows + Cardinality(f \cup {w})
      BY <1>2, <2>2, <2>4
    <3>2. QED  BY <2>1, <3>1
  <2>5. CASE \E v \in s : Left(r, job[v]) <= MaxRows + Cardinality(f)
    <3>1. PICK v \in s : Left(r, job[v]) <= MaxRows + Cardinality(f)
      BY <2>5
    <3>2. Left(q, job[v]) = Left(r, job[v]) + 1 /\ Left(r, job[v]) \in Int
      BY <1>3
    <3> HIDE DEF q, r, f
    <3>3. Left(q, job[v]) <= MaxRows + Cardinality(f \cup {w})
      BY <2>2, <3>1, <3>2
    <3>4. QED  BY <2>1, <3>3
  <2>6. QED  BY <2>3, <2>4, <2>5
<1>5. Short(t)'
  <2> DEFINE least == MaxRows + Most * Cardinality(Trimmers(t)) - Most * Most
  <2>1. least \in Int
    BY <1>1, SetsAre, MostIs
  <2>2. Trimmers(t) # {} => \E v \in Trimmers(t) : Left(r, job[v]) >= least
    BY DEF Short
  <2>3. Trimmers(t) # {} => \E v \in Trimmers(t) : Left(q, job[v]) >= least
    <3> HIDE DEF r, q, least
    <3> QED  BY <1>3, <2>1, <2>2
  <2>4. QED  BY <2>3 DEF Short
<1>6. QED  BY <1>3, <1>4, <1>5

\* Rows go while nobody has a surplus in hand.
LEMMA PruneTrims ==
    ASSUME LogsInv, NEW t, Over(t), Trimmers(t) = {}, Rows(t)' \subseteq Rows(t),
           InFlight(t)' = InFlight(t), Trimmers(t)' = {}
    PROVE  Over(t)' /\ Short(t)'
<1>1. Cardinality(Rows(t)') <= Cardinality(Rows(t))
      /\ Cardinality(Rows(t)') \in Nat /\ Cardinality(Rows(t)) \in Nat
  BY SetsAre, FS_Subset, FS_CardinalityType
<1>2. Cardinality(Rows(t)) <= MaxRows + Cardinality(InFlight(t))
  BY DEF Over
<1>3. Cardinality(InFlight(t)) \in Nat
  BY SetsAre, MostIs
<1>4. QED  BY <1>1, <1>2, <1>3 DEF Over, Short

\* A count finds no surplus.
LEMMA EnoughTrims ==
    ASSUME LogsInv, NEW t, Short(t), Cardinality(Rows(t)) <= MaxRows, Rows(t)' = Rows(t),
           Trimmers(t)' = Trimmers(t), \A v \in Trimmers(t) : job'[v] = job[v],
           InFlight(t)' \subseteq Worker
    PROVE  Over(t)' /\ Short(t)'
<1>1. ASSUME NEW s \in SUBSET Trimmers(t)
      PROVE  Cardinality(Rows(t)) <= MaxRows + Cardinality(InFlight(t)' \ s)
  <2>1. Cardinality(InFlight(t)' \ s) \in Nat
    BY MostIs
  <2>2. QED  BY <2>1, SetsAre
<1>2. Over(t)'
  BY <1>1 DEF Over
<1>3. QED  BY <1>2 DEF Short

\* A count finds one: what is left then is the cap.
LEMMA JoinTrims ==
    ASSUME LogsInv, NEW t, Over(t), Rows(t)' = Rows(t), InFlight(t)' = InFlight(t),
           NEW w \in Worker, w \notin Trimmers(t), Trimmers(t)' = Trimmers(t) \cup {w},
           \A v \in Trimmers(t) : job'[v] = job[v], Left(Rows(t), job'[w]) = MaxRows
    PROVE  Over(t)' /\ Short(t)'
<1>1. Over(t)'
  <2> SUFFICES ASSUME NEW s \in SUBSET (Trimmers(t) \cup {w})
               PROVE  \/ Cardinality(Rows(t)) <= MaxRows + Cardinality(InFlight(t) \ s)
                      \/ \E v \in s : Left(Rows(t), job'[v]) <=
                                MaxRows + Cardinality(InFlight(t) \ s)
    BY DEF Over
  <2>1. CASE w \in s
    <3>1. Cardinality(InFlight(t) \ s) \in Nat
      BY SetsAre, MostIs
    <3>2. Left(Rows(t), job'[w]) <= MaxRows + Cardinality(InFlight(t) \ s)
      BY <3>1
    <3>3. QED  BY <2>1, <3>2
  <2>2. CASE w \notin s
    <3>1. s \in SUBSET Trimmers(t)
      BY <2>2
    <3>2. QED  BY <3>1 DEF Over
  <2>3. QED  BY <2>1, <2>2
<1>2. Short(t)'
  <2> DEFINE p == Cardinality(Trimmers(t)')
  <2>1. p \in 0..Most /\ Most \in Nat
    BY SetsAre, MostIs
  <2>2. Most * p <= Most * Most
    <3> HIDE DEF p
    <3> QED  BY <2>1
  <2>3. MaxRows >= MaxRows + Most * p - Most * Most
    <3>1. Most * p \in Nat /\ Most * Most \in Nat
      BY <2>1
    <3> HIDE DEF p
    <3>2. QED  BY <2>2, <3>1
  <2>4. QED  BY <2>3 DEF Short
<1>3. QED  BY <1>1, <1>2

\* A bound is looked up.
LEMMA SelectTrims ==
    ASSUME LogsInv, NEW t, Over(t), Short(t), Rows(t)' = Rows(t), InFlight(t)' = InFlight(t),
           NEW w \in Trimmers(t), Trimmers(t)' = Trimmers(t),
           \A v \in Trimmers(t) \ {w} : job'[v] = job[v],
           NEW o \in Int, NEW n \in Int, o = Left(Rows(t), job[w]), n = Left(Rows(t), job'[w]),
           n >= o, n = o \/ n <= MaxRows
    PROVE  Over(t)' /\ Short(t)'
<1>1. Over(t)'
  <2> SUFFICES ASSUME NEW s \in SUBSET Trimmers(t)
               PROVE  \/ Cardinality(Rows(t)) <= MaxRows + Cardinality(InFlight(t) \ s)
                      \/ \E v \in s : Left(Rows(t), job'[v]) <=
                                MaxRows + Cardinality(InFlight(t) \ s)
    BY DEF Over
  <2>1. \/ Cardinality(Rows(t)) <= MaxRows + Cardinality(InFlight(t) \ s)
        \/ \E v \in s : Left(Rows(t), job[v]) <= MaxRows + Cardinality(InFlight(t) \ s)
    BY DEF Over
  <2>2. Cardinality(InFlight(t) \ s) \in Nat
    BY SetsAre, MostIs
  <2>3. CASE n <= MaxRows /\ w \in s
    <3>1. n <= MaxRows + Cardinality(InFlight(t) \ s)
      BY <2>2, <2>3, MostIs
    <3>2. QED  BY <2>3, <3>1
  <2>4. CASE n = o \/ w \notin s
    BY <2>1, <2>4
  <2>5. QED  BY <2>3, <2>4
<1>2. Short(t)'
  <2> DEFINE least == MaxRows + Most * Cardinality(Trimmers(t)) - Most * Most
  <2>1. least \in Int
    BY SetsAre, MostIs
  <2>2. \E v \in Trimmers(t) : Left(Rows(t), job[v]) >= least
    BY DEF Short
  <2>3. \E v \in Trimmers(t) : Left(Rows(t), job'[v]) >= least
    <3> HIDE DEF least
    <3>1. PICK v \in Trimmers(t) : Left(Rows(t), job[v]) >= least
      BY <2>2
    <3>2. CASE v = w
      BY <2>1, <3>1, <3>2
    <3>3. CASE v # w
      BY <3>1, <3>3
    <3>4. QED  BY <3>2, <3>3
  <2>4. QED  BY <2>3 DEF Short
<1>3. QED  BY <1>1, <1>2

\* A trim is over, and leaves what it would leave.
LEMMA DropTrims ==
    ASSUME LogsInv, NEW t, Over(t), Short(t), Rows(t)' \subseteq Rows(t),
           \A v \in Worker : TrimOK(t, v),
           NEW w \in Trimmers(t), Trimmers(t)' = Trimmers(t) \ {w},
           InFlight(t)' = InFlight(t) \ {w},
           \A v \in Trimmers(t) \ {w} : job'[v] = job[v],
           NEW c, c = Cardinality(Rows(t)'),
           NEW o, o = Left(Rows(t), job[w]),
           c >= o, c = o \/ c <= MaxRows, Cardinality(Rows(t)) - c <= Most
    PROVE  Over(t)' /\ Short(t)'
<1> DEFINE r == Rows(t)
           q == Rows(t)'
<1>1. /\ IsFiniteSet(r) /\ r \in SUBSET Nat /\ q \in SUBSET r
      /\ Trimmers(t) \subseteq InFlight(t) /\ InFlight(t) \subseteq Worker
  BY SetsAre
<1>2. c \in Nat /\ Cardinality(r) \in Nat /\ c <= Cardinality(r) /\ o \in Int
  BY <1>1, ArgIs, TakesIs, FS_Subset, FS_CardinalityType
<1>3. ASSUME NEW v \in Trimmers(t)
      PROVE  /\ Left(q, job[v]) \in Int /\ Left(r, job[v]) \in Int
             /\ Left(q, job[v]) <= c /\ Left(q, job[v]) <= Left(r, job[v])
             /\ Left(q, job[v]) >= c - Most /\ Left(q, job[v]) >= Left(r, job[v]) - Most
  <2>1. job[v].arg \in Nat /\ v \in Worker
    BY <1>1, ArgIs
  <2>2. IsFiniteSet(q) /\ q \in SUBSET Nat
    BY <1>1, FS_Subset
  <2>3. /\ Takes(q, job[v]) <= Takes(r, job[v]) /\ Left(q, job[v]) <= Left(r, job[v])
        /\ Takes(q, job[v]) \in Nat /\ Left(q, job[v]) \in Int /\ Left(q, job[v]) <= c
        /\ Takes(r, job[v]) \in Nat /\ Left(r, job[v]) \in Int
    <3> HIDE DEF r, q
    <3>1. c = Cardinality(q)
      BY DEF q
    <3>2. QED  BY <1>1, <2>1, <2>2, <3>1, TakesFewer, TakesIs
  <2>4. Takes(r, job[v]) <= Most
    BY <2>1 DEF TrimOK
  <2>5. /\ Left(q, job[v]) = c - Takes(q, job[v])
        /\ Left(r, job[v]) = Cardinality(r) - Takes(r, job[v])
    BY DEF Left
  <2> HIDE DEF r, q
  <2>6. QED  BY <1>2, <2>3, <2>4, <2>5, MostIs DEF r
<1>4. Over(t)'
  <2>0. Over(t)' <=>
            \A s \in SUBSET Trimmers(t)' :
                \/ Cardinality(Rows(t)') <= MaxRows + Cardinality(InFlight(t)' \ s)
                \/ \E v \in s : Left(Rows(t)', job'[v]) <= MaxRows + Cardinality(InFlight(t)' \ s)
    BY DEF Over
  <2> SUFFICES ASSUME NEW s \in SUBSET (Trimmers(t) \ {w})
               PROVE  \/ c <= MaxRows + Cardinality((InFlight(t) \ {w}) \ s)
                      \/ \E v \in s : Left(q, job[v]) <=
                                MaxRows + Cardinality((InFlight(t) \ {w}) \ s)
    BY <2>0
  <2> DEFINE f == Cardinality((InFlight(t) \ {w}) \ s)
  <2>1. (InFlight(t) \ {w}) \ s = InFlight(t) \ (s \cup {w})
    OBVIOUS
  <2>2. f \in Nat
    BY <1>1, MostIs
  <2>3. Cardinality(r) <= MaxRows + f \/ \E v \in s \cup {w} : Left(r, job[v]) <= MaxRows + f
    <3>1. s \cup {w} \in SUBSET Trimmers(t)
      OBVIOUS
    <3>2. QED  BY <2>1, <3>1 DEF Over
  <2> HIDE DEF r, q, f
  <2>4. CASE Cardinality(r) <= MaxRows + f
    <3>1. c <= MaxRows + f
      BY <1>2, <2>2, <2>4
    <3>2. QED  BY <3>1 DEF f
  <2>5. CASE Left(r, job[w]) <= MaxRows + f
    <3>1. c <= MaxRows + f
      BY <1>2, <2>2, <2>5 DEF r
    <3>2. QED  BY <3>1 DEF f
  <2>6. CASE \E v \in s : Left(r, job[v]) <= MaxRows + f
    <3>1. PICK v \in s : Left(r, job[v]) <= MaxRows + f
      BY <2>6
    <3>2. Left(q, job[v]) <= MaxRows + f
      BY <1>3, <2>2, <3>1
    <3>3. QED  BY <3>1, <3>2 DEF f
  <2>7. QED  BY <2>3, <2>4, <2>5, <2>6
<1>5. Short(t)'
  <2> DEFINE p == Cardinality(Trimmers(t))
             least == MaxRows + Most * (p - 1) - Most * Most
  <2>1. Cardinality(Trimmers(t) \ {w}) = p - 1 /\ p \in Nat /\ Most \in Nat
    <3>1. IsFiniteSet(Trimmers(t)) /\ p \in Nat
      BY <1>1, MostIs, FS_CardinalityType
    <3>2. QED  BY <3>1, FS_RemoveElement, MostIs
  <2>2. MaxRows + Most * p - Most * Most = least + Most /\ least \in Int
    <3> HIDE DEF p
    <3>1. Most * (p - 1) = Most * p - Most
      BY <2>1
    <3>2. Most * p \in Nat /\ Most * Most \in Nat
      BY <2>1
    <3>3. QED  BY <2>1, <3>1, <3>2
  <2>3. PICK v \in Trimmers(t) : Left(r, job[v]) >= least + Most
    BY <2>2 DEF Short
  <2> HIDE DEF r, q, least
  <2>4. ASSUME NEW u \in Trimmers(t) \ {w}
        PROVE  \E x \in Trimmers(t) \ {w} : Left(q, job[x]) >= least
    <3>1. CASE v = w
      <4>1. c >= least + Most
        BY <1>2, <2>1, <2>2, <2>3, <3>1 DEF r
      <4>2. Left(q, job[u]) >= least
        BY <1>2, <1>3, <2>1, <2>2, <4>1
      <4>3. QED  BY <4>2
    <3>2. CASE v # w
      <4>1. Left(q, job[v]) >= least
        BY <1>3, <2>1, <2>2, <2>3
      <4>2. QED  BY <3>2, <4>1
    <3>3. QED  BY <3>1, <3>2
  <2>5. Trimmers(t)' # {} => \E x \in Trimmers(t)' : Left(q, job'[x]) >= least
    BY <2>4
  <2>6. Short(t)' <=>
            (Trimmers(t)' # {} =>
                \E x \in Trimmers(t)' :
                    Left(Rows(t)', job'[x]) >= MaxRows + Most * Cardinality(Trimmers(t)') - Most * Most)
    BY DEF Short
  <2>7. QED  BY <2>1, <2>5, <2>6 DEF least, q
<1>6. QED  BY <1>4, <1>5

\* What any trim takes, and what it leaves, is at least what is spared.
LEMMA LeavesSpared ==
    ASSUME LogsInv, NEW t, Short(t), NEW w \in Trimmers(t), \A v \in Worker : TrimOK(t, v)
    PROVE  Left(Rows(t), job[w]) >= Spared
<1> DEFINE p == Cardinality(Trimmers(t))
           r == Rows(t)
<1>1. p \in Nat /\ p >= 1 /\ p <= Most /\ Most \in Nat /\ IsFiniteSet(Trimmers(t))
  <2>1. IsFiniteSet(Trimmers(t)) /\ p \in 0..Most
    BY SetsAre, MostIs
  <2>2. p # 0
    BY <2>1, FS_EmptySet
  <2>3. QED  BY <2>1, <2>2, MostIs
<1>2. PICK v \in Trimmers(t) : Left(r, job[v]) >= MaxRows + Most * p - Most * Most
  BY DEF Short
<1>3. \A u \in Trimmers(t) :
          /\ Left(r, job[u]) \in Int /\ Left(r, job[u]) <= Cardinality(r)
          /\ Left(r, job[u]) >= Cardinality(r) - Most /\ Cardinality(r) \in Nat
  <2> SUFFICES ASSUME NEW u \in Trimmers(t)
               PROVE  /\ Left(r, job[u]) \in Int /\ Left(r, job[u]) <= Cardinality(r)
                      /\ Left(r, job[u]) >= Cardinality(r) - Most /\ Cardinality(r) \in Nat
    OBVIOUS
  <2>1. u \in Worker /\ job[u].arg \in Nat /\ IsFiniteSet(r) /\ r \in SUBSET Nat
    BY SetsAre, ArgIs
  <2>2. Takes(r, job[u]) <= Most
    BY <2>1 DEF TrimOK
  <2>3. Left(r, job[u]) = Cardinality(r) - Takes(r, job[u])
    BY DEF Left
  <2>4. /\ Takes(r, job[u]) \in Nat /\ Left(r, job[u]) \in Int /\ Cardinality(r) \in Nat
        /\ Left(r, job[u]) <= Cardinality(r)
    BY <2>1, TakesIs
  <2> HIDE DEF r
  <2>5. QED  BY <1>1, <2>2, <2>3, <2>4
<1>4. Spared = MaxRows + Most - Most * Most
  <2>1. Most * (Most - 1) = Most * Most - Most /\ Most * Most \in Nat
    BY <1>1
  <2>2. QED  BY <1>1, <2>1 DEF Spared, Most
<1> HIDE DEF r, p
<1>5. Most * Most \in Nat /\ Most * p \in Nat
  BY <1>1
<1>6. CASE v = w
  <2>1. Most * p >= Most
    BY <1>1
  <2>2. QED  BY <1>1, <1>2, <1>3, <1>4, <1>5, <1>6, <2>1 DEF r
<1>7. CASE v # w
  <2>1. p >= 2
    <3>1. {v, w} \subseteq Trimmers(t) /\ Cardinality({v, w}) = 2
      <4>1. {v, w} = {v} \cup {w}
        OBVIOUS
      <4>2. IsFiniteSet({v}) /\ Cardinality({v}) = 1 /\ w \notin {v}
        BY <1>7, FS_Singleton
      <4>3. Cardinality({v} \cup {w}) = Cardinality({v}) + 1
        <5> DEFINE one == {v}
        <5>1. IsFiniteSet(one) /\ w \notin one
          BY <4>2
        <5> HIDE DEF one
        <5>2. Cardinality(one \cup {w}) = Cardinality(one) + 1
          BY <5>1, FS_AddElement
        <5>3. QED  BY <5>2 DEF one
      <4>4. QED  BY <4>1, <4>2, <4>3
    <3>2. Cardinality({v, w}) <= p
      BY <1>1, <3>1, FS_Subset DEF p
    <3>3. QED  BY <3>1, <3>2
  <2>2. Most * p >= Most * 2
    BY <1>1, <2>1
  <2>3. Left(r, job[w]) >= Left(r, job[v]) - Most
    BY <1>1, <1>3
  <2>4. QED  BY <1>1, <1>2, <1>3, <1>4, <1>5, <2>2, <2>3 DEF r
<1>8. QED  BY <1>6, <1>7

\* Rows that go or come above a window leave a trim what it was.
LEMMA TrimStays ==
    ASSUME LogsInv, NEW t, NEW v \in Worker, TrimOK(t, v), job'[v] = job[v],
           Drawn \subseteq Drawn', aged' = aged,
           \A i \in Rows(t)' : i \in Rows(t) \/ i > aged,
           v \in Trimmers(t) =>
               \E n \in Int : n = Takes(Rows(t)', job[v]) /\ n <= Takes(Rows(t), job[v])
    PROVE  TrimOK(t, v)'
<1>1. /\ v \in Trimmers(t)' <=> v \in Trimmers(t)
      /\ v \in InFlight(t)' <=> v \in InFlight(t)
  BY DEF Trimmers, InFlight
<1>2. ASSUME v \in Trimmers(t) PROVE Takes(Rows(t)', job'[v]) <= Most
  <2>1. PICK n \in Int : n = Takes(Rows(t)', job[v]) /\ n <= Takes(Rows(t), job[v])
    BY <1>2
  <2>2. Takes(Rows(t), job[v]) \in Nat /\ Takes(Rows(t), job[v]) <= Most /\ Most \in Nat
    BY <1>2, SetsAre, ArgIs, TakesIs, MostIs DEF TrimOK
  <2>3. QED  BY <2>1, <2>2
<1>3. v \in Trimmers(t) /\ job[v].pc = "oldest" => job[v].arg > 0
  BY DEF TrimOK
<1>4. v \in Trimmers(t) /\ job[v].pc = "delete" => job[v].arg \in Drawn'
  BY DEF TrimOK
<1>5. t = Audit /\ v \in InFlight(t) /\ job[v].pc # "prune" => \A i \in Rows(t)' : i > aged
  BY DEF TrimOK
<1>6. QED  BY <1>1, <1>2, <1>3, <1>4, <1>5 DEF TrimOK

\* The newest rows are kept while no more go than a window lets.
LEMMA KeptStays ==
    ASSUME NEW t, Kept(t), Ever(t)' = Ever(t), aged \in Nat, aged' \in Nat, aged' >= aged,
           Ever(t) \subseteq Nat,
           \A i \in Newest(Ever(t), Spared) : i \in gone' => i \in gone \/ (t = Audit /\ i <= aged')
    PROVE  Kept(t)'
<1>1. Kept(t)' <=> \A i \in Newest(Ever(t)', Spared) : i \in gone' => t = Audit /\ i <= aged'
  BY DEF Kept, Newest, Spared
<1>2. ASSUME NEW i \in Newest(Ever(t), Spared), i \in gone' PROVE t = Audit /\ i <= aged'
  <2>1. i \in Nat
    BY DEF Newest
  <2>2. QED  BY <1>2, <2>1 DEF Kept
<1>3. QED  BY <1>1, <1>2

\* A table is left alone by a request that is not trimming it.
LEMMA Elsewhere ==
    ASSUME LogsInv, NEW t, TableOK(t), Rows(t)' = Rows(t), Ever(t)' = Ever(t),
           Drawn \subseteq Drawn', aged' = aged,
           InFlight(t)' = InFlight(t), Trimmers(t)' = Trimmers(t),
           \A v \in InFlight(t) : job'[v] = job[v],
           \A i \in Ever(t) : i \in gone' => i \in gone
    PROVE  TableOK(t)'
<1>1. Trimmers(t) \subseteq InFlight(t) /\ Ever(t) \subseteq Nat
  BY SetsAre
<1>2. Over(t)' /\ Short(t)'
  BY <1>1, SameTrims DEF TableOK
<1>3. ASSUME NEW v \in Worker PROVE TrimOK(t, v)'
  <2>1. CASE v \in InFlight(t)
    <3>1. job[v].arg \in Nat /\ Rows(t) \in SUBSET Nat /\ IsFiniteSet(Rows(t))
      BY SetsAre, ArgIs
    <3>2. Takes(Rows(t), job[v]) \in Nat
      BY <3>1, TakesIs
    <3>3. \E n \in Int : n = Takes(Rows(t), job[v]) /\ n <= Takes(Rows(t), job[v])
      BY <3>2
    <3>4. QED  BY <2>1, <3>3, TrimStays DEF TableOK
  <2>2. CASE v \notin InFlight(t)
    <3>1. v \notin InFlight(t)' /\ v \notin Trimmers(t)'
      BY <1>1, <2>2
    <3>2. QED  BY <3>1 DEF TrimOK
  <2>3. QED  BY <2>1, <2>2
<1>4. Kept(t)'
  <2>1. aged \in Nat
    BY DEF LogsInv, TypeOK
  <2>2. \A i \in Newest(Ever(t), Spared) : i \in gone' => i \in gone
    BY DEF Newest
  <2>3. QED  BY <1>1, <2>1, <2>2, KeptStays DEF TableOK
<1>5. QED  BY <1>2, <1>3, <1>4 DEF TableOK

\* The n oldest of some rows are those up to the highest of them: n, or all.
LEMMA OldestAre ==
    ASSUME NEW s \in SUBSET Seqs, s # {}, NEW n \in Nat \ {0}
    PROVE  LET x == Highest(Oldest(s, n))
               low == {i \in s : i <= x}
           IN  /\ x \in s /\ Cardinality(low) \in 0..n
               /\ low = s \/ Cardinality(low) = n
<1> DEFINE old == Oldest(s, n)
           x == Highest(old)
           low == {i \in s : i <= x}
           less == {i \in s : i < x}
<1>1. s \subseteq Nat /\ IsFiniteSet(s) /\ s \subseteq Seqs
  <2>1. IsFiniteSet(Seqs) /\ Seqs \subseteq Nat
    BY FS_Interval DEF Seqs
  <2>2. QED  BY <2>1, FS_Subset
<1>2. old \subseteq s
  BY DEF Oldest
<1>3. \A i \in s : i \in old <=> Cardinality({j \in s : j < i}) < n
  BY DEF Oldest
<1>4. old # {}
  <2>1. PICK i \in s : \A j \in s : i <= j
    BY LeastExists
  <2>2. {j \in s : j < i} = {}
    <3>1. \A j \in s : ~ (j < i)
      <4>1. \A j \in s : j \in Nat
        BY <1>1
      <4>2. QED  BY <2>1, <4>1
    <3>2. QED  BY <3>1
  <2>3. Cardinality({j \in s : j < i}) < n
    BY <2>2, FS_EmptySet
  <2>4. QED  BY <1>3, <2>3
<1>5. x \in old /\ \A j \in old : j <= x
  <2> HIDE DEF old
  <2> QED  BY <1>1, <1>2, <1>4, HighestIs
<1>6. x \in s /\ x \in Nat
  BY <1>1, <1>2, <1>5
<1> HIDE DEF x, old
<1>7. IsFiniteSet(less) /\ Cardinality(less) \in Nat /\ Cardinality(less) < n
  BY <1>1, <1>3, <1>5, <1>6, FS_Subset, FS_CardinalityType
<1>8. Cardinality(low) = Cardinality(less) + 1
  <2>1. low = less \cup {x} /\ x \notin less
    <3>1. \A j \in s : j \in Nat
      BY <1>1
    <3>2. \A j \in s : j <= x <=> j < x \/ j = x
      BY <1>6, <3>1
    <3>3. ~ (x < x)
      BY <1>6
    <3>4. QED  BY <1>6, <3>2, <3>3
  <2> HIDE DEF low, less
  <2>2. Cardinality(less \cup {x}) = Cardinality(less) + 1
    BY <1>7, <2>1, FS_AddElement
  <2>3. QED  BY <2>1, <2>2
<1>9. ASSUME low # s PROVE Cardinality(low) >= n
  <2> DEFINE rest == s \ low
  <2>1. rest # {} /\ rest \in SUBSET Seqs
    BY <1>1, <1>9
  <2>2. PICK y \in rest : \A j \in rest : y <= j
    <3> HIDE DEF rest
    <3> QED  BY <2>1, LeastExists
  <2>3. y \in s /\ y > x /\ y \in Nat
    BY <1>1, <1>6, <2>2
  <2>4. y \notin old
    BY <1>5, <1>6, <2>3
  <2>5. {j \in s : j < y} = low
    <3>1. ASSUME NEW j \in s, j < y PROVE j <= x
      <4>1. j \notin rest
        BY <1>1, <2>2, <2>3, <3>1
      <4>2. QED  BY <3>1, <4>1
    <3>2. ASSUME NEW j \in s, j <= x PROVE j < y
      BY <1>1, <1>6, <2>3, <3>2
    <3>3. QED  BY <3>1, <3>2
  <2>6. ~ (Cardinality(low) < n)
    BY <1>3, <2>3, <2>4, <2>5
  <2>7. QED  BY <1>7, <1>8, <2>6
<1>10. Cardinality(low) \in 0..n /\ (low = s \/ Cardinality(low) = n)
  BY <1>7, <1>8, <1>9
<1>11. QED  BY <1>6, <1>10 DEF x, old

\* A request that trims another table, or none, leaves this one alone.
LEMMA OthersKeep ==
    ASSUME LogsInv, NEW t, TableOK(t), NEW w \in Worker, NEW j,
           job' = [job EXCEPT ![w] = j], log' = log, aged' = aged, gone \subseteq gone',
           \A i \in gone' : i \in gone \/ log[i] # t,
           w \notin InFlight(t), ~ (j.pc \in Trimming /\ j.to = t)
    PROVE  TableOK(t)'
<1>1. Drawn' = Drawn /\ Ever(t)' = Ever(t)
  BY DEF Drawn, Ever
<1>2. Rows(t)' = Rows(t)
  BY <1>1 DEF Rows
<1>3. Trimmers(t) \subseteq InFlight(t) /\ InFlight(t) \subseteq Worker
  BY SetsAre
<1>4. InFlight(t)' = InFlight(t) /\ Trimmers(t)' = Trimmers(t)
      /\ \A v \in Worker \ {w} : job'[v] = job[v]
  <2>1. ~ (j.pc \in {"oldest", "delete"} /\ j.to = t)
    BY DEF Trimming
  <2>2. InFlight(t)' = InFlight(t) \ {w} /\ Trimmers(t)' = Trimmers(t) \ {w}
        /\ \A v \in Worker \ {w} : job'[v] = job[v]
    <3>1. job'[w] = j /\ \A v \in Worker \ {w} : job'[v] = job[v]
      BY DEF LogsInv, TypeOK
    <3>2. /\ InFlight(t)' = {v \in Worker : job'[v].pc \in Trimming /\ job'[v].to = t}
          /\ Trimmers(t)' = {v \in Worker : job'[v].pc \in {"oldest", "delete"} /\ job'[v].to = t}
      BY DEF InFlight, Trimmers, Trimming
    <3>3. InFlight(t)' = InFlight(t) \ {w}
      BY <3>1, <3>2 DEF InFlight
    <3>4. Trimmers(t)' = Trimmers(t) \ {w}
      BY <2>1, <3>1, <3>2 DEF Trimmers
    <3>5. QED  BY <3>1, <3>3, <3>4
  <2>3. QED  BY <1>3, <2>2
<1>5. \A i \in Ever(t) : i \in gone' => i \in gone
  BY DEF Ever
<1>6. \A v \in InFlight(t) : job'[v] = job[v]
  BY <1>3, <1>4
<1>7. QED  BY <1>1, <1>2, <1>4, <1>5, <1>6, Elsewhere

\* The same of a step that is no request's.
LEMMA NobodyTrims ==
    ASSUME LogsInv, NEW t, TableOK(t), job' = job, table' = table
    PROVE  TableOK(t)'
<1>1. Drawn' = Drawn /\ Ever(t)' = Ever(t) /\ Rows(t)' = Rows(t) /\ aged' = aged /\ gone' = gone
  BY DEF Drawn, Ever, Rows, table
<1>2. InFlight(t)' = InFlight(t) /\ Trimmers(t)' = Trimmers(t)
  BY DEF InFlight, Trimmers
<1>3. QED  BY <1>1, <1>2, Elsewhere

\* A new row pushes no older one out of those that were the newest.
LEMMA InsertKept ==
    ASSUME LogsInv, NEW t \in Table, Insert(t), Kept(t), gone' = gone, aged' = aged
    PROVE  Kept(t)'
<1>1. /\ Drawn' = 1..(Len(log) + 1) /\ Drawn = 1..Len(log) /\ Len(log) \in Nat
      /\ \A i \in Drawn : log'[i] = log[i]
      /\ log'[Len(log) + 1] = t
  BY InsertIs DEF LogsInv, TypeOK
<1>2. Ever(t) \subseteq Ever(t)' /\ gone \subseteq Drawn
  BY <1>1 DEF Ever, LogsInv, TypeOK
<1>3. IsFiniteSet(Ever(t)')
  <2>1. IsFiniteSet(1..(Len(log) + 1))
    BY <1>1, FS_Interval
  <2>2. Ever(t)' \subseteq 1..(Len(log) + 1)
    BY <1>1 DEF Ever
  <2>3. QED  BY <2>1, <2>2, FS_Subset
<1>4. ASSUME NEW i \in Newest(Ever(t)', Spared), i \in gone PROVE t = Audit /\ i <= aged
  <2>1. i \in Ever(t)
    BY <1>1, <1>2, <1>4 DEF Newest, Ever
  <2> DEFINE above == {j \in Ever(t) : j > i}
             now == {j \in Ever(t)' : j > i}
  <2>2. above \subseteq now /\ IsFiniteSet(now)
    BY <1>2, <1>3, FS_Subset
  <2>3. Cardinality(above) <= Cardinality(now) /\ Cardinality(above) \in Nat
        /\ Cardinality(now) \in Nat
    <3> HIDE DEF above, now
    <3> QED  BY <2>2, FS_Subset, FS_CardinalityType
  <2>4. Cardinality(now) < Spared
    BY <1>4 DEF Newest
  <2>5. Cardinality(above) < Spared
    <3> HIDE DEF above, now
    <3> QED  BY <2>3, <2>4, MostIs
  <2>6. i \in Newest(Ever(t), Spared)
    BY <2>1, <2>5 DEF Newest
  <2>7. QED  BY <1>4, <2>6 DEF Kept
<1>5. Kept(t)' <=> \A i \in Newest(Ever(t)', Spared) : i \in gone' => t = Audit /\ i <= aged'
  BY DEF Kept, Newest, Spared
<1>6. QED  BY <1>4, <1>5

\* Audit::append and Notifications::push.
LEMMA InsertKeeps ==
    ASSUME LogsInv, \A s \in Table : TableOK(s), NEW w \in Worker, At(w, "idle"),
           NEW t \in Table, Insert(t), gone' = gone, aged' = aged,
           NEW pc, pc = "prune" \/ (pc = "count" /\ t # Audit),
           job' = [job EXCEPT ![w] = [pc |-> pc, to |-> t, arg |-> 0]]
    PROVE  \A s \in Table : TableOK(s)'
<1> DEFINE x == Len(log) + 1
<1>1. /\ Drawn' = 1..x /\ Drawn = 1..Len(log) /\ Len(log) \in Nat
      /\ \A i \in Drawn : log'[i] = log[i]
      /\ log'[x] = t
  BY InsertIs DEF LogsInv, TypeOK
<1>2. PICK j : j = [pc |-> pc, to |-> t, arg |-> 0]
  OBVIOUS
<1>3. j.pc = pc /\ j.to = t /\ pc \in Trimming /\ pc \notin {"oldest", "delete"}
      /\ job' = [job EXCEPT ![w] = j]
  BY <1>2 DEF Trimming
<1>4. \A s : /\ Rows(s)' = IF s = t THEN Rows(s) \cup {x} ELSE Rows(s)
             /\ Ever(s)' = IF s = t THEN Ever(s) \cup {x} ELSE Ever(s)
  <2>1. Drawn' = Drawn \cup {x} /\ x \notin Drawn /\ gone \subseteq Drawn
    BY <1>1 DEF LogsInv, TypeOK
  <2> HIDE DEF x
  <2>2. QED  BY <1>1, <2>1 DEF Rows, Ever
<1>5. \A s : w \notin InFlight(s) /\ w \notin Trimmers(s)
  BY DEF At, InFlight, Trimmers, Trimming
<1>6. \A s : /\ InFlight(s)' = IF s = t THEN InFlight(s) \cup {w} ELSE InFlight(s)
             /\ Trimmers(s)' = Trimmers(s)
             /\ \A v \in Worker \ {w} : job'[v] = job[v]
  <2> SUFFICES ASSUME NEW s
               PROVE  /\ InFlight(s)' = IF s = t THEN InFlight(s) \cup {w} ELSE InFlight(s)
                      /\ Trimmers(s)' = Trimmers(s)
                      /\ \A v \in Worker \ {w} : job'[v] = job[v]
    OBVIOUS
  <2>1. /\ \A v \in Worker \ {w} : job'[v] = job[v]
        /\ InFlight(s)' = IF j.pc \in Trimming /\ j.to = s THEN InFlight(s) \cup {w}
                                                           ELSE InFlight(s) \ {w}
        /\ Trimmers(s)' = IF j.pc \in {"oldest", "delete"} /\ j.to = s
                            THEN Trimmers(s) \cup {w} ELSE Trimmers(s) \ {w}
    BY <1>3, TrimsAre
  <2>2. InFlight(s)' = IF s = t THEN InFlight(s) \cup {w} ELSE InFlight(s)
    BY <1>3, <1>5, <2>1
  <2>3. Trimmers(s)' = Trimmers(s)
    BY <1>3, <1>5, <2>1
  <2>4. QED  BY <2>1, <2>2, <2>3
<1>7. Drawn \subseteq Drawn'
  BY <1>1
<1>8. ASSUME NEW s \in Table, s # t PROVE TableOK(s)'
  <2>1. \A v \in InFlight(s) : job'[v] = job[v]
    BY <1>5, <1>6 DEF InFlight
  <2>2. QED  BY <1>4, <1>6, <1>7, <1>8, <2>1, Elsewhere
<1>9. TableOK(t)'
  <2>1. aged \in Nat /\ aged < x /\ x \in Nat
    BY <1>1 DEF LogsInv, TypeOK
  <2>2. x \notin Rows(t) /\ Rows(t)' = Rows(t) \cup {x}
    <3>1. x \notin Drawn
      BY <1>1
    <3>2. Rows(t)' = Rows(t) \cup {x}
      BY <1>4
    <3>3. QED  BY <3>1, <3>2 DEF Rows
  <2>3. ASSUME NEW v \in Trimmers(t) PROVE job'[v] = job[v] /\ (job[v].pc = "delete" => job[v].arg < x)
    <3>1. v \in Worker /\ v # w
      BY <1>5 DEF Trimmers
    <3>2. job[v].pc = "delete" => job[v].arg \in Drawn
      BY <3>1 DEF TableOK, TrimOK
    <3>3. QED  BY <1>1, <1>6, <3>1, <3>2
  <2> HIDE DEF x
  <2>4. /\ Over(t)' /\ Short(t)'
        /\ \A v \in Trimmers(t) : Takes(Rows(t)', job'[v]) = Takes(Rows(t), job[v])
    BY <1>5, <1>6, <2>1, <2>2, <2>3, InsertTrims DEF TableOK
  <2>5. ASSUME NEW v \in Worker PROVE TrimOK(t, v)'
    <3>1. CASE v = w
      <4>1. w \notin Trimmers(t)'
        BY <1>5, <1>6
      <4>2. job'[w].pc = "prune" \/ t # Audit
        BY <1>3, TrimsAre
      <4>3. QED  BY <3>1, <4>1, <4>2 DEF TrimOK
    <3>2. CASE v # w
      <4>1. job'[v] = job[v] /\ \A i \in Rows(t)' : i \in Rows(t) \/ i > aged
        BY <1>6, <2>1, <2>2, <3>2
      <4>2. v \in Trimmers(t) => Takes(Rows(t)', job[v]) = Takes(Rows(t), job[v])
        BY <2>4, <4>1
      <4>3. Takes(Rows(t), job[v]) \in Nat
        BY SetsAre, ArgIs, TakesIs
      <4>4. v \in Trimmers(t) =>
                \E n \in Int : n = Takes(Rows(t)', job[v]) /\ n <= Takes(Rows(t), job[v])
        BY <4>2, <4>3
      <4>5. QED  BY <1>7, <4>1, <4>4, TrimStays DEF TableOK
    <3>3. QED  BY <3>1, <3>2
  <2>6. Kept(t)'
    BY InsertKept DEF TableOK
  <2>7. QED  BY <2>4, <2>5, <2>6 DEF TableOK
<1>10. QED  BY <1>8, <1>9

LEMMA PruneKeeps ==
    ASSUME LogsInv, \A t \in Table : TableOK(t), NEW w \in Worker, Prune(w)
    PROVE  \A t \in Table : TableOK(t)'
<1>1. PICK j : j = [job[w] EXCEPT !.pc = "count"]
  OBVIOUS
<1>2. /\ job[w] \in Job /\ job[w].pc = "prune" /\ job[w].to = Audit
      /\ aged \in Nat /\ gone \subseteq Drawn
  <2>1. job[w] \in Job /\ job[w].pc = "prune" /\ aged \in Nat /\ gone \subseteq Drawn
    BY DEF LogsInv, TypeOK, Prune, At
  <2>2. QED  BY <2>1 DEF LogsInv, Pointed
<1>3. j.pc = "count" /\ j.to = Audit /\ job' = [job EXCEPT ![w] = j]
  BY <1>1, <1>2 DEF Prune, Goto, Job
<1>4. log' = log /\ aged' = aged /\ gone' = gone \cup {i \in Rows(Audit) : i <= aged}
  BY DEF Prune
<1>5. ASSUME NEW t \in Table, t # Audit PROVE TableOK(t)'
  <2>1. \A i \in gone' : i \in gone \/ log[i] # t
    BY <1>4, <1>5 DEF Rows
  <2>2. w \notin InFlight(t) /\ gone \subseteq gone'
    BY <1>2, <1>4, <1>5 DEF InFlight
  <2>3. QED  BY <1>3, <1>4, <1>5, <2>1, <2>2, OthersKeep
<1>6. TableOK(Audit)'
  <2> DEFINE t == Audit
  <2>0. TableOK(Audit)
    BY DEF Table
  <2>1. Drawn' = Drawn /\ Ever(Audit)' = Ever(Audit)
    BY <1>4 DEF Drawn, Ever
  <2>2. Rows(Audit)' = {i \in Rows(Audit) : ~ (i <= aged)}
    BY <1>4, <2>1 DEF Rows
  <2>3. /\ Trimmers(Audit) \subseteq InFlight(Audit) /\ InFlight(Audit) \subseteq Worker
        /\ IsFiniteSet(Rows(Audit)) /\ Rows(Audit) \in SUBSET Nat /\ Ever(Audit) \subseteq Nat
    BY SetsAre
  <2>4. /\ job'[w] = j /\ \A v \in Worker \ {w} : job'[v] = job[v]
        /\ w \in InFlight(Audit) /\ w \notin Trimmers(Audit)
    BY <1>2, <1>3 DEF LogsInv, TypeOK, InFlight, Trimmers, Trimming
  <2>5. InFlight(Audit)' = InFlight(Audit) /\ Trimmers(Audit)' = Trimmers(Audit)
    <3>1. /\ InFlight(Audit)' = {v \in Worker : job'[v].pc \in Trimming /\ job'[v].to = Audit}
          /\ Trimmers(Audit)' = {v \in Worker : job'[v].pc \in {"oldest", "delete"}
                                                    /\ job'[v].to = Audit}
      BY DEF InFlight, Trimmers, Trimming
    <3>2. QED  BY <1>2, <1>3, <2>4, <3>1 DEF InFlight, Trimmers, Trimming
  <2>6. \A v \in Trimmers(Audit) : job'[v] = job[v]
    BY <2>3, <2>4
  <2>7. Over(Audit)' /\ Short(Audit)'
    <3>1. CASE Trimmers(Audit) = {}
      BY <2>0, <2>2, <2>5, <3>1, PruneTrims DEF TableOK
    <3>2. CASE Trimmers(Audit) # {}
      <4>1. PICK v \in Trimmers(Audit) : TRUE
        BY <3>2
      <4>2. v \in InFlight(Audit) /\ job[v].pc # "prune"
        BY <2>3, <4>1 DEF Trimmers
      <4>3. \A i \in Rows(Audit) : i > aged
        BY <2>0, <2>3, <4>2 DEF TableOK, TrimOK
      <4>4. \A i \in Rows(Audit) : ~ (i <= aged)
        BY <1>2, <2>3, <4>3
      <4>5. Rows(Audit)' = Rows(Audit)
        BY <2>2, <4>4
      <4>6. QED  BY <2>0, <2>5, <2>6, <4>5, SameTrims DEF TableOK
    <3>3. QED  BY <3>1, <3>2
  <2>8. ASSUME NEW v \in Worker PROVE TrimOK(Audit, v)'
    <3>1. CASE v = w
      <4>1. w \notin Trimmers(Audit)'
        BY <2>4, <2>5
      <4>2. \A i \in Rows(Audit)' : i > aged'
        BY <1>2, <1>4, <2>2, <2>3
      <4>3. QED  BY <3>1, <4>1, <4>2 DEF TrimOK
    <3>2. CASE v # w
      <4>1. job[v].arg \in Nat /\ Rows(Audit)' \in SUBSET Rows(Audit)
        BY <2>2, ArgIs
      <4>2. Takes(Rows(Audit)', job[v]) <= Takes(Rows(Audit), job[v])
            /\ IsFiniteSet(Rows(Audit)')
        BY <2>3, <4>1, TakesFewer
      <4>3. Takes(Rows(Audit)', job[v]) \in Nat
        BY <2>3, <4>1, <4>2, TakesIs
      <4>4. \E n \in Int : n = Takes(Rows(Audit)', job[v]) /\ n <= Takes(Rows(Audit), job[v])
        BY <4>2, <4>3
      <4>5. QED  BY <1>4, <2>0, <2>1, <2>4, <3>2, <4>1, <4>4, TrimStays DEF TableOK
    <3>3. QED  BY <3>1, <3>2
  <2>9. Kept(Audit)'
    <3>1. \A i \in Newest(Ever(Audit), Spared) : i \in gone' => i \in gone \/ i <= aged'
      BY <1>4
    <3>2. QED  BY <1>2, <1>4, <2>0, <2>1, <2>3, <3>1, KeptStays DEF TableOK
  <2>10. QED  BY <2>7, <2>8, <2>9 DEF TableOK
<1>7. QED  BY <1>5, <1>6

LEMMA CountKeeps ==
    ASSUME LogsInv, \A t \in Table : TableOK(t), NEW w \in Worker, Count(w)
    PROVE  \A t \in Table : TableOK(t)'
<1> DEFINE to == job[w].to
           extra == Surplus(Cardinality(Rows(to)))
<1>1. /\ job[w] \in Job /\ job[w].pc = "count" /\ aged \in Nat
      /\ log' = log /\ aged' = aged /\ gone' = gone /\ read' = read
  BY DEF LogsInv, TypeOK, Count, At, table
<1>2. PICK j : j = IF extra > 0 THEN [pc |-> "oldest", to |-> to, arg |-> extra]
                   ELSE IF to = Audit THEN [pc |-> "bump", to |-> Audit, arg |-> 0] ELSE Idle
  OBVIOUS
<1>3. job' = [job EXCEPT ![w] = j]
  BY <1>2 DEF Count, Done
<1>4. /\ job'[w] = j /\ \A v \in Worker \ {w} : job'[v] = job[v]
      /\ \A t : w \notin Trimmers(t)
  BY <1>1, <1>3 DEF LogsInv, TypeOK, Trimmers
<1>5. extra > 0 => j.pc = "oldest" /\ j.to = to /\ j.arg = extra
  BY <1>2
<1>6. ~ (extra > 0) => j.pc \notin Trimming
  BY <1>2 DEF Idle, Trimming
<1>7. ASSUME NEW t \in Table, t # to PROVE TableOK(t)'
  <2>1. w \notin InFlight(t) /\ ~ (j.pc \in Trimming /\ j.to = t)
    BY <1>5, <1>6, <1>7 DEF InFlight
  <2> HIDE DEF to, extra
  <2>2. gone \subseteq gone' /\ \A i \in gone' : i \in gone \/ log[i] # t
    BY <1>1
  <2>3. QED  BY <1>1, <1>3, <1>7, <2>1, <2>2, OthersKeep
<1>8. ASSUME NEW t \in Table, t = to PROVE TableOK(t)'
  <2>1. Drawn' = Drawn /\ Ever(t)' = Ever(t) /\ Rows(t)' = Rows(t)
    BY <1>1 DEF Drawn, Ever, Rows
  <2>2. /\ Trimmers(t) \subseteq InFlight(t) /\ InFlight(t) \subseteq Worker
        /\ IsFiniteSet(Rows(t)) /\ Rows(t) \in SUBSET Nat /\ Ever(t) \subseteq Nat
        /\ Cardinality(Rows(t)) \in Nat /\ Cardinality(InFlight(t)) \in 0..Most /\ Most \in Nat
    BY SetsAre, MostIs
  <2>3. w \in InFlight(t) /\ \A v \in Trimmers(t) : job'[v] = job[v]
    BY <1>1, <1>4, <1>8, <2>2 DEF InFlight, Trimming
  <2>4. extra = IF Cardinality(Rows(t)) > MaxRows THEN Cardinality(Rows(t)) - MaxRows ELSE 0
    BY <1>8 DEF Surplus
  <2>5. Cardinality(Rows(t)) <= MaxRows + Cardinality(InFlight(t))
    <3>1. {} \in SUBSET Trimmers(t) /\ InFlight(t) \ {} = InFlight(t)
      OBVIOUS
    <3>2. QED  BY <3>1 DEF TableOK, Over
  <2>6. /\ InFlight(t)' = {v \in Worker : job'[v].pc \in Trimming /\ job'[v].to = t}
        /\ Trimmers(t)' = {v \in Worker : job'[v].pc \in {"oldest", "delete"} /\ job'[v].to = t}
    BY DEF InFlight, Trimmers, Trimming
  <2>7. extra > 0 => extra \in Nat /\ Cardinality(Rows(t)) - extra = MaxRows /\ extra <= Most
    BY <2>2, <2>4, <2>5
  <2>8. ~ (extra > 0) => Cardinality(Rows(t)) <= MaxRows
    BY <2>2, <2>4
  <2>9. Over(t)' /\ Short(t)'
    <3>1. CASE extra > 0
      <4>1. InFlight(t)' = InFlight(t) /\ Trimmers(t)' = Trimmers(t) \cup {w}
        BY <1>4, <1>5, <1>8, <2>3, <2>6, <3>1 DEF InFlight, Trimmers, Trimming
      <4>2. Left(Rows(t), job'[w]) = MaxRows
        BY <1>4, <1>5, <2>7, <3>1 DEF Left, Takes
      <4>3. QED  BY <1>4, <2>1, <2>3, <4>1, <4>2, JoinTrims DEF TableOK
    <3>2. CASE ~ (extra > 0)
      <4>1. InFlight(t)' \subseteq Worker /\ Trimmers(t)' = Trimmers(t)
        BY <1>4, <1>6, <2>6, <3>2 DEF Trimmers, Trimming
      <4>2. QED  BY <2>1, <2>3, <2>8, <3>2, <4>1, EnoughTrims DEF TableOK
    <3>3. QED  BY <3>1, <3>2
  <2>10. ASSUME NEW v \in Worker PROVE TrimOK(t, v)'
    <3>1. CASE v = w
      <4>1. CASE extra > 0
        <5>1. Takes(Rows(t)', job'[w]) <= Most /\ job'[w].arg > 0 /\ job'[w].pc = "oldest"
          BY <1>4, <1>5, <2>7, <4>1 DEF Takes
        <5>2. t = Audit => \A i \in Rows(t)' : i > aged'
          BY <1>1, <2>1, <2>3 DEF TableOK, TrimOK
        <5>3. QED  BY <3>1, <5>1, <5>2 DEF TrimOK
      <4>2. CASE ~ (extra > 0)
        <5>1. w \notin InFlight(t)' /\ w \notin Trimmers(t)'
          BY <1>4, <1>6, <2>6, <4>2 DEF Trimming
        <5>2. QED  BY <3>1, <5>1 DEF TrimOK
      <4>3. QED  BY <4>1, <4>2
    <3>2. CASE v # w
      <4>1. Takes(Rows(t), job[v]) \in Nat
        BY <2>2, ArgIs, TakesIs
      <4>2. \E n \in Int : n = Takes(Rows(t)', job[v]) /\ n <= Takes(Rows(t), job[v])
        BY <2>1, <4>1
      <4>3. QED  BY <1>1, <1>4, <2>1, <3>2, <4>2, TrimStays DEF TableOK
    <3>3. QED  BY <3>1, <3>2
  <2>11. Kept(t)'
    BY <1>1, <2>1, <2>2, KeptStays DEF TableOK
  <2>12. QED  BY <2>9, <2>10, <2>11 DEF TableOK
<1>9. QED
  <2> HIDE DEF to
  <2> QED  BY <1>7, <1>8

\* A trim that ends: only its own table is to be looked at.
LEMMA DoneKeeps ==
    ASSUME LogsInv, \A t \in Table : TableOK(t), NEW w \in Worker, Done(w),
           job[w].pc \in {"oldest", "delete"}, log' = log, aged' = aged, gone \subseteq gone',
           NEW t \in Table,
           \A i \in gone' : i \in gone \/ (log[i] = job[w].to /\ i \notin Newest(Ever(log[i]), Spared)),
           t = job[w].to =>
               \E c \in Nat : \E o \in Int :
                   /\ c = Cardinality(Rows(t)') /\ o = Left(Rows(t), job[w]) /\ c >= o
                   /\ c = o \/ c <= MaxRows
                   /\ Cardinality(Rows(t)) - c <= Most
    PROVE  TableOK(t)'
<1>1. PICK j : j = IF job[w].to = Audit THEN [pc |-> "bump", to |-> Audit, arg |-> 0] ELSE Idle
  OBVIOUS
<1>2. job' = [job EXCEPT ![w] = j] /\ j.pc \notin Trimming
  BY <1>1 DEF Done, Idle, Trimming
<1>3. job'[w] = j /\ \A v \in Worker \ {w} : job'[v] = job[v]
  BY <1>2 DEF LogsInv, TypeOK
<1>4. CASE t # job[w].to
  <2>1. w \notin InFlight(t) /\ \A i \in gone' : i \in gone \/ log[i] # t
    BY <1>4 DEF InFlight
  <2>2. QED  BY <1>2, <2>1, OthersKeep
<1>5. CASE t = job[w].to
  <2>1. PICK c \in Nat : \E o \in Int :
                /\ c = Cardinality(Rows(t)') /\ o = Left(Rows(t), job[w]) /\ c >= o
                /\ c = o \/ c <= MaxRows
                /\ Cardinality(Rows(t)) - c <= Most
    BY <1>5
  <2>2. PICK o \in Int : /\ c = Cardinality(Rows(t)') /\ o = Left(Rows(t), job[w]) /\ c >= o
                         /\ c = o \/ c <= MaxRows
                         /\ Cardinality(Rows(t)) - c <= Most
    BY <2>1
  <2>3. Drawn' = Drawn /\ Ever(t)' = Ever(t) /\ Rows(t)' \subseteq Rows(t)
    BY DEF Drawn, Ever, Rows
  <2>4. /\ Trimmers(t) \subseteq InFlight(t) /\ InFlight(t) \subseteq Worker
        /\ IsFiniteSet(Rows(t)) /\ Rows(t) \in SUBSET Nat /\ Ever(t) \subseteq Nat
    BY SetsAre
  <2>5. w \in Trimmers(t)
    BY <1>5 DEF Trimmers
  <2>6. /\ InFlight(t)' = {v \in Worker : job'[v].pc \in Trimming /\ job'[v].to = t}
        /\ Trimmers(t)' = {v \in Worker : job'[v].pc \in {"oldest", "delete"} /\ job'[v].to = t}
    BY DEF InFlight, Trimmers, Trimming
  <2>7. InFlight(t)' = InFlight(t) \ {w}
    BY <1>2, <1>3, <2>6 DEF InFlight
  <2>8. Trimmers(t)' = Trimmers(t) \ {w}
    BY <1>2, <1>3, <2>6 DEF Trimmers, Trimming
  <2>9. \A v \in Trimmers(t) \ {w} : job'[v] = job[v]
    BY <1>3, <2>4
  <2>10. Over(t)' /\ Short(t)'
    <3>1. Over(t) /\ Short(t) /\ \A v \in Worker : TrimOK(t, v)
      BY DEF TableOK
    <3>2. QED  BY <2>2, <2>3, <2>5, <2>7, <2>8, <2>9, <3>1, DropTrims
  <2>11. ASSUME NEW v \in Worker PROVE TrimOK(t, v)'
    <3>1. CASE v = w
      <4>1. w \notin InFlight(t)' /\ w \notin Trimmers(t)'
        BY <2>7, <2>8
      <4>2. QED  BY <3>1, <4>1 DEF TrimOK
    <3>2. CASE v # w
      <4>1. job[v].arg \in Nat /\ Rows(t)' \in SUBSET Rows(t)
        BY <2>3, ArgIs
      <4>2. Takes(Rows(t)', job[v]) <= Takes(Rows(t), job[v]) /\ IsFiniteSet(Rows(t)')
        BY <2>4, <4>1, TakesFewer
      <4>3. Takes(Rows(t)', job[v]) \in Nat
        BY <2>4, <4>1, <4>2, TakesIs
      <4>4. \E n \in Int : n = Takes(Rows(t)', job[v]) /\ n <= Takes(Rows(t), job[v])
        BY <4>2, <4>3
      <4>5. QED  BY <1>3, <2>3, <3>2, <4>1, <4>4, TrimStays DEF TableOK
    <3>3. QED  BY <3>1, <3>2
  <2>12. Kept(t)'
    <3>1. \A i \in Newest(Ever(t), Spared) : i \in gone' => i \in gone
      <4>1. \A i \in Newest(Ever(t), Spared) : log[i] = t
        BY DEF Newest, Ever
      <4>2. QED  BY <4>1
    <3>2. aged \in Nat
      BY DEF LogsInv, TypeOK
    <3>3. QED  BY <2>3, <2>4, <3>1, <3>2, KeptStays DEF TableOK
  <2>13. QED  BY <2>10, <2>11, <2>12 DEF TableOK
<1>6. QED  BY <1>4, <1>5

LEMMA DeleteKeeps ==
    ASSUME LogsInv, \A t \in Table : TableOK(t), NEW w \in Worker, Delete(w)
    PROVE  \A t \in Table : TableOK(t)'
<1>1. /\ job[w].pc = "delete" /\ Done(w) /\ log' = log /\ aged' = aged
      /\ gone' = gone \cup Upto(w) /\ job[w] \in Job
  BY ArgIs DEF Delete, At
<1>2. PICK to : to = job[w].to
  OBVIOUS
<1>3. PICK upto \in Nat : upto = job[w].arg
  BY ArgIs
<1>4. Upto(w) = {i \in Rows(to) : i <= upto}
  BY <1>2, <1>3 DEF Upto
<1>5. w \in Trimmers(to)
  BY <1>1, <1>2 DEF Trimmers
<1>6. /\ IsFiniteSet(Rows(to)) /\ Rows(to) \in SUBSET Nat
      /\ IsFiniteSet(Ever(to)) /\ Ever(to) \in SUBSET Nat /\ Rows(to) \subseteq Ever(to)
  BY SetsAre DEF Rows, Ever
<1> DEFINE high == {i \in Rows(to) : i > upto}
<1>7. /\ Left(Rows(to), job[w]) = Cardinality(high) /\ Takes(Rows(to), job[w]) \in Nat
      /\ Cardinality(Rows(to)) \in Nat
      /\ Left(Rows(to), job[w]) = Cardinality(Rows(to)) - Takes(Rows(to), job[w])
  BY <1>1, <1>3, <1>6, TakesIs DEF Left
<1>8. IsFiniteSet(high) /\ Cardinality(high) \in Nat
  BY <1>6, FS_Subset, FS_CardinalityType
<1>9. ASSUME to \in Table PROVE Cardinality(high) >= Spared /\ Takes(Rows(to), job[w]) <= Most
  <2>1. Short(to) /\ \A v \in Worker : TrimOK(to, v)
    BY <1>9 DEF TableOK
  <2>2. QED  BY <1>5, <1>7, <2>1, LeavesSpared DEF TrimOK
<1>10. ASSUME to \in Table, NEW i \in Upto(w)
       PROVE  log[i] = to /\ i \notin Newest(Ever(to), Spared)
  <2> DEFINE above == {k \in Ever(to) : k > i}
  <2>1. high \subseteq above
    <3>1. i \in Nat /\ i <= upto
      BY <1>4, <1>6, <1>10
    <3>2. ASSUME NEW k \in high PROVE k \in Ever(to) /\ k > i
      <4>1. k \in Nat /\ k > upto
        BY <1>6
      <4>2. QED  BY <1>6, <3>1, <4>1
    <3>3. QED  BY <3>2
  <2>2. IsFiniteSet(above)
    BY <1>6, FS_Subset
  <2>3. Cardinality(high) <= Cardinality(above) /\ Cardinality(above) \in Nat
    <3> HIDE DEF high, above
    <3> QED  BY <2>1, <2>2, FS_Subset, FS_CardinalityType
  <2>4. ~ (Cardinality(above) < Spared)
    <3> HIDE DEF high, above
    <3> QED  BY <1>8, <1>9, <1>10, <2>3, MostIs
  <2>5. QED  BY <1>4, <1>10, <2>4 DEF Newest, Rows
<1>11. SUFFICES ASSUME NEW t \in Table PROVE TableOK(t)'
  OBVIOUS
<1>12. CASE to \in Table
  <2>1. \A i \in gone' : i \in gone \/ (log[i] = job[w].to /\ i \notin Newest(Ever(log[i]), Spared))
    BY <1>1, <1>2, <1>10, <1>12
  <2>2. ASSUME t = job[w].to
        PROVE  \E c \in Nat : \E o \in Int :
                   /\ c = Cardinality(Rows(t)') /\ o = Left(Rows(t), job[w]) /\ c >= o
                   /\ c = o \/ c <= MaxRows
                   /\ Cardinality(Rows(t)) - c <= Most
    <3>1. Rows(t)' = high
      <4>1. Rows(t)' = {i \in Rows(t) : ~ (i <= upto)}
        BY <1>1, <1>2, <1>4, <2>2 DEF Rows, Drawn
      <4>2. \A i \in Rows(t) : ~ (i <= upto) <=> i > upto
        BY <1>2, <1>6, <2>2
      <4>3. QED  BY <1>2, <2>2, <4>1, <4>2
    <3>2. Cardinality(Rows(t)) - Cardinality(high) <= Most
      <4> HIDE DEF high
      <4> QED  BY <1>2, <1>7, <1>8, <1>9, <1>12, <2>2, MostIs
    <3> HIDE DEF high
    <3>3. Left(Rows(t), job[w]) = Cardinality(high)
      BY <1>2, <1>7, <2>2
    <3>4. PICK c \in Nat : c = Cardinality(high)
      BY <1>8
    <3>5. /\ c = Cardinality(Rows(t)') /\ c = Left(Rows(t), job[w]) /\ c >= c /\ c \in Int
          /\ Cardinality(Rows(t)) - c <= Most
      BY <3>1, <3>2, <3>3, <3>4
    <3>6. QED  BY <3>5
  <2>3. QED  BY <1>1, <2>1, <2>2, DoneKeeps
<1>13. CASE to \notin Table
  <2>1. Rows(to) = {}
    BY <1>13 DEF Rows, LogsInv, TypeOK, Drawn
  <2>2. Upto(w) = {} /\ t # job[w].to
    BY <1>2, <1>4, <1>13, <2>1
  <2>3. QED  BY <1>1, <2>2, DoneKeeps
<1>14. QED  BY <1>12, <1>13

LEMMA SelectKeeps ==
    ASSUME LogsInv, \A t \in Table : TableOK(t), NEW w \in Worker, SelectOldest(w)
    PROVE  \A t \in Table : TableOK(t)'
<1>1. /\ job[w].pc = "oldest" /\ log' = log /\ aged' = aged /\ gone' = gone
      /\ job[w] \in Job /\ aged \in Nat
  BY ArgIs DEF SelectOldest, At, table, LogsInv, TypeOK
<1>2. PICK to : to = job[w].to
  OBVIOUS
<1>3. PICK e \in Nat : e = job[w].arg
  BY ArgIs
<1>4. PICK upto : upto = Highest(Oldest(Rows(to), e))
  OBVIOUS
<1>5. IF upto > 0 THEN job' = [job EXCEPT ![w] = [pc |-> "delete", to |-> to, arg |-> upto]]
                  ELSE Done(w)
  BY <1>2, <1>3, <1>4 DEF SelectOldest
<1>6. /\ IsFiniteSet(Rows(to)) /\ Rows(to) \in SUBSET Nat /\ Cardinality(Rows(to)) \in Nat
      /\ Rows(to) \in SUBSET Seqs /\ Rows(to) \subseteq Drawn
      /\ Trimmers(to) \subseteq InFlight(to) /\ InFlight(to) \subseteq Worker
      /\ Ever(to) \subseteq Nat
  BY SetsAre, RowsAre DEF LogsInv
<1>7. w \in Trimmers(to) /\ w \in InFlight(to)
  BY <1>1, <1>2, <1>6 DEF Trimmers
<1>8. Left(Rows(to), job[w]) = Cardinality(Rows(to)) - e
  BY <1>1, <1>3 DEF Left, Takes
<1>9. to \in Table => e > 0 /\ e <= Most
  BY <1>1, <1>3, <1>7 DEF TableOK, TrimOK, Takes
<1>10. Oldest(Rows(to), e) \in SUBSET Seqs
  BY <1>6 DEF Oldest
<1>11. upto \in 0..MaxSeq
  BY <1>4, <1>10, HighestIs
<1>12. CASE to \notin Table \/ Rows(to) = {}
  <2>1. Rows(to) = {}
    BY <1>12 DEF Rows, LogsInv, TypeOK, Drawn
  <2>2. Oldest(Rows(to), e) = {}
    BY <2>1 DEF Oldest
  <2>3. upto = 0
    BY <1>4, <2>2 DEF Highest
  <2>4. Done(w)
    BY <1>5, <2>3
  <2> SUFFICES ASSUME NEW t \in Table PROVE TableOK(t)'
    OBVIOUS
  <2>5. ASSUME t = job[w].to
        PROVE  \E c \in Nat : \E o \in Int :
                   /\ c = Cardinality(Rows(t)') /\ o = Left(Rows(t), job[w]) /\ c >= o
                   /\ c = o \/ c <= MaxRows
                   /\ Cardinality(Rows(t)) - c <= Most
    <3>1. Rows(t)' = {} /\ Rows(t) = {} /\ Cardinality({}) = 0
      BY <1>1, <1>2, <2>1, <2>5, FS_EmptySet DEF Rows, Drawn
    <3>2. Cardinality(Rows(t)') = 0 /\ Cardinality(Rows(t)) = 0
      BY <3>1
    <3>3. Left(Rows(t), job[w]) = 0 - e
      BY <1>2, <1>8, <2>5, <3>2
    <3>4. 0 - e \in Int /\ 0 >= 0 - e /\ 0 <= MaxRows /\ 0 - 0 <= Most
      BY MostIs
    <3>5. QED  BY <3>2, <3>3, <3>4
  <2>6. QED  BY <1>1, <2>4, <2>5, DoneKeeps
<1>13. CASE to \in Table /\ Rows(to) # {}
  <2> DEFINE low == {i \in Rows(to) : i <= upto}
  <2>1. /\ upto \in Rows(to) /\ Cardinality(low) \in 0..e
        /\ low = Rows(to) \/ Cardinality(low) = e
    BY <1>4, <1>6, <1>9, <1>13, OldestAre
  <2>2. upto \in Nat /\ upto > 0
    BY <1>6, <2>1 DEF Seqs
  <2>3. PICK j : j = [pc |-> "delete", to |-> to, arg |-> upto]
    OBVIOUS
  <2>4. job' = [job EXCEPT ![w] = j] /\ j.pc = "delete" /\ j.to = to /\ j.arg = upto
    BY <1>5, <2>2, <2>3
  <2>5. job'[w] = j /\ \A v \in Worker \ {w} : job'[v] = job[v]
    BY <2>4 DEF LogsInv, TypeOK
  <2> SUFFICES ASSUME NEW t \in Table PROVE TableOK(t)'
    OBVIOUS
  <2>6. CASE t # to
    <3>1. w \notin InFlight(t)
      BY <1>2, <2>6 DEF InFlight
    <3>2. gone \subseteq gone' /\ \A i \in gone' : i \in gone \/ log[i] # t
      BY <1>1
    <3>3. QED  BY <1>1, <2>4, <2>6, <3>1, <3>2, OthersKeep
  <2>7. CASE t = to
    <3>1. Drawn' = Drawn /\ Ever(t)' = Ever(t) /\ Rows(t)' = Rows(t)
      BY <1>1 DEF Drawn, Ever, Rows
    <3>2. /\ InFlight(t)' = {v \in Worker : job'[v].pc \in Trimming /\ job'[v].to = t}
          /\ Trimmers(t)' = {v \in Worker : job'[v].pc \in {"oldest", "delete"} /\ job'[v].to = t}
      BY DEF InFlight, Trimmers, Trimming
    <3>3. InFlight(t)' = InFlight(t)
      BY <1>7, <2>4, <2>5, <2>7, <3>2 DEF InFlight, Trimming
    <3>4. Trimmers(t)' = Trimmers(t)
      BY <1>7, <2>4, <2>5, <2>7, <3>2 DEF Trimmers
    <3>5. Takes(Rows(t), job'[w]) = Cardinality(low)
      BY <2>4, <2>5, <2>7 DEF Takes
    <3>6. Left(Rows(t), job'[w]) = Cardinality(Rows(t)) - Cardinality(low)
      BY <3>5 DEF Left
    <3>7. Over(t)' /\ Short(t)'
      <4>1. PICK n \in Int : n = Cardinality(Rows(t)) - Cardinality(low)
        <5> HIDE DEF low
        <5> QED  BY <1>6, <2>1, <2>7
      <4>2. PICK o \in Int : o = Cardinality(Rows(t)) - e
        BY <1>6, <2>7
      <4>3. n >= o /\ (n = o \/ n <= MaxRows)
        <5>1. low = Rows(t) => n = 0
          BY <1>6, <2>7, <4>1
        <5> HIDE DEF low
        <5>2. QED  BY <1>6, <2>1, <2>7, <4>1, <4>2, <5>1
      <4>4. /\ Over(t) /\ Short(t) /\ w \in Trimmers(t)
            /\ \A v \in Trimmers(t) \ {w} : job'[v] = job[v]
        BY <1>6, <1>7, <2>5, <2>7 DEF TableOK
      <4>5. o = Left(Rows(t), job[w]) /\ n = Left(Rows(t), job'[w])
        BY <1>8, <2>7, <3>6, <4>1, <4>2
      <4>6. QED  BY <3>1, <3>3, <3>4, <4>3, <4>4, <4>5, SelectTrims
    <3>8. ASSUME NEW v \in Worker PROVE TrimOK(t, v)'
      <4>1. CASE v = w
        <5>1. Takes(Rows(t)', job'[w]) <= Most
          <6>1. Cardinality(low) <= Most
            <7> HIDE DEF low
            <7> QED  BY <1>9, <1>13, <2>1, MostIs
          <6>2. QED  BY <3>1, <3>5, <6>1
        <5>2. job'[w].pc = "delete" /\ job'[w].arg \in Drawn'
          BY <1>6, <2>1, <2>4, <2>5, <3>1
        <5>3. t = Audit => \A i \in Rows(t)' : i > aged'
          BY <1>1, <1>7, <2>7, <3>1 DEF TableOK, TrimOK
        <5>4. QED  BY <4>1, <5>1, <5>2, <5>3 DEF TrimOK
      <4>2. CASE v # w
        <5>1. Takes(Rows(t), job[v]) \in Nat
          BY <1>6, <2>7, ArgIs, TakesIs
        <5>2. \E n \in Int : n = Takes(Rows(t)', job[v]) /\ n <= Takes(Rows(t), job[v])
          BY <3>1, <5>1
        <5>3. QED  BY <1>1, <2>5, <3>1, <4>2, <5>2, TrimStays DEF TableOK
      <4>3. QED  BY <4>1, <4>2
    <3>9. Kept(t)'
      BY <1>1, <1>6, <2>7, <3>1, KeptStays DEF TableOK
    <3>10. QED  BY <3>7, <3>8, <3>9 DEF TableOK
  <2>8. QED  BY <2>6, <2>7
<1>14. QED  BY <1>12, <1>13

\* A request that trims nothing, before or after.
LEMMA AsideKeeps ==
    ASSUME LogsInv, \A t \in Table : TableOK(t), NEW w \in Worker, NEW j,
           job' = [job EXCEPT ![w] = j], job[w].pc \notin Trimming, j.pc \notin Trimming,
           log' = log, gone' = gone, aged' = aged
    PROVE  \A t \in Table : TableOK(t)'
<1> SUFFICES ASSUME NEW t \in Table PROVE TableOK(t)'
  OBVIOUS
<1>1. w \notin InFlight(t) /\ ~ (j.pc \in Trimming /\ j.to = t)
  BY DEF InFlight
<1>2. gone \subseteq gone' /\ \A i \in gone' : i \in gone \/ log[i] # t
  OBVIOUS
<1>3. QED  BY <1>1, <1>2, OthersKeep

\* Time passes only while nothing is under way.
LEMMA AgeKeeps ==
    ASSUME LogsInv, \A t \in Table : TableOK(t), Age
    PROVE  \A t \in Table : TableOK(t)'
<1> SUFFICES ASSUME NEW t \in Table PROVE TableOK(t)'
  OBVIOUS
<1>1. /\ \A v \in Worker : job[v].pc = "idle"
      /\ log' = log /\ gone' = gone /\ job' = job /\ aged \in Nat
  BY DEF Age, At, LogsInv, TypeOK
<1>2. aged' \in Nat /\ aged' >= aged
  <2>1. PICK i \in Rows(Audit) : aged' = i /\ i > aged
    BY DEF Age
  <2>2. i \in Nat
    BY <2>1, SetsAre
  <2>3. QED  BY <1>1, <2>1, <2>2
<1>3. Drawn' = Drawn /\ Ever(t)' = Ever(t) /\ Rows(t)' = Rows(t) /\ Ever(t) \subseteq Nat
  BY <1>1, SetsAre DEF Drawn, Ever, Rows
<1>4. /\ InFlight(t) = {} /\ Trimmers(t) = {} /\ InFlight(t)' = {} /\ Trimmers(t)' = {}
  BY <1>1 DEF InFlight, Trimmers, Trimming
<1>5. Over(t)' /\ Short(t)'
  BY <1>3, <1>4, SameTrims DEF TableOK
<1>6. \A v \in Worker : TrimOK(t, v)'
  BY <1>4 DEF TrimOK
<1>7. Kept(t)'
  BY <1>1, <1>2, <1>3, KeptStays DEF TableOK
<1>8. QED  BY <1>5, <1>6, <1>7 DEF TableOK

LEMMA TrimInit == Init => TrimInv
<1> SUFFICES ASSUME Init, NEW t \in Table PROVE TableOK(t)
  BY DEF TrimInv
<1>1. Drawn = {} /\ \A v \in Worker : job[v].pc = "idle"
  BY DEF Init, Drawn, Idle
<1>2. Rows(t) = {} /\ Ever(t) = {} /\ Trimmers(t) = {} /\ InFlight(t) = {}
  BY <1>1 DEF Rows, Ever, Trimmers, InFlight, Trimming
<1>3. Over(t)
  <2>1. \A s \in SUBSET Trimmers(t) : InFlight(t) \ s = {}
    BY <1>2
  <2>2. Cardinality({}) = 0 /\ 0 <= MaxRows + 0
    BY FS_EmptySet
  <2>3. QED  BY <1>2, <2>1, <2>2 DEF Over
<1>4. Short(t) /\ Kept(t) /\ \A w \in Worker : TrimOK(t, w)
  BY <1>2 DEF Short, Kept, Newest, TrimOK
<1>5. QED  BY <1>3, <1>4 DEF TableOK

LEMMA TrimNext == LogsInv /\ TrimInv /\ [Next]_vars => TrimInv'
<1> SUFFICES ASSUME LogsInv, TrimInv, [Next]_vars, fault' = "none" PROVE \A t \in Table : TableOK(t)'
  BY DEF TrimInv
<1>1. fault = "none"
  <2>1. fault \in Fault
    BY DEF LogsInv, TypeOK
  <2>2. CASE UNCHANGED vars
    BY <2>2 DEF vars
  <2>3. CASE Next
    BY <2>1, <2>3 DEF Next, AppendEntry, Push, MarkAllRead, MarkRead, Prune, Count, SelectOldest,
        Delete, Flip, FlipAll, Bump, Fail, Subscribe, Snapshot, Changed, Since, ListAuditLog,
        Page, Age, Crash, Fault
  <2>4. QED  BY <2>2, <2>3
<1>2. \A t \in Table : TableOK(t)
  BY <1>1 DEF TrimInv
<1>3. ASSUME job' = job, table' = table PROVE \A t \in Table : TableOK(t)'
  BY <1>2, <1>3, NobodyTrims
<1>4. CASE UNCHANGED vars
  BY <1>3, <1>4 DEF vars, table
<1>5. ASSUME NEW w \in Worker, AppendEntry(w) PROVE \A t \in Table : TableOK(t)'
  <2>1. /\ At(w, "idle") /\ Insert(Audit) /\ Audit \in Table /\ gone' = gone /\ aged' = aged
        /\ job' = [job EXCEPT ![w] = [pc |-> "prune", to |-> Audit, arg |-> 0]]
    BY <1>5 DEF AppendEntry, Table
  <2>2. QED  BY <1>2, <2>1, InsertKeeps
<1>6. ASSUME NEW w \in Worker, NEW u \in User, Push(w, u) PROVE \A t \in Table : TableOK(t)'
  <2>1. /\ At(w, "idle") /\ Insert(u) /\ u \in Table /\ u # Audit /\ gone' = gone /\ aged' = aged
        /\ job' = [job EXCEPT ![w] = [pc |-> "count", to |-> u, arg |-> 0]]
    BY <1>6, LogsAssumption DEF Push, Table
  <2>2. QED  BY <1>2, <2>1, InsertKeeps
<1>7. ASSUME NEW w \in Worker, NEW u \in User, MarkAllRead(w, u)
      PROVE  \A t \in Table : TableOK(t)'
  <2>1. PICK j : j = [pc |-> "flip all", to |-> u, arg |-> 0]
    OBVIOUS
  <2>2. /\ job' = [job EXCEPT ![w] = j] /\ job[w].pc \notin Trimming /\ j.pc \notin Trimming
        /\ log' = log /\ gone' = gone /\ aged' = aged
    BY <1>7, <2>1 DEF MarkAllRead, At, Trimming, table
  <2>3. QED  BY <1>2, <2>2, AsideKeeps
<1>8. ASSUME NEW w \in Worker, NEW u \in User, NEW i \in Drawn, MarkRead(w, u, i)
      PROVE  \A t \in Table : TableOK(t)'
  <2>1. PICK j : j = [pc |-> "flip", to |-> u, arg |-> i]
    OBVIOUS
  <2>2. /\ job' = [job EXCEPT ![w] = j] /\ job[w].pc \notin Trimming /\ j.pc \notin Trimming
        /\ log' = log /\ gone' = gone /\ aged' = aged
    BY <1>8, <2>1 DEF MarkRead, At, Trimming, table
  <2>3. QED  BY <1>2, <2>2, AsideKeeps
<1>9. ASSUME NEW w \in Worker, Flip(w) \/ FlipAll(w) \/ Bump(w)
      PROVE  \A t \in Table : TableOK(t)'
  <2>1. /\ job' = [job EXCEPT ![w] = Idle] /\ job[w].pc \notin Trimming /\ Idle.pc \notin Trimming
        /\ log' = log /\ gone' = gone /\ aged' = aged
    BY <1>9 DEF Flip, FlipAll, Bump, Return, At, Trimming, table, Idle
  <2>2. QED  BY <1>2, <2>1, AsideKeeps
<1>10. ASSUME NEW w \in Worker, Fail(w) PROVE FALSE
  BY <1>10 DEF Fail
<1>11. ASSUME NEW c \in Client,
              \/ Subscribe(c) \/ Snapshot(c) \/ Changed(c) \/ Since(c)
              \/ ListAuditLog(c) \/ Page(c)
       PROVE  \A t \in Table : TableOK(t)'
  BY <1>3, <1>11 DEF Subscribe, Snapshot, Changed, Since, ListAuditLog, Page
<1>12. CASE Crash
  BY <1>12 DEF Crash
<1>13. QED
  BY <1>2, <1>4, <1>5, <1>6, <1>7, <1>8, <1>9, <1>10, <1>11, <1>12, PruneKeeps, CountKeeps,
     SelectKeeps, DeleteKeeps, AgeKeeps DEF Next

\* "The oldest beyond this are pruned": whatever trims overlap, each having
\* counted the others' surplus too, the newest rows of the audit log and of
\* every inbox are never deleted, but for entries past the window.
THEOREM NewestKeptHolds == Spec => []NewestKept
<1>1. Init => LogsInv /\ TrimInv
  BY LogsInit, TrimInit
<1>2. LogsInv /\ TrimInv /\ [Next]_vars => (LogsInv /\ TrimInv)'
  BY LogsNext, TrimNext
<1>3. LogsInv /\ TrimInv => NewestKept
  BY DEF LogsInv, TrimInv, TableOK, Kept, Ever, NewestKept
<1>4. QED  BY <1>1, <1>2, <1>3, PTL DEF Spec
=============================================================================
