-------------------------------- MODULE Logs --------------------------------
(***************************************************************************)
(* The two tables that only grow and are trimmed as they do: the audit log *)
(* (src/db/audit.rs) and the users' inboxes (src/db/notifications.rs), and *)
(* the readers of the audit log: the stream of src/services/mod.rs and the *)
(* pages of src/services/firmware.rs.  A statement is an action.  Both     *)
(* tables number their rows in the order they are inserted; here one       *)
(* counter serves both, since only the order of one table's rows is read.  *)
(***************************************************************************)
EXTENDS Naturals, Sequences, FiniteSets

CONSTANTS
    Worker,      \* appends, pushes and read marks in progress
    Client,      \* readers of the audit log
    User,
    Audit,       \* the audit log, as the table a row is of
    MaxRows,     \* MAX_ROWS, MAX_PER_USER
    SinceCap,    \* SINCE_CAP
    Limit,       \* of a snapshot or a page
    MaxSeq,      \* bound: rows ever inserted
    Wanted,      \* the entries of the category a page reader asks for
    Nil

Table == User \cup {Audit}
Seqs == 1..MaxSeq

ASSUME LogsAssumption ==
    /\ IsFiniteSet(Worker)
    /\ Audit \notin User /\ Nil \notin Table
    /\ MaxSeq \in Nat /\ Wanted \subseteq Seqs
    /\ MaxRows \in Nat \ {0} /\ SinceCap \in Nat \ {0} /\ Limit \in Nat \ {0}

VARIABLES
    log,         \* history: the table of every row inserted, at its seq
    gone,        \* the rows deleted since
    read,        \* the notices marked read
    aged,        \* entries up to this seq are past RETENTION_SECS
    job,         \* what each request is doing
    reader,      \* what each reader has been sent
    fault        \* history: the one fault a behaviour may have

table == <<log, gone, read, aged>>
vars == <<log, gone, read, aged, job, reader, fault>>

Drawn == DOMAIN log

Rows(t) == {i \in Drawn : log[i] = t} \ gone

Statements == {"prune", "count", "oldest", "delete", "flip", "flip all"}

Job == [pc : Statements \cup {"idle", "bump"},
        to : Table \cup {Nil},
        arg : 0..MaxSeq]         \* the surplus, the bound, or the notice

Idle == [pc |-> "idle", to |-> Nil, arg |-> 0]

Reader == [pc : {"off", "snapshot", "wait", "since", "page", "paged"},
           cursor : 0..MaxSeq,     \* last_seq of a stream, before of a page
           dirty : BOOLEAN,        \* bumped since the stream last looked
           seen : SUBSET Seqs,     \* sent before the last message
           sent : SUBSET Seqs,     \* the last message
           owed : SUBSET Seqs]     \* history: there when the first page was asked
                                   \* for; or cut off a batch by SINCE_CAP

\* A statement or the process failed; until the next bump, the streams have not
\* been told of an entry.
Fault == {"none", "unsaid", "past"}

Closed == [pc |-> "off", cursor |-> 0, dirty |-> FALSE, seen |-> {}, sent |-> {},
           owed |-> {}]

TypeOK ==
    /\ log \in Seq(Table) /\ Len(log) <= MaxSeq
    /\ gone \subseteq Drawn /\ read \subseteq Drawn /\ aged \in 0..Len(log)
    /\ job \in [Worker -> Job]
    /\ reader \in [Client -> Reader]
    /\ fault \in Fault

Init ==
    /\ log = <<>> /\ gone = {} /\ read = {} /\ aged = 0
    /\ job = [w \in Worker |-> Idle]
    /\ reader = [c \in Client |-> Closed]
    /\ fault = "none"

At(w, pc) == job[w].pc = pc

Goto(w, pc) == job' = [job EXCEPT ![w].pc = pc]

Return(w) == job' = [job EXCEPT ![w] = Idle]

\* Only the bump is left to do; nothing here waits on the inboxes' counter.
Done(w) ==
    job' = [job EXCEPT ![w] =
                IF @.to = Audit THEN [pc |-> "bump", to |-> Audit, arg |-> 0] ELSE Idle]

\* The n smallest, or largest, of s: ORDER BY .seq LIMIT n.
Oldest(s, n) == {i \in s : Cardinality({j \in s : j < i}) < n}
Newest(s, n) == {i \in s : Cardinality({j \in s : j > i}) < n}

Highest(s) == IF s = {} THEN 0 ELSE CHOOSE i \in s : \A j \in s : j <= i
Lowest(s) == IF s = {} THEN 0 ELSE CHOOSE i \in s : \A j \in s : i <= j

-----------------------------------------------------------------------------
(* Appending, with the trim folded in *)

Insert(t) == Len(log) < MaxSeq /\ log' = Append(log, t)

\* Audit::append.
AppendEntry(w) ==
    /\ At(w, "idle")
    /\ Insert(Audit)
    /\ job' = [job EXCEPT ![w] = [pc |-> "prune", to |-> Audit, arg |-> 0]]
    /\ UNCHANGED <<gone, read, aged, reader, fault>>

\* Notifications::push: no window, and the cap is the user's.
Push(w, u) ==
    /\ At(w, "idle")
    /\ Insert(u)
    /\ job' = [job EXCEPT ![w] = [pc |-> "count", to |-> u, arg |-> 0]]
    /\ UNCHANGED <<gone, read, aged, reader, fault>>

Prune(w) ==
    /\ At(w, "prune")
    /\ gone' = gone \cup {i \in Rows(Audit) : i <= aged}
    /\ Goto(w, "count")
    /\ UNCHANGED <<log, read, aged, reader, fault>>

\* Slip: room made for an entry that is already in.
SurplusOrAt(n) == IF n >= MaxRows THEN n + 1 - MaxRows ELSE 0

Surplus(n) == IF n > MaxRows THEN n - MaxRows ELSE 0

\* Slip: a log under its cap left without the bump.
CountOrReturn(w) ==
    /\ At(w, "count")
    /\ LET extra == Surplus(Cardinality(Rows(job[w].to)))
       IN  IF extra > 0
           THEN job' = [job EXCEPT ![w] = [pc |-> "oldest", to |-> @.to, arg |-> extra]]
           ELSE Return(w)
    /\ UNCHANGED <<table, reader, fault>>

Count(w) ==
    /\ At(w, "count")
    /\ LET extra == Surplus(Cardinality(Rows(job[w].to)))
       IN  IF extra > 0
           THEN job' = [job EXCEPT ![w] = [pc |-> "oldest", to |-> @.to, arg |-> extra]]
           ELSE Done(w)
    /\ UNCHANGED <<table, reader, fault>>

SelectOldest(w) ==
    /\ At(w, "oldest")
    /\ LET upto == Highest(Oldest(Rows(job[w].to), job[w].arg))
       IN  IF upto > 0
           THEN job' = [job EXCEPT ![w] = [pc |-> "delete", to |-> @.to, arg |-> upto]]
           ELSE Done(w)
    /\ UNCHANGED <<table, reader, fault>>

\* Slip: the bound without the username.
UptoOfAll(w) == {i \in Drawn \ gone : i <= job[w].arg}

\* The rows the delete takes, by their bound, whatever has come or gone since.
Upto(w) == {i \in Rows(job[w].to) : i <= job[w].arg}

Delete(w) ==
    /\ At(w, "delete")
    /\ gone' = gone \cup Upto(w)
    /\ Done(w)
    /\ UNCHANGED <<log, read, aged, reader, fault>>

\* Ninety days pass for the oldest entries; no request takes so long.
Age ==
    /\ \A w \in Worker : At(w, "idle")
    /\ \E i \in Rows(Audit) : aged' = i /\ i > aged
    /\ UNCHANGED <<log, gone, read, job, reader, fault>>

-----------------------------------------------------------------------------
(* Read marks *)

\* mark_read looks the row up, and flips it in a second statement.
MarkRead(w, u, i) ==
    /\ At(w, "idle")
    /\ i \in Rows(u) \ read
    /\ job' = [job EXCEPT ![w] = [pc |-> "flip", to |-> u, arg |-> i]]
    /\ UNCHANGED <<table, reader, fault>>

Flip(w) ==
    /\ At(w, "flip")
    /\ read' = read \cup ({job[w].arg} \ gone)
    /\ Return(w)
    /\ UNCHANGED <<log, gone, aged, reader, fault>>

MarkAllRead(w, u) ==
    /\ At(w, "idle")
    /\ job' = [job EXCEPT ![w] = [pc |-> "flip all", to |-> u, arg |-> 0]]
    /\ UNCHANGED <<table, reader, fault>>

FlipAll(w) ==
    /\ At(w, "flip all")
    /\ read' = read \cup Rows(job[w].to)
    /\ Return(w)
    /\ UNCHANGED <<log, gone, aged, reader, fault>>

-----------------------------------------------------------------------------
(* Readers of the audit log *)

Bump(w) ==
    /\ At(w, "bump")
    /\ reader' = [c \in Client |-> IF reader[c].pc \in {"snapshot", "wait", "since"}
                                   THEN [reader[c] EXCEPT !.dirty = TRUE] ELSE reader[c]]
    /\ fault' = IF fault = "unsaid" THEN "past" ELSE fault
    /\ Return(w)
    /\ UNCHANGED table

\* audit_stream subscribes as it is called, before it first looks.
Subscribe(c) ==
    /\ reader[c].pc = "off"
    /\ reader' = [reader EXCEPT ![c].pc = "snapshot"]
    /\ UNCHANGED <<table, job, fault>>

Snapshot(c) ==
    /\ reader[c].pc = "snapshot"
    /\ reader' = [reader EXCEPT ![c].pc = "wait",
                      ![c].sent = Newest(Rows(Audit), Limit),
                      ![c].cursor = Highest(Rows(Audit))]
    /\ UNCHANGED <<table, job, fault>>

\* changed() marks the generation seen, and the rows are read after it.
Changed(c) ==
    /\ reader[c].pc = "wait" /\ reader[c].dirty
    /\ reader' = [reader EXCEPT ![c].pc = "since", ![c].dirty = FALSE,
                      ![c].seen = @ \cup reader[c].sent, ![c].sent = {}]
    /\ UNCHANGED <<table, job, fault>>

After(cursor) == {i \in Rows(Audit) : i > cursor}

\* Slip: the cursor moved to the last entry of the batch, which is its oldest.
ResumeLast(batch, cursor) == IF batch = {} THEN cursor ELSE Lowest(batch)

\* The cursor moves to the first of the batch, its newest, if there is one.
Resume(batch, cursor) == IF batch = {} THEN cursor ELSE Highest(batch)

Since(c) ==
    /\ reader[c].pc = "since"
    /\ LET batch == Newest(After(reader[c].cursor), SinceCap)
       IN  reader' = [reader EXCEPT ![c].pc = "wait", ![c].sent = batch,
                          ![c].cursor = Resume(batch, @),
                          ![c].owed = @ \cup (After(reader[c].cursor) \ batch)]
    /\ UNCHANGED <<table, job, fault>>

\* list_audit_log from the newest on.
ListAuditLog(c) ==
    /\ reader[c].pc = "off"
    /\ reader' = [reader EXCEPT ![c].pc = "page", ![c].owed = Rows(Audit)]
    /\ UNCHANGED <<table, job, fault>>

Before(cursor) == {i \in Rows(Audit) : cursor = 0 \/ i < cursor}

\* Slip: a page short of entries that match taken for the last.
NextCursorOfWanted(page) == IF Cardinality(page \cap Wanted) < Limit THEN 0 ELSE Lowest(page \cap Wanted)

\* A short page is the last; a full one resumes from its smallest seq.
NextCursor(page) == IF Cardinality(page) < Limit THEN 0 ELSE Lowest(page)

Page(c) ==
    /\ reader[c].pc = "page"
    /\ LET page == Newest(Before(reader[c].cursor), Limit)
       IN  reader' = [reader EXCEPT ![c].pc = IF NextCursor(page) = 0 THEN "paged" ELSE "page",
                          ![c].cursor = NextCursor(page),
                          ![c].seen = @ \cup (page \cap Wanted)]
    /\ UNCHANGED <<table, job, fault>>

-----------------------------------------------------------------------------

\* A statement after the insert fails: the error is logged and the row stays,
\* untrimmed and unannounced.
Fail(w) ==
    /\ fault = "none"
    /\ job[w].pc \in Statements
    /\ fault' = IF job[w].to = Audit THEN "unsaid" ELSE "past"
    /\ Return(w)
    /\ UNCHANGED <<table, reader>>

\* The process dies: requests and streams go, the tables stay.
Crash ==
    /\ fault = "none"
    /\ job' = [w \in Worker |-> Idle]
    /\ reader' = [c \in Client |-> Closed]
    /\ fault' = "past"
    /\ UNCHANGED table

Next ==
    \/ \E w \in Worker :
          \/ AppendEntry(w)
          \/ \E u \in User : Push(w, u) \/ MarkAllRead(w, u)
          \/ \E u \in User, i \in Drawn : MarkRead(w, u, i)
          \/ Prune(w) \/ Count(w) \/ SelectOldest(w) \/ Delete(w)
          \/ Flip(w) \/ FlipAll(w) \/ Bump(w) \/ Fail(w)
    \/ \E c \in Client :
          Subscribe(c) \/ Snapshot(c) \/ Changed(c) \/ Since(c)
              \/ ListAuditLog(c) \/ Page(c)
    \/ Age
    \/ Crash

Spec == Init /\ [][Next]_vars

-----------------------------------------------------------------------------
(* Properties *)

\* "The oldest beyond this are pruned": trims at once count each other's
\* surplus, and each deletes as much as it counted, but they never reach the
\* newest rows.  Of MaxRows, n requests at once can lose n * (n - 1) too many.
\* (Checked with the types.)
Spared == MaxRows - Cardinality(Worker) * (Cardinality(Worker) - 1)

NewestKept ==
    /\ TypeOK
    /\ fault = "none" =>
           \A t \in Table : \A i \in Newest({j \in Drawn : log[j] = t}, Spared) :
               i \in gone => t = Audit /\ i <= aged

\* A trim deletes by an id bound, of ids that all inboxes share, and a mark
\* goes by id alone: yet no request touches another table's rows than its own.
OthersUntouched ==
    [][\A i \in Drawn : i \in (gone' \ gone) \cup (read' \ read) =>
           \E w \in Worker : job[w].to = log[i] /\ job'[w] # job[w]]_vars

\* What a stream's client has: an unbroken run of entries up to the cursor, in
\* the order they were made, none twice.  Only a burst past SINCE_CAP between
\* two looks is cut, at its oldest end.
FeedUnbroken ==
    \A c \in Client : reader[c].pc \in {"wait", "since"} =>
        LET r == reader[c]
        IN  /\ \A i \in r.seen, j \in r.sent : i < j
            /\ \A i \in Rows(Audit) \ (r.owed \cup r.seen \cup r.sent) :
                   i > r.cursor \/ \A j \in r.seen \cup r.sent : i < j

\* An entry whose announcement is due.
Owed == fault = "unsaid" \/ \E w \in Worker : job[w].to = Audit

\* "An append landing in the gap is picked up by the next since": a stream that
\* waits, with nothing to wake it, has read up to the newest entry.
WaitsAtTheEnd ==
    ~Owed => \A c \in Client :
        reader[c].pc = "wait" /\ ~reader[c].dirty => After(reader[c].cursor) = {}

\* "Paging past it works": a reader that follows the cursors until there are no
\* more has had every matching entry that was there from first to last,
\* whatever was appended, pruned or filtered out meanwhile.
PagesComplete ==
    \A c \in Client : reader[c].pc = "paged" =>
        reader[c].owed \cap Rows(Audit) \cap Wanted \subseteq reader[c].seen
=============================================================================
