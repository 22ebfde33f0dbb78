------------------------------- MODULE Review -------------------------------
(***************************************************************************)
(* Submissions and their review (publish_firmware and                      *)
(* review_staged_firmware of src/services/firmware.rs), with the           *)
(* submitters' ledger (src/db/submissions.rs), the followers of a device   *)
(* and the inboxes.  The store appears as its index alone: each of stage,  *)
(* approve and reject takes effect in one step (module Store has their     *)
(* inside).  Database statements are atomic, the methods made of several   *)
(* are not.                                                                *)
(***************************************************************************)
EXTENDS Naturals, FiniteSets

CONSTANTS
    Worker,          \* requests in progress
    User,
    Key,             \* device and version
    Device,
    DeviceOf,        \* the device of a key
    MaxRows,         \* MAX_PER_USER of the ledger
    MaxSubmissions,  \* bound on the submissions of a behaviour
    Nil

ASSUME ReviewAssumption ==
    /\ DeviceOf \in [Key -> Device]
    /\ MaxRows \in Nat \ {0} /\ MaxSubmissions \in Nat
    /\ IsFiniteSet(Worker) /\ Nil \notin User

VARIABLES
    staged,    \* index.staged: who submitted what awaits review
    live,      \* index.live, with who submitted it
    ledger,    \* submissions rows of each user
    follows,   \* follows rows: the users following a device
    inbox,     \* notifications rows: how many of each
    job,       \* what each request is doing
    clock,     \* submitted_at of the latest record
    recorded,  \* history: submitted_at of each user's latest record of a version
    count,     \* history: submissions so far
    overlap,   \* history: two requests have been in progress at once
    died       \* history: a request has died, or a statement failed

vars == <<staged, live, ledger, follows, inbox, job, clock, recorded, count, overlap, died>>

Status == {"PENDING", "APPROVED", "REJECTED"}

Notice == {"SUBMISSION_APPROVED", "SUBMISSION_REJECTED", "NEW_FIRMWARE"} \X Key

Time == 0..MaxSubmissions

Row == [key : Key, status : Status, at : Time]

Job == [pc : {"idle", "present", "write", "count", "oldest", "delete",
              "review", "notify", "followers", "fan", "mark", "stamp"},
        user : User \cup {Nil}, key : Key \cup {Nil}, approve : BOOLEAN, present : BOOLEAN,
        now : Time, extra : Nat, rows : SUBSET Row, rest : SUBSET User]

Idle == [pc |-> "idle", user |-> Nil, key |-> Nil, approve |-> FALSE, present |-> FALSE,
         now |-> 0, extra |-> 0, rows |-> {}, rest |-> {}]

TypeOK ==
    /\ staged \in [Key -> User \cup {Nil}]
    /\ live \in [Key -> User \cup {Nil}]
    /\ ledger \in [User -> SUBSET Row]
    /\ follows \in [Device -> SUBSET User]
    /\ inbox \in [User -> [Notice -> Nat]]
    /\ job \in [Worker -> Job]
    /\ \A w \in Worker :
          /\ job[w].pc = "oldest" => job[w].extra > 0
          /\ job[w].pc = "delete" => job[w].rows # {}
          /\ job[w].pc \in {"notify", "mark", "stamp"} => job[w].user # Nil
    /\ recorded \in [User -> [Key -> Time]]
    /\ clock \in Time /\ count \in Time
    /\ overlap \in BOOLEAN /\ died \in BOOLEAN

Init ==
    /\ staged = [k \in Key |-> Nil]
    /\ live = [k \in Key |-> Nil]
    /\ ledger = [u \in User |-> {}]
    /\ follows = [d \in Device |-> {}]
    /\ inbox = [u \in User |-> [n \in Notice |-> 0]]
    /\ job = [w \in Worker |-> Idle]
    /\ recorded = [u \in User |-> [k \in Key |-> 0]]
    /\ clock = 0 /\ count = 0
    /\ overlap = FALSE /\ died = FALSE

store == <<staged, live>>
history == <<recorded, count, overlap, died>>

At(w, pc) == job[w].pc = pc

Goto(w, pc) == job' = [job EXCEPT ![w].pc = pc]

Return(w) == job' = [job EXCEPT ![w] = Idle]

Busy == {w \in Worker : ~At(w, "idle")}

HasRow(u, k) == \E r \in ledger[u] : r.key = k

Without(rows, k) == {r \in rows : r.key # k}

-----------------------------------------------------------------------------
(* publish_firmware: stage, then record the submission *)

Stage(w, u, k) ==
    /\ At(w, "idle")
    /\ count < MaxSubmissions
    /\ live[k] = Nil
    /\ staged' = [staged EXCEPT ![k] = u]
    /\ job' = [job EXCEPT ![w] = [Idle EXCEPT !.pc = "present", !.user = u, !.key = k]]
    /\ count' = count + 1
    /\ overlap' = (overlap \/ Busy # {})
    /\ UNCHANGED <<live, ledger, follows, inbox, clock, recorded, died>>

\* The clock is read first, and stands for submitted_at: finer than seconds, so
\* no two records have one time.  It ends with the submissions.
Present(w) ==
    /\ At(w, "present")
    /\ clock < MaxSubmissions
    /\ clock' = clock + 1
    /\ job' = [job EXCEPT ![w] = [@ EXCEPT !.pc = "write", !.now = clock + 1,
                                          !.present = HasRow(job[w].user, job[w].key)]]
    /\ UNCHANGED <<store, ledger, follows, inbox, history>>

\* The row of the coordinate, given what there is of it.
Put(w, rest) ==
    LET u == job[w].user
        k == job[w].key
    IN  /\ ledger' = [ledger EXCEPT ![u] =
                rest \cup {[key |-> k, status |-> "PENDING", at |-> job[w].now]}]
        /\ recorded' = [recorded EXCEPT ![u] = [@ EXCEPT ![k] = job[w].now]]
        /\ Goto(w, "count")

\* Slip: a re-submission keeps the old verdict.
WriteKeep(w) ==
    /\ At(w, "write")
    /\ LET u == job[w].user
           k == job[w].key
           old == {r \in ledger[u] : r.key = k}
       IN  /\ ledger' = [ledger EXCEPT ![u] = Without(@, k) \cup
                    {[key |-> k, at |-> job[w].now,
                      status |-> IF old = {} THEN "PENDING" ELSE (CHOOSE r \in old : TRUE).status]}]
           /\ recorded' = [recorded EXCEPT ![u] = [@ EXCEPT ![k] = job[w].now]]
    /\ Goto(w, "count")
    /\ UNCHANGED <<store, follows, inbox, clock, count, overlap, died>>

\* Slip: no primary key over the coordinate.
WriteUnkeyed(w) ==
    /\ At(w, "write")
    /\ Put(w, IF job[w].present THEN Without(ledger[job[w].user], job[w].key)
                                ELSE ledger[job[w].user])
    /\ UNCHANGED <<store, follows, inbox, clock, count, overlap, died>>

\* An UPDATE of a row since trimmed changes nothing; a CREATE of one since
\* written fails, and the rest of record with it.
Write(w) ==
    /\ At(w, "write")
    /\ IF job[w].present = HasRow(job[w].user, job[w].key)
         THEN Put(w, Without(ledger[job[w].user], job[w].key))
         ELSE /\ UNCHANGED <<ledger, recorded>>
              /\ IF job[w].present THEN Goto(w, "count") ELSE Return(w)
    /\ UNCHANGED <<store, follows, inbox, clock, count, overlap, died>>

Extra(u) ==
    IF Cardinality(ledger[u]) > MaxRows THEN Cardinality(ledger[u]) - MaxRows ELSE 0

Count(w) ==
    /\ At(w, "count")
    /\ LET n == Extra(job[w].user)
       IN  IF n > 0
             THEN job' = [job EXCEPT ![w] = [@ EXCEPT !.pc = "oldest", !.extra = n]]
             ELSE Return(w)
    /\ UNCHANGED <<store, ledger, follows, inbox, clock, history>>

\* Slip: the newest.
NewestRows(u, n) == {r \in ledger[u] : Cardinality({q \in ledger[u] : q.at > r.at}) < n}

\* The first n rows by submitted_at, or as many as there are.
OldestRows(u, n) == {r \in ledger[u] : Cardinality({q \in ledger[u] : q.at < r.at}) < n}

Oldest(w) ==
    /\ At(w, "oldest")
    /\ LET rows == OldestRows(job[w].user, job[w].extra)
       IN  IF rows # {}
             THEN job' = [job EXCEPT ![w] = [@ EXCEPT !.pc = "delete", !.rows = rows]]
             ELSE Return(w)
    /\ UNCHANGED <<store, ledger, follows, inbox, clock, history>>

\* By coordinate, one statement a row, the oldest first.
Delete(w) ==
    /\ At(w, "delete")
    /\ \E r \in job[w].rows :
          /\ \A q \in job[w].rows : r.at <= q.at
          /\ ledger' = [ledger EXCEPT ![job[w].user] = Without(@, r.key)]
          /\ IF job[w].rows # {r} THEN job' = [job EXCEPT ![w].rows = @ \ {r}] ELSE Return(w)
    /\ UNCHANGED <<store, follows, inbox, clock, history>>

-----------------------------------------------------------------------------
(* review_staged_firmware *)

\* staged_submitter, before anything is decided.
Capture(w, k, approve) ==
    /\ At(w, "idle")
    /\ job' = [job EXCEPT ![w] = [Idle EXCEPT !.pc = "review", !.user = staged[k], !.key = k,
                                              !.approve = approve]]
    /\ overlap' = (overlap \/ Busy # {})
    /\ UNCHANGED <<store, ledger, follows, inbox, clock, recorded, count, died>>

\* Slip: only the followers told of an approval.
AfterReviewFan(w) ==
    IF job[w].approve THEN Goto(w, "followers")
    ELSE IF job[w].user # Nil THEN Goto(w, "notify") ELSE Return(w)

AfterReview(w) ==
    IF job[w].user # Nil THEN Goto(w, "notify")
    ELSE IF job[w].approve THEN Goto(w, "followers") ELSE Return(w)

\* Slip: an approval that failed goes on to notify and mark.
ReviewRegardless(w) ==
    /\ At(w, "review")
    /\ LET k == job[w].key
       IN  /\ staged' = [staged EXCEPT ![k] = Nil]
           /\ live' = IF job[w].approve /\ live[k] = Nil THEN [live EXCEPT ![k] = staged[k]] ELSE live
    /\ AfterReview(w)
    /\ UNCHANGED <<ledger, follows, inbox, clock, history>>

\* approve and reject fail on a coordinate that does not wait, or is live.
Decide(w) ==
    /\ At(w, "review")
    /\ LET k == job[w].key
       IN  IF staged[k] # Nil /\ ~(job[w].approve /\ live[k] # Nil)
             THEN /\ staged' = [staged EXCEPT ![k] = Nil]
                  /\ live' = IF job[w].approve THEN [live EXCEPT ![k] = staged[k]] ELSE live
                  /\ AfterReview(w)
             ELSE /\ staged' = [staged EXCEPT ![k] = Nil]
                  /\ UNCHANGED live
                  /\ Return(w)
    /\ UNCHANGED <<ledger, follows, inbox, clock, history>>

Push(u, kind, k) ==
    inbox' = [inbox EXCEPT ![u] = [inbox[u] EXCEPT ![<<kind, k>>] = inbox[u][<<kind, k>>] + 1]]

Notify(w) ==
    /\ At(w, "notify")
    /\ IF job[w].approve
         THEN Push(job[w].user, "SUBMISSION_APPROVED", job[w].key) /\ Goto(w, "followers")
         ELSE Push(job[w].user, "SUBMISSION_REJECTED", job[w].key) /\ Goto(w, "mark")
    /\ UNCHANGED <<store, ledger, follows, clock, history>>

\* Slip: the submitter told again as a follower.
EveryFollower(w) == follows[DeviceOf[job[w].key]]

ToldAsFollower(w) == follows[DeviceOf[job[w].key]] \ {job[w].user}

Followers(w) ==
    /\ At(w, "followers")
    /\ job' = [job EXCEPT ![w] = [@ EXCEPT !.pc = "fan", !.rest = ToldAsFollower(w)]]
    /\ UNCHANGED <<store, ledger, follows, inbox, clock, history>>

Fan(w) ==
    /\ At(w, "fan")
    /\ \/ \E u \in job[w].rest :
             /\ Push(u, "NEW_FIRMWARE", job[w].key)
             /\ job' = [job EXCEPT ![w].rest = @ \ {u}]
       \/ /\ job[w].rest = {}
          /\ IF job[w].user # Nil THEN Goto(w, "mark") ELSE Return(w)
          /\ UNCHANGED inbox
    /\ UNCHANGED <<store, ledger, follows, clock, history>>

Mark(w) ==
    /\ At(w, "mark")
    /\ IF HasRow(job[w].user, job[w].key) THEN Goto(w, "stamp") ELSE Return(w)
    /\ UNCHANGED <<store, ledger, follows, inbox, clock, history>>

Stamp(w) ==
    /\ At(w, "stamp")
    /\ LET verdict == IF job[w].approve THEN "APPROVED" ELSE "REJECTED"
       IN  ledger' = [ledger EXCEPT ![job[w].user] =
                {IF r.key = job[w].key THEN [r EXCEPT !.status = verdict] ELSE r : r \in @}]
    /\ Return(w)
    /\ UNCHANGED <<store, follows, inbox, clock, history>>

-----------------------------------------------------------------------------

\* follow_device: both ways idempotent.
Follow(u, d) ==
    /\ \/ u \notin follows[d] /\ follows' = [follows EXCEPT ![d] = @ \cup {u}]
       \/ u \in follows[d] /\ follows' = [follows EXCEPT ![d] = @ \ {u}]
    /\ UNCHANGED <<store, ledger, inbox, job, clock, history>>

\* A statement fails: the error is logged, and the request goes on without
\* that record, notice, fan-out or mark.  (One fault bounds a behaviour.)
Hiccup(w) ==
    /\ ~died
    /\ \/ job[w].pc \in {"present", "write", "count", "oldest", "delete", "mark", "stamp"}
          /\ Return(w)
       \/ /\ At(w, "notify")
          /\ Goto(w, IF job[w].approve THEN "followers" ELSE "mark")
       \/ /\ At(w, "followers")
          /\ IF job[w].user # Nil THEN Goto(w, "mark") ELSE Return(w)
       \/ \E u \in job[w].rest : At(w, "fan") /\ job' = [job EXCEPT ![w].rest = @ \ {u}]
    /\ died' = TRUE
    /\ UNCHANGED <<store, ledger, follows, inbox, clock, recorded, count, overlap>>

Crash ==
    /\ ~died
    /\ Busy # {}
    /\ job' = [w \in Worker |-> Idle]
    /\ died' = TRUE
    /\ UNCHANGED <<store, ledger, follows, inbox, clock, recorded, count, overlap>>

Next ==
    \/ \E w \in Worker :
          \/ \E u \in User, k \in Key : Stage(w, u, k)
          \/ Present(w) \/ Write(w) \/ Count(w) \/ Oldest(w) \/ Delete(w)
          \/ \E k \in Key, approve \in BOOLEAN : Capture(w, k, approve)
          \/ Decide(w) \/ Notify(w) \/ Followers(w) \/ Fan(w) \/ Mark(w) \/ Stamp(w)
          \/ Hiccup(w)
    \/ \E u \in User, d \in Device : Follow(u, d)
    \/ Crash

Spec == Init /\ [][Next]_vars

-----------------------------------------------------------------------------
(* Properties *)

StatusOf(u, k) == {r.status : r \in {q \in ledger[u] : q.key = k}}

Rest == Busy = {}

\* "A re-submit flips the same row, no duplicate", two requests of a submitter
\* at once included.  (Checked with the types.)
OneRow ==
    /\ TypeOK
    /\ \A u \in User : \A q, r \in ledger[u] : q.key = r.key => q = r

\* A row says APPROVED only of a version that is live: a verdict that lost to
\* another review is never stamped.
ApprovedIsLive == \A u \in User, k \in Key : "APPROVED" \in StatusOf(u, k) => live[k] # Nil

\* Of one publication nobody hears twice, neither as submitter and follower
\* nor from two reviews.
ToldOnce ==
    \A u \in User, k \in Key :
        inbox[u][<<"SUBMISSION_APPROVED", k>>] + inbox[u][<<"NEW_FIRMWARE", k>>] <= 1

\* Between requests that came one at a time and finished, the ledger says
\* PENDING of what awaits review and APPROVED of what is live, and its rows are
\* the latest submissions: what is missing is what the cap dropped, the oldest.
LedgerTells ==
    ~overlap /\ ~died /\ Rest =>
        \A u \in User, k \in Key :
            /\ staged[k] = u => StatusOf(u, k) \subseteq {"PENDING"}
            /\ live[k] = u => StatusOf(u, k) \subseteq {"APPROVED"}
            /\ u \in {staged[k], live[k]} /\ ~HasRow(u, k) => Cardinality(ledger[u]) = MaxRows
            /\ \A r \in ledger[u] :
                  /\ r.key = k => r.at = recorded[u][k]
                  /\ ~HasRow(u, k) => recorded[u][k] < r.at

\* The submitter of what is live has been told so, once; so has everyone whose
\* submission the ledger says was approved, and it is theirs that is live.
SubmitterTold ==
    ~overlap /\ ~died /\ Rest =>
        \A u \in User, k \in Key :
            live[k] = u \/ "APPROVED" \in StatusOf(u, k) =>
                live[k] = u /\ inbox[u][<<"SUBMISSION_APPROVED", k>>] = 1

=============================================================================
