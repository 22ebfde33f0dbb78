----------------------------- MODULE ReviewProofs -----------------------------
(***************************************************************************)
(* Theorems about Review, for any number of requests, users, versions and  *)
(* devices, and any cap of the ledger.                                     *)
(***************************************************************************)
EXTENDS Review, TLAPS, FiniteSetTheorems, WellFoundedInduction

USE ReviewAssumption

-----------------------------------------------------------------------------
(* The invariant *)

\* What u has heard of k's publication.
Heard(u, k) == inbox[u][<<"SUBMISSION_APPROVED", k>>] + inbox[u][<<"NEW_FIRMWARE", k>>]

Recording == {"present", "write", "count", "oldest", "delete"}

Reviewed == {"notify", "followers", "fan", "mark", "stamp"}

\* What each pc says of its job; a verdict that went through is of a live version.
JobOK(j) ==
    /\ j.pc = "idle" => j = Idle
    /\ j.pc # "idle" => j.key \in Key
    /\ j.pc \in Recording => j.user \in User
    /\ j.pc = "oldest" => j.extra > 0
    /\ j.pc = "delete" => j.rows # {}
    /\ j.pc \in {"notify", "mark", "stamp"} => j.user # Nil
    /\ j.pc \in {"followers", "fan"} => j.approve
    /\ j.approve /\ j.pc \in Reviewed => live[j.key] # Nil

\* A request that is still to tell of an approval.
Telling(j) == j.approve /\ j.pc \in {"notify", "followers", "fan"}

\* Those it is still to tell have not heard.
TellsOK(j) ==
    Telling(j) =>
        /\ j.pc = "notify" => \A u \in User : Heard(u, j.key) = 0
        /\ j.pc = "followers" => \A u \in User \ {j.user} : Heard(u, j.key) = 0
        /\ j.pc = "fan" => \A u \in j.rest : Heard(u, j.key) = 0

\* One publication is told of by one request.
Apart(i, j) == Telling(i) /\ Telling(j) => i.key # j.key

RowsOK(u) ==
    /\ IsFiniteSet(ledger[u])
    /\ \A q, r \in ledger[u] : q.key = r.key => q = r
    /\ \A r \in ledger[u] : r.status = "APPROVED" => live[r.key] # Nil

KeyOK(k) ==
    /\ staged[k] = Nil \/ live[k] = Nil
    /\ \A u \in User : Heard(u, k) <= 1 /\ (live[k] = Nil => Heard(u, k) = 0)

ReviewInv ==
    /\ TypeOK
    /\ \A w \in Worker : JobOK(job[w]) /\ TellsOK(job[w])
    /\ \A v, w \in Worker : v # w => Apart(job[v], job[w])
    /\ \A u \in User : RowsOK(u)
    /\ \A k \in Key : KeyOK(k)

-----------------------------------------------------------------------------
(* What steps do *)

LEMMA Types ==
    ASSUME ReviewInv
    PROVE  /\ TypeOK
           /\ staged \in [Key -> User \cup {Nil}] /\ live \in [Key -> User \cup {Nil}]
           /\ ledger \in [User -> SUBSET Row] /\ follows \in [Device -> SUBSET User]
           /\ inbox \in [User -> [Notice -> Nat]] /\ job \in [Worker -> Job]
           /\ recorded \in [User -> [Key -> Time]] /\ clock \in Time /\ count \in Time
           /\ overlap \in BOOLEAN /\ died \in BOOLEAN
BY DEF ReviewInv, TypeOK

LEMMA IdleIs ==
    /\ Idle \in Job /\ Idle.pc = "idle" /\ Idle.user = Nil /\ Idle.key = Nil
    /\ Idle.approve = FALSE /\ Idle.rest = {} /\ Idle.rows = {}
<1>1. 0 \in Time /\ 0 \in Nat
  BY DEF Time
<1>2. QED  BY <1>1 DEF Idle, Job

LEMMA IdleOK == JobOK(Idle) /\ ~ Telling(Idle)
BY IdleIs DEF JobOK, Telling, Recording, Reviewed

LEMMA HeardIs ==
    ASSUME ReviewInv, NEW u \in User, NEW k \in Key
    PROVE  /\ inbox[u][<<"SUBMISSION_APPROVED", k>>] \in Nat
           /\ inbox[u][<<"NEW_FIRMWARE", k>>] \in Nat
           /\ Heard(u, k) \in Nat
<1>1. <<"SUBMISSION_APPROVED", k>> \in Notice /\ <<"NEW_FIRMWARE", k>> \in Notice
  BY DEF Notice
<1>2. inbox[u] \in [Notice -> Nat]
  BY Types
<1>3. QED  BY <1>1, <1>2 DEF Heard

LEMMA ReviewInit == Init => ReviewInv
<1> SUFFICES ASSUME Init PROVE ReviewInv
  OBVIOUS
<1>1. \A w \in Worker : job[w] = Idle
  BY DEF Init
<1>2. 0 \in Time /\ 0 \in Nat
  BY DEF Time
<1>3. inbox \in [User -> [Notice -> Nat]] /\ recorded \in [User -> [Key -> Time]]
  BY <1>2 DEF Init
<1>4. job \in [Worker -> Job]
  BY IdleIs DEF Init
<1>5. clock \in Time /\ count \in Time
  BY <1>2 DEF Init
<1>6. overlap = FALSE /\ died = FALSE
  BY DEF Init
<1>7. /\ staged \in [Key -> User \cup {Nil}] /\ live \in [Key -> User \cup {Nil}]
      /\ ledger \in [User -> SUBSET Row] /\ follows \in [Device -> SUBSET User]
  BY DEF Init
<1>8. TypeOK
  BY <1>1, <1>3, <1>4, <1>5, <1>6, <1>7, IdleIs DEF TypeOK
<1>9. \A w \in Worker : JobOK(job[w]) /\ TellsOK(job[w]) /\ ~ Telling(job[w])
  BY <1>1, IdleOK DEF TellsOK
<1>10. ASSUME NEW k \in Key PROVE KeyOK(k)
  <2>1. \A u \in User, n \in Notice : inbox[u][n] = 0
    BY DEF Init
  <2>2. \A u \in User : Heard(u, k) = 0
    BY <2>1 DEF Heard, Notice
  <2>3. QED  BY <2>2 DEF KeyOK, Init
<1>11. \A u \in User : RowsOK(u)
  BY FS_EmptySet DEF Init, RowsOK
<1>12. QED  BY <1>8, <1>9, <1>10, <1>11 DEF ReviewInv, Apart

\* What a request is still to tell stays so while it stands and nobody hears.
LEMMA TellsStays ==
    ASSUME NEW v \in Worker, TellsOK(job[v]), job'[v] = job[v], inbox' = inbox
    PROVE  TellsOK(job[v])'
<1>1. \A u, k : Heard(u, k)' = Heard(u, k)
  BY DEF Heard
<1>2. QED  BY <1>1 DEF TellsOK, Telling

\* A step gives w another job, and may do more: what is left to show of it.
LEMMA StepKeeps ==
    ASSUME ReviewInv, NEW w \in Worker, NEW j \in Job, job' = [job EXCEPT ![w] = j],
           JobOK(j)', TellsOK(j)', \A v \in Worker \ {w} : Apart(j, job[v]),
           \A v \in Worker \ {w} : TellsOK(job[v])',
           staged' \in [Key -> User \cup {Nil}], live' \in [Key -> User \cup {Nil}],
           \A k \in Key : live[k] # Nil => live'[k] # Nil,
           ledger' \in [User -> SUBSET Row], inbox' \in [User -> [Notice -> Nat]],
           \A u \in User : RowsOK(u)', \A k \in Key : KeyOK(k)', follows' = follows,
           recorded' \in [User -> [Key -> Time]], clock' \in Time, count' \in Time,
           overlap' \in BOOLEAN, died' \in BOOLEAN
    PROVE  ReviewInv'
<1>1. /\ job' \in [Worker -> Job] /\ job'[w] = j
      /\ \A v \in Worker \ {w} : job'[v] = job[v]
  BY Types
<1>2. ASSUME NEW v \in Worker, v # w PROVE JobOK(job[v])'
  <2>1. JobOK(job[v])
    BY DEF ReviewInv
  <2>2. QED  BY <1>1, <1>2, <2>1 DEF JobOK, Reviewed
<1>3. \A v \in Worker : JobOK(job[v])' /\ TellsOK(job[v])'
  <2>1. job'[w] = j
    BY <1>1
  <2>2. JobOK(job[w])'
    BY <2>1 DEF JobOK
  <2>3. TellsOK(job[w])'
    BY <2>1 DEF TellsOK, Heard
  <2>4. QED  BY <1>2, <2>2, <2>3
<1>4. TypeOK'
  BY <1>1, <1>3, Types DEF TypeOK, JobOK
<1>5. ASSUME NEW u \in Worker, NEW v \in Worker, u # v PROVE Apart(job[u], job[v])'
  BY <1>1, <1>5 DEF ReviewInv, Apart, Telling
<1>6. QED  BY <1>3, <1>4, <1>5 DEF ReviewInv

\* A step that publishes nothing and tells nobody.
LEMMA QuietKeeps ==
    ASSUME ReviewInv, NEW w \in Worker, NEW j \in Job, job' = [job EXCEPT ![w] = j],
           JobOK(j), TellsOK(j), Telling(j) => Telling(job[w]) /\ j.key = job[w].key,
           staged' \in [Key -> User \cup {Nil}],
           \A k \in Key : staged'[k] = staged[k] \/ live[k] = Nil,
           ledger' \in [User -> SUBSET Row], \A u \in User : RowsOK(u)',
           live' = live, inbox' = inbox, follows' = follows,
           recorded' \in [User -> [Key -> Time]], clock' \in Time, count' \in Time,
           overlap' \in BOOLEAN, died' \in BOOLEAN
    PROVE  ReviewInv'
<1>1. JobOK(j)' /\ TellsOK(j)' /\ \A v \in Worker : TellsOK(job[v])'
  <2>1. JobOK(j)' /\ TellsOK(j)'
    BY DEF JobOK, TellsOK, Heard
  <2>2. ASSUME NEW v \in Worker PROVE TellsOK(job[v])'
    <3>1. job'[v] = j \/ job'[v] = job[v]
      BY Types
    <3>2. TellsOK(job[v])
      BY DEF ReviewInv
    <3>3. CASE job'[v] = j
      BY <3>3 DEF TellsOK, Telling, Heard
    <3>4. CASE job'[v] = job[v]
      BY <3>2, <3>4 DEF TellsOK, Telling, Heard
    <3>5. QED  BY <3>1, <3>3, <3>4
  <2>3. QED  BY <2>1, <2>2
<1>2. \A v \in Worker \ {w} : Apart(j, job[v])
  BY DEF ReviewInv, Apart
<1>3. \A k \in Key : KeyOK(k)'
  <2>1. ASSUME NEW k \in Key PROVE KeyOK(k)'
    <3>1. KeyOK(k)
      BY DEF ReviewInv
    <3>2. QED  BY <3>1 DEF KeyOK, Heard
  <2>2. QED  BY <2>1
<1>4. live' \in [Key -> User \cup {Nil}] /\ inbox' \in [User -> [Notice -> Nat]]
  BY Types
<1>5. \A v \in Worker \ {w} : TellsOK(job[v])'
  BY <1>1
<1>6. QED  BY <1>1, <1>2, <1>3, <1>4, <1>5, StepKeeps

\* A request goes on, and nothing else changes but the clocks.
LEMMA GoesOn ==
    ASSUME ReviewInv, NEW w \in Worker, NEW j \in Job, job' = [job EXCEPT ![w] = j],
           JobOK(j), TellsOK(j), Telling(j) => Telling(job[w]) /\ j.key = job[w].key,
           UNCHANGED <<store, ledger, follows, inbox>>,
           recorded' \in [User -> [Key -> Time]], clock' \in Time, count' \in Time,
           overlap' \in BOOLEAN, died' \in BOOLEAN
    PROVE  ReviewInv'
<1>1. /\ staged' = staged /\ live' = live /\ ledger' = ledger
      /\ follows' = follows /\ inbox' = inbox
  BY DEF store
<1>2. \A u \in User : RowsOK(u)'
  BY <1>1 DEF ReviewInv, RowsOK
<1>3. QED  BY <1>1, <1>2, Types, QuietKeeps

\* Or it is done.
LEMMA Leaves ==
    ASSUME ReviewInv, NEW w \in Worker, Return(w),
           UNCHANGED <<store, ledger, follows, inbox>>,
           recorded' \in [User -> [Key -> Time]], clock' \in Time, count' \in Time,
           overlap' \in BOOLEAN, died' \in BOOLEAN
    PROVE  ReviewInv'
<1>1. TellsOK(Idle)
  BY IdleOK DEF TellsOK
<1>2. QED  BY <1>1, IdleIs, IdleOK, GoesOn DEF Return

Pcs == {"present", "write", "count", "oldest", "delete", "review", "notify", "followers", "fan",
        "mark", "stamp"}

\* A job with another pc.
LEMMA GotoIs ==
    ASSUME ReviewInv, NEW w \in Worker, NEW pc \in Pcs, Goto(w, pc)
    PROVE  \E j \in Job : /\ job' = [job EXCEPT ![w] = j]
                          /\ j.pc = pc /\ j.user = job[w].user /\ j.key = job[w].key
                          /\ j.approve = job[w].approve /\ j.rest = job[w].rest
                          /\ j.rows = job[w].rows /\ j.extra = job[w].extra
                          /\ j.now = job[w].now /\ j.present = job[w].present
<1> DEFINE j == [job[w] EXCEPT !.pc = pc]
<1>1. job[w] \in Job
  BY Types
<1>2. /\ j \in Job /\ j.pc = pc /\ j.user = job[w].user /\ j.key = job[w].key
      /\ j.approve = job[w].approve /\ j.rest = job[w].rest
      /\ j.rows = job[w].rows /\ j.extra = job[w].extra
      /\ j.now = job[w].now /\ j.present = job[w].present
  BY <1>1 DEF Job, Pcs
<1>3. job' = [job EXCEPT ![w] = j]
  BY Types DEF Goto
<1> HIDE DEF j
<1>4. QED  BY <1>2, <1>3

\* What a request in progress has in hand.
LEMMA JobIs ==
    ASSUME ReviewInv, NEW w \in Worker
    PROVE  /\ job[w] \in Job /\ JobOK(job[w]) /\ TellsOK(job[w])
           /\ job[w].pc # "idle" => job[w].key \in Key
           /\ job[w].pc \in Recording => job[w].user \in User
           /\ job[w].user \in User \cup {Nil} /\ job[w].now \in Time
           /\ job[w].rest \subseteq User /\ job[w].rows \subseteq Row
           /\ job[w].approve \in BOOLEAN
BY Types DEF ReviewInv, JobOK, Job

-----------------------------------------------------------------------------
(* Recording *)

LEMMA StageKeeps ==
    ASSUME ReviewInv, NEW w \in Worker, NEW u \in User, NEW k \in Key, Stage(w, u, k)
    PROVE  ReviewInv'
<1> DEFINE j == [Idle EXCEPT !.pc = "present", !.user = u, !.key = k]
<1>1. j \in Job /\ j.pc = "present" /\ j.user = u /\ j.key = k /\ j.approve = FALSE
  BY IdleIs DEF Job
<1>2. JobOK(j) /\ ~ Telling(j) /\ TellsOK(j)
  <2> HIDE DEF j
  <2>1. QED  BY <1>1 DEF JobOK, Telling, TellsOK, Recording, Reviewed
<1>3. job' = [job EXCEPT ![w] = j]
  BY DEF Stage
<1>4. count' \in Time
  BY Types DEF Stage, Time
<1>5. overlap' \in BOOLEAN
  BY Types DEF Stage
<1>6. /\ staged' \in [Key -> User \cup {Nil}]
      /\ \A l \in Key : staged'[l] = staged[l] \/ live[l] = Nil
  BY Types DEF Stage
<1>7. /\ live' = live /\ ledger' = ledger /\ inbox' = inbox /\ follows' = follows
      /\ recorded' = recorded /\ clock' = clock /\ died' = died
  BY DEF Stage
<1>8. \A v \in User : RowsOK(v)'
  BY <1>7 DEF ReviewInv, RowsOK
<1>9. QED
  <2> HIDE DEF j
  <2>1. QED  BY <1>1, <1>2, <1>3, <1>4, <1>5, <1>6, <1>7, <1>8, Types, QuietKeeps

LEMMA PresentKeeps == ASSUME ReviewInv, NEW w \in Worker, Present(w) PROVE ReviewInv'
<1> DEFINE here == HasRow(job[w].user, job[w].key)
           j == [job[w] EXCEPT !.pc = "write", !.now = clock + 1, !.present = here]
<1>1. clock + 1 \in Time
  BY Types DEF Present, Time
<1>2. here \in BOOLEAN
  BY DEF HasRow
<1>3. job[w] \in Job /\ job[w].pc = "present" /\ job[w].user \in User /\ job[w].key \in Key
  BY JobIs DEF Present, At, Recording
<1>4. j \in Job /\ j.pc = "write" /\ j.user = job[w].user /\ j.key = job[w].key
  <2> HIDE DEF here
  <2>1. QED  BY <1>1, <1>2, <1>3 DEF Job
<1>5. job' = [job EXCEPT ![w] = j] /\ UNCHANGED <<store, ledger, follows, inbox, history>>
      /\ clock' = clock + 1
  BY DEF Present
<1> HIDE DEF j, here
<1>6. JobOK(j) /\ ~ Telling(j) /\ TellsOK(j)
  BY <1>3, <1>4 DEF JobOK, Telling, TellsOK, Recording, Reviewed
<1>7. QED  BY <1>1, <1>4, <1>5, <1>6, Types, GoesOn DEF history

\* The row written is of its coordinate alone, and waits for a verdict.
LEMMA WriteKeeps == ASSUME ReviewInv, NEW w \in Worker, Write(w) PROVE ReviewInv'
<1> DEFINE u == job[w].user
           k == job[w].key
           row == [key |-> k, status |-> "PENDING", at |-> job[w].now]
<1>1. u \in User /\ k \in Key /\ job[w].now \in Time /\ job[w].pc = "write"
  BY JobIs DEF Write, At, Recording
<1>2. UNCHANGED <<store, follows, inbox, clock, count, overlap, died>>
  BY DEF Write
<1>3. ASSUME NEW pc \in {"count"}, Goto(w, pc)
      PROVE  \E j \in Job : job' = [job EXCEPT ![w] = j] /\ JobOK(j) /\ ~ Telling(j) /\ TellsOK(j)
  <2>1. pc \in Pcs
    BY DEF Pcs
  <2>2. PICK j \in Job : job' = [job EXCEPT ![w] = j] /\ j.pc = "count"
                         /\ j.user = job[w].user /\ j.key = job[w].key
    BY <1>3, <2>1, GotoIs
  <2>3. QED  BY <1>1, <2>2 DEF JobOK, Telling, TellsOK, Recording, Reviewed
<1>4. CASE Put(w, Without(ledger[u], k))
  <2>1. row \in Row /\ row.key = k /\ row.status = "PENDING"
    BY <1>1 DEF Row, Status
  <2> HIDE DEF row
  <2>2. ledger' = [ledger EXCEPT ![u] = Without(ledger[u], k) \cup {row}]
    BY <1>4 DEF Put, row
  <2>3. Without(ledger[u], k) \subseteq ledger[u]
    BY DEF Without
  <2>4. ledger' \in [User -> SUBSET Row]
    BY <1>1, <2>1, <2>2, <2>3, Types
  <2>5. recorded' \in [User -> [Key -> Time]]
    BY <1>1, <1>4, Types DEF Put
  <2>6. ASSUME NEW v \in User PROVE RowsOK(v)'
    <3>1. RowsOK(v)
      BY DEF ReviewInv
    <3>2. live' = live
      BY <1>2 DEF store
    <3>3. CASE v = u
      <4>1. ledger'[v] = Without(ledger[v], k) \cup {row}
        BY <1>1, <2>2, <3>3, Types
      <4>2. \A r \in ledger'[v] : r = row \/ (r \in ledger[v] /\ r.key # k)
        BY <4>1 DEF Without
      <4>3. IsFiniteSet(ledger'[v])
        <5>1. IsFiniteSet(Without(ledger[v], k))
          BY <3>1, FS_Subset DEF RowsOK, Without
        <5>2. QED  BY <4>1, <5>1, FS_AddElement
      <4>4. QED  BY <2>1, <3>1, <3>2, <4>2, <4>3 DEF RowsOK
    <3>4. CASE v # u
      BY <2>2, <3>1, <3>2, <3>4, Types DEF RowsOK
    <3>5. QED  BY <3>3, <3>4
  <2>7. PICK j \in Job : job' = [job EXCEPT ![w] = j] /\ JobOK(j) /\ ~ Telling(j) /\ TellsOK(j)
    BY <1>3, <1>4 DEF Put
  <2>8. QED  BY <1>2, <2>4, <2>5, <2>6, <2>7, Types, QuietKeeps DEF store
<1>5. CASE UNCHANGED <<ledger, recorded>> /\ (Goto(w, "count") \/ Return(w))
  <2>1. UNCHANGED <<store, ledger, follows, inbox>> /\ recorded' = recorded /\ clock' = clock
        /\ count' = count /\ overlap' = overlap /\ died' = died
    BY <1>2, <1>5
  <2>2. CASE Goto(w, "count")
    <3>1. PICK j \in Job : job' = [job EXCEPT ![w] = j] /\ JobOK(j) /\ ~ Telling(j) /\ TellsOK(j)
      BY <1>3, <2>2
    <3>2. QED  BY <2>1, <3>1, Types, GoesOn
  <2>3. CASE Return(w)
    BY <2>1, <2>3, Types, Leaves
  <2>4. QED  BY <1>5, <2>2, <2>3
<1>6. QED  BY <1>4, <1>5 DEF Write

LEMMA CountKeeps == ASSUME ReviewInv, NEW w \in Worker, Count(w) PROVE ReviewInv'
<1> DEFINE n == Extra(job[w].user)
           j == [job[w] EXCEPT !.pc = "oldest", !.extra = n]
<1>0. UNCHANGED <<store, ledger, follows, inbox>> /\ recorded' = recorded /\ clock' = clock
      /\ count' = count /\ overlap' = overlap /\ died' = died
  BY DEF Count, history
<1>1. CASE n > 0 /\ job' = [job EXCEPT ![w] = j]
  <2>1. job[w] \in Job /\ job[w].pc = "count" /\ job[w].user \in User /\ job[w].key \in Key
    BY JobIs DEF Count, At, Recording
  <2>2. n \in Nat
    <3>1. Cardinality(ledger[job[w].user]) \in Nat
      BY <2>1, FS_CardinalityType DEF ReviewInv, RowsOK
    <3>2. QED  BY <3>1 DEF Extra
  <2> HIDE DEF n
  <2>3. j \in Job /\ j.pc = "oldest" /\ j.user = job[w].user /\ j.key = job[w].key /\ j.extra = n
    BY <2>1, <2>2 DEF Job
  <2> HIDE DEF j
  <2>4. JobOK(j) /\ ~ Telling(j) /\ TellsOK(j)
    BY <1>1, <2>1, <2>3 DEF JobOK, Telling, TellsOK, Recording, Reviewed
  <2>5. QED  BY <1>0, <1>1, <2>3, <2>4, Types, GoesOn
<1>2. CASE Return(w)
  BY <1>0, <1>2, Types, Leaves
<1>3. QED
  <2>1. (n > 0 /\ job' = [job EXCEPT ![w] = j]) \/ Return(w)
    BY DEF Count
  <2>2. QED  BY <1>1, <1>2, <2>1

LEMMA OldestKeeps == ASSUME ReviewInv, NEW w \in Worker, Oldest(w) PROVE ReviewInv'
<1> DEFINE rows == OldestRows(job[w].user, job[w].extra)
           j == [job[w] EXCEPT !.pc = "delete", !.rows = rows]
<1>0. UNCHANGED <<store, ledger, follows, inbox>> /\ recorded' = recorded /\ clock' = clock
      /\ count' = count /\ overlap' = overlap /\ died' = died
  BY DEF Oldest, history
<1>1. CASE rows # {} /\ job' = [job EXCEPT ![w] = j]
  <2>1. job[w] \in Job /\ job[w].pc = "oldest" /\ job[w].user \in User /\ job[w].key \in Key
    BY JobIs DEF Oldest, At, Recording
  <2>2. rows \subseteq Row
    <3>1. ledger[job[w].user] \subseteq Row
      BY <2>1, Types
    <3>2. QED  BY <3>1 DEF OldestRows
  <2> HIDE DEF rows
  <2>3. j \in Job /\ j.pc = "delete" /\ j.user = job[w].user /\ j.key = job[w].key /\ j.rows = rows
    BY <2>1, <2>2 DEF Job
  <2> HIDE DEF j
  <2>4. JobOK(j) /\ ~ Telling(j) /\ TellsOK(j)
    BY <1>1, <2>1, <2>3 DEF JobOK, Telling, TellsOK, Recording, Reviewed
  <2>5. QED  BY <1>0, <1>1, <2>3, <2>4, Types, GoesOn
<1>2. CASE Return(w)
  BY <1>0, <1>2, Types, Leaves
<1>3. QED
  <2>1. (rows # {} /\ job' = [job EXCEPT ![w] = j]) \/ Return(w)
    BY DEF Oldest
  <2>2. QED  BY <1>1, <1>2, <2>1

LEMMA DeleteKeeps == ASSUME ReviewInv, NEW w \in Worker, Delete(w) PROVE ReviewInv'
<1> DEFINE u == job[w].user
<1>0. /\ staged' = staged /\ live' = live /\ follows' = follows /\ inbox' = inbox
      /\ recorded' = recorded /\ clock' = clock
      /\ count' = count /\ overlap' = overlap /\ died' = died
  BY DEF Delete, history, store
<1>1. job[w] \in Job /\ job[w].pc = "delete" /\ u \in User /\ job[w].key \in Key
  BY JobIs DEF Delete, At, Recording
<1>2. PICK r \in job[w].rows :
         /\ ledger' = [ledger EXCEPT ![u] = Without(@, r.key)]
         /\ IF job[w].rows # {r} THEN job' = [job EXCEPT ![w].rows = @ \ {r}] ELSE Return(w)
  BY DEF Delete
<1>3. \A v \in User : ledger'[v] \subseteq ledger[v]
  BY <1>1, <1>2, Types DEF Without
<1>4. ledger' \in [User -> SUBSET Row]
  BY <1>2, <1>3, Types
<1>5. \A v \in User : RowsOK(v)'
  <2>1. ASSUME NEW v \in User PROVE RowsOK(v)'
    <3>1. RowsOK(v) /\ ledger'[v] \subseteq ledger[v]
      BY <1>3 DEF ReviewInv
    <3>2. IsFiniteSet(ledger'[v])
      BY <3>1, FS_Subset DEF RowsOK
    <3>3. QED  BY <1>0, <3>1, <3>2 DEF RowsOK
  <2>2. QED  BY <2>1
<1>6. CASE job[w].rows # {r}
  <2> DEFINE j == [job[w] EXCEPT !.rows = job[w].rows \ {r}]
  <2>1. /\ j \in Job /\ j.pc = "delete" /\ j.user = u /\ j.key = job[w].key
        /\ j.rows = job[w].rows \ {r}
    BY <1>1 DEF Job
  <2>2. job' = [job EXCEPT ![w] = j]
    BY <1>2, <1>6, Types
  <2> HIDE DEF j
  <2>3. j.rows # {}
    BY <1>6, <2>1
  <2>4. JobOK(j) /\ ~ Telling(j) /\ TellsOK(j)
    BY <1>1, <2>1, <2>3 DEF JobOK, Telling, TellsOK, Recording, Reviewed
  <2>5. QED  BY <1>0, <1>4, <1>5, <2>1, <2>2, <2>4, Types, QuietKeeps
<1>7. CASE job[w].rows = {r}
  <2>1. job' = [job EXCEPT ![w] = Idle]
    BY <1>2, <1>7 DEF Return
  <2>2. TellsOK(Idle)
    BY IdleOK DEF TellsOK
  <2>3. QED  BY <1>0, <1>4, <1>5, <2>1, <2>2, IdleIs, IdleOK, Types, QuietKeeps
<1>8. QED  BY <1>6, <1>7

-----------------------------------------------------------------------------
(* Reviewing *)

LEMMA CaptureKeeps ==
    ASSUME ReviewInv, NEW w \in Worker, NEW k \in Key, NEW approve \in BOOLEAN,
           Capture(w, k, approve)
    PROVE  ReviewInv'
<1> DEFINE j == [Idle EXCEPT !.pc = "review", !.user = staged[k], !.key = k, !.approve = approve]
<1>1. j \in Job /\ j.pc = "review" /\ j.key = k
  BY IdleIs, Types DEF Job
<1>2. job' = [job EXCEPT ![w] = j] /\ UNCHANGED <<store, ledger, follows, inbox>>
      /\ recorded' = recorded /\ clock' = clock /\ count' = count /\ died' = died
  BY DEF Capture
<1>3. overlap' \in BOOLEAN
  BY Types DEF Capture
<1> HIDE DEF j
<1>4. JobOK(j) /\ ~ Telling(j) /\ TellsOK(j)
  BY <1>1 DEF JobOK, Telling, TellsOK, Recording, Reviewed
<1>5. QED  BY <1>1, <1>2, <1>3, <1>4, Types, GoesOn

\* A verdict that goes through: of one that lost, only the staged entry goes.
\* What goes live was not, so nobody tells of it yet, and nobody has heard.
LEMMA DecideKeeps == ASSUME ReviewInv, NEW w \in Worker, Decide(w) PROVE ReviewInv'
<1> PICK k \in Key : k = job[w].key /\ job[w] \in Job /\ job[w].pc = "review"
  BY JobIs DEF Decide, At
<1>0. /\ ledger' = ledger /\ follows' = follows /\ inbox' = inbox /\ recorded' = recorded
      /\ clock' = clock /\ count' = count /\ overlap' = overlap /\ died' = died
      /\ staged' = [staged EXCEPT ![k] = Nil]
  BY DEF Decide, history
<1>1. job[w] \in Job /\ job[w].pc = "review" /\ k = job[w].key
  OBVIOUS
<1>2. staged' \in [Key -> User \cup {Nil}]
  BY <1>0, Types
<1>3. CASE live' = live /\ Return(w)
  <2>1. \A u \in User : RowsOK(u)'
    BY <1>0, <1>3 DEF ReviewInv, RowsOK
  <2>2. ASSUME NEW l \in Key PROVE KeyOK(l)'
    <3>1. KeyOK(l) /\ (staged'[l] = staged[l] \/ staged'[l] = Nil)
      BY <1>0, Types DEF ReviewInv
    <3>2. \A u \in User : Heard(u, l)' = Heard(u, l)
      BY <1>0 DEF Heard
    <3>3. QED  BY <1>3, <3>1, <3>2 DEF KeyOK
  <2>3. TellsOK(Idle)' /\ JobOK(Idle)' /\ ~ Telling(Idle)
    BY IdleIs, IdleOK DEF TellsOK, JobOK, Recording, Reviewed, Telling
  <2>4. \A v \in Worker \ {w} : TellsOK(job[v])'
    <3>1. \A v \in Worker \ {w} : job'[v] = job[v] /\ TellsOK(job[v])
      BY <1>3, Types DEF Return, ReviewInv
    <3>2. QED  BY <1>0, <3>1, TellsStays
  <2>5. QED
    BY <1>0, <1>2, <1>3, <2>1, <2>2, <2>3, <2>4, IdleIs, Types, StepKeeps DEF Return, Apart
<1>4. CASE /\ staged[k] # Nil /\ ~ (job[w].approve /\ live[k] # Nil)
           /\ live' = IF job[w].approve THEN [live EXCEPT ![k] = staged[k]] ELSE live
           /\ AfterReview(w)
  <2>0. \A l \in Key : l # k => live'[l] = live[l]
    <3>1. CASE job[w].approve
      BY <1>4, <3>1, Types
    <3>2. CASE ~ job[w].approve
      BY <1>4, <3>2
    <3>3. QED  BY <3>1, <3>2
  <2>1. live' \in [Key -> User \cup {Nil}] /\ \A l \in Key : live[l] # Nil => live'[l] # Nil
    BY <1>1, <1>4, Types
  <2>2. job[w].approve => live'[k] # Nil /\ live[k] = Nil
    BY <1>1, <1>4, Types
  <2>3. PICK j \in Job : /\ job' = [job EXCEPT ![w] = j] /\ JobOK(j)' /\ TellsOK(j)'
                         /\ Telling(j) => j.key = k /\ job[w].approve
    <3>1. ASSUME NEW pc \in {"notify", "followers"}, Goto(w, pc), pc = "notify" => job[w].user # Nil,
                 pc = "followers" => job[w].approve
          PROVE  \E j \in Job : /\ job' = [job EXCEPT ![w] = j] /\ JobOK(j)' /\ TellsOK(j)'
                                /\ Telling(j) => j.key = k /\ job[w].approve
      <4>1. pc \in Pcs
        BY DEF Pcs
      <4>2. PICK j \in Job : /\ job' = [job EXCEPT ![w] = j] /\ j.pc = pc
                             /\ j.user = job[w].user /\ j.key = k /\ j.approve = job[w].approve
        BY <3>1, <4>1, GotoIs
      <4>3. JobOK(j)'
        BY <1>1, <2>2, <3>1, <4>2 DEF JobOK, Recording, Reviewed
      <4>4. ASSUME job[w].approve PROVE \A u \in User : Heard(u, k)' = 0
        <5>1. KeyOK(k)
          BY <1>1 DEF ReviewInv
        <5>2. \A u \in User : Heard(u, k) = 0
          BY <2>2, <4>4, <5>1 DEF KeyOK
        <5>3. QED  BY <1>0, <5>2 DEF Heard
      <4>5. TellsOK(j)'
        BY <3>1, <4>2, <4>4 DEF TellsOK, Telling
      <4>6. QED  BY <4>2, <4>3, <4>5 DEF Telling
    <3>2. CASE Return(w)
      BY <3>2, IdleIs, IdleOK DEF Return, TellsOK, JobOK, Recording, Reviewed, Telling
    <3>3. QED  BY <1>4, <3>1, <3>2 DEF AfterReview
  <2>4. \A v \in Worker \ {w} : Apart(j, job[v])
    <3>1. ASSUME NEW v \in Worker \ {w}, Telling(job[v]) PROVE live[job[v].key] # Nil
      BY <3>1 DEF ReviewInv, JobOK, Telling, Reviewed
    <3>2. QED  BY <2>2, <2>3, <3>1 DEF Apart
  <2>5. \A v \in Worker \ {w} : TellsOK(job[v])'
    <3>1. \A v \in Worker \ {w} : job'[v] = job[v] /\ TellsOK(job[v])
      BY <2>3, Types DEF ReviewInv
    <3>2. QED  BY <1>0, <3>1, TellsStays
  <2>6. ASSUME NEW u \in User PROVE RowsOK(u)'
    <3>1. RowsOK(u) /\ ledger'[u] = ledger[u] /\ \A r \in ledger[u] : r.key \in Key
      BY <1>0, Types DEF ReviewInv, Row
    <3>2. QED  BY <2>1, <3>1 DEF RowsOK
  <2>7. ASSUME NEW l \in Key PROVE KeyOK(l)'
    <3>1. KeyOK(l)
      BY DEF ReviewInv
    <3>2. CASE l = k
      <4>1. staged'[l] = Nil
        BY <1>0, <1>1, <3>2, Types
      <4>2. live'[l] = Nil => live[l] = Nil
        BY <2>1, <3>2
      <4>3. QED  BY <1>0, <3>1, <4>1, <4>2 DEF KeyOK, Heard
    <3>3. CASE l # k
      <4>1. staged'[l] = staged[l]
        BY <1>0, <3>3, Types
      <4>2. live'[l] = live[l]
        BY <2>0, <3>3
      <4>3. QED  BY <1>0, <3>1, <4>1, <4>2 DEF KeyOK, Heard
    <3>4. QED  BY <3>2, <3>3
  <2>8. QED
    BY <1>0, <1>2, <2>1, <2>3, <2>4, <2>5, <2>6, <2>7, Types, StepKeeps
<1>5. QED  BY <1>3, <1>4 DEF Decide

\* One notice to one user.
LEMMA PushIs ==
    ASSUME ReviewInv, NEW u \in User, NEW k \in Key,
           NEW kind \in {"SUBMISSION_APPROVED", "SUBMISSION_REJECTED", "NEW_FIRMWARE"}, Push(u, kind, k)
    PROVE  /\ inbox' \in [User -> [Notice -> Nat]]
           /\ \A v \in User, l \in Key : v # u \/ l # k => Heard(v, l)' = Heard(v, l)
           /\ Heard(u, k)' = IF kind = "SUBMISSION_REJECTED" THEN Heard(u, k) ELSE Heard(u, k) + 1
<1>1. <<kind, k>> \in Notice
  BY DEF Notice
<1>2. inbox[u] \in [Notice -> Nat]
  BY Types
<1> DEFINE box == [inbox[u] EXCEPT ![<<kind, k>>] = inbox[u][<<kind, k>>] + 1]
<1>3. box \in [Notice -> Nat]
  BY <1>1, <1>2
<1>4. inbox' = [inbox EXCEPT ![u] = box]
  BY DEF Push
<1>5. /\ inbox'[u] = box
      /\ \A v \in User : v # u => inbox'[v] = inbox[v]
  BY <1>4, Types
<1>6. ASSUME NEW v \in User, NEW l \in Key, v # u \/ l # k PROVE Heard(v, l)' = Heard(v, l)
  <2>1. CASE v # u
    BY <1>5, <2>1 DEF Heard
  <2>2. CASE v = u /\ l # k
    <3>1. <<"SUBMISSION_APPROVED", l>> \in Notice /\ <<"NEW_FIRMWARE", l>> \in Notice
      BY DEF Notice
    <3>2. <<"SUBMISSION_APPROVED", l>> # <<kind, k>> /\ <<"NEW_FIRMWARE", l>> # <<kind, k>>
      BY <2>2
    <3>3. /\ box[<<"SUBMISSION_APPROVED", l>>] = inbox[u][<<"SUBMISSION_APPROVED", l>>]
          /\ box[<<"NEW_FIRMWARE", l>>] = inbox[u][<<"NEW_FIRMWARE", l>>]
      BY <1>2, <3>1, <3>2
    <3> HIDE DEF box
    <3>4. QED  BY <1>5, <2>2, <3>3 DEF Heard
  <2>3. QED  BY <1>6, <2>1, <2>2
<1>7. Heard(u, k)' = IF kind = "SUBMISSION_REJECTED" THEN Heard(u, k) ELSE Heard(u, k) + 1
  <2> DEFINE a == <<"SUBMISSION_APPROVED", k>>
             n == <<"NEW_FIRMWARE", k>>
  <2>1. a \in Notice /\ n \in Notice
    BY DEF Notice
  <2>2. inbox[u][a] \in Nat /\ inbox[u][n] \in Nat
    BY <1>2, <2>1
  <2>3. /\ box[a] = IF kind = "SUBMISSION_APPROVED" THEN inbox[u][a] + 1 ELSE inbox[u][a]
        /\ box[n] = IF kind = "NEW_FIRMWARE" THEN inbox[u][n] + 1 ELSE inbox[u][n]
    BY <1>2, <2>1
  <2>4. Heard(u, k)' = box[a] + box[n] /\ Heard(u, k) = inbox[u][a] + inbox[u][n]
    BY <1>5 DEF Heard
  <2> HIDE DEF box, a, n
  <2>5. QED  BY <2>2, <2>3, <2>4
<1>8. QED  BY <1>3, <1>4, <1>6, <1>7, Types

\* A request tells one more user, of a verdict or for the first time.
LEMMA TellKeeps ==
    ASSUME ReviewInv, NEW w \in Worker, NEW j \in Job, job' = [job EXCEPT ![w] = j],
           JobOK(j), TellsOK(j)', Telling(j) => Telling(job[w]) /\ j.key = job[w].key,
           NEW u \in User, NEW k \in Key, k = job[w].key,
           NEW kind \in {"SUBMISSION_APPROVED", "SUBMISSION_REJECTED", "NEW_FIRMWARE"},
           Push(u, kind, k),
           kind # "SUBMISSION_REJECTED" => Telling(job[w]) /\ Heard(u, k) = 0,
           UNCHANGED <<store, ledger, follows, clock, history>>
    PROVE  ReviewInv'
<1>0. /\ ledger' = ledger /\ follows' = follows /\ recorded' = recorded /\ clock' = clock
      /\ count' = count /\ overlap' = overlap /\ died' = died
      /\ staged' = staged /\ live' = live
  BY DEF history, store
<1>1. /\ inbox' \in [User -> [Notice -> Nat]]
      /\ \A v \in User, l \in Key : v # u \/ l # k => Heard(v, l)' = Heard(v, l)
      /\ Heard(u, k)' = IF kind = "SUBMISSION_REJECTED" THEN Heard(u, k) ELSE Heard(u, k) + 1
  BY PushIs
<1>2. \A v \in User : RowsOK(v)'
  BY <1>0 DEF ReviewInv, RowsOK
<1>3. JobOK(j)'
  BY <1>0 DEF JobOK
<1>4. ASSUME NEW v \in Worker \ {w} PROVE Apart(j, job[v]) /\ TellsOK(job[v])'
  <2>1. Apart(job[w], job[v]) /\ TellsOK(job[v]) /\ job'[v] = job[v] /\ JobOK(job[v])
    BY Types DEF ReviewInv
  <2>2. Apart(j, job[v])
    BY <2>1 DEF Apart
  <2>3. CASE ~ Telling(job[v])
    BY <2>1, <2>2, <2>3 DEF TellsOK, Telling
  <2>4. CASE Telling(job[v])
    <3>1. job[v].key \in Key /\ job[v].rest \subseteq User
      BY <2>4, JobIs DEF Telling
    <3>2. \A x \in User : Heard(x, job[v].key)' = Heard(x, job[v].key)
      <4>1. CASE kind = "SUBMISSION_REJECTED"
        BY <1>1, <3>1, <4>1
      <4>2. CASE kind # "SUBMISSION_REJECTED"
        BY <1>1, <2>1, <2>4, <3>1, <4>2 DEF Apart
      <4>3. QED  BY <4>1, <4>2
    <3>3. /\ job[v].pc = "notify" => \A x \in User : Heard(x, job[v].key) = 0
          /\ job[v].pc = "followers" => \A x \in User \ {job[v].user} : Heard(x, job[v].key) = 0
          /\ job[v].pc = "fan" => \A x \in job[v].rest : Heard(x, job[v].key) = 0
      BY <2>1, <2>4 DEF TellsOK
    <3>4. TellsOK(job[v])'
      BY <2>1, <3>1, <3>2, <3>3 DEF TellsOK
    <3>5. QED  BY <2>2, <3>4
  <2>5. QED  BY <2>3, <2>4
<1>5. ASSUME NEW l \in Key PROVE KeyOK(l)'
  <2>1. KeyOK(l)
    BY DEF ReviewInv
  <2>2. CASE l # k \/ kind = "SUBMISSION_REJECTED"
    <3>1. \A v \in User : Heard(v, l)' = Heard(v, l)
      BY <1>1, <2>2
    <3>2. QED  BY <1>0, <2>1, <3>1 DEF KeyOK
  <2>3. CASE l = k /\ kind # "SUBMISSION_REJECTED"
    <3>1. live[k] # Nil
      BY <2>3 DEF ReviewInv, JobOK, Telling, Reviewed
    <3>2. Heard(u, k)' = 1
      BY <1>1, <2>3
    <3>3. \A v \in User : Heard(v, k)' <= 1
      BY <1>1, <2>1, <2>3, <3>2 DEF KeyOK
    <3>4. QED  BY <1>0, <2>1, <2>3, <3>1, <3>3 DEF KeyOK
  <2>4. QED  BY <2>2, <2>3
<1>6. QED  BY <1>0, <1>1, <1>2, <1>3, <1>4, <1>5, Types, StepKeeps

LEMMA NotifyKeeps == ASSUME ReviewInv, NEW w \in Worker, Notify(w) PROVE ReviewInv'
<1> PICK u \in User, k \in Key : u = job[w].user /\ k = job[w].key
  BY JobIs DEF Notify, At, JobOK
<1>1. job[w] \in Job /\ job[w].pc = "notify" /\ JobOK(job[w]) /\ TellsOK(job[w])
  BY JobIs DEF Notify, At
<1>2. CASE job[w].approve
  <2>1. Push(u, "SUBMISSION_APPROVED", k) /\ Goto(w, "followers")
        /\ UNCHANGED <<store, ledger, follows, clock, history>>
    BY <1>2 DEF Notify
  <2>2. PICK j \in Job : /\ job' = [job EXCEPT ![w] = j] /\ j.pc = "followers"
                         /\ j.user = u /\ j.key = k /\ j.approve = job[w].approve
    BY <2>1, GotoIs DEF Pcs
  <2>3. Telling(job[w]) /\ \A v \in User : Heard(v, k) = 0
    BY <1>1, <1>2 DEF Telling, TellsOK
  <2>4. JobOK(j)
    BY <1>1, <1>2, <2>2 DEF JobOK, Recording, Reviewed
  <2>5. TellsOK(j)'
    <3>1. \A v \in User \ {u} : Heard(v, k)' = 0
      BY <2>1, <2>3, PushIs
    <3>2. QED  BY <2>2, <3>1 DEF TellsOK, Heard
  <2>6. QED  BY <2>1, <2>2, <2>3, <2>4, <2>5, TellKeeps
<1>3. CASE ~ job[w].approve
  <2>1. Push(u, "SUBMISSION_REJECTED", k) /\ Goto(w, "mark")
        /\ UNCHANGED <<store, ledger, follows, clock, history>>
    BY <1>3 DEF Notify
  <2>2. PICK j \in Job : /\ job' = [job EXCEPT ![w] = j] /\ j.pc = "mark"
                         /\ j.user = u /\ j.key = k /\ j.approve = job[w].approve
    BY <2>1, GotoIs DEF Pcs
  <2>3. JobOK(j) /\ ~ Telling(j) /\ TellsOK(j)'
    BY <1>1, <1>3, <2>2 DEF JobOK, Telling, TellsOK, Recording, Reviewed
  <2>4. QED  BY <2>1, <2>2, <2>3, TellKeeps
<1>4. QED  BY <1>2, <1>3

LEMMA FollowersKeeps == ASSUME ReviewInv, NEW w \in Worker, Followers(w) PROVE ReviewInv'
<1> PICK k \in Key : k = job[w].key
  BY JobIs DEF Followers, At
<1> DEFINE rest == ToldAsFollower(w)
           j == [job[w] EXCEPT !.pc = "fan", !.rest = rest]
<1>1. job[w] \in Job /\ job[w].pc = "followers" /\ JobOK(job[w]) /\ TellsOK(job[w])
  BY JobIs DEF Followers, At
<1>2. rest \subseteq User \ {job[w].user}
  <2>1. follows[DeviceOf[k]] \subseteq User
    BY Types
  <2>2. QED  BY <2>1 DEF ToldAsFollower
<1>3. job' = [job EXCEPT ![w] = j] /\ UNCHANGED <<store, ledger, follows, inbox>>
      /\ recorded' = recorded /\ clock' = clock /\ count' = count /\ overlap' = overlap
      /\ died' = died
  BY DEF Followers, history
<1> HIDE DEF rest
<1>4. /\ j \in Job /\ j.pc = "fan" /\ j.user = job[w].user /\ j.key = k
      /\ j.approve = job[w].approve /\ j.rest = rest
  BY <1>1, <1>2 DEF Job
<1> HIDE DEF j
<1>5. job[w].approve /\ Telling(job[w]) /\ Telling(j)
  BY <1>1, <1>4 DEF JobOK, Telling
<1>6. JobOK(j)
  BY <1>1, <1>4, <1>5 DEF JobOK, Recording, Reviewed
<1>7. \A v \in User \ {job[w].user} : Heard(v, k) = 0
  BY <1>1, <1>5 DEF TellsOK
<1>8. TellsOK(j)
  BY <1>2, <1>4, <1>7 DEF TellsOK
<1>9. QED  BY <1>3, <1>4, <1>5, <1>6, <1>8, Types, GoesOn

LEMMA FanKeeps == ASSUME ReviewInv, NEW w \in Worker, Fan(w) PROVE ReviewInv'
<1> PICK k \in Key : k = job[w].key
  BY JobIs DEF Fan, At
<1>1. job[w] \in Job /\ job[w].pc = "fan" /\ JobOK(job[w]) /\ TellsOK(job[w])
      /\ UNCHANGED <<store, ledger, follows, clock, history>>
  BY JobIs DEF Fan, At
<1>2. Telling(job[w]) /\ \A v \in job[w].rest : Heard(v, k) = 0
  BY <1>1 DEF JobOK, Telling, TellsOK
<1>3. ASSUME NEW u \in job[w].rest, Push(u, "NEW_FIRMWARE", k),
             job' = [job EXCEPT ![w].rest = @ \ {u}]
      PROVE  ReviewInv'
  <2>1. PICK j \in Job : /\ job' = [job EXCEPT ![w] = j] /\ j.pc = "fan"
                         /\ j.user = job[w].user /\ j.key = k
                         /\ j.approve = job[w].approve /\ j.rest = job[w].rest \ {u}
    <3> DEFINE i == [job[w] EXCEPT !.rest = job[w].rest \ {u}]
    <3>1. /\ i \in Job /\ i.pc = "fan" /\ i.user = job[w].user /\ i.key = k
          /\ i.approve = job[w].approve /\ i.rest = job[w].rest \ {u}
      BY <1>1 DEF Job
    <3>2. job' = [job EXCEPT ![w] = i]
      BY <1>3, Types
    <3> HIDE DEF i
    <3>3. QED  BY <3>1, <3>2
  <2>3. JobOK(j)
    BY <1>1, <2>1 DEF JobOK, Recording, Reviewed
  <2>4. u \in User /\ job[w].rest \subseteq User
    BY JobIs
  <2>5. \A v \in j.rest : Heard(v, k)' = 0
    BY <1>2, <1>3, <2>1, <2>4, PushIs
  <2>6. TellsOK(j)'
    BY <2>1, <2>5 DEF TellsOK, Heard
  <2>7. QED  BY <1>1, <1>2, <1>3, <2>1, <2>3, <2>4, <2>6, TellKeeps DEF Telling
<1>4. CASE (IF job[w].user # Nil THEN Goto(w, "mark") ELSE Return(w)) /\ UNCHANGED inbox
  <2>1. UNCHANGED <<store, ledger, follows, inbox>> /\ recorded' = recorded /\ clock' = clock
        /\ count' = count /\ overlap' = overlap /\ died' = died
    BY <1>1, <1>4 DEF history
  <2>2. CASE Return(w)
    BY <2>1, <2>2, Types, Leaves
  <2>3. CASE Goto(w, "mark") /\ job[w].user # Nil
    <3>1. PICK j \in Job : /\ job' = [job EXCEPT ![w] = j] /\ j.pc = "mark"
                           /\ j.user = job[w].user /\ j.key = k /\ j.approve = job[w].approve
      BY <2>3, GotoIs DEF Pcs
    <3>2. JobOK(j) /\ ~ Telling(j) /\ TellsOK(j)
      BY <1>1, <2>3, <3>1 DEF JobOK, Telling, TellsOK, Recording, Reviewed
    <3>3. QED  BY <2>1, <3>1, <3>2, Types, GoesOn
  <2>4. QED  BY <1>4, <2>2, <2>3
<1>5. QED  BY <1>3, <1>4 DEF Fan

LEMMA MarkKeeps == ASSUME ReviewInv, NEW w \in Worker, Mark(w) PROVE ReviewInv'
<1>1. job[w] \in Job /\ job[w].pc = "mark" /\ JobOK(job[w]) /\ job[w].key \in Key
  BY JobIs DEF Mark, At
<1>2. UNCHANGED <<store, ledger, follows, inbox>> /\ recorded' = recorded /\ clock' = clock
      /\ count' = count /\ overlap' = overlap /\ died' = died
  BY DEF Mark, history
<1>3. CASE Return(w)
  BY <1>2, <1>3, Types, Leaves
<1>4. CASE Goto(w, "stamp")
  <2>1. PICK j \in Job : /\ job' = [job EXCEPT ![w] = j] /\ j.pc = "stamp"
                         /\ j.user = job[w].user /\ j.key = job[w].key
                         /\ j.approve = job[w].approve
    BY <1>4, GotoIs DEF Pcs
  <2>2. JobOK(j) /\ ~ Telling(j) /\ TellsOK(j)
    BY <1>1, <2>1 DEF JobOK, Telling, TellsOK, Recording, Reviewed
  <2>3. QED  BY <1>2, <2>1, <2>2, Types, GoesOn
<1>5. QED  BY <1>3, <1>4 DEF Mark

Verdict(w) == IF job[w].approve THEN "APPROVED" ELSE "REJECTED"

\* A row with its verdict.
Stamped(w, r) == IF r.key = job[w].key THEN [r EXCEPT !.status = Verdict(w)] ELSE r

LEMMA StampedIs ==
    ASSUME NEW w \in Worker, NEW r \in Row
    PROVE  /\ Stamped(w, r) \in Row /\ Stamped(w, r).key = r.key /\ Stamped(w, r).at = r.at
           /\ r.key = job[w].key => Stamped(w, r).status = Verdict(w)
           /\ r.key # job[w].key => Stamped(w, r) = r
<1>1. Verdict(w) \in Status
  BY DEF Verdict, Status
<1>2. QED  BY <1>1 DEF Stamped, Row

\* Of rows of different coordinates, stamping leaves as many.
LEMMA StampedRows ==
    ASSUME NEW w \in Worker, NEW S, S \subseteq Row, IsFiniteSet(S),
           \A q, r \in S : q.key = r.key => q = r
    PROVE  LET T == {Stamped(w, r) : r \in S}
           IN  IsFiniteSet(T) /\ Cardinality(T) = Cardinality(S)
<1> DEFINE T == {Stamped(w, r) : r \in S}
           f == [r \in S |-> Stamped(w, r)]
<1>1. f \in [S -> T] /\ \A t \in T : \E s \in S : f[s] = t
  OBVIOUS
<1>2. \A q, r \in S : f[q] = f[r] => q = r
  BY StampedIs
<1>3. f \in Bijection(S, T)
  <2> HIDE DEF f, T
  <2>1. QED  BY <1>1, <1>2 DEF Bijection, Injection, Surjection, IsInjective
<1>4. QED
  <2> HIDE DEF f
  <2>1. ExistsBijection(S, T)
    BY <1>3 DEF ExistsBijection
  <2> HIDE DEF T
  <2>2. IsFiniteSet(T) /\ Cardinality(T) = Cardinality(S)
    BY <2>1, FS_Bijection
  <2>3. QED  BY <2>2 DEF T

\* The rows of the submitter are the same rows, that of the version stamped.
LEMMA StampIs ==
    ASSUME ReviewInv, NEW w \in Worker, Stamp(w)
    PROVE  /\ job[w].user \in User /\ job[w].key \in Key /\ job[w].pc = "stamp"
           /\ job[w].approve => live[job[w].key] # Nil
           /\ ledger' \in [User -> SUBSET Row]
           /\ ledger'[job[w].user] = {Stamped(w, r) : r \in ledger[job[w].user]}
           /\ \A v \in User : v # job[w].user => ledger'[v] = ledger[v]
           /\ job' = [job EXCEPT ![w] = Idle]
           /\ UNCHANGED <<store, follows, inbox, clock, history>>
<1>1. /\ job[w].pc = "stamp" /\ job[w].user \in User /\ job[w].key \in Key
      /\ job[w].approve => live[job[w].key] # Nil
  BY JobIs DEF Stamp, At, JobOK, Reviewed
<1>2. PICK u \in User : u = job[w].user
  BY <1>1
<1>3. ledger' = [ledger EXCEPT ![u] = {Stamped(w, r) : r \in ledger[u]}]
  BY <1>2, Zenon DEF Stamp, Stamped, Verdict
<1>4. {Stamped(w, r) : r \in ledger[u]} \subseteq Row
  BY Types, StampedIs
<1>5. /\ ledger' \in [User -> SUBSET Row]
      /\ ledger'[u] = {Stamped(w, r) : r \in ledger[u]}
      /\ \A v \in User : v # u => ledger'[v] = ledger[v]
  <2> DEFINE rows == {Stamped(w, r) : r \in ledger[u]}
  <2> HIDE DEF rows
  <2>1. QED  BY <1>3, <1>4, Types DEF rows
<1>6. QED  BY <1>1, <1>2, <1>5 DEF Stamp, Return

LEMMA StampKeeps == ASSUME ReviewInv, NEW w \in Worker, Stamp(w) PROVE ReviewInv'
<1> PICK u \in User : u = job[w].user
  BY StampIs
<1>1. /\ staged' = staged /\ live' = live /\ follows' = follows /\ inbox' = inbox
      /\ recorded' = recorded /\ clock' = clock
      /\ count' = count /\ overlap' = overlap /\ died' = died
  BY StampIs DEF history, store
<1>2. ASSUME NEW v \in User PROVE RowsOK(v)'
  <2>1. RowsOK(v) /\ ledger[v] \subseteq Row
    BY Types DEF ReviewInv
  <2>2. CASE v # u
    <3>1. ledger'[v] = ledger[v]
      BY <2>2, StampIs
    <3>2. QED  BY <1>1, <2>1, <3>1 DEF RowsOK
  <2>3. CASE v = u
    <3>1. ledger'[v] = {Stamped(w, r) : r \in ledger[v]}
      BY <2>3, StampIs
    <3>2. IsFiniteSet(ledger'[v])
      BY <2>1, <3>1, StampedRows DEF RowsOK
    <3>3. ASSUME NEW q \in ledger'[v], NEW r \in ledger'[v], q.key = r.key PROVE q = r
      <4>1. PICK p \in ledger[v], s \in ledger[v] : q = Stamped(w, p) /\ r = Stamped(w, s)
        BY <3>1
      <4>2. p.key = s.key
        BY <2>1, <3>3, <4>1, StampedIs
      <4>3. QED  BY <2>1, <4>1, <4>2 DEF RowsOK
    <3>4. ASSUME NEW r \in ledger'[v], r.status = "APPROVED" PROVE live'[r.key] # Nil
      <4>1. PICK s \in ledger[v] : r = Stamped(w, s)
        BY <3>1
      <4>2. CASE s.key = job[w].key
        <5>1. r.key = job[w].key /\ r.status = Verdict(w)
          BY <2>1, <4>1, <4>2, StampedIs
        <5>2. job[w].approve
          BY <3>4, <5>1 DEF Verdict
        <5>3. QED  BY <1>1, <5>1, <5>2, StampIs
      <4>3. CASE s.key # job[w].key
        BY <1>1, <2>1, <3>4, <4>1, <4>3, StampedIs DEF RowsOK
      <4>4. QED  BY <4>2, <4>3
    <3>5. QED  BY <3>2, <3>3, <3>4 DEF RowsOK
  <2>4. QED  BY <2>2, <2>3
<1>3. TellsOK(Idle)
  BY IdleOK DEF TellsOK
<1>4. QED  BY <1>1, <1>2, <1>3, StampIs, IdleIs, IdleOK, Types, QuietKeeps

-----------------------------------------------------------------------------
(* Follows, and requests that fail *)

LEMMA FrameKeeps ==
    ASSUME ReviewInv, TypeOK', staged' = staged, live' = live, ledger' = ledger,
           inbox' = inbox, job' = job
    PROVE  ReviewInv'
<1>1. ASSUME NEW w \in Worker PROVE JobOK(job[w])' /\ TellsOK(job[w])'
  <2>1. JobOK(job[w]) /\ TellsOK(job[w])
    BY DEF ReviewInv
  <2>2. JobOK(job[w])'
    BY <2>1 DEF JobOK
  <2>3. QED  BY <2>1, <2>2, TellsStays
<1>2. ASSUME NEW v \in Worker, NEW w \in Worker, v # w PROVE Apart(job[v], job[w])'
  BY <1>2 DEF ReviewInv, Apart, Telling
<1>3. ASSUME NEW u \in User PROVE RowsOK(u)'
  BY DEF ReviewInv, RowsOK
<1>4. ASSUME NEW k \in Key PROVE KeyOK(k)'
  <2>1. KeyOK(k) /\ \A u \in User : Heard(u, k)' = Heard(u, k)
    BY DEF ReviewInv, Heard
  <2>2. QED  BY <2>1 DEF KeyOK
<1>5. QED  BY <1>1, <1>2, <1>3, <1>4 DEF ReviewInv

LEMMA FollowKeeps ==
    ASSUME ReviewInv, NEW u \in User, NEW d \in Device, Follow(u, d)
    PROVE  ReviewInv'
<1>1. /\ staged' = staged /\ live' = live /\ ledger' = ledger /\ inbox' = inbox /\ job' = job
      /\ recorded' = recorded /\ clock' = clock /\ count' = count
      /\ overlap' = overlap /\ died' = died
  BY DEF Follow, store, history
<1>2. follows' \in [Device -> SUBSET User]
  <2>1. follows \in [Device -> SUBSET User]
    BY Types
  <2>2. CASE follows' = [follows EXCEPT ![d] = @ \cup {u}]
    BY <2>1, <2>2
  <2>3. CASE follows' = [follows EXCEPT ![d] = @ \ {u}]
    BY <2>1, <2>3
  <2>4. QED  BY <2>2, <2>3 DEF Follow
<1>3. TypeOK'
  BY <1>1, <1>2, Types DEF TypeOK
<1>4. QED  BY <1>1, <1>3, FrameKeeps

LEMMA HiccupKeeps == ASSUME ReviewInv, NEW w \in Worker, Hiccup(w) PROVE ReviewInv'
<1>1. /\ UNCHANGED <<store, ledger, follows, inbox>> /\ recorded' = recorded
      /\ clock' = clock /\ count' = count /\ overlap' = overlap /\ died' \in BOOLEAN
  BY DEF Hiccup
<1>2. job[w] \in Job /\ JobOK(job[w]) /\ TellsOK(job[w])
  BY JobIs
<1>3. CASE Return(w)
  BY <1>1, <1>3, Types, Leaves
<1>4. ASSUME NEW pc \in {"followers", "mark"}, Goto(w, pc), job[w].pc \in {"notify", "followers"},
             pc = "followers" => job[w].approve /\ job[w].pc = "notify",
             pc = "mark" => job[w].user # Nil
      PROVE  ReviewInv'
  <2>1. pc \in Pcs
    BY DEF Pcs
  <2>2. PICK j \in Job : /\ job' = [job EXCEPT ![w] = j] /\ j.pc = pc
                         /\ j.user = job[w].user /\ j.key = job[w].key
                         /\ j.approve = job[w].approve
    BY <1>4, <2>1, GotoIs
  <2>3. JobOK(j)
    BY <1>2, <1>4, <2>2 DEF JobOK, Recording, Reviewed
  <2>4. TellsOK(j) /\ (Telling(j) => Telling(job[w]))
    BY <1>2, <1>4, <2>2 DEF TellsOK, Telling
  <2>5. QED  BY <1>1, <2>2, <2>3, <2>4, Types, GoesOn
<1>5. ASSUME NEW u \in job[w].rest, At(w, "fan"), job' = [job EXCEPT ![w].rest = @ \ {u}]
      PROVE  ReviewInv'
  <2> DEFINE j == [job[w] EXCEPT !.rest = job[w].rest \ {u}]
  <2>1. /\ j \in Job /\ j.pc = "fan" /\ j.user = job[w].user /\ j.key = job[w].key
        /\ j.approve = job[w].approve /\ j.rest = job[w].rest \ {u}
    BY <1>2, <1>5 DEF Job, At
  <2>2. job' = [job EXCEPT ![w] = j]
    BY <1>5, Types
  <2>3. job[w].pc = "fan"
    BY <1>5 DEF At
  <2> HIDE DEF j
  <2>4. JobOK(j)
    BY <1>2, <2>1, <2>3 DEF JobOK, Recording, Reviewed
  <2>5. TellsOK(j) /\ (Telling(j) => Telling(job[w]))
    BY <1>2, <2>1, <2>3 DEF TellsOK, Telling
  <2>6. QED  BY <1>1, <2>1, <2>2, <2>4, <2>5, Types, GoesOn
<1>6. QED
  <2>1. CASE At(w, "notify") /\ Goto(w, IF job[w].approve THEN "followers" ELSE "mark")
    BY <1>2, <1>4, <2>1 DEF At, JobOK
  <2>2. CASE At(w, "followers") /\ Goto(w, "mark") /\ job[w].user # Nil
    BY <1>4, <2>2 DEF At
  <2>3. QED  BY <1>3, <1>5, <2>1, <2>2 DEF Hiccup

LEMMA CrashKeeps == ASSUME ReviewInv, Crash PROVE ReviewInv'
<1>1. /\ staged' = staged /\ live' = live /\ ledger' = ledger /\ follows' = follows
      /\ inbox' = inbox /\ recorded' = recorded /\ clock' = clock /\ count' = count
      /\ overlap' = overlap /\ died' = TRUE
  BY DEF Crash, store
<1>2. job' \in [Worker -> Job] /\ \A w \in Worker : job'[w] = Idle
  BY IdleIs DEF Crash
<1>3. TypeOK'
  BY <1>1, <1>2, IdleIs, Types DEF TypeOK
<1>4. \A w \in Worker : ~ Telling(job[w])'
  BY <1>2, IdleOK DEF Telling
<1>5. \A w \in Worker : JobOK(job[w])' /\ TellsOK(job[w])'
  BY <1>2, <1>4, IdleIs DEF JobOK, TellsOK, Telling, Recording, Reviewed
<1>6. (\A u \in User : RowsOK(u)') /\ \A k \in Key : KeyOK(k)'
  BY <1>1 DEF ReviewInv, RowsOK, KeyOK, Heard
<1>7. \A v, w \in Worker : Apart(job[v], job[w])'
  BY <1>2, IdleOK DEF Apart, Telling
<1>8. QED  BY <1>3, <1>5, <1>6, <1>7 DEF ReviewInv

LEMMA ReviewNext == ReviewInv /\ [Next]_vars => ReviewInv'
<1> SUFFICES ASSUME ReviewInv, [Next]_vars PROVE ReviewInv'
  OBVIOUS
<1>1. CASE UNCHANGED vars
  <2>1. /\ staged' = staged /\ live' = live /\ ledger' = ledger /\ follows' = follows
        /\ inbox' = inbox /\ job' = job /\ recorded' = recorded /\ clock' = clock
        /\ count' = count /\ overlap' = overlap /\ died' = died
    BY <1>1 DEF vars
  <2>2. TypeOK'
    BY <2>1, Types DEF TypeOK
  <2>3. QED  BY <2>1, <2>2, FrameKeeps
<1>2. ASSUME NEW w \in Worker,
             \/ \E u \in User, k \in Key : Stage(w, u, k)
             \/ Present(w) \/ Write(w) \/ Count(w) \/ Oldest(w) \/ Delete(w)
      PROVE  ReviewInv'
  BY <1>2, StageKeeps, PresentKeeps, WriteKeeps, CountKeeps, OldestKeeps, DeleteKeeps
<1>3. ASSUME NEW w \in Worker,
             \/ \E k \in Key, approve \in BOOLEAN : Capture(w, k, approve)
             \/ Decide(w) \/ Notify(w) \/ Followers(w) \/ Fan(w) \/ Mark(w) \/ Stamp(w)
             \/ Hiccup(w)
      PROVE  ReviewInv'
  BY <1>3, CaptureKeeps, DecideKeeps, NotifyKeeps, FollowersKeeps, FanKeeps, MarkKeeps,
     StampKeeps, HiccupKeeps
<1>4. QED  BY <1>1, <1>2, <1>3, FollowKeeps, CrashKeeps DEF Next

-----------------------------------------------------------------------------
(* What holds of requests in any order *)

\* The invariant of the module: the types, one row a coordinate, and who is
\* still to be told of what.
THEOREM InvHolds == Spec => []ReviewInv
<1>1. QED  BY ReviewInit, ReviewNext, PTL DEF Spec

\* Submissions and reviews that overlap, fail or die anywhere leave one row a
\* coordinate in the ledger of a submitter.
THEOREM OneRowHolds == Spec => []OneRow
<1>1. ReviewInv => OneRow
  BY DEF ReviewInv, OneRow, RowsOK
<1>2. QED  BY <1>1, InvHolds, PTL

\* No row is stamped APPROVED of a version that is not live: a review that lost
\* to another stamps nothing.
THEOREM ApprovedIsLiveHolds == Spec => []ApprovedIsLive
<1>1. ReviewInv => ApprovedIsLive
  BY DEF ReviewInv, ApprovedIsLive, RowsOK, StatusOf
<1>2. QED  BY <1>1, InvHolds, PTL

\* Nobody hears twice of a publication, however many reviews were under way and
\* whatever they follow.
THEOREM ToldOnceHolds == Spec => []ToldOnce
<1>1. ReviewInv => ToldOnce
  BY DEF ReviewInv, ToldOnce, KeyOK, Heard
<1>2. QED  BY <1>1, InvHolds, PTL

-----------------------------------------------------------------------------
(* What holds when requests come one at a time and finish *)

Writing(j, k) == j.pc \in {"present", "write"} /\ j.key = k

Trimming(j, u) == j.pc \in {"count", "oldest", "delete"} /\ j.user = u

Marking(j, k) == j.pc \in Reviewed /\ j.key = k

Told(u, k) == inbox[u][<<"SUBMISSION_APPROVED", k>>]

\* What the one request in progress has in hand is still so.
JobAlone(j) ==
    /\ j.pc \in {"present", "write"} => staged[j.key] = j.user /\ live[j.key] = Nil
    /\ j.pc = "write" =>
          /\ j.now = clock /\ \A k \in Key : recorded[j.user][k] < clock
          /\ j.present = HasRow(j.user, j.key)
    /\ j.pc \in {"oldest", "delete"} => Cardinality(ledger[j.user]) = MaxRows + 1
    /\ j.pc = "oldest" => j.extra = 1
    /\ j.pc = "delete" => \E r \in ledger[j.user] :
          j.rows = {r} /\ \A q \in ledger[j.user] : q = r \/ r.at < q.at
    /\ j.pc = "review" => j.user = staged[j.key]
    /\ j.pc \in Reviewed =>
          /\ j.user \in User /\ staged[j.key] = Nil
          /\ live[j.key] = IF j.approve THEN j.user ELSE Nil
          /\ j.approve /\ j.pc # "notify" => Told(j.user, j.key) = 1

\* The ledger of a user is the latest submissions, one more while it is trimmed.
UserAlone(j, u) ==
    /\ \A r \in ledger[u] : r.at = recorded[u][r.key]
    /\ \A q, r \in ledger[u] : q.at = r.at => q = r
    /\ Cardinality(ledger[u]) <= IF Trimming(j, u) THEN MaxRows + 1 ELSE MaxRows

\* It tells of a version what the store says, but for what is yet to be written.
KeyAlone(j, u, k) ==
    /\ recorded[u][k] <= clock
    /\ ~ HasRow(u, k) => \A r \in ledger[u] : recorded[u][k] < r.at
    /\ \A r \in ledger[u] : r.key = k =>
          /\ r.status = "APPROVED" => live[k] = u
          /\ staged[k] = u => r.status = "PENDING" \/ Writing(j, k)
          /\ live[k] = u => r.status = "APPROVED" \/ Marking(j, k)
    /\ live[k] = u => Told(u, k) = 1 \/ Marking(j, k)
    /\ u \in {staged[k], live[k]} =>
          HasRow(u, k) \/ Writing(j, k) \/ Cardinality(ledger[u]) >= MaxRows

Alone(j) ==
    /\ JobAlone(j)
    /\ \A u \in User : UserAlone(j, u) /\ \A k \in Key : KeyAlone(j, u, k)

\* j is the job of the one request there is, if there is one.
OnlyJob(j) ==
    \/ j = Idle /\ \A w \in Worker : job[w] = Idle
    \/ \E w \in Worker : job[w] = j /\ \A v \in Worker \ {w} : job[v] = Idle

AloneInv == ~ overlap /\ ~ died => \E j \in Job : OnlyJob(j) /\ Alone(j)

LEMMA OneAt ==
    ASSUME ReviewInv, AloneInv, ~ overlap, ~ died, NEW w \in Worker, job[w].pc # "idle"
    PROVE  \E i \in Job : /\ i = job[w] /\ Alone(i) /\ JobOK(i) /\ TellsOK(i)
                          /\ \A v \in Worker \ {w} : job[v] = Idle
<1>1. PICK j \in Job : OnlyJob(j) /\ Alone(j)
  BY DEF AloneInv
<1>2. j = job[w] /\ \A v \in Worker \ {w} : job[v] = Idle
  BY <1>1, IdleIs DEF OnlyJob
<1>3. QED  BY <1>1, <1>2, JobIs

LEMMA StepAlone ==
    ASSUME ReviewInv, NEW w \in Worker, NEW j \in Job, job' = [job EXCEPT ![w] = j],
           ~ overlap' /\ ~ died' => Alone(j)' /\ \A v \in Worker \ {w} : job[v] = Idle
    PROVE  AloneInv'
<1> SUFFICES ASSUME ~ overlap', ~ died' PROVE OnlyJob(j)'
  BY DEF AloneInv
<1>1. job'[w] = j /\ \A v \in Worker \ {w} : job'[v] = job[v]
  BY Types
<1>2. QED  BY <1>1 DEF OnlyJob

\* What the job i left to be written, j leaves too, or it is so.
MovesOn(i, j) ==
    /\ \A k \in Key : Writing(i, k) => Writing(j, k)
    /\ \A k \in Key : Marking(i, k) =>
          \/ Marking(j, k)
          \/ \A u \in User : live[k] = u =>
                Told(u, k) = 1 /\ \A r \in ledger[u] : r.key = k => r.status = "APPROVED"
    /\ \A u \in User : Trimming(i, u) => Trimming(j, u) \/ Cardinality(ledger[u]) <= MaxRows

\* Steps of the job alone.
LEMMA JobSteps ==
    ASSUME ReviewInv, NEW i \in Job, NEW j \in Job, Alone(i), JobAlone(j)',
           staged' = staged, live' = live, ledger' = ledger, recorded' = recorded,
           \A u \in User, k \in Key : Told(u, k)' = Told(u, k) \/ Marking(j, k),
           clock' \in Time, clock <= clock',
           MovesOn(i, j)
    PROVE  Alone(j)'
<1>1. ASSUME NEW u \in User PROVE UserAlone(j, u)'
  <2>1. UserAlone(i, u)
    BY DEF Alone
  <2>2. \A r \in ledger'[u] : r.at = recorded'[u][r.key]
    BY <2>1 DEF UserAlone
  <2>3. \A q, r \in ledger'[u] : q.at = r.at => q = r
    BY <2>1 DEF UserAlone
  <2>4. Cardinality(ledger[u]) <= IF Trimming(j, u) THEN MaxRows + 1 ELSE MaxRows
    <3>1. Cardinality(ledger[u]) \in Nat
      BY FS_CardinalityType DEF ReviewInv, RowsOK
    <3>2. Cardinality(ledger[u]) <= IF Trimming(i, u) THEN MaxRows + 1 ELSE MaxRows
      BY <2>1 DEF UserAlone
    <3>3. CASE Trimming(i, u)
      BY <3>1, <3>2, <3>3 DEF MovesOn
    <3>4. CASE ~ Trimming(i, u)
      BY <3>1, <3>2, <3>4
    <3>5. QED  BY <3>3, <3>4
  <2>5. QED  BY <2>2, <2>3, <2>4 DEF UserAlone, Trimming
<1>2. ASSUME NEW u \in User, NEW k \in Key PROVE KeyAlone(j, u, k)'
  <2>1. KeyAlone(i, u, k)
    BY DEF Alone
  <2>2. recorded'[u][k] <= clock'
    <3>1. recorded[u][k] \in Nat /\ clock \in Nat /\ clock' \in Nat
      BY Types DEF Time
    <3>2. recorded[u][k] <= clock
      BY <2>1 DEF KeyAlone
    <3>3. QED  BY <3>1, <3>2
  <2>3. (live[k] = u => Told(u, k) = 1 \/ Marking(j, k))
        /\ \A r \in ledger[u] : r.key = k /\ live[k] = u => r.status = "APPROVED" \/ Marking(j, k)
    BY <2>1 DEF KeyAlone, MovesOn
  <2>4. Told(u, k)' = Told(u, k) \/ Marking(j, k)
    OBVIOUS
  <2>5. Writing(i, k) => Writing(j, k)
    BY DEF MovesOn
  <2>6. QED  BY <2>1, <2>2, <2>3, <2>4, <2>5 DEF KeyAlone, HasRow, Writing, Marking
<1>3. QED  BY <1>1, <1>2 DEF Alone

LEMMA GoesOnAlone ==
    ASSUME ReviewInv, AloneInv, NEW w \in Worker, job[w].pc # "idle",
           NEW j \in Job, job' = [job EXCEPT ![w] = j],
           UNCHANGED <<store, ledger>>, recorded' = recorded, overlap' = overlap, died' = died,
           \A u \in User, k \in Key : Told(u, k)' = Told(u, k) \/ Marking(j, k),
           clock' \in Time, clock <= clock',
           Alone(job[w]) => JobAlone(j)' /\ MovesOn(job[w], j)
    PROVE  AloneInv'
<1>1. SUFFICES ASSUME ~ overlap, ~ died
               PROVE  Alone(j)' /\ \A v \in Worker \ {w} : job[v] = Idle
  BY StepAlone
<1>2. PICK i \in Job : i = job[w] /\ Alone(i) /\ \A v \in Worker \ {w} : job[v] = Idle
  BY <1>1, OneAt
<1>3. staged' = staged /\ live' = live /\ ledger' = ledger
  BY DEF store
<1>4. JobAlone(j)' /\ MovesOn(i, j)
  BY <1>2
<1>5. Alone(j)'
  BY <1>2, <1>3, <1>4, JobSteps
<1>6. QED  BY <1>2, <1>5

LEMMA PresentAlone == ASSUME ReviewInv, AloneInv, NEW w \in Worker, Present(w) PROVE AloneInv'
<1> PICK u \in User, k \in Key : u = job[w].user /\ k = job[w].key /\ job[w] \in Job
                                 /\ job[w].pc = "present"
  BY JobIs DEF Present, At, Recording
<1>1. PICK j \in Job : /\ job' = [job EXCEPT ![w] = j] /\ j.pc = "write" /\ j.user = u /\ j.key = k
                       /\ j.now = clock + 1 /\ j.present = HasRow(u, k)
  <2> DEFINE here == HasRow(u, k)
             i == [job[w] EXCEPT !.pc = "write", !.now = clock + 1, !.present = here]
  <2>1. clock + 1 \in Time
    BY Types DEF Present, Time
  <2>2. here \in BOOLEAN
    BY DEF HasRow
  <2>3. job' = [job EXCEPT ![w] = i]
    BY DEF Present
  <2> HIDE DEF here
  <2>4. i \in Job /\ i.pc = "write" /\ i.user = u /\ i.key = k /\ i.now = clock + 1
        /\ i.present = here
    BY <2>1, <2>2 DEF Job
  <2> HIDE DEF i
  <2>5. QED  BY <2>3, <2>4 DEF here
<1>2. /\ clock' = clock + 1 /\ staged' = staged /\ live' = live /\ ledger' = ledger
      /\ inbox' = inbox /\ recorded' = recorded /\ overlap' = overlap /\ died' = died
  BY DEF Present, store, history
<1>3. clock' \in Time /\ clock <= clock'
  BY <1>2, Types DEF Present, Time
<1>4. ASSUME Alone(job[w]) PROVE JobAlone(j)' /\ MovesOn(job[w], j)
  <2>1. staged[k] = u /\ live[k] = Nil
    BY <1>4 DEF Alone, JobAlone
  <2>2. \A l \in Key : recorded[u][l] < clock'
    <3>1. ASSUME NEW l \in Key PROVE recorded[u][l] < clock'
      <4>1. recorded[u][l] \in Nat /\ clock \in Nat
        BY Types DEF Time
      <4>2. recorded[u][l] <= clock
        BY <1>4 DEF Alone, KeyAlone
      <4>3. QED  BY <1>2, <4>1, <4>2
    <3>2. QED  BY <3>1
  <2>3. JobAlone(j)'
    BY <1>1, <1>2, <2>1, <2>2 DEF JobAlone, HasRow, Reviewed
  <2>4. MovesOn(job[w], j)
    BY <1>1 DEF MovesOn, Writing, Marking, Trimming, Reviewed
  <2>5. QED  BY <2>3, <2>4
<1>5. QED  BY <1>1, <1>2, <1>3, <1>4, GoesOnAlone DEF store, Told

LEMMA Sizes ==
    ASSUME ReviewInv, NEW u \in User
    PROVE  IsFiniteSet(ledger[u]) /\ Cardinality(ledger[u]) \in Nat
BY FS_CardinalityType DEF ReviewInv, RowsOK

LEMMA CountAlone == ASSUME ReviewInv, AloneInv, NEW w \in Worker, Count(w) PROVE AloneInv'
<1> PICK u \in User : u = job[w].user /\ job[w] \in Job /\ job[w].pc = "count"
  BY JobIs DEF Count, At, Recording
<1>1. /\ staged' = staged /\ live' = live /\ ledger' = ledger /\ clock' = clock
      /\ inbox' = inbox /\ recorded' = recorded /\ overlap' = overlap /\ died' = died
  BY DEF Count, store, history
<1>2. Cardinality(ledger[u]) \in Nat /\ MaxRows \in Nat
  BY Sizes
<1>3. clock' \in Time /\ clock <= clock'
  BY <1>1, Types DEF Time
<1>4. CASE Extra(u) > 0 /\ job' = [job EXCEPT ![w] = [@ EXCEPT !.pc = "oldest", !.extra = Extra(u)]]
  <2>1. Extra(u) = Cardinality(ledger[u]) - MaxRows /\ Extra(u) \in Nat
        /\ Cardinality(ledger[u]) > MaxRows
    BY <1>2, <1>4 DEF Extra
  <2>2. PICK j \in Job : /\ job' = [job EXCEPT ![w] = j] /\ j.pc = "oldest" /\ j.user = u
                         /\ j.extra = Extra(u)
    <3> DEFINE i == [job[w] EXCEPT !.pc = "oldest", !.extra = Extra(u)]
    <3>1. i \in Job /\ i.pc = "oldest" /\ i.user = u /\ i.extra = Extra(u)
      BY <2>1 DEF Job
    <3>2. job' = [job EXCEPT ![w] = i]
      BY <1>4
    <3> HIDE DEF i
    <3>3. QED  BY <3>1, <3>2
  <2>3. ASSUME Alone(job[w]) PROVE JobAlone(j)' /\ MovesOn(job[w], j)
    <3>1. Cardinality(ledger[u]) <= MaxRows + 1
      BY <2>3 DEF Alone, UserAlone, Trimming
    <3>2. Extra(u) = 1 /\ Cardinality(ledger[u]) = MaxRows + 1
      BY <1>2, <2>1, <3>1
    <3>3. JobAlone(j)'
      BY <1>1, <2>2, <3>2 DEF JobAlone, Reviewed
    <3>4. MovesOn(job[w], j)
      BY <2>2 DEF MovesOn, Writing, Marking, Trimming, Reviewed
    <3>5. QED  BY <3>3, <3>4
  <2>4. QED  BY <1>1, <1>3, <2>2, <2>3, GoesOnAlone DEF store, Told
<1>5. CASE ~ (Extra(u) > 0) /\ Return(w)
  <2>1. Cardinality(ledger[u]) <= MaxRows
    BY <1>2, <1>5 DEF Extra
  <2>2. JobAlone(Idle)'
    BY IdleIs DEF JobAlone, Reviewed
  <2>3. MovesOn(job[w], Idle)
    BY <2>1 DEF MovesOn, Writing, Marking, Trimming, Reviewed
  <2>4. QED  BY <1>1, <1>3, <1>5, <2>2, <2>3, IdleIs, GoesOnAlone DEF store, Told, Return
<1>6. QED  BY <1>4, <1>5 DEF Count

LEMMA EarliestRow ==
    ASSUME NEW S, S \subseteq Row, S # {}
    PROVE  \E r \in S : \A q \in S : r.at <= q.at
<1> DEFINE T == {r.at : r \in S}
<1>1. T \subseteq Nat /\ T # {}
  BY DEF Row, Time
<1>2. \E x \in T : \A y \in T : ~ (<<y, x>> \in OpToRel(<, Nat))
  <2> HIDE DEF T
  <2>1. QED  BY <1>1, WFMin, NatLessThanWellFounded
<1>3. PICK x \in T : \A y \in T : ~ (y < x)
  BY <1>1, <1>2 DEF OpToRel
<1>4. PICK r \in S : r.at = x
  BY <1>3
<1>5. \A q \in S : q.at \in T
  OBVIOUS
<1>6. \A q \in S : q.at \in Nat
  BY DEF Row, Time
<1>7. QED
  <2> HIDE DEF T
  <2>1. QED  BY <1>3, <1>4, <1>5, <1>6

\* With one row too many, the row read is the one that came first.
LEMMA OldestIs ==
    ASSUME ReviewInv, NEW u \in User, ledger[u] # {},
           \A q, r \in ledger[u] : q.at = r.at => q = r
    PROVE  \E r \in ledger[u] : /\ OldestRows(u, 1) = {r}
                                /\ \A q \in ledger[u] : q = r \/ r.at < q.at
<1>1. ledger[u] \subseteq Row /\ IsFiniteSet(ledger[u])
  BY Types, Sizes
<1>2. PICK r \in ledger[u] : \A q \in ledger[u] : r.at <= q.at
  BY <1>1, EarliestRow
<1>3. \A q \in ledger[u] : q.at \in Nat
  BY <1>1 DEF Row, Time
<1>4. \A q \in ledger[u] : q = r \/ r.at < q.at
  BY <1>2, <1>3
<1> DEFINE Before(p) == {q \in ledger[u] : q.at < p.at}
<1>5. ASSUME NEW p \in ledger[u] PROVE Cardinality(Before(p)) < 1 <=> p = r
  <2>1. Before(p) \subseteq ledger[u]
    OBVIOUS
  <2>2. IsFiniteSet(Before(p)) /\ Cardinality(Before(p)) \in Nat
    BY <1>1, <2>1, FS_Subset, FS_CardinalityType
  <2>3. Cardinality(Before(p)) = 0 <=> Before(p) = {}
    BY <2>2, FS_EmptySet
  <2>4. Before(p) = {} <=> p = r
    BY <1>2, <1>3, <1>4
  <2> HIDE DEF Before
  <2>5. Cardinality(Before(p)) < 1 <=> Cardinality(Before(p)) = 0
    BY <2>2
  <2>6. QED  BY <2>3, <2>4, <2>5
<1>6. OldestRows(u, 1) = {r}
  BY <1>5 DEF OldestRows
<1>7. QED  BY <1>4, <1>6

LEMMA OldestAlone == ASSUME ReviewInv, AloneInv, NEW w \in Worker, Oldest(w) PROVE AloneInv'
<1> PICK u \in User : u = job[w].user /\ job[w] \in Job /\ job[w].pc = "oldest"
  BY JobIs DEF Oldest, At, Recording
<1>1. /\ staged' = staged /\ live' = live /\ ledger' = ledger /\ clock' = clock
      /\ inbox' = inbox /\ recorded' = recorded /\ overlap' = overlap /\ died' = died
  BY DEF Oldest, store, history
<1>2. clock' \in Time /\ clock <= clock'
  BY <1>1, Types DEF Time
<1>3. ASSUME Alone(job[w])
      PROVE  /\ Cardinality(ledger[u]) = MaxRows + 1
             /\ \E r \in ledger[u] : /\ OldestRows(u, job[w].extra) = {r}
                                     /\ \A q \in ledger[u] : q = r \/ r.at < q.at
  <2>1. Cardinality(ledger[u]) = MaxRows + 1 /\ job[w].extra = 1
    BY <1>3 DEF Alone, JobAlone
  <2>2. ledger[u] # {}
    <3>1. MaxRows + 1 # 0 /\ Cardinality({}) = 0
      BY FS_EmptySet DEF ReviewAssumption
    <3>2. QED  BY <2>1, <3>1
  <2>3. \A q, r \in ledger[u] : q.at = r.at => q = r
    BY <1>3 DEF Alone, UserAlone
  <2>4. QED  BY <2>1, <2>2, <2>3, OldestIs
<1>4. CASE /\ OldestRows(u, job[w].extra) # {}
           /\ job' = [job EXCEPT ![w] = [@ EXCEPT !.pc = "delete",
                                                  !.rows = OldestRows(u, job[w].extra)]]
  <2>1. PICK j \in Job : /\ job' = [job EXCEPT ![w] = j] /\ j.pc = "delete" /\ j.user = u
                         /\ j.rows = OldestRows(u, job[w].extra)
    <3> DEFINE rows == OldestRows(u, job[w].extra)
               i == [job[w] EXCEPT !.pc = "delete", !.rows = rows]
    <3>1. rows \subseteq Row
      <4>1. ledger[u] \subseteq Row
        BY Types
      <4>2. QED  BY <4>1 DEF OldestRows
    <3>2. job' = [job EXCEPT ![w] = i]
      BY <1>4
    <3> HIDE DEF rows
    <3>3. i \in Job /\ i.pc = "delete" /\ i.user = u /\ i.rows = rows
      BY <3>1 DEF Job
    <3> HIDE DEF i
    <3>4. QED  BY <3>2, <3>3 DEF rows
  <2>2. ASSUME Alone(job[w]) PROVE JobAlone(j)' /\ MovesOn(job[w], j)
    <3>1. JobAlone(j)'
      BY <1>1, <1>3, <2>1, <2>2 DEF JobAlone, Reviewed
    <3>2. MovesOn(job[w], j)
      BY <2>1 DEF MovesOn, Writing, Marking, Trimming, Reviewed
    <3>3. QED  BY <3>1, <3>2
  <2>3. QED  BY <1>1, <1>2, <2>1, <2>2, GoesOnAlone DEF store, Told
<1>5. CASE OldestRows(u, job[w].extra) = {} /\ Return(w)
  <2>1. ~ Alone(job[w])
    BY <1>3, <1>5
  <2>2. QED  BY <1>1, <1>2, <1>5, <2>1, IdleIs, GoesOnAlone DEF store, Told, Return
<1>6. QED  BY <1>4, <1>5 DEF Oldest

LEMMA FollowersAlone ==
    ASSUME ReviewInv, AloneInv, NEW w \in Worker, Followers(w) PROVE AloneInv'
<1>1. /\ staged' = staged /\ live' = live /\ ledger' = ledger /\ clock' = clock
      /\ inbox' = inbox /\ recorded' = recorded /\ overlap' = overlap /\ died' = died
  BY DEF Followers, store, history
<1>2. clock' \in Time /\ clock <= clock'
  BY <1>1, Types DEF Time
<1>3. job[w] \in Job /\ job[w].pc = "followers" /\ job[w].key \in Key
  BY JobIs DEF Followers, At
<1>4. PICK j \in Job : /\ job' = [job EXCEPT ![w] = j] /\ j.pc = "fan" /\ j.user = job[w].user
                       /\ j.key = job[w].key /\ j.approve = job[w].approve
  <2> DEFINE rest == ToldAsFollower(w)
             i == [job[w] EXCEPT !.pc = "fan", !.rest = rest]
  <2>1. rest \subseteq User
    <3>1. follows[DeviceOf[job[w].key]] \subseteq User
      BY <1>3, Types
    <3>2. QED  BY <3>1 DEF ToldAsFollower
  <2>2. job' = [job EXCEPT ![w] = i]
    BY DEF Followers
  <2> HIDE DEF rest
  <2>3. i \in Job /\ i.pc = "fan" /\ i.user = job[w].user /\ i.key = job[w].key
        /\ i.approve = job[w].approve
    BY <1>3, <2>1 DEF Job
  <2> HIDE DEF i
  <2>4. QED  BY <2>2, <2>3
<1>5. ASSUME Alone(job[w]) PROVE JobAlone(j)' /\ MovesOn(job[w], j)
  <2>1. JobAlone(j)'
    BY <1>1, <1>3, <1>4, <1>5 DEF Alone, JobAlone, Reviewed, Told
  <2>2. MovesOn(job[w], j)
    BY <1>3, <1>4 DEF MovesOn, Writing, Marking, Trimming, Reviewed
  <2>3. QED  BY <2>1, <2>2
<1>6. QED  BY <1>1, <1>2, <1>3, <1>4, <1>5, GoesOnAlone DEF store, Told

\* A notice of another kind tells nobody of an approval.
LEMMA PushTold ==
    ASSUME ReviewInv, NEW u \in User, NEW k \in Key,
           NEW kind \in {"SUBMISSION_APPROVED", "SUBMISSION_REJECTED", "NEW_FIRMWARE"}, Push(u, kind, k)
    PROVE  /\ \A v \in User, l \in Key :
                 v # u \/ l # k \/ kind # "SUBMISSION_APPROVED" => Told(v, l)' = Told(v, l)
           /\ kind = "SUBMISSION_APPROVED" => Told(u, k)' = Told(u, k) + 1
<1> DEFINE box == [inbox[u] EXCEPT ![<<kind, k>>] = inbox[u][<<kind, k>>] + 1]
<1>1. inbox' = [inbox EXCEPT ![u] = box]
  BY DEF Push
<1>2. inbox[u] \in [Notice -> Nat] /\ <<kind, k>> \in Notice
      /\ \A l \in Key : <<"SUBMISSION_APPROVED", l>> \in Notice
  BY Types DEF Notice
<1>3. \A n \in Notice : box[n] = IF n = <<kind, k>> THEN inbox[u][n] + 1 ELSE inbox[u][n]
  BY <1>2
<1>4. inbox'[u] = box /\ \A v \in User : v # u => inbox'[v] = inbox[v]
  <2> HIDE DEF box
  <2>1. QED  BY <1>1, Types
<1> HIDE DEF box
<1>5. ASSUME NEW v \in User, NEW l \in Key, v # u \/ l # k \/ kind # "SUBMISSION_APPROVED"
      PROVE  Told(v, l)' = Told(v, l)
  <2>1. CASE v # u
    BY <1>4, <2>1 DEF Told
  <2>2. CASE v = u /\ <<"SUBMISSION_APPROVED", l>> # <<kind, k>>
    BY <1>2, <1>3, <1>4, <2>2 DEF Told
  <2>3. QED  BY <1>5, <2>1, <2>2
<1>6. kind = "SUBMISSION_APPROVED" => Told(u, k)' = Told(u, k) + 1
  BY <1>2, <1>3, <1>4 DEF Told
<1>7. QED  BY <1>5, <1>6

LEMMA FanAlone == ASSUME ReviewInv, AloneInv, NEW w \in Worker, Fan(w) PROVE AloneInv'
<1>1. /\ staged' = staged /\ live' = live /\ ledger' = ledger /\ clock' = clock
      /\ recorded' = recorded /\ overlap' = overlap /\ died' = died
  BY DEF Fan, store, history
<1>2. clock' \in Time /\ clock <= clock'
  BY <1>1, Types DEF Time
<1> PICK k \in Key : k = job[w].key /\ job[w] \in Job /\ job[w].pc = "fan"
  BY JobIs DEF Fan, At
<1>3. job[w].approve
  BY JobIs DEF JobOK
<1>4. ASSUME NEW j \in Job, job' = [job EXCEPT ![w] = j], j.pc \in {"fan", "mark"}, j.key = k,
             j.user = job[w].user, j.approve = job[w].approve,
             \A v \in User, l \in Key : Told(v, l)' = Told(v, l)
      PROVE  AloneInv'
  <2>1. ASSUME Alone(job[w]) PROVE JobAlone(j)' /\ MovesOn(job[w], j)
    <3>1. job[w].user \in User /\ Told(job[w].user, k) = 1 /\ staged[k] = Nil
          /\ live[k] = job[w].user
      BY <1>3, <2>1 DEF Alone, JobAlone, Reviewed
    <3>2. Told(j.user, k)' = 1
      BY <1>4, <3>1
    <3>3. JobAlone(j)'
      BY <1>1, <1>3, <1>4, <3>1, <3>2 DEF JobAlone, Reviewed
    <3>4. MovesOn(job[w], j)
      BY <1>4 DEF MovesOn, Writing, Marking, Trimming, Reviewed
    <3>5. QED  BY <3>3, <3>4
  <2>2. QED  BY <1>1, <1>2, <1>4, <2>1, GoesOnAlone DEF store
<1>5. ASSUME NEW u \in job[w].rest, Push(u, "NEW_FIRMWARE", k),
             job' = [job EXCEPT ![w].rest = @ \ {u}]
      PROVE  AloneInv'
  <2> DEFINE j == [job[w] EXCEPT !.rest = job[w].rest \ {u}]
  <2>1. /\ j \in Job /\ j.pc = "fan" /\ j.user = job[w].user /\ j.key = k
        /\ j.approve = job[w].approve
    BY DEF Job
  <2>2. job' = [job EXCEPT ![w] = j]
    BY <1>5, Types
  <2> HIDE DEF j
  <2>3. u \in User
    BY JobIs
  <2>4. \A v \in User, l \in Key : Told(v, l)' = Told(v, l)
    BY <1>5, <2>3, PushTold
  <2>5. QED  BY <1>4, <2>1, <2>2, <2>4
<1>6. CASE Goto(w, "mark") /\ UNCHANGED inbox
  <2>1. PICK j \in Job : /\ job' = [job EXCEPT ![w] = j] /\ j.pc = "mark"
                         /\ j.user = job[w].user /\ j.key = k /\ j.approve = job[w].approve
    BY <1>6, GotoIs DEF Pcs
  <2>2. \A v \in User, l \in Key : Told(v, l)' = Told(v, l)
    BY <1>6 DEF Told
  <2>3. QED  BY <1>4, <2>1, <2>2
<1>7. CASE job[w].user = Nil /\ Return(w) /\ UNCHANGED inbox
  <2>1. ~ Alone(job[w])
    BY <1>7 DEF Alone, JobAlone, Reviewed
  <2>2. QED  BY <1>1, <1>2, <1>7, <2>1, IdleIs, GoesOnAlone DEF store, Told, Return
<1>8. QED  BY <1>5, <1>6, <1>7 DEF Fan

LEMMA MarkAlone == ASSUME ReviewInv, AloneInv, NEW w \in Worker, Mark(w) PROVE AloneInv'
<1>1. /\ staged' = staged /\ live' = live /\ ledger' = ledger /\ clock' = clock
      /\ inbox' = inbox /\ recorded' = recorded /\ overlap' = overlap /\ died' = died
  BY DEF Mark, store, history
<1>2. clock' \in Time /\ clock <= clock'
  BY <1>1, Types DEF Time
<1> PICK k \in Key : k = job[w].key /\ job[w] \in Job /\ job[w].pc = "mark"
  BY JobIs DEF Mark, At
<1>3. CASE Goto(w, "stamp")
  <2>1. PICK j \in Job : /\ job' = [job EXCEPT ![w] = j] /\ j.pc = "stamp"
                         /\ j.user = job[w].user /\ j.key = k /\ j.approve = job[w].approve
    BY <1>3, GotoIs DEF Pcs
  <2>2. ASSUME Alone(job[w]) PROVE JobAlone(j)' /\ MovesOn(job[w], j)
    <3>1. JobAlone(j)'
      BY <1>1, <2>1, <2>2 DEF Alone, JobAlone, Reviewed, Told
    <3>2. MovesOn(job[w], j)
      BY <2>1 DEF MovesOn, Writing, Marking, Trimming, Reviewed
    <3>3. QED  BY <3>1, <3>2
  <2>3. QED  BY <1>1, <1>2, <2>1, <2>2, GoesOnAlone DEF store, Told
<1>4. CASE ~ HasRow(job[w].user, k) /\ Return(w)
  <2>1. ASSUME Alone(job[w]) PROVE MovesOn(job[w], Idle)
    <3>1. ASSUME NEW u \in User, live[k] = u
          PROVE  Told(u, k) = 1 /\ \A r \in ledger[u] : r.key # k
      <4>1. job[w].user = u /\ Told(u, k) = 1
        BY <2>1, <3>1 DEF Alone, JobAlone, Reviewed
      <4>2. QED  BY <1>4, <4>1 DEF HasRow
    <3>2. QED  BY <3>1 DEF MovesOn, Writing, Marking, Trimming, Reviewed
  <2>2. JobAlone(Idle)'
    BY IdleIs DEF JobAlone, Reviewed
  <2>3. QED  BY <1>1, <1>2, <1>4, <2>1, <2>2, IdleIs, GoesOnAlone DEF store, Told, Return
<1>5. QED  BY <1>3, <1>4 DEF Mark

LEMMA NotifyAlone == ASSUME ReviewInv, AloneInv, NEW w \in Worker, Notify(w) PROVE AloneInv'
<1> PICK u \in User, k \in Key : u = job[w].user /\ k = job[w].key /\ job[w] \in Job
                                 /\ job[w].pc = "notify"
  BY JobIs DEF Notify, At, JobOK
<1>1. /\ staged' = staged /\ live' = live /\ ledger' = ledger /\ clock' = clock
      /\ recorded' = recorded /\ overlap' = overlap /\ died' = died
  BY DEF Notify, store, history
<1>2. clock' \in Time /\ clock <= clock'
  BY <1>1, Types DEF Time
<1>3. PICK kind \in {"SUBMISSION_APPROVED", "SUBMISSION_REJECTED"}, pc \in {"followers", "mark"} :
         /\ Push(u, kind, k) /\ Goto(w, pc)
         /\ job[w].approve => kind = "SUBMISSION_APPROVED"
         /\ kind = "SUBMISSION_APPROVED" => job[w].approve
  BY DEF Notify
<1>4. pc \in Pcs
  BY DEF Pcs
<1>5. PICK j \in Job : /\ job' = [job EXCEPT ![w] = j] /\ j.pc = pc
                       /\ j.user = u /\ j.key = k /\ j.approve = job[w].approve
  BY <1>3, <1>4, GotoIs
<1>6. \A v \in User, l \in Key : Told(v, l)' = Told(v, l) \/ Marking(j, l)
  <2>1. Marking(j, k)
    BY <1>5 DEF Marking, Reviewed
  <2>2. QED  BY <1>3, <2>1, PushTold
<1>7. ASSUME Alone(job[w]) PROVE JobAlone(j)' /\ MovesOn(job[w], j)
  <2>1. staged[k] = Nil /\ live[k] = IF job[w].approve THEN u ELSE Nil
    BY <1>7 DEF Alone, JobAlone, Reviewed
  <2>2. job[w].approve => Told(u, k)' = 1
    <3>1. ASSUME job[w].approve PROVE Told(u, k) = 0
      <4>1. Heard(u, k) = 0
        BY <3>1, JobIs DEF TellsOK, Telling
      <4>2. QED  BY <4>1, HeardIs DEF Heard, Told
    <3>2. QED  BY <1>3, <3>1, PushTold
  <2>3. JobAlone(j)'
    BY <1>1, <1>5, <2>1, <2>2 DEF JobAlone, Reviewed
  <2>4. MovesOn(job[w], j)
    BY <1>5 DEF MovesOn, Writing, Marking, Trimming, Reviewed
  <2>5. QED  BY <2>3, <2>4
<1>8. QED  BY <1>1, <1>2, <1>5, <1>6, <1>7, GoesOnAlone DEF store

LEMMA OneStarts ==
    ASSUME ReviewInv, AloneInv, ~ overlap, ~ died, Busy = {}
    PROVE  Alone(Idle) /\ \A v \in Worker : job[v] = Idle
<1>1. \A v \in Worker : job[v] = Idle
  BY JobIs DEF Busy, At, JobOK
<1>2. PICK j \in Job : OnlyJob(j) /\ Alone(j)
  BY DEF AloneInv
<1>3. j = Idle
  BY <1>1, <1>2 DEF OnlyJob
<1>4. QED  BY <1>1, <1>2, <1>3

LEMMA CaptureAlone ==
    ASSUME ReviewInv, AloneInv, NEW w \in Worker, NEW k \in Key, NEW approve \in BOOLEAN,
           Capture(w, k, approve)
    PROVE  AloneInv'
<1>1. PICK j \in Job : /\ job' = [job EXCEPT ![w] = j] /\ j.pc = "review" /\ j.key = k
                       /\ j.user = staged[k]
  <2> DEFINE i == [Idle EXCEPT !.pc = "review", !.user = staged[k], !.key = k,
                               !.approve = approve]
  <2>1. i \in Job /\ i.pc = "review" /\ i.key = k /\ i.user = staged[k]
    BY IdleIs, Types DEF Job
  <2>2. job' = [job EXCEPT ![w] = i]
    BY DEF Capture
  <2> HIDE DEF i
  <2>3. QED  BY <2>1, <2>2
<1>2. SUFFICES ASSUME ~ overlap', ~ died' PROVE Alone(j)' /\ \A v \in Worker \ {w} : job[v] = Idle
  BY <1>1, StepAlone
<1>3. /\ staged' = staged /\ live' = live /\ ledger' = ledger /\ clock' = clock
      /\ inbox' = inbox /\ recorded' = recorded
  BY DEF Capture, store
<1>4. ~ overlap /\ ~ died /\ Busy = {}
  BY <1>2 DEF Capture
<1>5. Alone(Idle) /\ \A v \in Worker : job[v] = Idle
  BY <1>4, OneStarts
<1>6. JobAlone(j)'
  BY <1>1, <1>3 DEF JobAlone, Reviewed
<1>7. MovesOn(Idle, j)
  BY IdleIs DEF MovesOn, Writing, Marking, Trimming, Reviewed
<1>8. clock' \in Time /\ clock <= clock'
  BY <1>3, Types DEF Time
<1>9. \A v \in User, l \in Key : Told(v, l)' = Told(v, l)
  BY <1>3 DEF Told
<1>10. Alone(j)'
  BY <1>3, <1>5, <1>6, <1>7, <1>8, <1>9, IdleIs, JobSteps
<1>11. QED  BY <1>5, <1>10

LEMMA StageAlone ==
    ASSUME ReviewInv, AloneInv, NEW w \in Worker, NEW u \in User, NEW k \in Key, Stage(w, u, k)
    PROVE  AloneInv'
<1>1. PICK j \in Job : job' = [job EXCEPT ![w] = j] /\ j.pc = "present" /\ j.key = k /\ j.user = u
  <2> DEFINE i == [Idle EXCEPT !.pc = "present", !.user = u, !.key = k]
  <2>1. i \in Job /\ i.pc = "present" /\ i.key = k /\ i.user = u
    BY IdleIs DEF Job
  <2>2. job' = [job EXCEPT ![w] = i]
    BY DEF Stage
  <2> HIDE DEF i
  <2>3. QED  BY <2>1, <2>2
<1>2. SUFFICES ASSUME ~ overlap', ~ died' PROVE Alone(j)' /\ \A v \in Worker \ {w} : job[v] = Idle
  BY <1>1, StepAlone
<1>3. /\ live' = live /\ ledger' = ledger /\ clock' = clock
      /\ inbox' = inbox /\ recorded' = recorded /\ live[k] = Nil
      /\ staged'[k] = u /\ \A l \in Key : l # k => staged'[l] = staged[l]
  BY Types DEF Stage
<1>4. ~ overlap /\ ~ died /\ Busy = {}
  BY <1>2 DEF Stage
<1>5. Alone(Idle) /\ \A v \in Worker : job[v] = Idle
  BY <1>4, OneStarts
<1>6. JobAlone(j)'
  BY <1>1, <1>3 DEF JobAlone, Reviewed
<1>7. ASSUME NEW v \in User PROVE UserAlone(j, v)'
  BY <1>1, <1>3, <1>5, IdleIs DEF Alone, UserAlone, Trimming
<1>8. ASSUME NEW v \in User, NEW l \in Key PROVE KeyAlone(j, v, l)'
  <2>1. KeyAlone(Idle, v, l) /\ ~ Writing(Idle, l) /\ ~ Marking(Idle, l)
    BY <1>5, IdleIs DEF Alone, Writing, Marking, Reviewed
  <2>2. CASE l = k
    <3>1. Writing(j, l)
      BY <1>1, <2>2 DEF Writing
    <3>2. QED  BY <1>3, <2>1, <2>2, <3>1 DEF KeyAlone, HasRow, Told, Writing
  <2>3. CASE l # k
    BY <1>3, <2>1, <2>3 DEF KeyAlone, HasRow, Told
  <2>4. QED  BY <2>2, <2>3
<1>9. QED  BY <1>5, <1>6, <1>7, <1>8 DEF Alone

\* Of rows of different coordinates, that of one goes.
LEMMA WithoutIs ==
    ASSUME ReviewInv, NEW u \in User, NEW k \in Key
    PROVE  LET S == ledger[u]
               T == Without(S, k)
           IN  /\ T \subseteq S /\ IsFiniteSet(T) /\ Cardinality(T) \in Nat
               /\ HasRow(u, k) => Cardinality(T) = Cardinality(S) - 1
               /\ ~ HasRow(u, k) => T = S
<1> DEFINE S == ledger[u]
           T == Without(S, k)
<1>1. T \subseteq S /\ IsFiniteSet(S) /\ Cardinality(S) \in Nat
  BY Sizes DEF Without
<1>2. IsFiniteSet(T) /\ Cardinality(T) \in Nat
  <2> HIDE DEF S, T
  <2>1. QED  BY <1>1, FS_Subset, FS_CardinalityType
<1>3. ASSUME HasRow(u, k) PROVE Cardinality(T) = Cardinality(S) - 1
  <2>1. PICK r \in S : r.key = k
    BY <1>3 DEF HasRow
  <2>2. T = S \ {r}
    BY <2>1 DEF Without, ReviewInv, RowsOK
  <2> HIDE DEF S, T
  <2>3. QED  BY <1>1, <2>1, <2>2, FS_RemoveElement
<1>4. ~ HasRow(u, k) => T = S
  BY DEF HasRow, Without
<1>5. QED  BY <1>1, <1>2, <1>3, <1>4

\* Alone, record finds the row as it saw it, and writes the latest of all.
LEMMA WriteAlone == ASSUME ReviewInv, AloneInv, NEW w \in Worker, Write(w) PROVE AloneInv'
<1> PICK u \in User, k \in Key : u = job[w].user /\ k = job[w].key /\ job[w] \in Job
                                 /\ job[w].pc = "write"
  BY JobIs DEF Write, At, Recording
<1>0. /\ staged' = staged /\ live' = live /\ inbox' = inbox /\ clock' = clock
      /\ count' = count /\ overlap' = overlap /\ died' = died
  BY DEF Write, store
<1>1. CASE ~ overlap' /\ ~ died'
  <2>1. ~ overlap /\ ~ died
    BY <1>0, <1>1
  <2>2. PICK i \in Job : i = job[w] /\ Alone(i) /\ \A v \in Worker \ {w} : job[v] = Idle
    BY <2>1, OneAt
  <2>3. /\ staged[k] = u /\ live[k] = Nil /\ job[w].now = clock
        /\ \A l \in Key : recorded[u][l] < clock
        /\ job[w].present = HasRow(u, k)
    BY <2>2 DEF Alone, JobAlone
  <2> DEFINE row == [key |-> k, status |-> "PENDING", at |-> clock]
  <2>4. Put(w, Without(ledger[u], k))
    BY <2>3 DEF Write
  <2>5. /\ ledger' = [ledger EXCEPT ![u] = Without(ledger[u], k) \cup {row}]
        /\ recorded' = [recorded EXCEPT ![u] = [recorded[u] EXCEPT ![k] = clock]]
        /\ Goto(w, "count")
    BY <2>3, <2>4, Types DEF Put
  <2>6. row.key = k /\ row.status = "PENDING" /\ row.at = clock
    OBVIOUS
  <2> HIDE DEF row
  <2>7. PICK j \in Job : /\ job' = [job EXCEPT ![w] = j] /\ j.pc = "count"
                         /\ j.user = u /\ j.key = k
    BY <2>5, GotoIs DEF Pcs
  <2>8. /\ ledger'[u] = Without(ledger[u], k) \cup {row}
        /\ \A v \in User : v # u => ledger'[v] = ledger[v] /\ recorded'[v] = recorded[v]
        /\ recorded'[u][k] = clock
        /\ \A l \in Key : l # k => recorded'[u][l] = recorded[u][l]
    <3>1. recorded[u] \in [Key -> Time]
      BY Types
    <3>2. QED  BY <2>5, <3>1, Types
  <2>9. \A r \in ledger'[u] : r = row \/ (r \in ledger[u] /\ r.key # k)
    BY <2>8 DEF Without
  <2>10. \A v \in User : \A r \in ledger[v] : r.key \in Key /\ r.at \in Nat
    BY Types DEF Row, Time
  <2>11. ASSUME NEW r \in ledger[u] PROVE r.at < clock
    <3>1. r.at = recorded[u][r.key]
      BY <2>2 DEF Alone, UserAlone
    <3>2. QED  BY <2>3, <2>10, <3>1
  <2>12. /\ Cardinality(ledger'[u]) <= Cardinality(ledger[u]) + 1
         /\ Cardinality(ledger[u]) <= Cardinality(ledger'[u])
         /\ Cardinality(ledger'[u]) \in Nat /\ Cardinality(ledger[u]) \in Nat
    <3> DEFINE T == Without(ledger[u], k)
    <3>1. /\ T \subseteq ledger[u] /\ IsFiniteSet(T) /\ Cardinality(T) \in Nat
          /\ HasRow(u, k) => Cardinality(T) = Cardinality(ledger[u]) - 1
          /\ ~ HasRow(u, k) => T = ledger[u]
      BY WithoutIs
    <3>2. row \notin T
      BY <2>6 DEF Without
    <3>3. ledger'[u] = T \cup {row}
      BY <2>8
    <3> HIDE DEF T
    <3>4. Cardinality(ledger'[u]) = Cardinality(T) + 1
      <4>1. Cardinality(T \cup {row}) = Cardinality(T) + 1
        BY <3>1, <3>2, FS_AddElement
      <4>2. QED  BY <3>3, <4>1
    <3>5. Cardinality(ledger[u]) \in Nat
      BY Sizes
    <3>6. QED  BY <3>1, <3>4, <3>5
  <2>13. JobAlone(j)'
    BY <2>7 DEF JobAlone, Reviewed
  <2>14. ASSUME NEW v \in User PROVE UserAlone(j, v)'
    <3>1. UserAlone(i, v) /\ ~ Trimming(i, v)
      BY <2>2 DEF Alone, Trimming
    <3>2. CASE v # u
      BY <2>7, <2>8, <3>1, <3>2 DEF UserAlone, Trimming
    <3>3. CASE v = u
      <4>1. \A r \in ledger'[u] : r.at = recorded'[u][r.key]
        BY <2>6, <2>8, <2>9, <2>10, <3>1, <3>3 DEF UserAlone
      <4>2. \A q, r \in ledger'[u] : q.at = r.at => q = r
        <5>1. \A q \in ledger[u] : q.at # row.at
          BY <2>6, <2>10, <2>11, Types DEF Time
        <5>2. QED  BY <2>9, <3>1, <3>3, <5>1 DEF UserAlone
      <4>3. Cardinality(ledger'[u]) <= MaxRows + 1
        <5>1. Cardinality(ledger[u]) <= MaxRows
          BY <3>1, <3>3 DEF UserAlone
        <5>2. QED  BY <2>12, <5>1
      <4>4. Trimming(j, u)
        BY <2>7 DEF Trimming
      <4>5. QED  BY <3>3, <4>1, <4>2, <4>3, <4>4 DEF UserAlone, Trimming
    <3>4. QED  BY <3>2, <3>3
  <2>15. ASSUME NEW v \in User, NEW l \in Key PROVE KeyAlone(j, v, l)'
    <3>1. KeyAlone(i, v, l) /\ ~ Marking(i, l) /\ (Writing(i, l) <=> l = k)
      BY <2>2 DEF Alone, Marking, Reviewed, Writing
    <3>2. CASE v # u
      BY <1>0, <2>3, <2>8, <3>1, <3>2 DEF KeyAlone, HasRow, Told
    <3>3. CASE v = u /\ l # k
      <4>1. HasRow(u, l)' <=> HasRow(u, l)
        BY <2>6, <2>8, <3>3 DEF HasRow, Without
      <4>2. recorded'[u][l] <= clock'
        BY <1>0, <2>8, <3>1, <3>3 DEF KeyAlone
      <4>3. ~ HasRow(u, l)' => \A r \in ledger'[u] : recorded'[u][l] < r.at
        BY <2>3, <2>6, <2>8, <2>9, <3>1, <3>3, <4>1 DEF KeyAlone
      <4>4. \A r \in ledger'[u] : r.key = l => r \in ledger[u]
        BY <2>6, <2>9, <3>3
      <4>5. u \in {staged[l], live[l]} => HasRow(u, l) \/ Cardinality(ledger'[u]) >= MaxRows
        <5>1. CASE Cardinality(ledger[u]) >= MaxRows
          BY <2>12, <5>1
        <5>2. CASE ~ (Cardinality(ledger[u]) >= MaxRows)
          BY <3>1, <3>3, <5>2 DEF KeyAlone
        <5>3. QED  BY <5>1, <5>2
      <4>6. QED  BY <1>0, <3>1, <3>3, <4>1, <4>2, <4>3, <4>4, <4>5 DEF KeyAlone, Told
    <3>4. CASE v = u /\ l = k
      <4>1. HasRow(u, k)'
        BY <2>6, <2>8 DEF HasRow
      <4>2. clock \in Nat
        BY Types DEF Time
      <4>3. \A r \in ledger'[u] : r.key = k => r.status = "PENDING"
        BY <2>6, <2>9
      <4>4. recorded'[u][k] <= clock'
        BY <1>0, <2>8, <4>2
      <4>5. live'[k] = Nil
        BY <1>0, <2>3
      <4>6. QED  BY <3>4, <4>1, <4>3, <4>4, <4>5 DEF KeyAlone
    <3>5. QED  BY <3>2, <3>3, <3>4
  <2>16. Alone(j)'
    BY <2>13, <2>14, <2>15 DEF Alone
  <2>17. QED  BY <2>2, <2>7, <2>16, StepAlone
<1>2. QED  BY <1>1 DEF AloneInv

\* The row deleted is the oldest of one too many: what is missing is older than
\* what is there, and the ledger is full.
LEMMA DeleteAlone == ASSUME ReviewInv, AloneInv, NEW w \in Worker, Delete(w) PROVE AloneInv'
<1> PICK u \in User : u = job[w].user /\ job[w] \in Job /\ job[w].pc = "delete"
  BY JobIs DEF Delete, At, Recording
<1>0. /\ staged' = staged /\ live' = live /\ inbox' = inbox /\ clock' = clock
      /\ recorded' = recorded /\ overlap' = overlap /\ died' = died
  BY DEF Delete, store, history
<1>1. CASE ~ overlap' /\ ~ died'
  <2>1. ~ overlap /\ ~ died
    BY <1>0, <1>1
  <2>2. PICK i \in Job : i = job[w] /\ Alone(i) /\ \A v \in Worker \ {w} : job[v] = Idle
    BY <2>1, OneAt
  <2>3. PICK r \in ledger[u] : /\ job[w].rows = {r}
                               /\ \A q \in ledger[u] : q = r \/ r.at < q.at
    BY <2>2 DEF Alone, JobAlone
  <2>4. Cardinality(ledger[u]) = MaxRows + 1
    BY <2>2 DEF Alone, JobAlone
  <2>5. r \in Row /\ r.key \in Key
    BY Types DEF Row
  <2>6. ledger' = [ledger EXCEPT ![u] = Without(ledger[u], r.key)] /\ Return(w)
    BY <2>3 DEF Delete
  <2>7. /\ ledger'[u] = Without(ledger[u], r.key)
        /\ \A v \in User : v # u => ledger'[v] = ledger[v]
    BY <2>6, Types
  <2>8. Cardinality(ledger'[u]) = MaxRows
    <3>1. HasRow(u, r.key)
      BY DEF HasRow
    <3>2. Cardinality(Without(ledger[u], r.key)) = MaxRows + 1 - 1
      BY <2>4, <2>5, <3>1, WithoutIs
    <3>3. QED  BY <2>7, <3>2
  <2>9. \A q \in ledger'[u] : q \in ledger[u] /\ q.key # r.key /\ r.at < q.at
    BY <2>3, <2>7 DEF Without
  <2>10. JobAlone(Idle)'
    BY IdleIs DEF JobAlone, Reviewed
  <2>11. ASSUME NEW v \in User PROVE UserAlone(Idle, v)'
    <3>1. UserAlone(i, v) /\ (Trimming(i, v) <=> v = u)
      BY <2>2 DEF Alone, Trimming
    <3>2. CASE v # u
      BY <1>0, <2>7, <3>1, <3>2, IdleIs DEF UserAlone, Trimming
    <3>3. CASE v = u
      BY <1>0, <2>8, <2>9, <3>1, <3>3 DEF UserAlone, Trimming
    <3>4. QED  BY <3>2, <3>3
  <2>12. ASSUME NEW v \in User, NEW l \in Key PROVE KeyAlone(Idle, v, l)'
    <3>1. KeyAlone(i, v, l) /\ ~ Marking(i, l) /\ ~ Writing(i, l)
      BY <2>2 DEF Alone, Marking, Reviewed, Writing
    <3>2. CASE v # u
      BY <1>0, <2>7, <3>1, <3>2 DEF KeyAlone, HasRow, Told
    <3>3. CASE v = u
      <4>1. HasRow(u, l) => HasRow(u, l)' \/ l = r.key
        BY <2>7 DEF HasRow, Without
      <4>2. ~ HasRow(u, l)' => \A q \in ledger'[u] : recorded'[u][l] < q.at
        <5>1. CASE l = r.key
          <6>1. recorded[u][l] = r.at
            BY <2>2, <5>1 DEF Alone, UserAlone
          <6>2. QED  BY <1>0, <2>9, <6>1
        <5>2. CASE l # r.key
          BY <1>0, <2>9, <3>1, <3>3, <4>1, <5>2 DEF KeyAlone
        <5>3. QED  BY <5>1, <5>2
      <4>3. Cardinality(ledger'[u]) >= MaxRows
        BY <2>8
      <4>4. QED  BY <1>0, <2>9, <3>1, <3>3, <4>2, <4>3 DEF KeyAlone, Told
    <3>4. QED  BY <3>2, <3>3
  <2>13. Alone(Idle)'
    BY <2>10, <2>11, <2>12 DEF Alone
  <2>14. job' = [job EXCEPT ![w] = Idle]
    BY <2>6 DEF Return
  <2>15. QED  BY <2>2, <2>13, <2>14, IdleIs, StepAlone
<1>2. QED  BY <1>1 DEF AloneInv

\* Alone, the submitter read is the submitter reviewed.
LEMMA DecideAlone == ASSUME ReviewInv, AloneInv, NEW w \in Worker, Decide(w) PROVE AloneInv'
<1> PICK k \in Key : k = job[w].key /\ job[w] \in Job /\ job[w].pc = "review"
  BY JobIs DEF Decide, At
<1>0. /\ ledger' = ledger /\ inbox' = inbox /\ clock' = clock
      /\ recorded' = recorded /\ overlap' = overlap /\ died' = died
      /\ staged' = [staged EXCEPT ![k] = Nil]
  BY DEF Decide, history
<1>1. KeyOK(k)
  BY DEF ReviewInv
<1>2. CASE staged[k] = Nil
  <2>1. Return(w) /\ live' = live /\ staged' = staged
    BY <1>0, <1>2, Types DEF Decide
  <2>2. clock' \in Time /\ clock <= clock'
    BY <1>0, Types DEF Time
  <2>3. MovesOn(job[w], Idle)
    BY DEF MovesOn, Writing, Marking, Trimming, Reviewed
  <2>4. JobAlone(Idle)'
    BY IdleIs DEF JobAlone, Reviewed
  <2>5. QED  BY <1>0, <2>1, <2>2, <2>3, <2>4, IdleIs, GoesOnAlone DEF store, Told, Return
<1>3. CASE staged[k] # Nil /\ ~ overlap' /\ ~ died'
  <2>1. ~ overlap /\ ~ died
    BY <1>0, <1>3
  <2>2. PICK i \in Job : i = job[w] /\ Alone(i) /\ \A v \in Worker \ {w} : job[v] = Idle
    BY <2>1, OneAt
  <2>3. PICK u \in User : u = staged[k] /\ job[w].user = u /\ live[k] = Nil
    BY <1>1, <1>3, <2>2, Types DEF Alone, JobAlone, KeyOK
  <2>4. /\ live' = IF job[w].approve THEN [live EXCEPT ![k] = staged[k]] ELSE live
        /\ AfterReview(w)
    BY <1>3, <2>3 DEF Decide
  <2>5. /\ staged'[k] = Nil /\ live'[k] = IF job[w].approve THEN u ELSE Nil
        /\ \A l \in Key : l # k => staged'[l] = staged[l]
    BY <1>0, <2>3, <2>4, Types
  <2>6. \A l \in Key : l # k => live'[l] = live[l]
    <3>1. CASE job[w].approve
      BY <2>4, <3>1, Types
    <3>2. CASE ~ job[w].approve
      BY <2>4, <3>2
    <3>3. QED  BY <3>1, <3>2
  <2>7. Goto(w, "notify")
    BY <2>3, <2>4 DEF AfterReview
  <2>8. PICK j \in Job : /\ job' = [job EXCEPT ![w] = j] /\ j.pc = "notify"
                         /\ j.user = u /\ j.key = k /\ j.approve = job[w].approve
    BY <2>3, <2>7, GotoIs DEF Pcs
  <2>9. JobAlone(j)'
    BY <2>5, <2>8 DEF JobAlone, Reviewed
  <2>10. ASSUME NEW v \in User PROVE UserAlone(j, v)'
    BY <1>0, <2>2, <2>8 DEF Alone, UserAlone, Trimming
  <2>11. ASSUME NEW v \in User, NEW l \in Key PROVE KeyAlone(j, v, l)'
    <3>1. KeyAlone(i, v, l) /\ ~ Marking(i, l) /\ ~ Writing(i, l)
      BY <2>2 DEF Alone, Marking, Reviewed, Writing
    <3>2. CASE l # k
      BY <1>0, <2>5, <2>6, <3>1, <3>2 DEF KeyAlone, HasRow, Told
    <3>3. CASE l = k
      <4>1. Marking(j, k)
        BY <2>8 DEF Marking, Reviewed
      <4>2. \A r \in ledger[v] : r.key = k => r.status # "APPROVED"
        BY <2>3, <3>1, <3>3 DEF KeyAlone
      <4>3. v \in {staged'[k], live'[k]} => v = staged[k]
        BY <2>3, <2>5
      <4>4. QED
        BY <1>0, <2>5, <3>1, <3>3, <4>1, <4>2, <4>3 DEF KeyAlone, HasRow, Told, Marking
    <3>4. QED  BY <3>2, <3>3
  <2>12. Alone(j)'
    BY <2>9, <2>10, <2>11 DEF Alone
  <2>13. QED  BY <2>2, <2>8, <2>12, StepAlone
<1>4. QED  BY <1>2, <1>3 DEF AloneInv

\* Alone, the verdict stamped is that of what is live, or was turned down.
LEMMA StampAlone == ASSUME ReviewInv, AloneInv, NEW w \in Worker, Stamp(w) PROVE AloneInv'
<1> PICK u \in User, k \in Key : u = job[w].user /\ k = job[w].key /\ job[w] \in Job
                                 /\ job[w].pc = "stamp"
  BY StampIs, Types
<1>0. /\ staged' = staged /\ live' = live /\ inbox' = inbox /\ clock' = clock
      /\ recorded' = recorded /\ overlap' = overlap /\ died' = died
      /\ job' = [job EXCEPT ![w] = Idle]
      /\ ledger'[u] = {Stamped(w, r) : r \in ledger[u]}
      /\ \A v \in User : v # u => ledger'[v] = ledger[v]
  BY StampIs DEF store, history
<1>1. CASE ~ overlap' /\ ~ died'
  <2>1. ~ overlap /\ ~ died
    BY <1>0, <1>1
  <2>2. PICK i \in Job : i = job[w] /\ Alone(i) /\ \A v \in Worker \ {w} : job[v] = Idle
    BY <2>1, OneAt
  <2>3. /\ staged[k] = Nil /\ live[k] = IF job[w].approve THEN u ELSE Nil
        /\ job[w].approve => Told(u, k) = 1
    BY <2>2 DEF Alone, JobAlone, Reviewed
  <2>4. ASSUME NEW r \in ledger[u]
        PROVE  LET s == Stamped(w, r)
               IN  /\ s \in ledger'[u] /\ s.key = r.key /\ s.at = r.at
                   /\ r.key = k => s.status = Verdict(w)
                   /\ r.key # k => s = r
    <3>1. r \in Row
      BY Types
    <3>2. QED  BY <1>0, <3>1, StampedIs
  <2>5. \A s \in ledger'[u] : \E r \in ledger[u] : s = Stamped(w, r)
    BY <1>0
  <2>6. Cardinality(ledger'[u]) = Cardinality(ledger[u])
    <3>1. IsFiniteSet(ledger[u]) /\ ledger[u] \subseteq Row
          /\ \A q, r \in ledger[u] : q.key = r.key => q = r
      BY Types DEF ReviewInv, RowsOK
    <3>2. LET T == {Stamped(w, r) : r \in ledger[u]}
          IN  IsFiniteSet(T) /\ Cardinality(T) = Cardinality(ledger[u])
      BY <3>1, StampedRows
    <3>3. QED  BY <1>0, <3>2
  <2>7. JobAlone(Idle)'
    BY IdleIs DEF JobAlone, Reviewed
  <2>8. ASSUME NEW v \in User PROVE UserAlone(Idle, v)'
    <3>1. UserAlone(i, v) /\ ~ Trimming(i, v) /\ ~ Trimming(Idle, v)
      BY <2>2, IdleIs DEF Alone, Trimming
    <3>2. CASE v # u
      BY <1>0, <3>1, <3>2 DEF UserAlone, Trimming
    <3>3. CASE v = u
      <4>1. \A s \in ledger'[u] : s.at = recorded'[u][s.key]
        BY <1>0, <2>4, <2>5, <3>1, <3>3 DEF UserAlone
      <4>2. \A q, s \in ledger'[u] : q.at = s.at => q = s
        BY <2>4, <2>5, <3>1, <3>3 DEF UserAlone
      <4>3. QED  BY <2>6, <3>1, <3>3, <4>1, <4>2 DEF UserAlone, Trimming
    <3>4. QED  BY <3>2, <3>3
  <2>9. ASSUME NEW v \in User, NEW l \in Key PROVE KeyAlone(Idle, v, l)'
    <3>1. KeyAlone(i, v, l) /\ ~ Writing(i, l) /\ (Marking(i, l) <=> l = k)
      BY <2>2 DEF Alone, Marking, Reviewed, Writing
    <3>2. CASE v # u
      <4>1. l = k => live[l] # v
        BY <2>3, <3>2
      <4>2. QED  BY <1>0, <3>1, <3>2, <4>1 DEF KeyAlone, HasRow, Told
    <3>3. CASE v = u
      <4>1. HasRow(u, l)' <=> HasRow(u, l)
        BY <2>4, <2>5 DEF HasRow
      <4>2. ~ HasRow(u, l)' => \A s \in ledger'[u] : recorded'[u][l] < s.at
        BY <1>0, <2>4, <2>5, <3>1, <3>3, <4>1 DEF KeyAlone
      <4>3. CASE l = k
        <5>1. \A s \in ledger'[u] : s.key = k => s.status = Verdict(w)
          BY <2>4, <2>5
        <5>2. job[w].approve => Verdict(w) = "APPROVED"
          BY DEF Verdict
        <5>3. ~ job[w].approve => Verdict(w) = "REJECTED"
          BY DEF Verdict
        <5>4. QED
          BY <1>0, <2>3, <2>6, <3>1, <3>3, <4>1, <4>2, <4>3, <5>1, <5>2, <5>3 DEF KeyAlone, Told
      <4>4. CASE l # k
        <5>1. \A s \in ledger'[u] : s.key = l => s \in ledger[u]
          BY <2>4, <2>5, <4>4
        <5>2. QED
          BY <1>0, <2>6, <3>1, <3>3, <4>1, <4>2, <4>4, <5>1 DEF KeyAlone, Told
      <4>5. QED  BY <4>3, <4>4
    <3>4. QED  BY <3>2, <3>3
  <2>10. Alone(Idle)'
    BY <2>7, <2>8, <2>9 DEF Alone
  <2>11. QED  BY <1>0, <2>2, <2>10, IdleIs, StepAlone
<1>2. QED  BY <1>1 DEF AloneInv

\* Nothing of it is about the followers.
LEMMA StillAlone ==
    ASSUME ReviewInv, AloneInv, UNCHANGED <<store, ledger, inbox, job, clock, history>>
    PROVE  AloneInv'
<1>1. /\ staged' = staged /\ live' = live /\ ledger' = ledger /\ clock' = clock /\ job' = job
      /\ inbox' = inbox /\ recorded' = recorded /\ overlap' = overlap /\ died' = died
  BY DEF store, history
<1> SUFFICES ASSUME ~ overlap, ~ died PROVE \E j \in Job : OnlyJob(j)' /\ Alone(j)'
  BY <1>1 DEF AloneInv
<1>2. PICK j \in Job : OnlyJob(j) /\ Alone(j)
  BY DEF AloneInv
<1>3. OnlyJob(j)'
  BY <1>1, <1>2 DEF OnlyJob
<1>4. MovesOn(j, j)
  BY DEF MovesOn
<1>5. JobAlone(j)'
  BY <1>1, <1>2 DEF Alone, JobAlone, HasRow, Told
<1>6. clock' \in Time /\ clock <= clock'
  BY <1>1, Types DEF Time
<1>7. Alone(j)'
  BY <1>1, <1>2, <1>4, <1>5, <1>6, JobSteps DEF Told
<1>8. QED  BY <1>3, <1>7

LEMMA AloneInit == Init => AloneInv
<1> SUFFICES ASSUME Init PROVE OnlyJob(Idle) /\ Alone(Idle)
  BY IdleIs DEF AloneInv
<1>1. OnlyJob(Idle)
  BY DEF Init, OnlyJob
<1>2. JobAlone(Idle)
  BY IdleIs DEF JobAlone, Reviewed
<1>3. ASSUME NEW u \in User PROVE UserAlone(Idle, u)
  <2>1. ledger[u] = {} /\ Cardinality(ledger[u]) = 0
    BY FS_EmptySet DEF Init
  <2>2. QED  BY <2>1, IdleIs DEF UserAlone, Trimming
<1>4. ASSUME NEW u \in User, NEW k \in Key PROVE KeyAlone(Idle, u, k)
  BY DEF Init, KeyAlone
<1>5. QED  BY <1>1, <1>2, <1>3, <1>4 DEF Alone

LEMMA AloneNext == ReviewInv /\ AloneInv /\ [Next]_vars => AloneInv'
<1> SUFFICES ASSUME ReviewInv, AloneInv, [Next]_vars PROVE AloneInv'
  OBVIOUS
<1>1. CASE UNCHANGED vars
  BY <1>1, StillAlone DEF vars, store, history
<1>2. ASSUME NEW w \in Worker,
             \/ \E u \in User, k \in Key : Stage(w, u, k)
             \/ Present(w) \/ Write(w) \/ Count(w) \/ Oldest(w) \/ Delete(w)
      PROVE  AloneInv'
  BY <1>2, StageAlone, PresentAlone, WriteAlone, CountAlone, OldestAlone, DeleteAlone
<1>3. ASSUME NEW w \in Worker,
             \/ \E k \in Key, approve \in BOOLEAN : Capture(w, k, approve)
             \/ Decide(w) \/ Notify(w) \/ Followers(w) \/ Fan(w) \/ Mark(w) \/ Stamp(w)
      PROVE  AloneInv'
  BY <1>3, CaptureAlone, DecideAlone, NotifyAlone, FollowersAlone, FanAlone, MarkAlone, StampAlone
<1>4. ASSUME Crash \/ \E w \in Worker : Hiccup(w) PROVE AloneInv'
  BY <1>4 DEF Crash, Hiccup, AloneInv
<1>5. ASSUME \E u \in User, d \in Device : Follow(u, d) PROVE AloneInv'
  BY <1>5, StillAlone DEF Follow
<1>6. QED  BY <1>1, <1>2, <1>3, <1>4, <1>5 DEF Next

\* At rest, after requests that came one at a time: no exception is left.
LEMMA AtRest ==
    ASSUME ReviewInv, AloneInv, ~ overlap, ~ died, Rest, NEW u \in User, NEW k \in Key
    PROVE  KeyAlone(Idle, u, k) /\ UserAlone(Idle, u)
           /\ ~ Writing(Idle, k) /\ ~ Marking(Idle, k) /\ ~ Trimming(Idle, u)
<1>1. Alone(Idle)
  BY OneStarts DEF Rest
<1>2. QED  BY <1>1, IdleIs DEF Alone, Writing, Marking, Trimming, Reviewed

\* Between requests that came one at a time, the ledger says of what waits and
\* of what is live what the store says, and is the latest submissions.
THEOREM LedgerTellsHolds == Spec => []LedgerTells
<1>1. ReviewInv /\ AloneInv => LedgerTells
  <2> SUFFICES ASSUME ReviewInv, AloneInv, ~ overlap, ~ died, Rest, NEW u \in User, NEW k \in Key
               PROVE  /\ staged[k] = u => StatusOf(u, k) \subseteq {"PENDING"}
                      /\ live[k] = u => StatusOf(u, k) \subseteq {"APPROVED"}
                      /\ u \in {staged[k], live[k]} /\ ~ HasRow(u, k) =>
                            Cardinality(ledger[u]) = MaxRows
                      /\ \A r \in ledger[u] :
                            /\ r.key = k => r.at = recorded[u][k]
                            /\ ~ HasRow(u, k) => recorded[u][k] < r.at
    BY DEF LedgerTells
  <2>1. KeyAlone(Idle, u, k) /\ UserAlone(Idle, u)
        /\ ~ Writing(Idle, k) /\ ~ Marking(Idle, k) /\ ~ Trimming(Idle, u)
    BY AtRest
  <2>2. Cardinality(ledger[u]) \in Nat
    BY Sizes
  <2>3. u \in {staged[k], live[k]} /\ ~ HasRow(u, k) => Cardinality(ledger[u]) = MaxRows
    BY <2>1, <2>2 DEF KeyAlone, UserAlone
  <2>4. QED  BY <2>1, <2>3 DEF KeyAlone, UserAlone, StatusOf
<1>2. QED  BY <1>1, ReviewInit, ReviewNext, AloneInit, AloneNext, PTL DEF Spec

\* Between requests that came one at a time, the submitter of what is live has
\* been told once, and only of a live submission does the ledger say APPROVED.
THEOREM SubmitterToldHolds == Spec => []SubmitterTold
<1>1. ReviewInv /\ AloneInv => SubmitterTold
  <2> SUFFICES ASSUME ReviewInv, AloneInv, ~ overlap, ~ died, Rest, NEW u \in User, NEW k \in Key,
                      live[k] = u \/ "APPROVED" \in StatusOf(u, k)
               PROVE  live[k] = u /\ inbox[u][<<"SUBMISSION_APPROVED", k>>] = 1
    BY DEF SubmitterTold
  <2>1. KeyAlone(Idle, u, k) /\ ~ Marking(Idle, k)
    BY AtRest
  <2>2. live[k] = u
    BY <2>1 DEF KeyAlone, StatusOf
  <2>3. QED  BY <2>1, <2>2 DEF KeyAlone, Told
<1>2. QED  BY <1>1, ReviewInit, ReviewNext, AloneInit, AloneNext, PTL DEF Spec
=============================================================================
