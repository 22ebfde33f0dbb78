--------------------------- MODULE AccountsProofs ---------------------------
(***************************************************************************)
(* Theorems about Accounts, for any number of requests, accounts, passkeys *)
(* and emails.                                                             *)
(***************************************************************************)
EXTENDS Accounts, TLAPS, FiniteSetTheorems

USE AccountsAssumption

-----------------------------------------------------------------------------
(* The invariant *)

\* A request that brings a passkey no account has yet.
Brings(j) ==
    \/ j.pc \in {"name", "email", "create", "read"}
    \/ j.pc = "upsert" /\ j.kind = "add"

\* A request that is to write back an account it has read.
Writes(j) == j.pc \in {"upsert", "taken", "update"}

\* What u's account can have been: it has passkeys, all of u's own making.
AccountOf(u, r) ==
    /\ r \in StoredUser /\ r.credentials # {}
    /\ \A k \in r.credentials : holder[k] = u

JobOK(j) ==
    /\ j.pc = "idle" => j = Idle
    /\ j.pc \in {"check", "lookup", "insert"} =>
           /\ j.kind \in {"signin", "register", "add"}
           /\ j.kind = "signin" => j.user = Nil
           /\ j.kind # "signin" => j.user \in User
           /\ IF j.pc = "insert" /\ j.kind = "register" THEN j.uuid \in Uuid ELSE j.uuid = Nil
    /\ j.pc \in {"name", "email", "create"} => j.uuid \in Uuid
    /\ j.pc = "read" => j.kind = "add"
    /\ Brings(j) => /\ j.user \in User /\ j.cred \in Cred
                    /\ holder[j.cred] = j.user /\ j.cred \notin removed
                    /\ \A u \in Accounts : j.cred \notin rows[u].record.credentials
    /\ Writes(j) => /\ j.user \in Accounts /\ AccountOf(j.user, j.got)
                    /\ j.got.uuid = rows[j.user].record.uuid
    /\ j.pc = "upsert" =>
           /\ j.kind \in {"add", "remove"}
           /\ j.kind = "add" => j.cred \in j.got.credentials
           /\ j.kind = "remove" => /\ j.cred \in Cred /\ holder[j.cred] = j.user
                                   /\ j.cred \notin j.got.credentials
    /\ j.pc \in {"taken", "update"} => j.kind = "email"
    /\ ~ Brings(j) /\ j.pc # "upsert" => j.cred = Nil

\* A passkey that i brings is in no other request.
Apart(i, j) ==
    Brings(i) => j.cred # i.cred /\ (Writes(j) => i.cred \notin j.got.credentials)

RowOK(u) ==
    /\ rows[u].email = ColumnOf(rows[u].record.email)
    /\ AccountOf(u, rows[u].record)
    /\ u \notin undone => rows[u].record.credentials \cap removed = {}

\* Two accounts never have one email.
Unlike(u, v) == rows[u].record.email # Nil => rows[u].email # rows[v].email

AccountsInv ==
    /\ TypeOK
    /\ \A u \in Accounts : RowOK(u)
    /\ \A u, v \in Accounts : u # v => Unlike(u, v)
    /\ \A w \in Worker : JobOK(job[w])
    /\ \A v, w \in Worker : v # w => Apart(job[v], job[w])
    /\ \A k \in removed : holder[k] # Nil

-----------------------------------------------------------------------------
(* What steps do *)

LEMMA Types ==
    ASSUME AccountsInv
    PROVE  /\ TypeOK
           /\ rows \in [User -> UserRow \cup {Nil}] /\ pending \in [Flow -> Ceremony \cup {Nil}]
           /\ job \in [Worker -> Job] /\ used \subseteq Uuid
           /\ holder \in [Cred -> User \cup {Nil}] /\ removed \subseteq Cred /\ undone \subseteq User
BY DEF AccountsInv, TypeOK

LEMMA IdleIs ==
    /\ Idle \in Job /\ Idle.pc = "idle" /\ Idle.kind = Nil /\ Idle.user = Nil /\ Idle.uuid = Nil
    /\ Idle.cred = Nil /\ Idle.email = Nil /\ Idle.got = Nil
BY DEF Idle, Job

LEMMA IdleOK == JobOK(Idle) /\ ~ Brings(Idle) /\ ~ Writes(Idle)
BY IdleIs DEF JobOK, Brings, Writes

\* The rows of accounts.
LEMMA RowIs ==
    ASSUME AccountsInv, NEW u \in Accounts
    PROVE  /\ u \in User /\ rows[u] \in UserRow /\ rows[u].record \in StoredUser
           /\ RowOK(u)
BY Types DEF Accounts, AccountsInv, UserRow

\* A step that reads the rows, at most, and gives w another job.
LEMMA MoveKeeps ==
    ASSUME AccountsInv, NEW w \in Worker, NEW j \in Job, job' = [job EXCEPT ![w] = j],
           pending' \in [Flow -> Ceremony \cup {Nil}], used' \subseteq Uuid,
           UNCHANGED <<rows, holder, removed, undone>>,
           JobOK(j),
           \A v \in Worker : v # w => Apart(job[v], j) /\ Apart(j, job[v])
    PROVE  AccountsInv'
<1>1. /\ job' \in [Worker -> Job] /\ job'[w] = j
      /\ \A v \in Worker : v # w => job'[v] = job[v]
  BY Types
<1>2. TypeOK'
  BY <1>1, Types DEF TypeOK
<1>3. \A u \in Accounts' : RowOK(u)' /\ \A v \in Accounts' : u # v => Unlike(u, v)'
  BY DEF AccountsInv, RowOK, AccountOf, Unlike, Accounts
<1>4. ASSUME NEW i, JobOK(i) PROVE JobOK(i)'
  BY <1>4 DEF JobOK, AccountOf, Accounts
<1>5. ASSUME NEW v \in Worker PROVE JobOK(job[v])'
  BY <1>1, <1>4 DEF AccountsInv
<1>6. ASSUME NEW u \in Worker, NEW v \in Worker, u # v PROVE Apart(job[u], job[v])'
  BY <1>1, <1>6 DEF AccountsInv, Apart
<1>7. QED  BY <1>2, <1>3, <1>5, <1>6 DEF AccountsInv

\* ... one that carries no passkey and no account.
LEMMA PlainKeeps ==
    ASSUME AccountsInv, NEW w \in Worker, NEW j \in Job, job' = [job EXCEPT ![w] = j],
           pending' \in [Flow -> Ceremony \cup {Nil}], used' \subseteq Uuid,
           UNCHANGED <<rows, holder, removed, undone>>,
           JobOK(j), ~ Brings(j), ~ Writes(j)
    PROVE  AccountsInv'
<1>1. j.cred = Nil
  BY DEF JobOK, Writes
<1>2. ASSUME NEW v \in Worker, v # w PROVE Apart(job[v], j) /\ Apart(j, job[v])
  BY <1>1 DEF Apart, AccountsInv, JobOK, AccountsAssumption
<1>3. QED  BY <1>2, MoveKeeps

LEMMA ReturnKeeps ==
    ASSUME AccountsInv, NEW w \in Worker, Return(w),
           pending' \in [Flow -> Ceremony \cup {Nil}], used' \subseteq Uuid,
           UNCHANGED <<rows, holder, removed, undone>>
    PROVE  AccountsInv'
BY IdleIs, IdleOK, PlainKeeps DEF Return

LEMMA GotoIs ==
    ASSUME AccountsInv, NEW w \in Worker, NEW pc, Goto(w, pc),
           pc \in {"idle", "check", "lookup", "insert", "name", "email", "create",
                   "read", "upsert", "taken", "update"}
    PROVE  \E j \in Job :
               /\ job' = [job EXCEPT ![w] = j]
               /\ j.pc = pc /\ j.kind = job[w].kind /\ j.user = job[w].user
               /\ j.uuid = job[w].uuid /\ j.cred = job[w].cred /\ j.email = job[w].email
               /\ j.got = job[w].got
<1> DEFINE j == [job[w] EXCEPT !.pc = pc]
<1>1. job[w] \in Job
  BY Types
<1>2. /\ j \in Job /\ j.pc = pc /\ j.kind = job[w].kind /\ j.user = job[w].user
      /\ j.uuid = job[w].uuid /\ j.cred = job[w].cred /\ j.email = job[w].email
      /\ j.got = job[w].got
  BY <1>1 DEF Job
<1>3. job' = [job EXCEPT ![w] = j]
  BY Types DEF Goto
<1> HIDE DEF j
<1>4. QED  BY <1>2, <1>3

LEMMA BeginKeeps ==
    ASSUME AccountsInv, NEW w \in Worker
    PROVE  /\ \A kind \in {"signin", "register", "add"}, u \in User \cup {Nil} :
                  Sweep(w, kind, u) => AccountsInv'
           /\ Check(w) \/ Lookup(w) \/ InsertPending(w) => AccountsInv'
<1>0. JobOK(job[w]) /\ job[w] \in Job
  BY Types DEF AccountsInv
<1>1. ASSUME NEW kind \in {"signin", "register", "add"}, NEW u \in User \cup {Nil},
             Sweep(w, kind, u)
      PROVE  AccountsInv'
  <2> DEFINE j == [Idle EXCEPT !.pc = "check", !.kind = kind, !.user = u]
  <2>1. /\ j \in Job /\ j.pc = "check" /\ j.kind = kind /\ j.user = u /\ j.uuid = Nil
        /\ j.cred = Nil
    BY IdleIs DEF Job
  <2>2. job' = [job EXCEPT ![w] = j] /\ (kind = "signin" <=> u = Nil)
        /\ UNCHANGED <<rows, used, holder, removed, undone>>
    BY <1>1 DEF Sweep
  <2> HIDE DEF j
  <2>3. pending' \in [Flow -> Ceremony \cup {Nil}]
    BY <1>1, Types DEF Sweep
  <2>4. JobOK(j) /\ ~ Brings(j) /\ ~ Writes(j)
    BY <2>1, <2>2 DEF JobOK, Brings, Writes
  <2>5. QED  BY <2>1, <2>2, <2>3, <2>4, Types, PlainKeeps
<1>2. ASSUME Check(w) PROVE AccountsInv'
  <2>1. UNCHANGED <<rows, pending, used, holder, removed, undone>>
    BY <1>2 DEF Check
  <2>2. CASE Return(w)
    BY <2>1, <2>2, Types, ReturnKeeps
  <2>3. CASE Goto(w, "lookup")
    <3>1. PICK j \in Job :
               /\ job' = [job EXCEPT ![w] = j]
               /\ j.pc = "lookup" /\ j.kind = job[w].kind /\ j.user = job[w].user
               /\ j.uuid = job[w].uuid /\ j.cred = job[w].cred
      BY <2>3, GotoIs
    <3>2. JobOK(j) /\ ~ Brings(j) /\ ~ Writes(j)
      BY <1>0, <1>2, <3>1 DEF Check, At, JobOK, Brings, Writes
    <3>3. QED  BY <2>1, <3>1, <3>2, Types, PlainKeeps
  <2>4. QED  BY <1>2, <2>2, <2>3 DEF Check
<1>3. ASSUME Lookup(w) PROVE AccountsInv'
  <2>1. UNCHANGED <<rows, pending, holder, removed, undone>> /\ job[w].pc = "lookup"
    BY <1>3 DEF Lookup, At
  <2>2. CASE Return(w) /\ UNCHANGED used
    BY <2>1, <2>2, Types, ReturnKeeps
  <2>3. CASE Goto(w, "insert") /\ UNCHANGED used /\ job[w].kind # "register"
    <3>1. PICK j \in Job :
               /\ job' = [job EXCEPT ![w] = j]
               /\ j.pc = "insert" /\ j.kind = job[w].kind /\ j.user = job[w].user
               /\ j.uuid = job[w].uuid /\ j.cred = job[w].cred
      BY <2>3, GotoIs
    <3>2. JobOK(j) /\ ~ Brings(j) /\ ~ Writes(j)
      BY <1>0, <2>1, <2>3, <3>1 DEF JobOK, Brings, Writes
    <3>3. QED  BY <2>1, <2>3, <3>1, <3>2, Types, PlainKeeps
  <2>4. ASSUME NEW i \in Uuid \ used, job[w].kind = "register", used' = used \cup {i},
               job' = [job EXCEPT ![w] = [@ EXCEPT !.pc = "insert", !.uuid = i]]
        PROVE  AccountsInv'
    <3> DEFINE j == [job[w] EXCEPT !.pc = "insert", !.uuid = i]
    <3>1. /\ j \in Job /\ j.pc = "insert" /\ j.kind = job[w].kind /\ j.user = job[w].user
          /\ j.uuid = i /\ j.cred = job[w].cred
      BY <1>0, <2>4 DEF Job
    <3>2. job' = [job EXCEPT ![w] = j] /\ used' \subseteq Uuid
      BY <2>4, Types
    <3> HIDE DEF j
    <3>3. JobOK(j) /\ ~ Brings(j) /\ ~ Writes(j)
      BY <1>0, <2>1, <2>4, <3>1 DEF JobOK, Brings, Writes
    <3>4. QED  BY <2>1, <3>1, <3>2, <3>3, Types, PlainKeeps
  <2>5. QED  BY <1>3, <2>2, <2>3, <2>4 DEF Lookup
<1>4. ASSUME InsertPending(w) PROVE AccountsInv'
  <2>1. /\ UNCHANGED <<rows, used, holder, removed, undone>> /\ job[w].pc = "insert" /\ Return(w)
    BY <1>4 DEF InsertPending, At
  <2>2. [kind |-> job[w].kind, user |-> job[w].user, uuid |-> job[w].uuid,
         expired |-> FALSE] \in Ceremony
    BY <1>0, <2>1 DEF JobOK, Ceremony
  <2>3. pending' \in [Flow -> Ceremony \cup {Nil}]
    BY <1>4, <2>2, Types DEF InsertPending
  <2>4. QED  BY <2>1, <2>3, Types, ReturnKeeps
<1>5. QED  BY <1>1, <1>2, <1>3, <1>4

\* The checks before a write: the request keeps what it carries.
LEMMA ChecksKeep ==
    ASSUME AccountsInv, NEW w \in Worker, NameTaken(w) \/ EmailTaken(w) \/ Taken(w)
    PROVE  AccountsInv'
<1>0. /\ JobOK(job[w]) /\ job[w] \in Job
      /\ UNCHANGED <<rows, pending, used, holder, removed, undone>>
  BY Types DEF AccountsInv, NameTaken, EmailTaken, Taken
<1>1. CASE Return(w)
  BY <1>0, <1>1, Types, ReturnKeeps
<1>2. ASSUME NEW pc \in {"email", "create", "update"}, Goto(w, pc),
             IF pc = "update" THEN job[w].pc = "taken" ELSE job[w].pc \in {"name", "email"}
      PROVE  AccountsInv'
  <2>1. PICK j \in Job :
               /\ job' = [job EXCEPT ![w] = j]
               /\ j.pc = pc /\ j.kind = job[w].kind /\ j.user = job[w].user
               /\ j.uuid = job[w].uuid /\ j.cred = job[w].cred /\ j.got = job[w].got
    BY <1>2, GotoIs
  <2>2. (Brings(j) <=> Brings(job[w])) /\ (Writes(j) <=> Writes(job[w]))
    BY <1>2, <2>1 DEF Brings, Writes
  <2>3. JobOK(j)
    BY <1>0, <1>2, <2>1, <2>2 DEF JobOK
  <2>4. ASSUME NEW v \in Worker, v # w PROVE Apart(job[v], j) /\ Apart(j, job[v])
    BY <2>1, <2>2, <2>4 DEF AccountsInv, Apart
  <2>5. QED  BY <1>0, <2>1, <2>3, <2>4, Types, MoveKeeps
<1>3. QED
  BY <1>1, <1>2 DEF NameTaken, EmailTaken, Taken, At

\* An account just read: what a passkey that is brought is apart from.
LEMMA NotInRows ==
    ASSUME AccountsInv, NEW v \in Worker, NEW u \in Accounts, Brings(job[v])
    PROVE  job[v].cred \notin rows[u].record.credentials
BY DEF AccountsInv, JobOK

LEMMA ReadToAddKeeps ==
    ASSUME AccountsInv, NEW w \in Worker, ReadToAdd(w)
    PROVE  AccountsInv'
<1>0. /\ JobOK(job[w]) /\ job[w] \in Job /\ job[w].pc = "read" /\ Brings(job[w])
      /\ UNCHANGED <<rows, pending, used, holder, removed, undone>>
  BY Types DEF AccountsInv, ReadToAdd, At, Brings
<1>1. CASE Return(w)
  BY <1>0, <1>1, Types, ReturnKeeps
<1>2. CASE job[w].user \in Accounts
  <2>1. PICK u \in Accounts : u = job[w].user
    BY <1>2
  <2>2. PICK k \in Cred : k = job[w].cred
    BY <1>0 DEF JobOK
  <2>3. PICK r \in StoredUser : r = rows[u].record
    BY RowIs
  <2> DEFINE x == [r EXCEPT !.credentials = @ \cup {k}]
  <2>4. x \in StoredUser /\ x.uuid = r.uuid /\ x.credentials = r.credentials \cup {k}
    BY DEF StoredUser
  <2> HIDE DEF x
  <2> DEFINE j == [job[w] EXCEPT !.pc = "upsert", !.got = x]
  <2>5. /\ j \in Job /\ j.pc = "upsert" /\ j.kind = job[w].kind /\ j.user = u
        /\ j.uuid = job[w].uuid /\ j.cred = k /\ j.got = x
    BY <1>0, <2>1, <2>2, <2>4 DEF Job
  <2>6. job' = [job EXCEPT ![w] = j]
    BY <1>2, <2>1, <2>2, <2>3, Types DEF ReadToAdd, x
  <2> HIDE DEF j
  <2>7. AccountOf(u, x)
    <3>1. AccountOf(u, r) /\ holder[k] = u
      BY <1>0, <2>1, <2>2, <2>3, RowIs DEF RowOK, JobOK
    <3>2. QED  BY <2>4, <3>1 DEF AccountOf
  <2>8. CASE job[w].kind = "add"
    <3>1. JobOK(j)
      BY <1>0, <2>1, <2>2, <2>3, <2>4, <2>5, <2>7, <2>8 DEF JobOK, Brings, Writes
    <3>2. ASSUME NEW v \in Worker, v # w PROVE Apart(job[v], j)
      BY <2>2, <2>3, <2>4, <2>5, <3>2, NotInRows DEF AccountsInv, Apart
    <3>3. ASSUME NEW v \in Worker, v # w PROVE Apart(j, job[v])
      BY <1>0, <2>2, <2>5, <3>3 DEF AccountsInv, Apart
    <3>4. QED  BY <1>0, <2>5, <2>6, <3>1, <3>2, <3>3, Types, MoveKeeps
  <2>9. QED  BY <1>0, <2>8 DEF JobOK
<1>3. QED  BY <1>1, <1>2 DEF ReadToAdd

LEMMA ReadKeeps ==
    ASSUME AccountsInv, NEW w \in Worker, NEW u \in Accounts
    PROVE  /\ \A k \in Cred : Remove(w, u, k) => AccountsInv'
           /\ \A e \in Email \cup {Nil} : SetEmail(w, u, e) => AccountsInv'
<1>0. PICK r \in StoredUser : r = rows[u].record
  BY RowIs
<1>1. /\ u \in User /\ AccountOf(u, r)
  BY <1>0, RowIs DEF RowOK
<1>2. ASSUME NEW k \in Cred, Remove(w, u, k) PROVE AccountsInv'
  <2> DEFINE x == [r EXCEPT !.credentials = @ \ {k}]
  <2>1. x \in StoredUser /\ x.uuid = r.uuid /\ x.credentials = r.credentials \ {k}
    BY DEF StoredUser
  <2>2. k \in r.credentials /\ Cardinality(r.credentials) > 1
    BY <1>0, <1>2 DEF Remove, Removable
  <2>3. r.credentials \ {k} # {}
    <3>1. r.credentials # {k}
      <4>1. Cardinality({k}) = 1
        BY FS_Singleton
      <4>2. QED  BY <2>2, <4>1
    <3>2. QED  BY <2>2, <3>1
  <2> HIDE DEF x
  <2> DEFINE j == [Idle EXCEPT !.pc = "upsert", !.kind = "remove", !.user = u, !.cred = k,
                               !.got = x]
  <2>4. /\ j \in Job /\ j.pc = "upsert" /\ j.kind = "remove" /\ j.user = u /\ j.cred = k
        /\ j.got = x
    BY <1>1, <2>1, IdleIs DEF Job
  <2>5. job' = [job EXCEPT ![w] = j] /\ UNCHANGED <<rows, pending, used, holder, removed, undone>>
    BY <1>0, <1>2 DEF Remove, x
  <2> HIDE DEF j
  <2>6. AccountOf(u, x)
    BY <1>1, <2>1, <2>3 DEF AccountOf
  <2>7. JobOK(j) /\ ~ Brings(j)
    <3>1. k \notin x.credentials /\ holder[k] = u
      BY <1>1, <2>1, <2>2 DEF AccountOf
    <3>2. QED  BY <1>0, <2>1, <2>4, <2>6, <3>1 DEF JobOK, Brings, Writes
  <2>8. ASSUME NEW v \in Worker, v # w PROVE Apart(job[v], j) /\ Apart(j, job[v])
    BY <1>0, <2>1, <2>2, <2>4, <2>7, NotInRows DEF Apart
  <2>9. QED  BY <2>4, <2>5, <2>7, <2>8, Types, MoveKeeps
<1>3. ASSUME NEW e \in Email \cup {Nil}, SetEmail(w, u, e) PROVE AccountsInv'
  <2> DEFINE pc == IF e = Nil THEN "update" ELSE "taken"
             j == [Idle EXCEPT !.pc = pc, !.kind = "email", !.user = u, !.email = e, !.got = r]
  <2>1. /\ j \in Job /\ j.pc \in {"update", "taken"} /\ j.kind = "email" /\ j.user = u
        /\ j.got = r /\ j.cred = Nil
    <3>1. pc \in {"update", "taken"} /\ r \in StoredUser
      BY <1>1
    <3>2. Idle \in Job /\ Idle.cred = Nil
      BY IdleIs
    <3> HIDE DEF pc
    <3>3. j.pc = pc /\ j.kind = "email" /\ j.user = u /\ j.got = r /\ j.cred = Nil
      BY <3>2 DEF Job
    <3>4. j \in Job
      <4>1. [Idle EXCEPT !.pc = pc, !.kind = "email", !.user = u] \in Job
        <5>1. u \in User \cup {Nil} /\ pc \in {"update", "taken"} /\ Idle \in Job
          BY <1>1, <3>1, <3>2
        <5>2. QED  BY ONLY <5>1 DEF Job
      <4> DEFINE i == [Idle EXCEPT !.pc = pc, !.kind = "email", !.user = u]
      <4>2. [i EXCEPT !.email = e, !.got = r] \in Job
        <5> HIDE DEF i
        <5>1. i \in Job
          BY <4>1 DEF i
        <5>2. QED  BY <3>1, <5>1 DEF Job
      <4>3. j = [i EXCEPT !.email = e, !.got = r]
        OBVIOUS
      <4>4. QED  BY <4>2, <4>3
    <3>5. QED  BY <3>1, <3>3, <3>4
  <2>2. job' = [job EXCEPT ![w] = j] /\ UNCHANGED <<rows, pending, used, holder, removed, undone>>
    BY <1>0, <1>3 DEF SetEmail
  <2> HIDE DEF j
  <2>3. JobOK(j) /\ ~ Brings(j)
    BY <1>0, <1>1, <2>1 DEF JobOK, Brings, Writes
  <2>4. ASSUME NEW v \in Worker, v # w PROVE Apart(job[v], j) /\ Apart(j, job[v])
    <3>1. Apart(j, job[v])
      BY <2>3 DEF Apart
    <3>2. ASSUME Brings(job[v]) PROVE job[v].cred # Nil /\ job[v].cred \notin r.credentials
      <4>1. job[v].cred \in Cred /\ u \in Accounts /\ r = rows[u].record
        BY <1>0, <1>1, <3>2 DEF AccountsInv, JobOK
      <4>2. QED  BY <3>2, <4>1, NotInRows DEF AccountsAssumption
    <3>3. Apart(job[v], j)
      BY <2>1, <3>2 DEF Apart
    <3>4. QED  BY <3>1, <3>3
  <2>5. QED  BY <2>1, <2>2, <2>3, <2>4, Types, MoveKeeps
<1>4. QED  BY <1>2, <1>3

-----------------------------------------------------------------------------
(* A new passkey *)

\* A passkey without a holder is nowhere.
LEMMA Unheld ==
    ASSUME AccountsInv, NEW k \in Cred, holder[k] = Nil
    PROVE  /\ k \notin removed
           /\ \A u \in Accounts : k \notin rows[u].record.credentials
           /\ \A w \in Worker : /\ job[w].cred # k
                                /\ Writes(job[w]) => k \notin job[w].got.credentials
<1>1. k \notin removed
  BY DEF AccountsInv
<1>2. Nil \notin User /\ Nil \notin Cred
  BY DEF AccountsAssumption
<1>3. ASSUME NEW u, NEW r, u \in User, AccountOf(u, r) PROVE k \notin r.credentials
  BY <1>2, <1>3 DEF AccountOf
<1>4. ASSUME NEW u \in Accounts PROVE k \notin rows[u].record.credentials
  BY <1>3, RowIs DEF RowOK
<1>5. ASSUME NEW w \in Worker PROVE Writes(job[w]) => k \notin job[w].got.credentials
  BY <1>3 DEF AccountsInv, JobOK, Accounts
<1>6. ASSUME NEW w \in Worker PROVE job[w].cred # k
  <2>1. JobOK(job[w])
    BY DEF AccountsInv
  <2>2. CASE Brings(job[w])
    BY <1>2, <2>1, <2>2 DEF JobOK
  <2>3. CASE job[w].pc = "upsert" /\ ~ Brings(job[w])
    <3>1. job[w].kind = "remove" /\ job[w].user \in User
      BY <2>1, <2>3 DEF JobOK, Brings, Writes, Accounts
    <3>2. QED  BY <1>2, <2>1, <2>3, <3>1 DEF JobOK
  <2>4. QED  BY <1>2, <2>1, <2>2, <2>3 DEF JobOK
<1>7. QED  BY <1>1, <1>4, <1>5, <1>6

LEMMA BringKeeps ==
    ASSUME AccountsInv, NEW w \in Worker, NEW j \in Job, job' = [job EXCEPT ![w] = j],
           NEW k \in Cred, NEW u \in User,
           holder[k] = Nil, holder' = [holder EXCEPT ![k] = u],
           j.pc \in {"name", "read"}, j.user = u, j.cred = k,
           j.pc = "name" => j.uuid \in Uuid, j.pc = "read" => j.kind = "add",
           pending' \in [Flow -> Ceremony \cup {Nil}],
           UNCHANGED <<rows, used, removed, undone>>
    PROVE  AccountsInv'
<1>1. /\ job' \in [Worker -> Job] /\ job'[w] = j
      /\ \A v \in Worker : v # w => job'[v] = job[v]
  BY Types
<1>2. /\ holder' \in [Cred -> User \cup {Nil}] /\ holder'[k] = u
      /\ \A c \in Cred : c # k => holder'[c] = holder[c]
  BY Types
<1>3. TypeOK'
  BY <1>1, <1>2, Types DEF TypeOK
<1>4. \A x \in User : \A r : AccountOf(x, r) => AccountOf(x, r)'
  <2>1. SUFFICES ASSUME NEW x \in User, NEW r, AccountOf(x, r), NEW c \in r.credentials
                 PROVE  holder'[c] = x
    BY DEF AccountOf
  <2>2. c \in Cred /\ holder[c] = x
    BY <2>1 DEF AccountOf, StoredUser
  <2>3. QED  BY <1>2, <2>2 DEF AccountsAssumption
<1>5. Accounts' = Accounts /\ Accounts \subseteq User
  BY DEF Accounts
<1>6. \A x \in Accounts' : RowOK(x)' /\ \A v \in Accounts' : x # v => Unlike(x, v)'
  BY <1>4, <1>5 DEF AccountsInv, RowOK, Unlike
<1>7. ASSUME NEW v \in Worker, v # w PROVE JobOK(job[v])'
  <2>1. job'[v] = job[v] /\ JobOK(job[v]) /\ job[v].cred # k
    BY <1>1, <1>7, Unheld DEF AccountsInv
  <2>2. Writes(job[v]) => AccountOf(job[v].user, job[v].got)'
    BY <1>4, <1>5, <2>1 DEF JobOK
  <2>3. job[v].cred \in Cred => holder'[job[v].cred] = holder[job[v].cred]
    BY <1>2, <2>1
  <2>4. QED  BY <1>5, <2>1, <2>2, <2>3 DEF JobOK, Brings, Writes
<1>8. JobOK(job[w])'
  BY <1>1, <1>2, <1>5, Unheld DEF JobOK, Brings, Writes
<1>9. ASSUME NEW i \in Worker, NEW v \in Worker, i # v PROVE Apart(job[i], job[v])'
  <2>1. CASE i = w
    BY <1>1, <1>9, <2>1, Unheld DEF Apart, Brings, Writes
  <2>2. CASE v = w
    BY <1>1, <1>9, <2>2, Unheld DEF Apart, Brings, Writes
  <2>3. CASE i # w /\ v # w
    BY <1>1, <1>9, <2>3 DEF AccountsInv, Apart, Brings, Writes
  <2>4. QED  BY <2>1, <2>2, <2>3
<1>10. \A c \in removed' : holder'[c] # Nil
  BY <1>2, Types DEF AccountsInv, AccountsAssumption
<1>11. QED  BY <1>3, <1>6, <1>7, <1>8, <1>9, <1>10 DEF AccountsInv

LEMMA FinishKeeps ==
    ASSUME AccountsInv, NEW w \in Worker, NEW f \in Flow
    PROVE  /\ \A e \in Email \cup {Nil} : Register(w, f, e) => AccountsInv'
           /\ \A u \in User : FinishAdd(w, f, u) => AccountsInv'
<1>1. ASSUME NEW e \in Email \cup {Nil}, Register(w, f, e) PROVE AccountsInv'
  <2>1. pending[f] \in Ceremony /\ pending[f].kind = "register"
    BY <1>1, Types DEF Register, InFlight
  <2>2. PICK u \in User, i \in Uuid : u = pending[f].user /\ i = pending[f].uuid
    BY <2>1 DEF Ceremony
  <2> DEFINE Rec(k) == [Idle EXCEPT !.pc = "name", !.kind = "register", !.user = u, !.uuid = i,
                                    !.cred = k, !.email = e]
  <2>3. PICK k \in Cred : /\ holder[k] = Nil /\ holder' = [holder EXCEPT ![k] = u]
                          /\ job' = [job EXCEPT ![w] = Rec(k)]
    BY <1>1, <2>2 DEF Register
  <2>4. Rec(k) \in Job /\ Rec(k).pc = "name" /\ Rec(k).user = u /\ Rec(k).cred = k
        /\ Rec(k).uuid = i
    BY IdleIs DEF Job
  <2> HIDE DEF Rec
  <2>5. /\ pending' \in [Flow -> Ceremony \cup {Nil}]
        /\ UNCHANGED <<rows, used, removed, undone>>
    BY <1>1, Types DEF Register
  <2>6. QED  BY <2>3, <2>4, <2>5, BringKeeps
<1>2. ASSUME NEW u \in User, FinishAdd(w, f, u) PROVE AccountsInv'
  <2> DEFINE Rec(k) == [Idle EXCEPT !.pc = "read", !.kind = "add", !.user = u, !.cred = k]
  <2>1. PICK k \in Cred : /\ holder[k] = Nil /\ holder' = [holder EXCEPT ![k] = u]
                          /\ job' = [job EXCEPT ![w] = Rec(k)]
    BY <1>2 DEF FinishAdd
  <2>2. Rec(k) \in Job /\ Rec(k).pc = "read" /\ Rec(k).user = u /\ Rec(k).cred = k
        /\ Rec(k).kind = "add"
    BY IdleIs DEF Job
  <2> HIDE DEF Rec
  <2>3. /\ pending' \in [Flow -> Ceremony \cup {Nil}]
        /\ UNCHANGED <<rows, used, removed, undone>>
    BY <1>2, Types DEF FinishAdd
  <2>4. QED  BY <2>1, <2>2, <2>3, BringKeeps
<1>3. QED  BY <1>1, <1>2

-----------------------------------------------------------------------------
(* Writes *)

\* No write makes two accounts' emails one.
LEMMA WriteUnlike ==
    ASSUME AccountsInv, NEW u \in User, NEW x \in StoredUser, ~ Linked(u, x.email),
           rows' = [rows EXCEPT ![u] = Row(x)]
    PROVE  \A a, b \in Accounts' : a # b => Unlike(a, b)'
<1>1. /\ \A a \in User : a # u => rows'[a] = rows[a]
      /\ rows'[u].record = x /\ rows'[u].email = ColumnOf(x.email)
      /\ Accounts' \subseteq Accounts \cup {u}
  BY Types DEF Row, Accounts
<1>2. \A a \in Accounts : rows[a].record.email \in Email \cup {Nil}
                          /\ rows[a].email = ColumnOf(rows[a].record.email)
  BY RowIs DEF RowOK, StoredUser
<1>3. x.email \in Email \cup {Nil}
  BY DEF StoredUser
<1>4. \A e \in Email \cup {Nil} : (ColumnOf(e) = Nil <=> e = Nil) /\ (e # Nil => ColumnOf(e) = Key[e])
  BY DEF ColumnOf, AccountsAssumption
<1>5. x.email = Nil \/ \A a \in Accounts \ {u} : rows[a].email # ColumnOf(x.email)
  BY <1>3, <1>4 DEF Linked
<1>6. ASSUME NEW a \in Accounts', NEW b \in Accounts', a # b PROVE Unlike(a, b)'
  <2>1. CASE a # u /\ b # u
    BY <1>1, <1>6, <2>1 DEF AccountsInv, Unlike, Accounts
  <2>2. CASE a = u
    <3>1. b \in Accounts \ {u} /\ rows'[b] = rows[b]
      BY <1>1, <1>6, <2>2 DEF Accounts
    <3>2. QED  BY <1>1, <1>5, <2>2, <3>1 DEF Unlike
  <2>3. CASE b = u /\ a # u
    <3>1. a \in Accounts \ {u} /\ rows'[a] = rows[a]
      BY <1>1, <1>6, <2>3 DEF Accounts
    <3>2. rows[a].record.email # Nil => rows[a].email # ColumnOf(x.email)
      BY <1>2, <1>3, <1>4, <1>5, <3>1
    <3>3. QED  BY <1>1, <2>3, <3>1, <3>2 DEF Unlike
  <2>4. QED  BY <2>1, <2>2, <2>3
<1>7. QED  BY <1>6

\* A request w writes x as u's account and is done.  What it removes, gone, was
\* a passkey of u's.
LEMMA WriteKeeps ==
    ASSUME AccountsInv, NEW w \in Worker, NEW u \in User, NEW x, NEW gone \in SUBSET Cred,
           AccountOf(u, x), ~ Linked(u, x.email), rows' = [rows EXCEPT ![u] = Row(x)],
           u \in Accounts => x.uuid = rows[u].record.uuid,
           removed' = removed \cup gone, undone \subseteq undone', undone' \subseteq User,
           u \notin undone' => x.credentials \cap removed' = {},
           \A k \in gone : holder[k] = u,
           \A v \in Worker : v # w /\ Brings(job[v]) =>
               job[v].cred \notin x.credentials \cup gone,
           Return(w), UNCHANGED <<pending, used, holder>>
    PROVE  AccountsInv'
<1>1. /\ job' \in [Worker -> Job] /\ job'[w] = Idle
      /\ \A v \in Worker : v # w => job'[v] = job[v]
  BY Types, IdleIs DEF Return
<1>2. x \in StoredUser
  BY DEF AccountOf
<1>3. Row(x) \in UserRow /\ Row(x).record = x /\ Row(x).email = ColumnOf(x.email)
  BY <1>2 DEF Row, UserRow, StoredUser
<1>4. /\ rows' \in [User -> UserRow \cup {Nil}] /\ rows'[u] = Row(x)
      /\ \A a \in User : a # u => rows'[a] = rows[a]
  BY <1>3, Types
<1>5. TypeOK'
  BY <1>1, <1>4, Types DEF TypeOK
<1>6. Accounts' = Accounts \cup {u} /\ Accounts \subseteq User
  BY <1>3, <1>4 DEF Accounts, AccountsAssumption
<1>7. \A a, r : AccountOf(a, r) => AccountOf(a, r)'
  BY DEF AccountOf
<1>8. RowOK(u)'
  BY <1>3, <1>4, <1>7 DEF RowOK
<1>9. ASSUME NEW a \in Accounts, a # u PROVE RowOK(a)'
  <2>1. RowOK(a) /\ rows'[a] = rows[a] /\ a \in User
    BY <1>4, <1>9, RowIs
  <2>2. rows[a].record.credentials \cap gone = {}
    BY <1>9, <2>1 DEF RowOK, AccountOf
  <2>3. QED  BY <1>7, <2>1, <2>2 DEF RowOK
<1>10. \A a, b \in Accounts' : a # b => Unlike(a, b)'
  BY <1>2, WriteUnlike
<1>11. ASSUME NEW v \in Worker, v # w PROVE JobOK(job[v])'
  <2>1. job'[v] = job[v] /\ JobOK(job[v])
    BY <1>1, <1>11 DEF AccountsInv
  <2>2. Brings(job[v]) => \A a \in Accounts' : job[v].cred \notin rows'[a].record.credentials
    BY <1>3, <1>4, <1>6, <1>11, <2>1 DEF JobOK
  <2>3. Brings(job[v]) => job[v].cred \notin removed'
    BY <1>11, <2>1 DEF JobOK
  <2>4. Writes(job[v]) => /\ job[v].user \in Accounts'
                          /\ job[v].got.uuid = rows'[job[v].user].record.uuid
                          /\ AccountOf(job[v].user, job[v].got)'
    BY <1>3, <1>4, <1>6, <1>7, <2>1 DEF JobOK
  <2>5. QED  BY <2>1, <2>2, <2>3, <2>4 DEF JobOK, Brings, Writes
<1>12. JobOK(job[w])'
  BY <1>1, IdleIs DEF JobOK, Brings, Writes
<1>13. ASSUME NEW i \in Worker, NEW v \in Worker, i # v PROVE Apart(job[i], job[v])'
  <2>1. CASE i = w
    BY <1>1, <2>1, IdleOK DEF Apart, Brings
  <2>2. CASE v = w /\ i # w
    <3>1. Brings(job[i]) => job[i].cred \in Cred
      BY DEF AccountsInv, JobOK
    <3>2. QED  BY <1>1, <2>2, <3>1, IdleIs, IdleOK DEF Apart, Brings, Writes, AccountsAssumption
  <2>3. CASE i # w /\ v # w
    BY <1>1, <1>13, <2>3 DEF AccountsInv, Apart, Brings, Writes
  <2>4. QED  BY <2>1, <2>2, <2>3
<1>14. \A k \in removed' : holder'[k] # Nil
  BY DEF AccountsInv, AccountsAssumption
<1>15. QED
  BY <1>5, <1>6, <1>8, <1>9, <1>10, <1>11, <1>12, <1>13, <1>14 DEF AccountsInv

LEMMA CreateKeeps ==
    ASSUME AccountsInv, NEW w \in Worker, Create(w)
    PROVE  AccountsInv'
<1>0. /\ JobOK(job[w]) /\ job[w] \in Job /\ job[w].pc = "create" /\ Brings(job[w])
      /\ UNCHANGED <<pending, used, holder, removed, undone>> /\ Return(w)
  BY Types DEF AccountsInv, Create, At, Brings
<1>1. CASE rows' = rows
  BY <1>0, <1>1, Types, ReturnKeeps
<1>2. CASE job[w].user \notin Accounts /\ ~ Linked(job[w].user, job[w].email)
  <2>1. PICK u \in User, i \in Uuid, k \in Cred, e \in Email \cup {Nil} :
            u = job[w].user /\ i = job[w].uuid /\ k = job[w].cred /\ e = job[w].email
    BY <1>0 DEF JobOK, Job
  <2> DEFINE x == [uuid |-> i, email |-> e, credentials |-> {k}]
  <2>2. x \in StoredUser /\ x.email = e /\ x.credentials = {k}
    BY DEF StoredUser
  <2>3. rows' = [rows EXCEPT ![u] = Row(x)]
    BY <1>2, <2>1 DEF Create
  <2> HIDE DEF x
  <2>4. holder[k] = u /\ k \notin removed
    BY <1>0, <2>1 DEF JobOK
  <2>5. AccountOf(u, x) /\ x.credentials \cap removed = {}
    BY <2>2, <2>4 DEF AccountOf
  <2>6. \A v \in Worker : v # w /\ Brings(job[v]) => job[v].cred \notin x.credentials
    BY <2>1, <2>2 DEF AccountsInv, Apart
  <2>7. /\ removed' = removed \cup {} /\ undone' \subseteq User
        /\ ~ Linked(u, x.email) /\ u \notin Accounts /\ {} \in SUBSET Cred
    BY <1>0, <1>2, <2>1, <2>2, Types
  <2>8. QED  BY <1>0, <2>3, <2>5, <2>6, <2>7, WriteKeeps
<1>3. QED  BY <1>1, <1>2 DEF Create

\* What undone says of a write over an account that is not what was read.
LEMMA UndoesIs ==
    ASSUME AccountsInv, NEW j, j.user \in User, Undoes(j)
    PROVE  /\ undone \subseteq undone' /\ undone' \subseteq User
           /\ j.user \notin undone' => j.user \notin undone /\ rows[j.user].record = Base(j)
BY Types DEF Undoes

LEMMA UpsertKeeps ==
    ASSUME AccountsInv, NEW w \in Worker, Upsert(w)
    PROVE  AccountsInv'
<1>0. /\ JobOK(job[w]) /\ job[w] \in Job /\ job[w].pc = "upsert" /\ Writes(job[w])
      /\ UNCHANGED <<pending, used, holder>> /\ Return(w)
  BY Types DEF AccountsInv, Upsert, At, Writes
<1>1. CASE UNCHANGED <<rows, removed, undone>>
  BY <1>0, <1>1, Types, ReturnKeeps
<1>2. CASE ~ Linked(job[w].user, job[w].got.email)
  <2>1. PICK u \in Accounts : u = job[w].user
    BY <1>0 DEF JobOK
  <2>2. PICK x \in StoredUser : x = job[w].got
    BY <1>0 DEF JobOK, AccountOf
  <2>3. PICK k \in Cred : k = job[w].cred
    BY <1>0 DEF JobOK, Brings
  <2>4. PICK gone \in SUBSET Cred : gone = IF job[w].kind = "remove" THEN {k} ELSE {}
    OBVIOUS
  <2>5. /\ rows' = [rows EXCEPT ![u] = Row(x)] /\ removed' = removed \cup gone
        /\ Undoes(job[w])
    BY <1>2, <2>1, <2>2, <2>3, <2>4 DEF Upsert
  <2>6. /\ u \in User /\ AccountOf(u, x) /\ x.uuid = rows[u].record.uuid
        /\ holder[k] = u
    BY <1>0, <2>1, <2>2, <2>3, RowIs DEF JobOK, Brings
  <2>7. /\ undone \subseteq undone' /\ undone' \subseteq User
        /\ u \notin undone' => u \notin undone /\ rows[u].record = Base(job[w])
    BY <2>1, <2>5, <2>6, UndoesIs
  <2>8. u \notin undone' => x.credentials \cap removed' = {}
    <3>1. SUFFICES ASSUME u \notin undone' PROVE x.credentials \cap removed' = {}
      OBVIOUS
    <3>2. rows[u].record = Base(job[w]) /\ rows[u].record.credentials \cap removed = {}
      BY <2>7, <3>1, RowIs DEF RowOK
    <3>3. CASE job[w].kind = "add"
      <4>1. rows[u].record = [x EXCEPT !.credentials = @ \ {k}]
        BY <2>2, <2>3, <3>2, <3>3 DEF Base
      <4>2. rows[u].record.credentials = x.credentials \ {k}
        BY <4>1 DEF StoredUser
      <4>3. k \notin removed /\ gone = {}
        BY <1>0, <2>3, <2>4, <3>3 DEF JobOK, Brings
      <4>4. QED  BY <2>5, <3>2, <4>2, <4>3
    <3>4. CASE job[w].kind = "remove"
      <4>1. rows[u].record = [x EXCEPT !.credentials = @ \cup {k}]
        BY <2>2, <2>3, <3>2, <3>4 DEF Base
      <4>2. rows[u].record.credentials = x.credentials \cup {k}
        BY <4>1 DEF StoredUser
      <4>3. k \notin x.credentials /\ gone = {k}
        BY <1>0, <2>2, <2>3, <2>4, <3>4 DEF JobOK
      <4>4. QED  BY <2>5, <3>2, <4>2, <4>3
    <3>5. QED  BY <1>0, <3>3, <3>4 DEF JobOK
  <2>9. \A v \in Worker : v # w /\ Brings(job[v]) => job[v].cred \notin x.credentials \cup gone
    BY <1>0, <2>2, <2>3, <2>4 DEF AccountsInv, Apart
  <2>10. \A c \in gone : holder[c] = u
    BY <2>4, <2>6
  <2>11. ~ Linked(u, x.email)
    BY <1>2, <2>1, <2>2
  <2>12. QED
    BY <1>0, <2>5, <2>6, <2>7, <2>8, <2>9, <2>10, <2>11, WriteKeeps
<1>3. QED  BY <1>1, <1>2 DEF Upsert

LEMMA UpdateKeeps ==
    ASSUME AccountsInv, NEW w \in Worker, Update(w)
    PROVE  AccountsInv'
<1>0. /\ JobOK(job[w]) /\ job[w] \in Job /\ job[w].pc = "update" /\ Writes(job[w])
      /\ UNCHANGED <<pending, used, holder, removed>> /\ Return(w)
  BY Types DEF AccountsInv, Update, At, Writes
<1>1. CASE UNCHANGED <<rows, undone>>
  BY <1>0, <1>1, Types, ReturnKeeps
<1>2. CASE ~ Linked(job[w].user, job[w].email)
  <2>1. PICK u \in Accounts : u = job[w].user
    BY <1>0 DEF JobOK
  <2>2. PICK r \in StoredUser : r = job[w].got
    BY <1>0 DEF JobOK, AccountOf
  <2>3. PICK e \in Email \cup {Nil} : e = job[w].email
    BY <1>0 DEF Job
  <2> DEFINE x == [r EXCEPT !.email = e]
  <2>4. x \in StoredUser /\ x.email = e /\ x.uuid = r.uuid /\ x.credentials = r.credentials
    BY DEF StoredUser
  <2>5. rows' = [rows EXCEPT ![u] = Row(x)] /\ Undoes(job[w])
    BY <1>2, <2>1, <2>2, <2>3 DEF Update
  <2> HIDE DEF x
  <2>6. /\ u \in User /\ AccountOf(u, x) /\ x.uuid = rows[u].record.uuid
    BY <1>0, <2>1, <2>2, <2>4, RowIs DEF JobOK, AccountOf
  <2>7. /\ undone \subseteq undone' /\ undone' \subseteq User
        /\ u \notin undone' => u \notin undone /\ rows[u].record = Base(job[w])
    BY <2>1, <2>5, <2>6, UndoesIs
  <2>8. Base(job[w]) = r
    BY <1>0, <2>2 DEF Base, JobOK
  <2>9. u \notin undone' => x.credentials \cap removed = {}
    BY <2>4, <2>7, <2>8, RowIs DEF RowOK
  <2>10. \A v \in Worker : v # w /\ Brings(job[v]) => job[v].cred \notin x.credentials
    BY <1>0, <2>2, <2>4 DEF AccountsInv, Apart
  <2>11. ~ Linked(u, x.email) /\ removed' = removed \cup {} /\ {} \in SUBSET Cred
    BY <1>0, <1>2, <2>1, <2>3, <2>4
  <2>12. QED
    BY <1>0, <2>5, <2>6, <2>7, <2>9, <2>10, <2>11, WriteKeeps
<1>3. QED  BY <1>1, <1>2 DEF Update

-----------------------------------------------------------------------------
(* The theorems *)

LEMMA AccountsInit == Init => AccountsInv
<1> SUFFICES ASSUME Init PROVE AccountsInv
  OBVIOUS
<1>1. TypeOK
  BY IdleIs DEF Init, TypeOK
<1>2. Accounts = {} /\ removed = {}
  BY DEF Init, Accounts
<1>3. \A w \in Worker : JobOK(job[w]) /\ \A v \in Worker : Apart(job[v], job[w])
  BY IdleOK DEF Init, Apart
<1>4. QED  BY <1>1, <1>2, <1>3 DEF AccountsInv

LEMMA AccountsNext == AccountsInv /\ [Next]_vars => AccountsInv'
<1> SUFFICES ASSUME AccountsInv, [Next]_vars PROVE AccountsInv'
  OBVIOUS
<1>1. ASSUME job' = job \/ job' = [w \in Worker |-> Idle],
             pending' \in [Flow -> Ceremony \cup {Nil}],
             UNCHANGED <<rows, used, holder, removed, undone>>
      PROVE  AccountsInv'
  <2>1. \A w \in Worker : job'[w] = job[w] \/ job'[w] = Idle
    BY <1>1
  <2>2. TypeOK'
    BY <1>1, IdleIs, Types DEF TypeOK
  <2>3. \A u \in Accounts' : RowOK(u)' /\ \A v \in Accounts' : u # v => Unlike(u, v)'
    BY <1>1 DEF AccountsInv, RowOK, AccountOf, Unlike, Accounts
  <2>4. ASSUME NEW i, JobOK(i) PROVE JobOK(i)'
    BY <1>1, <2>4 DEF JobOK, AccountOf, Accounts
  <2>5. \A w \in Worker : JobOK(job[w])'
    BY <2>1, <2>4, IdleOK DEF AccountsInv
  <2>6. ASSUME NEW u \in Worker, NEW v \in Worker, u # v PROVE Apart(job[u], job[v])'
    BY <1>1, <2>6, IdleOK DEF AccountsInv, Apart
  <2>7. \A k \in removed' : holder'[k] # Nil
    BY <1>1 DEF AccountsInv
  <2>8. QED  BY <2>2, <2>3, <2>5, <2>6, <2>7 DEF AccountsInv
<1>2. ASSUME NEW f \in Flow, Finish(f) PROVE AccountsInv'
  BY <1>1, <1>2, Types DEF Finish
<1>3. ASSUME NEW f \in Flow, Expire(f) PROVE AccountsInv'
  <2>1. pending[f] \in Ceremony
    BY <1>3, Types DEF Expire, InFlight
  <2>2. [pending[f] EXCEPT !.expired = TRUE] \in Ceremony
    BY <2>1 DEF Ceremony
  <2>3. pending' = [pending EXCEPT ![f] = [pending[f] EXCEPT !.expired = TRUE]]
    BY <1>3, Types DEF Expire
  <2>4. pending' \in [Flow -> Ceremony \cup {Nil}]
    BY <2>2, <2>3, Types
  <2>5. QED  BY <1>1, <1>3, <2>4 DEF Expire
<1>4. CASE Crash
  <2>1. pending' \in [Flow -> Ceremony \cup {Nil}]
    BY <1>4 DEF Crash
  <2>2. QED  BY <1>1, <1>4, <2>1 DEF Crash
<1>5. CASE UNCHANGED vars
  BY <1>1, <1>5, Types DEF vars
<1>6. ASSUME NEW w \in Worker, NEW u \in User, NEW k \in Cred, Remove(w, u, k) PROVE AccountsInv'
  <2>1. u \in Accounts
    BY <1>6 DEF Remove
  <2>2. QED  BY <1>6, <2>1, ReadKeeps
<1>7. ASSUME NEW w \in Worker, NEW u \in User, NEW e \in Email \cup {Nil}, SetEmail(w, u, e)
      PROVE  AccountsInv'
  <2>1. u \in Accounts
    BY <1>7 DEF SetEmail
  <2>2. QED  BY <1>7, <2>1, ReadKeeps
<1>8. QED
  BY <1>2, <1>3, <1>4, <1>5, <1>6, <1>7, BeginKeeps, FinishKeeps, ChecksKeep, CreateKeeps,
     ReadToAddKeeps, UpsertKeeps, UpdateKeeps DEF Next

\* The types, and what every request that is to write an account back has of
\* it: passkeys of that account's user, none of them another request's.
THEOREM InvHolds == Spec => []AccountsInv
<1>1. Init => AccountsInv
  BY AccountsInit
<1>2. AccountsInv /\ [Next]_vars => AccountsInv'
  BY AccountsNext
<1>3. QED  BY <1>1, <1>2, PTL DEF Spec

\* An email leads to one account, whatever stale blob is written back: the
\* column is rewritten with the blob, under the constraint (users.rs update).
THEOREM EmailOfOneHolds == Spec => []EmailOfOne
<1>1. AccountsInv => EmailOfOne
  <2> SUFFICES ASSUME AccountsInv PROVE EmailOfOne
    OBVIOUS
  <2>1. \A u \in Accounts : rows[u].email = ColumnOf(rows[u].record.email)
    BY RowIs DEF RowOK
  <2>2. QED  BY <2>1, Types DEF AccountsInv, Unlike, EmailOfOne
<1>2. QED  BY <1>1, InvHolds, PTL

\* "Refused if it's the account's last one": an account always holds a passkey
\* its own user made, and one not removed, unless a stale account was written
\* back over it (passkey.rs remove, finish_add).
THEOREM CanSignInHolds == Spec => []CanSignIn
<1>1. AccountsInv => CanSignIn
  <2> SUFFICES ASSUME AccountsInv, NEW u \in Accounts
               PROVE  LET own == {k \in rows[u].record.credentials : holder[k] = u}
                      IN  own # {} /\ (own \subseteq removed => u \in undone)
    BY DEF CanSignIn
  <2>1. /\ rows[u].record.credentials # {}
        /\ \A k \in rows[u].record.credentials : holder[k] = u
        /\ u \notin undone => rows[u].record.credentials \cap removed = {}
    BY RowIs DEF RowOK, AccountOf
  <2>2. {k \in rows[u].record.credentials : holder[k] = u} = rows[u].record.credentials
    BY <2>1
  <2>3. QED  BY <2>1, <2>2
<1>2. QED  BY <1>1, InvHolds, PTL

\* A write of a row leaves an account there, with the id it had.
LEMMA WriteKeepsName ==
    ASSUME AccountsInv, NEW u \in User, NEW v \in User, NEW x \in StoredUser,
           rows' = [rows EXCEPT ![u] = Row(x)], rows[v] # Nil,
           v = u => x.uuid = rows[u].record.uuid
    PROVE  rows'[v] # Nil /\ rows'[v].record.uuid = rows[v].record.uuid
<1>1. Row(x) \in UserRow /\ Row(x).record = x
  BY DEF Row, UserRow, StoredUser
<1>2. QED  BY <1>1, Types DEF AccountsAssumption

LEMMA NameStep ==
    ASSUME AccountsInv, [Next]_vars, NEW v \in User, rows[v] # Nil
    PROVE  rows'[v] # Nil /\ rows'[v].record.uuid = rows[v].record.uuid
<1>1. ASSUME NEW w \in Worker, Create(w), rows' # rows
      PROVE  rows'[v] # Nil /\ rows'[v].record.uuid = rows[v].record.uuid
  <2>1. JobOK(job[w]) /\ job[w] \in Job /\ Brings(job[w]) /\ job[w].pc = "create"
    BY <1>1, Types DEF AccountsInv, Create, At, Brings
  <2>2. job[w].user # v /\ job[w].user \in User
    BY <1>1, <2>1 DEF Create, Accounts, JobOK
  <2>3. rows'[v] = rows[v]
    BY <1>1, <2>2, Types DEF Create
  <2>4. QED  BY <2>3
<1>2. ASSUME NEW w \in Worker, Upsert(w), rows' # rows
      PROVE  rows'[v] # Nil /\ rows'[v].record.uuid = rows[v].record.uuid
  <2>1. JobOK(job[w]) /\ Writes(job[w])
    BY <1>2 DEF AccountsInv, Upsert, At, Writes
  <2>2. /\ job[w].user \in User /\ job[w].got \in StoredUser
        /\ job[w].got.uuid = rows[job[w].user].record.uuid
    BY <2>1 DEF JobOK, AccountOf, Accounts
  <2>3. rows' = [rows EXCEPT ![job[w].user] = Row(job[w].got)]
    BY <1>2 DEF Upsert
  <2>4. QED  BY <2>2, <2>3, WriteKeepsName
<1>3. ASSUME NEW w \in Worker, Update(w), rows' # rows
      PROVE  rows'[v] # Nil /\ rows'[v].record.uuid = rows[v].record.uuid
  <2>1. JobOK(job[w]) /\ Writes(job[w]) /\ job[w] \in Job
    BY <1>3, Types DEF AccountsInv, Update, At, Writes
  <2>2. PICK r \in StoredUser, e \in Email \cup {Nil} : r = job[w].got /\ e = job[w].email
    BY <2>1 DEF JobOK, AccountOf, Job
  <2> DEFINE x == [r EXCEPT !.email = e]
  <2>3. x \in StoredUser /\ x.uuid = r.uuid
    BY DEF StoredUser
  <2>4. job[w].user \in User /\ r.uuid = rows[job[w].user].record.uuid
    BY <2>1, <2>2 DEF JobOK, Accounts
  <2>5. rows' = [rows EXCEPT ![job[w].user] = Row(x)]
    BY <1>3, <2>2 DEF Update
  <2> HIDE DEF x
  <2>6. PICK u \in User : u = job[w].user
    BY <2>4
  <2>7. /\ x \in StoredUser /\ rows' = [rows EXCEPT ![u] = Row(x)]
        /\ x.uuid = rows[u].record.uuid
    BY <2>3, <2>4, <2>5, <2>6
  <2>8. v = u => x.uuid = rows[u].record.uuid
    BY <2>7
  <2>9. QED  BY <2>7, <2>8, WriteKeepsName
<1>4. ASSUME ~ \E w \in Worker : Create(w) \/ Upsert(w) \/ Update(w) PROVE rows' = rows
  BY <1>4 DEF Next, vars, Sweep, Check, Lookup, InsertPending, Register, NameTaken, EmailTaken,
              FinishAdd, ReadToAdd, Remove, SetEmail, Taken, Finish, Expire, Crash
<1>5. QED  BY <1>1, <1>2, <1>3, <1>4

\* A name stays with the account that registered it: of two registrations one
\* wins, and a write of a stale account never takes another's place (users.rs
\* create is an insert, and no write changes the id).
THEOREM NameKeptHolds == Spec => NameKept
<1>1. AccountsInv /\ [Next]_vars =>
          [\A u \in User : rows[u] # Nil =>
               rows'[u] # Nil /\ rows'[u].record.uuid = rows[u].record.uuid]_vars
  BY NameStep
<1>2. QED  BY <1>1, InvHolds, PTL DEF Spec, NameKept
=============================================================================
