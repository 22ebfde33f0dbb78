------------------------------ MODULE Accounts ------------------------------
(***************************************************************************)
(* Passkey ceremonies and accounts (src/passkey.rs, src/db/users.rs).      *)
(* Ceremonies in flight are in memory behind a mutex; an account is one    *)
(* row, the blob of its passkeys and email beside columns rewritten with   *)
(* it.  A database statement is atomic, the requests made of several are   *)
(* not: what one read may be stale when it writes it back.                 *)
(***************************************************************************)
EXTENDS Naturals, FiniteSets

CONSTANTS
    Worker,      \* requests in progress
    User,        \* usernames
    Uuid,        \* account ids drawn at registration
    Cred,        \* passkeys authenticators make
    Email,       \* emails as typed
    Key,         \* normalize_email: the form uniqueness compares
    Flow,        \* flow ids
    MaxPending,  \* MAX_PENDING
    Nil

StoredUser == [uuid : Uuid, email : Email \cup {Nil}, credentials : SUBSET Cred]

ColumnOf(email) == IF email = Nil THEN Nil ELSE Key[email]

UserRow == [email : {ColumnOf(e) : e \in Email \cup {Nil}}, record : StoredUser]

ASSUME AccountsAssumption ==
    /\ IsFiniteSet(Flow) /\ IsFiniteSet(Cred)
    /\ MaxPending \in Nat
    /\ Nil \notin Email /\ Nil \notin User /\ Nil \notin Cred /\ Nil \notin Uuid
    /\ Nil \notin UserRow
    /\ DOMAIN Key = Email /\ \A e \in Email : Key[e] # Nil

VARIABLES
    rows,     \* the users table: a column, and the blob it is rewritten with
    pending,  \* ceremonies in flight
    job,      \* what each request is doing
    used,     \* account ids drawn so far
    holder,   \* history: whose authenticator made each passkey
    removed,  \* history: passkeys whose removal was acknowledged
    undone    \* history: accounts a write has put back to what they were

vars == <<rows, pending, job, used, holder, removed, undone>>

Ceremony == [kind : {"signin"}, user : {Nil}, uuid : {Nil}, expired : BOOLEAN]
                \cup [kind : {"register"}, user : User, uuid : Uuid, expired : BOOLEAN]
                \cup [kind : {"add"}, user : User, uuid : {Nil}, expired : BOOLEAN]

Job == [pc : {"idle", "check", "lookup", "insert", "name", "email", "create",
              "read", "upsert", "taken", "update"},
        kind : {"signin", "register", "add", "remove", "email", Nil},
        user : User \cup {Nil}, uuid : Uuid \cup {Nil}, cred : Cred \cup {Nil},
        email : Email \cup {Nil}, got : StoredUser \cup {Nil}]

Idle == [pc |-> "idle", kind |-> Nil, user |-> Nil, uuid |-> Nil, cred |-> Nil,
         email |-> Nil, got |-> Nil]

TypeOK ==
    /\ rows \in [User -> UserRow \cup {Nil}]
    /\ pending \in [Flow -> Ceremony \cup {Nil}]
    /\ job \in [Worker -> Job]
    /\ used \subseteq Uuid
    /\ holder \in [Cred -> User \cup {Nil}]
    /\ removed \subseteq Cred /\ undone \subseteq User

Init ==
    /\ rows = [u \in User |-> Nil]
    /\ pending = [f \in Flow |-> Nil]
    /\ job = [w \in Worker |-> Idle]
    /\ used = {}
    /\ holder = [k \in Cred |-> Nil]
    /\ removed = {} /\ undone = {}

At(w, pc) == job[w].pc = pc

Goto(w, pc) == job' = [job EXCEPT ![w].pc = pc]

Return(w) == job' = [job EXCEPT ![w] = Idle]

InFlight == {f \in Flow : pending[f] # Nil}

Accounts == {u \in User : rows[u] # Nil}

\* Another account's row holds this email: the constraint on the column.
Linked(u, email) == email # Nil /\ \E v \in Accounts \ {u} : rows[v].email = Key[email]

-----------------------------------------------------------------------------
(* begin, begin_add *)

\* The caller of begin_add is signed in; the name of a registration is free text.
Sweep(w, kind, u) ==
    /\ At(w, "idle")
    /\ kind = "signin" <=> u = Nil
    /\ pending' = [f \in Flow |-> IF f \in InFlight /\ pending[f].expired THEN Nil ELSE pending[f]]
    /\ job' = [job EXCEPT ![w] = [Idle EXCEPT !.pc = "check", !.kind = kind, !.user = u]]
    /\ UNCHANGED <<rows, used, holder, removed, undone>>

Room == Cardinality(InFlight) < MaxPending

Check(w) ==
    /\ At(w, "check")
    /\ IF Room THEN Goto(w, "lookup") ELSE Return(w)
    /\ UNCHANGED <<rows, pending, used, holder, removed, undone>>

\* A registration needs a free name and draws an id; adding needs an account.
Lookup(w) ==
    /\ At(w, "lookup")
    /\ \/ /\ job[w].kind = "signin"
          /\ Goto(w, "insert") /\ UNCHANGED used
       \/ /\ job[w].kind = "register" /\ job[w].user \notin Accounts
          /\ \E i \in Uuid \ used :
                /\ used' = used \cup {i}
                /\ job' = [job EXCEPT ![w] = [@ EXCEPT !.pc = "insert", !.uuid = i]]
       \/ /\ job[w].kind = "add" /\ job[w].user \in Accounts
          /\ Goto(w, "insert") /\ UNCHANGED used
       \/ /\ job[w].kind = "register" => job[w].user \in Accounts
          /\ job[w].kind = "add" => job[w].user \notin Accounts
          /\ job[w].kind # "signin"
          /\ Return(w) /\ UNCHANGED used
    /\ UNCHANGED <<rows, pending, holder, removed, undone>>

InsertPending(w) ==
    /\ At(w, "insert")
    /\ \E f \in Flow \ InFlight :
          pending' = [pending EXCEPT ![f] = [kind |-> job[w].kind, user |-> job[w].user,
                                             uuid |-> job[w].uuid, expired |-> FALSE]]
    /\ Return(w)
    /\ UNCHANGED <<rows, used, holder, removed, undone>>

-----------------------------------------------------------------------------
(* finish: a registration, checked and created *)

\* A finish that takes the flow and writes no account: a sign-in, a bad
\* response, an adding flow given to finish, or one begun by someone else.
Finish(f) ==
    /\ f \in InFlight
    /\ pending' = [pending EXCEPT ![f] = Nil]
    /\ UNCHANGED <<rows, job, used, holder, removed, undone>>

\* The authenticator makes a new passkey for the account.
Register(w, f, e) ==
    /\ At(w, "idle")
    /\ f \in InFlight /\ pending[f].kind = "register"
    /\ \E k \in Cred :
          /\ holder[k] = Nil
          /\ holder' = [holder EXCEPT ![k] = pending[f].user]
          /\ job' = [job EXCEPT ![w] = [Idle EXCEPT !.pc = "name", !.kind = "register",
                        !.user = pending[f].user, !.uuid = pending[f].uuid, !.cred = k, !.email = e]]
    /\ pending' = [pending EXCEPT ![f] = Nil]
    /\ UNCHANGED <<rows, used, removed, undone>>

NameTaken(w) ==
    /\ At(w, "name")
    /\ IF job[w].user \in Accounts THEN Return(w) ELSE Goto(w, "email")
    /\ UNCHANGED <<rows, pending, used, holder, removed, undone>>

EmailTaken(w) ==
    /\ At(w, "email")
    /\ IF Linked(job[w].user, job[w].email) THEN Return(w) ELSE Goto(w, "create")
    /\ UNCHANGED <<rows, pending, used, holder, removed, undone>>

Row(user) == [email |-> ColumnOf(user.email), record |-> user]

\* Slip: the upsert of finish_add used for a registration.
CreateOver(w) ==
    /\ At(w, "create")
    /\ LET j == job[w]
       IN  IF Linked(j.user, j.email)
             THEN UNCHANGED rows
             ELSE rows' = [rows EXCEPT ![j.user] =
                    Row([uuid |-> j.uuid, email |-> j.email, credentials |-> {j.cred}])]
    /\ Return(w)
    /\ UNCHANGED <<pending, used, holder, removed, undone>>

\* The primary key and the unique column refuse a lost race.
Create(w) ==
    /\ At(w, "create")
    /\ LET j == job[w]
       IN  IF j.user \in Accounts \/ Linked(j.user, j.email)
             THEN UNCHANGED rows
             ELSE rows' = [rows EXCEPT ![j.user] =
                    Row([uuid |-> j.uuid, email |-> j.email, credentials |-> {j.cred}])]
    /\ Return(w)
    /\ UNCHANGED <<pending, used, holder, removed, undone>>

-----------------------------------------------------------------------------
(* finish_add, remove: read the account, change it, write it back whole *)

FinishAdd(w, f, caller) ==
    /\ At(w, "idle")
    /\ f \in InFlight /\ pending[f].kind = "add" /\ pending[f].user = caller
    /\ \E k \in Cred :
          /\ holder[k] = Nil
          /\ holder' = [holder EXCEPT ![k] = caller]
          /\ job' = [job EXCEPT ![w] = [Idle EXCEPT !.pc = "read", !.kind = "add",
                                            !.user = caller, !.cred = k]]
    /\ pending' = [pending EXCEPT ![f] = Nil]
    /\ UNCHANGED <<rows, used, removed, undone>>

ReadToAdd(w) ==
    /\ At(w, "read")
    /\ LET u == job[w].user
       IN  IF u \in Accounts
             THEN job' = [job EXCEPT ![w] = [@ EXCEPT !.pc = "upsert",
                    !.got = [rows[u].record EXCEPT !.credentials = @ \cup {job[w].cred}]]]
             ELSE Return(w)
    /\ UNCHANGED <<rows, pending, used, holder, removed, undone>>

\* Slip: the last passkey not refused.
RemovableToo(user, k) == k \in user.credentials

Removable(user, k) == k \in user.credentials /\ Cardinality(user.credentials) > 1

Remove(w, u, k) ==
    /\ At(w, "idle")
    /\ u \in Accounts
    /\ Removable(rows[u].record, k)
    /\ job' = [job EXCEPT ![w] = [Idle EXCEPT !.pc = "upsert", !.kind = "remove",
                  !.user = u, !.cred = k, !.got = [rows[u].record EXCEPT !.credentials = @ \ {k}]]]
    /\ UNCHANGED <<rows, pending, used, holder, removed, undone>>

\* What the request had read.
Base(j) ==
    CASE j.kind = "add" -> [j.got EXCEPT !.credentials = @ \ {j.cred}]
      [] j.kind = "remove" -> [j.got EXCEPT !.credentials = @ \cup {j.cred}]
      [] OTHER -> j.got

Undoes(j) == undone' = IF rows[j.user].record = Base(j) THEN undone ELSE undone \cup {j.user}

\* Slip: an email column without its constraint.
UpsertUnconstrained(w) ==
    /\ At(w, "upsert")
    /\ LET j == job[w]
       IN  /\ rows' = [rows EXCEPT ![j.user] = Row(j.got)]
           /\ removed' = IF j.kind = "remove" THEN removed \cup {j.cred} ELSE removed
           /\ Undoes(j)
    /\ Return(w)
    /\ UNCHANGED <<pending, used, holder>>

\* The blob read earlier goes back with the email it had then, which another
\* account may have linked since.
Upsert(w) ==
    /\ At(w, "upsert")
    /\ LET j == job[w]
       IN  IF Linked(j.user, j.got.email)
             THEN UNCHANGED <<rows, removed, undone>>
             ELSE /\ rows' = [rows EXCEPT ![j.user] = Row(j.got)]
                  /\ removed' = IF j.kind = "remove" THEN removed \cup {j.cred} ELSE removed
                  /\ Undoes(j)
    /\ Return(w)
    /\ UNCHANGED <<pending, used, holder>>

-----------------------------------------------------------------------------
(* set_email *)

SetEmail(w, u, e) ==
    /\ At(w, "idle")
    /\ u \in Accounts
    /\ job' = [job EXCEPT ![w] = [Idle EXCEPT !.pc = IF e = Nil THEN "update" ELSE "taken",
                  !.kind = "email", !.user = u, !.email = e, !.got = rows[u].record]]
    /\ UNCHANGED <<rows, pending, used, holder, removed, undone>>

Taken(w) ==
    /\ At(w, "taken")
    /\ IF Linked(job[w].user, job[w].email) THEN Return(w) ELSE Goto(w, "update")
    /\ UNCHANGED <<rows, pending, used, holder, removed, undone>>

Update(w) ==
    /\ At(w, "update")
    /\ LET j == job[w]
       IN  IF Linked(j.user, j.email)
             THEN UNCHANGED <<rows, undone>>
             ELSE /\ rows' = [rows EXCEPT ![j.user] = Row([j.got EXCEPT !.email = j.email])]
                  /\ Undoes(j)
    /\ Return(w)
    /\ UNCHANGED <<pending, used, holder, removed>>

-----------------------------------------------------------------------------

\* Five minutes pass for a ceremony.
Expire(f) ==
    /\ f \in InFlight /\ ~pending[f].expired
    /\ pending' = [pending EXCEPT ![f].expired = TRUE]
    /\ UNCHANGED <<rows, job, used, holder, removed, undone>>

\* The process dies: ceremonies and requests go, the table stays.
Crash ==
    /\ pending' = [f \in Flow |-> Nil]
    /\ job' = [w \in Worker |-> Idle]
    /\ UNCHANGED <<rows, used, holder, removed, undone>>

Next ==
    \/ \E w \in Worker :
          \/ \E kind \in {"signin", "register", "add"}, u \in User \cup {Nil} : Sweep(w, kind, u)
          \/ Check(w) \/ Lookup(w) \/ InsertPending(w)
          \/ \E f \in Flow, e \in Email \cup {Nil} : Register(w, f, e)
          \/ NameTaken(w) \/ EmailTaken(w) \/ Create(w)
          \/ \E f \in Flow, u \in User : FinishAdd(w, f, u)
          \/ ReadToAdd(w)
          \/ \E u \in User, k \in Cred : Remove(w, u, k)
          \/ Upsert(w)
          \/ \E u \in User, e \in Email \cup {Nil} : SetEmail(w, u, e)
          \/ Taken(w) \/ Update(w)
    \/ \E f \in Flow : Finish(f) \/ Expire(f)
    \/ Crash

Spec == Init /\ [][Next]_vars

-----------------------------------------------------------------------------
(* Properties *)

\* An email leads to one account: whatever stale blob is written back, no two
\* accounts' blobs hold the same email, however it was typed, and the columns
\* "are rewritten with it on every write".  (Checked with the types.)
EmailOfOne ==
    /\ TypeOK
    /\ \A u \in Accounts : rows[u].email = ColumnOf(rows[u].record.email)
    /\ \A u, v \in Accounts : u # v /\ rows[u].record.email # Nil =>
           ColumnOf(rows[u].record.email) # ColumnOf(rows[v].record.email)

\* A name, once registered, stays with the account that has it: of two
\* registrations finished at once one wins, and no later write replaces it.
NameKept ==
    [][\A u \in User : rows[u] # Nil =>
            rows'[u] # Nil /\ rows'[u].record.uuid = rows[u].record.uuid]_vars

\* "Refused if it's the account's last one (would lock the user out)": whatever
\* removals run at once, an account holds a passkey its own user made, and one
\* the user has not removed; unless a stale account was written back, which
\* remove, finish_add and set_email can do to each other.
CanSignIn ==
    \A u \in Accounts :
        LET own == {k \in rows[u].record.credentials : holder[k] = u}
        IN  own # {} /\ (own \subseteq removed => u \in undone)
=============================================================================
