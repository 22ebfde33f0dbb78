---------------------------- MODULE DeviceLogin ----------------------------
(***************************************************************************)
(* Device-flow sign-in (src/login.rs and its callers in                    *)
(* src/services/auth.rs): a tool begins a sign-in and watches its device   *)
(* code, a signed-in browser decides it by its user code, and the tool's   *)
(* next poll takes the token.  The records are in memory behind two        *)
(* mutexes, taken one after the other, so each locked section is an action;*)
(* the token's session row is in the database and is minted before the     *)
(* decision.                                                               *)
(***************************************************************************)
EXTENDS Naturals, FiniteSets

CONSTANTS
    Worker,      \* requests in progress: begins and decisions
    Client,      \* open WatchLogin streams
    Code,        \* sign-ins: a device code and the user code drawn with it
    Token,       \* tokens that can be minted
    User,
    MaxPending,  \* MAX_PENDING
    Nil

Status == {"pending", "approved", "denied", "expired"}

\* A sign-in holds a token exactly while it is approved.
Login == [state : {"pending", "denied"}, token : {Nil}, expired : BOOLEAN]
            \cup [state : {"approved"}, token : Token, expired : BOOLEAN]

ASSUME LoginAssumption ==
    /\ IsFiniteSet(Code) /\ IsFiniteSet(Worker) /\ Worker # {}
    /\ MaxPending \in Nat
    /\ Nil \notin Code \cup Token \cup User \cup Status \cup Login
    /\ "denied" \notin Token /\ User \cap {"unused", "revoked"} = {}

VARIABLES
    byDevice,    \* by_device: the sign-in a device code opens
    byUser,      \* by_user: the user codes listed
    rows,        \* session rows: whose token it is; "unused", "revoked"
    job,         \* what each request is doing
    watch,       \* what each stream watches and last reported
    drawn,       \* codes drawn so far: they are random, and none comes twice
    decided,     \* history: how each sign-in was decided, by which token
    mishap       \* history: tokens whose request died, or whose delete failed

vars == <<byDevice, byUser, rows, job, watch, drawn, decided, mishap>>

NewLogin == [state |-> "pending", token |-> Nil, expired |-> FALSE]

Job == [pc : {"idle", "check", "user", "device", "lookup", "grant", "revoke", "deny"},
        code : Code \cup {Nil}, token : Token \cup {Nil}]

Idle == [pc |-> "idle", code |-> Nil, token |-> Nil]

Stream == [code : Code \cup {Nil}, last : Status \cup {Nil}, token : Token \cup {Nil}]

Closed == [code |-> Nil, last |-> Nil, token |-> Nil]

TypeOK ==
    /\ byDevice \in [Code -> Login \cup {Nil}]
    /\ byUser \subseteq Code
    /\ rows \in [Token -> User \cup {"unused", "revoked"}]
    /\ job \in [Worker -> Job]
    /\ watch \in [Client -> Stream]
    /\ drawn \subseteq Code
    /\ decided \in [Code -> Token \cup {Nil, "denied"}]
    /\ mishap \subseteq Token

Init ==
    /\ byDevice = [d \in Code |-> Nil]
    /\ byUser = {}
    /\ rows = [t \in Token |-> "unused"]
    /\ job = [w \in Worker |-> Idle]
    /\ watch = [c \in Client |-> Closed]
    /\ drawn = {}
    /\ decided = [d \in Code |-> Nil]
    /\ mishap = {}

At(w, pc) == job[w].pc = pc

Goto(w, pc) == job' = [job EXCEPT ![w].pc = pc]

Return(w) == job' = [job EXCEPT ![w] = Idle]

InFlight == {d \in Code : byDevice[d] # Nil}

\* Confirmed pending and live.
Decidable(d) == byDevice[d] # Nil /\ ~byDevice[d].expired /\ byDevice[d].state = "pending"

-----------------------------------------------------------------------------
(* begin *)

Sweep(w) ==
    /\ At(w, "idle")
    /\ LET expired == {d \in InFlight : byDevice[d].expired}
       IN  /\ byDevice' = [d \in Code |-> IF d \in expired THEN Nil ELSE byDevice[d]]
           /\ byUser' = byUser \ expired
    /\ Goto(w, "check")
    /\ UNCHANGED <<rows, watch, drawn, decided, mishap>>

\* Slip: one sign-in past the bound.
RoomForOneMore == Cardinality(InFlight) <= MaxPending

Room == Cardinality(InFlight) < MaxPending

\* The count is taken under the lock; the insert comes after it.
Check(w) ==
    /\ At(w, "check")
    /\ IF Room
         THEN \E d \in Code \ drawn : /\ job' = [job EXCEPT ![w] = [@ EXCEPT !.pc = "user", !.code = d]]
                                      /\ drawn' = drawn \cup {d}
         ELSE Return(w) /\ UNCHANGED drawn
    /\ UNCHANGED <<byDevice, byUser, rows, watch, decided, mishap>>

ListUser(w) ==
    /\ At(w, "user")
    /\ byUser' = byUser \cup {job[w].code}
    /\ Goto(w, "device")
    /\ UNCHANGED <<byDevice, rows, watch, drawn, decided, mishap>>

ListDevice(w) ==
    /\ At(w, "device")
    /\ byDevice' = [byDevice EXCEPT ![job[w].code] = NewLogin]
    /\ Return(w)
    /\ UNCHANGED <<byUser, rows, watch, drawn, decided, mishap>>

-----------------------------------------------------------------------------
(* decide_login: mint, approve, revoke when the code was not pending; deny *)

\* The row is written before anything is known of the code.
Mint(w, u, d) ==
    /\ At(w, "idle")
    /\ \E t \in Token :
          /\ rows[t] = "unused"
          /\ rows' = [rows EXCEPT ![t] = u]
          /\ job' = [job EXCEPT ![w] = [pc |-> "lookup", code |-> d, token |-> t]]
    /\ UNCHANGED <<byDevice, byUser, watch, drawn, decided, mishap>>

Lookup(w) ==
    /\ At(w, "lookup")
    /\ Goto(w, IF job[w].code \in byUser THEN "grant" ELSE "revoke")
    /\ UNCHANGED <<byDevice, byUser, rows, watch, drawn, decided, mishap>>

\* Slip: NotPending answered without revoking.
GrantOrLeave(w) ==
    /\ At(w, "grant")
    /\ LET d == job[w].code
       IN  IF Decidable(d)
             THEN /\ byDevice' = [byDevice EXCEPT ![d] = [@ EXCEPT !.state = "approved",
                                                                   !.token = job[w].token]]
                  /\ decided' = [decided EXCEPT ![d] = job[w].token]
             ELSE UNCHANGED <<byDevice, decided>>
    /\ Return(w)
    /\ UNCHANGED <<byUser, rows, watch, drawn, mishap>>

\* Slip: the revoke run after an approval too.
GrantThenRevoke(w) ==
    /\ At(w, "grant")
    /\ LET d == job[w].code
       IN  IF Decidable(d)
             THEN /\ byDevice' = [byDevice EXCEPT ![d] = [@ EXCEPT !.state = "approved",
                                                                   !.token = job[w].token]]
                  /\ decided' = [decided EXCEPT ![d] = job[w].token]
             ELSE UNCHANGED <<byDevice, decided>>
    /\ Goto(w, "revoke")
    /\ UNCHANGED <<byUser, rows, watch, drawn, mishap>>

Grant(w) ==
    /\ At(w, "grant")
    /\ LET d == job[w].code
       IN  IF Decidable(d)
             THEN /\ byDevice' = [byDevice EXCEPT ![d] = [@ EXCEPT !.state = "approved",
                                                                   !.token = job[w].token]]
                  /\ decided' = [decided EXCEPT ![d] = job[w].token]
                  /\ Return(w)
             ELSE Goto(w, "revoke") /\ UNCHANGED <<byDevice, decided>>
    /\ UNCHANGED <<byUser, rows, watch, drawn, mishap>>

\* The delete may fail, and its result is dropped.
Revoke(w) ==
    /\ At(w, "revoke")
    /\ \/ rows' = [rows EXCEPT ![job[w].token] = "revoked"] /\ UNCHANGED mishap
       \/ mishap' = mishap \cup {job[w].token} /\ UNCHANGED rows
    /\ Return(w)
    /\ UNCHANGED <<byDevice, byUser, watch, drawn, decided>>

Deny(w, d) ==
    /\ At(w, "idle")
    /\ d \in byUser
    /\ job' = [job EXCEPT ![w] = [@ EXCEPT !.pc = "deny", !.code = d]]
    /\ UNCHANGED <<byDevice, byUser, rows, watch, drawn, decided, mishap>>

\* Slip: set_state not asking whether it was pending.
SetDeniedAlways(w) ==
    /\ At(w, "deny")
    /\ LET d == job[w].code
       IN  IF byDevice[d] # Nil
             THEN /\ byDevice' = [byDevice EXCEPT ![d].state = "denied"]
                  /\ decided' = [decided EXCEPT ![d] = "denied"]
             ELSE UNCHANGED <<byDevice, decided>>
    /\ Return(w)
    /\ UNCHANGED <<byUser, rows, watch, drawn, mishap>>

SetDenied(w) ==
    /\ At(w, "deny")
    /\ LET d == job[w].code
       IN  IF Decidable(d)
             THEN /\ byDevice' = [byDevice EXCEPT ![d].state = "denied"]
                  /\ decided' = [decided EXCEPT ![d] = "denied"]
             ELSE UNCHANGED <<byDevice, decided>>
    /\ Return(w)
    /\ UNCHANGED <<byUser, rows, watch, drawn, mishap>>

-----------------------------------------------------------------------------
(* watch_login: poll now, then on a decision or a tick *)

Polled(d) ==
    IF byDevice[d] = Nil \/ byDevice[d].expired THEN "expired" ELSE byDevice[d].state

\* Slip: an approved record left for the next poll.
ConsumedExpired(d) == byDevice[d] # Nil /\ Polled(d) = "expired"

\* poll removes a record it finds expired, and one whose token it hands out.
Consumed(d) == byDevice[d] # Nil /\ Polled(d) \in {"expired", "approved"}

\* Slip: a stream that ends only on a decision.
TerminalDecision(status) == status \in {"approved", "denied"}

Terminal(status) == status # "pending"

Watching(c) == watch[c].code # Nil /\ (watch[c].last = Nil \/ ~Terminal(watch[c].last))

\* A tool watches the code its begin returned.
Open(c, d) ==
    /\ watch[c] = Closed
    /\ d \in drawn
    /\ \A w \in Worker : job[w].code = d => job[w].pc \notin {"user", "device"}
    /\ watch' = [watch EXCEPT ![c].code = d]
    /\ UNCHANGED <<byDevice, byUser, rows, job, drawn, decided, mishap>>

\* Slip: by_user left alone when the record goes.
WatchOnly(c) ==
    /\ Watching(c)
    /\ LET d == watch[c].code
       IN  /\ watch' = [watch EXCEPT ![c] =
                  [@ EXCEPT !.last = Polled(d),
                            !.token = IF Polled(d) = "approved" THEN byDevice[d].token ELSE Nil]]
           /\ byDevice' = IF Consumed(d) THEN [byDevice EXCEPT ![d] = Nil] ELSE byDevice
    /\ UNCHANGED <<byUser, rows, job, drawn, decided, mishap>>

Watch(c) ==
    /\ Watching(c)
    /\ LET d == watch[c].code
       IN  /\ watch' = [watch EXCEPT ![c] =
                  [@ EXCEPT !.last = Polled(d),
                            !.token = IF Polled(d) = "approved" THEN byDevice[d].token ELSE Nil]]
           /\ byDevice' = IF Consumed(d) THEN [byDevice EXCEPT ![d] = Nil] ELSE byDevice
           /\ byUser' = IF Consumed(d) THEN byUser \ {d} ELSE byUser
    /\ UNCHANGED <<rows, job, drawn, decided, mishap>>

\* Ten minutes pass for a sign-in.
Expire(d) ==
    /\ byDevice[d] # Nil
    /\ ~byDevice[d].expired
    /\ byDevice' = [byDevice EXCEPT ![d].expired = TRUE]
    /\ UNCHANGED <<byUser, rows, job, watch, drawn, decided, mishap>>

\* The process dies: the records, the requests and the streams go with it.
Crash ==
    /\ byDevice' = [d \in Code |-> Nil]
    /\ byUser' = {}
    /\ job' = [w \in Worker |-> Idle]
    /\ watch' = [c \in Client |-> IF Watching(c) THEN Closed ELSE watch[c]]
    /\ mishap' = mishap \cup ({job[w].token : w \in Worker} \ {Nil})
    /\ UNCHANGED <<rows, drawn, decided>>

Next ==
    \/ \E w \in Worker :
          \/ Sweep(w) \/ Check(w) \/ ListUser(w) \/ ListDevice(w)
          \/ \E u \in User, d \in Code : Mint(w, u, d)
          \/ Lookup(w) \/ Grant(w) \/ Revoke(w)
          \/ \E d \in Code : Deny(w, d)
          \/ SetDenied(w)
    \/ \E c \in Client : Watch(c) \/ \E d \in Code : Open(c, d)
    \/ \E d \in Code : Expire(d)
    \/ Crash

\* A stream polls every two seconds, and time passes.
Fairness ==
    /\ \A c \in Client : WF_vars(Watch(c))
    /\ \A d \in Code : WF_vars(Expire(d))

Spec == Init /\ [][Next]_vars /\ Fairness

-----------------------------------------------------------------------------
(* Properties *)

\* The two maps agree, but for a begin between its two inserts: no user code
\* leads nowhere, and no sign-in has lost the code that decides it.  (Checked
\* with the types.)
MapsAgree ==
    /\ TypeOK
    /\ InFlight \subseteq byUser
    /\ \A d \in byUser \ InFlight : \E w \in Worker : At(w, "device") /\ job[w].code = d

\* A sign-in is decided once: two browsers cannot both approve it, and an
\* approval is never turned into a denial, or back, or into another token.
OneDecision == [][\A d \in Code : decided[d] # Nil => decided'[d] = decided[d]]_vars

\* "An approved request yields its token exactly once": two streams that watch
\* one code never both get it.
DeliveredOnce == \A c, e \in Client : watch[c].token # Nil /\ watch[c].token = watch[e].token => c = e

\* A token that waits for its tool, or that a tool was given, is the one its
\* sign-in was approved with, and opens a session: no later or losing decision
\* has revoked it.
HandedOutIsGood ==
    /\ \A d \in InFlight : byDevice[d].state = "approved" =>
            byDevice[d].token = decided[d] /\ rows[byDevice[d].token] \in User
    /\ \A c \in Client : watch[c].token # Nil =>
            watch[c].token = decided[watch[c].code] /\ rows[watch[c].token] \in User

\* "No orphan session row is left": a session nobody was ever offered belongs
\* to a decision still in progress, or to one a crash or a failed delete cut
\* short.
NoOrphan ==
    \A t \in Token : rows[t] \in User =>
        \/ \E w \in Worker : job[w].token = t
        \/ \E d \in Code : decided[d] = t
        \/ t \in mishap

\* The memory unauthenticated begins can pin is bounded: every begin between
\* its check and its insert may add one to MAX_PENDING.
PendingBounded == Cardinality(InFlight) <= MaxPending + Cardinality(Worker) - 1

\* Every stream ends, decision or not.
WatchEnds == \A c \in Client : Watching(c) ~> ~Watching(c)
=============================================================================
