------------------------------ MODULE Sessions ------------------------------
(***************************************************************************)
(* Bearer sessions (src/db/sessions.rs, src/auth.rs) and the handlers of   *)
(* src/services/auth.rs that make, list and revoke them.  A session is a   *)
(* row of the database keyed by its token's digest: the row is the whole   *)
(* of its validity.  A statement is an action, and so is the bump of the   *)
(* sessions' generation counter that follows a change and wakes the        *)
(* WatchSessions streams.                                                  *)
(***************************************************************************)
EXTENDS Naturals, FiniteSets

CONSTANTS
    Worker,      \* requests, detached touches and the sweep, in progress
    Client,      \* open WatchSessions streams
    Token,       \* tokens that can be drawn: random, and none comes twice
    User,
    MaxTokens,   \* MAX_API_TOKENS_PER_USER
    MaxTouches,  \* bound: times a session is refreshed
    Nil

Op == {"create", "approve", "logout", "revoke", "others", "touch", "sweep"}

ASSUME SessionsAssumption ==
    /\ IsFiniteSet(Token) /\ IsFiniteSet(Worker)
    /\ MaxTokens \in Nat \ {0} /\ MaxTouches \in Nat
    /\ Nil \notin Token \cup User \cup Op

VARIABLES
    rows,        \* the sessions table: each token's row, if it has one
    job,         \* what each request is doing
    stream,      \* what each stream watches and last sent
    unsaid       \* history: a change whose bump was lost, and none since

vars == <<rows, job, stream, unsaid>>

\* Tokens made by create_api_token and by a device sign-in are of one kind to
\* the code, KIND_API.
Kind == {"web", "created", "approved"}

Row == [state : {"live"}, user : User, kind : Kind, last : 0..MaxTouches]
           \cup [state : {"expired"}, user : User, kind : {Nil}, last : {0}]

NewRow(u, kind) == [state |-> "live", user |-> u, kind |-> kind, last |-> 0]

\* Of an expired row only the owner matters: no listing has it.
ExpiredRow(u) == [state |-> "expired", user |-> u, kind |-> Nil, last |-> 0]

\* No row: the token was never drawn, or its row is gone.
None(state) == [state |-> state, user |-> Nil, kind |-> Nil, last |-> 0]

Statements == {"count", "mint", "find", "undo", "delete", "read", "others",
               "update", "sweep"}

Job == [pc : Statements \cup {"idle", "bump"},
        op : Op \cup {Nil},
        user : User \cup {Nil},
        token : Token \cup {Nil},    \* the session to keep, or to touch
        target : Token \cup {Nil},   \* the one to revoke
        todo : SUBSET Token,         \* the rows a loop still has to delete
        known : SUBSET Token,        \* history: tokens drawn when it read them
        now : 0..MaxTouches]

Idle == [pc |-> "idle", op |-> Nil, user |-> Nil, token |-> Nil, target |-> Nil,
         todo |-> {}, known |-> {}, now |-> 0]

Stream == [pc : {"off", "build", "wait"},
           user : User \cup {Nil},
           dirty : BOOLEAN,          \* bumped since the stream last looked
           shown : SUBSET (Token \X (0..MaxTouches))]   \* while nothing wakes it

Closed == [pc |-> "off", user |-> Nil, dirty |-> FALSE, shown |-> {}]

Undrawn == {t \in Token : rows[t].state = "undrawn"}

\* A row that a read takes for a session.
Live(t) == rows[t].state = "live"

Expired == {t \in Token : rows[t].state = "expired"}

Present(t) == Live(t) \/ t \in Expired

RowsOf(u) == {t \in Token : Present(t) /\ rows[t].user = u}

LiveOf(u) == {t \in Token : Live(t) /\ rows[t].user = u}

\* What a listing of u's sessions shows of them.
Listing(u) == {<<t, rows[t].last>> : t \in LiveOf(u)}

TypeOK ==
    /\ rows \in [Token -> Row \cup {None("undrawn"), None("gone")}]
    /\ job \in [Worker -> Job]
    /\ stream \in [Client -> Stream]
    /\ unsaid \in BOOLEAN

Init ==
    /\ rows = [t \in Token |-> None("undrawn")]
    /\ job = [w \in Worker |-> Idle]
    /\ stream = [c \in Client |-> Closed]
    /\ unsaid = FALSE

At(w, pc) == job[w].pc = pc

Goto(w, pc) == job' = [job EXCEPT ![w].pc = pc]

Return(w) == job' = [job EXCEPT ![w] = Idle]

\* The change is made, and only its bump is left to do.
Done(w) == job' = [job EXCEPT ![w] = [Idle EXCEPT !.pc = "bump"]]

Begin(w, start) ==
    /\ job[w] = Idle
    /\ job' = [job EXCEPT ![w] = start]
    /\ UNCHANGED <<rows, stream, unsaid>>

\* A handler that first resolves its caller, by a token of theirs.
BeginAs(w, u, start) == LiveOf(u) # {} /\ Begin(w, [start EXCEPT !.user = u])

-----------------------------------------------------------------------------
(* Minting *)

Approve(w, u) == BeginAs(w, u, [Idle EXCEPT !.pc = "mint", !.op = "approve"])

Create(w, u) == BeginAs(w, u, [Idle EXCEPT !.pc = "count", !.op = "create"])

\* What the cap counts.
LiveApi(u) == {t \in LiveOf(u) : rows[t].kind # "web"}

\* Slip: one too many.
UnderCapOrAt(u) == Cardinality(LiveApi(u)) <= MaxTokens

UnderCap(u) == Cardinality(LiveApi(u)) < MaxTokens

Count(w) ==
    /\ At(w, "count")
    /\ IF UnderCap(job[w].user) THEN Goto(w, "mint") ELSE Return(w)
    /\ UNCHANGED <<rows, stream, unsaid>>

Put(t, u, kind) == t \in Undrawn /\ rows' = [rows EXCEPT ![t] = NewRow(u, kind)]

\* finish_passkey, its ceremony done.
SignIn(w, u, t) ==
    /\ job[w] = Idle
    /\ Put(t, u, "web")
    /\ Done(w)
    /\ UNCHANGED <<stream, unsaid>>

MintCreated(w, t) ==
    /\ At(w, "mint") /\ job[w].op = "create"
    /\ Put(t, job[w].user, "created")
    /\ Done(w)
    /\ UNCHANGED <<stream, unsaid>>

MintApproved(w, t) ==
    /\ At(w, "mint") /\ job[w].op = "approve"
    /\ Put(t, job[w].user, "approved")
    /\ job' = [job EXCEPT ![w] = [@ EXCEPT !.pc = "bump", !.target = t]]
    /\ UNCHANGED <<stream, unsaid>>

-----------------------------------------------------------------------------
(* Revoking *)

\* A client may present a token long after its session is gone.
Logout(w, t) ==
    /\ t \notin Undrawn
    /\ job[w] = Idle
    /\ job' = [job EXCEPT ![w] = IF Present(t)
                                 THEN [Idle EXCEPT !.pc = "delete", !.op = "logout",
                                                   !.target = t]
                                 ELSE [Idle EXCEPT !.pc = "bump"]]
    /\ UNCHANGED <<rows, stream, unsaid>>

\* An approval that was beaten to the decision revokes the token it minted.
Undo(w) ==
    /\ At(w, "undo")
    /\ IF Present(job[w].target) THEN Goto(w, "delete") ELSE Done(w)
    /\ UNCHANGED <<rows, stream, unsaid>>

\* The id may be of a session that is gone, or not the caller's.
Revoke(w, u, s) ==
    /\ s \notin Undrawn
    /\ BeginAs(w, u, [Idle EXCEPT !.pc = "find", !.op = "revoke", !.target = s])

\* Slip: the id matched among everyone's rows.
FindAny(w) ==
    /\ At(w, "find")
    /\ IF Present(job[w].target) THEN Goto(w, "delete") ELSE Done(w)
    /\ UNCHANGED <<rows, stream, unsaid>>

Find(w) ==
    /\ At(w, "find")
    /\ IF job[w].target \in RowsOf(job[w].user) THEN Goto(w, "delete") ELSE Done(w)
    /\ UNCHANGED <<rows, stream, unsaid>>

\* A delete of no row succeeds.
Without(s) == [t \in Token |-> IF t \in s /\ Present(t) THEN None("gone") ELSE rows[t]]

\* Slip: no bump.
DeleteQuietly(w) ==
    /\ At(w, "delete")
    /\ rows' = Without({job[w].target})
    /\ Return(w)
    /\ UNCHANGED <<stream, unsaid>>

Delete(w) ==
    /\ At(w, "delete")
    /\ rows' = Without({job[w].target})
    /\ Done(w)
    /\ UNCHANGED <<stream, unsaid>>

Others(w, u, t) ==
    /\ t \in LiveOf(u)
    /\ BeginAs(w, u, [Idle EXCEPT !.pc = "read", !.op = "others", !.token = t])

LoopFrom(todo) == IF todo = {} THEN "bump" ELSE "others"

\* Slip: the API tokens left out.
ReadWeb(w) ==
    /\ At(w, "read")
    /\ LET todo == {t \in RowsOf(job[w].user) : rows[t].kind = "web"} \ {job[w].token}
       IN  job' = [job EXCEPT ![w] = [@ EXCEPT !.pc = LoopFrom(todo), !.todo = todo,
                                              !.known = Token \ Undrawn]]
    /\ UNCHANGED <<rows, stream, unsaid>>

\* The rows but the caller's own.
Read(w) ==
    /\ At(w, "read")
    /\ LET todo == RowsOf(job[w].user) \ {job[w].token}
       IN  job' = [job EXCEPT ![w] = [@ EXCEPT !.pc = LoopFrom(todo), !.todo = todo,
                                              !.known = Token \ Undrawn]]
    /\ UNCHANGED <<rows, stream, unsaid>>

DeleteOther(w) ==
    /\ At(w, "others")
    /\ \E t \in job[w].todo :
           /\ rows' = Without({t})
           /\ job' = [job EXCEPT ![w] = [@ EXCEPT !.pc = LoopFrom(job[w].todo \ {t}),
                                                 !.todo = job[w].todo \ {t}]]
    /\ UNCHANGED <<stream, unsaid>>

-----------------------------------------------------------------------------
(* Touch and sweep *)

\* The task a request's bearer token is handed to; it reads the row, and goes
\* no further if the row is gone or was refreshed within the hour.
Touch(w, t) ==
    /\ Present(t) /\ rows[t].last < MaxTouches
    /\ Begin(w, [Idle EXCEPT !.pc = "update", !.op = "touch", !.token = t,
                             !.now = rows[t].last + 1])

\* Slip: the row inserted again when a revocation has taken it.
Upsert(w) ==
    /\ At(w, "update")
    /\ \E u \in User :
           rows' = [rows EXCEPT ![job[w].token] =
                        [NewRow(IF Present(job[w].token) THEN @.user ELSE u, "web")
                             EXCEPT !.last = job[w].now]]
    /\ Done(w)
    /\ UNCHANGED <<stream, unsaid>>

\* A keyed update: it changes a row that is still there.
Update(w) ==
    /\ At(w, "update")
    /\ rows' = IF Live(job[w].token)
               THEN [rows EXCEPT ![job[w].token].last = job[w].now] ELSE rows
    /\ Done(w)
    /\ UNCHANGED <<stream, unsaid>>

\* One task sweeps, hourly, and does nothing when nothing is dead.
Sweep(w) ==
    /\ \A v \in Worker : ~At(v, "sweep")
    /\ Expired # {}
    /\ Begin(w, [Idle EXCEPT !.pc = "sweep", !.op = "sweep", !.todo = Expired])

SweepDelete(w) ==
    /\ At(w, "sweep")
    /\ rows' = Without(job[w].todo)
    /\ Done(w)
    /\ UNCHANGED <<stream, unsaid>>

-----------------------------------------------------------------------------
(* The generation counter, the streams, and what goes wrong *)

Announce ==
    /\ stream' = [c \in Client |-> IF stream[c].pc = "off" THEN stream[c]
                                   ELSE [stream[c] EXCEPT !.dirty = TRUE, !.shown = {}]]
    /\ unsaid' = FALSE

Bump(w) ==
    /\ At(w, "bump")
    /\ Announce
    /\ \/ Return(w)
       \/ /\ job[w].op = "approve"
          /\ job' = [job EXCEPT ![w] = [@ EXCEPT !.pc = "undo", !.op = "logout", !.user = Nil]]
    /\ UNCHANGED rows

\* The stream subscribes before its first read.
Watch(c, u) ==
    /\ stream[c].pc = "off"
    /\ LiveOf(u) # {}
    /\ stream' = [stream EXCEPT ![c] = [Closed EXCEPT !.pc = "build", !.user = u]]
    /\ UNCHANGED <<rows, job, unsaid>>

Build(c) ==
    /\ stream[c].pc = "build"
    /\ stream' = [stream EXCEPT ![c] =
           [@ EXCEPT !.pc = "wait",
                     !.shown = IF stream[c].dirty THEN {} ELSE Listing(stream[c].user)]]
    /\ UNCHANGED <<rows, job, unsaid>>

\* changed() marks the generation seen, and the rows are read after it.
Changed(c) ==
    /\ stream[c].pc = "wait" /\ stream[c].dirty
    /\ stream' = [stream EXCEPT ![c] = [@ EXCEPT !.pc = "build", !.dirty = FALSE]]
    /\ UNCHANGED <<rows, job, unsaid>>

\* The client leaves, or a read fails.
Close(c) ==
    /\ stream[c].pc # "off"
    /\ stream' = [stream EXCEPT ![c] = Closed]
    /\ UNCHANGED <<rows, job, unsaid>>

\* A statement fails: nothing of it is done, and no bump follows.
Fail(w) ==
    /\ job[w].pc \in Statements
    /\ Return(w)
    /\ unsaid' = (unsaid \/ At(w, "others"))
    /\ UNCHANGED <<rows, stream>>

Crash ==
    /\ job' = [w \in Worker |-> Idle]
    /\ stream' = [c \in Client |-> Closed]
    /\ unsaid' = FALSE
    /\ UNCHANGED rows

Expire(t) ==
    /\ Live(t)
    /\ rows' = [rows EXCEPT ![t] = ExpiredRow(rows[t].user)]
    /\ UNCHANGED <<job, stream, unsaid>>

Handler(w) ==
    \/ \E u \in User : Approve(w, u) \/ Create(w, u)
    \/ \E u \in User, t \in Token : SignIn(w, u, t) \/ Revoke(w, u, t) \/ Others(w, u, t)
    \/ \E t \in Token :
           MintCreated(w, t) \/ MintApproved(w, t) \/ Logout(w, t) \/ Touch(w, t)
    \/ Count(w)
    \/ Undo(w) \/ Find(w) \/ Delete(w) \/ Read(w) \/ DeleteOther(w)
    \/ Update(w) \/ Sweep(w) \/ SweepDelete(w)
    \/ Bump(w) \/ Fail(w)

Reader(c) == (\E u \in User : Watch(c, u)) \/ Build(c) \/ Changed(c) \/ Close(c)

Next ==
    \/ \E w \in Worker : Handler(w)
    \/ \E c \in Client : Reader(c)
    \/ \E t \in Token : Expire(t)
    \/ Crash

Spec == Init /\ [][Next]_vars

-----------------------------------------------------------------------------
(* Properties *)

\* A session that is gone never works again: whatever a touch, a sweep or a
\* second revocation read before it went, none of them brings its row back
\* (the keyed UPDATE of touch).
GoneStaysGone == [][\A t \in Token : rows[t].state = "gone" => rows'[t].state = "gone"]_rows

\* A row goes only when it has expired, or by a request of its own user (or
\* one that presents its token), and "sign out everywhere but here" spares the
\* session it came from, whatever changes between the read and the deletes.
RemovedRightly ==
    [][\A t \in Token : Present(t) /\ rows'[t].state = "gone" =>
           \/ t \in Expired
           \/ \E w \in Worker :
                  \/ job[w].op = "logout" /\ job[w].target = t
                  \/ /\ job[w].op \in {"revoke", "others"}
                     /\ job[w].user = rows[t].user
                     /\ job[w].op = "others" => job[w].token # t]_rows

\* When "sign out everywhere but here" is done, the sessions its user has left
\* are the caller's own and those minted since it looked: no touch, revocation
\* or sweep in between leaves another one standing.
OthersGone ==
    \A w \in Worker : job[w].op = "others" /\ job[w].pc \in {"others", "bump"} =>
        \A t \in (RowsOf(job[w].user) \cap job[w].known) \ job[w].todo : t = job[w].token

\* The tokens u has or is about to have from create_api_token.
Created(u) == {t \in LiveOf(u) : rows[t].kind = "created"}
Creating(u) == {w \in Worker : At(w, "mint") /\ job[w].op = "create" /\ job[w].user = u}

\* create_api_token counts before it mints: requests at once overshoot the cap,
\* by less than there are of them and never more.  (Checked with the types.)
CapOvershoot ==
    /\ TypeOK
    /\ \A u \in User :
           Cardinality(Created(u)) + Cardinality(Creating(u)) < MaxTokens + Cardinality(Worker)

\* A change that has been announced, or is about to be.
Owed == \E w \in Worker : job[w].pc \in {"bump", "others"}

\* A stream that waits, with nothing to wake it, has shown its client exactly
\* the sessions there are, but for those whose time ran out since: no change
\* falls between the read of the rows and the wait.  A loop of deletes that
\* fails halfway (unsaid) is what the code does not announce.
WaitsOnTruth ==
    ~Owed /\ ~unsaid =>
        \A c \in Client : stream[c].pc = "wait" /\ ~stream[c].dirty =>
            /\ Listing(stream[c].user) \subseteq stream[c].shown
            /\ \A e \in stream[c].shown \ Listing(stream[c].user) : e[1] \in Expired
=============================================================================
