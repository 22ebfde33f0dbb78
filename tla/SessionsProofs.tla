--------------------------- MODULE SessionsProofs ---------------------------
(***************************************************************************)
(* Theorems about Sessions, for any number of requests, tokens, users and  *)
(* streams.                                                                *)
(***************************************************************************)
EXTENDS Sessions, TLAPS, FiniteSetTheorems

USE SessionsAssumption

-----------------------------------------------------------------------------
(* What each request is about *)

\* What a pc says of the rest of its job.
Pointed(j) ==
    /\ j.pc \in {"count", "mint", "find", "read", "others"} => j.user \in User
    /\ j.pc = "count" => j.op = "create"
    /\ j.pc = "mint" => j.op \in {"create", "approve"}
    /\ j.pc = "update" => j.token \in Token
    /\ j.pc = "find" => j.op = "revoke" /\ j.target \in Token
    /\ j.pc = "delete" => j.op \in {"logout", "revoke"} /\ j.target \in Token
    /\ j.pc = "undo" => j.op = "logout" /\ j.target \in Token
    /\ j.op = "approve" /\ j.pc = "bump" => j.target \in Token
    /\ j.pc \in {"read", "others"} => j.op = "others"
    /\ j.op = "others" => j.pc \in {"read", "others", "bump"}

Drawn(t) == rows[t].state # "undrawn"

\* A row, if it is still there, is of the user it is taken to be of.
Of(t, u) == Drawn(t) /\ (Present(t) => rows[t].user = u)

\* What a request that has read rows may rely on, whatever came since.
Aimed(j) ==
    /\ j.pc = "find" => Drawn(j.target)
    /\ j.pc = "delete" /\ j.op = "revoke" => Of(j.target, j.user)
    /\ j.pc = "others" => \A t \in j.todo : t # j.token /\ Of(t, j.user)
    /\ j.pc = "sweep" => \A t \in j.todo : rows[t].state \in {"expired", "gone"}
    /\ j.op = "others" /\ j.pc \in {"others", "bump"} =>
           /\ \A t \in j.known : Drawn(t)
           /\ \A t \in (RowsOf(j.user) \cap j.known) \ j.todo : t = j.token

SessionsInv ==
    /\ TypeOK
    /\ \A w \in Worker : Pointed(job[w]) /\ Aimed(job[w])

-----------------------------------------------------------------------------
(* What can become of a row *)

\* A row drawn stays drawn; one that is there keeps its user until it goes, an
\* expired one never revives, and one that is gone is gone for good.
Lasting(t) ==
    /\ rows[t].state # "undrawn" => rows'[t].state # "undrawn"
    /\ rows[t].state = "gone" => rows'[t].state = "gone"
    /\ rows[t].state = "expired" => rows'[t].state \in {"expired", "gone"}
    /\ Present(t) /\ rows'[t].state \in {"live", "expired"} => rows'[t].user = rows[t].user

LEMMA RowIs ==
    ASSUME TypeOK, NEW t \in Token
    PROVE  /\ rows[t] \in Row \cup {None("undrawn"), None("gone")}
           /\ rows[t].state \in {"live", "expired", "undrawn", "gone"}
           /\ Present(t) => rows[t] \in Row /\ rows[t].user \in User
           /\ Live(t) => rows[t] \in [state : {"live"}, user : User, kind : Kind,
                                      last : 0..MaxTouches]
           /\ Present(t) <=> rows[t].state \in {"live", "expired"}
           /\ rows[t].last \in 0..MaxTouches
BY DEF TypeOK, Row, None, Present, Live, Expired

\* The four ways a step changes rows.
LEMMA PutLasts ==
    ASSUME TypeOK, NEW s \in Token, NEW u \in User, NEW k \in Kind, Put(s, u, k)
    PROVE  /\ rows' \in [Token -> Row \cup {None("undrawn"), None("gone")}]
           /\ \A t \in Token : Lasting(t)
<1>1. NewRow(u, k) \in Row /\ NewRow(u, k).state = "live"
  BY DEF NewRow, Row
<1>2. rows[s].state = "undrawn" /\ rows' = [rows EXCEPT ![s] = NewRow(u, k)]
  BY DEF Put, Undrawn
<1>3. rows \in [Token -> Row \cup {None("undrawn"), None("gone")}]
  BY DEF TypeOK
<1>4. ~ Present(s)
  BY <1>2, RowIs
<1>5. QED
  BY <1>1, <1>2, <1>3, <1>4 DEF Lasting

LEMMA WithoutLasts ==
    ASSUME TypeOK, NEW s, rows' = Without(s)
    PROVE  /\ rows' \in [Token -> Row \cup {None("undrawn"), None("gone")}]
           /\ \A t \in Token : Lasting(t)
           /\ \A t \in Token : rows'[t] = IF t \in s /\ Present(t) THEN None("gone") ELSE rows[t]
<1>1. rows \in [Token -> Row \cup {None("undrawn"), None("gone")}]
  BY DEF TypeOK
<1>2. \A t \in Token : rows'[t] = IF t \in s /\ Present(t) THEN None("gone") ELSE rows[t]
  BY DEF Without
<1>3. rows' \in [Token -> Row \cup {None("undrawn"), None("gone")}]
  BY <1>1 DEF Without
<1>4. ASSUME NEW t \in Token PROVE Lasting(t)
  <2>1. CASE rows'[t] = rows[t]
    BY <2>1, RowIs DEF Lasting
  <2>2. CASE Present(t) /\ rows'[t] = None("gone")
    BY <2>2, RowIs DEF Lasting, None
  <2>3. QED  BY <1>2, <2>1, <2>2
<1>5. QED  BY <1>2, <1>3, <1>4

LEMMA UpdateLasts ==
    ASSUME TypeOK, NEW s \in Token, NEW n \in 0..MaxTouches,
           rows' = IF Live(s) THEN [rows EXCEPT ![s].last = n] ELSE rows
    PROVE  /\ rows' \in [Token -> Row \cup {None("undrawn"), None("gone")}]
           /\ \A t \in Token : Lasting(t)
           /\ \A t \in Token : /\ rows'[t].state = rows[t].state
                               /\ rows'[t].user = rows[t].user
                               /\ rows'[t].kind = rows[t].kind
<1>1. rows \in [Token -> Row \cup {None("undrawn"), None("gone")}]
  BY DEF TypeOK
<1>2. CASE Live(s)
  <2> DEFINE r == [rows[s] EXCEPT !.last = n]
  <2>1. rows[s] \in [state : {"live"}, user : User, kind : Kind, last : 0..MaxTouches]
    BY <1>2, RowIs
  <2>2. /\ r \in [state : {"live"}, user : User, kind : Kind, last : 0..MaxTouches]
        /\ r.state = rows[s].state /\ r.user = rows[s].user /\ r.kind = rows[s].kind
    BY <2>1
  <2>3. r \in Row
    BY <2>2 DEF Row
  <2>4. rows' = [rows EXCEPT ![s] = r]
    BY <1>1, <1>2
  <2> HIDE DEF r
  <2>5. \A t \in Token : rows'[t] = IF t = s THEN r ELSE rows[t]
    BY <1>1, <2>4
  <2>6. QED  BY <1>1, <2>2, <2>3, <2>4, <2>5, RowIs DEF Lasting
<1>3. CASE ~ Live(s)
  BY <1>1, <1>3, RowIs DEF Lasting
<1>4. QED  BY <1>2, <1>3

LEMMA ExpireLasts ==
    ASSUME TypeOK, NEW s \in Token, Expire(s)
    PROVE  /\ rows' \in [Token -> Row \cup {None("undrawn"), None("gone")}]
           /\ \A t \in Token : Lasting(t)
           /\ \A t \in Token : t # s => rows'[t] = rows[t]
           /\ rows'[s].state = "expired"
<1>1. rows \in [Token -> Row \cup {None("undrawn"), None("gone")}]
  BY DEF TypeOK
<1>2. Live(s) /\ rows' = [rows EXCEPT ![s] = ExpiredRow(rows[s].user)]
  BY DEF Expire
<1>3. rows[s].user \in User
  BY <1>2, RowIs DEF Present
<1>4. ExpiredRow(rows[s].user) \in Row
  BY <1>3 DEF ExpiredRow, Row
<1>5. /\ ExpiredRow(rows[s].user).state = "expired"
      /\ ExpiredRow(rows[s].user).user = rows[s].user
  BY DEF ExpiredRow
<1>6. \A t \in Token : rows'[t] = IF t = s THEN ExpiredRow(rows[s].user) ELSE rows[t]
  BY <1>1, <1>2
<1>7. QED
  BY <1>1, <1>2, <1>4, <1>5, <1>6, RowIs DEF Lasting, Live

-----------------------------------------------------------------------------
(* Types, and that requests stay pointed and aimed *)

RowsKept ==
    /\ rows' \in [Token -> Row \cup {None("undrawn"), None("gone")}]
    /\ \A t \in Token : Lasting(t)

LEMMA SameRows == ASSUME TypeOK, rows' = rows PROVE RowsKept
BY RowIs DEF TypeOK, RowsKept, Lasting

\* What Lasting says of a row that is read again after a step.
LEMMA StillOf ==
    ASSUME TypeOK, RowsKept, NEW t \in Token
    PROVE  /\ Drawn(t) => Drawn(t)'
           /\ Drawn(t) /\ Present(t)' => Present(t)
           /\ Drawn(t) /\ Present(t)' => rows'[t].user = rows[t].user
           /\ \A u : Of(t, u) => Of(t, u)'
           /\ \A u : Drawn(t) /\ t \in RowsOf(u)' => t \in RowsOf(u)
<1>1. rows'[t].state \in {"live", "expired", "undrawn", "gone"}
  BY DEF RowsKept, Row, None
<1>2. Present(t)' <=> rows'[t].state \in {"live", "expired"}
  BY DEF Present, Live, Expired
<1>3. Lasting(t)
  BY DEF RowsKept
<1>4. Drawn(t) => Drawn(t)'
  BY <1>3 DEF Lasting, Drawn
<1>5. Drawn(t) /\ Present(t)' => Present(t)
  BY <1>1, <1>2, <1>3, RowIs DEF Lasting, Drawn
<1>6. Drawn(t) /\ Present(t)' => rows'[t].user = rows[t].user
  BY <1>2, <1>3, <1>5 DEF Lasting
<1>7. \A u : Of(t, u) => Of(t, u)'
  BY <1>4, <1>5, <1>6 DEF Of
<1>8. \A u : Drawn(t) /\ t \in RowsOf(u)' => t \in RowsOf(u)
  BY <1>5, <1>6 DEF RowsOf
<1>9. QED  BY <1>4, <1>5, <1>6, <1>7, <1>8

\* A job that is not touched stays aimed.
LEMMA AimLasts ==
    ASSUME TypeOK, RowsKept, NEW v \in Worker, job'[v] = job[v], Pointed(job[v]), Aimed(job[v])
    PROVE  Aimed(job[v])'
<1> DEFINE j == job[v]
<1>0. j \in Job /\ j.todo \subseteq Token /\ j.known \subseteq Token
  BY DEF TypeOK, Job
<1>1. j.pc = "find" => Drawn(j.target)'
  BY StillOf DEF Aimed, Pointed
<1>2. j.pc = "delete" /\ j.op = "revoke" => Of(j.target, j.user)'
  BY StillOf DEF Aimed, Pointed
<1>3. j.pc = "others" => \A t \in j.todo : t # j.token /\ Of(t, j.user)'
  BY <1>0, StillOf DEF Aimed
<1>4. j.pc = "sweep" => \A t \in j.todo : rows'[t].state \in {"expired", "gone"}
  BY <1>0 DEF Aimed, RowsKept, Lasting
<1>5. j.op = "others" /\ j.pc \in {"others", "bump"} =>
           /\ \A t \in j.known : Drawn(t)'
           /\ \A t \in (RowsOf(j.user)' \cap j.known) \ j.todo : t = j.token
  BY <1>0, StillOf DEF Aimed
<1>6. QED  BY <1>1, <1>2, <1>3, <1>4, <1>5 DEF Aimed

LEMMA StepKeeps ==
    ASSUME SessionsInv, RowsKept, NEW w \in Worker, job' \in [Worker -> Job],
           \A v \in Worker \ {w} : job'[v] = job[v],
           Pointed(job[w])', Aimed(job[w])',
           stream' \in [Client -> Stream], unsaid' \in BOOLEAN
    PROVE  SessionsInv'
<1>1. TypeOK'
  BY DEF TypeOK, RowsKept
<1>2. ASSUME NEW v \in Worker, v # w PROVE Pointed(job[v])' /\ Aimed(job[v])'
  BY <1>2, AimLasts DEF SessionsInv
<1>3. QED  BY <1>1, <1>2 DEF SessionsInv

LEMMA IdleIs ==
    /\ Idle \in Job /\ Idle.pc = "idle" /\ Idle.op = Nil /\ Idle.user = Nil /\ Idle.token = Nil
    /\ Idle.target = Nil /\ Idle.todo = {} /\ Idle.known = {} /\ Idle.now = 0
BY DEF Idle, Job, Statements

LEMMA DoneKeeps ==
    ASSUME SessionsInv, RowsKept, NEW w \in Worker, Done(w), UNCHANGED <<stream, unsaid>>
    PROVE  SessionsInv'
<1> DEFINE j == [Idle EXCEPT !.pc = "bump"]
<1>1. j \in Job /\ Pointed(j) /\ j.op = Nil /\ j.pc = "bump"
  BY IdleIs DEF Job, Pointed, Op
<1>2. job \in [Worker -> Job] /\ stream \in [Client -> Stream] /\ unsaid \in BOOLEAN
  BY DEF SessionsInv, TypeOK
<1>3. job' = [job EXCEPT ![w] = j]
  BY DEF Done
<1> HIDE DEF j
<1>4. /\ job' \in [Worker -> Job] /\ job'[w] = j
      /\ \A v \in Worker \ {w} : job'[v] = job[v]
  BY <1>1, <1>2, <1>3
<1>5. Aimed(job[w])'
  BY <1>1, <1>4 DEF Aimed, Op
<1>6. QED  BY <1>1, <1>2, <1>4, <1>5, StepKeeps

LEMMA ReturnKeeps ==
    ASSUME SessionsInv, RowsKept, NEW w \in Worker, Return(w), stream' = stream,
           unsaid' \in BOOLEAN
    PROVE  SessionsInv'
<1>1. Pointed(Idle)
  BY IdleIs DEF Pointed, Op
<1>2. job \in [Worker -> Job] /\ stream \in [Client -> Stream]
  BY DEF SessionsInv, TypeOK
<1>4. /\ job' \in [Worker -> Job] /\ job'[w] = Idle
      /\ \A v \in Worker \ {w} : job'[v] = job[v]
  BY <1>2, IdleIs DEF Return
<1>5. Aimed(job[w])'
  BY <1>4, IdleIs DEF Aimed, Op
<1>6. QED  BY <1>1, <1>2, <1>4, <1>5, StepKeeps

\* A step that gives w another job.
LEMMA MoveKeeps ==
    ASSUME SessionsInv, RowsKept, NEW w \in Worker, NEW j \in Job, job' = [job EXCEPT ![w] = j],
           Pointed(j), UNCHANGED <<stream, unsaid>>
    PROVE  /\ job'[w] = j
           /\ Aimed(job[w])' => SessionsInv'
<1>1. job \in [Worker -> Job] /\ stream \in [Client -> Stream] /\ unsaid \in BOOLEAN
  BY DEF SessionsInv, TypeOK
<1>2. /\ job' \in [Worker -> Job] /\ job'[w] = j
      /\ \A v \in Worker \ {w} : job'[v] = job[v]
  BY <1>1
<1>3. QED  BY <1>1, <1>2, StepKeeps

\* A request that begins has read nothing yet, but the id it is to revoke.
LEMMA BeginKeeps ==
    ASSUME SessionsInv, NEW w \in Worker, NEW j \in Job, Begin(w, j), Pointed(j),
           j.pc \notin {"delete", "others", "sweep", "bump"},
           j.pc = "find" => Drawn(j.target)
    PROVE  SessionsInv'
<1>1. RowsKept /\ rows' = rows
  BY SameRows DEF Begin, SessionsInv
<1>2. job' = [job EXCEPT ![w] = j] /\ UNCHANGED <<stream, unsaid>>
  BY DEF Begin
<1>3. job'[w] = j /\ (Aimed(job[w])' => SessionsInv')
  BY <1>1, <1>2, MoveKeeps
<1>4. Aimed(job[w])'
  BY <1>1, <1>3 DEF Aimed, Drawn
<1>5. QED  BY <1>3, <1>4

LEMMA MintKeeps ==
    ASSUME SessionsInv, NEW w \in Worker
    PROVE  /\ \A u \in User : Approve(w, u) \/ Create(w, u) => SessionsInv'
           /\ \A u \in User, t \in Token : SignIn(w, u, t) => SessionsInv'
           /\ Count(w) => SessionsInv'
           /\ \A t \in Token : MintCreated(w, t) \/ MintApproved(w, t) => SessionsInv'
<1>0. /\ TypeOK /\ job[w] \in Job /\ Pointed(job[w]) /\ Aimed(job[w])
      /\ stream \in [Client -> Stream] /\ unsaid \in BOOLEAN
  BY DEF SessionsInv, TypeOK
<1>1. ASSUME NEW u \in User, Approve(w, u) PROVE SessionsInv'
  <2> DEFINE j == [[Idle EXCEPT !.pc = "mint", !.op = "approve"] EXCEPT !.user = u]
  <2>1. j \in Job /\ j.pc = "mint" /\ j.op = "approve" /\ j.user = u
    BY IdleIs DEF Job, Statements, Op
  <2>2. Begin(w, j)
    BY <1>1 DEF Approve, BeginAs
  <2> HIDE DEF j
  <2>3. QED  BY <2>1, <2>2, BeginKeeps DEF Pointed
<1>2. ASSUME NEW u \in User, Create(w, u) PROVE SessionsInv'
  <2> DEFINE j == [[Idle EXCEPT !.pc = "count", !.op = "create"] EXCEPT !.user = u]
  <2>1. j \in Job /\ j.pc = "count" /\ j.op = "create" /\ j.user = u
    BY IdleIs DEF Job, Statements, Op
  <2>2. Begin(w, j)
    BY <1>2 DEF Create, BeginAs
  <2> HIDE DEF j
  <2>3. QED  BY <2>1, <2>2, BeginKeeps DEF Pointed
<1>3. ASSUME NEW u \in User, NEW t \in Token, SignIn(w, u, t) PROVE SessionsInv'
  <2>1. RowsKept
    BY <1>0, <1>3, PutLasts DEF SignIn, RowsKept, Kind
  <2>2. QED  BY <1>3, <2>1, DoneKeeps DEF SignIn
<1>4. ASSUME Count(w) PROVE SessionsInv'
  <2>1. RowsKept /\ UNCHANGED <<stream, unsaid>>
    BY <1>0, <1>4, SameRows DEF Count
  <2>2. CASE Return(w)
    BY <1>0, <2>1, <2>2, ReturnKeeps
  <2>3. CASE Goto(w, "mint")
    <3> DEFINE j == [job[w] EXCEPT !.pc = "mint"]
    <3>1. j \in Job /\ j.pc = "mint" /\ j.op = "create" /\ j.user \in User
      BY <1>0, <1>4 DEF Job, Statements, Count, At, Pointed
    <3>2. job' = [job EXCEPT ![w] = j]
      BY <2>3 DEF Goto
    <3> HIDE DEF j
    <3>3. job'[w] = j /\ (Aimed(job[w])' => SessionsInv')
      BY <2>1, <3>1, <3>2, MoveKeeps DEF Pointed
    <3>4. QED  BY <3>1, <3>3 DEF Aimed
  <2>4. QED  BY <1>4, <2>2, <2>3 DEF Count
<1>5. ASSUME NEW t \in Token, MintCreated(w, t) PROVE SessionsInv'
  <2>1. RowsKept
    BY <1>0, <1>5, PutLasts DEF MintCreated, RowsKept, Kind, At, Pointed
  <2>2. QED  BY <1>5, <2>1, DoneKeeps DEF MintCreated
<1>6. ASSUME NEW t \in Token, MintApproved(w, t) PROVE SessionsInv'
  <2> DEFINE j == [job[w] EXCEPT !.pc = "bump", !.target = t]
  <2>1. RowsKept
    BY <1>0, <1>6, PutLasts DEF MintApproved, RowsKept, Kind, At, Pointed
  <2>2. j \in Job /\ j.pc = "bump" /\ j.op = "approve" /\ j.target = t
    BY <1>0, <1>6 DEF Job, Statements, MintApproved
  <2>3. job' = [job EXCEPT ![w] = j] /\ UNCHANGED <<stream, unsaid>>
    BY <1>0, <1>6 DEF MintApproved
  <2> HIDE DEF j
  <2>4. job'[w] = j /\ (Aimed(job[w])' => SessionsInv')
    BY <2>1, <2>2, <2>3, MoveKeeps DEF Pointed
  <2>5. QED  BY <2>2, <2>4 DEF Aimed
<1>7. QED  BY <1>1, <1>2, <1>3, <1>4, <1>5, <1>6

\* After a step, a job with nothing to aim.
LEMMA NoAim ==
    ASSUME NEW w \in Worker, job'[w].pc \notin {"find", "delete", "others", "sweep"},
           job'[w].op # "others" \/ job'[w].pc = "read"
    PROVE  Aimed(job[w])'
BY DEF Aimed

LEMMA RevokeKeeps ==
    ASSUME SessionsInv, NEW w \in Worker
    PROVE  /\ \A t \in Token : Logout(w, t) => SessionsInv'
           /\ Undo(w) => SessionsInv'
           /\ \A u \in User, t \in Token : Revoke(w, u, t) => SessionsInv'
           /\ Find(w) => SessionsInv'
           /\ Delete(w) => SessionsInv'
<1>0. /\ TypeOK /\ job \in [Worker -> Job] /\ job[w] \in Job /\ Pointed(job[w]) /\ Aimed(job[w])
      /\ stream \in [Client -> Stream] /\ unsaid \in BOOLEAN
  BY DEF SessionsInv, TypeOK
<1>1. ASSUME NEW t \in Token, Logout(w, t) PROVE SessionsInv'
  <2>1. RowsKept /\ UNCHANGED <<stream, unsaid>>
    BY <1>0, <1>1, SameRows DEF Logout
  <2>2. CASE Present(t)
    <3> DEFINE j == [Idle EXCEPT !.pc = "delete", !.op = "logout", !.target = t]
    <3>1. j \in Job /\ j.pc = "delete" /\ j.op = "logout" /\ j.target = t
      BY IdleIs DEF Job, Statements, Op
    <3>2. job' = [job EXCEPT ![w] = j]
      BY <1>1, <2>2 DEF Logout
    <3> HIDE DEF j
    <3>3. job'[w] = j /\ (Aimed(job[w])' => SessionsInv')
      BY <2>1, <3>1, <3>2, MoveKeeps DEF Pointed
    <3>4. QED  BY <3>1, <3>3 DEF Aimed
  <2>3. CASE ~ Present(t)
    BY <1>1, <2>1, <2>3, DoneKeeps DEF Logout, Done
  <2>4. QED  BY <2>2, <2>3
<1>2. ASSUME Undo(w) PROVE SessionsInv'
  <2>1. RowsKept /\ UNCHANGED <<stream, unsaid>>
    BY <1>0, <1>2, SameRows DEF Undo
  <2>2. CASE Goto(w, "delete")
    <3> DEFINE j == [job[w] EXCEPT !.pc = "delete"]
    <3>1. j \in Job /\ j.pc = "delete" /\ j.op = "logout" /\ j.target \in Token
      BY <1>0, <1>2 DEF Job, Statements, Undo, At, Pointed
    <3>2. job' = [job EXCEPT ![w] = j]
      BY <2>2 DEF Goto
    <3> HIDE DEF j
    <3>3. job'[w] = j /\ (Aimed(job[w])' => SessionsInv')
      BY <2>1, <3>1, <3>2, MoveKeeps DEF Pointed
    <3>4. QED  BY <3>1, <3>3 DEF Aimed
  <2>3. QED  BY <1>2, <2>1, <2>2, DoneKeeps DEF Undo
<1>3. ASSUME NEW u \in User, NEW t \in Token, Revoke(w, u, t) PROVE SessionsInv'
  <2> DEFINE j == [[Idle EXCEPT !.pc = "find", !.op = "revoke", !.target = t] EXCEPT !.user = u]
  <2>1. j \in Job /\ j.pc = "find" /\ j.op = "revoke" /\ j.user = u /\ j.target = t
    BY IdleIs DEF Job, Statements, Op
  <2>2. Begin(w, j) /\ Drawn(t)
    BY <1>3 DEF Revoke, BeginAs, Undrawn, Drawn
  <2> HIDE DEF j
  <2>3. QED  BY <2>1, <2>2, BeginKeeps DEF Pointed
<1>4. ASSUME Find(w) PROVE SessionsInv'
  <2>1. RowsKept /\ rows' = rows /\ UNCHANGED <<stream, unsaid>>
    BY <1>0, <1>4, SameRows DEF Find
  <2>2. CASE job[w].target \in RowsOf(job[w].user)
    <3> DEFINE j == [job[w] EXCEPT !.pc = "delete"]
    <3>1. /\ j \in Job /\ j.pc = "delete" /\ j.op = "revoke" /\ j.target \in Token
          /\ j.target = job[w].target /\ j.user = job[w].user
      BY <1>0, <1>4 DEF Job, Statements, Find, At, Pointed
    <3>2. job' = [job EXCEPT ![w] = j]
      BY <1>4, <2>2 DEF Find, Goto
    <3>3. Of(job[w].target, job[w].user)
      BY <1>0, <1>4, <2>2 DEF Of, RowsOf, Find, At, Aimed
    <3> HIDE DEF j
    <3>4. job'[w] = j /\ (Aimed(job[w])' => SessionsInv')
      BY <2>1, <3>1, <3>2, MoveKeeps DEF Pointed
    <3>5. Of(job[w].target, job[w].user)'
      BY <1>0, <2>1, <3>1, <3>3, <3>4, StillOf
    <3>6. QED  BY <3>1, <3>4, <3>5 DEF Aimed
  <2>3. QED  BY <1>4, <2>1, <2>2, DoneKeeps DEF Find
<1>5. ASSUME Delete(w) PROVE SessionsInv'
  <2>1. RowsKept
    BY <1>0, <1>5, WithoutLasts DEF Delete, RowsKept
  <2>2. QED  BY <1>5, <2>1, DoneKeeps DEF Delete
<1>6. QED  BY <1>1, <1>2, <1>3, <1>4, <1>5

LEMMA OthersKeeps ==
    ASSUME SessionsInv, NEW w \in Worker
    PROVE  /\ \A u \in User, t \in Token : Others(w, u, t) => SessionsInv'
           /\ Read(w) => SessionsInv'
           /\ DeleteOther(w) => SessionsInv'
<1>0. /\ TypeOK /\ job \in [Worker -> Job] /\ job[w] \in Job /\ Pointed(job[w]) /\ Aimed(job[w])
      /\ stream \in [Client -> Stream] /\ unsaid \in BOOLEAN
  BY DEF SessionsInv, TypeOK
<1>1. ASSUME NEW u \in User, NEW t \in Token, Others(w, u, t) PROVE SessionsInv'
  <2> DEFINE j == [[Idle EXCEPT !.pc = "read", !.op = "others", !.token = t] EXCEPT !.user = u]
  <2>1. j \in Job /\ j.pc = "read" /\ j.op = "others" /\ j.user = u
    BY IdleIs DEF Job, Statements, Op
  <2>2. Begin(w, j)
    BY <1>1 DEF Others, BeginAs
  <2> HIDE DEF j
  <2>3. QED  BY <2>1, <2>2, BeginKeeps DEF Pointed
<1>2. ASSUME Read(w) PROVE SessionsInv'
  <2>0. PICK u \in User : u = job[w].user
    BY <1>0, <1>2 DEF Read, At, Pointed
  <2> DEFINE todo == RowsOf(u) \ {job[w].token}
             known == Token \ Undrawn
             j == [job[w] EXCEPT !.pc = LoopFrom(todo), !.todo = todo, !.known = known]
  <2>1. RowsKept /\ rows' = rows /\ UNCHANGED <<stream, unsaid>>
    BY <1>0, <1>2, SameRows DEF Read
  <2>2. job[w].op = "others"
    BY <1>0, <1>2 DEF Read, At, Pointed
  <2>3. job' = [job EXCEPT ![w] = j]
    BY <1>0, <1>2, <2>0 DEF Read
  <2>4. LoopFrom(todo) \in {"bump", "others"}
    BY DEF LoopFrom
  <2>5. todo \subseteq Token /\ known \subseteq Token
    BY DEF RowsOf
  <2>6. /\ \A t \in RowsOf(u)' : t \in RowsOf(u)
        /\ \A t \in known : Drawn(t)'
        /\ \A t \in todo : t # job[w].token /\ Of(t, u)'
    <3>1. \A t \in RowsOf(u) : Drawn(t) /\ Of(t, u)
      BY <1>0, RowIs DEF RowsOf, Drawn, Of
    <3>2. \A t \in known : Drawn(t)
      BY DEF Undrawn, Drawn
    <3>3. RowsOf(u)' = RowsOf(u)
      BY <2>1 DEF RowsOf, Present, Live, Expired
    <3>4. \A t \in Token : Drawn(t) => Drawn(t)'
      BY <2>1 DEF Drawn
    <3>5. \A t \in Token : Of(t, u) => Of(t, u)'
      BY <1>0, <2>1, StillOf
    <3>6. QED  BY <2>5, <3>1, <3>2, <3>3, <3>4, <3>5
  <2> HIDE DEF todo, known
  <2>7. /\ j \in Job /\ j.pc = LoopFrom(todo) /\ j.todo = todo /\ j.known = known
        /\ j.op = "others" /\ j.user = u /\ j.token = job[w].token
    BY <1>0, <2>0, <2>2, <2>4, <2>5 DEF Job, Statements
  <2> HIDE DEF j
  <2>8. job'[w] = j /\ (Aimed(job[w])' => SessionsInv')
    BY <2>1, <2>2, <2>3, <2>4, <2>7, MoveKeeps DEF Pointed
  <2>9. \A t \in (RowsOf(u)' \cap known) \ todo : t = job[w].token
    BY <2>6 DEF todo
  <2>10. Aimed(job[w])'
    BY <2>4, <2>6, <2>7, <2>8, <2>9 DEF Aimed
  <2>11. QED  BY <2>8, <2>10
<1>3. ASSUME DeleteOther(w) PROVE SessionsInv'
  <2>0. PICK t \in job[w].todo :
           /\ rows' = Without({t})
           /\ job' = [job EXCEPT ![w] = [@ EXCEPT !.pc = LoopFrom(job[w].todo \ {t}),
                                                 !.todo = job[w].todo \ {t}]]
    BY <1>3 DEF DeleteOther
  <2>0a. PICK u \in User : u = job[w].user
    BY <1>0, <1>3 DEF DeleteOther, At, Pointed
  <2> DEFINE todo == job[w].todo \ {t}
             j == [job[w] EXCEPT !.pc = LoopFrom(todo), !.todo = todo]
  <2>1. RowsKept /\ UNCHANGED <<stream, unsaid>> /\ ~ Present(t)'
    <3>1. job[w].todo \subseteq Token
      BY <1>0 DEF Job
    <3>2. rows'[t] = IF Present(t) THEN None("gone") ELSE rows[t]
      BY <1>0, <2>0, <3>1, WithoutLasts
    <3>3. rows'[t].state \notin {"live", "expired"}
      BY <1>0, <3>1, <3>2, RowIs DEF None
    <3>4. QED
      BY <1>0, <1>3, <2>0, <3>3, WithoutLasts DEF RowsKept, DeleteOther, Present, Live, Expired
  <2>2. job[w].op = "others" /\ job[w].pc = "others"
    BY <1>0, <1>3 DEF DeleteOther, At, Pointed
  <2>3. job' = [job EXCEPT ![w] = j]
    BY <1>0, <2>0
  <2>4. LoopFrom(todo) \in {"bump", "others"}
    BY DEF LoopFrom
  <2>5. todo \subseteq Token /\ job[w].known \subseteq Token /\ job[w].todo \subseteq Token
    BY <1>0 DEF Job
  <2>6. /\ \A s \in job[w].known : Drawn(s)'
        /\ \A s \in todo : s # job[w].token /\ Of(s, u)'
        /\ \A s \in (RowsOf(u)' \cap job[w].known) \ todo : s = job[w].token
    <3>1. /\ \A s \in job[w].known : Drawn(s)
          /\ \A s \in todo : s # job[w].token /\ Of(s, u)
          /\ \A s \in (RowsOf(u) \cap job[w].known) \ job[w].todo : s = job[w].token
      BY <1>0, <2>0a, <2>2 DEF Aimed
    <3>2. t \notin RowsOf(u)'
      BY <2>1 DEF RowsOf
    <3>3. QED  BY <1>0, <2>1, <2>5, <3>1, <3>2, StillOf
  <2> HIDE DEF todo
  <2>7. /\ j \in Job /\ j.pc = LoopFrom(todo) /\ j.todo = todo /\ j.known = job[w].known
        /\ j.op = "others" /\ j.user = u /\ j.token = job[w].token
    BY <1>0, <2>0a, <2>2, <2>4, <2>5 DEF Job, Statements
  <2> HIDE DEF j
  <2>8. job'[w] = j /\ (Aimed(job[w])' => SessionsInv')
    BY <2>1, <2>2, <2>3, <2>4, <2>7, MoveKeeps DEF Pointed
  <2>9. Aimed(job[w])'
    BY <2>4, <2>6, <2>7, <2>8 DEF Aimed
  <2>10. QED  BY <2>8, <2>9
<1>4. QED  BY <1>1, <1>2, <1>3

LEMMA TouchKeeps ==
    ASSUME SessionsInv, NEW w \in Worker
    PROVE  /\ \A t \in Token : Touch(w, t) => SessionsInv'
           /\ Update(w) => SessionsInv'
           /\ Sweep(w) => SessionsInv'
           /\ SweepDelete(w) => SessionsInv'
<1>0. /\ TypeOK /\ job \in [Worker -> Job] /\ job[w] \in Job /\ Pointed(job[w]) /\ Aimed(job[w])
  BY DEF SessionsInv, TypeOK
<1>1. ASSUME NEW t \in Token, Touch(w, t) PROVE SessionsInv'
  <2> DEFINE j == [Idle EXCEPT !.pc = "update", !.op = "touch", !.token = t,
                               !.now = rows[t].last + 1]
  <2>1. rows[t].last + 1 \in 0..MaxTouches
    <3>1. rows[t].last \in 0..MaxTouches /\ rows[t].last < MaxTouches
      BY <1>0, <1>1, RowIs DEF Touch
    <3>2. QED  BY <3>1
  <2>2. j \in Job /\ j.pc = "update" /\ j.op = "touch" /\ j.token = t
    BY <2>1, IdleIs DEF Job, Statements, Op
  <2>3. Begin(w, j)
    BY <1>1 DEF Touch
  <2> HIDE DEF j
  <2>4. QED  BY <2>2, <2>3, BeginKeeps DEF Pointed
<1>2. ASSUME Update(w) PROVE SessionsInv'
  <2>1. job[w].token \in Token /\ job[w].now \in 0..MaxTouches
    BY <1>0, <1>2 DEF Update, At, Pointed, Job
  <2>2. rows' = IF Live(job[w].token) THEN [rows EXCEPT ![job[w].token].last = job[w].now] ELSE rows
    BY <1>2 DEF Update
  <2>3. RowsKept
    BY <1>0, <2>1, <2>2, UpdateLasts DEF RowsKept
  <2>4. QED  BY <1>2, <2>3, DoneKeeps DEF Update
<1>3. ASSUME Sweep(w) PROVE SessionsInv'
  <2> DEFINE j == [Idle EXCEPT !.pc = "sweep", !.op = "sweep", !.todo = Expired]
  <2>1. RowsKept /\ rows' = rows /\ UNCHANGED <<stream, unsaid>>
    BY <1>0, <1>3, SameRows DEF Sweep, Begin
  <2>2. Expired \subseteq Token
    BY DEF Expired
  <2>3. j \in Job /\ j.pc = "sweep" /\ j.op = "sweep" /\ j.todo = Expired
    BY <2>2, IdleIs DEF Job, Statements, Op
  <2>4. job' = [job EXCEPT ![w] = j]
    BY <1>3 DEF Sweep, Begin
  <2> HIDE DEF j
  <2>5. job'[w] = j /\ (Aimed(job[w])' => SessionsInv')
    BY <2>1, <2>3, <2>4, MoveKeeps DEF Pointed
  <2>6. \A t \in Expired : rows'[t].state = "expired"
    BY <2>1 DEF Expired
  <2>7. Aimed(job[w])'
    BY <2>3, <2>5, <2>6 DEF Aimed
  <2>8. QED  BY <2>5, <2>7
<1>4. ASSUME SweepDelete(w) PROVE SessionsInv'
  <2>1. RowsKept
    BY <1>0, <1>4, WithoutLasts DEF SweepDelete, RowsKept
  <2>2. QED  BY <1>4, <2>1, DoneKeeps DEF SweepDelete
<1>5. QED  BY <1>1, <1>2, <1>3, <1>4

LEMMA BumpKeeps ==
    ASSUME SessionsInv, NEW w \in Worker, Bump(w)
    PROVE  SessionsInv'
<1>0. /\ TypeOK /\ job \in [Worker -> Job] /\ job[w] \in Job /\ Pointed(job[w]) /\ Aimed(job[w])
      /\ stream \in [Client -> Stream]
  BY DEF SessionsInv, TypeOK
<1>1. RowsKept
  BY <1>0, SameRows DEF Bump
<1>2. stream' \in [Client -> Stream] /\ unsaid' \in BOOLEAN
  <2>1. \A c \in Client : [stream[c] EXCEPT !.dirty = TRUE, !.shown = {}] \in Stream
    BY <1>0 DEF Stream
  <2>2. QED  BY <1>0, <2>1 DEF Bump, Announce
<1>3. CASE Return(w)
  <2>1. job' \in [Worker -> Job] /\ job'[w] = Idle /\ \A v \in Worker \ {w} : job'[v] = job[v]
    BY <1>0, <1>3, IdleIs DEF Return
  <2>2. Pointed(job[w])' /\ Aimed(job[w])'
    BY <2>1, IdleIs, NoAim DEF Pointed, Op
  <2>3. QED  BY <1>1, <1>2, <2>1, <2>2, StepKeeps
<1>4. CASE /\ job[w].op = "approve"
           /\ job' = [job EXCEPT ![w] = [@ EXCEPT !.pc = "undo", !.op = "logout", !.user = Nil]]
  <2> DEFINE j == [job[w] EXCEPT !.pc = "undo", !.op = "logout", !.user = Nil]
  <2>1. j \in Job /\ j.pc = "undo" /\ j.op = "logout" /\ j.target \in Token
    BY <1>0, <1>4 DEF Job, Statements, Op, Bump, At, Pointed
  <2>2. job' = [job EXCEPT ![w] = j]
    BY <1>0, <1>4
  <2> HIDE DEF j
  <2>3. job' \in [Worker -> Job] /\ job'[w] = j /\ \A v \in Worker \ {w} : job'[v] = job[v]
    BY <1>0, <2>1, <2>2
  <2>4. Pointed(job[w])' /\ Aimed(job[w])'
    BY <2>1, <2>3, NoAim DEF Pointed
  <2>5. QED  BY <1>1, <1>2, <2>3, <2>4, StepKeeps
<1>5. QED  BY <1>3, <1>4 DEF Bump

LEMMA ReaderTypes ==
    ASSUME SessionsInv, NEW c \in Client, Reader(c)
    PROVE  stream' \in [Client -> Stream] /\ UNCHANGED <<rows, job, unsaid>>
<1>0. stream \in [Client -> Stream] /\ TypeOK
  BY DEF SessionsInv, TypeOK
<1>1. CASE \E u \in User : Watch(c, u)
  <2>1. PICK u \in User : Watch(c, u)
    BY <1>1
  <2>2. [Closed EXCEPT !.pc = "build", !.user = u] \in Stream
    BY DEF Closed, Stream
  <2>3. QED  BY <1>0, <2>1, <2>2 DEF Watch
<1>2. CASE Build(c)
  <2>1. Listing(stream[c].user) \subseteq Token \X (0..MaxTouches)
    BY <1>0, RowIs DEF Listing, LiveOf
  <2>2. \A s \in SUBSET (Token \X (0..MaxTouches)) :
            [stream[c] EXCEPT !.pc = "wait", !.shown = s] \in Stream
    BY <1>0 DEF Stream
  <2>3. QED  BY <1>0, <1>2, <2>1, <2>2 DEF Build
<1>3. CASE Changed(c)
  <2>1. [stream[c] EXCEPT !.pc = "build", !.dirty = FALSE] \in Stream
    BY <1>0 DEF Stream
  <2>2. QED  BY <1>0, <1>3, <2>1 DEF Changed
<1>4. CASE Close(c)
  BY <1>0, <1>4 DEF Close, Closed, Stream
<1>5. QED  BY <1>1, <1>2, <1>3, <1>4 DEF Reader

\* A step that leaves every job alone.
LEMMA JobsKept ==
    ASSUME SessionsInv, RowsKept, job' = job, stream' \in [Client -> Stream], unsaid' \in BOOLEAN
    PROVE  SessionsInv'
<1>1. TypeOK'
  BY DEF SessionsInv, TypeOK, RowsKept
<1>2. ASSUME NEW v \in Worker PROVE Pointed(job[v])' /\ Aimed(job[v])'
  BY AimLasts DEF SessionsInv
<1>3. QED  BY <1>1, <1>2 DEF SessionsInv

LEMMA SessionsInit == Init => SessionsInv
<1> SUFFICES ASSUME Init PROVE SessionsInv
  OBVIOUS
<1>1. TypeOK
  BY IdleIs DEF Init, TypeOK, Closed, Stream
<1>2. ASSUME NEW w \in Worker PROVE Pointed(job[w]) /\ Aimed(job[w])
  BY IdleIs DEF Init, Pointed, Aimed, Op
<1>3. QED  BY <1>1, <1>2 DEF SessionsInv

LEMMA SessionsNext == SessionsInv /\ [Next]_vars => SessionsInv'
<1> SUFFICES ASSUME SessionsInv, [Next]_vars PROVE SessionsInv'
  OBVIOUS
<1>0. TypeOK /\ stream \in [Client -> Stream] /\ unsaid \in BOOLEAN
  BY DEF SessionsInv, TypeOK
<1>1. ASSUME NEW w \in Worker, Handler(w) PROVE SessionsInv'
  <2>1. CASE Fail(w)
    <3>1. RowsKept /\ unsaid' \in BOOLEAN
      BY <1>0, <2>1, SameRows DEF Fail
    <3>2. QED  BY <2>1, <3>1, ReturnKeeps DEF Fail
  <2>2. CASE ~ Fail(w)
    BY <1>1, <2>2, MintKeeps, RevokeKeeps, OthersKeeps, TouchKeeps, BumpKeeps DEF Handler
  <2>3. QED  BY <2>1, <2>2
<1>2. ASSUME NEW c \in Client, Reader(c) PROVE SessionsInv'
  BY <1>0, <1>2, ReaderTypes, SameRows, JobsKept
<1>3. ASSUME NEW t \in Token, Expire(t) PROVE SessionsInv'
  <2>1. RowsKept
    BY <1>0, <1>3, ExpireLasts DEF RowsKept
  <2>2. QED  BY <1>0, <1>3, <2>1, JobsKept DEF Expire
<1>4. CASE Crash
  <2>1. RowsKept /\ stream' \in [Client -> Stream] /\ unsaid' \in BOOLEAN
    BY <1>0, <1>4, SameRows DEF Crash, Closed, Stream
  <2>2. job' \in [Worker -> Job] /\ \A w \in Worker : job'[w] = Idle
    BY <1>4, IdleIs DEF Crash
  <2>3. \A w \in Worker : Pointed(job[w])' /\ Aimed(job[w])'
    BY <2>2, IdleIs, NoAim DEF Pointed, Op
  <2>4. TypeOK'
    BY <2>1, <2>2 DEF TypeOK, RowsKept
  <2>5. QED  BY <2>3, <2>4 DEF SessionsInv
<1>5. CASE UNCHANGED vars
  BY <1>0, <1>5, SameRows, JobsKept DEF vars
<1>6. QED
  BY <1>1, <1>2, <1>3, <1>4, <1>5 DEF Next

\* The types, and what every request in progress may rely on: a row it aims at
\* is still its user's, however long ago it was read.
THEOREM InvHolds == Spec => []SessionsInv
<1>1. Init => SessionsInv
  BY SessionsInit
<1>2. SessionsInv /\ [Next]_vars => SessionsInv'
  BY SessionsNext
<1>3. QED  BY <1>1, <1>2, PTL DEF Spec

\* "Sign out everywhere but here" (revoke_other_sessions) leaves its user no
\* session, but the caller's own, that was there when it looked: no touch,
\* sweep, expiry or other revocation makes the loop miss one.
THEOREM OthersGoneHolds == Spec => []OthersGone
<1>1. SessionsInv => OthersGone
  BY DEF SessionsInv, Aimed, OthersGone
<1>2. QED  BY <1>1, InvHolds, PTL

-----------------------------------------------------------------------------
(* Rows that go, and rows that are gone *)

\* The only steps that take rows away.
Takes(w, s) ==
    \/ At(w, "delete") /\ s = {job[w].target}
    \/ At(w, "others") /\ \E t \in job[w].todo : s = {t}
    \/ At(w, "sweep") /\ s = job[w].todo

\* The only steps that change rows at all.
LEMMA RowsStep ==
    ASSUME SessionsInv, [Next]_vars
    PROVE  \/ rows' = rows
           \/ \E t \in Token, u \in User, k \in Kind :
                  Put(t, u, k) /\ (k = "created" => \E w \in Worker : MintCreated(w, t))
           \/ \E w \in Worker, s \in SUBSET Token : rows' = Without(s) /\ Takes(w, s)
           \/ \E t \in Token, n \in 0..MaxTouches :
                  rows' = IF Live(t) THEN [rows EXCEPT ![t].last = n] ELSE rows
           \/ \E t \in Token : Expire(t)
<1>0. TypeOK /\ job \in [Worker -> Job] /\ \A w \in Worker : Pointed(job[w])
  BY DEF SessionsInv, TypeOK
<1>1. ASSUME NEW w \in Worker, Delete(w) \/ DeleteOther(w) \/ SweepDelete(w)
      PROVE  \E s \in SUBSET Token : rows' = Without(s) /\ Takes(w, s)
  <2>1. CASE Delete(w)
    <3>1. {job[w].target} \in SUBSET Token
      BY <1>0, <2>1 DEF Delete, At, Pointed
    <3>2. QED  BY <2>1, <3>1 DEF Delete, Takes
  <2>2. CASE DeleteOther(w)
    <3>1. PICK t \in job[w].todo : rows' = Without({t})
      BY <2>2 DEF DeleteOther
    <3>2. {t} \in SUBSET Token
      BY <1>0, <3>1 DEF Job
    <3>3. Takes(w, {t})
      BY <2>2, <3>1 DEF DeleteOther, Takes
    <3>4. QED  BY <3>1, <3>2, <3>3
  <2>3. CASE SweepDelete(w)
    <3>1. job[w].todo \in SUBSET Token
      BY <1>0 DEF Job
    <3>2. QED  BY <2>3, <3>1 DEF SweepDelete, Takes
  <2>4. QED  BY <1>1, <2>1, <2>2, <2>3
<1>2. ASSUME NEW w \in Worker, NEW t \in Token,
             MintCreated(w, t) \/ MintApproved(w, t) \/ \E u \in User : SignIn(w, u, t)
      PROVE  \E s \in Token, u \in User, k \in Kind :
                 Put(s, u, k) /\ (k = "created" => \E v \in Worker : MintCreated(v, s))
  <2>1. CASE MintCreated(w, t)
    BY <1>0, <2>1 DEF MintCreated, At, Pointed, Kind
  <2>2. CASE MintApproved(w, t)
    BY <1>0, <2>2 DEF MintApproved, At, Pointed, Kind
  <2>3. CASE \E u \in User : SignIn(w, u, t)
    BY <2>3 DEF SignIn, Kind
  <2>4. QED  BY <1>2, <2>1, <2>2, <2>3
<1>3. ASSUME NEW w \in Worker, Update(w)
      PROVE  \E t \in Token, n \in 0..MaxTouches :
                 rows' = IF Live(t) THEN [rows EXCEPT ![t].last = n] ELSE rows
  <2>1. job[w].token \in Token /\ job[w].now \in 0..MaxTouches
    BY <1>0, <1>3 DEF Update, At, Pointed, Job
  <2>2. QED  BY <1>3, <2>1 DEF Update
<1>4. ASSUME NEW w \in Worker, Handler(w),
             ~ (Delete(w) \/ DeleteOther(w) \/ SweepDelete(w) \/ Update(w)),
             ~ \E t \in Token : \/ MintCreated(w, t) \/ MintApproved(w, t)
                                \/ \E u \in User : SignIn(w, u, t)
      PROVE  rows' = rows
  BY <1>4 DEF Handler, Approve, Create, Revoke, Others, BeginAs, Begin, Logout, Touch, Count,
              Undo, Find, Read, Sweep, Bump, Fail
<1>5. ASSUME NEW c \in Client, Reader(c) PROVE rows' = rows
  BY <1>5, ReaderTypes
<1>6. CASE Crash \/ UNCHANGED vars
  BY <1>6 DEF Crash, vars
<1>7. QED
  BY <1>1, <1>2, <1>3, <1>4, <1>5, <1>6 DEF Next

LEMMA RowsLast == ASSUME SessionsInv, [Next]_vars PROVE RowsKept
<1>0. TypeOK
  BY DEF SessionsInv
<1>1. CASE rows' = rows
  BY <1>0, <1>1, SameRows
<1>2. CASE \E t \in Token, u \in User, k \in Kind : Put(t, u, k)
  BY <1>0, <1>2, PutLasts DEF RowsKept
<1>3. CASE \E w \in Worker, s \in SUBSET Token : rows' = Without(s) /\ Takes(w, s)
  BY <1>0, <1>3, WithoutLasts DEF RowsKept
<1>4. CASE \E t \in Token, n \in 0..MaxTouches :
               rows' = IF Live(t) THEN [rows EXCEPT ![t].last = n] ELSE rows
  BY <1>0, <1>4, UpdateLasts DEF RowsKept
<1>5. CASE \E t \in Token : Expire(t)
  BY <1>0, <1>5, ExpireLasts DEF RowsKept
<1>6. QED  BY <1>1, <1>2, <1>3, <1>4, <1>5, RowsStep

\* The body of RemovedRightly.
Rightly(t) ==
    \/ t \in Expired
    \/ \E w \in Worker :
           \/ job[w].op = "logout" /\ job[w].target = t
           \/ /\ job[w].op \in {"revoke", "others"}
              /\ job[w].user = rows[t].user
              /\ job[w].op = "others" => job[w].token # t

LEMMA GoneRightly ==
    ASSUME SessionsInv, [Next]_vars, NEW t \in Token, Present(t), rows'[t].state = "gone"
    PROVE  Rightly(t)
<1>0. /\ TypeOK /\ rows[t].state \in {"live", "expired"}
      /\ \A w \in Worker : Pointed(job[w]) /\ Aimed(job[w])
  BY RowIs DEF SessionsInv
<1>1. CASE rows' = rows
  BY <1>0, <1>1
<1>2. ASSUME NEW s \in Token, NEW u \in User, NEW k \in Kind, Put(s, u, k) PROVE FALSE
  <2>1. rows[s].state = "undrawn" /\ rows' = [rows EXCEPT ![s] = NewRow(u, k)]
    BY <1>2 DEF Put, Undrawn
  <2>2. rows'[t] = rows[t]
    BY <1>0, <2>1 DEF TypeOK
  <2>3. QED  BY <1>0, <2>2
<1>3. ASSUME NEW w \in Worker, NEW s \in SUBSET Token, rows' = Without(s), Takes(w, s)
      PROVE  Rightly(t)
  <2>1. t \in s
    BY <1>0, <1>3, WithoutLasts
  <2>2. CASE At(w, "delete") /\ s = {job[w].target}
    <3>1. job[w].target = t /\ job[w].op \in {"logout", "revoke"}
      BY <1>0, <2>1, <2>2 DEF At, Pointed
    <3>2. job[w].op = "revoke" => rows[t].user = job[w].user
      BY <1>0, <2>2, <3>1 DEF At, Aimed, Of
    <3>3. QED  BY <3>1, <3>2 DEF Rightly
  <2>3. CASE At(w, "others") /\ \E x \in job[w].todo : s = {x}
    <3>1. t \in job[w].todo /\ job[w].op = "others"
      BY <1>0, <2>1, <2>3 DEF At, Pointed
    <3>2. rows[t].user = job[w].user /\ job[w].token # t
      BY <1>0, <2>3, <3>1 DEF At, Aimed, Of
    <3>3. QED  BY <3>1, <3>2 DEF Rightly
  <2>4. CASE At(w, "sweep") /\ s = job[w].todo
    BY <1>0, <2>1, <2>4 DEF At, Aimed, Rightly, Expired
  <2>5. QED  BY <1>3, <2>2, <2>3, <2>4 DEF Takes
<1>4. ASSUME NEW s \in Token, NEW n \in 0..MaxTouches,
             rows' = IF Live(s) THEN [rows EXCEPT ![s].last = n] ELSE rows
      PROVE  FALSE
  <2>1. rows'[t].state = rows[t].state
    BY <1>0, <1>4, UpdateLasts
  <2>2. QED  BY <1>0, <2>1
<1>5. ASSUME NEW s \in Token, Expire(s) PROVE FALSE
  BY <1>0, <1>5, ExpireLasts
<1>6. QED  BY <1>1, <1>2, <1>3, <1>4, <1>5, RowsStep

\* A session that is gone never works again, whatever a touch, a sweep or a
\* second revocation had read before it went (sessions.rs: touch is a keyed
\* UPDATE, never an upsert).
THEOREM GoneStaysGoneHolds == Spec => GoneStaysGone
<1>1. SessionsInv /\ [Next]_vars =>
          [\A t \in Token : rows[t].state = "gone" => rows'[t].state = "gone"]_rows
  BY RowsLast DEF RowsKept, Lasting
<1>2. QED  BY <1>1, InvHolds, PTL DEF Spec, GoneStaysGone

\* A session goes only once expired, or by a request of its own user or of who
\* presents its token; "everywhere but here" never takes the session it came
\* from (sessions.rs revoke_session, revoke_others, logout and sweep).
THEOREM RemovedRightlyHolds == Spec => RemovedRightly
<1>1. SessionsInv /\ [Next]_vars =>
          [\A t \in Token : Present(t) /\ rows'[t].state = "gone" => Rightly(t)]_rows
  BY GoneRightly
<1>2. RemovedRightly <=>
          [][\A t \in Token : Present(t) /\ rows'[t].state = "gone" => Rightly(t)]_rows
  BY DEF RemovedRightly, Rightly
<1>3. QED  BY <1>1, <1>2, InvHolds, PTL DEF Spec

-----------------------------------------------------------------------------
(* What a waiting stream has shown *)

\* The body of WaitsOnTruth.
Shows(c) ==
    stream[c].pc = "wait" /\ ~ stream[c].dirty =>
        /\ Listing(stream[c].user) \subseteq stream[c].shown
        /\ \A e \in stream[c].shown \ Listing(stream[c].user) : e[1] \in Expired

LEMMA SameShows ==
    ASSUME NEW c \in Client, rows' = rows, stream'[c] = stream[c], Shows(c)
    PROVE  Shows(c)'
BY DEF Shows, Listing, LiveOf, Live, Expired

\* Only a bump and the failure of a loop leave the pcs that owe one.
LEMMA StillOwed ==
    ASSUME NEW w \in Worker, job[w].pc \notin {"bump", "others"},
           \A v \in Worker \ {w} : job'[v] = job[v], Owed
    PROVE  Owed'
<1>1. PICK v \in Worker : job[v].pc \in {"bump", "others"}
  BY DEF Owed
<1>2. job'[v] = job[v]
  BY <1>1
<1>3. QED  BY <1>1, <1>2 DEF Owed

LEMMA DoneOwes ==
    ASSUME TypeOK, NEW w \in Worker, Done(w) PROVE Owed'
<1>1. job'[w].pc = "bump"
  BY IdleIs DEF Done, TypeOK
<1>2. QED  BY <1>1 DEF Owed

\* Whatever a handler does to the rows, a bump is owed for it, or done, or known
\* to be lost.
LEMMA HandlerOwes ==
    ASSUME SessionsInv, NEW w \in Worker, Handler(w)
    PROVE  \/ Owed'
           \/ unsaid'
           \/ \A c \in Client : stream'[c].pc = "wait" => stream'[c].dirty
           \/ rows' = rows /\ stream' = stream /\ unsaid' = unsaid /\ ~ Owed
<1>0. TypeOK /\ job \in [Worker -> Job] /\ stream \in [Client -> Stream] /\ Pointed(job[w])
  BY DEF SessionsInv, TypeOK
<1>1. CASE Bump(w)
  <2>1. ASSUME NEW c \in Client, stream'[c].pc = "wait" PROVE stream'[c].dirty
    <3>1. CASE stream[c].pc = "off"
      BY <1>1, <2>1, <3>1 DEF Bump, Announce
    <3>2. CASE stream[c].pc # "off"
      <4>1. stream'[c] = [stream[c] EXCEPT !.dirty = TRUE, !.shown = {}]
        BY <1>1, <3>2 DEF Bump, Announce
      <4>2. stream[c] \in Stream
        BY <1>0
      <4>3. QED  BY <4>1, <4>2 DEF Stream
    <3>3. QED  BY <3>1, <3>2
  <2>2. QED  BY <2>1
<1>2. CASE Fail(w)
  <2>1. CASE At(w, "others")
    BY <1>2, <2>1 DEF Fail
  <2>2. CASE ~ At(w, "others")
    <3>1. job[w].pc \notin {"bump", "others"}
      BY <1>2, <2>2 DEF Fail, At, Statements
    <3>2. \A v \in Worker \ {w} : job'[v] = job[v]
      BY <1>0, <1>2 DEF Fail, Return
    <3>3. unsaid' = unsaid
      BY <1>0, <1>2, <2>2 DEF Fail, TypeOK
    <3>4. QED  BY <1>2, <3>1, <3>2, <3>3, StillOwed DEF Fail
  <2>3. QED  BY <2>1, <2>2
<1>3. CASE Delete(w) \/ SweepDelete(w) \/ Update(w)
           \/ \E t \in Token : MintCreated(w, t) \/ \E u \in User : SignIn(w, u, t)
  BY <1>0, <1>3, DoneOwes DEF Delete, SweepDelete, Update, MintCreated, SignIn
<1>4. CASE \E t \in Token : MintApproved(w, t)
  <2>1. PICK t \in Token : MintApproved(w, t)
    BY <1>4
  <2>2. job'[w] = [job[w] EXCEPT !.pc = "bump", !.target = t]
    BY <1>0, <2>1 DEF MintApproved
  <2>3. job[w] \in Job
    BY <1>0
  <2>4. job'[w].pc = "bump"
    BY <2>2, <2>3 DEF Job
  <2>5. QED  BY <2>4 DEF Owed
<1>5. CASE DeleteOther(w)
  <2>1. PICK t \in job[w].todo :
            job' = [job EXCEPT ![w] = [@ EXCEPT !.pc = LoopFrom(job[w].todo \ {t}),
                                                !.todo = job[w].todo \ {t}]]
    BY <1>5 DEF DeleteOther
  <2>2. job'[w] = [job[w] EXCEPT !.pc = LoopFrom(job[w].todo \ {t}),
                                 !.todo = job[w].todo \ {t}]
    BY <1>0, <2>1
  <2>3. job[w] \in Job
    BY <1>0
  <2>4. job'[w].pc \in {"bump", "others"}
    BY <2>2, <2>3 DEF Job, LoopFrom
  <2>5. QED  BY <2>4 DEF Owed
<1>6. CASE \/ \E u \in User : Approve(w, u) \/ Create(w, u)
           \/ \E u \in User, t \in Token : Revoke(w, u, t) \/ Others(w, u, t)
           \/ \E t \in Token : Logout(w, t) \/ Touch(w, t)
           \/ Sweep(w)
  <2>1. job[w] = Idle
    BY <1>6 DEF Approve, Create, Revoke, Others, BeginAs, Begin, Logout, Touch, Sweep
  <2>2. rows' = rows /\ stream' = stream /\ unsaid' = unsaid
    BY <1>6 DEF Approve, Create, Revoke, Others, BeginAs, Begin, Logout, Touch, Sweep
  <2>3. \A v \in Worker \ {w} : job'[v] = job[v]
    BY <1>0, <1>6 DEF Approve, Create, Revoke, Others, BeginAs, Begin, Logout, Touch, Sweep
  <2>4. QED  BY <2>1, <2>2, <2>3, IdleIs, StillOwed
<1>7. CASE Count(w) \/ Undo(w) \/ Find(w) \/ Read(w)
  <2>1. job[w].pc \notin {"bump", "others"}
    BY <1>7 DEF Count, Undo, Find, Read, At
  <2>2. rows' = rows /\ stream' = stream /\ unsaid' = unsaid
    BY <1>7 DEF Count, Undo, Find, Read
  <2>3. \A v \in Worker \ {w} : job'[v] = job[v]
    BY <1>0, <1>7 DEF Count, Undo, Find, Read, Goto, Return, Done
  <2>4. QED  BY <2>1, <2>2, <2>3, StillOwed
<1>8. QED
  BY <1>1, <1>2, <1>3, <1>4, <1>5, <1>6, <1>7 DEF Handler

LEMMA ReaderShows ==
    ASSUME SessionsInv, NEW c \in Client, Reader(c), \A d \in Client : Shows(d)
    PROVE  \A d \in Client : Shows(d)'
<1>0. stream \in [Client -> Stream] /\ rows' = rows /\ stream[c] \in Stream
  BY ReaderTypes DEF SessionsInv, TypeOK
<1>1. ASSUME NEW d \in Client, d # c PROVE Shows(d)'
  <2>1. stream'[d] = stream[d]
    BY <1>0, <1>1 DEF Reader, Watch, Build, Changed, Close
  <2>2. QED  BY <1>0, <2>1, SameShows
<1>2. CASE Build(c)
  <2>1. stream'[c] = [stream[c] EXCEPT !.pc = "wait",
                          !.shown = IF stream[c].dirty THEN {} ELSE Listing(stream[c].user)]
    BY <1>0, <1>2 DEF Build
  <2>2. /\ stream'[c].user = stream[c].user /\ stream'[c].dirty = stream[c].dirty
        /\ ~ stream[c].dirty => stream'[c].shown = Listing(stream[c].user)
    BY <1>0, <2>1 DEF Stream
  <2>3. Listing(stream[c].user)' = Listing(stream'[c].user)
    BY <1>0 DEF Listing, LiveOf, Live
  <2>4. QED  BY <1>1, <2>2, <2>3 DEF Shows
<1>3. CASE \E u \in User : Watch(c, u)
  <2>1. PICK u \in User : stream' = [stream EXCEPT ![c] = [Closed EXCEPT !.pc = "build", !.user = u]]
    BY <1>3 DEF Watch
  <2>2. stream'[c].pc = "build"
    BY <1>0, <2>1 DEF Closed
  <2>3. QED  BY <1>1, <2>2 DEF Shows
<1>4. CASE Changed(c) \/ Close(c)
  <2>1. stream'[c].pc # "wait"
    <3>1. CASE Changed(c)
      <4>1. stream'[c] = [stream[c] EXCEPT !.pc = "build", !.dirty = FALSE]
        BY <1>0, <3>1 DEF Changed
      <4>2. QED  BY <1>0, <4>1 DEF Stream
    <3>2. CASE Close(c)
      BY <1>0, <3>2 DEF Close, Closed
    <3>3. QED  BY <1>4, <3>1, <3>2
  <2>2. QED  BY <1>1, <2>1 DEF Shows
<1>5. QED  BY <1>2, <1>3, <1>4 DEF Reader

LEMMA ExpireShows ==
    ASSUME SessionsInv, NEW t \in Token, Expire(t), NEW c \in Client, Shows(c)
    PROVE  Shows(c)'
<1>0. TypeOK /\ stream' = stream
  BY DEF SessionsInv, Expire
<1>1. \A s \in Token : s # t => rows'[s] = rows[s]
  BY <1>0, ExpireLasts
<1>2. rows'[t].state = "expired" /\ rows[t].state = "live"
  BY <1>0, ExpireLasts DEF Expire, Live
<1>3. \A u : Listing(u)' \subseteq Listing(u)
  BY <1>1, <1>2 DEF Listing, LiveOf, Live
<1>4. \A u : \A e \in Listing(u) \ Listing(u)' : e[1] = t
  BY <1>1, <1>2 DEF Listing, LiveOf, Live
<1>5. Expired' = Expired \cup {t}
  BY <1>1, <1>2 DEF Expired
<1>6. SUFFICES ASSUME stream[c].pc = "wait", ~ stream[c].dirty
               PROVE  /\ Listing(stream[c].user)' \subseteq stream[c].shown
                      /\ \A e \in stream[c].shown \ Listing(stream[c].user)' : e[1] \in Expired'
  BY <1>0 DEF Shows
<1>7. /\ Listing(stream[c].user) \subseteq stream[c].shown
      /\ \A e \in stream[c].shown \ Listing(stream[c].user) : e[1] \in Expired
  BY <1>6 DEF Shows
<1>8. QED  BY <1>0, <1>3, <1>4, <1>5, <1>7

LEMMA WaitsNext ==
    SessionsInv /\ WaitsOnTruth /\ [Next]_vars => WaitsOnTruth'
<1> SUFFICES ASSUME SessionsInv, WaitsOnTruth, [Next]_vars, ~ Owed', ~ unsaid'
             PROVE  \A c \in Client : Shows(c)'
  BY DEF WaitsOnTruth, Shows
<1>0. ~ Owed /\ ~ unsaid => \A c \in Client : Shows(c)
  BY DEF WaitsOnTruth, Shows
<1>1. ASSUME NEW w \in Worker, Handler(w) PROVE \A c \in Client : Shows(c)'
  <2>1. CASE \A c \in Client : stream'[c].pc = "wait" => stream'[c].dirty
    BY <2>1 DEF Shows
  <2>2. CASE rows' = rows /\ stream' = stream /\ unsaid' = unsaid /\ ~ Owed
    BY <1>0, <2>2, SameShows
  <2>3. QED  BY <1>1, <2>1, <2>2, HandlerOwes
<1>2. ASSUME NEW c \in Client, Reader(c) PROVE \A d \in Client : Shows(d)'
  <2>1. job' = job /\ unsaid' = unsaid
    BY <1>2, ReaderTypes
  <2>2. ~ Owed /\ ~ unsaid
    BY <2>1 DEF Owed
  <2>3. QED  BY <1>0, <1>2, <2>2, ReaderShows
<1>3. ASSUME NEW t \in Token, Expire(t) PROVE \A c \in Client : Shows(c)'
  <2>1. ~ Owed /\ ~ unsaid
    BY <1>3 DEF Expire, Owed
  <2>2. QED  BY <1>0, <1>3, <2>1, ExpireShows
<1>4. CASE Crash
  BY <1>4 DEF Crash, Closed, Shows
<1>5. CASE UNCHANGED vars
  <2>1. ~ Owed /\ ~ unsaid /\ rows' = rows /\ stream' = stream
    BY <1>5 DEF vars, Owed
  <2>2. QED  BY <1>0, <2>1, SameShows
<1>6. QED  BY <1>1, <1>2, <1>3, <1>4, <1>5 DEF Next

\* A WatchSessions stream that waits with nothing to wake it has shown its
\* client the sessions there are (auth.rs watch_sessions subscribes before it
\* reads, and marks a generation seen before it reads again), for any number
\* of streams and of changes between its read and its wait.
THEOREM WaitsOnTruthHolds == Spec => []WaitsOnTruth
<1>1. Init => WaitsOnTruth
  BY DEF Init, WaitsOnTruth, Closed
<1>2. SessionsInv /\ WaitsOnTruth /\ [Next]_vars => WaitsOnTruth'
  BY WaitsNext
<1>3. QED  BY <1>1, <1>2, InvHolds, PTL DEF Spec

-----------------------------------------------------------------------------
(* The cap on API tokens *)

\* The count of tokens made and being made, for any number of either.
Capped(u) ==
    Cardinality(Created(u)) + Cardinality(Creating(u)) < MaxTokens + Cardinality(Worker)

LEMMA CapSets ==
    ASSUME NEW u
    PROVE  /\ IsFiniteSet(Created(u)) /\ IsFiniteSet(Creating(u))
           /\ Cardinality(Created(u)) \in Nat /\ Cardinality(Creating(u)) \in Nat
           /\ Cardinality(Creating(u)) <= Cardinality(Worker)
           /\ Cardinality(Worker) \in Nat
<1>1. IsFiniteSet(Token) /\ IsFiniteSet(Worker)
  BY DEF SessionsAssumption
<1>2. Created(u) \subseteq Token /\ Creating(u) \subseteq Worker
  BY DEF Created, LiveOf, Creating
<1>3. QED  BY <1>1, <1>2, FS_Subset, FS_CardinalityType

LEMMA CapShrinks ==
    ASSUME NEW A, NEW B, NEW C, NEW D, NEW n \in Nat,
           IsFiniteSet(B), IsFiniteSet(D), A \subseteq B, C \subseteq D,
           Cardinality(B) + Cardinality(D) < n
    PROVE  Cardinality(A) + Cardinality(C) < n
<1>1. /\ Cardinality(A) \in Nat /\ Cardinality(B) \in Nat
      /\ Cardinality(C) \in Nat /\ Cardinality(D) \in Nat
      /\ Cardinality(A) <= Cardinality(B) /\ Cardinality(C) <= Cardinality(D)
  BY FS_Subset, FS_CardinalityType
<1>2. QED  BY <1>1

\* One element moved from one set to the other.
LEMMA CapMoves ==
    ASSUME NEW A, NEW B, NEW a, NEW b, NEW n \in Nat,
           IsFiniteSet(A), IsFiniteSet(B), b \in B,
           Cardinality(A) + Cardinality(B) < n
    PROVE  Cardinality(A \cup {a}) + Cardinality(B \ {b}) < n
<1>1. Cardinality(A) \in Nat /\ Cardinality(B) \in Nat
  BY FS_CardinalityType
<1>2. Cardinality(B \ {b}) = Cardinality(B) - 1
  BY FS_RemoveElement
<1>3. CASE a \in A
  <2>1. A \cup {a} = A
    BY <1>3
  <2>2. QED  BY <1>1, <1>2, <2>1
<1>4. CASE a \notin A
  <2>1. Cardinality(A \cup {a}) = Cardinality(A) + 1
    BY <1>4, FS_AddElement
  <2>2. QED  BY <1>1, <1>2, <2>1
<1>5. QED  BY <1>3, <1>4

\* Only create_api_token's insert adds a token it made.
LEMMA CreatedShrinks ==
    ASSUME SessionsInv, [Next]_vars, NEW u \in User,
           ~ \E w \in Worker, t \in Token : MintCreated(w, t)
    PROVE  Created(u)' \subseteq Created(u)
<1>0. TypeOK /\ rows \in [Token -> Row \cup {None("undrawn"), None("gone")}]
  BY DEF SessionsInv, TypeOK
<1>1. ASSUME NEW t \in Token, NEW x \in User, NEW k \in Kind, Put(t, x, k), k # "created"
      PROVE  Created(u)' \subseteq Created(u)
  <2>1. rows' = [rows EXCEPT ![t] = NewRow(x, k)]
    BY <1>1 DEF Put
  <2>2. rows'[t].kind # "created" /\ \A s \in Token : s # t => rows'[s] = rows[s]
    BY <1>0, <1>1, <2>1 DEF NewRow
  <2>3. QED  BY <2>2 DEF Created, LiveOf, Live
<1>2. CASE rows' = rows
  BY <1>2 DEF Created, LiveOf, Live
<1>3. ASSUME NEW s \in SUBSET Token, rows' = Without(s)
      PROVE  Created(u)' \subseteq Created(u)
  <2>1. \A t \in Token : rows'[t] = rows[t] \/ rows'[t] = None("gone")
    BY <1>0, <1>3, WithoutLasts
  <2>2. QED  BY <2>1 DEF Created, LiveOf, Live, None
<1>4. ASSUME NEW t \in Token, NEW n \in 0..MaxTouches,
             rows' = IF Live(t) THEN [rows EXCEPT ![t].last = n] ELSE rows
      PROVE  Created(u)' \subseteq Created(u)
  <2>1. \A s \in Token : /\ rows'[s].state = rows[s].state /\ rows'[s].user = rows[s].user
                         /\ rows'[s].kind = rows[s].kind
    BY <1>0, <1>4, UpdateLasts
  <2>2. QED  BY <2>1 DEF Created, LiveOf, Live
<1>5. ASSUME NEW t \in Token, Expire(t) PROVE Created(u)' \subseteq Created(u)
  <2>1. rows'[t].state = "expired" /\ \A s \in Token : s # t => rows'[s] = rows[s]
    BY <1>0, <1>5, ExpireLasts
  <2>2. QED  BY <2>1 DEF Created, LiveOf, Live
<1>6. QED  BY <1>1, <1>2, <1>3, <1>4, <1>5, RowsStep

\* Only a count under the cap lets a create_api_token go on to its insert.
LEMMA CreatingShrinks ==
    ASSUME SessionsInv, [Next]_vars, NEW u \in User,
           ~ \E w \in Worker : Count(w)
    PROVE  Creating(u)' \subseteq Creating(u)
<1>0. job \in [Worker -> Job]
  BY DEF SessionsInv, TypeOK
<1>1. ASSUME NEW w \in Worker, \A v \in Worker \ {w} : job'[v] = job[v],
             job'[w].pc # "mint" \/ job'[w].op # "create"
      PROVE  Creating(u)' \subseteq Creating(u)
  BY <1>1 DEF Creating, At
<1>2. ASSUME NEW w \in Worker, Handler(w) PROVE Creating(u)' \subseteq Creating(u)
  <2>0. job[w] \in Job
    BY <1>0
  <2>1. ASSUME NEW j, job' = [job EXCEPT ![w] = j], j.pc # "mint" \/ j.op # "create"
        PROVE  Creating(u)' \subseteq Creating(u)
    <3>1. job'[w] = j /\ \A v \in Worker \ {w} : job'[v] = job[v]
      BY <1>0, <2>1
    <3>2. QED  BY <1>1, <2>1, <3>1
  <2>2. ASSUME NEW pc, Goto(w, pc), pc # "mint" PROVE Creating(u)' \subseteq Creating(u)
    <3>1. job'[w].pc = pc /\ \A v \in Worker \ {w} : job'[v] = job[v]
      BY <1>0, <2>0, <2>2 DEF Goto, Job
    <3>2. QED  BY <1>1, <2>2, <3>1
  <2>3. CASE Return(w)
    BY <2>1, <2>3, IdleIs DEF Return
  <2>4. CASE Done(w)
    <3>1. [Idle EXCEPT !.pc = "bump"].pc = "bump"
      BY IdleIs
    <3>2. QED  BY <2>1, <2>4, <3>1 DEF Done
  <2>5. CASE \/ \E x \in User, t \in Token : SignIn(w, x, t)
             \/ \E t \in Token : MintCreated(w, t)
             \/ Undo(w) \/ Find(w) \/ Delete(w) \/ Update(w) \/ SweepDelete(w) \/ Fail(w)
    BY <2>2, <2>3, <2>4, <2>5 DEF SignIn, MintCreated, Undo, Find, Delete, Update, SweepDelete, Fail
  <2>6. ASSUME NEW x \in User, NEW j \in Job, BeginAs(w, x, j), j.pc # "mint" \/ j.op # "create"
        PROVE  Creating(u)' \subseteq Creating(u)
    <3>1. /\ [j EXCEPT !.user = x].pc = j.pc
          /\ [j EXCEPT !.user = x].op = j.op
      BY DEF Job
    <3>2. QED  BY <2>1, <2>6, <3>1 DEF BeginAs, Begin
  <2>7. CASE \/ \E x \in User : Approve(w, x) \/ Create(w, x)
             \/ \E x \in User, t \in Token : Revoke(w, x, t) \/ Others(w, x, t)
    <3>1. /\ [Idle EXCEPT !.pc = "mint", !.op = "approve"] \in Job
          /\ [Idle EXCEPT !.pc = "mint", !.op = "approve"].op = "approve"
          /\ [Idle EXCEPT !.pc = "count", !.op = "create"] \in Job
          /\ [Idle EXCEPT !.pc = "count", !.op = "create"].pc = "count"
      BY IdleIs DEF Job, Statements, Op
    <3>2. \A t \in Token :
             /\ [Idle EXCEPT !.pc = "find", !.op = "revoke", !.target = t] \in Job
             /\ [Idle EXCEPT !.pc = "find", !.op = "revoke", !.target = t].pc = "find"
             /\ [Idle EXCEPT !.pc = "read", !.op = "others", !.token = t] \in Job
             /\ [Idle EXCEPT !.pc = "read", !.op = "others", !.token = t].pc = "read"
      BY IdleIs DEF Job, Statements, Op
    <3>3. QED  BY <2>6, <2>7, <3>1, <3>2 DEF Approve, Create, Revoke, Others
  <2>8. CASE (\E t \in Token : Logout(w, t) \/ Touch(w, t)) \/ Sweep(w)
    <3>1. ASSUME NEW t \in Token, Logout(w, t) PROVE Creating(u)' \subseteq Creating(u)
      <4>1. /\ [Idle EXCEPT !.pc = "delete", !.op = "logout", !.target = t].pc = "delete"
            /\ [Idle EXCEPT !.pc = "bump"].pc = "bump"
        BY IdleIs DEF Job
      <4>2. QED  BY <2>1, <3>1, <4>1 DEF Logout
    <3>2. ASSUME NEW t \in Token, Touch(w, t) PROVE Creating(u)' \subseteq Creating(u)
      <4>1. [Idle EXCEPT !.pc = "update", !.op = "touch", !.token = t,
                         !.now = rows[t].last + 1].pc = "update"
        BY IdleIs DEF Job
      <4>2. QED  BY <2>1, <3>2, <4>1 DEF Touch, Begin
    <3>3. ASSUME Sweep(w) PROVE Creating(u)' \subseteq Creating(u)
      <4>1. [Idle EXCEPT !.pc = "sweep", !.op = "sweep", !.todo = Expired].pc = "sweep"
        BY IdleIs DEF Job
      <4>2. QED  BY <2>1, <3>3, <4>1 DEF Sweep, Begin
    <3>4. QED  BY <2>8, <3>1, <3>2, <3>3
  <2>9. CASE \E t \in Token : MintApproved(w, t)
    <3>1. PICK t \in Token : MintApproved(w, t)
      BY <2>9
    <3>2. [job[w] EXCEPT !.pc = "bump", !.target = t].pc = "bump"
      BY <2>0 DEF Job
    <3>3. job' = [job EXCEPT ![w] = [job[w] EXCEPT !.pc = "bump", !.target = t]]
      BY <1>0, <3>1 DEF MintApproved
    <3>4. QED  BY <2>1, <3>2, <3>3
  <2>10. CASE Read(w) \/ DeleteOther(w)
    <3>1. \A todo, known :
             /\ [job[w] EXCEPT !.pc = LoopFrom(todo), !.todo = todo, !.known = known].pc # "mint"
             /\ [job[w] EXCEPT !.pc = LoopFrom(todo), !.todo = todo].pc # "mint"
      BY <2>0 DEF Job, LoopFrom
    <3>2. CASE Read(w)
      <4>1. PICK todo \in SUBSET Token :
                job' = [job EXCEPT ![w] = [job[w] EXCEPT !.pc = LoopFrom(todo), !.todo = todo,
                                                         !.known = Token \ Undrawn]]
        BY <1>0, <3>2 DEF Read, RowsOf
      <4>2. QED  BY <2>1, <3>1, <4>1
    <3>3. CASE DeleteOther(w)
      <4>1. PICK t \in job[w].todo :
                job' = [job EXCEPT ![w] = [job[w] EXCEPT !.pc = LoopFrom(job[w].todo \ {t}),
                                                         !.todo = job[w].todo \ {t}]]
        BY <1>0, <3>3 DEF DeleteOther
      <4>2. QED  BY <2>1, <3>1, <4>1
    <3>4. QED  BY <2>10, <3>2, <3>3
  <2>11. CASE Bump(w)
    <3>1. [job[w] EXCEPT !.pc = "undo", !.op = "logout", !.user = Nil].pc = "undo"
      BY <2>0 DEF Job
    <3>2. \/ Return(w)
          \/ job' = [job EXCEPT ![w] = [job[w] EXCEPT !.pc = "undo", !.op = "logout", !.user = Nil]]
      BY <1>0, <2>11 DEF Bump
    <3>3. QED  BY <2>1, <2>3, <3>1, <3>2
  <2>12. QED
    BY <1>2, <2>5, <2>7, <2>8, <2>9, <2>10, <2>11 DEF Handler
<1>3. CASE job' = job
  BY <1>3 DEF Creating, At
<1>4. CASE Crash
  <2>1. \A w \in Worker : job'[w].pc = "idle"
    BY <1>4, IdleIs DEF Crash
  <2>2. QED  BY <2>1 DEF Creating, At
<1>5. (\E c \in Client : Reader(c)) \/ (\E t \in Token : Expire(t)) \/ UNCHANGED vars => job' = job
  BY ReaderTypes DEF Expire, vars
<1>6. QED  BY <1>2, <1>3, <1>4, <1>5 DEF Next

LEMMA CapNext ==
    ASSUME SessionsInv, [Next]_vars, NEW u \in User, Capped(u)
    PROVE  Capped(u)'
<1>0. /\ TypeOK /\ job \in [Worker -> Job] /\ MaxTokens + Cardinality(Worker) \in Nat
      /\ rows \in [Token -> Row \cup {None("undrawn"), None("gone")}]
  BY CapSets DEF SessionsInv, TypeOK, SessionsAssumption
<1>1. CASE Created(u)' \subseteq Created(u) /\ Creating(u)' \subseteq Creating(u)
  BY <1>0, <1>1, CapSets, CapShrinks DEF Capped
<1>2. ASSUME NEW w \in Worker, Count(w) PROVE Capped(u)'
  <2>1. Created(u)' = Created(u)
    BY <1>2 DEF Count, Created, LiveOf, Live
  <2>2. \A v \in Worker \ {w} : job'[v] = job[v]
    BY <1>0, <1>2 DEF Count, Goto, Return
  <2>3. CASE job'[w].pc = "idle" \/ job[w].user # u
    <3>1. job'[w].pc = "idle" \/ job'[w].user = job[w].user
      BY <1>0, <1>2, IdleIs DEF Count, Goto, Return, Job
    <3>2. Creating(u)' \subseteq Creating(u)
      BY <2>2, <2>3, <3>1 DEF Creating, At
    <3>3. QED  BY <1>1, <2>1, <3>2
  <2>4. CASE job'[w].pc # "idle" /\ job[w].user = u
    <3>1. UnderCap(u)
      BY <1>0, <1>2, <2>4, IdleIs DEF Count, Return
    <3>2. Created(u) \subseteq LiveApi(u) /\ IsFiniteSet(LiveApi(u))
      <4>1. Created(u) \subseteq LiveApi(u) /\ LiveApi(u) \subseteq Token /\ IsFiniteSet(Token)
        BY DEF Created, LiveApi, LiveOf, SessionsAssumption
      <4>2. QED  BY <4>1, FS_Subset
    <3>3. /\ Cardinality(Created(u)) <= Cardinality(LiveApi(u))
          /\ Cardinality(LiveApi(u)) \in Nat
      BY <3>2, FS_Subset, FS_CardinalityType
    <3>4. Creating(u)' \subseteq Worker /\ IsFiniteSet(Worker)
      BY DEF Creating, SessionsAssumption
    <3>5. /\ Cardinality(Creating(u)') <= Cardinality(Worker)
          /\ Cardinality(Creating(u)') \in Nat /\ Cardinality(Worker) \in Nat
      BY <3>4, FS_Subset, FS_CardinalityType
    <3>6. Cardinality(Created(u)) \in Nat /\ MaxTokens \in Nat
          /\ Cardinality(LiveApi(u)) < MaxTokens
      BY <3>1, CapSets DEF SessionsAssumption, UnderCap
    <3>7. Cardinality(Created(u)) + Cardinality(Creating(u)')
              < MaxTokens + Cardinality(Worker)
      BY <3>3, <3>5, <3>6
    <3>8. QED  BY <2>1, <3>7 DEF Capped
  <2>5. QED  BY <2>3, <2>4
<1>3. ASSUME NEW w \in Worker, NEW t \in Token, MintCreated(w, t) PROVE Capped(u)'
  <2>1. rows' = [rows EXCEPT ![t] = NewRow(job[w].user, "created")]
    BY <1>3 DEF MintCreated, Put
  <2>2. /\ rows'[t].user = job[w].user /\ \A s \in Token : s # t => rows'[s] = rows[s]
    BY <1>0, <2>1 DEF NewRow
  <2>3. Created(u)' \subseteq Created(u) \cup {t}
    BY <2>2 DEF Created, LiveOf, Live
  <2>4. job'[w].pc = "bump" /\ \A v \in Worker \ {w} : job'[v] = job[v]
    BY <1>0, <1>3, IdleIs DEF MintCreated, Done
  <2>5. Creating(u)' \subseteq Creating(u) \ {w}
    BY <2>4 DEF Creating, At
  <2>6. CASE job[w].user # u
    <3>1. Created(u)' \subseteq Created(u)
      BY <2>2, <2>3, <2>6 DEF Created, LiveOf
    <3>2. QED  BY <1>1, <2>5, <3>1
  <2>7. CASE job[w].user = u
    <3>1. w \in Creating(u)
      BY <1>3, <2>7 DEF MintCreated, Creating
    <3>2. Cardinality(Created(u) \cup {t}) + Cardinality(Creating(u) \ {w})
              < MaxTokens + Cardinality(Worker)
      BY <1>0, <3>1, CapSets, CapMoves DEF Capped
    <3>3. IsFiniteSet(Created(u) \cup {t}) /\ IsFiniteSet(Creating(u) \ {w})
      BY CapSets, FS_AddElement, FS_RemoveElement
    <3>4. Cardinality(Created(u)') + Cardinality(Creating(u)')
              < MaxTokens + Cardinality(Worker)
      BY <1>0, <2>3, <2>5, <3>2, <3>3, CapShrinks
    <3>5. QED  BY <3>4 DEF Capped
  <2>8. QED  BY <2>6, <2>7
<1>4. CASE /\ ~ \E w \in Worker : Count(w)
           /\ ~ \E w \in Worker, t \in Token : MintCreated(w, t)
  BY <1>1, <1>4, CreatedShrinks, CreatingShrinks
<1>5. QED  BY <1>2, <1>3, <1>4

\* create_api_token counts a user's live tokens and mints one later, with no
\* lock between: however many requests do so at once, the user never has as
\* many as the cap and the requests together.
THEOREM CapOvershootHolds == Spec => []CapOvershoot
<1>1. Init => \A u \in User : Capped(u)
  <2>1. SUFFICES ASSUME Init, NEW u \in User PROVE Capped(u)
    OBVIOUS
  <2>2. Created(u) = {} /\ Creating(u) = {}
    <3>1. \A t \in Token : rows[t].state = "undrawn"
      BY <2>1 DEF Init, None
    <3>2. \A w \in Worker : job[w].pc = "idle"
      BY <2>1, IdleIs DEF Init
    <3>3. QED  BY <3>1, <3>2 DEF Created, LiveOf, Live, Creating, At
  <2>3. Cardinality({}) = 0 /\ Cardinality(Worker) \in Nat /\ MaxTokens \in Nat \ {0}
    BY CapSets, FS_EmptySet DEF SessionsAssumption
  <2>4. 0 + 0 < MaxTokens + Cardinality(Worker)
    BY <2>3
  <2>5. QED  BY <2>2, <2>3, <2>4 DEF Capped
<1>2. SessionsInv /\ (\A u \in User : Capped(u)) /\ [Next]_vars => \A u \in User : Capped(u)'
  BY CapNext
<1>3. SessionsInv /\ (\A u \in User : Capped(u)) => CapOvershoot
  BY DEF SessionsInv, CapOvershoot, Capped
<1>4. QED
  <2> DEFINE All == \A u \in User : Capped(u)
  <2>1. Init => All
    BY <1>1
  <2>2. SessionsInv /\ All /\ [Next]_vars => All'
    BY <1>2
  <2>3. SessionsInv /\ All => CapOvershoot
    BY <1>3
  <2> HIDE DEF All
  <2>4. QED  BY <2>1, <2>2, <2>3, InvHolds, PTL DEF Spec
=============================================================================
