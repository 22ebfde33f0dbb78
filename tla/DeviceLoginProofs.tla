------------------------- MODULE DeviceLoginProofs -------------------------
(***************************************************************************)
(* Theorems about DeviceLogin, for any number of requests, streams, codes, *)
(* tokens and users.                                                       *)
(***************************************************************************)
EXTENDS DeviceLogin, TLAPS, FiniteSetTheorems

USE LoginAssumption

-----------------------------------------------------------------------------
(* The invariant *)

Beginning(w) == job[w].pc \in {"user", "device"}

Holds(w) == job[w].pc \in {"lookup", "grant", "revoke"}

\* A begin owns its code until it has listed it twice, and nobody watches the
\* code or has decided it; a decision holds a token that opens a session and
\* that no sign-in was decided by.
JobOK(w) ==
    /\ job[w].pc \in {"idle", "check"} => job[w].code = Nil
    /\ job[w].pc \notin {"idle", "check"} => job[w].code \in Code
    /\ ~ Holds(w) => job[w].token = Nil
    /\ Beginning(w) =>
           /\ job[w].code \in drawn
           /\ byDevice[job[w].code] = Nil /\ decided[job[w].code] = Nil
           /\ job[w].code \in byUser <=> job[w].pc = "device"
           /\ \A c \in Client : watch[c].code # job[w].code
    /\ Holds(w) =>
           /\ job[w].token \in Token /\ rows[job[w].token] \in User
           /\ \A d \in Code : decided[d] # job[w].token

\* Two requests never begin one sign-in, nor hold one token.
Apart(v, w) ==
    /\ Beginning(v) /\ Beginning(w) => job[v].code # job[w].code
    /\ Holds(v) /\ Holds(w) => job[v].token # job[w].token

\* A record is listed by its user code too, says how it was decided, and a code
\* that was not drawn is nowhere.
CodeOK(d) ==
    /\ d \notin drawn => byDevice[d] = Nil /\ decided[d] = Nil /\ d \notin byUser
    /\ byDevice[d] # Nil =>
           /\ d \in byUser
           /\ byDevice[d].state = "pending" => decided[d] = Nil
           /\ byDevice[d].state = "approved" => decided[d] = byDevice[d].token
           /\ byDevice[d].state = "denied" => decided[d] = "denied"
    /\ d \in byUser /\ byDevice[d] = Nil => \E w \in Worker : At(w, "device") /\ job[w].code = d
    /\ decided[d] \in Token => rows[decided[d]] \in User

\* One token decides one sign-in.
OneToken(d, e) == decided[d] \in Token /\ decided[d] = decided[e] => d = e

\* A stream that was given a token is done, and the record is gone.
StreamOK(c) ==
    /\ watch[c].code # Nil => watch[c].code \in drawn
    /\ watch[c].token # Nil =>
           /\ watch[c].code \in Code /\ watch[c].last = "approved"
           /\ watch[c].token = decided[watch[c].code]
           /\ byDevice[watch[c].code] = Nil

LoginInv ==
    /\ TypeOK
    /\ \A w \in Worker : JobOK(w)
    /\ \A v, w \in Worker : v # w => Apart(v, w)
    /\ \A d \in Code : CodeOK(d)
    /\ \A d, e \in Code : OneToken(d, e)
    /\ \A c \in Client : StreamOK(c)
    /\ DeliveredOnce

\* What the check of begin lets in, counted with what it is still letting in.
Beginners == {w \in Worker : Beginning(w)}

Bounded == Cardinality(InFlight) + Cardinality(Beginners) <= MaxPending + Cardinality(Worker) - 1

-----------------------------------------------------------------------------
(* What steps do *)

LEMMA Types ==
    ASSUME LoginInv
    PROVE  /\ TypeOK
           /\ byDevice \in [Code -> Login \cup {Nil}] /\ byUser \subseteq Code
           /\ rows \in [Token -> User \cup {"unused", "revoked"}]
           /\ job \in [Worker -> Job] /\ watch \in [Client -> Stream]
           /\ drawn \subseteq Code /\ decided \in [Code -> Token \cup {Nil, "denied"}]
           /\ mishap \subseteq Token
BY DEF LoginInv, TypeOK

LEMMA IdleIs == Idle \in Job /\ Idle.pc = "idle" /\ Idle.code = Nil /\ Idle.token = Nil
BY DEF Idle, Job

\* The step gives w another job and leaves the others theirs.
LEMMA Moves ==
    ASSUME LoginInv, NEW w \in Worker, NEW j \in Job, job' = [job EXCEPT ![w] = j]
    PROVE  /\ job' \in [Worker -> Job] /\ job'[w] = j
           /\ \A v \in Worker : v # w => job'[v] = job[v]
BY Types

LEMMA GoesTo ==
    ASSUME LoginInv, NEW w \in Worker, NEW pc, Goto(w, pc),
           pc \in {"idle", "check", "user", "device", "lookup", "grant", "revoke", "deny"}
    PROVE  /\ job' \in [Worker -> Job] /\ job'[w].pc = pc
           /\ job'[w].code = job[w].code /\ job'[w].token = job[w].token
           /\ \A v \in Worker : v # w => job'[v] = job[v]
BY Types DEF Goto, Job

LEMMA Returns ==
    ASSUME LoginInv, NEW w \in Worker, Return(w)
    PROVE  /\ job' \in [Worker -> Job] /\ job'[w] = Idle
           /\ \A v \in Worker : v # w => job'[v] = job[v]
BY Types, IdleIs DEF Return

\* The records that are left are unchanged, and each goes with its user code.
LEMMA Forgets ==
    ASSUME LoginInv, NEW S \in SUBSET InFlight,
           byDevice' = [d \in Code |-> IF d \in S THEN Nil ELSE byDevice[d]],
           byUser' = byUser \ S,
           UNCHANGED <<rows, drawn, decided>>,
           \A w \in Worker : /\ Beginning(w) => job'[w] = job[w]
                             /\ Beginning(w)' => Beginning(w)
    PROVE  /\ byDevice' \in [Code -> Login \cup {Nil}] /\ byUser' \subseteq Code
           /\ \A d \in Code : CodeOK(d)'
           /\ \A d \in Code : byDevice[d] = Nil =>
                  byDevice'[d] = Nil /\ (d \in byUser' <=> d \in byUser)
<1>1. byDevice' \in [Code -> Login \cup {Nil}] /\ byUser' \subseteq Code
  BY Types
<1>2. ASSUME NEW d \in Code PROVE CodeOK(d)'
  <2>1. CodeOK(d)
    BY DEF LoginInv
  <2>2. CASE d \in S
    BY <2>1, <2>2 DEF CodeOK
  <2>3. CASE d \notin S
    <3>1. byDevice'[d] = byDevice[d] /\ (d \in byUser' <=> d \in byUser)
      BY <2>3
    <3>2. \A w \in Worker : At(w, "device") => job'[w] = job[w]
      BY DEF Beginning, At
    <3>3. QED  BY <2>1, <3>1, <3>2 DEF CodeOK, At
  <2>4. QED  BY <2>2, <2>3
<1>3. ASSUME NEW d \in Code, byDevice[d] = Nil
      PROVE  byDevice'[d] = Nil /\ (d \in byUser' <=> d \in byUser)
  BY <1>3 DEF InFlight
<1>4. QED  BY <1>1, <1>2, <1>3

LEMMA SweepKeeps ==
    ASSUME LoginInv, NEW w \in Worker, Sweep(w)
    PROVE  LoginInv'
<1> DEFINE S == {d \in InFlight : byDevice[d].expired}
<1>1. /\ job' \in [Worker -> Job] /\ job'[w].pc = "check"
      /\ job'[w].code = job[w].code /\ job'[w].token = job[w].token
      /\ \A v \in Worker : v # w => job'[v] = job[v]
  BY GoesTo DEF Sweep
<1>2. /\ byDevice' \in [Code -> Login \cup {Nil}] /\ byUser' \subseteq Code
      /\ \A d \in Code : CodeOK(d)'
      /\ \A d \in Code : byDevice[d] = Nil =>
             byDevice'[d] = Nil /\ (d \in byUser' <=> d \in byUser)
  <2>1. /\ S \in SUBSET InFlight
        /\ byDevice' = [d \in Code |-> IF d \in S THEN Nil ELSE byDevice[d]]
        /\ byUser' = byUser \ S
        /\ UNCHANGED <<rows, drawn, decided>>
    BY DEF Sweep
  <2>2. \A v \in Worker : (Beginning(v) => job'[v] = job[v]) /\ (Beginning(v)' => Beginning(v))
    BY <1>1 DEF Sweep, At, Beginning
  <2> HIDE DEF S
  <2>3. QED  BY <2>1, <2>2, Forgets
<1>3. TypeOK'
  BY <1>1, <1>2, Types DEF Sweep, TypeOK
<1>4. ASSUME NEW v \in Worker PROVE JobOK(v)'
  BY <1>1, <1>2, Types DEF LoginInv, JobOK, Sweep, At, Beginning, Holds
<1>5. ASSUME NEW u \in Worker, NEW v \in Worker, u # v PROVE Apart(u, v)'
  BY <1>1, <1>5 DEF LoginInv, Apart, Beginning, Holds
<1>6. \A d, e \in Code : OneToken(d, e)'
  BY DEF LoginInv, OneToken, Sweep
<1>7. (\A c \in Client : StreamOK(c)') /\ DeliveredOnce'
  BY <1>2 DEF LoginInv, StreamOK, DeliveredOnce, Sweep
<1>8. QED  BY <1>2, <1>3, <1>4, <1>5, <1>6, <1>7 DEF LoginInv

LEMMA CheckKeeps ==
    ASSUME LoginInv, NEW w \in Worker, Check(w)
    PROVE  LoginInv'
<1>0. UNCHANGED <<byDevice, byUser, rows, watch, decided, mishap>> /\ JobOK(w) /\ At(w, "check")
  BY DEF Check, LoginInv
<1>1. CASE Return(w) /\ drawn' = drawn
  <2>1. /\ job' \in [Worker -> Job] /\ job'[w] = Idle
        /\ \A v \in Worker : v # w => job'[v] = job[v]
    BY <1>1, Returns
  <2>2. TypeOK'
    BY <1>0, <1>1, <2>1, Types DEF TypeOK
  <2>3. ASSUME NEW v \in Worker PROVE JobOK(v)'
    BY <1>0, <1>1, <2>1, IdleIs DEF LoginInv, JobOK, Beginning, Holds
  <2>4. ASSUME NEW u \in Worker, NEW v \in Worker, u # v PROVE Apart(u, v)'
    BY <2>1, <2>4, IdleIs DEF LoginInv, Apart, Beginning, Holds
  <2>5. ASSUME NEW d \in Code PROVE CodeOK(d)'
    <3>1. \A v \in Worker : At(v, "device") => job'[v] = job[v]
      BY <1>0, <2>1 DEF At
    <3>2. QED  BY <1>0, <1>1, <3>1 DEF LoginInv, CodeOK, At
  <2>6. (\A d, e \in Code : OneToken(d, e)') /\ (\A c \in Client : StreamOK(c)') /\ DeliveredOnce'
    BY <1>0, <1>1 DEF LoginInv, OneToken, StreamOK, DeliveredOnce
  <2>7. QED  BY <2>2, <2>3, <2>4, <2>5, <2>6 DEF LoginInv
<1>2. ASSUME NEW d \in Code \ drawn,
             job' = [job EXCEPT ![w] = [@ EXCEPT !.pc = "user", !.code = d]],
             drawn' = drawn \cup {d}
      PROVE  LoginInv'
  <2> DEFINE j == [job[w] EXCEPT !.pc = "user", !.code = d]
  <2>0. job[w] \in Job
    BY Types
  <2>1. j \in Job /\ j.pc = "user" /\ j.code = d /\ j.token = job[w].token
    BY <2>0 DEF Job
  <2>2. job' = [job EXCEPT ![w] = j]
    BY <1>2, Types
  <2> HIDE DEF j
  <2>3. /\ job' \in [Worker -> Job] /\ job'[w] = j
        /\ \A v \in Worker : v # w => job'[v] = job[v]
    BY <2>1, <2>2, Moves
  <2>4. TypeOK'
    BY <1>0, <1>2, <2>3, Types DEF TypeOK
  <2>5. byDevice[d] = Nil /\ decided[d] = Nil /\ d \notin byUser /\ \A c \in Client : watch[c].code # d
    <3>1. d # Nil
      BY DEF LoginAssumption
    <3>2. QED  BY <3>1 DEF LoginInv, CodeOK, StreamOK
  <2>6. JobOK(w)'
    BY <1>0, <1>2, <2>1, <2>3, <2>5 DEF JobOK, Beginning, Holds, At
  <2>7. ASSUME NEW v \in Worker, v # w PROVE JobOK(v)'
    BY <1>0, <1>2, <2>3, <2>7 DEF LoginInv, JobOK, Beginning, Holds
  <2>8. ASSUME NEW u \in Worker, NEW v \in Worker, u # v PROVE Apart(u, v)'
    BY <1>0, <1>2, <2>1, <2>3, <2>8 DEF LoginInv, JobOK, Apart, Beginning, Holds, At
  <2>9. ASSUME NEW e \in Code PROVE CodeOK(e)'
    <3>1. \A v \in Worker : At(v, "device") => job'[v] = job[v]
      BY <1>0, <2>3 DEF At
    <3>2. QED  BY <1>0, <1>2, <3>1 DEF LoginInv, CodeOK, At
  <2>10. (\A x, e \in Code : OneToken(x, e)') /\ (\A c \in Client : StreamOK(c)') /\ DeliveredOnce'
    BY <1>0, <1>2 DEF LoginInv, OneToken, StreamOK, DeliveredOnce
  <2>11. QED  BY <2>4, <2>6, <2>7, <2>8, <2>9, <2>10 DEF LoginInv
<1>3. QED  BY <1>1, <1>2 DEF Check

LEMMA ListUserKeeps ==
    ASSUME LoginInv, NEW w \in Worker, ListUser(w)
    PROVE  LoginInv'
<1>0. /\ UNCHANGED <<byDevice, rows, watch, drawn, decided, mishap>> /\ JobOK(w)
      /\ At(w, "user") /\ Beginning(w) /\ byUser' = byUser \cup {job[w].code}
      /\ job[w].code \in Code
  BY DEF ListUser, LoginInv, Beginning, At, JobOK
<1>1. /\ job' \in [Worker -> Job] /\ job'[w].pc = "device"
      /\ job'[w].code = job[w].code /\ job'[w].token = job[w].token
      /\ \A v \in Worker : v # w => job'[v] = job[v]
  BY GoesTo DEF ListUser
<1>2. TypeOK'
  BY <1>0, <1>1, Types DEF TypeOK
<1>3. JobOK(w)'
  BY <1>0, <1>1 DEF JobOK, Beginning, Holds, At
<1>4. ASSUME NEW v \in Worker, v # w PROVE JobOK(v)'
  BY <1>0, <1>1, <1>4 DEF LoginInv, JobOK, Apart, Beginning, Holds
<1>5. ASSUME NEW u \in Worker, NEW v \in Worker, u # v PROVE Apart(u, v)'
  BY <1>0, <1>1, <1>5 DEF LoginInv, Apart, Beginning, Holds, At
<1>6. ASSUME NEW e \in Code PROVE CodeOK(e)'
  <2>1. CodeOK(e) /\ JobOK(w)
    BY DEF LoginInv
  <2>2. (\E v \in Worker : At(v, "device") /\ job[v].code = e) =>
            \E v \in Worker : At(v, "device")' /\ job'[v].code = e
    BY <1>0, <1>1 DEF At
  <2>3. CASE e # job[w].code
    BY <1>0, <2>1, <2>2, <2>3 DEF CodeOK
  <2>4. CASE e = job[w].code
    <3>1. At(w, "device")' /\ job'[w].code = e
      BY <1>1, <2>4 DEF At
    <3>2. e \in drawn /\ byDevice[e] = Nil /\ decided[e] = Nil
      BY <1>0, <2>4 DEF JobOK
    <3>3. decided[e] \notin Token
      BY <3>2 DEF LoginAssumption
    <3>4. QED  BY <1>0, <3>1, <3>2, <3>3 DEF CodeOK
  <2>5. QED  BY <2>3, <2>4
<1>7. (\A x, e \in Code : OneToken(x, e)') /\ (\A c \in Client : StreamOK(c)') /\ DeliveredOnce'
  BY <1>0 DEF LoginInv, OneToken, StreamOK, DeliveredOnce
<1>8. QED  BY <1>2, <1>3, <1>4, <1>5, <1>6, <1>7 DEF LoginInv

LEMMA ListDeviceKeeps ==
    ASSUME LoginInv, NEW w \in Worker, ListDevice(w)
    PROVE  LoginInv'
<1>0. /\ UNCHANGED <<byUser, rows, watch, drawn, decided, mishap>> /\ JobOK(w)
      /\ At(w, "device") /\ Beginning(w) /\ job[w].code \in Code
      /\ byDevice' = [byDevice EXCEPT ![job[w].code] = NewLogin]
  BY DEF ListDevice, LoginInv, Beginning, At, JobOK
<1>1. /\ job' \in [Worker -> Job] /\ job'[w] = Idle
      /\ \A v \in Worker : v # w => job'[v] = job[v]
  BY Returns DEF ListDevice
<1>2. NewLogin \in Login /\ NewLogin.state = "pending" /\ NewLogin # Nil
  <2>1. NewLogin \in Login
    BY DEF NewLogin, Login
  <2>2. QED  BY <2>1 DEF NewLogin, LoginAssumption
<1>3. /\ byDevice' \in [Code -> Login \cup {Nil}] /\ byDevice'[job[w].code] = NewLogin
      /\ \A d \in Code : d # job[w].code => byDevice'[d] = byDevice[d]
  BY <1>0, <1>2, Types
<1>4. TypeOK'
  BY <1>0, <1>1, <1>3, Types DEF TypeOK
<1>5. ASSUME NEW v \in Worker PROVE JobOK(v)'
  BY <1>0, <1>1, <1>3, IdleIs DEF LoginInv, JobOK, Apart, Beginning, Holds
<1>6. ASSUME NEW u \in Worker, NEW v \in Worker, u # v PROVE Apart(u, v)'
  BY <1>1, <1>6, IdleIs DEF LoginInv, Apart, Beginning, Holds
<1>7. ASSUME NEW e \in Code PROVE CodeOK(e)'
  <2>1. CASE e # job[w].code
    <3>1. CodeOK(e) /\ byDevice'[e] = byDevice[e]
      BY <1>3, <2>1 DEF LoginInv
    <3>2. \A v \in Worker : job[v].code = e => job'[v] = job[v]
      BY <1>1, <2>1
    <3>3. QED  BY <1>0, <3>1, <3>2 DEF CodeOK, At
  <2>2. CASE e = job[w].code
    BY <1>0, <1>2, <1>3, <2>2 DEF JobOK, CodeOK, LoginAssumption, At
  <2>3. QED  BY <2>1, <2>2
<1>8. ASSUME NEW c \in Client PROVE StreamOK(c)'
  BY <1>0, <1>3 DEF LoginInv, StreamOK, JobOK
<1>9. (\A x, e \in Code : OneToken(x, e)') /\ DeliveredOnce'
  BY <1>0 DEF LoginInv, OneToken, DeliveredOnce
<1>10. QED  BY <1>4, <1>5, <1>6, <1>7, <1>8, <1>9 DEF LoginInv

LEMMA MintKeeps ==
    ASSUME LoginInv, NEW w \in Worker, NEW x \in User, NEW d \in Code, Mint(w, x, d)
    PROVE  LoginInv'
<1> DEFINE Rec(t) == [pc |-> "lookup", code |-> d, token |-> t]
<1>1. PICK t \in Token : /\ rows[t] = "unused" /\ rows' = [rows EXCEPT ![t] = x]
                         /\ job' = [job EXCEPT ![w] = Rec(t)]
  BY DEF Mint
<1>0. UNCHANGED <<byDevice, byUser, watch, drawn, decided, mishap>> /\ JobOK(w) /\ At(w, "idle")
  BY DEF Mint, LoginInv
<1>2. Rec(t) \in Job /\ Rec(t).pc = "lookup" /\ Rec(t).code = d /\ Rec(t).token = t
  BY DEF Job
<1> HIDE DEF Rec
<1>3. /\ job' \in [Worker -> Job] /\ job'[w] = Rec(t)
      /\ \A v \in Worker : v # w => job'[v] = job[v]
  BY <1>1, <1>2, Moves
<1>4. /\ rows' \in [Token -> User \cup {"unused", "revoked"}] /\ rows'[t] \in User
      /\ \A s \in Token : s # t => rows'[s] = rows[s]
  BY <1>1, Types
<1>5. rows[t] \notin User
  BY <1>1 DEF LoginAssumption
<1>6. \A e \in Code : decided[e] # t
  BY <1>5 DEF LoginInv, CodeOK
<1>7. TypeOK'
  BY <1>0, <1>3, <1>4, Types DEF TypeOK
<1>8. ASSUME NEW v \in Worker PROVE JobOK(v)'
  <2>1. CASE v = w
    BY <1>0, <1>2, <1>3, <1>4, <1>6, <2>1 DEF JobOK, Beginning, Holds
  <2>2. CASE v # w
    BY <1>0, <1>3, <1>4, <1>5, <2>2 DEF LoginInv, JobOK, Beginning, Holds
  <2>3. QED  BY <2>1, <2>2
<1>9. ASSUME NEW u \in Worker, NEW v \in Worker, u # v PROVE Apart(u, v)'
  <2>1. \A y \in Worker : Holds(y) => job[y].token # t
    BY <1>5 DEF LoginInv, JobOK
  <2>2. QED  BY <1>2, <1>3, <1>9, <2>1 DEF LoginInv, Apart, Beginning, Holds
<1>10. ASSUME NEW e \in Code PROVE CodeOK(e)'
  <2>1. \A v \in Worker : At(v, "device") => job'[v] = job[v]
    BY <1>0, <1>3 DEF At
  <2>2. decided[e] \in Token => rows'[decided[e]] \in User
    BY <1>4 DEF LoginInv, CodeOK
  <2>3. QED  BY <1>0, <2>1, <2>2 DEF LoginInv, CodeOK, At
<1>11. (\A a, e \in Code : OneToken(a, e)') /\ (\A c \in Client : StreamOK(c)') /\ DeliveredOnce'
  BY <1>0 DEF LoginInv, OneToken, StreamOK, DeliveredOnce
<1>12. QED  BY <1>7, <1>8, <1>9, <1>10, <1>11 DEF LoginInv

\* A step that only moves a request, and to no pc of a begin.
LEMMA JobKeeps ==
    ASSUME LoginInv, NEW w \in Worker, ~ Beginning(w),
           job' \in [Worker -> Job], \A v \in Worker : v # w => job'[v] = job[v],
           UNCHANGED <<byDevice, byUser, rows, watch, drawn, decided, mishap>>,
           ~ Beginning(w)', JobOK(w)',
           Holds(w)' => Holds(w) /\ job'[w].token = job[w].token
    PROVE  LoginInv'
<1>1. TypeOK'
  BY Types DEF TypeOK
<1>2. ASSUME NEW v \in Worker, v # w PROVE JobOK(v)'
  BY <1>2 DEF LoginInv, JobOK, Beginning, Holds
<1>3. ASSUME NEW u \in Worker, NEW v \in Worker, u # v PROVE Apart(u, v)'
  BY <1>3 DEF LoginInv, Apart, Beginning, Holds
<1>4. ASSUME NEW e \in Code PROVE CodeOK(e)'
  <2>1. \A v \in Worker : At(v, "device") => job'[v] = job[v]
    BY DEF At, Beginning
  <2>2. QED  BY <2>1 DEF LoginInv, CodeOK, At
<1>5. (\A a, e \in Code : OneToken(a, e)') /\ (\A c \in Client : StreamOK(c)') /\ DeliveredOnce'
  BY DEF LoginInv, OneToken, StreamOK, DeliveredOnce
<1>6. QED  BY <1>1, <1>2, <1>3, <1>4, <1>5 DEF LoginInv

LEMMA LookupKeeps ==
    ASSUME LoginInv, NEW w \in Worker, Lookup(w)
    PROVE  LoginInv'
<1>0. /\ UNCHANGED <<byDevice, byUser, rows, watch, drawn, decided, mishap>>
      /\ JobOK(w) /\ Holds(w) /\ ~ Beginning(w)
  BY DEF Lookup, LoginInv, Holds, Beginning, At
<1>1. PICK pc \in {"grant", "revoke"} : Goto(w, pc)
  BY DEF Lookup
<1>2. /\ job' \in [Worker -> Job] /\ job'[w].pc = pc
      /\ job'[w].code = job[w].code /\ job'[w].token = job[w].token
      /\ \A v \in Worker : v # w => job'[v] = job[v]
  BY <1>1, GoesTo
<1>3. JobOK(w)' /\ ~ Beginning(w)'
  BY <1>0, <1>2 DEF JobOK, Beginning, Holds
<1>4. QED  BY <1>0, <1>2, <1>3, JobKeeps

LEMMA DenyKeeps ==
    ASSUME LoginInv, NEW w \in Worker, NEW d \in Code, Deny(w, d)
    PROVE  LoginInv'
<1> DEFINE j == [job[w] EXCEPT !.pc = "deny", !.code = d]
<1>0. /\ UNCHANGED <<byDevice, byUser, rows, watch, drawn, decided, mishap>>
      /\ JobOK(w) /\ At(w, "idle") /\ job[w] \in Job
  BY Types DEF Deny, LoginInv
<1>1. j \in Job /\ j.pc = "deny" /\ j.code = d /\ j.token = job[w].token
  BY <1>0 DEF Job
<1>2. job' = [job EXCEPT ![w] = j]
  BY Types DEF Deny
<1> HIDE DEF j
<1>3. /\ job' \in [Worker -> Job] /\ job'[w] = j
      /\ \A v \in Worker : v # w => job'[v] = job[v]
  BY <1>1, <1>2, Moves
<1>4. JobOK(w)' /\ ~ Beginning(w)' /\ ~ Beginning(w) /\ ~ Holds(w)'
  BY <1>0, <1>1, <1>3 DEF JobOK, Beginning, Holds, At
<1>5. QED  BY <1>0, <1>3, <1>4, JobKeeps

LEMMA RevokeKeeps ==
    ASSUME LoginInv, NEW w \in Worker, Revoke(w)
    PROVE  LoginInv'
<1>0. /\ UNCHANGED <<byDevice, byUser, watch, drawn, decided>>
      /\ JobOK(w) /\ Holds(w) /\ ~ Beginning(w)
  BY DEF Revoke, LoginInv, Holds, Beginning, At
<1>1. /\ job' \in [Worker -> Job] /\ job'[w] = Idle
      /\ \A v \in Worker : v # w => job'[v] = job[v]
  BY Returns DEF Revoke
<1>2. job[w].token \in Token /\ \A e \in Code : decided[e] # job[w].token
  BY <1>0 DEF JobOK
<1>3. /\ rows' \in [Token -> User \cup {"unused", "revoked"}] /\ mishap' \subseteq Token
      /\ \A s \in Token : s # job[w].token => rows'[s] = rows[s]
  BY <1>2, Types DEF Revoke
<1>4. TypeOK'
  BY <1>0, <1>1, <1>3, Types DEF TypeOK
<1>5. ASSUME NEW v \in Worker PROVE JobOK(v)'
  BY <1>0, <1>1, <1>3, IdleIs DEF LoginInv, JobOK, Apart, Beginning, Holds
<1>6. ASSUME NEW u \in Worker, NEW v \in Worker, u # v PROVE Apart(u, v)'
  BY <1>1, <1>6, IdleIs DEF LoginInv, Apart, Beginning, Holds
<1>7. ASSUME NEW e \in Code PROVE CodeOK(e)'
  <2>1. \A v \in Worker : At(v, "device") => job'[v] = job[v]
    BY <1>0, <1>1 DEF At, Beginning
  <2>2. decided[e] \in Token => rows'[decided[e]] \in User
    BY <1>2, <1>3 DEF LoginInv, CodeOK
  <2>3. QED  BY <1>0, <2>1, <2>2 DEF LoginInv, CodeOK, At
<1>8. (\A a, e \in Code : OneToken(a, e)') /\ (\A c \in Client : StreamOK(c)') /\ DeliveredOnce'
  BY <1>0 DEF LoginInv, OneToken, StreamOK, DeliveredOnce
<1>9. QED  BY <1>4, <1>5, <1>6, <1>7, <1>8 DEF LoginInv

\* A decision: the record of a pending sign-in and the history agree on it, and
\* the request that made it keeps no token.
LEMMA DecideKeeps ==
    ASSUME LoginInv, NEW w \in Worker, NEW d \in Code, Decidable(d), ~ Beginning(w),
           NEW r \in Login, NEW k \in Token \cup {"denied"},
           byDevice' = [byDevice EXCEPT ![d] = r], decided' = [decided EXCEPT ![d] = k],
           \/ r.state = "approved" /\ r.token = k /\ Holds(w) /\ k = job[w].token
           \/ r.state = "denied" /\ k = "denied",
           Return(w), UNCHANGED <<byUser, rows, watch, drawn, mishap>>
    PROVE  LoginInv'
<1>0. byDevice[d] # Nil /\ byDevice[d].state = "pending" /\ r # Nil
  BY DEF Decidable, LoginAssumption
<1>1. /\ job' \in [Worker -> Job] /\ job'[w] = Idle
      /\ \A v \in Worker : v # w => job'[v] = job[v]
  BY Returns
<1>2. /\ byDevice' \in [Code -> Login \cup {Nil}] /\ byDevice'[d] = r
      /\ \A e \in Code : e # d => byDevice'[e] = byDevice[e]
  BY Types
<1>3. /\ decided' \in [Code -> Token \cup {Nil, "denied"}] /\ decided'[d] = k
      /\ \A e \in Code : e # d => decided'[e] = decided[e]
  BY Types
<1>4. k \in Token => rows[k] \in User /\ (\A e \in Code : decided[e] # k)
                     /\ \A v \in Worker : v # w /\ Holds(v) => job[v].token # k
  <2>1. SUFFICES ASSUME k \in Token, k # "denied" PROVE Holds(w) /\ k = job[w].token
    BY DEF LoginInv, JobOK, Apart, LoginAssumption
  <2>2. QED  BY <2>1
<1>5. TypeOK'
  BY <1>1, <1>2, <1>3, Types DEF TypeOK
<1>6. ASSUME NEW v \in Worker PROVE JobOK(v)'
  <2>1. CASE v = w
    BY <1>1, <2>1, IdleIs DEF JobOK, Beginning, Holds
  <2>2. CASE v # w
    <3>1. job'[v] = job[v] /\ JobOK(v)
      BY <1>1, <2>2 DEF LoginInv
    <3>2. Beginning(v) => job[v].code # d
      BY <1>0, <3>1 DEF JobOK
    <3>3. Holds(v) => \A e \in Code : decided'[e] # job[v].token
      BY <1>3, <1>4, <2>2, <3>1 DEF JobOK
    <3>4. Beginning(v) => job[v].code \in Code
      BY <3>1 DEF JobOK, Beginning
    <3>5. QED  BY <1>2, <1>3, <3>1, <3>2, <3>3, <3>4 DEF JobOK, Beginning, Holds
  <2>3. QED  BY <2>1, <2>2
<1>7. ASSUME NEW u \in Worker, NEW v \in Worker, u # v PROVE Apart(u, v)'
  BY <1>1, <1>7, IdleIs DEF LoginInv, Apart, Beginning, Holds
<1>8. ASSUME NEW e \in Code PROVE CodeOK(e)'
  <2>1. \A v \in Worker : At(v, "device") => job'[v] = job[v]
    BY <1>1 DEF At, Beginning
  <2>2. CodeOK(e)
    BY DEF LoginInv
  <2>3. CASE e # d
    <3>1. byDevice'[e] = byDevice[e] /\ decided'[e] = decided[e]
      BY <1>2, <1>3, <2>3
    <3>2. QED  BY <2>1, <2>2, <3>1 DEF CodeOK, At
  <2>4. CASE e = d
    <3>1. e \in drawn /\ e \in byUser
      BY <1>0, <2>2, <2>4 DEF CodeOK
    <3>2. (r.state = "approved" /\ r.token = k) \/ (r.state = "denied" /\ k = "denied")
      OBVIOUS
    <3>3. byDevice'[e] = r /\ decided'[e] = k
      BY <1>2, <1>3, <2>4
    <3>4. rows' = rows /\ e \in drawn' /\ e \in byUser'
      BY <3>1
    <3>5. QED  BY <1>0, <1>4, <3>2, <3>3, <3>4 DEF CodeOK
  <2>5. QED  BY <2>3, <2>4
<1>9. ASSUME NEW a \in Code, NEW e \in Code PROVE OneToken(a, e)'
  BY <1>3, <1>4 DEF LoginInv, OneToken
<1>10. ASSUME NEW c \in Client PROVE StreamOK(c)'
  <2>1. StreamOK(c)
    BY DEF LoginInv
  <2>2. watch[c].token # Nil => watch[c].code # d
    BY <1>0, <2>1 DEF StreamOK
  <2>3. QED  BY <1>2, <1>3, <2>1, <2>2 DEF StreamOK
<1>11. DeliveredOnce'
  BY DEF LoginInv, DeliveredOnce
<1>12. QED  BY <1>5, <1>6, <1>7, <1>8, <1>9, <1>10, <1>11 DEF LoginInv

LEMMA GrantKeeps ==
    ASSUME LoginInv, NEW w \in Worker, Grant(w)
    PROVE  LoginInv'
<1>0. /\ UNCHANGED <<byUser, rows, watch, drawn, mishap>> /\ JobOK(w)
      /\ Holds(w) /\ ~ Beginning(w) /\ job[w].code \in Code /\ job[w].token \in Token
  BY DEF Grant, LoginInv, Holds, Beginning, At, JobOK
<1>1. PICK d \in Code : d = job[w].code
  BY <1>0
<1>2. PICK t \in Token : t = job[w].token
  BY <1>0
<1>3. CASE Decidable(d)
  <2> DEFINE r == [byDevice[d] EXCEPT !.state = "approved", !.token = t]
  <2>1. byDevice[d] \in Login
    BY <1>3, Types DEF Decidable
  <2>2. r \in Login /\ r.state = "approved" /\ r.token = t
    BY <2>1 DEF Login
  <2>3. /\ byDevice' = [byDevice EXCEPT ![d] = r]
        /\ decided' = [decided EXCEPT ![d] = t] /\ Return(w)
    BY <1>1, <1>2, <1>3, Types DEF Grant
  <2> HIDE DEF r
  <2>4. QED  BY <1>0, <1>2, <1>3, <2>2, <2>3, DecideKeeps
<1>4. CASE ~ Decidable(d)
  <2>1. Goto(w, "revoke") /\ UNCHANGED <<byDevice, decided>>
    BY <1>1, <1>4 DEF Grant
  <2>2. /\ job' \in [Worker -> Job] /\ job'[w].pc = "revoke"
        /\ job'[w].code = job[w].code /\ job'[w].token = job[w].token
        /\ \A v \in Worker : v # w => job'[v] = job[v]
    BY <2>1, GoesTo
  <2>3. JobOK(w)' /\ ~ Beginning(w)'
    BY <1>0, <2>1, <2>2 DEF JobOK, Beginning, Holds
  <2>4. QED  BY <1>0, <2>1, <2>2, <2>3, JobKeeps
<1>5. QED  BY <1>3, <1>4

LEMMA SetDeniedKeeps ==
    ASSUME LoginInv, NEW w \in Worker, SetDenied(w)
    PROVE  LoginInv'
<1>0. /\ UNCHANGED <<byUser, rows, watch, drawn, mishap>> /\ JobOK(w)
      /\ ~ Beginning(w) /\ job[w].code \in Code /\ Return(w)
  BY DEF SetDenied, LoginInv, Beginning, At, JobOK
<1>1. PICK d \in Code : d = job[w].code
  BY <1>0
<1>2. CASE Decidable(d)
  <2> DEFINE r == [byDevice[d] EXCEPT !.state = "denied"]
  <2>1. byDevice[d] \in Login /\ byDevice[d].state = "pending"
    BY <1>2, Types DEF Decidable
  <2>2. r \in Login /\ r.state = "denied"
    BY <2>1 DEF Login
  <2>3. /\ byDevice' = [byDevice EXCEPT ![d] = r]
        /\ decided' = [decided EXCEPT ![d] = "denied"]
    BY <1>1, <1>2, Types DEF SetDenied
  <2> HIDE DEF r
  <2>4. QED  BY <1>0, <1>2, <2>2, <2>3, DecideKeeps
<1>3. CASE ~ Decidable(d)
  <2>1. UNCHANGED <<byDevice, decided>>
    BY <1>1, <1>3 DEF SetDenied
  <2>2. /\ job' \in [Worker -> Job] /\ job'[w] = Idle
        /\ \A v \in Worker : v # w => job'[v] = job[v]
    BY <1>0, Returns
  <2>3. JobOK(w)' /\ ~ Beginning(w)' /\ ~ Holds(w)'
    BY <2>2, IdleIs DEF JobOK, Beginning, Holds
  <2>4. QED  BY <1>0, <2>1, <2>2, <2>3, JobKeeps
<1>4. QED  BY <1>2, <1>3

LEMMA WatchKeeps ==
    ASSUME LoginInv, NEW c \in Client, Watch(c)
    PROVE  LoginInv'
<1>0. /\ UNCHANGED <<rows, job, drawn, decided, mishap>> /\ watch[c].code \in Code
      /\ watch[c] \in Stream /\ StreamOK(c)
  BY Types DEF Watch, Watching, LoginInv, Stream
<1>1. PICK d \in Code : d = watch[c].code
  BY <1>0
<1>2. PICK S \in SUBSET Code : S = IF Consumed(d) THEN {d} ELSE {}
  OBVIOUS
<1>3. PICK t \in Token \cup {Nil} : t = IF Polled(d) = "approved" THEN byDevice[d].token ELSE Nil
  <2>1. Polled(d) = "approved" => byDevice[d] \in Login /\ byDevice[d].token \in Token
    BY Types DEF Polled, Login
  <2>2. QED  BY <2>1
<1>4. PICK st \in Status : st = Polled(d)
  BY Types DEF Polled, Login, Status
<1> DEFINE s == [watch[c] EXCEPT !.last = st, !.token = t]
<1>5. s \in Stream /\ s.last = st /\ s.token = t /\ s.code = d
  BY <1>0, <1>1 DEF Stream
<1>6. watch' = [watch EXCEPT ![c] = s]
  BY <1>1, <1>3, <1>4, Types DEF Watch
<1> HIDE DEF s
<1>7. /\ watch' \in [Client -> Stream] /\ watch'[c] = s
      /\ \A e \in Client : e # c => watch'[e] = watch[e]
  BY <1>5, <1>6, Types
<1>8. /\ S \in SUBSET InFlight
      /\ byDevice' = [e \in Code |-> IF e \in S THEN Nil ELSE byDevice[e]]
      /\ byUser' = byUser \ S
  <2>1. CASE Consumed(d)
    BY <1>1, <1>2, <2>1, Types DEF Watch, Consumed, InFlight
  <2>2. CASE ~ Consumed(d)
    BY <1>1, <1>2, <2>2, Types DEF Watch
  <2>3. QED  BY <2>1, <2>2
<1>9. /\ byDevice' \in [Code -> Login \cup {Nil}] /\ byUser' \subseteq Code
      /\ \A e \in Code : CodeOK(e)'
      /\ \A e \in Code : byDevice[e] = Nil =>
             byDevice'[e] = Nil /\ (e \in byUser' <=> e \in byUser)
  <2>1. \A w \in Worker : (Beginning(w) => job'[w] = job[w]) /\ (Beginning(w)' => Beginning(w))
    BY <1>0 DEF Beginning
  <2>2. QED  BY <1>0, <1>8, <2>1, Forgets
<1>10. TypeOK'
  BY <1>0, <1>7, <1>9, Types DEF TypeOK
<1>11. ASSUME NEW v \in Worker PROVE JobOK(v)'
  <2>1. JobOK(v) /\ job' = job
    BY <1>0 DEF LoginInv
  <2>2. \A e \in Client : watch'[e].code = watch[e].code
    BY <1>1, <1>5, <1>7
  <2>3. QED  BY <1>0, <1>9, <2>1, <2>2 DEF JobOK, Beginning, Holds
<1>12. \A u, v \in Worker : u # v => Apart(u, v)'
  BY <1>0 DEF LoginInv, Apart, Beginning, Holds
<1>13. \A a, e \in Code : OneToken(a, e)'
  BY <1>0 DEF LoginInv, OneToken
<1>14. t # Nil => /\ byDevice[d] # Nil /\ byDevice'[d] = Nil /\ st = "approved"
                  /\ t = decided[d] /\ t \in Token
  <2>1. SUFFICES ASSUME t # Nil
                 PROVE  /\ byDevice[d] # Nil /\ byDevice'[d] = Nil /\ st = "approved"
                        /\ t = decided[d]
    OBVIOUS
  <2>2. Polled(d) = "approved"
    BY <1>3, <2>1
  <2>3. byDevice[d] # Nil /\ byDevice[d].state = "approved" /\ Consumed(d)
    BY <2>2 DEF Polled, Consumed
  <2>4. decided[d] = byDevice[d].token
    BY <2>3 DEF LoginInv, CodeOK
  <2>5. QED  BY <1>2, <1>3, <1>4, <1>8, <2>2, <2>3, <2>4
<1>15. ASSUME NEW e \in Client PROVE StreamOK(e)'
  <2>1. CASE e = c
    BY <1>0, <1>1, <1>5, <1>7, <1>14, <2>1 DEF StreamOK
  <2>2. CASE e # c
    <3>1. watch'[e] = watch[e] /\ StreamOK(e)
      BY <1>7, <2>2 DEF LoginInv
    <3>2. QED  BY <1>0, <1>9, <3>1 DEF StreamOK
  <2>3. QED  BY <2>1, <2>2
<1>16. ASSUME NEW e \in Client, e # c PROVE t = Nil \/ watch[e].token # t
  <2>1. SUFFICES ASSUME t # Nil, watch[e].token = t PROVE FALSE
    OBVIOUS
  <2>2. /\ watch[e].code \in Code /\ decided[watch[e].code] = t
        /\ byDevice[watch[e].code] = Nil
    BY <2>1 DEF LoginInv, StreamOK
  <2>3. watch[e].code = d
    BY <1>14, <2>1, <2>2 DEF LoginInv, OneToken
  <2>4. QED  BY <1>14, <2>1, <2>2, <2>3
<1>17. DeliveredOnce'
  <2>1. DeliveredOnce
    BY DEF LoginInv
  <2>2. QED  BY <1>5, <1>7, <1>16, <2>1 DEF DeliveredOnce
<1>18. QED
  BY <1>9, <1>10, <1>11, <1>12, <1>13, <1>15, <1>17 DEF LoginInv

LEMMA OpenKeeps ==
    ASSUME LoginInv, NEW c \in Client, NEW d \in Code, Open(c, d)
    PROVE  LoginInv'
<1>0. /\ UNCHANGED <<byDevice, byUser, rows, job, drawn, decided, mishap>>
      /\ watch[c] = Closed /\ d \in drawn
      /\ \A w \in Worker : Beginning(w) => job[w].code # d
      /\ watch' = [watch EXCEPT ![c].code = d] /\ watch[c] \in Stream
  BY Types DEF Open, Beginning
<1>1. /\ watch' \in [Client -> Stream] /\ watch'[c].code = d /\ watch'[c].token = Nil
      /\ \A e \in Client : e # c => watch'[e] = watch[e]
  BY <1>0, Types DEF Closed, Stream
<1>2. TypeOK'
  BY <1>0, <1>1, Types DEF TypeOK
<1>3. ASSUME NEW v \in Worker PROVE JobOK(v)'
  <2>1. Beginning(v) => \A e \in Client : watch'[e].code # job[v].code
    BY <1>0, <1>1 DEF LoginInv, JobOK
  <2>2. QED  BY <1>0, <2>1 DEF LoginInv, JobOK, Beginning, Holds
<1>4. (\A u, v \in Worker : u # v => Apart(u, v)') /\ \A a, e \in Code : OneToken(a, e)'
  BY <1>0 DEF LoginInv, Apart, Beginning, Holds, OneToken
<1>5. \A e \in Code : CodeOK(e)'
  BY <1>0 DEF LoginInv, CodeOK, At
<1>6. ASSUME NEW e \in Client PROVE StreamOK(e)'
  BY <1>0, <1>1 DEF LoginInv, StreamOK
<1>7. DeliveredOnce'
  BY <1>0, <1>1 DEF LoginInv, DeliveredOnce
<1>8. QED  BY <1>2, <1>3, <1>4, <1>5, <1>6, <1>7 DEF LoginInv

LEMMA ExpireKeeps ==
    ASSUME LoginInv, NEW d \in Code, Expire(d)
    PROVE  LoginInv'
<1>0. /\ UNCHANGED <<byUser, rows, job, watch, drawn, decided, mishap>>
      /\ byDevice[d] \in Login
  BY Types DEF Expire
<1> DEFINE r == [byDevice[d] EXCEPT !.expired = TRUE]
<1>1. /\ r \in Login /\ r.state = byDevice[d].state /\ r.token = byDevice[d].token
  BY <1>0 DEF Login
<1>2. byDevice' = [byDevice EXCEPT ![d] = r]
  BY Types DEF Expire
<1>3. r # Nil /\ byDevice[d] # Nil
  BY <1>0, <1>1 DEF LoginAssumption
<1> HIDE DEF r
<1>4. /\ byDevice' \in [Code -> Login \cup {Nil}] /\ byDevice'[d] = r
      /\ \A e \in Code : e # d => byDevice'[e] = byDevice[e]
  BY <1>1, <1>2, Types
<1>5. \A e \in Code : byDevice'[e] = Nil <=> byDevice[e] = Nil
  BY <1>3, <1>4
<1>6. TypeOK'
  BY <1>0, <1>4, Types DEF TypeOK
<1>7. ASSUME NEW v \in Worker PROVE JobOK(v)'
  <2>1. JobOK(v) /\ (Beginning(v) => job[v].code \in Code)
    BY DEF LoginInv, JobOK, Beginning
  <2>2. QED  BY <1>0, <1>5, <2>1 DEF JobOK, Beginning, Holds
<1>8. (\A u, v \in Worker : u # v => Apart(u, v)') /\ \A a, e \in Code : OneToken(a, e)'
  BY <1>0 DEF LoginInv, Apart, Beginning, Holds, OneToken
<1>9. ASSUME NEW e \in Code PROVE CodeOK(e)'
  BY <1>0, <1>1, <1>3, <1>4 DEF LoginInv, CodeOK, At
<1>10. ASSUME NEW e \in Client PROVE StreamOK(e)'
  BY <1>0, <1>5 DEF LoginInv, StreamOK
<1>11. DeliveredOnce'
  BY <1>0 DEF LoginInv, DeliveredOnce
<1>12. QED  BY <1>6, <1>7, <1>8, <1>9, <1>10, <1>11 DEF LoginInv

LEMMA CrashKeeps ==
    ASSUME LoginInv, Crash
    PROVE  LoginInv'
<1>0. UNCHANGED <<rows, drawn, decided>> /\ byUser' = {}
  BY DEF Crash
<1>1. byDevice' \in [Code -> Login \cup {Nil}] /\ \A d \in Code : byDevice'[d] = Nil
  BY DEF Crash
<1>2. job' \in [Worker -> Job] /\ \A w \in Worker : job'[w] = Idle
  BY IdleIs DEF Crash
<1>3. mishap' \subseteq Token
  <2>1. \A w \in Worker : job[w].token \in Token \cup {Nil}
    BY Types DEF Job
  <2>2. QED  BY <2>1, Types DEF Crash
<1>4. /\ watch' \in [Client -> Stream]
      /\ \A c \in Client : watch'[c] = Closed \/ watch'[c] = watch[c]
  <2>1. Closed \in Stream
    BY DEF Closed, Stream
  <2>2. QED  BY <2>1, Types DEF Crash
<1>5. TypeOK'
  BY <1>0, <1>1, <1>2, <1>3, <1>4, Types DEF TypeOK
<1>6. ASSUME NEW v \in Worker PROVE JobOK(v)'
  BY <1>2, IdleIs DEF JobOK, Beginning, Holds
<1>7. \A u, v \in Worker : u # v => Apart(u, v)'
  BY <1>2, IdleIs DEF Apart, Beginning, Holds
<1>8. ASSUME NEW e \in Code PROVE CodeOK(e)'
  BY <1>0, <1>1 DEF LoginInv, CodeOK
<1>9. \A a, e \in Code : OneToken(a, e)'
  BY <1>0 DEF LoginInv, OneToken
<1>10. ASSUME NEW e \in Client PROVE StreamOK(e)'
  BY <1>0, <1>1, <1>4 DEF LoginInv, StreamOK, Closed
<1>11. DeliveredOnce'
  <2>1. \A c \in Client : watch'[c].token = Nil \/ watch'[c].token = watch[c].token
    BY <1>4 DEF Closed
  <2>2. QED  BY <2>1 DEF LoginInv, DeliveredOnce
<1>12. QED  BY <1>5, <1>6, <1>7, <1>8, <1>9, <1>10, <1>11 DEF LoginInv

LEMMA LoginInit == Init => LoginInv
<1> SUFFICES ASSUME Init PROVE LoginInv
  OBVIOUS
<1>1. TypeOK
  BY IdleIs DEF Init, TypeOK, Closed, Stream
<1>2. \A w \in Worker : job[w] = Idle
  BY DEF Init
<1>3. \A d \in Code : byDevice[d] = Nil /\ decided[d] = Nil
  BY DEF Init
<1>4. \A c \in Client : watch[c].token = Nil /\ watch[c].code = Nil
  BY DEF Init, Closed
<1>5. Nil \notin Token
  BY DEF LoginAssumption
<1>6. \A w \in Worker : JobOK(w) /\ \A v \in Worker : Apart(v, w)
  BY <1>2, IdleIs DEF JobOK, Apart, Beginning, Holds
<1>7. \A d \in Code : CodeOK(d) /\ \A e \in Code : OneToken(d, e)
  BY <1>3, <1>5 DEF Init, CodeOK, OneToken
<1>8. (\A c \in Client : StreamOK(c)) /\ DeliveredOnce
  BY <1>4 DEF StreamOK, DeliveredOnce
<1>9. QED  BY <1>1, <1>6, <1>7, <1>8 DEF LoginInv

LEMMA LoginNext == LoginInv /\ [Next]_vars => LoginInv'
<1> SUFFICES ASSUME LoginInv, [Next]_vars PROVE LoginInv'
  OBVIOUS
<1>1. CASE UNCHANGED vars
  BY <1>1 DEF vars, LoginInv, TypeOK, JobOK, Apart, CodeOK, OneToken, StreamOK, DeliveredOnce,
              Beginning, Holds, At
<1>2. QED
  BY <1>1, SweepKeeps, CheckKeeps, ListUserKeeps, ListDeviceKeeps, MintKeeps, LookupKeeps,
     GrantKeeps, RevokeKeeps, DenyKeeps, SetDeniedKeeps, WatchKeeps, OpenKeeps, ExpireKeeps,
     CrashKeeps DEF Next

\* The types, and what holds a sign-in together: who owns its code while it
\* begins, who holds its token while it is decided, and who was given it.
THEOREM InvHolds == Spec => []LoginInv
<1>1. Init => LoginInv
  BY LoginInit
<1>2. LoginInv /\ [Next]_vars => LoginInv'
  BY LoginNext
<1>3. QED  BY <1>1, <1>2, PTL DEF Spec

\* A user code leads nowhere only while a begin is between its two inserts, and
\* no sign-in has lost the code that decides it (login.rs begin, sweep, poll:
\* by_device and by_user are changed under two locks, one after the other).
THEOREM MapsAgreeHolds == Spec => []MapsAgree
<1>1. LoginInv => MapsAgree
  <2> SUFFICES ASSUME LoginInv PROVE MapsAgree
    OBVIOUS
  <2>1. InFlight \subseteq byUser
    BY DEF LoginInv, CodeOK, InFlight
  <2>2. \A d \in byUser \ InFlight : \E w \in Worker : At(w, "device") /\ job[w].code = d
    BY Types DEF LoginInv, CodeOK, InFlight
  <2>3. QED  BY <2>1, <2>2, Types DEF MapsAgree
<1>2. QED  BY <1>1, InvHolds, PTL

\* "An approved request yields its token exactly once" (login.rs poll), however
\* many streams watch its code.
THEOREM DeliveredOnceHolds == Spec => []DeliveredOnce
<1>1. LoginInv => DeliveredOnce
  BY DEF LoginInv
<1>2. QED  BY <1>1, InvHolds, PTL

\* A token that waits for its tool, or that it was given, opens a session: a
\* decision that lost revokes only the token it minted itself (auth.rs
\* decide_login).
THEOREM HandedOutIsGoodHolds == Spec => []HandedOutIsGood
<1>1. LoginInv => HandedOutIsGood
  <2> SUFFICES ASSUME LoginInv PROVE HandedOutIsGood
    OBVIOUS
  <2>2. ASSUME NEW d \in InFlight, byDevice[d].state = "approved"
        PROVE  byDevice[d].token = decided[d] /\ rows[byDevice[d].token] \in User
    <3>1. d \in Code /\ byDevice[d] \in Login
      BY Types DEF InFlight
    <3>2. byDevice[d].token \in Token
      BY <2>2, <3>1 DEF Login
    <3>3. CodeOK(d)
      BY <3>1 DEF LoginInv
    <3>4. QED  BY <2>2, <3>2, <3>3 DEF CodeOK, InFlight
  <2>3. ASSUME NEW c \in Client, watch[c].token # Nil
        PROVE  watch[c].token = decided[watch[c].code] /\ rows[watch[c].token] \in User
    <3>1. watch[c].token \in Token
      BY <2>3, Types DEF Stream
    <3>2. watch[c].code \in Code /\ watch[c].token = decided[watch[c].code]
      BY <2>3 DEF LoginInv, StreamOK
    <3>3. QED  BY <3>1, <3>2 DEF LoginInv, CodeOK
  <2>4. QED  BY <2>2, <2>3 DEF HandedOutIsGood
<1>2. QED  BY <1>1, InvHolds, PTL

-----------------------------------------------------------------------------
(* Decisions *)

\* Only a sign-in that is pending is decided, and a pending one was not.
LEMMA DecidedStep ==
    ASSUME LoginInv, [Next]_vars, NEW d \in Code, decided[d] # Nil
    PROVE  decided'[d] = decided[d]
<1>1. ASSUME NEW w \in Worker, Grant(w) PROVE decided'[d] = decided[d]
  <2>1. decided' = decided \/ (/\ Decidable(job[w].code)
                               /\ decided' = [decided EXCEPT ![job[w].code] = job[w].token])
    BY <1>1 DEF Grant
  <2>2. Decidable(d) => FALSE
    BY DEF Decidable, LoginInv, CodeOK
  <2>3. QED  BY <2>1, <2>2, Types
<1>2. ASSUME NEW w \in Worker, SetDenied(w) PROVE decided'[d] = decided[d]
  <2>1. decided' = decided \/ (/\ Decidable(job[w].code)
                               /\ decided' = [decided EXCEPT ![job[w].code] = "denied"])
    BY <1>2 DEF SetDenied
  <2>2. Decidable(d) => FALSE
    BY DEF Decidable, LoginInv, CodeOK
  <2>3. QED  BY <2>1, <2>2, Types
<1>3. ASSUME ~ \E w \in Worker : Grant(w) \/ SetDenied(w)
      PROVE  decided' = decided
  BY <1>3 DEF Next, vars, Sweep, Check, ListUser, ListDevice, Mint, Lookup, Revoke, Deny, Watch,
              Open, Expire, Crash
<1>4. QED  BY <1>1, <1>2, <1>3

\* A sign-in is decided once, whatever browsers race to decide it (login.rs
\* set_state changes a pending record only).
THEOREM OneDecisionHolds == Spec => OneDecision
<1>1. LoginInv /\ [Next]_vars =>
          [\A d \in Code : decided[d] # Nil => decided'[d] = decided[d]]_vars
  BY DecidedStep
<1>2. QED  BY <1>1, InvHolds, PTL DEF Spec, OneDecision

-----------------------------------------------------------------------------
(* Sessions nobody was offered *)

Held(t) ==
    \/ \E w \in Worker : job[w].token = t
    \/ \E d \in Code : decided[d] = t
    \/ t \in mishap

\* A request lets its token go only to a decision, a revocation or a mishap.
LEMMA TokenStep ==
    ASSUME LoginInv, [Next]_vars, NEW w \in Worker, NEW t \in Token, job[w].token = t
    PROVE  job'[w].token = t \/ (\E d \in Code : decided'[d] = t) \/ rows'[t] \notin User
               \/ t \in mishap'
<1>0. t # Nil /\ Holds(w) /\ job[w].code \in Code
  BY DEF LoginInv, JobOK, Holds, LoginAssumption
<1>1. CASE Lookup(w)
  BY <1>1, GoesTo DEF Lookup
<1>2. CASE Grant(w)
  <2>1. CASE Decidable(job[w].code)
    BY <1>0, <1>2, <2>1, Types DEF Grant
  <2>2. CASE ~ Decidable(job[w].code)
    BY <1>2, <2>2, GoesTo DEF Grant
  <2>3. QED  BY <2>1, <2>2
<1>3. CASE Revoke(w)
  <2>1. CASE rows' = [rows EXCEPT ![job[w].token] = "revoked"]
    <3>1. rows'[t] = "revoked"
      BY <2>1, Types
    <3>2. QED  BY <3>1 DEF LoginAssumption
  <2>2. CASE mishap' = mishap \cup {job[w].token}
    BY <2>2
  <2>3. QED  BY <1>3, <2>1, <2>2 DEF Revoke
<1>4. CASE Crash
  BY <1>0, <1>4 DEF Crash
<1>5. ASSUME NEW v \in Worker, v # w,
             \/ Sweep(v) \/ Check(v) \/ ListUser(v) \/ ListDevice(v)
             \/ \E u \in User, d \in Code : Mint(v, u, d)
             \/ Lookup(v) \/ Grant(v) \/ Revoke(v)
             \/ \E d \in Code : Deny(v, d)
             \/ SetDenied(v)
      PROVE  job'[w] = job[w]
  BY <1>5, Types DEF Sweep, Check, ListUser, ListDevice, Mint, Lookup, Grant, Revoke, Deny,
                     SetDenied, Goto, Return
<1>6. ASSUME \/ Sweep(w) \/ Check(w) \/ ListUser(w) \/ ListDevice(w)
             \/ \E u \in User, d \in Code : Mint(w, u, d) \/ Deny(w, d)
             \/ SetDenied(w)
      PROVE  FALSE
  BY <1>0, <1>6 DEF Sweep, Check, ListUser, ListDevice, Mint, Deny, SetDenied, At, Holds
<1>7. CASE (\E c \in Client : Watch(c) \/ \E d \in Code : Open(c, d))
               \/ (\E d \in Code : Expire(d)) \/ UNCHANGED vars
  BY <1>7 DEF Watch, Open, Expire, vars
<1>8. QED  BY <1>1, <1>2, <1>3, <1>4, <1>5, <1>6, <1>7 DEF Next

\* Only a mint makes a session, and its request holds the token.
LEMMA SessionStep ==
    ASSUME LoginInv, [Next]_vars, NEW t \in Token, rows[t] \notin User, rows'[t] \in User
    PROVE  \E w \in Worker : job'[w].token = t
<1>1. ASSUME NEW w \in Worker, NEW u \in User, NEW d \in Code, Mint(w, u, d)
      PROVE  \E v \in Worker : job'[v].token = t
  <2>1. PICK s \in Token : /\ rows' = [rows EXCEPT ![s] = u]
                           /\ job' = [job EXCEPT ![w] = [pc |-> "lookup", code |-> d, token |-> s]]
    BY <1>1 DEF Mint
  <2>2. s = t
    BY <2>1, Types
  <2>3. job'[w].token = t
    BY <2>1, <2>2, Types
  <2>4. QED  BY <2>3
<1>2. ASSUME NEW w \in Worker, Revoke(w) PROVE FALSE
  <2>1. rows'[t] = rows[t] \/ rows'[t] = "revoked"
    BY <1>2, Types DEF Revoke
  <2>2. QED  BY <2>1 DEF LoginAssumption
<1>3. ASSUME ~ \E w \in Worker : Revoke(w) \/ \E u \in User, d \in Code : Mint(w, u, d)
      PROVE  rows' = rows
  BY <1>3 DEF Next, vars, Sweep, Check, ListUser, ListDevice, Lookup, Grant, Deny, SetDenied,
              Watch, Open, Expire, Crash
<1>4. QED  BY <1>1, <1>2, <1>3

LEMMA MishapStep == ASSUME [Next]_vars PROVE mishap \subseteq mishap'
BY DEF Next, vars, Sweep, Check, ListUser, ListDevice, Mint, Lookup, Grant, Revoke, Deny,
       SetDenied, Watch, Open, Expire, Crash

\* "No orphan session row is left" (auth.rs decide_login mints before it
\* decides): a session that was never offered is of a decision in progress, or
\* of one a crash or a failed delete cut short.
THEOREM NoOrphanHolds == Spec => []NoOrphan
<1>1. Init => NoOrphan
  BY DEF Init, NoOrphan, LoginAssumption
<1>2. LoginInv /\ NoOrphan /\ [Next]_vars => NoOrphan'
  <2>1. SUFFICES ASSUME LoginInv, NoOrphan, [Next]_vars, NEW t \in Token, rows'[t] \in User
                 PROVE  Held(t)'
    BY DEF NoOrphan, Held
  <2>2. CASE rows[t] \notin User
    BY <2>1, <2>2, SessionStep DEF Held
  <2>3. CASE rows[t] \in User
    <3>1. Held(t)
      BY <2>1, <2>3 DEF NoOrphan, Held
    <3>2. CASE \E w \in Worker : job[w].token = t
      BY <2>1, <3>2, TokenStep DEF Held
    <3>3. CASE \E d \in Code : decided[d] = t
      BY <2>1, <3>3, DecidedStep DEF Held, LoginAssumption
    <3>4. CASE t \in mishap
      BY <2>1, <3>4, MishapStep DEF Held
    <3>5. QED  BY <3>1, <3>2, <3>3, <3>4 DEF Held
  <2>4. QED  BY <2>2, <2>3
<1>3. QED  BY <1>1, <1>2, InvHolds, PTL DEF Spec

-----------------------------------------------------------------------------
(* The bound on what begins can pin *)

LEMMA Finite ==
    /\ IsFiniteSet(InFlight) /\ IsFiniteSet(Beginners) /\ IsFiniteSet(Worker)
    /\ Cardinality(InFlight) \in Nat /\ Cardinality(Beginners) \in Nat
    /\ Cardinality(Worker) \in Nat /\ Cardinality(Worker) >= 1
<1>1. IsFiniteSet(Code) /\ IsFiniteSet(Worker) /\ Worker # {}
  BY DEF LoginAssumption
<1>2. InFlight \subseteq Code /\ Beginners \subseteq Worker
  BY DEF InFlight, Beginners
<1>3. IsFiniteSet(InFlight) /\ IsFiniteSet(Beginners)
  BY <1>1, <1>2, FS_Subset
<1>4. Cardinality(Worker) # 0
  BY <1>1, FS_EmptySet
<1>5. QED  BY <1>1, <1>3, <1>4, FS_CardinalityType

LEMMA Shrinks ==
    ASSUME NEW A, NEW B, NEW C, NEW D, NEW n \in Int,
           IsFiniteSet(B), IsFiniteSet(D), A \subseteq B, C \subseteq D,
           Cardinality(B) + Cardinality(D) <= n
    PROVE  Cardinality(A) + Cardinality(C) <= n
<1>1. /\ Cardinality(A) \in Nat /\ Cardinality(B) \in Nat
      /\ Cardinality(C) \in Nat /\ Cardinality(D) \in Nat
      /\ Cardinality(A) <= Cardinality(B) /\ Cardinality(C) <= Cardinality(D)
  BY FS_Subset, FS_CardinalityType
<1>2. QED  BY <1>1

\* Only the last insert of a begin adds a sign-in.
LEMMA InFlightStep ==
    ASSUME LoginInv, [Next]_vars, ~ \E w \in Worker : ListDevice(w)
    PROVE  InFlight' \subseteq InFlight
<1> SUFFICES ASSUME NEW d \in Code, byDevice[d] = Nil PROVE byDevice'[d] = Nil
  BY DEF InFlight
<1>1. ASSUME NEW w \in Worker, Sweep(w) \/ Grant(w) \/ SetDenied(w) PROVE byDevice'[d] = Nil
  <2>1. CASE Sweep(w)
    BY <2>1 DEF Sweep
  <2>2. Decidable(d) => FALSE
    BY DEF Decidable
  <2>3. CASE Grant(w) \/ SetDenied(w)
    BY <2>2, <2>3, Types DEF Grant, SetDenied
  <2>4. QED  BY <1>1, <2>1, <2>3
<1>2. ASSUME NEW c \in Client, Watch(c) PROVE byDevice'[d] = Nil
  BY <1>2, Types DEF Watch
<1>3. ASSUME NEW e \in Code, Expire(e) PROVE byDevice'[d] = Nil
  BY <1>3, Types DEF Expire
<1>4. CASE Crash
  BY <1>4 DEF Crash
<1>5. ASSUME ~ \E w \in Worker : Sweep(w) \/ Grant(w) \/ SetDenied(w) \/ ListDevice(w),
             ~ (\E c \in Client : Watch(c)) /\ ~ (\E e \in Code : Expire(e)) /\ ~ Crash
      PROVE  byDevice' = byDevice
  BY <1>5 DEF Next, vars, Check, ListUser, Mint, Lookup, Revoke, Deny, Open
<1>6. QED  BY <1>1, <1>2, <1>3, <1>4, <1>5

\* Only a check that finds room lets a begin go on to its inserts.
LEMMA BeginnersStep ==
    ASSUME LoginInv, [Next]_vars, ~ \E w \in Worker : Check(w)
    PROVE  Beginners' \subseteq Beginners
<1> SUFFICES ASSUME NEW v \in Worker, ~ Beginning(v) PROVE ~ Beginning(v)'
  BY DEF Beginners
<1>1. CASE job'[v] = job[v] \/ job'[v] = Idle
  BY <1>1, IdleIs DEF Beginning
<1>2. ASSUME NEW w \in Worker,
             \/ Sweep(w) \/ ListUser(w) \/ ListDevice(w)
             \/ \E u \in User, d \in Code : Mint(w, u, d)
             \/ Lookup(w) \/ Grant(w) \/ Revoke(w)
             \/ \E d \in Code : Deny(w, d)
             \/ SetDenied(w)
      PROVE  ~ Beginning(v)'
  <2>1. CASE v # w
    <3>1. job'[v] = job[v]
      BY <1>2, <2>1, Types DEF Sweep, ListUser, ListDevice, Mint, Lookup, Grant, Revoke, Deny,
                              SetDenied, Goto, Return
    <3>2. QED  BY <1>1, <3>1
  <2>2. CASE v = w
    <3>1. job[w] \in Job /\ job \in [Worker -> Job]
      BY Types
    <3>2. ASSUME NEW d \in Code, Deny(w, d) PROVE job'[w].pc = "deny"
      <4>1. job'[w] = [job[w] EXCEPT !.pc = "deny", !.code = d]
        BY <3>1, <3>2 DEF Deny
      <4>2. QED  BY <3>1, <4>1 DEF Job
    <3>3. (\E u \in User, d \in Code : Mint(w, u, d)) => job'[w].pc = "lookup"
      BY <3>1 DEF Mint
    <3>4. ~ ListUser(w)
      BY <2>2 DEF ListUser, At, Beginning
    <3>5. CASE ListDevice(w) \/ Revoke(w) \/ SetDenied(w)
      BY <1>1, <2>2, <3>1, <3>5 DEF ListDevice, Revoke, SetDenied, Return
    <3>6. CASE Grant(w)
      <4>1. Return(w) \/ Goto(w, "revoke")
        BY <3>6 DEF Grant
      <4>2. job'[w] = Idle \/ job'[w].pc = "revoke"
        BY <4>1, GoesTo, Returns
      <4>3. QED  BY <1>1, <2>2, <4>2 DEF Beginning
    <3>7. Sweep(w) => job'[w].pc = "check"
      BY GoesTo DEF Sweep
    <3>8. Lookup(w) => job'[w].pc \in {"grant", "revoke"}
      BY GoesTo DEF Lookup
    <3>9. QED
      BY <1>2, <2>2, <3>2, <3>3, <3>4, <3>5, <3>6, <3>7, <3>8 DEF Beginning
  <2>3. QED  BY <2>1, <2>2
<1>3. CASE Crash
  BY <1>1, <1>3 DEF Crash
<1>4. (\E c \in Client : Watch(c) \/ \E d \in Code : Open(c, d))
          \/ (\E d \in Code : Expire(d)) \/ UNCHANGED vars => job' = job
  BY DEF Watch, Open, Expire, vars
<1>5. QED  BY <1>1, <1>2, <1>3, <1>4 DEF Next

LEMMA BoundedStep == LoginInv /\ Bounded /\ [Next]_vars => Bounded'
<1> SUFFICES ASSUME LoginInv, Bounded, [Next]_vars PROVE Bounded'
  OBVIOUS
<1> DEFINE n == MaxPending + Cardinality(Worker) - 1
<1>0. n \in Int
  BY Finite DEF LoginAssumption
<1>1. CASE InFlight' \subseteq InFlight /\ Beginners' \subseteq Beginners
  BY <1>0, <1>1, Finite, Shrinks DEF Bounded
<1>2. ASSUME NEW w \in Worker, Check(w) PROVE Bounded'
  <2>1. InFlight' = InFlight
    BY <1>2 DEF Check, InFlight
  <2>2. CASE Return(w)
    <3>1. Beginners' \subseteq Beginners
      BY <2>2, Returns, IdleIs DEF Beginners, Beginning
    <3>2. QED  BY <1>1, <2>1, <3>1
  <2>3. CASE Room
    <3>1. Beginners' \subseteq Worker
      BY DEF Beginners
    <3>2. /\ Cardinality(Beginners') \in Nat
          /\ Cardinality(Beginners') <= Cardinality(Worker)
      BY <3>1, Finite, FS_Subset, FS_CardinalityType
    <3>3. Cardinality(InFlight) \in Nat /\ Cardinality(InFlight) < MaxPending
          /\ MaxPending \in Nat /\ Cardinality(Worker) \in Nat
      BY <2>3, Finite DEF Room, LoginAssumption
    <3>4. Cardinality(InFlight) + Cardinality(Beginners') <= n
      BY <3>2, <3>3
    <3>5. QED  BY <2>1, <3>4 DEF Bounded
  <2>4. QED  BY <1>2, <2>2, <2>3 DEF Check
<1>3. ASSUME NEW w \in Worker, ListDevice(w) PROVE Bounded'
  <2>1. job[w].code \in Code /\ byDevice[job[w].code] = Nil /\ Beginning(w)
    BY <1>3 DEF ListDevice, At, LoginInv, JobOK, Beginning
  <2>2. PICK d \in Code : d = job[w].code
    BY <2>1
  <2>3. byDevice' = [byDevice EXCEPT ![d] = NewLogin]
    BY <1>3, <2>2 DEF ListDevice
  <2>4. InFlight' \subseteq InFlight \cup {d} /\ d \notin InFlight
    BY <2>1, <2>2, <2>3, Types DEF InFlight
  <2>5. Beginners' \subseteq Beginners \ {w} /\ w \in Beginners
    BY <1>3, <2>1, Returns, IdleIs DEF ListDevice, Beginners, Beginning
  <2>6. /\ IsFiniteSet(InFlight \cup {d}) /\ IsFiniteSet(Beginners \ {w})
        /\ Cardinality(InFlight \cup {d}) + Cardinality(Beginners \ {w})
               = Cardinality(InFlight) + Cardinality(Beginners)
    <3>1. d \notin InFlight /\ w \in Beginners
      BY <2>4, <2>5
    <3>2. IsFiniteSet(InFlight) /\ IsFiniteSet(Beginners)
      BY Finite
    <3>3. /\ IsFiniteSet(InFlight \cup {d}) /\ IsFiniteSet(Beginners \ {w})
          /\ Cardinality(InFlight \cup {d}) = Cardinality(InFlight) + 1
          /\ Cardinality(Beginners \ {w}) = Cardinality(Beginners) - 1
      <4>1. IsFiniteSet(InFlight \cup {d}) /\ Cardinality(InFlight \cup {d}) = Cardinality(InFlight) + 1
        BY <3>1, <3>2, FS_AddElement
      <4>2. /\ IsFiniteSet(Beginners \ {w})
            /\ Cardinality(Beginners \ {w}) = Cardinality(Beginners) - 1
        BY <3>1, <3>2, FS_RemoveElement
      <4>3. QED  BY <4>1, <4>2
    <3>4. QED  BY <3>3, Finite
  <2>7. Cardinality(InFlight \cup {d}) + Cardinality(Beginners \ {w}) <= n
    BY <2>6 DEF Bounded
  <2>8. Cardinality(InFlight') + Cardinality(Beginners') <= n
    <3> HIDE DEF n
    <3>1. QED  BY <1>0, <2>4, <2>5, <2>6, <2>7, Shrinks
  <2>9. QED  BY <2>8 DEF Bounded
<1>4. QED  BY <1>1, <1>2, <1>3, InFlightStep, BeginnersStep

\* begin checks the count under a lock it lets go before it inserts: the
\* memory that unauthenticated begins can pin passes MAX_PENDING by less than
\* the requests there are, however long they go on.
THEOREM PendingBoundedHolds == Spec => []PendingBounded
<1>1. Init => Bounded
  <2> SUFFICES ASSUME Init PROVE Bounded
    OBVIOUS
  <2>1. InFlight = {}
    BY DEF Init, InFlight
  <2>2. Beginners = {}
    BY IdleIs DEF Init, Beginners, Beginning
  <2>3. Cardinality({}) = 0 /\ MaxPending \in Nat
    BY FS_EmptySet DEF LoginAssumption
  <2>4. Cardinality(Worker) \in Nat /\ Cardinality(Worker) >= 1
    BY Finite
  <2>5. 0 + 0 <= MaxPending + Cardinality(Worker) - 1
    BY <2>3, <2>4
  <2>6. QED  BY <2>1, <2>2, <2>3, <2>5 DEF Bounded
<1>2. LoginInv /\ Bounded /\ [Next]_vars => Bounded'
  BY BoundedStep
<1>3. Bounded => PendingBounded
  <2> SUFFICES ASSUME Bounded PROVE PendingBounded
    OBVIOUS
  <2>1. /\ Cardinality(InFlight) \in Nat /\ Cardinality(Beginners) \in Nat
        /\ Cardinality(Worker) \in Nat /\ MaxPending \in Nat
    BY Finite DEF LoginAssumption
  <2>2. QED  BY <2>1 DEF Bounded, PendingBounded
<1>4. QED  BY <1>1, <1>2, <1>3, InvHolds, PTL DEF Spec
=============================================================================
