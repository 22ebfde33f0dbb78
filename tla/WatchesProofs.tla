---------------------------- MODULE WatchesProofs ----------------------------
(***************************************************************************)
(* Theorems about Watches, for any number of requests, streams, versions,  *)
(* devices and changes made by hand.                                       *)
(***************************************************************************)
EXTENDS Watches, TLAPS, FiniteSetTheorems

USE WatchesAssumption

-----------------------------------------------------------------------------
(* What the client of each stream has *)

\* Nothing is on its way to wake the streams.
Quiet == bumping = {} /\ ~unsaid

Waits(c) == stream[c].pc = "wait" /\ ~stream[c].dirty

\* What the client of stream c has is so.
Right(c) ==
    /\ stream[c].of = "staged" => stream[c].shown = index.staged
    /\ stream[c].of = "firmware" => KeysOf(index.live) \subseteq KeysOf(stream[c].shown)
    /\ stream[c].of = "devices" =>
           \A d \in Device : CountOf(d) > 0 => stream[c].counts[d] = CountOf(d)

ShownInv == TypeOK /\ \A c \in Client : Waits(c) /\ Quiet => Right(c)

LEMMA Types ==
    ASSUME ShownInv
    PROVE  /\ disk \in Tree /\ index \in Tree /\ bumping \subseteq Worker \cup {Watcher}
           /\ stream \in [Client -> Stream] /\ drops \in 0..MaxDrops /\ unsaid \in BOOLEAN
           /\ \A c \in Client : stream[c] \in Stream
           /\ index.live \in [Key -> Manifest \cup {Nil}]
           /\ index.staged \in [Key -> Manifest \cup {Nil}]
           /\ disk.live \in [Key -> Manifest \cup {Nil}]
           /\ disk.staged \in [Key -> Manifest \cup {Nil}]
BY DEF ShownInv, TypeOK, Tree

LEMMA CountIs == ASSUME NEW d PROVE CountOf(d) \in 0..Cardinality(Key)
<1>1. {k \in KeysOf(index.live) : DeviceOf(k) = d} \subseteq Key
  BY DEF KeysOf
<1>2. QED  BY <1>1, FS_Subset, FS_CardinalityType DEF CountOf

LEMMA ClosedIs == Closed \in Stream /\ Closed.pc = "off"
<1>1. 0 \in 0..Cardinality(Key)
  BY FS_CardinalityType
<1>2. QED  BY <1>1 DEF Closed, Stream, Empty

LEMMA ShownInit == Init => ShownInv
<1> SUFFICES ASSUME Init PROVE ShownInv
  OBVIOUS
<1>1. disk \in Tree /\ index \in Tree
  BY DEF Init, Tree, Empty
<1>2. stream \in [Client -> Stream] /\ \A c \in Client : stream[c].pc = "off"
  BY ClosedIs DEF Init
<1>3. bumping = {} /\ drops = 0 /\ unsaid = FALSE
  BY DEF Init
<1>4. drops \in 0..MaxDrops
  BY <1>3
<1>5. TypeOK
  BY <1>1, <1>2, <1>3, <1>4 DEF TypeOK
<1>6. QED  BY <1>2, <1>5 DEF ShownInv, Waits

-----------------------------------------------------------------------------
(* The steps *)

\* A change to the index whose bump is still to come says nothing yet.
LEMMA ChangeKeeps ==
    ASSUME ShownInv, NEW w \in Worker \cup {Watcher}, disk' \in Tree, index' \in Tree,
           bumping' = bumping \cup {w}, stream' = stream, drops' = drops, unsaid' \in BOOLEAN
    PROVE  ShownInv'
BY Types DEF ShownInv, TypeOK, Quiet

LEMMA WithKey ==
    ASSUME NEW f \in [Key -> Manifest \cup {Nil}], NEW k \in Key, NEW m \in Manifest \cup {Nil}
    PROVE  [f EXCEPT ![k] = m] \in [Key -> Manifest \cup {Nil}]
OBVIOUS

\* A change to one coordinate of one part of a tree.
LEMMA TreeWith ==
    ASSUME NEW tree \in Tree, NEW part \in {"live", "staged"}, NEW k \in Key,
           NEW m \in Manifest \cup {Nil}
    PROVE  [tree EXCEPT ![part][k] = m] \in Tree
<1>1. tree.live \in [Key -> Manifest \cup {Nil}] /\ tree.staged \in [Key -> Manifest \cup {Nil}]
  BY DEF Tree
<1>2. CASE part = "live"
  BY <1>1, <1>2, WithKey DEF Tree
<1>3. CASE part = "staged"
  BY <1>1, <1>3, WithKey DEF Tree
<1>4. QED  BY <1>2, <1>3

LEMMA RequestKeeps ==
    ASSUME ShownInv, NEW w \in Worker, NEW k \in Key,
           Reject(w, k) \/ Approve(w, k) \/ \E m \in Manifest : Stage(w, k, m)
    PROVE  ShownInv'
<1>1. CASE Approve(w, k)
  <2>1. disk' \in Tree /\ index' \in Tree
    <3>1. disk.staged[k] \in Manifest \cup {Nil} /\ index.staged[k] \in Manifest \cup {Nil}
      BY Types
    <3>2. QED  BY <1>1, <3>1, Types, WithKey DEF Approve, Tree
  <2>2. QED  BY <1>1, <2>1, Types, ChangeKeeps DEF Approve
<1>2. ASSUME NEW m \in Manifest \cup {Nil}, Change(w, "staged", k, m) PROVE ShownInv'
  <2>1. disk' \in Tree /\ index' \in Tree
    BY <1>2, Types, TreeWith DEF Change
  <2>2. QED  BY <1>2, <2>1, Types, ChangeKeeps DEF Change
<1>3. QED  BY <1>1, <1>2 DEF Reject, Stage

LEMMA DropKeeps ==
    ASSUME ShownInv, NEW part \in {"live", "staged"}, NEW k \in Key,
           NEW m \in Manifest \cup {Nil}, Drop(part, k, m)
    PROVE  ShownInv'
<1>1. disk' \in Tree
  BY Types, TreeWith DEF Drop
<1>2. drops' \in 0..MaxDrops
  BY Types DEF Drop
<1>3. QED
  BY <1>1, <1>2, Types DEF Drop, ShownInv, TypeOK, Waits, Quiet, Right, KeysOf, CountOf

\* A reload bumps, or has found manifests replaced and nothing else.
LEMMA ReloadKeeps == ASSUME ShownInv, Reload PROVE ShownInv'
<1>1. CASE SetsDiffer
  BY <1>1, Types, ChangeKeeps DEF Reload
<1>2. CASE ~SetsDiffer
  <2>1. OnlyReplaced
    <3>1. DOMAIN index = {"live", "staged"}
      BY Types DEF Tree
    <3>2. QED  BY <1>2, <3>1 DEF SetsDiffer, OnlyReplaced
  <2>2. QED  BY <1>2, <2>1, Types DEF Reload, ShownInv, TypeOK, Quiet
<1>3. QED  BY <1>1, <1>2

\* After a bump no stream waits without knowing of it.
LEMMA BumpKeeps == ASSUME ShownInv, NEW w, Bump(w) PROVE ShownInv'
<1>1. ASSUME NEW c \in Client PROVE stream'[c] \in Stream /\ ~ Waits(c)'
  <2>1. CASE stream[c].pc = "off"
    BY <1>1, <2>1, Types DEF Bump, Waits
  <2>2. CASE stream[c].pc # "off"
    BY <1>1, <2>2, Types DEF Bump, Waits, Stream
  <2>3. QED  BY <2>1, <2>2
<1>2. stream' \in [Client -> Stream]
  BY <1>1 DEF Bump
<1>3. QED  BY <1>1, <1>2, Types DEF Bump, ShownInv, TypeOK

\* A stream that takes another step; the others wait for the same.
LEMMA StreamKeeps ==
    ASSUME ShownInv, NEW c \in Client, NEW s \in Stream, stream' = [stream EXCEPT ![c] = s],
           UNCHANGED <<disk, index, bumping, drops, unsaid>>, Waits(c)' => Right(c)'
    PROVE  ShownInv'
<1>1. stream' \in [Client -> Stream]
  BY Types
<1>2. ASSUME NEW e \in Client, e # c, Waits(e)', Quiet' PROVE Right(e)'
  <2>1. stream'[e] = stream[e]
    BY <1>2, Types
  <2>2. QED  BY <1>2, <2>1 DEF ShownInv, Waits, Quiet, Right, KeysOf, CountOf
<1>3. QED  BY <1>1, <1>2, Types DEF ShownInv, TypeOK

\* A look at the index leaves the client with what it says: all of what is
\* staged, each live version among those sent, each device's count.
LEMMA BuildKeeps == ASSUME ShownInv, NEW c \in Client, Build(c) PROVE ShownInv'
<1> DEFINE s == stream[c]
           counts == IF s.of = "devices" THEN Counts(s.counts) ELSE s.counts
           shown == CASE s.of = "firmware" -> Additions(s.shown)
                      [] s.of = "staged" -> index.staged
                      [] OTHER -> s.shown
           t == [s EXCEPT !.pc = "wait", !.counts = counts, !.shown = shown]
<1>1. s \in Stream /\ s.shown \in [Key -> Manifest \cup {Nil}]
      /\ s.counts \in [Device -> 0..Cardinality(Key)]
  BY Types DEF Stream
<1>2. stream' = [stream EXCEPT ![c] = t] /\ UNCHANGED <<disk, index, bumping, drops, unsaid>>
  BY DEF Build
<1>3. counts \in [Device -> 0..Cardinality(Key)]
  BY <1>1, CountIs DEF Counts
<1>4. Additions(s.shown) \in [Key -> Manifest \cup {Nil}]
  BY <1>1, Types DEF Additions
<1>5. shown \in [Key -> Manifest \cup {Nil}]
  BY <1>1, <1>4, Types
<1>6. KeysOf(index.live) \subseteq KeysOf(Additions(s.shown))
  BY DEF KeysOf, Additions
<1>7. \A d \in Device : CountOf(d) > 0 => Counts(s.counts)[d] = CountOf(d)
  BY DEF Counts
<1>8. t \in Stream /\ t.of = s.of /\ t.shown = shown /\ t.counts = counts
  <2> HIDE DEF counts, shown
  <2>1. QED  BY <1>1, <1>3, <1>5 DEF Stream
<1>9. stream'[c] = t
  BY <1>2, Types
<1>10. Right(c)'
  <2>1. t.of = "staged" => t.shown = index.staged
    BY <1>8
  <2>2. t.of = "firmware" => KeysOf(index.live) \subseteq KeysOf(t.shown)
    BY <1>6, <1>8
  <2>3. t.of = "devices" => \A d \in Device : CountOf(d) > 0 => t.counts[d] = CountOf(d)
    BY <1>7, <1>8
  <2> HIDE DEF t
  <2>4. QED  BY <1>2, <1>9, <2>1, <2>2, <2>3 DEF Right, KeysOf, CountOf
<1>11. QED
  <2> HIDE DEF t
  <2>1. QED  BY <1>2, <1>8, <1>10, StreamKeeps

LEMMA LooksKeep ==
    ASSUME ShownInv, NEW c \in Client,
           (\E of \in {"devices", "firmware", "staged"} : Watch(c, of)) \/ Changed(c) \/ Close(c)
    PROVE  ShownInv'
<1>1. ASSUME NEW of \in {"devices", "firmware", "staged"}, Watch(c, of) PROVE ShownInv'
  <2> DEFINE s == [Closed EXCEPT !.pc = "build", !.of = of]
  <2>1. s \in Stream /\ s.pc = "build"
    BY ClosedIs DEF Stream
  <2>2. stream' = [stream EXCEPT ![c] = s] /\ UNCHANGED <<disk, index, bumping, drops, unsaid>>
    BY <1>1 DEF Watch
  <2> HIDE DEF s
  <2>3. ~ Waits(c)'
    <3>1. stream'[c] = s
      BY <2>2, Types
    <3>2. QED  BY <2>1, <3>1 DEF Waits
  <2>4. QED  BY <2>1, <2>2, <2>3, StreamKeeps
<1>2. CASE Changed(c)
  <2> DEFINE s == [stream[c] EXCEPT !.pc = "build", !.dirty = FALSE]
  <2>1. s \in Stream /\ s.pc = "build"
    <3>1. stream[c] \in Stream
      BY Types
    <3>2. QED  BY ONLY <3>1 DEF Stream
  <2>2. stream' = [stream EXCEPT ![c] = s] /\ UNCHANGED <<disk, index, bumping, drops, unsaid>>
    BY <1>2 DEF Changed
  <2> HIDE DEF s
  <2>3. ~ Waits(c)'
    <3>1. stream'[c] = s
      BY <2>2, Types
    <3>2. QED  BY <2>1, <3>1 DEF Waits
  <2>4. QED  BY <2>1, <2>2, <2>3, StreamKeeps
<1>3. CASE Close(c)
  <2>1. ~ Waits(c)'
    BY <1>3, ClosedIs, Types DEF Close, Waits
  <2>2. QED  BY <1>3, <2>1, ClosedIs, StreamKeeps DEF Close
<1>4. QED  BY <1>1, <1>2, <1>3

LEMMA CrashKeeps == ASSUME ShownInv, Crash PROVE ShownInv'
BY Types, ClosedIs DEF Crash, ShownInv, TypeOK, Waits

LEMMA ShownNext == ShownInv /\ [Next]_vars => ShownInv'
<1> SUFFICES ASSUME ShownInv, [Next]_vars PROVE ShownInv'
  OBVIOUS
<1>1. CASE UNCHANGED vars
  BY <1>1, Types DEF vars, ShownInv, TypeOK, Waits, Quiet, Right, KeysOf, CountOf
<1>2. QED
  BY <1>1, RequestKeeps, DropKeeps, ReloadKeeps, BumpKeeps, BuildKeeps, LooksKeep, CrashKeeps
  DEF Next

\* What the client of a stream that waits has been shown is so, and stays so
\* (services/firmware.rs watch_devices, watch_firmware, watch_staged_firmware;
\* store/mod.rs reload): however many changes, reloads, changes by hand and
\* bumps come between a stream's looks, it has exactly what is staged, every
\* live version, the right count of every device, or something is on its way to
\* wake it; only a manifest replaced by hand is announced by nothing.
THEOREM SettledIsShownHolds == Spec => []SettledIsShown
<1>1. ShownInv => SettledIsShown
  BY DEF ShownInv, SettledIsShown, Settled, Waits, Quiet, Right
<1>2. QED  BY <1>1, ShownInit, ShownNext, PTL DEF Spec
=============================================================================
