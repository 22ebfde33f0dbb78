------------------------------- MODULE Watches -------------------------------
(***************************************************************************)
(* The catalogue's watch streams (src/services/firmware.rs): devices and   *)
(* firmware as deltas, the staged submissions as a whole, over the index   *)
(* of the store (src/store/) and the generation counter that its changes   *)
(* bump.  stage, approve and reject are one step on disk and index         *)
(* together (module Store has their insides); apart are the bump that      *)
(* follows them, the versions an operator drops into the tree, and the     *)
(* reload that finds those.                                                *)
(***************************************************************************)
EXTENDS Naturals, FiniteSets

CONSTANTS
    Worker,      \* requests in progress
    Watcher,     \* the file watcher's task
    Client,      \* open streams
    Key,         \* (device, version)
    Device,
    DeviceOf(_),
    Manifest,
    MaxDrops,    \* bound: changes made to the tree by hand
    Nil

ASSUME WatchesAssumption ==
    /\ IsFiniteSet(Key) /\ MaxDrops \in Nat /\ Watcher \notin Worker
    /\ \A k \in Key : DeviceOf(k) \in Device
    /\ Nil \notin Manifest \cup Device

VARIABLES
    disk,        \* the manifests of firmware/ and of staging/
    index,       \* what the store lists of each
    bumping,     \* tasks whose bump is still to come
    stream,      \* what each stream watches and its client has
    drops,       \* changes made by hand so far
    unsaid       \* history: a reload changed the index without a bump, and no
                 \* bump since

vars == <<disk, index, bumping, stream, drops, unsaid>>

Tree == [live : [Key -> Manifest \cup {Nil}], staged : [Key -> Manifest \cup {Nil}]]

Empty == [k \in Key |-> Nil]

\* devices: the counts sent; shown: the manifests sent, of what is live or of
\* what is staged.
Stream == [pc : {"off", "build", "wait"},
           of : {Nil, "devices", "firmware", "staged"},
           dirty : BOOLEAN,
           counts : [Device -> 0..Cardinality(Key)],
           shown : [Key -> Manifest \cup {Nil}]]

Closed == [pc |-> "off", of |-> Nil, dirty |-> FALSE,
           counts |-> [d \in Device |-> 0], shown |-> Empty]

TypeOK ==
    /\ disk \in Tree /\ index \in Tree
    /\ bumping \subseteq Worker \cup {Watcher}
    /\ stream \in [Client -> Stream]
    /\ drops \in 0..MaxDrops
    /\ unsaid \in BOOLEAN

Init ==
    /\ disk = [live |-> Empty, staged |-> Empty]
    /\ index = disk
    /\ bumping = {}
    /\ stream = [c \in Client |-> Closed]
    /\ drops = 0
    /\ unsaid = FALSE

KeysOf(part) == {k \in Key : part[k] # Nil}

\* The same change to the tree and to the index.
Change(w, part, k, m) ==
    /\ disk' = [disk EXCEPT ![part][k] = m]
    /\ index' = [index EXCEPT ![part][k] = m]
    /\ bumping' = bumping \cup {w}
    /\ UNCHANGED <<stream, drops, unsaid>>

-----------------------------------------------------------------------------
(* The store *)

\* A version is submitted, or submitted again with another manifest.
Stage(w, k, m) ==
    /\ w \notin bumping
    /\ index.live[k] = Nil
    /\ Change(w, "staged", k, m)

Reject(w, k) ==
    /\ w \notin bumping
    /\ index.staged[k] # Nil
    /\ Change(w, "staged", k, Nil)

\* The rename needs the directory there, and nothing where it goes.
Approve(w, k) ==
    /\ w \notin bumping
    /\ index.live[k] = Nil /\ index.staged[k] # Nil
    /\ disk.staged[k] # Nil /\ disk.live[k] = Nil
    /\ disk' = [live |-> [disk.live EXCEPT ![k] = disk.staged[k]],
                staged |-> [disk.staged EXCEPT ![k] = Nil]]
    /\ index' = [live |-> [index.live EXCEPT ![k] = index.staged[k]],
                 staged |-> [index.staged EXCEPT ![k] = Nil]]
    /\ bumping' = bumping \cup {w}
    /\ UNCHANGED <<stream, drops, unsaid>>

\* External drops: an operator adds, replaces or removes a version directory.
Drop(part, k, m) ==
    /\ drops < MaxDrops
    /\ disk[part][k] # m
    /\ disk' = [disk EXCEPT ![part][k] = m]
    /\ drops' = drops + 1
    /\ UNCHANGED <<index, bumping, stream, unsaid>>

\* Slips: only one of the parts compared.
LiveKeysDiffer == KeysOf(index.live) # KeysOf(disk.live)
StagedKeysDiffer == KeysOf(index.staged) # KeysOf(disk.staged)

\* What reload takes for a change: the keys, not what they hold.
SetsDiffer ==
    \/ KeysOf(index.live) # KeysOf(disk.live)
    \/ KeysOf(index.staged) # KeysOf(disk.staged)

\* What it therefore keeps to itself: manifests replaced, and nothing else.
OnlyReplaced == \A part \in DOMAIN index : KeysOf(index[part]) = KeysOf(disk[part])

\* The file watcher's task, once the tree is quiet.
Reload ==
    /\ Watcher \notin bumping
    /\ index # disk
    /\ index' = disk
    /\ bumping' = IF SetsDiffer THEN bumping \cup {Watcher} ELSE bumping
    /\ unsaid' = (unsaid \/ OnlyReplaced)
    /\ UNCHANGED <<disk, stream, drops>>

Bump(w) ==
    /\ w \in bumping
    /\ bumping' = bumping \ {w}
    /\ stream' = [c \in Client |-> IF stream[c].pc = "off" THEN stream[c]
                                   ELSE [stream[c] EXCEPT !.dirty = TRUE]]
    /\ unsaid' = FALSE
    /\ UNCHANGED <<disk, index, drops>>

-----------------------------------------------------------------------------
(* The streams *)

\* Subscribed as it is called, before it first looks.
Watch(c, of) ==
    /\ stream[c].pc = "off"
    /\ stream' = [stream EXCEPT ![c] = [Closed EXCEPT !.pc = "build", !.of = of]]
    /\ UNCHANGED <<disk, index, bumping, drops, unsaid>>

\* changed() marks the generation seen, and the index is read after it.
Changed(c) ==
    /\ stream[c].pc = "wait" /\ stream[c].dirty
    /\ stream' = [stream EXCEPT ![c] = [@ EXCEPT !.pc = "build", !.dirty = FALSE]]
    /\ UNCHANGED <<disk, index, bumping, drops, unsaid>>

CountOf(d) == Cardinality({k \in KeysOf(index.live) : DeviceOf(k) = d})

\* Slip: a device counts as sent once its id is.
CountsByDevice(sent) == [d \in Device |-> IF sent[d] = 0 THEN CountOf(d) ELSE sent[d]]

\* Devices with firmware, where the count is not what was sent; the client
\* merges by id.  A device with none left is not among store.devices().
Counts(sent) == [d \in Device |-> IF CountOf(d) > 0 THEN CountOf(d) ELSE sent[d]]

\* Versions not sent yet; the client merges by key.
Additions(sent) == [k \in Key |-> IF sent[k] = Nil THEN index.live[k] ELSE sent[k]]

Build(c) ==
    /\ stream[c].pc = "build"
    /\ LET s == stream[c]
       IN  stream' = [stream EXCEPT ![c] = [s EXCEPT
               !.pc = "wait",
               !.counts = IF s.of = "devices" THEN Counts(@) ELSE @,
               !.shown = CASE s.of = "firmware" -> Additions(@)
                           [] s.of = "staged" -> index.staged
                           [] OTHER -> @]]
    /\ UNCHANGED <<disk, index, bumping, drops, unsaid>>

\* The client leaves.
Close(c) ==
    /\ stream[c].pc # "off"
    /\ stream' = [stream EXCEPT ![c] = Closed]
    /\ UNCHANGED <<disk, index, bumping, drops, unsaid>>

\* The process dies, and the next one scans the tree as it opens the store.
Crash ==
    /\ index' = disk
    /\ bumping' = {}
    /\ stream' = [c \in Client |-> Closed]
    /\ unsaid' = FALSE
    /\ UNCHANGED <<disk, drops>>

Next ==
    \/ \E w \in Worker :
          \/ \E k \in Key :
                Reject(w, k) \/ Approve(w, k) \/ \E m \in Manifest : Stage(w, k, m)
          \/ Bump(w)
    \/ Reload \/ Bump(Watcher)
    \/ \E part \in {"live", "staged"}, k \in Key, m \in Manifest \cup {Nil} : Drop(part, k, m)
    \/ \E c \in Client :
          \/ \E of \in {"devices", "firmware", "staged"} : Watch(c, of)
          \/ Changed(c) \/ Build(c) \/ Close(c)
    \/ Crash

\* Tasks that can run do: a request bumps what it changed, a woken stream looks,
\* and the watcher reloads a tree that has become quiet.
Fairness ==
    /\ WF_vars(Reload)
    /\ \A w \in Worker \cup {Watcher} : WF_vars(Bump(w))
    /\ \A c \in Client : WF_vars(Changed(c)) /\ WF_vars(Build(c))

Spec == Init /\ [][Next]_vars /\ Fairness

-----------------------------------------------------------------------------
(* Properties *)

\* A stream that waits with nothing on its way to wake it.
Settled(c, of) ==
    /\ stream[c].of = of /\ stream[c].pc = "wait" /\ ~stream[c].dirty
    /\ bumping = {} /\ ~unsaid

\* What the client of a stream that waits has been shown is so.  Of what is
\* staged it has exactly what there is, with the manifests of now ("items vanish
\* on review, which a delta feed couldn't express"); a client that merges the
\* deltas has every live version, and the right count of every device that has
\* one, though these streams never start over.  What unsaid excepts is a
\* manifest replaced by hand.  (Checked with the types.)
SettledIsShown ==
    /\ TypeOK
    /\ \A c \in Client :
           /\ Settled(c, "staged") => stream[c].shown = index.staged
           /\ Settled(c, "firmware") => KeysOf(index.live) \subseteq KeysOf(stream[c].shown)
           /\ Settled(c, "devices") =>
                  \A d \in Device : CountOf(d) > 0 => stream[c].counts[d] = CountOf(d)

\* "Externally-dropped versions go live without a restart", and reach those who
\* watch: once in the tree, a version is shown to every stream of firmware,
\* unless it is taken away again or the stream ends.
DropReachesClients ==
    \A c \in Client, k \in Key :
        disk.live[k] # Nil /\ stream[c].of = "firmware"
            ~> \/ stream[c].of # "firmware" \/ stream[c].shown[k] # Nil
               \/ disk.live[k] = Nil
=============================================================================
