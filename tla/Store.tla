------------------------------- MODULE Store -------------------------------
(***************************************************************************)
(* The firmware store (src/store): the directory tree that is the source   *)
(* of truth, the in-memory index that serves reads, and the requests that  *)
(* change both.  tokio runs requests on several threads; a request keeps   *)
(* the index lock only for short sections and touches the disk outside     *)
(* them, so every lock section and every file-system effect is an action   *)
(* of its own and the steps of different requests interleave.              *)
(*                                                                         *)
(* A version directory appears on disk in one step because it is built     *)
(* under a `.tmp-` name, which only the building request reads: the build  *)
(* is the request's local `files`.  remove_dir_all is not one step: it     *)
(* opens the directory, unlinks its entries one by one in whatever order   *)
(* readdir yields them, and only then removes the path.                    *)
(***************************************************************************)
EXTENDS Naturals, Sequences, FiniteSets

CONSTANTS
    Worker,      \* requests (and GC passes) that can be in progress at once
    User,        \* accounts that submit firmware
    NKeys,       \* how many device/version coordinates there are
    Sha,         \* digests of the blobs in play
    File,        \* filenames a manifest may give its blobs
    Fw,          \* manifests in play
    KeyOf,       \* the coordinates a manifest names
    BlobsOf,     \* its blob list: <<sha, filename>> pairs
    MaxStaged,   \* MAX_STAGED_PER_USER
    Ops,         \* which operations clients and the process perform
    Nil          \* absent

\* The coordinates, in the order the BTreeMap iterates them.
Key == 1..NKeys

OpNames == {"put", "stage", "publish", "approve", "reject", "gc", "reload", "crash"}

ASSUME StoreAssumption ==
    /\ NKeys \in Nat
    /\ KeyOf \in [Fw -> Key]
    /\ BlobsOf \in [Fw -> Seq(Sha \X File)]
    /\ \A m \in Fw : Len(BlobsOf[m]) > 0
    /\ MaxStaged \in Nat
    /\ Ops \subseteq OpNames

VARIABLES
    firmware,    \* disk: firmware/<device>/<version>
    staging,     \* disk: staging/<device>/<version>
    incoming,    \* disk: incoming/<sha> and how long ago it was written
    live,        \* index.live
    staged,      \* index.staged
    paths,       \* index.blob_paths
    scan,        \* a reload holding the write lock: the firmware/ it has read
    job,         \* what each request is doing
    handle       \* the directory a request's remove_dir_all has open

disk == <<firmware, staging, incoming>>
index == <<live, staged, paths>>
vars == <<firmware, staging, incoming, live, staged, paths, scan, job, handle>>

-----------------------------------------------------------------------------
(* Data *)

VersionDir == [fw : Fw \cup {Nil}, by : User \cup {Nil}, files : [File -> Sha \cup {Nil}]]

NoFiles == [f \in File |-> Nil]

\* What remove_dir_all leaves between its last unlink and its rmdir; a directory
\* has its manifest while `fw` is not Nil.
Emptied == [fw |-> Nil, by |-> Nil, files |-> NoFiles]

\* A scan that finds no submitted-by file takes the empty name.
Entry == [fw : Fw, by : User \cup {Nil}]

Place == {"firmware", "staging"} \X Key

InPool == [at |-> "incoming", key |-> Nil, file |-> Nil]

Path == {InPool} \cup [at : {"firmware", "staging"}, key : Key, file : File]

PC == {"idle", "put_write", "put_index",
       "quota", "lookup", "copy", "replace", "unlink", "commit", "index",
       "sweep_owned", "sweep_file", "rename", "golive", "check", "unstage",
       "gc_files"}

Job == [pc : PC, op : OpNames \cup {Nil}, fw : Fw \cup {Nil}, key : Key \cup {Nil},
        by : User \cup {Nil}, sha : Sha \cup {Nil}, n : Nat,
        src : Path \cup {Nil}, files : [File -> Sha \cup {Nil}], shas : SUBSET Sha]

Idle == [pc |-> "idle", op |-> Nil, fw |-> Nil, key |-> Nil, by |-> Nil, sha |-> Nil,
         n |-> 0, src |-> Nil, files |-> NoFiles, shas |-> {}]

Shas(m) == {BlobsOf[m][i][1] : i \in DOMAIN BlobsOf[m]}

\* Slip: a rename that replaces whatever is there.
VacantAlways(dir) == TRUE

\* A rename succeeds onto a name that is free or an empty directory.
Vacant(dir) == dir = Nil \/ dir = Emptied

\* Absent is none of the things that can be present.
ASSUME NilAssumption ==
    /\ Nil \notin OpNames /\ Nil \notin User /\ Nil \notin Sha /\ Nil \notin File
    /\ Nil \notin Fw /\ Nil \notin Key /\ Nil \notin VersionDir /\ Nil \notin Entry
    /\ Nil \notin Path /\ Nil \notin Place /\ Nil \notin [Key -> VersionDir \cup {Nil}]

TypeOK ==
    /\ firmware \in [Key -> VersionDir \cup {Nil}]
    /\ staging \in [Key -> VersionDir \cup {Nil}]
    /\ incoming \in [Sha -> {"absent", "fresh", "old"}]
    /\ live \in [Key -> Fw \cup {Nil}]
    /\ staged \in [Key -> Entry \cup {Nil}]
    /\ paths \in [Sha -> Path \cup {Nil}]
    /\ scan \in [Key -> VersionDir \cup {Nil}] \cup {Nil}
    /\ job \in [Worker -> Job]
    /\ handle \in [Worker -> Place \cup {Nil}]

-----------------------------------------------------------------------------
(* Reading the disk and the index *)

\* The bytes a read of path p yields, named by their digest; the pool file of
\* a digest always holds that digest's bytes.
Bytes(p, s) ==
    CASE p = Nil -> Nil
      [] p.at = "incoming" -> IF incoming[s] = "absent" THEN Nil ELSE s
      [] p.at = "firmware" -> IF firmware[p.key] = Nil THEN Nil ELSE firmware[p.key].files[p.file]
      [] p.at = "staging" -> IF staging[p.key] = Nil THEN Nil ELSE staging[p.key].files[p.file]

\* version_dirs + read_manifest: a directory whose manifest is gone is skipped.
Manifest(dirs) == [k \in Key |-> IF dirs[k] = Nil THEN Nil ELSE dirs[k].fw]

ScanStaged ==
    [k \in Key |-> IF Manifest(staging)[k] = Nil THEN Nil
                   ELSE [fw |-> staging[k].fw, by |-> staging[k].by]]

StagedFw(sg) == [k \in Key |-> IF sg[k] = Nil THEN Nil ELSE sg[k].fw]

\* Slip: the first blob's filename for every blob.
FileOfFirst(m, s) == BlobsOf[m][1][2]

\* The filename manifest m gives sha s; of two, the later entry overwrites.
FileOf(m, s) ==
    LET at == {i \in DOMAIN BlobsOf[m] : BlobsOf[m][i][1] = s}
    IN  BlobsOf[m][CHOOSE i \in at : \A j \in at : j <= i][2]

\* rebuild_blob_paths: the pool first, then live manifests over it, then staged
\* ones over both, each in key order.
Rebuild(lv, sg, pool) ==
    LET holders(fws, s) == {k \in Key : fws[k] # Nil /\ s \in Shas(fws[k])}
        in(kind, fws, s) ==
            LET k == CHOOSE k \in holders(fws, s) : \A h \in holders(fws, s) : h <= k
            IN  [at |-> kind, key |-> k, file |-> FileOf(fws[k], s)]
    IN  [s \in Sha |->
            IF holders(StagedFw(sg), s) # {} THEN in("staging", StagedFw(sg), s)
            ELSE IF holders(lv, s) # {} THEN in("firmware", lv, s)
            ELSE IF pool[s] # "absent" THEN InPool
            ELSE Nil]

\* Slip: the reload scanning before it takes the lock.
UnlockedAlways == TRUE

\* No reload holds the index's write lock.
Unlocked == scan = Nil

\* Manifest blobs of the index: what gc_incoming will not reclaim.
Referenced ==
    UNION ({Shas(live[k]) : k \in {k \in Key : live[k] # Nil}} \cup
           {Shas(staged[k].fw) : k \in {k \in Key : staged[k] # Nil}})

\* Slip: every indexed blob, the pool's own files included.
OwnedOrPooled == {s \in Sha : paths[s] # Nil}

\* Blobs indexed outside the pool, which sweep_incoming takes as owned copies.
Owned == {s \in Sha : paths[s] # Nil /\ paths[s] # InPool}

-----------------------------------------------------------------------------
Init ==
    /\ firmware = [k \in Key |-> Nil]
    /\ staging = [k \in Key |-> Nil]
    /\ incoming = [s \in Sha |-> "absent"]
    /\ live = [k \in Key |-> Nil]
    /\ staged = [k \in Key |-> Nil]
    /\ paths = [s \in Sha |-> Nil]
    /\ scan = Nil
    /\ job = [w \in Worker |-> Idle]
    /\ handle = [w \in Worker |-> Nil]

At(w, pc) == job[w].pc = pc

Begin(w, op) == op \in Ops /\ At(w, "idle")

Goto(w, pc) == job' = [job EXCEPT ![w].pc = pc]

Return(w) == job' = [job EXCEPT ![w] = Idle]

-----------------------------------------------------------------------------
(* put_blob *)

PutCheck(w, s) ==
    /\ Begin(w, "put")
    /\ job' = [job EXCEPT ![w] = [Idle EXCEPT
                    !.pc = IF incoming[s] = "absent" THEN "put_write" ELSE "put_index",
                    !.op = "put", !.sha = s]]
    /\ UNCHANGED <<disk, index, scan, handle>>

PutWrite(w) ==
    /\ At(w, "put_write")
    /\ incoming' = [incoming EXCEPT ![job[w].sha] = "fresh"]
    /\ Goto(w, "put_index")
    /\ UNCHANGED <<firmware, staging, index, scan, handle>>

\* entry(sha).or_insert(incoming path)
PutIndex(w) ==
    /\ At(w, "put_index")
    /\ Unlocked
    /\ paths' = [paths EXCEPT ![job[w].sha] = IF @ = Nil THEN InPool ELSE @]
    /\ Return(w)
    /\ UNCHANGED <<disk, live, staged, scan, handle>>

-----------------------------------------------------------------------------
(* stage and publish: validate, write_version_dir, index, sweep_incoming *)

\* Slip: the reject_if_live flag dropped.
ValidateLiveToo(w, op, m, u) ==
    /\ Begin(w, op)
    /\ Unlocked
    /\ \A s \in Shas(m) : paths[s] # Nil
    /\ job' = [job EXCEPT ![w] = [Idle EXCEPT
                    !.pc = IF op = "stage" THEN "quota" ELSE "lookup",
                    !.op = op, !.fw = m, !.key = KeyOf[m], !.by = u, !.n = 1]]
    /\ UNCHANGED <<disk, index, scan, handle>>

Validate(w, op, m, u) ==
    /\ Begin(w, op)
    /\ Unlocked
    /\ \A s \in Shas(m) : paths[s] # Nil
    /\ live[KeyOf[m]] = Nil
    /\ job' = [job EXCEPT ![w] = [Idle EXCEPT
                    !.pc = IF op = "stage" THEN "quota" ELSE "lookup",
                    !.op = op, !.fw = m, !.key = KeyOf[m], !.by = u, !.n = 1]]
    /\ UNCHANGED <<disk, index, scan, handle>>

Stage(w, m, u) == Validate(w, "stage", m, u)

Publish(w, m) == Validate(w, "publish", m, Nil)

StagedBy(u) == {k \in Key : staged[k] # Nil /\ staged[k].by = u}

\* Slip: the cap compared with <=.
MayStageOneMore(u, k) == k \in StagedBy(u) \/ Cardinality(StagedBy(u)) <= MaxStaged

\* Within the cap, or replacing a submission of one's own.
MayStage(u, k) == k \in StagedBy(u) \/ Cardinality(StagedBy(u)) < MaxStaged

Quota(w) ==
    /\ At(w, "quota")
    /\ Unlocked
    /\ IF MayStage(job[w].by, job[w].key) THEN Goto(w, "lookup") ELSE Return(w)
    /\ UNCHANGED <<disk, index, scan, handle>>

Blob(w) == BlobsOf[job[w].fw][job[w].n]

\* The path is read under the lock; the file it names is read after it.
Lookup(w) ==
    /\ At(w, "lookup")
    /\ Unlocked
    /\ IF paths[Blob(w)[1]] = Nil
         THEN Return(w)
         ELSE job' = [job EXCEPT ![w].src = paths[Blob(w)[1]], ![w].pc = "copy"]
    /\ UNCHANGED <<disk, index, scan, handle>>

\* fs::copy takes whatever bytes the path holds by now, under the filename the
\* manifest gives.
Copy(w) ==
    /\ At(w, "copy")
    /\ LET got == Bytes(job[w].src, Blob(w)[1])
           last == job[w].n = Len(BlobsOf[job[w].fw])
       IN  IF got = Nil
             THEN Return(w)
             ELSE job' = [job EXCEPT ![w].files[Blob(w)[2]] = got,
                                     ![w].src = Nil,
                                     ![w].n = IF last THEN 0 ELSE @ + 1,
                                     ![w].pc = IF last THEN "replace" ELSE "lookup"]
    /\ UNCHANGED <<disk, index, scan, handle>>

Target(w) == <<IF job[w].op = "publish" THEN "firmware" ELSE "staging", job[w].key>>

DirAt(place) == IF place[1] = "firmware" THEN firmware[place[2]] ELSE staging[place[2]]

SetDir(place, dir) ==
    /\ firmware' = IF place[1] = "firmware" THEN [firmware EXCEPT ![place[2]] = dir] ELSE firmware
    /\ staging' = IF place[1] = "staging" THEN [staging EXCEPT ![place[2]] = dir] ELSE staging

\* Handles on the directory at `from` after it went to `to` (Nil: it is gone).
Follow(from, to) ==
    [v \in Worker |-> IF handle[v] = from THEN to ELSE IF handle[v] = to THEN Nil ELSE handle[v]]

AfterRemoval(w) == IF job[w].op = "reject" THEN "unstage" ELSE "commit"

\* Slip: the old directory left in place.
ReplaceNothing(w) ==
    /\ At(w, "replace")
    /\ Goto(w, AfterRemoval(w))
    /\ UNCHANGED <<disk, index, scan, handle>>

\* `if dir.exists()`, and the open that begins remove_dir_all.
Replace(w) ==
    /\ At(w, "replace")
    /\ IF DirAt(Target(w)) = Nil
         THEN Goto(w, AfterRemoval(w)) /\ UNCHANGED handle
         ELSE Goto(w, "unlink") /\ handle' = [handle EXCEPT ![w] = Target(w)]
    /\ UNCHANGED <<disk, index, scan>>

\* One entry less: the manifest, submitted-by or a blob.
Fewer(dir) ==
    {[dir EXCEPT !.fw = Nil], [dir EXCEPT !.by = Nil]} \cup {[dir EXCEPT !.files[f] = Nil] : f \in File}

Opened(w) == IF handle[w] = Nil THEN Nil ELSE DirAt(handle[w])

\* The unlinks work on the open directory, wherever a rename has put it.
Unlink(w) ==
    /\ At(w, "unlink")
    /\ Opened(w) # Nil
    /\ \E dir \in Fewer(Opened(w)) \ {Opened(w)} : SetDir(handle[w], dir)
    /\ UNCHANGED <<incoming, index, scan, job, handle>>

\* With nothing left to unlink, the rmdir works on the path again, and fails on
\* a directory that is not empty.
Rmdir(w) ==
    /\ At(w, "unlink")
    /\ Vacant(Opened(w))
    /\ IF Vacant(DirAt(Target(w)))
         THEN /\ SetDir(Target(w), Nil)
              /\ handle' = [Follow(Target(w), Nil) EXCEPT ![w] = Nil]
              /\ Goto(w, AfterRemoval(w))
         ELSE Return(w) /\ handle' = [handle EXCEPT ![w] = Nil] /\ UNCHANGED <<firmware, staging>>
    /\ UNCHANGED <<incoming, index, scan>>

\* The rename that is the commit.
Commit(w) ==
    /\ At(w, "commit")
    /\ IF Vacant(DirAt(Target(w)))
         THEN /\ SetDir(Target(w), [fw |-> job[w].fw, by |-> job[w].by, files |-> job[w].files])
              /\ handle' = Follow(Target(w), Nil)
              /\ job' = [job EXCEPT ![w].pc = "index", ![w].files = NoFiles]
         ELSE Return(w) /\ UNCHANGED <<firmware, staging, handle>>
    /\ UNCHANGED <<incoming, index, scan>>

Index(w) ==
    /\ At(w, "index")
    /\ Unlocked
    /\ LET k == job[w].key
       IN  IF job[w].op = "stage"
             THEN /\ staged' = [staged EXCEPT ![k] = [fw |-> job[w].fw, by |-> job[w].by]]
                  /\ UNCHANGED live
             ELSE /\ live' = [live EXCEPT ![k] = job[w].fw]
                  /\ staged' = [staged EXCEPT ![k] = Nil]
    /\ paths' = Rebuild(live', staged', incoming)
    /\ job' = [job EXCEPT ![w] = [Idle EXCEPT !.pc = "sweep_owned"]]
    /\ UNCHANGED <<disk, scan, handle>>

SweepOwned(w) ==
    /\ At(w, "sweep_owned")
    /\ Unlocked
    /\ job' = [job EXCEPT ![w].shas = Owned, ![w].pc = "sweep_file"]
    /\ UNCHANGED <<disk, index, scan, handle>>

SweepFile(w) ==
    /\ At(w, "sweep_file")
    /\ \E s \in job[w].shas :
          /\ incoming' = [incoming EXCEPT ![s] = "absent"]
          /\ job' = [job EXCEPT ![w].shas = @ \ {s}]
    /\ UNCHANGED <<firmware, staging, index, scan, handle>>

SweepEnd(w) ==
    /\ At(w, "sweep_file")
    /\ job[w].shas = {}
    /\ Unlocked
    /\ paths' = Rebuild(live, staged, incoming)
    /\ Return(w)
    /\ UNCHANGED <<disk, live, staged, scan, handle>>

-----------------------------------------------------------------------------
(* approve and reject *)

\* Decided under the read lock, on the index: an entry already live has its
\* staged copy rejected instead.
Approve(w, k) ==
    /\ Begin(w, "approve")
    /\ Unlocked
    /\ live[k] # Nil \/ staged[k] # Nil
    /\ job' = [job EXCEPT ![w] = IF live[k] # Nil
            THEN [Idle EXCEPT !.pc = "check", !.op = "reject", !.key = k]
            ELSE [Idle EXCEPT !.pc = "rename", !.op = "approve", !.key = k, !.fw = staged[k].fw]]
    /\ UNCHANGED <<disk, index, scan, handle>>

\* Slip: the rename's error ignored.
RenameUnchecked(w) ==
    /\ At(w, "rename")
    /\ LET k == job[w].key
       IN  IF staging[k] # Nil /\ Vacant(firmware[k])
             THEN /\ firmware' = [firmware EXCEPT ![k] = [staging[k] EXCEPT !.by = Nil]]
                  /\ staging' = [staging EXCEPT ![k] = Nil]
                  /\ handle' = Follow(<<"staging", k>>, <<"firmware", k>>)
             ELSE UNCHANGED <<firmware, staging, handle>>
    /\ Goto(w, "golive")
    /\ UNCHANGED <<incoming, index, scan>>

\* The staged directory becomes the firmware one, and loses its submitted-by.
Rename(w) ==
    /\ At(w, "rename")
    /\ LET k == job[w].key
       IN  IF staging[k] # Nil /\ Vacant(firmware[k])
             THEN /\ firmware' = [firmware EXCEPT ![k] = [staging[k] EXCEPT !.by = Nil]]
                  /\ staging' = [staging EXCEPT ![k] = Nil]
                  /\ handle' = Follow(<<"staging", k>>, <<"firmware", k>>)
                  /\ Goto(w, "golive")
             ELSE Return(w) /\ UNCHANGED <<firmware, staging, handle>>
    /\ UNCHANGED <<incoming, index, scan>>

GoLive(w) ==
    /\ At(w, "golive")
    /\ Unlocked
    /\ staged' = [staged EXCEPT ![job[w].key] = Nil]
    /\ live' = [live EXCEPT ![job[w].key] = job[w].fw]
    /\ paths' = Rebuild(live', staged', incoming)
    /\ Return(w)
    /\ UNCHANGED <<disk, scan, handle>>

Reject(w, k) ==
    /\ Begin(w, "reject")
    /\ Unlocked
    /\ staged[k] # Nil
    /\ job' = [job EXCEPT ![w] = [Idle EXCEPT !.pc = "replace", !.op = "reject", !.key = k]]
    /\ UNCHANGED <<disk, index, scan, handle>>

\* The reject an approval of a live version falls back to.
RejectCheck(w) ==
    /\ At(w, "check")
    /\ Unlocked
    /\ IF staged[job[w].key] = Nil THEN Return(w) ELSE Goto(w, "replace")
    /\ UNCHANGED <<disk, index, scan, handle>>

\* Slip: the paths not rebuilt.
UnstageOnly(w) ==
    /\ At(w, "unstage")
    /\ Unlocked
    /\ staged' = [staged EXCEPT ![job[w].key] = Nil]
    /\ Return(w)
    /\ UNCHANGED <<disk, live, paths, scan, handle>>

Unstage(w) ==
    /\ At(w, "unstage")
    /\ Unlocked
    /\ staged' = [staged EXCEPT ![job[w].key] = Nil]
    /\ paths' = Rebuild(live, staged', incoming)
    /\ Return(w)
    /\ UNCHANGED <<disk, live, scan, handle>>

-----------------------------------------------------------------------------
(* gc_incoming, reload, a crash and the open after it *)

\* One task runs every pass.
GcBegin(w) ==
    /\ Begin(w, "gc")
    /\ \A v \in Worker : job[v].op # "gc"
    /\ Unlocked
    /\ job' = [job EXCEPT ![w] = [Idle EXCEPT !.pc = "gc_files", !.op = "gc",
                                              !.shas = Sha \ Referenced]]
    /\ UNCHANGED <<disk, index, scan, handle>>

GcFile(w) ==
    /\ At(w, "gc_files")
    /\ \E s \in job[w].shas :
          /\ incoming[s] = "old"
          /\ incoming' = [incoming EXCEPT ![s] = "absent"]
          /\ job' = [job EXCEPT ![w].shas = @ \ {s}, ![w].n = 1]
    /\ UNCHANGED <<firmware, staging, index, scan, handle>>

GcEnd(w) ==
    /\ At(w, "gc_files")
    /\ \A s \in job[w].shas : incoming[s] # "old"
    /\ IF job[w].n = 0
         THEN UNCHANGED paths
         ELSE Unlocked /\ paths' = Rebuild(live, staged, incoming)
    /\ Return(w)
    /\ UNCHANGED <<disk, live, staged, scan, handle>>

\* A day passes: no request is a day long.
Age(s) ==
    /\ "gc" \in Ops
    /\ \A w \in Worker : At(w, "idle")
    /\ incoming[s] = "fresh"
    /\ incoming' = [incoming EXCEPT ![s] = "old"]
    /\ UNCHANGED <<firmware, staging, index, scan, job, handle>>

\* reload takes the write lock, reads firmware/ ...
ReloadScan ==
    /\ "reload" \in Ops
    /\ Unlocked
    /\ scan' = firmware
    /\ UNCHANGED <<disk, index, job, handle>>

\* ... then staging/ and incoming/, and swaps the index in.
ReloadSwap ==
    /\ scan # Nil
    /\ live' = Manifest(scan)
    /\ staged' = ScanStaged
    /\ paths' = Rebuild(live', staged', incoming)
    /\ scan' = Nil
    /\ UNCHANGED <<disk, job, handle>>

\* The process dies, and Store::open reads the disk with nobody else about.
Crash ==
    /\ "crash" \in Ops
    /\ live' = Manifest(firmware)
    /\ staged' = ScanStaged
    /\ paths' = Rebuild(live', staged', incoming)
    /\ scan' = Nil
    /\ job' = [w \in Worker |-> Idle]
    /\ handle' = [w \in Worker |-> Nil]
    /\ UNCHANGED disk

-----------------------------------------------------------------------------
\* What clients, admins and the GC timer may start.
Call(w) ==
    \/ \E s \in Sha : PutCheck(w, s)
    \/ \E m \in Fw, u \in User : Stage(w, m, u)
    \/ \E m \in Fw : Publish(w, m)
    \/ \E k \in Key : Approve(w, k) \/ Reject(w, k)
    \/ GcBegin(w)

\* What a started request does next.
Step(w) ==
    \/ PutWrite(w) \/ PutIndex(w)
    \/ Quota(w) \/ Lookup(w) \/ Copy(w)
    \/ Replace(w) \/ Unlink(w) \/ Rmdir(w) \/ Commit(w) \/ Index(w)
    \/ SweepOwned(w) \/ SweepFile(w) \/ SweepEnd(w)
    \/ Rename(w) \/ GoLive(w)
    \/ RejectCheck(w) \/ Unstage(w)
    \/ GcFile(w) \/ GcEnd(w)

Next ==
    \/ \E w \in Worker : Call(w) \/ Step(w)
    \/ \E s \in Sha : Age(s)
    \/ ReloadScan \/ ReloadSwap \/ Crash

Spec == Init /\ [][Next]_vars

-----------------------------------------------------------------------------
(* Properties *)

Complete(dir) == dir # Nil /\ dir.fw # Nil

\* A directory remove_dir_all has taken the manifest from.
Stripped(dir) == dir # Nil /\ dir.fw = Nil

\* Nobody is between two steps.
Resting == Unlocked /\ \A w \in Worker : At(w, "idle")

\* No index entry outlives its directory: every live key has a firmware
\* directory on disk, whatever approvals, rejections, re-submissions, reloads
\* and crashes are under way (approve renames before it touches the index).
\* (Checked with the types.)
LiveKeyHasDir ==
    /\ TypeOK
    /\ \A k \in Key : live[k] # Nil => firmware[k] # Nil

\* A live version leaves the index only when a scan finds its directory without
\* a manifest: a reload never drops one that a concurrent approval has just
\* inserted (the comment in reload).
LiveNeverDropped ==
    [][\A k \in Key : (live[k] # Nil /\ live'[k] = Nil) =>
            Stripped(firmware[k]) \/ (scan # Nil /\ Stripped(scan[k]))]_vars

\* No request puts another version in the place of a complete firmware
\* directory: not a second approval, not a re-submission under the same key.
\* At worst the directory loses an entry.
FirmwareNeverReplaced ==
    [][\A k \in Key : Complete(firmware[k]) =>
            firmware'[k] \in {firmware[k]} \cup Fewer(firmware[k])]_vars

\* One request at a time, with reloads and crashes anywhere, the index
\* that serves reads says what the disk says, but for the staged directory of
\* a version published over it, which publish unlists and leaves on disk.
IndexIsDisk ==
    Resting => /\ live = Manifest(firmware)
               /\ \A k \in Key : staged[k] = ScanStaged[k] \/ (staged[k] = Nil /\ live[k] # Nil)

\* Between requests, every blob the index lists can be served: the path leads
\* to those bytes.
Servable == Resting => \A s \in Sha : paths[s] # Nil => Bytes(paths[s], s) = s

\* Between requests, every version directory holds, under the filenames its
\* manifest gives, the blobs its manifest names ("a self-contained dir",
\* src/store/mod.rs).
SelfContained ==
    Resting => \A d \in {firmware[k] : k \in Key} \cup {staging[k] : k \in Key} :
        Complete(d) => \A i \in DOMAIN BlobsOf[d.fw] :
                            d.files[BlobsOf[d.fw][i][2]] = BlobsOf[d.fw][i][1]

\* A pool file disappears only when a version directory has those bytes too,
\* or when it is a day old and no manifest wants it (the two reclaimed sets
\* src/store/blobs.rs names).
LosesOnlyAbandoned ==
    \A s \in Sha : (incoming[s] # "absent" /\ incoming'[s] = "absent") =>
        \/ \E k \in Key, f \in File : \E d \in {firmware[k], staging[k]} :
                d # Nil /\ d.files[f] = s
        \/ incoming[s] = "old" /\ s \notin Referenced

\* An account's submissions awaiting review, what was published over aside.
Awaiting(u) == {k \in StagedBy(u) : live[k] = Nil}

\* They exceed the cap by no more than the other requests in progress: each
\* passed the cap, counted under a lock that stage releases long before it lists
\* the submission, over directories that a crash or a reload may list first.
SubmissionsBounded ==
    \A u \in User : Cardinality(Awaiting(u)) <= MaxStaged + Cardinality(Worker) - 1

\* A complete firmware directory is left as it is: no removal, approval or
\* publication works inside it ("Version dirs are written as atomic units",
\* src/store/catalog.rs).  With two requests at once one does.
FirmwareUntouched == [][\A k \in Key : Complete(firmware[k]) => firmware'[k] = firmware[k]]_vars

\* What a live version serves never changes ("versions are immutable").  With
\* two requests at once it does.
LiveImmutable == [][\A k \in Key : live[k] # Nil => live'[k] \in {live[k], Nil}]_vars

-----------------------------------------------------------------------------
(* The catalogue the disk promises. *)
Catalogue == INSTANCE Catalogue WITH published <- Manifest(firmware), pending <- Manifest(staging)

\* One request at a time, with reloads and crashes anywhere, every effect on
\* the disk is a step of the catalogue.
ImplementsCatalogue == Catalogue!Spec
=============================================================================
