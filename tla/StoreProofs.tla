---------------------------- MODULE StoreProofs ----------------------------
(***************************************************************************)
(* Theorems about Store, Mirror and StoreAlone, for any manifests, blobs   *)
(* and coordinates.  Those about the live index and the cap are of any     *)
(* number of concurrent requests, that of an index entry's directory only  *)
(* of the operations the gRPC service can call, which leave out the        *)
(* library's direct publish; those about the mirror are of any number of   *)
(* requests and downloads.  What the disk and the index have to do with    *)
(* one another is of one writer at a time among any number of requests,    *)
(* and what the bytes have to do with them of one request at a time; both  *)
(* with reloads and crashes anywhere.                                      *)
(***************************************************************************)
EXTENDS Mirror, StoreAlone, TLAPS, FiniteSetTheorems, WellFoundedInduction

(* Operators *)

\* A non-empty set of numbers below a bound has a greatest element: the "last
\* one wins" of a map built in order is well defined.
LEMMA GreatestExists ==
    ASSUME NEW n \in Nat, NEW S \in SUBSET (0..n), S # {}
    PROVE  \E i \in S : \A j \in S : j <= i
<1> DEFINE T == {n - i : i \in S}
<1>1. T \subseteq Nat /\ T # {}
  <2>1. \A i \in S : i \in 0..n
    OBVIOUS
  <2>2. \A i \in S : n - i \in Nat
    BY <2>1
  <2>3. QED  BY <2>2
<1>2. PICK x \in T : \A y \in T : ~ (<<y, x>> \in OpToRel(<, Nat))
  BY <1>1, WFMin, NatLessThanWellFounded
<1>3. \A y \in T : ~ (y < x)
  BY <1>1, <1>2 DEF OpToRel
<1>4. PICK i \in S : x = n - i
  OBVIOUS
<1>5. ASSUME NEW j \in S PROVE j <= i
  <2>1. n - j \in T /\ ~ (n - j < n - i)
    BY <1>3, <1>4
  <2>2. QED  BY <2>1
<1>6. QED  BY <1>4, <1>5

\* The filename a manifest gives one of its blobs is one of the filenames.
LEMMA FileOfType ==
    ASSUME NEW m \in Fw, NEW s \in Shas(m)
    PROVE  FileOf(m, s) \in File
<1> DEFINE at == {i \in DOMAIN BlobsOf[m] : BlobsOf[m][i][1] = s}
<1>1. BlobsOf[m] \in Seq(Sha \X File) /\ Len(BlobsOf[m]) \in Nat
      /\ DOMAIN BlobsOf[m] = 1..Len(BlobsOf[m])
  BY StoreAssumption
<1>2. at # {} /\ at \in SUBSET (0..Len(BlobsOf[m]))
  BY <1>1 DEF Shas
<1>3. \E i \in at : \A j \in at : j <= i
  <2> HIDE DEF at
  <2> QED  BY <1>1, <1>2, GreatestExists
<1>4. (CHOOSE i \in at : \A j \in at : j <= i) \in at
  <2> HIDE DEF at
  <2> QED  BY <1>3
<1>5. ASSUME NEW i \in at PROVE BlobsOf[m][i][2] \in File
  BY <1>1
<1>6. QED  BY <1>4, <1>5 DEF FileOf

\* rebuild_blob_paths yields paths, whatever index and pool it is given.
LEMMA RebuildType ==
    ASSUME NEW lv \in [Key -> Fw \cup {Nil}], NEW sg \in [Key -> Entry \cup {Nil}], NEW pool
    PROVE  Rebuild(lv, sg, pool) \in [Sha -> Path \cup {Nil}]
<1> DEFINE holders(fws, s) == {k \in Key : fws[k] # Nil /\ s \in Shas(fws[k])}
           last(fws, s) == CHOOSE k \in holders(fws, s) : \A h \in holders(fws, s) : h <= k
<1>1. ASSUME NEW fws \in [Key -> Fw \cup {Nil}], NEW s \in Sha, holders(fws, s) # {}
      PROVE  last(fws, s) \in Key /\ FileOf(fws[last(fws, s)], s) \in File
  <2>1. holders(fws, s) \in SUBSET (0..NKeys) /\ NKeys \in Nat
    BY StoreAssumption DEF Key
  <2>2. \E k \in holders(fws, s) : \A h \in holders(fws, s) : h <= k
    <3> HIDE DEF holders
    <3> QED  BY <1>1, <2>1, GreatestExists
  <2>3. last(fws, s) \in holders(fws, s)
    <3> HIDE DEF holders
    <3> QED  BY <2>2
  <2>4. last(fws, s) \in Key /\ fws[last(fws, s)] \in Fw /\ s \in Shas(fws[last(fws, s)])
    <3> HIDE DEF last
    <3> QED  BY <2>3
  <2>5. QED  BY <2>4, FileOfType
<1>2. StagedFw(sg) \in [Key -> Fw \cup {Nil}]
  BY DEF StagedFw, Entry
<1>3. ASSUME NEW s \in Sha
      PROVE  Rebuild(lv, sg, pool)[s] \in Path \cup {Nil}
  BY <1>1, <1>2 DEF Rebuild, Path
<1>4. QED  BY <1>3 DEF Rebuild

-----------------------------------------------------------------------------
(* Type correctness *)

Removing == {"replace", "unlink"}

\* What a request's record holds when it is at step pc.
MayBeAt(j, pc) ==
    /\ pc \in {"put_write", "put_index"} => j.sha \in Sha
    /\ pc \in {"quota", "lookup", "copy", "commit", "index"} =>
            j.op \in {"stage", "publish"} /\ j.key \in Key /\ j.fw \in Fw
    /\ pc \in Removing => j.op \in {"stage", "publish", "reject"} /\ j.key \in Key
    /\ pc \in Removing /\ j.op # "reject" => j.fw \in Fw
    /\ pc # "idle" /\ j.op = "stage" => j.by \in User
    /\ pc \in {"quota", "lookup", "copy"} => j.n \in 1..Len(BlobsOf[j.fw])
    /\ pc = "copy" => j.src \in Path
    /\ pc \in {"rename", "golive"} => j.fw \in Fw /\ j.key \in Key
    /\ pc \in {"check", "unstage"} => j.key \in Key /\ j.op = "reject"

WellFormed(j) == MayBeAt(j, j.pc)

GoodJob == {j \in Job : WellFormed(j)}

TInv == TypeOK /\ job \in [Worker -> GoodJob]

\* What Copy reads, when it reads anything, is some blob's bytes.
LEMMA BytesType ==
    ASSUME TypeOK, NEW p \in Path, NEW s \in Sha
    PROVE  Bytes(p, s) \in Sha \cup {Nil}
<1>1. CASE p = InPool
  BY <1>1, NilAssumption DEF InPool, Bytes, Path
<1>2. CASE p \in [at : {"firmware", "staging"}, key : Key, file : File]
  <2>1. p # Nil /\ p.at \in {"firmware", "staging"} /\ p.key \in Key /\ p.file \in File
    BY <1>2, NilAssumption DEF Path
  <2>2. CASE p.at = "firmware"
    BY <2>1, <2>2 DEF Bytes, TypeOK, VersionDir
  <2>3. CASE p.at = "staging"
    BY <2>1, <2>3 DEF Bytes, TypeOK, VersionDir
  <2>4. QED  BY <2>1, <2>2, <2>3
<1>3. QED  BY <1>1, <1>2 DEF Path

\* Reading the manifests of one tree yields manifests.
LEMMA ManifestType ==
    ASSUME NEW dirs \in [Key -> VersionDir \cup {Nil}]
    PROVE  Manifest(dirs) \in [Key -> Fw \cup {Nil}]
BY NilAssumption DEF Manifest, VersionDir

LEMMA IdleGood == Idle \in GoodJob
BY DEF Idle, GoodJob, WellFormed, MayBeAt, Job, PC, NoFiles, Removing

\* The type invariant holds of the initial state.
LEMMA TypeInit == Init => TInv
BY IdleGood DEF Init, TInv, TypeOK, GoodJob

\* A step of a request that only moves its record on.
LEMMA JobStep ==
    ASSUME TInv, NEW w \in Worker, NEW j \in GoodJob, job' = [job EXCEPT ![w] = j]
    PROVE  job' \in [Worker -> GoodJob] /\ job' \in [Worker -> Job]
BY DEF TInv, TypeOK, GoodJob

\* Moving to another step changes nothing else of the record.
LEMMA PcStep ==
    ASSUME NEW j \in GoodJob, NEW pc \in PC, MayBeAt(j, pc)
    PROVE  [j EXCEPT !.pc = pc] \in GoodJob
<1> DEFINE e == [j EXCEPT !.pc = pc]
<1>1. /\ e \in Job /\ e.pc = pc
      /\ e.op = j.op /\ e.fw = j.fw /\ e.key = j.key /\ e.by = j.by
      /\ e.sha = j.sha /\ e.n = j.n /\ e.src = j.src
  BY DEF Job, GoodJob
<1> HIDE DEF e
<1>2. QED  BY <1>1 DEF GoodJob, WellFormed, MayBeAt, e

USE DEF Begin, At, Goto, Return, disk, index

\* A job that goes on keeps what it is about.
LEMMA GotoIs ==
    ASSUME TInv, NEW w \in Worker, NEW pc, Goto(w, pc)
    PROVE  /\ job'[w].pc = pc
           /\ job'[w].op = job[w].op /\ job'[w].fw = job[w].fw /\ job'[w].key = job[w].key
           /\ job'[w].by = job[w].by /\ job'[w].sha = job[w].sha /\ job'[w].n = job[w].n
           /\ job'[w].src = job[w].src /\ job'[w].files = job[w].files
           /\ job'[w].shas = job[w].shas
<1>1. job[w] \in Job /\ job'[w] = [job[w] EXCEPT !.pc = pc]
  BY DEF TInv, TypeOK
<1>2. QED  BY <1>1 DEF Job

LEMMA ReturnIs ==
    ASSUME TInv, NEW w \in Worker, Return(w)
    PROVE  job'[w].pc = "idle" /\ job'[w] = Idle
BY DEF TInv, TypeOK, Idle

\* The type invariant is kept by put_blob.
LEMMA TypePut ==
    ASSUME TInv, NEW w \in Worker,
           (\E s \in Sha : PutCheck(w, s)) \/ PutWrite(w) \/ PutIndex(w)
    PROVE  TInv'
<1>0. Idle \in GoodJob
  BY IdleGood
<1>1. CASE \E s \in Sha : PutCheck(w, s)
  <2>1. PICK s \in Sha : PutCheck(w, s)
    BY <1>1
  <2>2. [Idle EXCEPT !.pc = IF incoming[s] = "absent" THEN "put_write" ELSE "put_index",
                     !.op = "put", !.sha = s] \in GoodJob
    <3> DEFINE pc == IF incoming[s] = "absent" THEN "put_write" ELSE "put_index"
               j == [Idle EXCEPT !.pc = pc, !.op = "put", !.sha = s]
    <3>1. pc \in {"put_write", "put_index"}
      OBVIOUS
    <3> HIDE DEF pc
    <3>2. j \in Job /\ j.pc = pc /\ j.op = "put" /\ j.sha = s
      BY <1>0, <3>1 DEF Idle, GoodJob, Job, PC, OpNames
    <3> HIDE DEF j
    <3>3. j \in GoodJob
      BY <3>1, <3>2 DEF GoodJob, WellFormed, MayBeAt, Removing
    <3>4. QED  BY <3>3 DEF j, pc
  <2>3. QED  BY <2>1, <2>2, JobStep DEF PutCheck, TInv, TypeOK
<1>2. CASE PutWrite(w)
  <2>1. job[w] \in GoodJob /\ WellFormed(job[w]) /\ job[w].pc = "put_write"
    BY <1>2 DEF PutWrite, TInv, GoodJob
  <2>2. "put_index" \in PC /\ MayBeAt(job[w], "put_index") /\ job[w].sha \in Sha
    BY <2>1 DEF WellFormed, MayBeAt, PC, Removing
  <2>3. QED  BY <1>2, <2>1, <2>2, PcStep, JobStep DEF PutWrite, TInv, TypeOK
<1>3. CASE PutIndex(w)
  <2>1. job[w].sha \in Sha /\ InPool \in Path
    BY <1>3 DEF PutIndex, TInv, GoodJob, WellFormed, MayBeAt, Path
  <2>2. QED  BY <1>0, <1>3, <2>1, JobStep DEF PutIndex, TInv, TypeOK
<1>4. QED  BY <1>1, <1>2, <1>3

\* ... by the build of a version directory.
LEMMA TypeBuild ==
    ASSUME TInv, NEW w \in Worker,
           \/ \E m \in Fw, u \in User : Stage(w, m, u)
           \/ \E m \in Fw : Publish(w, m)
           \/ Quota(w) \/ Lookup(w) \/ Copy(w)
    PROVE  TInv'
<1>0. Idle \in GoodJob /\ job[w] \in GoodJob /\ job[w] \in Job /\ WellFormed(job[w])
  BY IdleGood DEF TInv, GoodJob
<1>1. ASSUME NEW op \in {"stage", "publish"}, NEW m \in Fw, NEW u \in User \cup {Nil},
             op = "stage" => u \in User, Validate(w, op, m, u)
      PROVE  TInv'
  <2>1. KeyOf[m] \in Key /\ 1 \in 1..Len(BlobsOf[m])
    BY StoreAssumption
  <2>2. [Idle EXCEPT !.pc = IF op = "stage" THEN "quota" ELSE "lookup", !.op = op, !.fw = m,
                     !.key = KeyOf[m], !.by = u, !.n = 1] \in GoodJob
    <3> DEFINE pc == IF op = "stage" THEN "quota" ELSE "lookup"
               j == [Idle EXCEPT !.pc = pc, !.op = op, !.fw = m, !.key = KeyOf[m], !.by = u,
                                 !.n = 1]
    <3>1. pc \in {"quota", "lookup"} /\ (pc = "quota" => op = "stage")
      OBVIOUS
    <3> HIDE DEF pc
    <3>2. /\ j.pc = pc /\ j.op = op /\ j.fw = m /\ j.key = KeyOf[m] /\ j.by = u /\ j.n = 1
          /\ j \in Job
      <4>1. Idle \in Job
        BY <1>0 DEF GoodJob
      <4>2. pc \in PC /\ op \in OpNames
        BY <1>1, <3>1 DEF PC, OpNames
      <4>3. QED  BY <1>1, <2>1, <4>1, <4>2 DEF Job
    <3> HIDE DEF j
    <3>3. j \in GoodJob
      BY <1>1, <2>1, <3>1, <3>2 DEF GoodJob, WellFormed, MayBeAt, Removing
    <3>4. QED  BY <3>3 DEF j, pc
  <2>3. QED  BY <1>1, <2>2, JobStep DEF Validate, TInv, TypeOK
<1>2. CASE Quota(w)
  <2>1. "lookup" \in PC /\ MayBeAt(job[w], "lookup")
    BY <1>0, <1>2 DEF Quota, WellFormed, MayBeAt, PC, Removing
  <2>2. QED  BY <1>0, <1>2, <2>1, PcStep, JobStep DEF Quota, TInv, TypeOK
<1>3. ASSUME job[w].pc \in {"lookup", "copy"}
      PROVE  /\ Blob(w)[1] \in Sha /\ Blob(w)[2] \in File
             /\ job[w].n \in 1..Len(BlobsOf[job[w].fw]) /\ Len(BlobsOf[job[w].fw]) \in Nat
  <2>1. job[w].fw \in Fw /\ job[w].n \in 1..Len(BlobsOf[job[w].fw])
    BY <1>0, <1>3 DEF WellFormed, MayBeAt
  <2>2. BlobsOf[job[w].fw] \in Seq(Sha \X File)
    BY <2>1, StoreAssumption
  <2>3. QED  BY <2>1, <2>2 DEF Blob
<1>4. CASE Lookup(w)
  <2>1. CASE paths[Blob(w)[1]] = Nil
    BY <1>0, <1>4, <2>1, JobStep DEF Lookup, TInv, TypeOK
  <2>2. CASE paths[Blob(w)[1]] # Nil
    <3> DEFINE j == [job[w] EXCEPT !.src = paths[Blob(w)[1]]]
    <3>1. paths[Blob(w)[1]] \in Path
      BY <1>3, <1>4, <2>2 DEF Lookup, TInv, TypeOK
    <3>2. j \in Job /\ j.pc = "lookup" /\ j.src \in Path
          /\ j.op = job[w].op /\ j.fw = job[w].fw /\ j.key = job[w].key /\ j.by = job[w].by
          /\ j.sha = job[w].sha /\ j.n = job[w].n
      BY <1>0, <1>4, <3>1 DEF Lookup, Job
    <3>3. j \in GoodJob /\ "copy" \in PC /\ MayBeAt(j, "copy")
      <4> HIDE DEF j
      <4> QED  BY <1>0, <1>4, <3>2 DEF Lookup, GoodJob, WellFormed, MayBeAt, PC, Removing
    <3>4. [j EXCEPT !.pc = "copy"] \in GoodJob
      BY <3>3, PcStep
    <3>5. job' = [job EXCEPT ![w] = [j EXCEPT !.pc = "copy"]]
      BY <1>4, <2>2 DEF Lookup, TInv
    <3>6. QED  BY <1>4, <3>4, <3>5, JobStep DEF Lookup, TInv, TypeOK
  <2>3. QED  BY <2>1, <2>2
<1>5. CASE Copy(w)
  <2> DEFINE got == Bytes(job[w].src, Blob(w)[1])
             last == job[w].n = Len(BlobsOf[job[w].fw])
             j == [job[w] EXCEPT !.files[Blob(w)[2]] = got, !.src = Nil,
                                 !.n = IF last THEN 0 ELSE @ + 1]
             pc == IF last THEN "replace" ELSE "lookup"
  <2>0. job[w].pc = "copy"
    BY <1>5 DEF Copy, At
  <2>1. CASE got = Nil
    BY <1>0, <1>5, <2>1, JobStep DEF Copy, TInv, TypeOK
  <2>2. CASE got # Nil
    <3>1. got \in Sha
      BY <1>0, <1>3, <1>5, <2>2, BytesType DEF Copy, TInv, WellFormed, MayBeAt
    <3>2. (IF last THEN 0 ELSE job[w].n + 1) \in Nat
      <4>1. job[w].n \in Nat
        BY <1>3, <2>0
      <4> HIDE DEF last
      <4>2. QED  BY <4>1
    <3>3. j \in Job /\ j.pc = "copy"
          /\ j.op = job[w].op /\ j.fw = job[w].fw /\ j.key = job[w].key /\ j.by = job[w].by
          /\ j.sha = job[w].sha /\ j.n = IF last THEN 0 ELSE job[w].n + 1
      <4> HIDE DEF got, last
      <4>1. job[w] \in Job /\ job[w].pc = "copy" /\ Blob(w)[2] \in File
        BY <1>0, <1>3, <1>5 DEF Copy, At
      <4>2. [job[w].files EXCEPT ![Blob(w)[2]] = got] \in [File -> Sha \cup {Nil}]
        BY <3>1, <4>1 DEF Job
      <4>3. j = [job[w] EXCEPT !.files = [job[w].files EXCEPT ![Blob(w)[2]] = got], !.src = Nil,
                               !.n = IF last THEN 0 ELSE job[w].n + 1]
        BY <4>1 DEF Job
      <4> HIDE DEF j
      <4>4. QED  BY <3>2, <4>1, <4>2, <4>3 DEF Job
    <3>4. pc \in PC /\ MayBeAt(j, pc)
      <4>1. ~ last => job[w].n + 1 \in 1..Len(BlobsOf[job[w].fw])
        <5>1. job[w].n \in 1..Len(BlobsOf[job[w].fw]) /\ Len(BlobsOf[job[w].fw]) \in Nat
          BY <1>3, <2>0
        <5>2. QED  BY <5>1
      <4> HIDE DEF j, got, last
      <4>2. QED  BY <1>0, <1>5, <3>3, <4>1 DEF Copy, WellFormed, MayBeAt, PC, Removing
    <3>5. [j EXCEPT !.pc = pc] \in GoodJob
      <4>1. /\ [j EXCEPT !.pc = pc] \in Job /\ [j EXCEPT !.pc = pc].pc = pc
            /\ \A fld \in {"op", "fw", "key", "by", "sha", "n", "src"} :
                  [j EXCEPT !.pc = pc][fld] = j[fld]
        <5> HIDE DEF j, pc
        <5> QED  BY <3>3, <3>4 DEF Job
      <4>2. QED  BY <3>4, <4>1 DEF GoodJob, WellFormed, MayBeAt
    <3>6. job' = [job EXCEPT ![w] = [j EXCEPT !.pc = pc]]
      BY <1>5, <2>2 DEF Copy, TInv
    <3>7. QED  BY <1>5, <3>5, <3>6, JobStep DEF Copy, TInv, TypeOK
  <2>3. QED  BY <2>1, <2>2
<1>6. CASE \E m \in Fw, u \in User : Stage(w, m, u)
  BY <1>1, <1>6 DEF Stage
<1>7. CASE \E m \in Fw : Publish(w, m)
  BY <1>1, <1>7 DEF Publish
<1>8. QED  BY <1>2, <1>4, <1>5, <1>6, <1>7

\* The directory at a place, and the trees after one place changes.
LEMMA SetDirType ==
    ASSUME TypeOK, NEW place \in Place, NEW dir \in VersionDir \cup {Nil}, SetDir(place, dir)
    PROVE  /\ firmware' \in [Key -> VersionDir \cup {Nil}]
           /\ staging' \in [Key -> VersionDir \cup {Nil}]
BY DEF SetDir, TypeOK, Place

LEMMA FollowType ==
    ASSUME TypeOK, NEW from, NEW to \in Place \cup {Nil}
    PROVE  Follow(from, to) \in [Worker -> Place \cup {Nil}]
BY DEF Follow, TypeOK

\* A directory that loses an entry is still a directory.
LEMMA FewerType ==
    ASSUME NEW dir \in VersionDir, NEW less \in Fewer(dir)
    PROVE  less \in VersionDir /\ less # Nil
BY NilAssumption DEF Fewer, VersionDir

\* An open directory is somewhere in the trees.
LEMMA OpenedType ==
    ASSUME TypeOK, NEW w \in Worker, Opened(w) # Nil
    PROVE  handle[w] \in Place /\ Opened(w) \in VersionDir
BY DEF Opened, DirAt, TypeOK, Place

\* ... by clearing the old directory and committing the new one.
LEMMA TypeCommit ==
    ASSUME TInv, NEW w \in Worker, Replace(w) \/ Unlink(w) \/ Rmdir(w) \/ Commit(w)
    PROVE  TInv'
<1>0. Idle \in GoodJob /\ job[w] \in GoodJob /\ job[w] \in Job /\ WellFormed(job[w]) /\ TypeOK
  BY IdleGood DEF TInv, GoodJob
<1>1. Target(w) \in Place
  BY <1>0 DEF Target, Place, Replace, Unlink, Rmdir, Commit, WellFormed, MayBeAt, Removing
<1>2. ASSUME job[w].pc \in Removing
      PROVE  /\ [job[w] EXCEPT !.pc = AfterRemoval(w)] \in GoodJob
             /\ [job[w] EXCEPT !.pc = "unlink"] \in GoodJob
  <2>1. /\ AfterRemoval(w) \in PC /\ "unlink" \in PC
        /\ MayBeAt(job[w], AfterRemoval(w)) /\ MayBeAt(job[w], "unlink")
    BY <1>0, <1>2 DEF AfterRemoval, PC, WellFormed, MayBeAt, Removing
  <2>2. QED  BY <1>0, <2>1, PcStep
<1>3. CASE Replace(w)
  BY <1>0, <1>1, <1>2, <1>3, JobStep DEF Replace, TInv, TypeOK, Removing
<1>4. CASE Unlink(w)
  <2>1. handle[w] \in Place /\ Opened(w) \in VersionDir
    BY <1>0, <1>4, OpenedType DEF Unlink
  <2>2. PICK dir \in Fewer(Opened(w)) : SetDir(handle[w], dir)
    BY <1>4 DEF Unlink
  <2>3. dir \in VersionDir
    BY <2>1, <2>2, FewerType
  <2>4. /\ firmware' \in [Key -> VersionDir \cup {Nil}]
        /\ staging' \in [Key -> VersionDir \cup {Nil}]
    BY <1>0, <2>1, <2>2, <2>3, SetDirType
  <2>5. QED  BY <1>4, <2>4 DEF Unlink, TInv, TypeOK
<1>5. CASE Rmdir(w)
  <2>1. CASE Vacant(DirAt(Target(w)))
    <3>1. /\ firmware' \in [Key -> VersionDir \cup {Nil}]
          /\ staging' \in [Key -> VersionDir \cup {Nil}]
      BY <1>0, <1>1, <1>5, <2>1, SetDirType DEF Rmdir
    <3>2. handle' \in [Worker -> Place \cup {Nil}]
      BY <1>0, <1>5, <2>1, FollowType DEF Rmdir
    <3>3. QED  BY <1>0, <1>2, <1>5, <2>1, <3>1, <3>2, JobStep DEF Rmdir, TInv, TypeOK, Removing
  <2>2. CASE ~ Vacant(DirAt(Target(w)))
    BY <1>0, <1>5, <2>2, JobStep DEF Rmdir, TInv, TypeOK
  <2>3. QED  BY <2>1, <2>2
<1>6. CASE Commit(w)
  <2> DEFINE j == [job[w] EXCEPT !.pc = "index", !.files = NoFiles]
  <2>1. CASE Vacant(DirAt(Target(w)))
    <3>1. [fw |-> job[w].fw, by |-> job[w].by, files |-> job[w].files] \in VersionDir
      BY <1>0 DEF Job, VersionDir
    <3>2. /\ firmware' \in [Key -> VersionDir \cup {Nil}]
          /\ staging' \in [Key -> VersionDir \cup {Nil}]
      BY <1>0, <1>1, <1>6, <2>1, <3>1, SetDirType DEF Commit
    <3>3. handle' \in [Worker -> Place \cup {Nil}]
      BY <1>0, <1>6, <2>1, FollowType DEF Commit
    <3>4. /\ j \in Job /\ j.pc = "index" /\ j.op = job[w].op /\ j.fw = job[w].fw
          /\ j.key = job[w].key /\ j.by = job[w].by
      BY <1>0 DEF Job, PC, NoFiles
    <3>5. j \in GoodJob
      <4> HIDE DEF j
      <4> QED  BY <1>0, <1>6, <3>4 DEF Commit, GoodJob, WellFormed, MayBeAt, Removing
    <3>6. job' = [job EXCEPT ![w] = j]
      BY <1>6, <2>1 DEF Commit, TInv
    <3>7. QED  BY <1>0, <1>6, <3>2, <3>3, <3>5, <3>6, JobStep DEF Commit, TInv, TypeOK
  <2>2. CASE ~ Vacant(DirAt(Target(w)))
    BY <1>0, <1>6, <2>2, JobStep DEF Commit, TInv, TypeOK
  <2>3. QED  BY <2>1, <2>2
<1>7. QED  BY <1>3, <1>4, <1>5, <1>6

\* ... by the index update and the sweep.
LEMMA TypeIndex ==
    ASSUME TInv, NEW w \in Worker,
           Index(w) \/ SweepOwned(w) \/ SweepFile(w) \/ SweepEnd(w)
    PROVE  TInv'
<1>0. Idle \in GoodJob /\ job[w] \in GoodJob /\ job[w] \in Job /\ WellFormed(job[w]) /\ TypeOK
  BY IdleGood DEF TInv, GoodJob
<1>1. CASE Index(w)
  <2>1. job[w].key \in Key /\ job[w].fw \in Fw /\ (job[w].op = "stage" => job[w].by \in User)
    BY <1>0, <1>1 DEF Index, WellFormed, MayBeAt
  <2>2. live' \in [Key -> Fw \cup {Nil}] /\ staged' \in [Key -> Entry \cup {Nil}]
    BY <1>0, <1>1, <2>1 DEF Index, TypeOK, Entry
  <2>3. [Idle EXCEPT !.pc = "sweep_owned"] \in GoodJob
    BY NilAssumption DEF OpNames, Idle, GoodJob, WellFormed, MayBeAt, Job, PC, NoFiles, Removing
  <2>4. paths' \in [Sha -> Path \cup {Nil}]
    BY <1>1, <2>2, RebuildType DEF Index
  <2>5. QED  BY <1>0, <1>1, <2>2, <2>3, <2>4, JobStep DEF Index, TInv, TypeOK
<1>2. ASSUME NEW S \in SUBSET Sha, NEW j, j = [job[w] EXCEPT !.shas = S, !.pc = "sweep_file"],
             job[w].pc \in {"sweep_owned", "sweep_file"}
      PROVE  j \in GoodJob
  <2>1. /\ j \in Job /\ j.pc = "sweep_file" /\ j.op = job[w].op /\ j.by = job[w].by
    BY <1>0, <1>2 DEF Job, PC
  <2>2. QED  BY <1>0, <1>2, <2>1 DEF GoodJob, WellFormed, MayBeAt, Removing
<1>3. CASE SweepOwned(w)
  <2>1. Owned \in SUBSET Sha
    BY DEF Owned
  <2>2. [job[w] EXCEPT !.shas = Owned, !.pc = "sweep_file"] \in GoodJob
    BY <1>2, <1>3, <2>1 DEF SweepOwned
  <2>3. job' = [job EXCEPT ![w] = [job[w] EXCEPT !.shas = Owned, !.pc = "sweep_file"]]
    BY <1>3 DEF SweepOwned, TInv
  <2>4. QED  BY <1>0, <1>3, <2>2, <2>3, JobStep DEF SweepOwned, TInv, TypeOK
<1>4. CASE SweepFile(w)
  <2>1. PICK s \in job[w].shas :
            /\ incoming' = [incoming EXCEPT ![s] = "absent"]
            /\ job' = [job EXCEPT ![w].shas = @ \ {s}]
    BY <1>4 DEF SweepFile
  <2>2. job[w].shas \ {s} \in SUBSET Sha
    BY <1>0 DEF Job
  <2>3. [job[w] EXCEPT !.shas = @ \ {s}] = [job[w] EXCEPT !.shas = job[w].shas \ {s}, !.pc = "sweep_file"]
    BY <1>0, <1>4 DEF SweepFile, Job
  <2>4. [job[w] EXCEPT !.shas = @ \ {s}] \in GoodJob
    BY <1>2, <1>4, <2>2, <2>3 DEF SweepFile
  <2>5. job' = [job EXCEPT ![w] = [job[w] EXCEPT !.shas = @ \ {s}]]
    BY <2>1 DEF TInv
  <2>6. QED  BY <1>0, <1>4, <2>1, <2>4, <2>5, JobStep DEF SweepFile, TInv, TypeOK
<1>5. CASE SweepEnd(w)
  <2>1. paths' \in [Sha -> Path \cup {Nil}]
    BY <1>0, <1>5, RebuildType DEF SweepEnd, TypeOK
  <2>2. QED  BY <1>0, <1>5, <2>1, JobStep DEF SweepEnd, TInv, TypeOK
<1>6. QED  BY <1>1, <1>3, <1>4, <1>5

\* ... by approvals and rejections.
LEMMA TypeReview ==
    ASSUME TInv, NEW w \in Worker,
           \/ \E k \in Key : Approve(w, k) \/ Reject(w, k)
           \/ Rename(w) \/ GoLive(w) \/ RejectCheck(w) \/ Unstage(w)
    PROVE  TInv'
<1>0. Idle \in GoodJob /\ job[w] \in GoodJob /\ job[w] \in Job /\ WellFormed(job[w]) /\ TypeOK
  BY IdleGood DEF TInv, GoodJob
<1>1. ASSUME NEW k \in Key, Approve(w, k) PROVE TInv'
  <2>1. [Idle EXCEPT !.pc = "check", !.op = "reject", !.key = k] \in GoodJob
    BY DEF OpNames, Idle, GoodJob, WellFormed, MayBeAt, Job, PC, NoFiles, Removing
  <2>2. ASSUME staged[k] # Nil
        PROVE  [Idle EXCEPT !.pc = "rename", !.op = "approve", !.key = k,
                            !.fw = staged[k].fw] \in GoodJob
    <3>1. staged[k].fw \in Fw
      BY <1>0, <2>2 DEF TypeOK, Entry
    <3>2. QED
      BY <3>1 DEF OpNames, Idle, GoodJob, WellFormed, MayBeAt, Job, PC, NoFiles, Removing
  <2>3. QED  BY <1>0, <1>1, <2>1, <2>2, JobStep DEF Approve, TInv, TypeOK
<1>2. ASSUME NEW k \in Key, Reject(w, k) PROVE TInv'
  <2>1. [Idle EXCEPT !.pc = "replace", !.op = "reject", !.key = k] \in GoodJob
    BY DEF OpNames, Idle, GoodJob, WellFormed, MayBeAt, Job, PC, NoFiles, Removing
  <2>2. QED  BY <1>0, <1>2, <2>1, JobStep DEF Reject, TInv, TypeOK
<1>3. CASE Rename(w)
  <2> DEFINE k == job[w].key
  <2>1. k \in Key
    BY <1>0, <1>3 DEF Rename, WellFormed, MayBeAt
  <2>2. CASE staging[k] # Nil /\ Vacant(firmware[k])
    <3>1. "golive" \in PC /\ MayBeAt(job[w], "golive")
      BY <1>0, <1>3 DEF Rename, WellFormed, MayBeAt, PC, Removing
    <3>2. [staging[k] EXCEPT !.by = Nil] \in VersionDir
      BY <1>0, <2>1, <2>2 DEF TypeOK, VersionDir
    <3>3. <<"firmware", k>> \in Place
      BY <2>1 DEF Place
    <3>4. handle' \in [Worker -> Place \cup {Nil}]
      BY <1>0, <1>3, <2>2, <3>3, FollowType DEF Rename
    <3>5. QED
      BY <1>0, <1>3, <2>1, <2>2, <3>1, <3>2, <3>4, PcStep, JobStep DEF Rename, TInv, TypeOK
  <2>3. CASE ~ (staging[k] # Nil /\ Vacant(firmware[k]))
    BY <1>0, <1>3, <2>3, JobStep DEF Rename, TInv, TypeOK
  <2>4. QED  BY <2>2, <2>3
<1>4. CASE GoLive(w)
  <2>1. job[w].key \in Key /\ job[w].fw \in Fw
    BY <1>0, <1>4 DEF GoLive, WellFormed, MayBeAt
  <2>2. live' \in [Key -> Fw \cup {Nil}] /\ staged' \in [Key -> Entry \cup {Nil}]
    BY <1>0, <1>4, <2>1 DEF GoLive, TypeOK
  <2>3. paths' \in [Sha -> Path \cup {Nil}]
    BY <1>4, <2>2, RebuildType DEF GoLive
  <2>4. QED  BY <1>0, <1>4, <2>2, <2>3, JobStep DEF GoLive, TInv, TypeOK
<1>5. CASE RejectCheck(w)
  <2>1. "replace" \in PC /\ MayBeAt(job[w], "replace")
    BY <1>0, <1>5 DEF RejectCheck, WellFormed, MayBeAt, PC, Removing
  <2>2. QED  BY <1>0, <1>5, <2>1, PcStep, JobStep DEF RejectCheck, TInv, TypeOK
<1>6. CASE Unstage(w)
  <2>1. staged' \in [Key -> Entry \cup {Nil}]
    BY <1>0, <1>6 DEF Unstage, TypeOK
  <2>2. paths' \in [Sha -> Path \cup {Nil}]
    BY <1>0, <1>6, <2>1, RebuildType DEF Unstage, TypeOK
  <2>3. QED  BY <1>0, <1>6, <2>1, <2>2, JobStep DEF Unstage, TInv, TypeOK
<1>7. QED  BY <1>1, <1>2, <1>3, <1>4, <1>5, <1>6

\* ... by gc_incoming.
LEMMA TypeGc ==
    ASSUME TInv, NEW w \in Worker, GcBegin(w) \/ GcFile(w) \/ GcEnd(w)
    PROVE  TInv'
<1>0. Idle \in GoodJob /\ job[w] \in GoodJob /\ job[w] \in Job /\ WellFormed(job[w]) /\ TypeOK
  BY IdleGood DEF TInv, GoodJob
<1>1. CASE GcBegin(w)
  <2>1. [Idle EXCEPT !.pc = "gc_files", !.op = "gc", !.shas = Sha \ Referenced] \in GoodJob
    BY DEF OpNames, Idle, GoodJob, WellFormed, MayBeAt, Job, PC, NoFiles, Removing
  <2>2. QED  BY <1>0, <1>1, <2>1, JobStep DEF GcBegin, TInv, TypeOK
<1>2. CASE GcFile(w)
  <2>1. PICK s \in job[w].shas :
            /\ incoming' = [incoming EXCEPT ![s] = "absent"]
            /\ job' = [job EXCEPT ![w].shas = @ \ {s}, ![w].n = 1]
    BY <1>2 DEF GcFile
  <2> DEFINE j == [job[w] EXCEPT !.shas = @ \ {s}, !.n = 1]
  <2>2. j \in Job /\ j.pc = "gc_files" /\ j.op = job[w].op /\ j.by = job[w].by
    BY <1>0, <1>2 DEF GcFile, Job
  <2>3. j \in GoodJob
    <3> HIDE DEF j
    <3> QED  BY <1>0, <1>2, <2>2 DEF GcFile, GoodJob, WellFormed, MayBeAt, Removing
  <2>4. job' = [job EXCEPT ![w] = j]
    BY <2>1 DEF TInv
  <2>5. QED  BY <1>0, <1>2, <2>1, <2>3, <2>4, JobStep DEF GcFile, TInv, TypeOK
<1>3. CASE GcEnd(w)
  <2>1. paths' \in [Sha -> Path \cup {Nil}]
    BY <1>0, <1>3, RebuildType DEF GcEnd, TypeOK
  <2>2. QED  BY <1>0, <1>3, <2>1, JobStep DEF GcEnd, TInv, TypeOK
<1>4. QED  BY <1>1, <1>2, <1>3

\* A scan of the disk yields an index.
LEMMA ScanType ==
    ASSUME TypeOK
    PROVE  ScanStaged \in [Key -> Entry \cup {Nil}]
<1>1. ASSUME NEW k \in Key, Manifest(staging)[k] # Nil
      PROVE  [fw |-> staging[k].fw, by |-> staging[k].by] \in [fw : Fw, by : User \cup {Nil}]
  BY <1>1 DEF TypeOK, Manifest, VersionDir
<1>2. QED  BY <1>1 DEF ScanStaged, Entry

\* ... by ageing, reloads and crashes.
LEMMA TypeRest ==
    ASSUME TInv, (\E s \in Sha : Age(s)) \/ ReloadScan \/ ReloadSwap \/ Crash
    PROVE  TInv'
<1>1. CASE \E s \in Sha : Age(s)
  BY <1>1 DEF Age, TInv, TypeOK
<1>2. CASE ReloadScan
  BY <1>2 DEF ReloadScan, TInv, TypeOK
<1>3. CASE ReloadSwap
  <2>1. Manifest(scan) \in [Key -> Fw \cup {Nil}] /\ ScanStaged \in [Key -> Entry \cup {Nil}]
    BY <1>3, ManifestType, ScanType DEF ReloadSwap, TInv, TypeOK, Unlocked
  <2>2. QED  BY <1>3, <2>1, RebuildType DEF ReloadSwap, TInv, TypeOK
<1>4. CASE Crash
  <2>1. Manifest(firmware) \in [Key -> Fw \cup {Nil}] /\ ScanStaged \in [Key -> Entry \cup {Nil}]
    BY <1>4, ManifestType, ScanType DEF TInv, TypeOK
  <2>2. Idle \in Job
    BY IdleGood DEF GoodJob
  <2>3. QED  BY <1>4, <2>1, <2>2, RebuildType, IdleGood DEF Crash, TInv, TypeOK
<1>5. QED  BY <1>1, <1>2, <1>3, <1>4

\* Every step keeps the type invariant.
LEMMA TypeNext == TInv /\ [Next]_vars => TInv'
<1> SUFFICES ASSUME TInv, [Next]_vars PROVE TInv'
  OBVIOUS
<1>1. ASSUME NEW w \in Worker, Call(w) PROVE TInv'
  BY <1>1, TypePut, TypeBuild, TypeReview, TypeGc DEF Call
<1>2. ASSUME NEW w \in Worker, Step(w) PROVE TInv'
  BY <1>2, TypePut, TypeBuild, TypeCommit, TypeIndex, TypeReview, TypeGc DEF Step
<1>3. CASE UNCHANGED vars
  BY <1>3 DEF vars, TInv, TypeOK
<1>4. QED  BY <1>1, <1>2, <1>3, TypeRest DEF Next

\* What the disk, the index and every request hold always has its shape: in
\* particular a scan of a half-removed tree never lists a nameless submission.
THEOREM TypeCorrect == Spec => []TypeOK
<1>1. TInv => TypeOK
  BY DEF TInv
<1>2. QED  BY TypeInit, TypeNext, <1>1, PTL DEF Spec

-----------------------------------------------------------------------------
(* The live index and the firmware tree *)

NoPublish == \A w \in Worker : job[w].op # "publish"

\* Between the rename of an approval and its index update, the directory stays.
GoingLiveHasDir == \A w \in Worker : At(w, "golive") => firmware[job[w].key] # Nil

\* What a reload has read still exists when it swaps the index in, and has
\* every version the index lists.
ScanAgrees ==
    scan # Nil => \A k \in Key : /\ scan[k] # Nil => firmware[k] # Nil
                                 /\ live[k] # Nil => scan[k] # Nil

ServiceInv ==
    /\ TInv
    /\ NoPublish
    /\ LiveKeyHasDir
    /\ GoingLiveHasDir
    /\ ScanAgrees

\* Only an approval adds a firmware directory, and nothing removes one: what a
\* removal empties keeps its name.
FirmwareStays == \A k \in Key : firmware[k] # Nil => firmware'[k] # Nil

\* A request never turns into a publication.
LEMMA NoPublishStep ==
    ASSUME TInv, NoPublish, "publish" \notin Ops, [Next]_vars
    PROVE  NoPublish'
<1>0. Idle.op # "publish" /\ Idle.op = Nil /\ job \in [Worker -> Job]
  BY NilAssumption DEF Idle, OpNames, TInv, TypeOK
<1>1. ASSUME NEW w \in Worker, NEW j, j.op # "publish", job' = [job EXCEPT ![w] = j]
      PROVE  NoPublish'
  BY <1>1 DEF NoPublish, TInv, TypeOK
<1>2. ASSUME NEW w \in Worker, NEW pc, job' = [job EXCEPT ![w].pc = pc]
      PROVE  NoPublish'
  BY <1>0, <1>2 DEF NoPublish, Job
<1>3. ASSUME NEW w \in Worker, Return(w) PROVE NoPublish'
  BY <1>0, <1>1, <1>3
<1>4. ASSUME NEW w \in Worker, Call(w) PROVE NoPublish'
  <2>1. CASE \E s \in Sha : PutCheck(w, s)
    BY <1>0, <1>1, <2>1 DEF PutCheck, Idle
  <2>2. CASE \E m \in Fw, u \in User : Stage(w, m, u)
    BY <1>0, <1>1, <2>2 DEF Stage, Validate, Idle
  <2>3. CASE \E m \in Fw : Publish(w, m)
    BY <2>3 DEF Publish, Validate
  <2>4. CASE \E k \in Key : Approve(w, k) \/ Reject(w, k)
    BY <1>0, <1>1, <2>4 DEF Approve, Reject, Idle
  <2>5. CASE GcBegin(w)
    BY <1>0, <1>1, <2>5 DEF GcBegin, Idle
  <2>6. QED  BY <1>4, <2>1, <2>2, <2>3, <2>4, <2>5 DEF Call
<1>5. ASSUME NEW w \in Worker, Step(w) PROVE NoPublish'
  <2>1. CASE PutWrite(w) \/ PutIndex(w) \/ Quota(w) \/ Replace(w) \/ Rmdir(w)
    BY <1>2, <1>3, <2>1 DEF PutWrite, PutIndex, Quota, Replace, Rmdir
  <2>2. CASE Lookup(w) \/ Copy(w) \/ Commit(w)
    BY <1>0, <1>3, <2>2 DEF Lookup, Copy, Commit, NoPublish, Job
  <2>3. CASE Index(w)
    BY <1>1, <2>3, NilAssumption DEF Index, Idle, OpNames
  <2>4. CASE SweepOwned(w) \/ SweepFile(w) \/ SweepEnd(w) \/ GcFile(w) \/ GcEnd(w)
    <3>1. job[w] \in Job /\ job[w].op # "publish"
      BY <1>0 DEF NoPublish
    <3>2. CASE SweepOwned(w)
      <4>1. [job[w] EXCEPT !.shas = Owned, !.pc = "sweep_file"].op = job[w].op
        BY <3>1 DEF Job
      <4>2. job' = [job EXCEPT ![w] = [job[w] EXCEPT !.shas = Owned, !.pc = "sweep_file"]]
        BY <1>0, <3>2 DEF SweepOwned
      <4>3. QED  BY <1>1, <3>1, <4>1, <4>2
    <3>3. CASE SweepFile(w)
      <4>1. PICK s \in job[w].shas : job' = [job EXCEPT ![w].shas = @ \ {s}]
        BY <3>3 DEF SweepFile
      <4>2. [job[w] EXCEPT !.shas = @ \ {s}].op = job[w].op
        BY <3>1 DEF Job
      <4>3. QED  BY <1>0, <1>1, <3>1, <4>1, <4>2
    <3>4. CASE GcFile(w)
      <4>1. PICK s \in job[w].shas : job' = [job EXCEPT ![w].shas = @ \ {s}, ![w].n = 1]
        BY <3>4 DEF GcFile
      <4>2. [job[w] EXCEPT !.shas = @ \ {s}, !.n = 1].op = job[w].op
        BY <3>1 DEF Job
      <4>3. QED  BY <1>0, <1>1, <3>1, <4>1, <4>2
    <3>5. QED  BY <1>3, <2>4, <3>2, <3>3, <3>4 DEF SweepEnd, GcEnd
  <2>5. CASE Rename(w) \/ GoLive(w) \/ RejectCheck(w) \/ Unstage(w)
    BY <1>2, <1>3, <2>5 DEF Rename, GoLive, RejectCheck, Unstage
  <2>6. CASE Unlink(w)
    BY <2>6 DEF Unlink, NoPublish
  <2>7. QED  BY <1>5, <2>1, <2>2, <2>3, <2>4, <2>5, <2>6 DEF Step
<1>6. CASE (\E s \in Sha : Age(s)) \/ ReloadScan \/ ReloadSwap
  BY <1>6 DEF Age, ReloadScan, ReloadSwap, NoPublish
<1>7. CASE Crash
  BY <1>0, <1>7 DEF Crash, NoPublish
<1>8. CASE UNCHANGED vars
  BY <1>8 DEF vars, NoPublish
<1>9. QED  BY <1>4, <1>5, <1>6, <1>7, <1>8 DEF Next

\* Which steps touch the version directories, and which the live index.
LEMMA WhoChanges ==
    ASSUME [Next]_vars
    PROVE  /\ \/ UNCHANGED <<firmware, staging>>
              \/ \E w \in Worker : Unlink(w) \/ Rmdir(w) \/ Commit(w) \/ Rename(w)
           /\ \/ UNCHANGED live
              \/ \E w \in Worker : Index(w) \/ GoLive(w)
              \/ ReloadSwap \/ Crash
           /\ UNCHANGED scan \/ ReloadScan \/ ReloadSwap \/ Crash
<1>1. ASSUME NEW w \in Worker, Call(w) PROVE UNCHANGED <<firmware, staging, live, scan>>
  BY <1>1 DEF Call, PutCheck, Stage, Publish, Validate, Approve, Reject, GcBegin
<1>2. ASSUME NEW w \in Worker, Step(w)
      PROVE  /\ \/ UNCHANGED <<firmware, staging>>
                \/ Unlink(w) \/ Rmdir(w) \/ Commit(w) \/ Rename(w)
             /\ UNCHANGED live \/ Index(w) \/ GoLive(w)
             /\ UNCHANGED scan
  <2>1. CASE PutWrite(w) \/ PutIndex(w) \/ Quota(w) \/ Lookup(w) \/ Copy(w) \/ Replace(w)
    BY <2>1 DEF PutWrite, PutIndex, Quota, Lookup, Copy, Replace
  <2>2. CASE Unlink(w) \/ Rmdir(w) \/ Commit(w) \/ Index(w)
    BY <2>2 DEF Unlink, Rmdir, Commit, Index
  <2>3. CASE SweepOwned(w) \/ SweepFile(w) \/ SweepEnd(w) \/ GcFile(w) \/ GcEnd(w)
    BY <2>3 DEF SweepOwned, SweepFile, SweepEnd, GcFile, GcEnd
  <2>4. CASE Rename(w) \/ GoLive(w) \/ RejectCheck(w) \/ Unstage(w)
    BY <2>4 DEF Rename, GoLive, RejectCheck, Unstage
  <2>5. QED  BY <1>2, <2>1, <2>2, <2>3, <2>4 DEF Step
<1>3. CASE (\E s \in Sha : Age(s)) \/ ReloadScan
  BY <1>3 DEF Age, ReloadScan
<1>4. CASE ReloadSwap \/ Crash
  BY <1>4 DEF ReloadSwap, Crash
<1>5. CASE UNCHANGED vars
  BY <1>5 DEF vars
<1>6. QED  BY <1>1, <1>2, <1>3, <1>4, <1>5 DEF Next

\* A request other than a publication removes and commits under staging/.
LEMMA TargetStaging ==
    ASSUME NoPublish, NEW w \in Worker
    PROVE  Target(w) = <<"staging", job[w].key>>
BY DEF NoPublish, Target

\* No firmware directory loses its name.
LEMMA FirmwareStaysStep ==
    ASSUME TInv, NoPublish, [Next]_vars
    PROVE  FirmwareStays
<1> SUFFICES ASSUME NEW k \in Key, firmware[k] # Nil PROVE firmware'[k] # Nil
  BY DEF FirmwareStays
<1>1. firmware \in [Key -> VersionDir \cup {Nil}] /\ staging \in [Key -> VersionDir \cup {Nil}]
  BY DEF TInv, TypeOK
<1>2. ASSUME NEW w \in Worker, Unlink(w) PROVE firmware'[k] # Nil
  <2>1. PICK dir \in Fewer(Opened(w)) : SetDir(handle[w], dir)
    BY <1>2 DEF Unlink
  <2>2. dir # Nil
    BY <1>2, <2>1, OpenedType, FewerType DEF Unlink, TInv
  <2>3. QED  BY <1>1, <2>1, <2>2 DEF SetDir
<1>3. ASSUME NEW w \in Worker, Rmdir(w) PROVE firmware'[k] # Nil
  BY <1>1, <1>3, TargetStaging DEF Rmdir, SetDir
<1>4. ASSUME NEW w \in Worker, Commit(w) PROVE firmware'[k] # Nil
  BY <1>1, <1>4, TargetStaging DEF Commit, SetDir
<1>5. ASSUME NEW w \in Worker, Rename(w) PROVE firmware'[k] # Nil
  <2>1. staging[job[w].key] # Nil /\ job[w].key \in Key =>
            [staging[job[w].key] EXCEPT !.by = Nil] \in VersionDir
    BY <1>1 DEF VersionDir
  <2>2. job[w].key \in Key
    BY <1>5 DEF Rename, TInv, GoodJob, WellFormed, MayBeAt
  <2>3. QED  BY <1>1, <1>5, <2>1, <2>2, NilAssumption DEF Rename
<1>6. QED  BY <1>2, <1>3, <1>4, <1>5, WhoChanges

\* A request gets to the index update of an approval only by the rename.
LEMMA WhoGoesLive ==
    ASSUME TInv, [Next]_vars, NEW v \in Worker, job'[v].pc = "golive"
    PROVE  \/ At(v, "golive") /\ job'[v].key = job[v].key
           \/ /\ Rename(v)
              /\ job'[v].key = job[v].key
              /\ staging[job[v].key] # Nil /\ Vacant(firmware[job[v].key])
<1> DEFINE Goal == \/ At(v, "golive") /\ job'[v].key = job[v].key
                   \/ /\ Rename(v)
                      /\ job'[v].key = job[v].key
                      /\ staging[job[v].key] # Nil /\ Vacant(firmware[job[v].key])
<1>0. job \in [Worker -> Job] /\ Idle.pc = "idle" /\ job[v] \in Job
  BY DEF TInv, TypeOK, Idle
<1>1. ASSUME NEW w \in Worker, NEW j, j.pc # "golive", job' = [job EXCEPT ![w] = j]
      PROVE  Goal
  <2>1. v # w /\ job'[v] = job[v]
    BY <1>0, <1>1
  <2>2. QED  BY <1>0, <2>1 DEF At
<1>2. ASSUME NEW w \in Worker, NEW pc, pc # "golive", job' = [job EXCEPT ![w].pc = pc]
      PROVE  Goal
  <2>1. v # w /\ job'[v] = job[v]
    BY <1>0, <1>2 DEF Job
  <2>2. QED  BY <1>0, <2>1 DEF At
<1>3. ASSUME NEW w \in Worker, Return(w) PROVE Goal
  BY <1>0, <1>1, <1>3
<1>4. ASSUME NEW w \in Worker, Call(w) PROVE Goal
  <2>1. CASE \E s \in Sha : PutCheck(w, s)
    BY <1>0, <1>1, <2>1 DEF PutCheck, Idle
  <2>2. CASE (\E m \in Fw, u \in User : Stage(w, m, u)) \/ \E m \in Fw : Publish(w, m)
    <3>1. PICK op \in {"stage", "publish"}, m \in Fw, u \in User \cup {Nil} : Validate(w, op, m, u)
      BY <2>2 DEF Stage, Publish
    <3> DEFINE j == [Idle EXCEPT !.pc = IF op = "stage" THEN "quota" ELSE "lookup", !.op = op,
                                 !.fw = m, !.key = KeyOf[m], !.by = u, !.n = 1]
    <3>2. j.pc # "golive"
      BY DEF Idle
    <3>3. job' = [job EXCEPT ![w] = j]
      BY <3>1 DEF Validate
    <3> HIDE DEF j
    <3>4. QED  BY <1>1, <3>2, <3>3
  <2>3. ASSUME NEW k \in Key, Approve(w, k) \/ Reject(w, k) PROVE Goal
    <3>1. ASSUME NEW j, j.pc \in {"check", "rename", "replace"}, job' = [job EXCEPT ![w] = j]
          PROVE  Goal
      <4>1. j.pc # "golive"
        BY <3>1
      <4>2. QED  BY <1>1, <3>1, <4>1
    <3>2. CASE Approve(w, k)
      <4>1. CASE live[k] # Nil
        <5>1. [Idle EXCEPT !.pc = "check", !.op = "reject", !.key = k].pc = "check"
          BY DEF Idle
        <5>2. QED  BY <3>1, <3>2, <4>1, <5>1 DEF Approve
      <4>2. CASE live[k] = Nil
        <5>1. [Idle EXCEPT !.pc = "rename", !.op = "approve", !.key = k, !.fw = staged[k].fw].pc
                 = "rename"
          BY DEF Idle
        <5>2. QED  BY <3>1, <3>2, <4>2, <5>1 DEF Approve
      <4>3. QED  BY <4>1, <4>2
    <3>3. CASE Reject(w, k)
      <4>1. [Idle EXCEPT !.pc = "replace", !.op = "reject", !.key = k].pc = "replace"
        BY DEF Idle
      <4>2. QED  BY <3>1, <3>3, <4>1 DEF Reject
    <3>4. QED  BY <2>3, <3>2, <3>3
  <2>4. CASE GcBegin(w)
    BY <1>0, <1>1, <2>4 DEF GcBegin, Idle
  <2>5. QED  BY <1>4, <2>1, <2>2, <2>3, <2>4 DEF Call
<1>5. ASSUME NEW w \in Worker, Step(w) PROVE Goal
  <2>0. job[w] \in Job
    BY <1>0
  <2>1. CASE PutWrite(w) \/ PutIndex(w) \/ Quota(w) \/ Replace(w) \/ Unlink(w) \/ Rmdir(w)
    BY <1>2, <1>3, <2>1 DEF PutWrite, PutIndex, Quota, Replace, Unlink, Rmdir, AfterRemoval
  <2>2. CASE Lookup(w) \/ Copy(w) \/ Commit(w)
    <3>1. CASE Lookup(w)
      BY <1>0, <1>3, <3>1 DEF Lookup, Job
    <3>2. CASE Copy(w)
      BY <1>0, <1>3, <3>2 DEF Copy, Job
    <3>3. CASE Commit(w)
      BY <1>0, <1>3, <3>3 DEF Commit, Job
    <3>4. QED  BY <2>2, <3>1, <3>2, <3>3
  <2>3. CASE Index(w)
    BY <1>1, <2>3 DEF Index, Idle
  <2>4. CASE SweepOwned(w)
    <3>1. [job[w] EXCEPT !.shas = Owned, !.pc = "sweep_file"].pc = "sweep_file"
      BY <2>0 DEF Job
    <3>2. QED  BY <1>0, <1>1, <2>4, <3>1 DEF SweepOwned
  <2>5. CASE SweepFile(w)
    <3>1. PICK s \in job[w].shas : job' = [job EXCEPT ![w].shas = @ \ {s}]
      BY <2>5 DEF SweepFile
    <3>2. [job[w] EXCEPT !.shas = @ \ {s}].pc = "sweep_file"
      BY <2>0, <2>5 DEF SweepFile, Job
    <3>3. QED  BY <1>0, <1>1, <3>1, <3>2
  <2>6. CASE GcFile(w)
    <3>1. PICK s \in job[w].shas : job' = [job EXCEPT ![w].shas = @ \ {s}, ![w].n = 1]
      BY <2>6 DEF GcFile
    <3>2. [job[w] EXCEPT !.shas = @ \ {s}, !.n = 1].pc = "gc_files"
      BY <2>0, <2>6 DEF GcFile, Job
    <3>3. QED  BY <1>0, <1>1, <3>1, <3>2
  <2>7. CASE SweepEnd(w) \/ GcEnd(w) \/ GoLive(w) \/ RejectCheck(w) \/ Unstage(w)
    BY <1>2, <1>3, <2>7 DEF SweepEnd, GcEnd, GoLive, RejectCheck, Unstage
  <2>8. CASE Rename(w)
    <3>1. CASE ~ (staging[job[w].key] # Nil /\ Vacant(firmware[job[w].key]))
      BY <1>3, <2>8, <3>1 DEF Rename
    <3>2. CASE staging[job[w].key] # Nil /\ Vacant(firmware[job[w].key])
      <4>1. job' = [job EXCEPT ![w].pc = "golive"]
        BY <2>8, <3>2 DEF Rename
      <4>2. job'[v].key = job[v].key /\ (v # w => job'[v] = job[v])
        BY <1>0, <4>1 DEF Job
      <4>3. QED  BY <2>8, <3>2, <4>2
    <3>3. QED  BY <3>1, <3>2
  <2>9. QED  BY <1>5, <2>1, <2>2, <2>3, <2>4, <2>5, <2>6, <2>7, <2>8 DEF Step
<1>6. CASE (\E s \in Sha : Age(s)) \/ ReloadScan \/ ReloadSwap \/ UNCHANGED vars
  BY <1>6 DEF Age, ReloadScan, ReloadSwap, vars
<1>7. CASE Crash
  BY <1>0, <1>7 DEF Crash
<1>8. QED  BY <1>4, <1>5, <1>6, <1>7 DEF Next

\* The invariant holds of the initial state ...
LEMMA ServiceInit == Init => ServiceInv
<1> SUFFICES ASSUME Init PROVE ServiceInv
  OBVIOUS
<1>1. TInv
  BY TypeInit
<1>2. NoPublish /\ GoingLiveHasDir
  BY NilAssumption DEF Init, NoPublish, GoingLiveHasDir, Idle, OpNames
<1>3. LiveKeyHasDir /\ ScanAgrees
  BY <1>1 DEF Init, TInv, LiveKeyHasDir, ScanAgrees
<1>4. QED  BY <1>1, <1>2, <1>3 DEF ServiceInv

\* ... and, when nobody publishes directly, is kept by every step.
LEMMA ServiceNext ==
    ASSUME "publish" \notin Ops, ServiceInv, [Next]_vars
    PROVE  ServiceInv'
<1>1. TInv' /\ NoPublish' /\ FirmwareStays
  BY TypeNext, NoPublishStep, FirmwareStaysStep DEF ServiceInv
<1>2. ASSUME NEW w \in Worker, Index(w) PROVE UNCHANGED live
  <2>1. job[w].op = "stage"
    BY <1>2 DEF Index, ServiceInv, TInv, GoodJob, WellFormed, MayBeAt, NoPublish
  <2>2. QED  BY <1>2, <2>1 DEF Index
<1>3. ASSUME NEW w \in Worker, GoLive(w), NEW k \in Key, live'[k] # live[k]
      PROVE  firmware[k] # Nil
  BY <1>3 DEF GoLive, ServiceInv, TInv, TypeOK, GoingLiveHasDir
<1>4. LiveKeyHasDir'
  <2> SUFFICES ASSUME NEW k \in Key, live'[k] # Nil PROVE firmware[k] # Nil
    BY <1>1 DEF LiveKeyHasDir, FirmwareStays, TInv
  <2>1. CASE live'[k] = live[k]
    BY <2>1 DEF ServiceInv, LiveKeyHasDir
  <2>2. CASE ReloadSwap
    BY <2>2 DEF ReloadSwap, Manifest, ServiceInv, ScanAgrees, Unlocked
  <2>3. CASE Crash
    BY <2>3 DEF Crash, Manifest
  <2>4. QED  BY <1>2, <1>3, <2>1, <2>2, <2>3, WhoChanges
<1>5. GoingLiveHasDir'
  <2> SUFFICES ASSUME NEW v \in Worker, job'[v].pc = "golive" PROVE firmware'[job'[v].key] # Nil
    BY DEF GoingLiveHasDir
  <2>1. job'[v].key \in Key
    BY <1>1 DEF TInv, GoodJob, WellFormed, MayBeAt
  <2>2. CASE At(v, "golive") /\ job'[v].key = job[v].key
    BY <1>1, <2>1, <2>2 DEF ServiceInv, GoingLiveHasDir, FirmwareStays
  <2>3. CASE Rename(v) /\ job'[v].key = job[v].key /\ staging[job[v].key] # Nil
             /\ Vacant(firmware[job[v].key])
    <3>1. [staging[job[v].key] EXCEPT !.by = Nil] \in VersionDir
      BY <2>1, <2>3 DEF ServiceInv, TInv, TypeOK, VersionDir
    <3>2. QED  BY <2>1, <2>3, <3>1, NilAssumption DEF Rename, ServiceInv, TInv, TypeOK
  <2>4. QED  BY <2>2, <2>3, WhoGoesLive DEF ServiceInv
<1>6. ScanAgrees'
  <2> SUFFICES ASSUME scan' # Nil, NEW k \in Key
               PROVE  (scan'[k] # Nil => firmware'[k] # Nil) /\ (live'[k] # Nil => scan'[k] # Nil)
    BY DEF ScanAgrees
  <2>1. CASE ReloadScan
    BY <2>1 DEF ReloadScan, ServiceInv, LiveKeyHasDir
  <2>2. CASE UNCHANGED scan
    <3>1. UNCHANGED live
      BY <1>2, <2>2, WhoChanges, NilAssumption
         DEF Index, GoLive, Unlocked, ReloadSwap, Crash
    <3>2. QED  BY <1>1, <2>2, <3>1 DEF ServiceInv, ScanAgrees, FirmwareStays
  <2>3. CASE ReloadSwap \/ Crash
    BY <2>3 DEF ReloadSwap, Crash
  <2>4. QED  BY <2>1, <2>2, <2>3, WhoChanges
<1>7. QED  BY <1>1, <1>4, <1>5, <1>6 DEF ServiceInv

\* No index entry outlives its directory: a client that is told a version is
\* live finds a directory there, whatever approvals, rejections, submissions,
\* reloads and crashes are in progress.
THEOREM LiveKeyHasDirHolds ==
    ASSUME "publish" \notin Ops
    PROVE  Spec => []LiveKeyHasDir
<1>1. ServiceInv /\ [Next]_vars => ServiceInv'
  BY ServiceNext
<1>2. ServiceInv => LiveKeyHasDir
  BY DEF ServiceInv
<1>3. QED  BY ServiceInit, <1>1, <1>2, PTL DEF Spec

\* A reload never drops a version that a concurrent approval has just inserted,
\* nor any other whose directory it finds whole.
THEOREM LiveNeverDroppedHolds ==
    ASSUME "publish" \notin Ops
    PROVE  Spec => LiveNeverDropped
<1> DEFINE Dropped == \A k \in Key : (live[k] # Nil /\ live'[k] = Nil) =>
                Stripped(firmware[k]) \/ (scan # Nil /\ Stripped(scan[k]))
<1>1. ServiceInv /\ [Next]_vars => ServiceInv'
  BY ServiceNext
<1>2. ServiceInv /\ [Next]_vars => Dropped
  <2> SUFFICES ASSUME ServiceInv, [Next]_vars, NEW k \in Key, live[k] # Nil, live'[k] = Nil
               PROVE  Stripped(firmware[k]) \/ (scan # Nil /\ Stripped(scan[k]))
    OBVIOUS
  <2>1. CASE ReloadSwap
    <3>1. scan # Nil /\ scan[k] # Nil /\ Manifest(scan)[k] = Nil
      BY <2>1 DEF ReloadSwap, Unlocked, ServiceInv, ScanAgrees
    <3>2. QED  BY <3>1 DEF Unlocked, Manifest, Stripped
  <2>2. CASE Crash
    <3>1. firmware[k] # Nil /\ Manifest(firmware)[k] = Nil
      BY <2>2 DEF Crash, ServiceInv, LiveKeyHasDir
    <3>2. QED  BY <3>1 DEF Manifest, Stripped
  <2>3. ASSUME NEW w \in Worker, Index(w) PROVE FALSE
    <3>1. job[w].op = "stage"
      BY <2>3 DEF Index, ServiceInv, TInv, GoodJob, WellFormed, MayBeAt, NoPublish
    <3>2. QED  BY <2>3, <3>1 DEF Index
  <2>4. ASSUME NEW w \in Worker, GoLive(w) PROVE FALSE
    <3>1. job[w].fw # Nil /\ live \in [Key -> Fw \cup {Nil}]
      BY <2>4, NilAssumption DEF GoLive, ServiceInv, TInv, TypeOK, GoodJob, WellFormed, MayBeAt
    <3>2. QED  BY <2>4, <3>1 DEF GoLive
  <2>5. QED  BY <2>1, <2>2, <2>3, <2>4, WhoChanges
<1>3. ServiceInv /\ [Next]_vars => [Dropped]_vars
  BY <1>2
<1>4. QED  BY ServiceInit, <1>1, <1>3, PTL DEF Spec, LiveNeverDropped

\* Nothing ever takes the place of a complete firmware directory, with or
\* without the direct publish: the renames that commit find the name taken.
THEOREM FirmwareNeverReplacedHolds == Spec => FirmwareNeverReplaced
<1> DEFINE Kept == \A k \in Key : Complete(firmware[k]) =>
                        firmware'[k] \in {firmware[k]} \cup Fewer(firmware[k])
<1>1. TInv /\ [Next]_vars => Kept
  <2> SUFFICES ASSUME TInv, [Next]_vars, NEW k \in Key, Complete(firmware[k])
               PROVE  firmware'[k] \in {firmware[k]} \cup Fewer(firmware[k])
    OBVIOUS
  <2>0. firmware \in [Key -> VersionDir \cup {Nil}] /\ ~ Vacant(firmware[k])
    BY DEF TInv, TypeOK, Complete, Vacant, Emptied
  <2>1. ASSUME NEW place, NEW dir, SetDir(place, dir), place # <<"firmware", k>>,
               place = <<place[1], place[2]>>
        PROVE  firmware'[k] = firmware[k]
    BY <2>0, <2>1 DEF SetDir
  <2>2. ASSUME NEW w \in Worker, Unlink(w)
        PROVE  firmware'[k] \in {firmware[k]} \cup Fewer(firmware[k])
    <3>1. handle[w] \in Place /\ Opened(w) = DirAt(handle[w])
      BY <2>2, OpenedType DEF Unlink, TInv, Opened
    <3>2. PICK dir \in Fewer(DirAt(handle[w])) : SetDir(handle[w], dir)
      BY <2>2, <3>1 DEF Unlink
    <3>3. QED  BY <2>0, <3>1, <3>2 DEF SetDir, DirAt, Place
  <2>3. ASSUME NEW w \in Worker, Rmdir(w) \/ Commit(w) PROVE firmware'[k] = firmware[k]
    <3>1. CASE Target(w) = <<"firmware", k>>
      BY <2>0, <2>3, <3>1 DEF Rmdir, Commit, DirAt
    <3>2. CASE Target(w) # <<"firmware", k>>
      BY <2>0, <2>1, <2>3, <3>2 DEF Rmdir, Commit, Target
    <3>3. QED  BY <3>1, <3>2
  <2>4. ASSUME NEW w \in Worker, Rename(w) PROVE firmware'[k] = firmware[k]
    BY <2>0, <2>4 DEF Rename
  <2>5. QED  BY <2>2, <2>3, <2>4, WhoChanges
<1>2. TInv /\ [Next]_vars => [Kept]_vars
  BY <1>1
<1>3. QED  BY TypeInit, TypeNext, <1>2, PTL DEF Spec, FirmwareNeverReplaced

-----------------------------------------------------------------------------
(* The cap on submissions awaiting review *)

\* Neither a SIGHUP nor a restart brings back what only the disk lists.
NoRescan == Ops \cap {"reload", "crash"} = {}

Crowd == IsFiniteSet(Worker) /\ Worker # {}

\* The steps of a stage between the cap and the index.
Passed == {"lookup", "copy", "replace", "unlink", "commit", "index"}

Claims(j, u) == j.op = "stage" /\ j.by = u /\ j.pc \in Passed

InFlight(u) == {w \in Worker : Claims(job[w], u)}

\* The coordinates an account has submitted under, or is past the cap for.
Claimed(u) == StagedBy(u) \cup {job[w].key : w \in InFlight(u)}

Capped ==
    /\ scan = Nil
    /\ \A u \in User : Cardinality(Claimed(u)) <= MaxStaged + Cardinality(Worker) - 1

LEMMA ClaimedIs ==
    ASSUME TInv, NEW u \in User
    PROVE  /\ Claimed(u) \subseteq Key /\ StagedBy(u) \subseteq Claimed(u)
           /\ IsFiniteSet(Claimed(u)) /\ Cardinality(Claimed(u)) \in Nat
           /\ IsFiniteSet(StagedBy(u)) /\ Cardinality(StagedBy(u)) \in Nat
<1>1. ASSUME NEW w \in InFlight(u) PROVE job[w].key \in Key
  BY <1>1 DEF InFlight, Claims, Passed, TInv, GoodJob, WellFormed, MayBeAt, Removing
<1>2. Claimed(u) \subseteq Key /\ StagedBy(u) \subseteq Claimed(u)
  BY <1>1 DEF Claimed, StagedBy
<1>3. IsFiniteSet(Key)
  BY FS_Interval, StoreAssumption DEF Key
<1>4. IsFiniteSet(Claimed(u)) /\ IsFiniteSet(StagedBy(u))
  BY <1>2, <1>3, FS_Subset
<1>5. QED  BY <1>2, <1>4, FS_CardinalityType

\* A set of at most n elements, those of a smaller one.
LEMMA Fewest ==
    ASSUME NEW S, NEW R \in SUBSET S, IsFiniteSet(S), NEW n \in Int, Cardinality(S) <= n
    PROVE  Cardinality(R) <= n
<1>1. /\ IsFiniteSet(R) /\ Cardinality(R) <= Cardinality(S)
      /\ Cardinality(S) \in Nat /\ Cardinality(R) \in Nat
  BY FS_Subset, FS_CardinalityType
<1>2. QED  BY <1>1

\* The keys of some requests are no more than the requests.
LEMMA KeysOf ==
    ASSUME NEW W, IsFiniteSet(W), NEW g
    PROVE  /\ IsFiniteSet({g[w].key : w \in W})
           /\ Cardinality({g[w].key : w \in W}) <= Cardinality(W)
<1> DEFINE h == [w \in W |-> g[w].key]
           R == {g[w].key : w \in W}
<1>1. h \in Surjection(W, R)
  BY DEF Surjection
<1>2. QED  BY <1>1, FS_Surjection

\* What a request's step does to the coordinates it holds.
LEMMA ClaimsMove ==
    ASSUME TInv, NEW w \in Worker, Call(w) \/ Step(w), NEW u
    PROVE  /\ \A v \in Worker : v # w => job'[v] = job[v]
           /\ Claims(job'[w], u) =>
                /\ job[w].op = "stage" /\ job[w].by = u /\ job'[w].key = job[w].key
                /\ Claims(job[w], u) \/ (Quota(w) /\ MayStage(u, job[w].key))
<1> DEFINE Goal == /\ \A v \in Worker : v # w => job'[v] = job[v]
                   /\ Claims(job'[w], u) =>
                        /\ job[w].op = "stage" /\ job[w].by = u /\ job'[w].key = job[w].key
                        /\ Claims(job[w], u) \/ (Quota(w) /\ MayStage(u, job[w].key))
<1>0. /\ job \in [Worker -> Job] /\ job[w] \in Job /\ WellFormed(job[w])
      /\ Idle.op = Nil /\ Idle.op # "stage"
  BY NilAssumption DEF TInv, TypeOK, GoodJob, Idle, OpNames
<1>1. ASSUME NEW j, job' = [job EXCEPT ![w] = j], j.op # "stage" \/ j.pc \notin Passed
      PROVE  Goal
  BY <1>0, <1>1 DEF Claims
<1>2. ASSUME NEW j, job' = [job EXCEPT ![w] = j], job[w].pc \in Passed,
             j.op = job[w].op, j.by = job[w].by, j.key = job[w].key
      PROVE  Goal
  BY <1>0, <1>2 DEF Claims
<1>3. ASSUME Return(w) PROVE Goal
  BY <1>0, <1>1, <1>3
<1>4. ASSUME NEW pc, Goto(w, pc), job[w].pc \in Passed \/ job[w].op # "stage" \/ pc \notin Passed
      PROVE  Goal
  <2> DEFINE j == [job[w] EXCEPT !.pc = pc]
  <2>1. /\ job' = [job EXCEPT ![w] = j]
        /\ j.pc = pc /\ j.op = job[w].op /\ j.by = job[w].by /\ j.key = job[w].key
    BY <1>0, <1>4 DEF Job
  <2> HIDE DEF j
  <2>2. QED  BY <1>1, <1>2, <1>4, <2>1
<1>5. ASSUME Call(w) PROVE Goal
  <2>1. CASE \E s \in Sha : PutCheck(w, s)
    <3>1. PICK s \in Sha : PutCheck(w, s)
      BY <2>1
    <3> DEFINE j == [Idle EXCEPT !.pc = IF incoming[s] = "absent" THEN "put_write" ELSE "put_index",
                                 !.op = "put", !.sha = s]
    <3>2. job' = [job EXCEPT ![w] = j] /\ j.op # "stage"
      BY <3>1 DEF PutCheck, Idle
    <3> HIDE DEF j
    <3>3. QED  BY <1>1, <3>2
  <2>2. CASE (\E m \in Fw, x \in User : Stage(w, m, x)) \/ \E m \in Fw : Publish(w, m)
    <3>1. PICK op \in {"stage", "publish"}, m \in Fw, x \in User \cup {Nil} : Validate(w, op, m, x)
      BY <2>2 DEF Stage, Publish
    <3> DEFINE j == [Idle EXCEPT !.pc = IF op = "stage" THEN "quota" ELSE "lookup", !.op = op,
                                 !.fw = m, !.key = KeyOf[m], !.by = x, !.n = 1]
    <3>2. job' = [job EXCEPT ![w] = j]
      BY <3>1 DEF Validate
    <3>3. j.op # "stage" \/ j.pc \notin Passed
      BY <3>1 DEF Idle, Passed
    <3> HIDE DEF j
    <3>4. QED  BY <1>1, <3>2, <3>3
  <2>3. ASSUME NEW k \in Key, Approve(w, k) \/ Reject(w, k) PROVE Goal
    <3>1. PICK j : job' = [job EXCEPT ![w] = j] /\ j.op \in {"approve", "reject"}
      <4>1. /\ [Idle EXCEPT !.pc = "check", !.op = "reject", !.key = k].op = "reject"
            /\ [Idle EXCEPT !.pc = "rename", !.op = "approve", !.key = k,
                            !.fw = staged[k].fw].op = "approve"
            /\ [Idle EXCEPT !.pc = "replace", !.op = "reject", !.key = k].op = "reject"
        BY DEF Idle
      <4>2. CASE Approve(w, k)
        BY <4>1, <4>2 DEF Approve
      <4>3. CASE Reject(w, k)
        BY <4>1, <4>3 DEF Reject
      <4>4. QED  BY <2>3, <4>2, <4>3
    <3>2. QED  BY <1>1, <3>1
  <2>4. CASE GcBegin(w)
    <3> DEFINE j == [Idle EXCEPT !.pc = "gc_files", !.op = "gc", !.shas = Sha \ Referenced]
    <3>1. job' = [job EXCEPT ![w] = j] /\ j.op # "stage"
      BY <2>4 DEF GcBegin, Idle
    <3> HIDE DEF j
    <3>2. QED  BY <1>1, <3>1
  <2>5. QED  BY <1>5, <2>1, <2>2, <2>3, <2>4 DEF Call
<1>6. ASSUME Step(w) PROVE Goal
  <2>1. CASE PutWrite(w) \/ PutIndex(w)
    BY <1>3, <1>4, <2>1 DEF PutWrite, PutIndex, Passed
  <2>2. CASE Quota(w)
    <3>1. CASE MayStage(job[w].by, job[w].key)
      <4>1. Goto(w, "lookup")
        BY <2>2, <3>1 DEF Quota
      <4>2. job'[w].op = job[w].op /\ job'[w].by = job[w].by /\ job'[w].key = job[w].key
        BY <4>1, GotoIs
      <4>3. \A v \in Worker : v # w => job'[v] = job[v]
        BY <1>0, <4>1
      <4>4. QED  BY <2>2, <3>1, <4>2, <4>3 DEF Claims
    <3>2. CASE ~ MayStage(job[w].by, job[w].key)
      BY <1>3, <2>2, <3>2 DEF Quota
    <3>3. QED  BY <3>1, <3>2
  <2>3. CASE Lookup(w)
    <3> DEFINE j == [job[w] EXCEPT !.src = paths[Blob(w)[1]], !.pc = "copy"]
    <3>1. Return(w) \/ job' = [job EXCEPT ![w] = j]
      BY <1>0, <2>3 DEF Lookup
    <3>2. j.op = job[w].op /\ j.by = job[w].by /\ j.key = job[w].key /\ job[w].pc \in Passed
      BY <1>0, <2>3 DEF Lookup, Job, Passed
    <3> HIDE DEF j
    <3>3. QED  BY <1>2, <1>3, <3>1, <3>2
  <2>4. CASE Copy(w)
    <3> DEFINE got == Bytes(job[w].src, Blob(w)[1])
               last == job[w].n = Len(BlobsOf[job[w].fw])
               j == [job[w] EXCEPT !.files[Blob(w)[2]] = got, !.src = Nil,
                                   !.n = IF last THEN 0 ELSE @ + 1,
                                   !.pc = IF last THEN "replace" ELSE "lookup"]
    <3>1. Return(w) \/ job' = [job EXCEPT ![w] = j]
      BY <1>0, <2>4 DEF Copy
    <3>2. j.op = job[w].op /\ j.by = job[w].by /\ j.key = job[w].key /\ job[w].pc \in Passed
      BY <1>0, <2>4 DEF Copy, Job, Passed
    <3> HIDE DEF j
    <3>3. QED  BY <1>2, <1>3, <3>1, <3>2
  <2>5. CASE Replace(w) \/ Rmdir(w)
    BY <1>3, <1>4, <2>5 DEF Replace, Rmdir, Passed
  <2>6. CASE Unlink(w)
    <3>1. job' = job /\ job[w].pc \in Passed
      BY <2>6 DEF Unlink, Passed
    <3>2. QED  BY <3>1 DEF Claims
  <2>7. CASE Commit(w)
    <3> DEFINE j == [job[w] EXCEPT !.pc = "index", !.files = NoFiles]
    <3>1. Return(w) \/ job' = [job EXCEPT ![w] = j]
      BY <1>0, <2>7 DEF Commit
    <3>2. j.op = job[w].op /\ j.by = job[w].by /\ j.key = job[w].key /\ job[w].pc \in Passed
      BY <1>0, <2>7 DEF Commit, Job, Passed
    <3> HIDE DEF j
    <3>3. QED  BY <1>2, <1>3, <3>1, <3>2
  <2>8. CASE Index(w)
    <3> DEFINE j == [Idle EXCEPT !.pc = "sweep_owned"]
    <3>1. job' = [job EXCEPT ![w] = j] /\ j.pc \notin Passed
      BY <2>8 DEF Index, Idle, Passed
    <3> HIDE DEF j
    <3>2. QED  BY <1>1, <3>1
  <2>9. CASE SweepOwned(w) \/ SweepFile(w) \/ SweepEnd(w) \/ GcFile(w) \/ GcEnd(w)
    <3>1. CASE SweepOwned(w)
      <4> DEFINE j == [job[w] EXCEPT !.shas = Owned, !.pc = "sweep_file"]
      <4>1. job' = [job EXCEPT ![w] = j] /\ j.pc \notin Passed
        BY <1>0, <3>1 DEF SweepOwned, Job, Passed
      <4> HIDE DEF j
      <4>2. QED  BY <1>1, <4>1
    <3>2. CASE SweepFile(w)
      <4>1. PICK s \in job[w].shas : job' = [job EXCEPT ![w] = [job[w] EXCEPT !.shas = @ \ {s}]]
        BY <1>0, <3>2 DEF SweepFile
      <4> DEFINE j == [job[w] EXCEPT !.shas = @ \ {s}]
      <4>2. j.pc \notin Passed
        BY <1>0, <3>2 DEF SweepFile, Job, Passed
      <4> HIDE DEF j
      <4>3. QED  BY <1>1, <4>1, <4>2 DEF j
    <3>3. CASE GcFile(w)
      <4>1. PICK s \in job[w].shas :
                job' = [job EXCEPT ![w] = [job[w] EXCEPT !.shas = @ \ {s}, !.n = 1]]
        BY <1>0, <3>3 DEF GcFile
      <4> DEFINE j == [job[w] EXCEPT !.shas = @ \ {s}, !.n = 1]
      <4>2. j.pc \notin Passed
        BY <1>0, <3>3 DEF GcFile, Job, Passed
      <4> HIDE DEF j
      <4>3. QED  BY <1>1, <4>1, <4>2 DEF j
    <3>4. QED  BY <1>3, <2>9, <3>1, <3>2, <3>3 DEF SweepEnd, GcEnd
  <2>10. CASE Rename(w) \/ GoLive(w) \/ Unstage(w)
    BY <1>3, <1>4, <2>10 DEF Rename, GoLive, Unstage, Passed
  <2>11. CASE RejectCheck(w)
    <3>1. job[w].op = "reject"
      BY <1>0, <2>11 DEF RejectCheck, WellFormed, MayBeAt
    <3>2. QED  BY <1>3, <1>4, <2>11, <3>1 DEF RejectCheck
  <2>12. QED  BY <1>6, <2>1, <2>2, <2>3, <2>4, <2>5, <2>6, <2>7, <2>8, <2>9, <2>10, <2>11 DEF Step
<1>7. QED  BY <1>5, <1>6

\* An index names an account under coordinates that it named it under, or that
\* a request of the account was on its way to list.
LEMMA StagedMove ==
    ASSUME TInv, NEW w \in Worker, Call(w) \/ Step(w), NEW u \in User
    PROVE  StagedBy(u)' \subseteq Claimed(u)
<1>1. CASE UNCHANGED staged
  BY <1>1 DEF StagedBy, Claimed
<1>2. CASE \E k \in Key : staged' = [staged EXCEPT ![k] = Nil]
  BY <1>2 DEF StagedBy, Claimed, TInv, TypeOK
<1>3. CASE Index(w)
  <2>1. /\ job[w].pc = "index" /\ job[w].op \in {"stage", "publish"} /\ job[w].key \in Key
        /\ job[w] \in Job
    BY <1>3 DEF Index, TInv, GoodJob, WellFormed, MayBeAt
  <2>2. CASE job[w].op = "publish"
    BY <1>2, <1>3, <2>1, <2>2 DEF Index
  <2>3. CASE job[w].op = "stage"
    <3>1. staged' = [staged EXCEPT ![job[w].key] = [fw |-> job[w].fw, by |-> job[w].by]]
      BY <1>3, <2>3 DEF Index
    <3>2. ASSUME NEW k \in StagedBy(u)' PROVE k \in Claimed(u)
      <4>1. k \in Key /\ staged'[k] # Nil /\ staged'[k].by = u
        BY DEF StagedBy
      <4>2. CASE k # job[w].key
        <5>1. staged'[k] = staged[k]
          BY <2>1, <3>1, <4>1, <4>2 DEF TInv, TypeOK
        <5>2. QED  BY <4>1, <5>1 DEF StagedBy, Claimed
      <4>3. CASE k = job[w].key
        <5>1. job[w].by = u
          BY <2>1, <3>1, <4>1, <4>3 DEF TInv, TypeOK
        <5>2. w \in InFlight(u)
          BY <2>1, <2>3, <5>1 DEF InFlight, Claims, Passed
        <5>3. QED  BY <4>3, <5>2 DEF Claimed
      <4>4. QED  BY <4>2, <4>3
    <3>3. QED  BY <3>2
  <2>4. QED  BY <2>1, <2>2, <2>3
<1>4. CASE GoLive(w) \/ Unstage(w)
  <2>1. job[w].key \in Key /\ staged' = [staged EXCEPT ![job[w].key] = Nil]
    BY <1>4 DEF GoLive, Unstage, TInv, GoodJob, WellFormed, MayBeAt
  <2>2. QED  BY <1>2, <2>1
<1>5. CASE Call(w)
  <2>1. UNCHANGED staged
    BY <1>5 DEF Call, PutCheck, Stage, Publish, Validate, Approve, Reject, GcBegin
  <2>2. QED  BY <1>1, <2>1
<1>6. CASE Step(w) /\ ~ Index(w) /\ ~ GoLive(w) /\ ~ Unstage(w)
  <2>1. CASE PutWrite(w) \/ PutIndex(w) \/ Quota(w) \/ Lookup(w) \/ Copy(w) \/ Replace(w)
    BY <1>1, <2>1 DEF PutWrite, PutIndex, Quota, Lookup, Copy, Replace
  <2>2. CASE Unlink(w) \/ Rmdir(w) \/ Commit(w) \/ Rename(w) \/ RejectCheck(w)
    BY <1>1, <2>2 DEF Unlink, Rmdir, Commit, Rename, RejectCheck
  <2>3. CASE SweepOwned(w) \/ SweepFile(w) \/ SweepEnd(w) \/ GcFile(w) \/ GcEnd(w)
    BY <1>1, <2>3 DEF SweepOwned, SweepFile, SweepEnd, GcFile, GcEnd
  <2>4. QED  BY <1>6, <2>1, <2>2, <2>3 DEF Step
<1>7. QED  BY <1>3, <1>4, <1>5, <1>6

\* Only passing the cap claims new coordinates, of the request's account.
LEMMA ClaimedStep ==
    ASSUME TInv, NEW w \in Worker, Call(w) \/ Step(w), NEW u \in User
    PROVE  \/ Claimed(u)' \subseteq Claimed(u)
           \/ /\ Cardinality(StagedBy(u)) < MaxStaged
              /\ w \notin InFlight(u) /\ job[w].key \in Key
              /\ Claimed(u)' \subseteq Claimed(u) \cup {job[w].key}
<1>1. StagedBy(u)' \subseteq Claimed(u)
  BY StagedMove
<1>2. /\ \A v \in Worker : v # w => job'[v] = job[v]
      /\ Claims(job'[w], u) =>
            /\ job[w].op = "stage" /\ job[w].by = u /\ job'[w].key = job[w].key
            /\ Claims(job[w], u) \/ (Quota(w) /\ MayStage(u, job[w].key))
  BY ClaimsMove
<1>3. ASSUME NEW v \in InFlight(u)', v # w PROVE job'[v].key \in Claimed(u)
  <2>1. v \in InFlight(u) /\ job'[v] = job[v]
    BY <1>2, <1>3 DEF InFlight
  <2>2. QED  BY <2>1 DEF Claimed
<1>4. ASSUME NEW K, Claimed(u) \subseteq K, w \in InFlight(u)' => job'[w].key \in K
      PROVE  Claimed(u)' \subseteq K
  <2>1. {job'[v].key : v \in InFlight(u)'} \subseteq K
    BY <1>3, <1>4
  <2>2. Claimed(u)' = StagedBy(u)' \cup {job'[v].key : v \in InFlight(u)'}
    BY DEF Claimed
  <2>3. QED  BY <1>1, <1>4, <2>1, <2>2
<1>5. CASE w \notin InFlight(u)' \/ Claims(job[w], u) \/ job[w].key \in StagedBy(u)
  <2>1. w \in InFlight(u)' => Claims(job'[w], u)
    BY DEF InFlight
  <2>2. Claims(job[w], u) \/ job[w].key \in StagedBy(u) => job[w].key \in Claimed(u)
    BY DEF InFlight, Claimed
  <2>3. w \in InFlight(u)' => job'[w].key \in Claimed(u)
    BY <1>2, <1>5, <2>1, <2>2
  <2>4. QED  BY <1>4, <2>3
<1>6. CASE w \in InFlight(u)' /\ ~ Claims(job[w], u) /\ job[w].key \notin StagedBy(u)
  <2>1. Claims(job'[w], u) /\ w \notin InFlight(u)
    BY <1>6 DEF InFlight
  <2>2. MayStage(u, job[w].key) /\ job'[w].key = job[w].key
    BY <1>2, <1>6, <2>1
  <2>3. Cardinality(StagedBy(u)) < MaxStaged
    BY <1>6, <2>2 DEF MayStage
  <2>4. Claimed(u)' \subseteq Claimed(u) \cup {job[w].key}
    BY <1>4, <2>2
  <2>5. job[w].key \in Key
    BY <1>2, <1>6, <2>1 DEF Quota, TInv, GoodJob, WellFormed, MayBeAt
  <2>6. QED  BY <2>1, <2>3, <2>4, <2>5
<1>7. QED  BY <1>5, <1>6

\* An account with room under the cap has claimed no more than the cap, less
\* one, and what its requests in progress are about.
LEMMA ClaimedRoom ==
    ASSUME TInv, Crowd, NEW w \in Worker, NEW u \in User, NEW k \in Key,
           Cardinality(StagedBy(u)) < MaxStaged, w \notin InFlight(u)
    PROVE  /\ IsFiniteSet(Claimed(u) \cup {k})
           /\ Cardinality(Claimed(u) \cup {k}) <= MaxStaged + Cardinality(Worker) - 1
<1> DEFINE S == StagedBy(u)
           F == InFlight(u)
           R == {job[v].key : v \in F}
<1>1. /\ IsFiniteSet(S) /\ Cardinality(S) \in Nat
      /\ IsFiniteSet(Claimed(u)) /\ Cardinality(Claimed(u)) \in Nat
      /\ Claimed(u) = S \cup R
  BY ClaimedIs DEF Claimed
<1>2. /\ IsFiniteSet(Worker) /\ Cardinality(Worker) \in Nat
      /\ IsFiniteSet(Worker \ {w}) /\ Cardinality(Worker \ {w}) = Cardinality(Worker) - 1
  BY FS_RemoveElement, FS_CardinalityType DEF Crowd
<1>3. IsFiniteSet(F) /\ Cardinality(F) \in Nat /\ Cardinality(F) <= Cardinality(Worker) - 1
  <2>1. F \subseteq Worker \ {w}
    BY DEF InFlight
  <2>2. QED  BY <1>2, <2>1, FS_Subset, FS_CardinalityType
<1>4. IsFiniteSet(R) /\ Cardinality(R) \in Nat /\ Cardinality(R) <= Cardinality(F)
  BY <1>3, KeysOf, FS_CardinalityType
<1> HIDE DEF S, F, R
<1>5. Cardinality(S \cup R) <= Cardinality(S) + Cardinality(R)
  <2>1. Cardinality(S \cup R) = Cardinality(S) + Cardinality(R) - Cardinality(S \cap R)
    BY <1>1, <1>4, FS_Union
  <2>2. Cardinality(S \cap R) \in Nat
    BY <1>1, FS_Intersection, FS_CardinalityType
  <2>3. QED  BY <1>1, <1>4, <2>1, <2>2
<1>6. IsFiniteSet(Claimed(u) \cup {k})
      /\ Cardinality(Claimed(u) \cup {k}) \in {Cardinality(Claimed(u)), Cardinality(Claimed(u)) + 1}
  BY <1>1, FS_AddElement
<1>7. MaxStaged \in Nat /\ Cardinality(S) < MaxStaged
  BY StoreAssumption DEF S
<1>8. Cardinality(Claimed(u)) <= MaxStaged - 1 + Cardinality(Worker) - 1
  BY <1>1, <1>2, <1>3, <1>4, <1>5, <1>7
<1>9. QED  BY <1>1, <1>2, <1>6, <1>7, <1>8

LEMMA CappedStep ==
    ASSUME TInv, Crowd, NoRescan, Capped, [Next]_vars
    PROVE  Capped'
<1> DEFINE n == MaxStaged + Cardinality(Worker) - 1
<1>0. n \in Int
  BY FS_CardinalityType, StoreAssumption DEF Crowd
<1>1. UNCHANGED scan
  <2>1. ~ ReloadScan /\ ~ ReloadSwap /\ ~ Crash
    BY DEF NoRescan, Capped, ReloadScan, ReloadSwap, Crash
  <2>2. QED  BY <2>1, WhoChanges
<1>2. ASSUME NEW u \in User PROVE Cardinality(Claimed(u)') <= n
  <2>1. IsFiniteSet(Claimed(u)) /\ Cardinality(Claimed(u)) <= n
    BY ClaimedIs DEF Capped
  <2>2. CASE Claimed(u)' \subseteq Claimed(u)
    <3> HIDE DEF n
    <3> QED  BY <1>0, <2>1, <2>2, Fewest
  <2>3. ASSUME NEW w \in Worker, Call(w) \/ Step(w) PROVE Cardinality(Claimed(u)') <= n
    <3>1. CASE /\ Cardinality(StagedBy(u)) < MaxStaged
               /\ w \notin InFlight(u) /\ job[w].key \in Key
               /\ Claimed(u)' \subseteq Claimed(u) \cup {job[w].key}
      <4>1. IsFiniteSet(Claimed(u) \cup {job[w].key})
            /\ Cardinality(Claimed(u) \cup {job[w].key}) <= n
        BY <3>1, ClaimedRoom
      <4> HIDE DEF n
      <4>2. QED  BY <1>0, <3>1, <4>1, Fewest
    <3>2. QED  BY <2>2, <2>3, <3>1, ClaimedStep
  <2>4. CASE (\E s \in Sha : Age(s)) \/ UNCHANGED vars
    <3>1. UNCHANGED <<staged, job>>
      BY <2>4 DEF Age, vars
    <3>2. Claimed(u)' = Claimed(u)
      BY <3>1 DEF Claimed, StagedBy, InFlight, Claims
    <3>3. QED  BY <2>2, <3>2
  <2>5. ~ ReloadScan /\ ~ ReloadSwap /\ ~ Crash
    BY DEF NoRescan, Capped, ReloadScan, ReloadSwap, Crash
  <2>6. QED  BY <2>3, <2>4, <2>5 DEF Next
<1>3. QED  BY <1>1, <1>2 DEF Capped

\* SubmissionsBounded: with any number of requests, an account overruns the cap
\* by at most the other requests in progress (stage).
THEOREM SubmissionsBoundedHolds ==
    ASSUME Crowd, NoRescan
    PROVE  Spec => []SubmissionsBounded
<1>1. Init => Capped
  <2> SUFFICES ASSUME Init PROVE Capped
    OBVIOUS
  <2>1. ASSUME NEW u \in User
        PROVE  Cardinality(Claimed(u)) <= MaxStaged + Cardinality(Worker) - 1
    <3>1. InFlight(u) = {} /\ StagedBy(u) = {}
      BY DEF Init, InFlight, Claims, Passed, Idle, StagedBy
    <3>2. Claimed(u) = {}
      BY <3>1 DEF Claimed
    <3>3. Cardinality(Claimed(u)) = 0
      BY <3>2, FS_EmptySet
    <3>4. Cardinality(Worker) \in Nat /\ Cardinality(Worker) # 0
      BY FS_CardinalityType, FS_EmptySet DEF Crowd
    <3>5. QED  BY <3>3, <3>4, StoreAssumption
  <2>2. QED  BY <2>1 DEF Init, Capped
<1>2. TInv /\ Capped /\ [Next]_vars => Capped'
  BY CappedStep
<1>3. TInv /\ Capped => SubmissionsBounded
  <2> SUFFICES ASSUME TInv, Capped, NEW u \in User
               PROVE  Cardinality(Awaiting(u)) <= MaxStaged + Cardinality(Worker) - 1
    BY DEF SubmissionsBounded
  <2> DEFINE n == MaxStaged + Cardinality(Worker) - 1
  <2>1. n \in Int
    BY FS_CardinalityType, StoreAssumption DEF Crowd
  <2>2. IsFiniteSet(Claimed(u)) /\ Cardinality(Claimed(u)) <= n
    BY ClaimedIs DEF Capped
  <2>3. Awaiting(u) \subseteq Claimed(u)
    BY DEF Awaiting, Claimed
  <2> HIDE DEF n
  <2>4. Cardinality(Awaiting(u)) <= n
    BY <2>1, <2>2, <2>3, Fewest
  <2>5. QED  BY <2>4 DEF n
<1>4. QED  BY TypeInit, TypeNext, <1>1, <1>2, <1>3, PTL DEF Spec

-----------------------------------------------------------------------------
(* Mirror: what is in the bucket, whatever the store does meanwhile *)

Answers == {"failed", "missing", "bytes_sent", "url_sent"}

\* What each pc says of a download: bytes about to be put are those asked for.
LoadOK(l) ==
    /\ l.pc # "idle" => l.sha \in Sha
    /\ l.pc \in {"stat", "read"} => l.src \in Path
    /\ l.pc \in {"probe", "put"} => l.got = l.sha
    /\ l.fw # Nil => l.n \in 0..Len(BlobsOf[l.fw])

\* What is signed, or has been, is there.
UrlOK(l) == l.pc \in {"url", "url_sent"} => bucket[l.sha] # Nil

BucketOK ==
    /\ bucket \in [Sha -> Sha \cup {Nil}] /\ \A s \in Sha : bucket[s] \in {s, Nil}
    /\ late \subseteq Sha \X Sha /\ \A p \in late : p[1] = p[2]

MirrorInv ==
    /\ TInv /\ BucketOK
    /\ load \in [Worker -> Load]
    /\ \A w \in Worker : LoadOK(load[w]) /\ UrlOK(load[w])

\* Nothing in the bucket is taken out of it.
Filling == \A s \in Sha : bucket[s] # Nil => bucket'[s] # Nil

LEMMA LoadIs ==
    ASSUME MirrorInv, NEW w \in Worker
    PROVE  /\ load[w] \in Load /\ LoadOK(load[w]) /\ UrlOK(load[w])
           /\ ~ Doing(w, "idle") => For(w) \in Sha /\ For(w) # Nil
BY NilAssumption DEF MirrorInv, LoadOK, Doing, For

LEMMA NoLoadIs == NoLoad \in Load /\ LoadOK(NoLoad) /\ UrlOK(NoLoad) /\ NoLoad.pc = "idle"
BY DEF NoLoad, Load, LoadOK, UrlOK

\* A worker goes on as l, and no other's download is touched.
LEMMA LoadStep ==
    ASSUME MirrorInv, TInv', BucketOK', Filling,
           NEW w \in Worker, NEW l \in Load, LoadOK(l), UrlOK(l)', load' = [load EXCEPT ![w] = l]
    PROVE  MirrorInv'
<1>1. load' \in [Worker -> Load] /\ load'[w] = l /\ \A v \in Worker \ {w} : load'[v] = load[v]
  BY DEF MirrorInv
<1>2. ASSUME NEW v \in Worker
      PROVE  /\ LoadOK(load'[v])
             /\ load'[v].pc \in {"url", "url_sent"} => bucket'[load'[v].sha] # Nil
  <2>1. CASE v = w
    BY <1>1, <2>1 DEF UrlOK
  <2>2. CASE v # w
    <3>1. load'[v] = load[v] /\ load[v] \in Load /\ LoadOK(load[v]) /\ UrlOK(load[v])
      BY <1>1, <2>2 DEF MirrorInv
    <3>2. load[v].pc \in {"url", "url_sent"} => load[v].sha \in Sha /\ bucket[load[v].sha] # Nil
      BY <3>1 DEF LoadOK, UrlOK
    <3>3. QED  BY <3>1, <3>2 DEF Filling
  <2>3. QED  BY <2>1, <2>2
<1>3. \A v \in Worker : LoadOK(load[v])' /\ UrlOK(load[v])'
  BY <1>2 DEF LoadOK, UrlOK
<1>4. QED  BY <1>1, <1>3 DEF MirrorInv

\* The same of a step that leaves store and bucket alone.
LEMMA LoadOnly ==
    ASSUME MirrorInv, UNCHANGED <<vars, bucket, late>>,
           NEW w \in Worker, NEW l \in Load, LoadOK(l), UrlOK(l), Become(w, l)
    PROVE  MirrorInv'
<1>1. TInv' /\ BucketOK' /\ Filling /\ UrlOK(l)'
  <2>1. TInv'
    BY TypeNext DEF MirrorInv
  <2>2. QED  BY <2>1 DEF BucketOK, Filling, MirrorInv, UrlOK
<1>2. QED  BY <1>1, LoadStep DEF Become

LEMMA NextBlobIs ==
    ASSUME MirrorInv, NEW w \in Worker, Eager(w)
    PROVE  /\ NextBlob(w) \in Load /\ LoadOK(NextBlob(w)) /\ NextBlob(w).pc \in {"idle", "get"}
<1> DEFINE l == load[w]
           len == Len(BlobsOf[l.fw])
<1>1. /\ l \in Load /\ l.fw \in Fw /\ l.n \in 0..len /\ len \in Nat
      /\ BlobsOf[l.fw] \in Seq(Sha \X File)
  BY LoadIs, StoreAssumption DEF Eager, Load, LoadOK
<1>2. CASE l.n = len
  BY <1>2, NoLoadIs DEF NextBlob
<1>3. CASE l.n # len
  <2>1. l.n + 1 \in 1..len
    BY <1>1, <1>3
  <2>2. BlobsOf[l.fw][l.n + 1] \in Sha \X File
    BY <1>1, <2>1
  <2>3. BlobsOf[l.fw][l.n + 1][1] \in Sha
    BY <2>2
  <2>4. ASSUME NEW m \in Fw, NEW s \in Sha, NEW n \in 1..Len(BlobsOf[m]), Len(BlobsOf[m]) \in Nat,
               NEW j, j = [NoLoad EXCEPT !.pc = "get", !.fw = m, !.n = n, !.sha = s]
        PROVE  j \in Load /\ LoadOK(j) /\ j.pc = "get"
    <3>1. n \in Nat /\ n \in 0..Len(BlobsOf[m])
      BY <2>4
    <3>2. j \in Load /\ j.pc = "get" /\ j.fw = m /\ j.n = n /\ j.sha = s
      BY <2>4, <3>1 DEF NoLoad, Load
    <3>3. QED  BY <3>1, <3>2 DEF LoadOK
  <2>5. NextBlob(w) = [NoLoad EXCEPT !.pc = "get", !.fw = l.fw, !.n = l.n + 1,
                                     !.sha = BlobsOf[l.fw][l.n + 1][1]]
    BY <1>3 DEF NextBlob
  <2>6. PICK m \in Fw, n \in 1..len, s \in Sha :
            m = l.fw /\ n = l.n + 1 /\ s = BlobsOf[l.fw][l.n + 1][1]
    BY <1>1, <2>1, <2>3
  <2>7. PICK j : j = [NoLoad EXCEPT !.pc = "get", !.fw = m, !.n = n, !.sha = s]
    OBVIOUS
  <2>8. j \in Load /\ LoadOK(j) /\ j.pc = "get"
    BY <1>1, <2>4, <2>6, <2>7
  <2>9. QED  BY <2>5, <2>6, <2>7, <2>8
<1>4. QED  BY <1>2, <1>3

LEMMA ReplyIs ==
    ASSUME MirrorInv, NEW w \in Worker, ~ Doing(w, "idle"),
           NEW answer \in Answers, answer = "url_sent" => bucket[For(w)] # Nil
    PROVE  /\ Reply(w, answer) \in Load /\ LoadOK(Reply(w, answer)) /\ UrlOK(Reply(w, answer))
           /\ Reply(w, answer).pc = "failed" => answer = "failed"
<1>1. CASE Eager(w)
  BY <1>1, NextBlobIs DEF Reply, UrlOK
<1>2. CASE ~ Eager(w) /\ answer \in Answer
  <2> DEFINE j == [NoLoad EXCEPT !.pc = answer, !.sha = For(w)]
  <2>1. j \in Load /\ LoadOK(j) /\ j.pc = answer /\ j.sha = For(w)
    BY <1>2, LoadIs DEF NoLoad, Load, LoadOK, Answer
  <2>2. Reply(w, answer) = j
    BY <1>2 DEF Reply
  <2> HIDE DEF j
  <2>3. j.pc = "failed" => answer = "failed"
    BY <2>1
  <2>4. j.pc \in {"url", "url_sent"} => bucket[j.sha] # Nil
    BY <1>2, <2>1 DEF Answer
  <2>5. QED  BY <2>1, <2>2, <2>3, <2>4 DEF UrlOK
<1>3. CASE ~ Eager(w) /\ answer \notin Answer
  BY <1>3, NoLoadIs DEF Reply
<1>4. QED  BY <1>1, <1>2, <1>3

\* A step of a download that asks, looks or reads.
LEMMA LookNext ==
    ASSUME MirrorInv, NEW w \in Worker,
           \/ \E s \in Sha : Download(w, s)
           \/ Stat(w) \/ AskBucket(w) \/ Get(w) \/ Url(w) \/ Leave(w)
    PROVE  MirrorInv'
<1> DEFINE l == load[w]
<1>1. l \in Load /\ LoadOK(l) /\ UrlOK(l) /\ paths \in [Sha -> Path \cup {Nil}]
  BY LoadIs DEF MirrorInv, TInv, TypeOK
<1>2. ~ Doing(w, "idle") => l.sha \in Sha /\ l.sha = For(w)
  BY LoadIs DEF For
<1>3. ASSUME NEW s \in Sha, Download(w, s) PROVE MirrorInv'
  <2> DEFINE j == [NoLoad EXCEPT !.pc = "stat", !.sha = s, !.src = paths[s]]
  <2>1. j \in Load /\ LoadOK(j) /\ UrlOK(j)
    BY <1>1, <1>3 DEF Download, NoLoad, Load, LoadOK, UrlOK
  <2>2. Become(w, j)
    BY <1>3 DEF Download
  <2> HIDE DEF j
  <2>3. QED  BY <1>3, <2>1, <2>2, LoadOnly DEF Download
<1>4. ASSUME NEW answer \in Answers, answer = "url_sent" => bucket[For(w)] # Nil,
             ~ Doing(w, "idle"), Become(w, Reply(w, answer)), UNCHANGED <<vars, bucket, late>>
      PROVE  MirrorInv'
  BY <1>4, ReplyIs, LoadOnly
<1>5. ASSUME ~ Doing(w, "idle"), Local(w), UNCHANGED <<vars, bucket, late>> PROVE MirrorInv'
  <2> DEFINE j == [l EXCEPT !.pc = "get", !.inline = TRUE, !.got = Nil]
  <2>1. j \in Load /\ LoadOK(j) /\ UrlOK(j)
    BY <1>1, <1>2, <1>5 DEF Load, LoadOK, UrlOK
  <2> HIDE DEF j
  <2>2. QED  BY <1>5, <2>1, LoadOnly DEF Local, j
<1>6. CASE Stat(w)
  <2>1. CASE Bytes(load[w].src, For(w)) = Nil
    BY <1>4, <1>6, <2>1 DEF Stat, Doing, Answers
  <2>2. CASE Bytes(load[w].src, For(w)) # Nil
    <3> DEFINE j == [l EXCEPT !.pc = "head", !.src = Nil]
    <3>1. j \in Load /\ LoadOK(j) /\ UrlOK(j)
      BY <1>1, <1>2, <1>6 DEF Stat, Doing, Load, LoadOK, UrlOK
    <3> HIDE DEF j
    <3>2. QED  BY <1>6, <2>2, <3>1, LoadOnly DEF Stat, j
  <2>3. QED  BY <2>1, <2>2
<1>7. CASE AskBucket(w)
  <2>1. CASE Proceed(w, "get") /\ UNCHANGED <<vars, bucket, late>>
    <3> DEFINE j == [l EXCEPT !.pc = "get"]
    <3>1. j \in Load /\ LoadOK(j) /\ UrlOK(j)
      BY <1>1, <1>2, <1>7 DEF AskBucket, Doing, Load, LoadOK, UrlOK
    <3> HIDE DEF j
    <3>2. QED  BY <2>1, <3>1, LoadOnly DEF Proceed, j
  <2>2. CASE Proceed(w, "url") /\ bucket[For(w)] # Nil /\ UNCHANGED <<vars, bucket, late>>
    <3> DEFINE j == [l EXCEPT !.pc = "url"]
    <3>1. j \in Load /\ LoadOK(j) /\ UrlOK(j)
      BY <1>1, <1>2, <1>7, <2>2 DEF AskBucket, Doing, Load, LoadOK, UrlOK
    <3> HIDE DEF j
    <3>2. QED  BY <2>2, <3>1, LoadOnly DEF Proceed, j
  <2>3. CASE Local(w)
    BY <1>5, <1>7, <2>3 DEF AskBucket, Doing
  <2>4. QED  BY <1>7, <2>1, <2>2, <2>3 DEF AskBucket
<1>8. CASE Get(w)
  <2>1. CASE paths[For(w)] = Nil
    BY <1>4, <1>8, <2>1 DEF Get, Doing, Answers
  <2>2. CASE paths[For(w)] # Nil
    <3> DEFINE j == [l EXCEPT !.pc = "read", !.src = paths[For(w)]]
    <3>1. paths[For(w)] \in Path
      BY <1>1, <1>2, <1>8, <2>2 DEF Get, Doing
    <3>2. j \in Load /\ LoadOK(j) /\ UrlOK(j)
      BY <1>1, <1>2, <1>8, <3>1 DEF Get, Doing, Load, LoadOK, UrlOK
    <3> HIDE DEF j
    <3>3. QED  BY <1>8, <2>2, <3>2, LoadOnly DEF Get, j
  <2>3. QED  BY <2>1, <2>2
<1>9. CASE Url(w)
  <2>1. bucket[For(w)] # Nil /\ ~ Doing(w, "idle")
    BY <1>1, <1>2, <1>9 DEF Url, Doing, UrlOK
  <2>2. QED  BY <1>4, <1>5, <1>9, <2>1 DEF Url, Answers
<1>10. CASE Leave(w)
  BY <1>10, NoLoadIs, LoadOnly DEF Leave
<1>11. QED  BY <1>3, <1>6, <1>7, <1>8, <1>9, <1>10

\* The read of verified bytes, and what becomes of them.
LEMMA PutNext ==
    ASSUME MirrorInv, NEW w \in Worker, ReadBlob(w) \/ Probe(w) \/ Put(w)
    PROVE  MirrorInv'
<1> DEFINE l == load[w]
<1>1. l \in Load /\ LoadOK(l) /\ UrlOK(l) /\ l.sha \in Sha /\ l.sha = For(w) /\ ~ Doing(w, "idle")
  BY LoadIs DEF ReadBlob, Probe, Put, Doing, For
<1>2. ASSUME NEW answer \in Answers, answer # "url_sent", Become(w, Reply(w, answer)),
             UNCHANGED <<vars, bucket, late>>
      PROVE  MirrorInv'
  BY <1>1, <1>2, ReplyIs, LoadOnly
<1>3. CASE ReadBlob(w)
  <2> DEFINE got == Bytes(l.src, For(w))
             j == [l EXCEPT !.pc = "probe", !.src = Nil, !.got = got]
  <2>1. CASE got # For(w)
    BY <1>2, <1>3, <2>1 DEF ReadBlob, Answers
  <2>2. CASE got = For(w) /\ l.inline
    BY <1>2, <1>3, <2>2 DEF ReadBlob, Answers
  <2>3. CASE got = For(w) /\ ~ l.inline
    <3>1. Become(w, j) /\ UNCHANGED <<vars, bucket, late>>
      BY <1>3, <2>3 DEF ReadBlob
    <3> HIDE DEF got
    <3>2. j \in Load /\ LoadOK(j) /\ UrlOK(j)
      BY <1>1, <1>3, <2>3 DEF ReadBlob, Doing, Load, LoadOK, UrlOK
    <3> HIDE DEF j
    <3>3. QED  BY <3>1, <3>2, LoadOnly
  <2>4. QED  BY <2>1, <2>2, <2>3
<1>4. ASSUME Mirrored(w), bucket'[For(w)] # Nil, TInv', BucketOK', Filling PROVE MirrorInv'
  <2>1. CASE Eager(w)
    <3>1. PICK j \in Load : j = NextBlob(w) /\ LoadOK(j) /\ j.pc \in {"idle", "get"}
      BY <2>1, NextBlobIs
    <3>2. load' = [load EXCEPT ![w] = j] /\ UrlOK(j)'
      BY <1>4, <2>1, <3>1 DEF Mirrored, Become, UrlOK
    <3>3. QED  BY <1>4, <3>1, <3>2, LoadStep
  <2>2. CASE ~ Eager(w)
    <3>1. PICK j : j = [l EXCEPT !.pc = "url", !.got = Nil]
      OBVIOUS
    <3>2. j \in Load /\ LoadOK(j) /\ j.sha = For(w)
      BY <1>1, <3>1 DEF Doing, Load, LoadOK
    <3>3. load' = [load EXCEPT ![w] = j] /\ UrlOK(j)'
      BY <1>4, <2>2, <3>1, <3>2 DEF Mirrored, Become, UrlOK
    <3>4. QED  BY <1>4, <3>2, <3>3, LoadStep
  <2>3. QED  BY <2>1, <2>2
<1>5. UNCHANGED vars => TInv'
  BY TypeNext DEF MirrorInv
<1>6. CASE Probe(w)
  <2>1. CASE Proceed(w, "put") /\ UNCHANGED <<vars, bucket, late>>
    <3> DEFINE j == [l EXCEPT !.pc = "put"]
    <3>1. l.got = l.sha
      BY <1>1, <1>6 DEF Probe, Doing, LoadOK
    <3>2. j \in Load /\ LoadOK(j) /\ UrlOK(j)
      BY <1>1, <1>6, <3>1 DEF Probe, Doing, Load, LoadOK, UrlOK
    <3> HIDE DEF j
    <3>3. QED  BY <2>1, <3>2, LoadOnly DEF Proceed, j
  <2>2. CASE Mirrored(w) /\ bucket[For(w)] # Nil /\ UNCHANGED <<vars, bucket, late>>
    <3>1. BucketOK' /\ Filling /\ bucket'[For(w)] # Nil
      BY <2>2 DEF MirrorInv, BucketOK, Filling
    <3>2. QED  BY <1>4, <1>5, <2>2, <3>1
  <2>3. CASE Become(w, Reply(w, "bytes_sent")) /\ UNCHANGED <<vars, bucket, late>>
    BY <1>2, <2>3 DEF Answers
  <2>4. QED  BY <1>6, <2>1, <2>2, <2>3 DEF Probe
<1>7. CASE Put(w)
  <2>1. l.got = l.sha /\ l.got = For(w) /\ UNCHANGED vars /\ TInv'
    BY <1>1, <1>5, <1>7 DEF Put, Doing, LoadOK
  <2>2. For(w) # Nil /\ For(w) \in Sha
    BY <1>1, NilAssumption
  <2>3. ASSUME BucketOK', Filling, Become(w, Reply(w, "bytes_sent")) PROVE MirrorInv'
    <3>1. PICK j \in Load : j = Reply(w, "bytes_sent") /\ LoadOK(j) /\ UrlOK(j)
      BY <1>1, ReplyIs DEF Answers
    <3>2. j.pc \in {"url", "url_sent"} => j.sha \in Sha
      BY <3>1 DEF LoadOK
    <3>3. load' = [load EXCEPT ![w] = j] /\ UrlOK(j)'
      BY <2>3, <3>1, <3>2 DEF Become, UrlOK, Filling
    <3>4. QED  BY <2>1, <2>3, <3>1, <3>3, LoadStep
  <2>4. CASE /\ bucket' = [bucket EXCEPT ![For(w)] = load[w].got]
             /\ late' = late \ {<<For(w), load[w].got>>}
             /\ Mirrored(w) \/ Become(w, Reply(w, "bytes_sent"))
    <3>1. BucketOK' /\ Filling /\ bucket'[For(w)] # Nil
      BY <2>1, <2>2, <2>4 DEF MirrorInv, BucketOK, Filling
    <3>2. QED  BY <1>4, <2>1, <2>3, <2>4, <3>1
  <2>5. CASE /\ late' = late \cup {<<For(w), load[w].got>>}
             /\ Become(w, Reply(w, "bytes_sent"))
             /\ UNCHANGED bucket
    <3>1. BucketOK' /\ Filling
      BY <2>1, <2>2, <2>5 DEF MirrorInv, BucketOK, Filling
    <3>2. QED  BY <2>3, <2>5, <3>1
  <2>6. QED  BY <1>7, <2>4, <2>5 DEF Put
<1>8. QED  BY <1>3, <1>6, <1>7

\* A request of the store, on a worker that may have something to mirror after.
LEMMA RequestNext ==
    ASSUME MirrorInv, NEW w \in Worker, Request(w)
    PROVE  MirrorInv'
<1>1. TInv' /\ BucketOK' /\ Filling
  <2>1. Next
    BY DEF Request, Next
  <2>2. QED  BY <2>1, TypeNext DEF Request, MirrorInv, BucketOK, Filling
<1>2. CASE At(w, "index") /\ job[w].op = "publish"
  <2>1. job[w].fw \in Fw
    BY <1>2 DEF MirrorInv, TInv, GoodJob, WellFormed, MayBeAt
  <2>2. PICK j : j = [NoLoad EXCEPT !.fw = job[w].fw]
    OBVIOUS
  <2>3. Len(BlobsOf[job[w].fw]) \in Nat
    BY <2>1, StoreAssumption
  <2>4. j \in Load /\ j.pc = "idle" /\ j.fw = job[w].fw /\ j.n = 0
    BY <2>1, <2>2 DEF NoLoad, Load
  <2>5. LoadOK(j) /\ UrlOK(j)'
    BY <2>3, <2>4 DEF LoadOK, UrlOK
  <2>6. load' = [load EXCEPT ![w] = j]
    BY <1>2, <2>2 DEF Request, ThenMirror, Become
  <2>7. QED  BY <1>1, <2>4, <2>5, <2>6, LoadStep
<1>3. CASE Eager(w) /\ Become(w, NextBlob(w))
  <2>1. PICK j \in Load : j = NextBlob(w) /\ LoadOK(j) /\ j.pc \in {"idle", "get"}
    BY <1>3, NextBlobIs
  <2>2. load' = [load EXCEPT ![w] = j] /\ UrlOK(j)'
    BY <1>3, <2>1 DEF Become, UrlOK
  <2>3. QED  BY <1>1, <2>1, <2>2, LoadStep
<1>4. CASE UNCHANGED load
  <2>1. load' = [load EXCEPT ![w] = load[w]] /\ load[w] \in Load /\ LoadOK(load[w]) /\ UrlOK(load[w])
    BY <1>4, LoadIs DEF MirrorInv
  <2>2. PICK j \in Load : j = load[w] /\ LoadOK(j) /\ UrlOK(j)
    BY <2>1
  <2>3. j.pc \in {"url", "url_sent"} => j.sha \in Sha
    BY <2>2 DEF LoadOK
  <2>4. UrlOK(j)'
    BY <1>1, <2>2, <2>3 DEF UrlOK, Filling
  <2>5. QED  BY <1>1, <2>1, <2>2, <2>4, LoadStep
<1>5. QED  BY <1>2, <1>3, <1>4 DEF Request, ThenMirror

LEMMA MirrorStarts == MirrorInit => MirrorInv
<1> SUFFICES ASSUME MirrorInit PROVE MirrorInv
  OBVIOUS
<1>1. TInv /\ BucketOK
  BY TypeInit DEF MirrorInit, BucketOK
<1>2. QED  BY <1>1, NoLoadIs DEF MirrorInit, MirrorInv

\* A bucket that never takes bytes but under their own digest stays so, whatever
\* fails, comes late or dies.
LEMMA MirrorSteps == MirrorInv /\ [MirrorNext]_mvars => MirrorInv'
<1> SUFFICES ASSUME MirrorInv, [MirrorNext]_mvars PROVE MirrorInv'
  OBVIOUS
<1>1. ASSUME UNCHANGED load, TInv', BucketOK', Filling PROVE MirrorInv'
  <2>1. ASSUME NEW w \in Worker PROVE LoadOK(load[w])' /\ UrlOK(load[w])'
    <3>1. load'[w] = load[w] /\ LoadOK(load[w])
      BY <1>1, LoadIs
    <3>2. load[w].pc \in {"url", "url_sent"} => load[w].sha \in Sha /\ bucket[load[w].sha] # Nil
      BY LoadIs DEF LoadOK, UrlOK
    <3>3. QED  BY <1>1, <3>1, <3>2 DEF LoadOK, UrlOK, Filling
  <2>2. QED  BY <1>1, <2>1 DEF MirrorInv
<1>2. CASE Land
  <2>1. TInv'
    BY <1>2, TypeNext DEF Land, MirrorInv
  <2>2. BucketOK' /\ Filling
    BY <1>2, NilAssumption DEF Land, MirrorInv, BucketOK, Filling
  <2>3. QED  BY <1>1, <1>2, <2>1, <2>2 DEF Land
<1>3. CASE Background
  <2>1. Next
    BY <1>3 DEF Background, Next
  <2>2. TInv' /\ BucketOK' /\ Filling
    BY <1>3, <2>1, TypeNext DEF Background, mirror, MirrorInv, BucketOK, Filling
  <2>3. QED  BY <1>1, <1>3, <2>2 DEF Background, mirror
<1>4. CASE CrashAll
  <2>1. TInv'
    BY <1>4, TypeNext DEF CrashAll, Next, MirrorInv
  <2>2. \A w \in Worker : Doing(w, "put") => load[w].got = For(w) /\ For(w) \in Sha
    BY LoadIs DEF Doing, For, LoadOK
  <2>3. BucketOK'
    BY <1>4, <2>2 DEF CrashAll, MirrorInv, BucketOK
  <2>4. \A w \in Worker : load'[w] = NoLoad
    BY <1>4 DEF CrashAll
  <2>5. load' \in [Worker -> Load]
    BY <1>4, NoLoadIs DEF CrashAll
  <2>6. \A w \in Worker : LoadOK(load[w])' /\ UrlOK(load[w])'
    BY <2>4, NoLoadIs DEF LoadOK, UrlOK
  <2>7. QED  BY <2>1, <2>3, <2>5, <2>6 DEF MirrorInv
<1>5. CASE UNCHANGED mvars
  <2>1. TInv' /\ BucketOK' /\ Filling
    BY <1>5, TypeNext DEF mvars, mirror, MirrorInv, BucketOK, Filling
  <2>2. QED  BY <1>1, <1>5, <2>1 DEF mvars, mirror
<1>6. QED  BY <1>2, <1>3, <1>4, <1>5, LookNext, PutNext, RequestNext DEF MirrorNext

\* "The mirror can't be poisoned": an object's bytes are those of its digest,
\* though the copies they come from may be overwritten or moved between the
\* lookup and the read; and a URL handed out leads to an object.
THEOREM UrlServesHolds == MirrorSpec => []UrlServes
<1>1. MirrorInv => UrlServes
  BY DEF MirrorInv, TInv, BucketOK, UrlServes, MirrorTypeOK, UrlOK, Doing, For
<1>2. QED  BY MirrorStarts, MirrorSteps, <1>1, PTL DEF MirrorSpec

\* "On ANY mirror error, fall back": what fails a download is the local file,
\* gone or with other bytes than it should have.
THEOREM FallsBackHolds == MirrorSpec => FallsBack
<1> DEFINE Blamed == \A w \in Worker : load'[w].pc = "failed" /\ ~ Doing(w, "failed") =>
                        load[w].src # Nil /\ Bytes(load[w].src, For(w)) # For(w)
<1>1. MirrorInv /\ [MirrorNext]_mvars => [Blamed]_mvars
  <2> SUFFICES ASSUME MirrorInv, MirrorNext, NEW v \in Worker,
                      load'[v].pc = "failed", ~ Doing(v, "failed")
               PROVE  load[v].src # Nil /\ Bytes(load[v].src, For(v)) # For(v)
    OBVIOUS
  <2>1. ASSUME NEW w \in Worker, NEW j, Become(w, j) PROVE w = v /\ j.pc = "failed"
    BY <2>1 DEF Become, MirrorInv, Doing
  <2>2. ASSUME NEW w \in Worker, NEW answer \in Answers, Become(w, Reply(w, answer)),
               ~ Doing(w, "idle"), answer = "url_sent" => bucket[For(w)] # Nil
        PROVE  w = v /\ answer = "failed"
    BY <2>1, <2>2, ReplyIs
  <2>3. ASSUME NEW w \in Worker, NEW pc, pc # "failed", Proceed(w, pc) PROVE FALSE
    <3>1. PICK j : j = [load[w] EXCEPT !.pc = pc]
      OBVIOUS
    <3>2. j.pc = pc
      BY <3>1, LoadIs DEF Load
    <3>3. QED  BY <2>1, <2>3, <3>1, <3>2 DEF Proceed
  <2>4. ASSUME NEW w \in Worker, Local(w) PROVE FALSE
    <3>1. PICK j : j = [load[w] EXCEPT !.pc = "get", !.inline = TRUE, !.got = Nil]
      OBVIOUS
    <3>2. j.pc = "get"
      BY <3>1, LoadIs DEF Load
    <3>3. QED  BY <2>1, <2>4, <3>1, <3>2 DEF Local
  <2>5. ASSUME NEW w \in Worker, Mirrored(w) PROVE FALSE
    <3>1. CASE Eager(w)
      BY <2>1, <2>5, <3>1, NextBlobIs DEF Mirrored
    <3>2. CASE ~ Eager(w)
      <4>1. PICK j : j = [load[w] EXCEPT !.pc = "url", !.got = Nil]
        OBVIOUS
      <4>2. j.pc = "url"
        BY <4>1, LoadIs DEF Load
      <4>3. QED  BY <2>1, <2>5, <3>2, <4>1, <4>2 DEF Mirrored
    <3>3. QED  BY <3>1, <3>2
  <2>6. ASSUME NEW w \in Worker, NEW s \in Sha, Download(w, s) PROVE FALSE
    <3>1. PICK j : j = [NoLoad EXCEPT !.pc = "stat", !.sha = s, !.src = paths[s]]
      OBVIOUS
    <3>2. j.pc = "stat"
      BY <3>1 DEF NoLoad
    <3>3. QED  BY <2>1, <2>6, <3>1, <3>2 DEF Download
  <2>7. ASSUME NEW w \in Worker, Stat(w) \/ ReadBlob(w)
        PROVE  load[v].src # Nil /\ Bytes(load[v].src, For(v)) # For(v)
    <3>1. /\ ~ Doing(w, "idle") /\ load[w] \in Load
          /\ load[w].src # Nil /\ For(w) # Nil
      BY <2>7, LoadIs, NilAssumption DEF Stat, ReadBlob, Doing, LoadOK
    <3>2. CASE Stat(w)
      <4>1. PICK j : j = [load[w] EXCEPT !.pc = "head", !.src = Nil]
        OBVIOUS
      <4>2. j.pc = "head"
        BY <3>1, <4>1 DEF Load
      <4>3. Bytes(load[w].src, For(w)) = Nil
        BY <2>1, <3>2, <4>1, <4>2 DEF Stat
      <4>4. w = v
        BY <2>2, <3>1, <3>2, <4>3 DEF Stat, Answers
      <4>5. QED  BY <3>1, <4>3, <4>4
    <3>3. CASE ReadBlob(w)
      <4>1. PICK j : j = [load[w] EXCEPT !.pc = "probe", !.src = Nil,
                                         !.got = Bytes(load[w].src, For(w))]
        OBVIOUS
      <4>2. j.pc = "probe"
        BY <3>1, <4>1 DEF Load
      <4>3. Bytes(load[w].src, For(w)) # For(w)
        <5>1. CASE load[w].inline
          BY <2>2, <3>1, <3>3, <5>1 DEF ReadBlob, Answers
        <5>2. CASE ~ load[w].inline
          BY <2>1, <3>3, <4>1, <4>2, <5>2 DEF ReadBlob
        <5>3. QED  BY <5>1, <5>2
      <4>4. w = v
        BY <2>2, <3>1, <3>3, <4>3 DEF ReadBlob, Answers
      <4>5. QED  BY <3>1, <4>3, <4>4
    <3>4. QED  BY <2>7, <3>2, <3>3
  <2>8. ASSUME NEW w \in Worker, AskBucket(w) PROVE FALSE
    BY <2>3, <2>4, <2>8 DEF AskBucket
  <2>9. ASSUME NEW w \in Worker, Get(w) PROVE FALSE
    <3>1. PICK j : j = [load[w] EXCEPT !.pc = "read", !.src = paths[For(w)]]
      OBVIOUS
    <3>2. j.pc = "read" /\ ~ Doing(w, "idle")
      BY <2>9, <3>1, LoadIs DEF Load, Get, Doing
    <3>3. QED  BY <2>1, <2>2, <2>9, <3>1, <3>2 DEF Get, Answers
  <2>10. ASSUME NEW w \in Worker, Probe(w) \/ Put(w) PROVE FALSE
    BY <2>2, <2>3, <2>5, <2>10 DEF Probe, Put, Doing, Answers
  <2>11. ASSUME NEW w \in Worker, Url(w) PROVE FALSE
    <3>1. ~ Doing(w, "idle") /\ bucket[For(w)] # Nil
      BY <2>11, LoadIs DEF Url, Doing, UrlOK, For
    <3>2. QED  BY <2>2, <2>4, <2>11, <3>1 DEF Url, Answers
  <2>12. ASSUME NEW w \in Worker, Leave(w) PROVE FALSE
    BY <2>1, <2>12, NoLoadIs DEF Leave
  <2>13. ASSUME NEW w \in Worker, Request(w) PROVE FALSE
    <3>1. CASE Become(w, [NoLoad EXCEPT !.fw = job[w].fw])
      <4>1. PICK j : j = [NoLoad EXCEPT !.fw = job[w].fw]
        OBVIOUS
      <4>2. j.pc = "idle"
        BY <4>1 DEF NoLoad
      <4>3. QED  BY <2>1, <3>1, <4>1, <4>2
    <3>2. CASE Eager(w) /\ Become(w, NextBlob(w))
      BY <2>1, <3>2, NextBlobIs
    <3>3. CASE UNCHANGED load
      BY <3>3 DEF Doing
    <3>4. QED  BY <2>13, <3>1, <3>2, <3>3 DEF Request, ThenMirror
  <2>14. CASE Land \/ Background \/ CrashAll
    BY <2>14, NoLoadIs DEF Land, Background, mirror, CrashAll, Doing
  <2>15. QED  BY <2>6, <2>7, <2>8, <2>9, <2>10, <2>11, <2>12, <2>13, <2>14 DEF MirrorNext
<1>2. QED  BY MirrorStarts, MirrorSteps, <1>1, PTL DEF MirrorSpec, FallsBack

-----------------------------------------------------------------------------
(* One writer at a time: what the disk and the index have to do with each other *)

OneRequest == \A v, w \in Worker : v = w

\* What a scan reads of one directory.
FwOf(dir) == IF dir = Nil THEN Nil ELSE dir.fw

Building == {"quota", "lookup", "copy", "replace", "unlink", "commit", "index"}

\* The steps of a submission, an approval or a rejection, from its decision to
\* its last effect on the index.
Writers == Building \cup {"rename", "golive", "unstage"}

\* One of those at a time, beside any number of uploads, sweeps and decisions
\* still to be taken.
OneWriter == \A v, w \in Worker : job[v].pc \in Writers /\ job[w].pc \in Writers => v = w

\* Where the request is between what it does to the disk and to the index.
LiveDue(k) ==
    \E w \in Worker : job[w].key = k /\ \/ At(w, "golive")
                                        \/ At(w, "index") /\ job[w].op = "publish"

StagedDue(k) ==
    \E w \in Worker : job[w].key = k /\
        job[w].pc \in {"unlink", "commit", "index", "unstage", "golive"}

StagedIs(k) == staged[k] = ScanStaged[k] \/ (staged[k] = Nil /\ live[k] # Nil)

\* What the one writer relies on of the disk.
JobOne(w) ==
    /\ job[w].pc \in Building /\ job[w].op # "reject" => job[w].key = KeyOf[job[w].fw]
    /\ job[w].pc \in Building \ {"index"} /\ job[w].op # "reject" => FwOf(firmware[job[w].key]) = Nil
    /\ job[w].pc = "unlink" => handle[w] = Target(w)
    /\ job[w].pc = "commit" => DirAt(Target(w)) = Nil
    /\ job[w].pc = "index" => /\ FwOf(DirAt(Target(w))) = job[w].fw
                              /\ job[w].op = "stage" => DirAt(Target(w)).by = job[w].by
    /\ job[w].pc = "unstage" => staging[job[w].key] = Nil
    /\ job[w].pc = "rename" => FwOf(staging[job[w].key]) = job[w].fw
    /\ job[w].pc = "golive" => /\ FwOf(firmware[job[w].key]) = job[w].fw
                               /\ staging[job[w].key] = Nil

Agrees ==
    /\ \A k \in Key : LiveDue(k) \/ live[k] = FwOf(firmware[k])
    /\ \A k \in Key : StagedDue(k) \/ StagedIs(k)
    /\ scan # Nil => \A k \in Key : LiveDue(k) \/ FwOf(scan[k]) = FwOf(firmware[k])
    /\ \A w \in Worker : JobOne(w)

Whole(dir) ==
    Complete(dir) => \A i \in DOMAIN BlobsOf[dir.fw] :
                         dir.files[BlobsOf[dir.fw][i][2]] = BlobsOf[dir.fw][i][1]

\* A directory under the hands of remove_dir_all.
Clearing(k) == \E w \in Worker : At(w, "unlink") /\ job[w].op # "publish" /\ job[w].key = k

\* A digest whose path is not what rebuild_blob_paths would make it, yet.
PathDue(s) ==
    \E w \in Worker :
        \/ At(w, "put_index") /\ job[w].sha = s /\ paths[s] = Nil
              /\ Rebuild(live, staged, incoming)[s] = InPool
        \/ At(w, "gc_files") /\ job[w].n = 1
        \/ At(w, "sweep_file")

Built(w, n) ==
    \A i \in DOMAIN BlobsOf[job[w].fw] :
        i < n => job[w].files[BlobsOf[job[w].fw][i][2]] = BlobsOf[job[w].fw][i][1]

OnDisk(s) ==
    \E k \in Key : \E dir \in {firmware[k], staging[k]} : FwOf(dir) # Nil /\ s \in Shas(FwOf(dir))

BytesOne(w) ==
    /\ job[w].pc = "put_index" => incoming[job[w].sha] # "absent"
    /\ job[w].pc \in {"quota", "lookup", "copy"} => Built(w, job[w].n)
    /\ job[w].pc = "copy" => Bytes(job[w].src, Blob(w)[1]) = Blob(w)[1]
    /\ job[w].pc \in {"replace", "unlink", "commit"} /\ job[w].op # "reject" =>
            Built(w, Len(BlobsOf[job[w].fw]) + 1)
    /\ job[w].pc = "sweep_file" => \A s \in job[w].shas : OnDisk(s)
    /\ job[w].pc = "gc_files" => job[w].n \in {0, 1}

Keeps ==
    /\ \A k \in Key : Whole(firmware[k])
    /\ \A k \in Key : Clearing(k) \/ Whole(staging[k])
    /\ \A s \in Sha : PathDue(s) \/ paths[s] = Rebuild(live, staged, incoming)[s]
    /\ \A w \in Worker : BytesOne(w)

LEMMA ManifestIs ==
    ASSUME NEW dirs, NEW k \in Key
    PROVE  Manifest(dirs)[k] = FwOf(dirs[k])
BY DEF Manifest, FwOf

LEMMA ScanStagedIs ==
    ASSUME NEW k \in Key
    PROVE  ScanStaged[k] = IF FwOf(staging[k]) = Nil THEN Nil
                           ELSE [fw |-> FwOf(staging[k]), by |-> staging[k].by]
BY ManifestIs DEF ScanStaged, FwOf

Dues == {"unlink", "commit", "index", "unstage", "golive"}

LEMMA OneIsWriter ==
    ASSUME OneRequest
    PROVE  OneWriter /\ OneWriter'
BY DEF OneRequest, OneWriter

\* Of a request that writes nothing, nothing is asked.
LEMMA IdleOne ==
    ASSUME NEW w \in Worker, job'[w].pc \notin Writers
    PROVE  JobOne(w)'
BY DEF JobOne, Writers, Building

\* A step of one request is no other's.
LEMMA OthersStay ==
    ASSUME TInv, NEW w \in Worker, Call(w) \/ Step(w)
    PROVE  \A v \in Worker \ {w} : job'[v] = job[v]
BY ClaimsMove

\* Beside the one that writes, no request writes or begins to.
LEMMA OthersIdle ==
    ASSUME OneWriter, TInv, NEW w \in Worker, Call(w) \/ Step(w), job[w].pc \in Writers
    PROVE  \A v \in Worker : v = w \/ (job[v].pc \notin Writers /\ job'[v] = job[v] /\ JobOne(v)')
<1>1. \A v \in Worker : v = w \/ (job[v].pc \notin Writers /\ job'[v] = job[v])
  BY OthersStay DEF OneWriter
<1>2. QED  BY <1>1, IdleOne

\* A request that begins to write finds nobody who writes.
LEMMA NobodyDue ==
    ASSUME OneWriter', TInv, NEW w \in Worker, Call(w) \/ Step(w), job[w].pc \notin Writers,
           job'[w].pc \in Writers
    PROVE  \A k \in Key : ~ LiveDue(k) /\ ~ StagedDue(k)
<1>1. \A v \in Worker : job[v].pc \notin Writers
  BY OthersStay DEF OneWriter
<1>2. QED  BY <1>1 DEF LiveDue, StagedDue, Writers, Building

\* A step that leaves the directories and their entries alone, and no other
\* request's handle.
LEMMA AsideOne ==
    ASSUME TInv, Agrees, NEW w \in Worker, Call(w) \/ Step(w),
           UNCHANGED <<firmware, staging, live, staged, scan>>,
           \A v \in Worker \ {w} : handle'[v] = handle[v],
           job[w].pc \notin Dues, JobOne(w)'
    PROVE  Agrees'
<1>1. \A v \in Worker \ {w} : job'[v] = job[v] /\ handle'[v] = handle[v]
  BY OthersStay DEF TInv, TypeOK
<1>2. \A k \in Key : (LiveDue(k) => LiveDue(k)') /\ (StagedDue(k) => StagedDue(k)')
  BY <1>1 DEF LiveDue, StagedDue, Dues
<1>3. \A k \in Key : StagedIs(k) => StagedIs(k)'
  BY DEF StagedIs, ScanStaged, Manifest
<1>4. ASSUME NEW v \in Worker \ {w} PROVE JobOne(v)'
  <2>1. JobOne(v)
    BY DEF Agrees
  <2>2. job'[v] = job[v] /\ handle'[v] = handle[v] /\ firmware' = firmware /\ staging' = staging
    BY <1>1
  <2>3. QED  BY <2>1, <2>2 DEF JobOne, Target, DirAt
<1>5. \A v \in Worker : JobOne(v)'
  BY <1>4
<1>6. QED  BY <1>2, <1>3, <1>5 DEF Agrees

LEMMA PutOne ==
    ASSUME TInv, Agrees, NEW w \in Worker, Call(w) \/ Step(w),
           (\E s \in Sha : PutCheck(w, s)) \/ PutWrite(w) \/ PutIndex(w)
    PROVE  Agrees'
<1>1. CASE \E s \in Sha : PutCheck(w, s)
  <2>1. PICK s \in Sha : PutCheck(w, s)
    BY <1>1
  <2>2. job'[w].pc \in {"put_write", "put_index"}
    BY <2>1 DEF PutCheck, Idle, TInv
  <2>3. QED  BY <2>1, <2>2, IdleOne, AsideOne DEF Writers, Building, PutCheck, Dues
<1>2. CASE PutWrite(w)
  BY <1>2, GotoIs, IdleOne, AsideOne DEF Writers, Building, PutWrite, Dues
<1>3. CASE PutIndex(w)
  BY <1>3, ReturnIs, IdleOne, AsideOne DEF Writers, Building, PutIndex, Dues
<1>4. QED  BY <1>1, <1>2, <1>3

LEMMA BuildOne ==
    ASSUME OneWriter', TInv, Agrees, NEW w \in Worker, Call(w) \/ Step(w),
           \/ \E m \in Fw, u \in User : Stage(w, m, u)
           \/ \E m \in Fw : Publish(w, m)
           \/ Quota(w) \/ Lookup(w) \/ Copy(w) \/ Replace(w)
    PROVE  Agrees'
<1>0. job[w] \in Job /\ WellFormed(job[w]) /\ JobOne(w)
  BY DEF TInv, GoodJob, Agrees
<1>1. ASSUME NEW op \in {"stage", "publish"}, NEW m \in Fw, NEW u, Validate(w, op, m, u)
      PROVE  Agrees'
  <2>1. /\ job'[w].pc \in {"quota", "lookup"} /\ job'[w].op = op /\ job'[w].fw = m
        /\ job'[w].key = KeyOf[m]
    BY <1>1 DEF Validate, Idle, TInv
  <2>2. KeyOf[m] \in Key /\ live[KeyOf[m]] = Nil /\ job[w].pc = "idle" /\ firmware' = firmware
    BY <1>1, StoreAssumption DEF Validate
  <2>3. ~ LiveDue(KeyOf[m])
    BY <2>1, <2>2, NobodyDue DEF Writers, Building
  <2>4. FwOf(firmware'[KeyOf[m]]) = Nil
    BY <2>2, <2>3 DEF Agrees
  <2>5. JobOne(w)'
    BY <2>1, <2>4 DEF JobOne
  <2>6. QED  BY <1>1, <2>2, <2>5, AsideOne DEF Validate, Dues
<1>2. CASE Quota(w)
  <2>1. job[w].pc = "quota" /\ UNCHANGED <<firmware, staging, live, staged, scan, handle>>
    BY <1>2 DEF Quota
  <2>2. CASE Goto(w, "lookup")
    <3>1. JobOne(w)'
      BY <1>0, <2>1, <2>2, GotoIs DEF JobOne, Building
    <3>2. QED  BY <2>1, <3>1, AsideOne DEF Dues
  <2>3. CASE Return(w)
    BY <2>1, <2>3, ReturnIs, IdleOne, AsideOne DEF Writers, Building, Dues
  <2>4. QED  BY <1>2, <2>2, <2>3 DEF Quota
<1>3. CASE Lookup(w)
  <2>1. job[w].pc = "lookup" /\ UNCHANGED <<firmware, staging, live, staged, scan, handle>>
    BY <1>3 DEF Lookup
  <2>2. CASE Return(w)
    BY <2>1, <2>2, ReturnIs, IdleOne, AsideOne DEF Writers, Building, Dues
  <2>3. CASE job' = [job EXCEPT ![w].src = paths[Blob(w)[1]], ![w].pc = "copy"]
    <3>1. /\ job'[w].pc = "copy" /\ job'[w].op = job[w].op /\ job'[w].fw = job[w].fw
          /\ job'[w].key = job[w].key
      BY <1>0, <2>3 DEF TInv, Job
    <3>2. JobOne(w)'
      BY <1>0, <2>1, <3>1 DEF JobOne, Building
    <3>3. QED  BY <2>1, <3>2, AsideOne DEF Dues
  <2>4. QED  BY <1>3, <2>2, <2>3 DEF Lookup
<1>4. CASE Copy(w)
  <2>1. job[w].pc = "copy" /\ UNCHANGED <<firmware, staging, live, staged, scan, handle>>
    BY <1>4 DEF Copy
  <2>2. CASE Return(w)
    BY <2>1, <2>2, ReturnIs, IdleOne, AsideOne DEF Writers, Building, Dues
  <2>3. CASE ~ Return(w)
    <3>1. PICK got, last : job' = [job EXCEPT ![w].files[Blob(w)[2]] = got, ![w].src = Nil,
                                       ![w].n = IF last THEN 0 ELSE @ + 1,
                                       ![w].pc = IF last THEN "replace" ELSE "lookup"]
      BY <1>4, <2>3 DEF Copy
    <3>2. /\ job'[w].pc \in {"replace", "lookup"} /\ job'[w].op = job[w].op
          /\ job'[w].fw = job[w].fw /\ job'[w].key = job[w].key
      BY <1>0, <3>1 DEF TInv, Job
    <3>3. JobOne(w)'
      BY <1>0, <2>1, <3>2 DEF JobOne, Building
    <3>4. QED  BY <2>1, <3>3, AsideOne DEF Dues
  <2>4. QED  BY <2>2, <2>3
<1>5. CASE Replace(w)
  <2>1. job[w].pc = "replace" /\ UNCHANGED <<firmware, staging, live, staged, scan>>
    BY <1>5 DEF Replace
  <2>2. CASE DirAt(Target(w)) = Nil
    <3>1. Goto(w, AfterRemoval(w)) /\ handle' = handle
      BY <1>5, <2>2 DEF Replace
    <3>2. job[w].op \in {"stage", "publish", "reject"}
      BY <1>0, <2>1 DEF WellFormed, MayBeAt, Removing
    <3>3. DirAt(Target(w))' = DirAt(Target(w)) /\ Target(w)' = Target(w)
      BY <2>1, <3>1, GotoIs DEF DirAt, Target
    <3>4. JobOne(w)'
      BY <1>0, <2>1, <2>2, <3>1, <3>2, <3>3, GotoIs DEF JobOne, Building, AfterRemoval, DirAt, Target
    <3>5. QED  BY <2>1, <3>1, <3>4, AsideOne DEF Dues
  <2>3. CASE DirAt(Target(w)) # Nil
    <3>1. Goto(w, "unlink") /\ handle' = [handle EXCEPT ![w] = Target(w)]
      BY <1>5, <2>3 DEF Replace
    <3>2. Target(w)' = Target(w) /\ handle'[w] = Target(w)
      BY <3>1, GotoIs DEF Target, TInv, TypeOK
    <3>3. JobOne(w)'
      BY <1>0, <2>1, <3>1, <3>2, GotoIs DEF JobOne, Building
    <3>4. \A v \in Worker \ {w} : handle'[v] = handle[v]
      BY <3>1 DEF TInv, TypeOK
    <3>5. QED  BY <2>1, <3>3, <3>4, AsideOne DEF Dues
  <2>4. QED  BY <2>2, <2>3
<1>6. QED
  BY <1>1, <1>2, <1>3, <1>4, <1>5 DEF Stage, Publish

\* remove_dir_all at work on a staged directory, or on a stripped one.
LEMMA UnlinkOne ==
    ASSUME OneWriter, TInv, Agrees, NEW w \in Worker, Call(w) \/ Step(w), Unlink(w)
    PROVE  Agrees'
<1>0. /\ WellFormed(job[w]) /\ JobOne(w) /\ TypeOK /\ job[w].pc = "unlink"
      /\ \A v \in Worker : v = w \/ (job[v].pc \notin Writers /\ job'[v] = job[v] /\ JobOne(v)')
  BY OthersIdle DEF TInv, GoodJob, Agrees, Unlink, Writers, Building
<1>1. /\ job[w].op \in {"stage", "publish", "reject"} /\ job[w].key \in Key
      /\ handle[w] = Target(w)
  BY <1>0 DEF WellFormed, MayBeAt, Removing, JobOne
<1>2. /\ UNCHANGED <<live, staged, scan, job, handle>> /\ Opened(w) = DirAt(Target(w))
      /\ Opened(w) # Nil
  <2>1. Target(w) # Nil
    BY <1>1, OpenedType, <1>0 DEF Unlink, Opened
  <2>2. QED  BY <1>1, <2>1 DEF Unlink, Opened
<1>3. PICK dir \in Fewer(Opened(w)) : SetDir(Target(w), dir)
  BY <1>1 DEF Unlink
<1>4. Opened(w) \in VersionDir
  BY <1>0, <1>2, OpenedType
<1>5. dir \in VersionDir /\ dir # Nil
  BY <1>3, <1>4, FewerType
<1>6. CASE job[w].op = "publish"
  <2>1. /\ firmware' = [firmware EXCEPT ![job[w].key] = dir] /\ staging' = staging
        /\ Opened(w) = firmware[job[w].key]
    BY <1>2, <1>3, <1>6 DEF SetDir, Target, DirAt
  <2>2. FwOf(firmware[job[w].key]) = Nil /\ Opened(w).fw = Nil
    BY <1>0, <1>2, <1>6, <2>1 DEF JobOne, Building, FwOf
  <2>3. dir.fw = Nil
    BY <1>3, <1>4, <2>2 DEF Fewer, VersionDir
  <2>4. \A k \in Key : FwOf(firmware'[k]) = FwOf(firmware[k])
    BY <1>0, <1>1, <1>5, <2>1, <2>2, <2>3 DEF FwOf, TypeOK
  <2>5. JobOne(w)'
    BY <1>0, <1>1, <1>2, <1>6, <2>4 DEF JobOne, Building, Target
  <2>6. \A k \in Key : StagedIs(k) => StagedIs(k)'
    BY <1>2, <2>1 DEF StagedIs, ScanStaged, Manifest
  <2>7. \A k \in Key : (LiveDue(k)' <=> LiveDue(k)) /\ (StagedDue(k)' <=> StagedDue(k))
    BY <1>2 DEF LiveDue, StagedDue
  <2>8. QED  BY <1>0, <1>2, <2>4, <2>5, <2>6, <2>7 DEF Agrees
<1>7. CASE job[w].op # "publish"
  <2>1. /\ staging' = [staging EXCEPT ![job[w].key] = dir] /\ firmware' = firmware
    BY <1>2, <1>3, <1>7 DEF SetDir, Target, DirAt
  <2>2. JobOne(w)'
    BY <1>0, <1>1, <1>2, <1>7, <2>1 DEF JobOne, Building, Target
  <2>3. \A k \in Key : k # job[w].key => ScanStaged'[k] = ScanStaged[k]
    BY <1>0, <2>1 DEF ScanStaged, Manifest, TypeOK
  <2>4. \A k \in Key : k # job[w].key /\ StagedIs(k) => StagedIs(k)'
    BY <1>2, <2>3 DEF StagedIs
  <2>5. \A k \in Key : (LiveDue(k)' <=> LiveDue(k)) /\ (StagedDue(k)' <=> StagedDue(k))
    BY <1>2 DEF LiveDue, StagedDue
  <2>6. StagedDue(job[w].key)
    BY <1>0 DEF StagedDue
  <2>7. QED  BY <1>0, <1>2, <2>1, <2>2, <2>4, <2>5, <2>6 DEF Agrees
<1>8. QED  BY <1>6, <1>7

\* The rmdir, which finds the directory empty.
LEMMA RmdirOne ==
    ASSUME OneWriter, TInv, Agrees, NEW w \in Worker, Call(w) \/ Step(w), Rmdir(w)
    PROVE  Agrees'
<1>0. /\ WellFormed(job[w]) /\ JobOne(w) /\ TypeOK /\ job[w].pc = "unlink"
      /\ \A v \in Worker : v = w \/ (job[v].pc \notin Writers /\ job'[v] = job[v] /\ JobOne(v)')
  BY OthersIdle DEF TInv, GoodJob, Agrees, Rmdir, Writers, Building
<1>1. /\ job[w].op \in {"stage", "publish", "reject"} /\ job[w].key \in Key
      /\ handle[w] = Target(w) /\ Target(w) \in Place
  BY <1>0 DEF WellFormed, MayBeAt, Removing, JobOne, Target, Place
<1>2. Vacant(DirAt(Target(w)))
  BY <1>1, NilAssumption DEF Rmdir, Opened
<1>3. /\ SetDir(Target(w), Nil) /\ Goto(w, AfterRemoval(w))
      /\ UNCHANGED <<live, staged, scan>>
  BY <1>2 DEF Rmdir
<1>4. FwOf(DirAt(Target(w))) = Nil
  BY <1>2 DEF Vacant, Emptied, FwOf
<1>5. /\ job'[w].pc = AfterRemoval(w) /\ job'[w].op = job[w].op /\ job'[w].fw = job[w].fw
      /\ job'[w].key = job[w].key
  BY <1>3, GotoIs
<1>6. /\ firmware' = IF job[w].op = "publish" THEN [firmware EXCEPT ![job[w].key] = Nil] ELSE firmware
      /\ staging' = IF job[w].op # "publish" THEN [staging EXCEPT ![job[w].key] = Nil] ELSE staging
  BY <1>3 DEF SetDir, Target
<1>7. \A k \in Key : FwOf(firmware'[k]) = FwOf(firmware[k])
  <2>1. job[w].op = "publish" => FwOf(firmware[job[w].key]) = Nil
    BY <1>4 DEF DirAt, Target
  <2>2. QED  BY <1>0, <1>6, <2>1 DEF FwOf, TypeOK
<1>8. \A k \in Key : k # job[w].key => ScanStaged'[k] = ScanStaged[k]
  BY <1>0, <1>6 DEF ScanStaged, Manifest, TypeOK
<1>9. \A k \in Key : k # job[w].key /\ StagedIs(k) => StagedIs(k)'
  BY <1>3, <1>8 DEF StagedIs
<1>10. JobOne(w)'
  BY <1>0, <1>1, <1>5, <1>6, <1>7 DEF JobOne, Building, AfterRemoval, DirAt, Target, TypeOK
<1>11. /\ \A k \in Key : ~ LiveDue(k) /\ (k # job[w].key => ~ StagedDue(k))
       /\ StagedDue(job[w].key)'
  BY <1>0, <1>5 DEF Writers, Building, LiveDue, StagedDue, AfterRemoval
<1>12. QED  BY <1>0, <1>3, <1>7, <1>9, <1>10, <1>11 DEF Agrees

\* The rename into place.
LEMMA CommitOne ==
    ASSUME OneWriter, TInv, Agrees, NEW w \in Worker, Call(w) \/ Step(w), Commit(w)
    PROVE  Agrees'
<1>0. /\ WellFormed(job[w]) /\ JobOne(w) /\ TypeOK /\ job[w].pc = "commit" /\ job[w] \in Job
      /\ \A v \in Worker : v = w \/ (job[v].pc \notin Writers /\ job'[v] = job[v] /\ JobOne(v)')
  BY OthersIdle DEF TInv, GoodJob, Agrees, Commit, Writers, Building
<1>1. /\ job[w].op \in {"stage", "publish"} /\ job[w].key \in Key /\ job[w].fw \in Fw
      /\ DirAt(Target(w)) = Nil
  BY <1>0 DEF WellFormed, MayBeAt, JobOne
<1> DEFINE dir == [fw |-> job[w].fw, by |-> job[w].by, files |-> job[w].files]
<1>2. /\ SetDir(Target(w), dir) /\ UNCHANGED <<live, staged, scan>>
      /\ job' = [job EXCEPT ![w].pc = "index", ![w].files = NoFiles]
  BY <1>1 DEF Commit, Vacant
<1>3. dir # Nil /\ dir.fw = job[w].fw /\ dir.by = job[w].by
  <2>1. dir \in VersionDir
    BY <1>0, <1>1 DEF VersionDir, Job
  <2>2. QED  BY <2>1, NilAssumption
<1>4. /\ job'[w].pc = "index" /\ job'[w].op = job[w].op /\ job'[w].fw = job[w].fw
      /\ job'[w].key = job[w].key /\ job'[w].by = job[w].by
  BY <1>0, <1>2 DEF Job, TypeOK
<1>5. PICK d : d = dir
  OBVIOUS
<1>6. /\ firmware' = IF job[w].op = "publish" THEN [firmware EXCEPT ![job[w].key] = d] ELSE firmware
      /\ staging' = IF job[w].op # "publish" THEN [staging EXCEPT ![job[w].key] = d] ELSE staging
  BY <1>1, <1>2, <1>5 DEF SetDir, Target
<1>7. \A k \in Key : k # job[w].key => ScanStaged'[k] = ScanStaged[k] /\ firmware'[k] = firmware[k]
  BY <1>0, <1>6 DEF ScanStaged, Manifest, TypeOK
<1>8. \A k \in Key : k # job[w].key /\ StagedIs(k) => StagedIs(k)'
  BY <1>2, <1>7 DEF StagedIs
<1>9. JobOne(w)'
  <2>1. FwOf(d) = job[w].fw /\ d.by = job[w].by
    BY <1>3, <1>5 DEF FwOf
  <2>2. Target(w)' = Target(w)
    BY <1>4 DEF Target
  <2>3. DirAt(Target(w))' = d
    BY <1>0, <1>1, <1>6, <2>2 DEF DirAt, Target, TypeOK
  <2>4. job[w].key = KeyOf[job[w].fw]
    BY <1>0, <1>1 DEF JobOne, Building
  <2>5. QED  BY <1>4, <2>1, <2>3, <2>4 DEF JobOne, Building
<1>10. PICK c \in Key : c = job[w].key
  BY <1>1
<1>11. /\ \A k \in Key : ~ LiveDue(k) /\ (k # c => ~ StagedDue(k))
       /\ StagedDue(c)'
       /\ job[w].op = "publish" => LiveDue(c)'
       /\ job[w].op # "publish" => firmware' = firmware
  <2>1. /\ \A k \in Key : ~ LiveDue(k) /\ (k # c => ~ StagedDue(k))
        /\ job[w].op # "publish" => firmware' = firmware
    BY <1>0, <1>6, <1>10 DEF Writers, Building, LiveDue, StagedDue
  <2>2. StagedDue(c)' /\ (job[w].op = "publish" => LiveDue(c)')
    BY <1>4, <1>10 DEF LiveDue, StagedDue
  <2>3. QED  BY <2>1, <2>2
<1>12. ASSUME NEW k \in Key
       PROVE  /\ LiveDue(k)' \/ live'[k] = FwOf(firmware'[k])
              /\ scan # Nil => LiveDue(k)' \/ FwOf(scan[k]) = FwOf(firmware'[k])
  <2>1. live[k] = FwOf(firmware[k]) /\ (scan # Nil => FwOf(scan[k]) = FwOf(firmware[k]))
    BY <1>11 DEF Agrees
  <2>2. CASE k = c /\ job[w].op = "publish"
    BY <1>11, <2>2
  <2>3. CASE ~ (k = c /\ job[w].op = "publish")
    BY <1>2, <1>7, <1>10, <1>11, <2>1, <2>3
  <2>4. QED  BY <2>2, <2>3
<1>13. \A k \in Key : StagedDue(k)' \/ StagedIs(k)'
  <2>1. SUFFICES ASSUME NEW k \in Key PROVE StagedDue(k)' \/ StagedIs(k)'
    OBVIOUS
  <2>2. CASE k = c
    BY <1>11, <2>2
  <2>3. CASE k # c
    BY <1>8, <1>10, <1>11, <2>3 DEF Agrees
  <2>4. QED  BY <2>2, <2>3
<1>14. QED  BY <1>0, <1>2, <1>9, <1>12, <1>13 DEF Agrees

\* The index is told of what is on the disk.
LEMMA IndexOne ==
    ASSUME OneWriter, TInv, Agrees, NEW w \in Worker, Call(w) \/ Step(w), Index(w)
    PROVE  Agrees'
<1>0. /\ WellFormed(job[w]) /\ JobOne(w) /\ TypeOK /\ job[w].pc = "index" /\ job[w] \in Job
      /\ \A v \in Worker : v = w \/ (job[v].pc \notin Writers /\ job'[v] = job[v] /\ JobOne(v)')
  BY OthersIdle DEF TInv, GoodJob, Agrees, Index, Writers, Building
<1>1. /\ job[w].op \in {"stage", "publish"} /\ job[w].key \in Key /\ job[w].fw \in Fw
      /\ job[w].fw # Nil /\ scan = Nil
  BY <1>0, NilAssumption DEF WellFormed, MayBeAt, Index, Unlocked
<1>2. UNCHANGED <<firmware, staging, scan>> /\ job'[w].pc = "sweep_owned"
  BY <1>0 DEF Index, TInv, TypeOK, Idle
<1>3. JobOne(w)'
  BY <1>2, IdleOne DEF Writers, Building
<1>4. \A k \in Key : k # job[w].key => ~ LiveDue(k) /\ ~ StagedDue(k)
  BY <1>0 DEF Writers, Building, LiveDue, StagedDue
<1>5. \A k \in Key : ScanStaged'[k] = ScanStaged[k]
  BY <1>2 DEF ScanStaged, Manifest
<1>6. CASE job[w].op = "stage"
  <2>1. /\ staged' = [staged EXCEPT ![job[w].key] = [fw |-> job[w].fw, by |-> job[w].by]]
        /\ live' = live
    BY <1>6 DEF Index
  <2>2. FwOf(staging[job[w].key]) = job[w].fw /\ staging[job[w].key].by = job[w].by
    BY <1>0, <1>6 DEF JobOne, DirAt, Target
  <2>3. ScanStaged[job[w].key] = [fw |-> job[w].fw, by |-> job[w].by]
    BY <1>1, <2>2, ScanStagedIs
  <2>4. ~ LiveDue(job[w].key)
    BY <1>0, <1>6 DEF Writers, Building, LiveDue
  <2>5. staged'[job[w].key] = ScanStaged'[job[w].key]
    BY <1>0, <1>1, <1>5, <2>1, <2>3 DEF TypeOK
  <2>6. \A k \in Key : StagedIs(k)'
    <3>1. \A k \in Key : k # job[w].key => staged'[k] = staged[k]
      BY <1>0, <2>1 DEF TypeOK
    <3>2. QED  BY <1>4, <1>5, <2>1, <2>5, <3>1 DEF Agrees, StagedIs
  <2>7. \A k \in Key : live[k] = FwOf(firmware[k])
    BY <1>4, <2>4 DEF Agrees
  <2>8. QED  BY <1>0, <1>1, <1>2, <1>3, <2>1, <2>6, <2>7 DEF Agrees
<1>7. CASE job[w].op = "publish"
  <2>1. live' = [live EXCEPT ![job[w].key] = job[w].fw] /\ staged' = [staged EXCEPT ![job[w].key] = Nil]
    BY <1>7 DEF Index
  <2>2. FwOf(firmware[job[w].key]) = job[w].fw
    BY <1>0, <1>7 DEF JobOne, DirAt, Target
  <2>3. \A k \in Key : live'[k] = FwOf(firmware'[k])
    BY <1>0, <1>1, <1>2, <1>4, <2>1, <2>2 DEF Agrees, TypeOK
  <2>4. \A k \in Key : StagedIs(k)'
    <3>1. \A k \in Key : k # job[w].key => staged'[k] = staged[k] /\ live'[k] = live[k]
      BY <1>0, <2>1 DEF TypeOK
    <3>2. staged'[job[w].key] = Nil /\ live'[job[w].key] # Nil
      BY <1>0, <1>1, <2>1 DEF TypeOK
    <3>3. QED  BY <1>4, <1>5, <3>1, <3>2 DEF Agrees, StagedIs
  <2>5. QED  BY <1>0, <1>1, <1>2, <1>3, <2>3, <2>4 DEF Agrees
<1>8. QED  BY <1>1, <1>6, <1>7

LEMMA SweepOne ==
    ASSUME TInv, Agrees, NEW w \in Worker, Call(w) \/ Step(w),
           SweepOwned(w) \/ SweepFile(w) \/ SweepEnd(w) \/ GcBegin(w) \/ GcFile(w) \/ GcEnd(w)
    PROVE  Agrees'
<1>0. job[w] \in Job /\ job \in [Worker -> Job]
  BY DEF TInv, TypeOK
<1>1. CASE SweepOwned(w)
  <2>1. job'[w].pc = "sweep_file"
    BY <1>0, <1>1 DEF SweepOwned, Job
  <2>2. QED  BY <1>1, <2>1, IdleOne, AsideOne DEF Writers, Building, SweepOwned, Dues
<1>2. CASE SweepFile(w)
  <2>1. job'[w].pc = "sweep_file" /\ job[w].pc = "sweep_file"
    BY <1>0, <1>2 DEF SweepFile, Job
  <2>2. UNCHANGED <<firmware, staging, live, staged, scan, handle>>
    BY <1>2 DEF SweepFile
  <2>3. QED  BY <2>1, <2>2, IdleOne, AsideOne DEF Writers, Building, Dues
<1>3. CASE SweepEnd(w)
  BY <1>3, ReturnIs, IdleOne, AsideOne DEF Writers, Building, SweepEnd, Dues
<1>4. CASE GcBegin(w)
  <2>1. job'[w].pc = "gc_files"
    BY <1>0, <1>4 DEF GcBegin, Idle
  <2>2. QED  BY <1>4, <2>1, IdleOne, AsideOne DEF Writers, Building, GcBegin, Dues
<1>5. CASE GcFile(w)
  <2>1. job'[w].pc = "gc_files" /\ job[w].pc = "gc_files"
    BY <1>0, <1>5 DEF GcFile, Job
  <2>2. UNCHANGED <<firmware, staging, live, staged, scan, handle>>
    BY <1>5 DEF GcFile
  <2>3. QED  BY <2>1, <2>2, IdleOne, AsideOne DEF Writers, Building, Dues
<1>6. CASE GcEnd(w)
  <2>1. UNCHANGED <<firmware, staging, live, staged, scan, handle>> /\ Return(w) /\ job[w].pc = "gc_files"
    BY <1>6 DEF GcEnd
  <2>2. QED  BY <2>1, ReturnIs, IdleOne, AsideOne DEF Writers, Building, Dues
<1>7. QED  BY <1>1, <1>2, <1>3, <1>4, <1>5, <1>6

\* approve and reject, up to what they do to the disk.
LEMMA DecideOne ==
    ASSUME OneWriter', TInv, Agrees, NEW w \in Worker, Call(w) \/ Step(w),
           (\E k \in Key : Approve(w, k) \/ Reject(w, k)) \/ RejectCheck(w)
    PROVE  Agrees'
<1>0. job[w] \in Job /\ job \in [Worker -> Job] /\ WellFormed(job[w])
  BY DEF TInv, TypeOK, GoodJob
<1>1. ASSUME NEW k \in Key, Approve(w, k) PROVE Agrees'
  <2>1. job[w].pc = "idle" /\ UNCHANGED <<firmware, staging, live, staged, scan, handle>>
    BY <1>1 DEF Approve
  <2>2. CASE live[k] # Nil
    <3>1. job'[w].pc = "check"
      BY <1>0, <1>1, <2>2 DEF Approve, Idle
    <3>2. QED  BY <2>1, <3>1, IdleOne, AsideOne DEF Writers, Building, Dues
  <2>3. CASE live[k] = Nil
    <3>1. job'[w].pc = "rename" /\ job'[w].key = k /\ job'[w].fw = staged[k].fw /\ staged[k] # Nil
      BY <1>0, <1>1, <2>3 DEF Approve, Idle
    <3>2. ~ StagedDue(k)
      BY <2>1, <3>1, NobodyDue DEF Writers, Building
    <3>3. staged[k] = ScanStaged[k]
      BY <2>3, <3>1, <3>2 DEF Agrees, StagedIs
    <3>4. FwOf(staging[k]) = staged[k].fw
      <4>1. ScanStaged[k] # Nil
        BY <3>1, <3>3
      <4>2. ScanStaged[k] = [fw |-> FwOf(staging[k]), by |-> staging[k].by]
        BY <4>1, ScanStagedIs
      <4>3. QED  BY <3>3, <4>2
    <3>5. JobOne(w)'
      BY <2>1, <3>1, <3>4 DEF JobOne, Building
    <3>6. QED  BY <2>1, <3>5, AsideOne DEF Dues
  <2>4. QED  BY <2>2, <2>3
<1>2. ASSUME NEW k \in Key, Reject(w, k) PROVE Agrees'
  <2>1. job[w].pc = "idle" /\ UNCHANGED <<firmware, staging, live, staged, scan, handle>>
    BY <1>2 DEF Reject
  <2>2. job'[w].pc = "replace" /\ job'[w].op = "reject"
    BY <1>0, <1>2 DEF Reject, Idle
  <2>3. JobOne(w)'
    BY <2>2 DEF JobOne, Building
  <2>4. QED  BY <2>1, <2>3, AsideOne DEF Dues
<1>3. CASE RejectCheck(w)
  <2>1. job[w].pc = "check" /\ UNCHANGED <<firmware, staging, live, staged, scan, handle>>
        /\ job[w].op = "reject"
    BY <1>0, <1>3 DEF RejectCheck, WellFormed, MayBeAt
  <2>2. CASE Return(w)
    BY <2>1, <2>2, ReturnIs, IdleOne, AsideOne DEF Writers, Building, Dues
  <2>3. CASE Goto(w, "replace")
    <3>1. JobOne(w)'
      BY <2>1, <2>3, GotoIs DEF JobOne, Building
    <3>2. QED  BY <2>1, <3>1, AsideOne DEF Dues
  <2>4. QED  BY <1>3, <2>2, <2>3 DEF RejectCheck
<1>4. QED  BY <1>1, <1>2, <1>3

\* The rename of an approval, and the index after it.
LEMMA ApproveOne ==
    ASSUME OneWriter, TInv, Agrees, NEW w \in Worker, Call(w) \/ Step(w),
           Rename(w) \/ GoLive(w) \/ Unstage(w)
    PROVE  Agrees'
<1>0. /\ WellFormed(job[w]) /\ JobOne(w) /\ TypeOK /\ job[w] \in Job
      /\ \A v \in Worker : v = w \/ (job[v].pc \notin Writers /\ job'[v] = job[v] /\ JobOne(v)')
  BY OthersIdle DEF TInv, GoodJob, Agrees, Rename, GoLive, Unstage, Writers, Building
<1>1. ASSUME job[w].pc \in {"rename", "golive", "unstage"} PROVE job[w].key \in Key
  BY <1>0, <1>1 DEF WellFormed, MayBeAt
<1>2. CASE Rename(w)
  <2> DEFINE k == job[w].key
  <2>1. job[w].pc = "rename" /\ UNCHANGED <<live, staged, scan>> /\ k \in Key
    BY <1>1, <1>2 DEF Rename
  <2>2. CASE ~ (staging[k] # Nil /\ Vacant(firmware[k]))
    <3>1. Return(w) /\ UNCHANGED <<firmware, staging, handle>>
      BY <1>2, <2>2 DEF Rename
    <3>2. QED  BY <2>1, <3>1, ReturnIs, IdleOne, AsideOne DEF Writers, Building, Dues
  <2>3. CASE staging[k] # Nil /\ Vacant(firmware[k])
    <3>1. /\ firmware' = [firmware EXCEPT ![job[w].key] = [staging[job[w].key] EXCEPT !.by = Nil]]
          /\ staging' = [staging EXCEPT ![job[w].key] = Nil]
          /\ Goto(w, "golive")
      BY <1>2, <2>3 DEF Rename
    <3>2. staging[k] \in VersionDir
      BY <1>0, <2>1, <2>3 DEF TypeOK
    <3>3. PICK d : d = [staging[job[w].key] EXCEPT !.by = Nil]
      OBVIOUS
    <3>4. d # Nil /\ d.fw = staging[k].fw
      <4>1. d \in VersionDir
        BY <3>2, <3>3 DEF VersionDir
      <4>2. QED  BY <3>2, <3>3, <4>1, NilAssumption DEF VersionDir
    <3>5. FwOf(firmware'[job[w].key]) = job[w].fw /\ staging'[job[w].key] = Nil
      BY <1>0, <2>1, <2>3, <3>1, <3>3, <3>4 DEF FwOf, TypeOK, JobOne
    <3>6. job'[w].pc = "golive" /\ job'[w].key = job[w].key /\ job'[w].fw = job[w].fw
      BY <3>1, GotoIs
    <3>7. JobOne(w)'
      BY <3>5, <3>6 DEF JobOne, Building
    <3>8. \A l \in Key : l # k => ScanStaged'[l] = ScanStaged[l] /\ firmware'[l] = firmware[l]
      BY <1>0, <3>1 DEF ScanStaged, Manifest, TypeOK
    <3>9. PICK c \in Key : c = job[w].key
      BY <2>1
    <3>13. LiveDue(c)' /\ StagedDue(c)' /\ \A l \in Key : ~ LiveDue(l) /\ ~ StagedDue(l)
      <4>1. \E v \in Worker : v = w /\ job'[v].key = job[w].key /\ job'[v].pc = "golive"
        BY <3>6
      <4>2. \A l \in Key : ~ LiveDue(l) /\ ~ StagedDue(l)
        BY <1>0, <2>1 DEF Writers, Building, LiveDue, StagedDue
      <4>3. LiveDue(c)' /\ StagedDue(c)'
        BY <3>6, <3>9 DEF LiveDue, StagedDue
      <4>4. QED  BY <4>2, <4>3
    <3>10. ASSUME NEW l \in Key
           PROVE  /\ LiveDue(l)' \/ live'[l] = FwOf(firmware'[l])
                  /\ scan # Nil => LiveDue(l)' \/ FwOf(scan[l]) = FwOf(firmware'[l])
                  /\ StagedDue(l)' \/ StagedIs(l)'
      <4>1. CASE l = k
        BY <3>9, <3>13, <4>1
      <4>2. CASE l # k
        <5>1. /\ live[l] = FwOf(firmware[l]) /\ StagedIs(l)
              /\ scan # Nil => FwOf(scan[l]) = FwOf(firmware[l])
          BY <3>13 DEF Agrees
        <5>2. StagedIs(l)'
          BY <2>1, <3>8, <4>2, <5>1 DEF StagedIs
        <5>3. QED  BY <2>1, <3>8, <4>2, <5>1, <5>2
      <4>3. QED  BY <4>1, <4>2
    <3>11. \A v \in Worker : JobOne(v)'
      BY <1>0, <3>7
    <3>12. QED  BY <2>1, <3>10, <3>11 DEF Agrees
  <2>4. QED  BY <2>2, <2>3
<1>3. CASE GoLive(w)
  <2>1. /\ job[w].pc = "golive" /\ job[w].key \in Key /\ scan = Nil /\ scan' = Nil
        /\ UNCHANGED <<firmware, staging>> /\ Return(w)
        /\ staged' = [staged EXCEPT ![job[w].key] = Nil]
        /\ live' = [live EXCEPT ![job[w].key] = job[w].fw]
    BY <1>1, <1>3 DEF GoLive, Unlocked
  <2>2. FwOf(firmware[job[w].key]) = job[w].fw /\ job[w].fw # Nil
    BY <1>0, <2>1, NilAssumption DEF JobOne, WellFormed, MayBeAt
  <2>3. JobOne(w)'
    BY <2>1, ReturnIs, IdleOne DEF Writers, Building
  <2>4. \A l \in Key : l # job[w].key => ~ LiveDue(l) /\ ~ StagedDue(l)
    BY <1>0 DEF Writers, Building, LiveDue, StagedDue
  <2>5. \A l \in Key : ScanStaged'[l] = ScanStaged[l]
    BY <2>1 DEF ScanStaged, Manifest
  <2>6. \A l \in Key : l # job[w].key => staged'[l] = staged[l] /\ live'[l] = live[l]
    BY <1>0, <2>1 DEF TypeOK
  <2>7. staged'[job[w].key] = Nil /\ live'[job[w].key] = job[w].fw
    BY <1>0, <2>1 DEF TypeOK
  <2>8. \A l \in Key : live'[l] = FwOf(firmware'[l])
    BY <2>1, <2>2, <2>4, <2>6, <2>7 DEF Agrees
  <2>9. \A l \in Key : StagedIs(l)'
    BY <2>2, <2>4, <2>5, <2>6, <2>7 DEF Agrees, StagedIs
  <2>10. QED  BY <1>0, <2>1, <2>3, <2>8, <2>9 DEF Agrees
<1>4. CASE Unstage(w)
  <2>1. /\ job[w].pc = "unstage" /\ job[w].key \in Key /\ scan = Nil /\ scan' = Nil
        /\ UNCHANGED <<firmware, staging, live>> /\ Return(w)
        /\ staged' = [staged EXCEPT ![job[w].key] = Nil]
    BY <1>1, <1>4 DEF Unstage, Unlocked
  <2>2. staging[job[w].key] = Nil
    BY <1>0, <2>1 DEF JobOne
  <2>3. JobOne(w)'
    BY <2>1, ReturnIs, IdleOne DEF Writers, Building
  <2>4. \A l \in Key : ~ LiveDue(l) /\ (l # job[w].key => ~ StagedDue(l))
    BY <1>0, <2>1 DEF Writers, Building, LiveDue, StagedDue
  <2>5. \A l \in Key : ScanStaged'[l] = ScanStaged[l]
    BY <2>1 DEF ScanStaged, Manifest
  <2>6. \A l \in Key : l # job[w].key => staged'[l] = staged[l]
    BY <1>0, <2>1 DEF TypeOK
  <2>7. staged'[job[w].key] = Nil /\ ScanStaged[job[w].key] = Nil
    BY <1>0, <2>1, <2>2, ScanStagedIs DEF TypeOK, FwOf
  <2>8. \A l \in Key : live'[l] = FwOf(firmware'[l])
    BY <2>1, <2>4 DEF Agrees
  <2>9. \A l \in Key : StagedIs(l)'
    BY <2>1, <2>4, <2>5, <2>6, <2>7 DEF Agrees, StagedIs
  <2>10. QED  BY <1>0, <2>1, <2>3, <2>8, <2>9 DEF Agrees
<1>5. QED  BY <1>2, <1>3, <1>4

\* The day that passes, the reload and the reopening.
LEMMA RestOne ==
    ASSUME TInv, Agrees, (\E s \in Sha : Age(s)) \/ ReloadScan \/ ReloadSwap \/ Crash
    PROVE  Agrees'
<1>0. TypeOK
  BY DEF TInv
<1>1. CASE (\E s \in Sha : Age(s)) \/ ReloadScan
  <2>1. UNCHANGED <<firmware, staging, live, staged, job, handle>>
    BY <1>1 DEF Age, ReloadScan
  <2>2. \A k \in Key : (LiveDue(k)' <=> LiveDue(k)) /\ (StagedDue(k)' <=> StagedDue(k))
    BY <2>1 DEF LiveDue, StagedDue
  <2>3. \A k \in Key : StagedIs(k)' <=> StagedIs(k)
    BY <2>1 DEF StagedIs, ScanStaged, Manifest
  <2>4. \A v \in Worker : JobOne(v)' <=> JobOne(v)
    BY <2>1 DEF JobOne, Target, DirAt
  <2>5. scan' = scan \/ scan' = firmware
    BY <1>1 DEF Age, ReloadScan
  <2>6. scan' # Nil => \A k \in Key : LiveDue(k)' \/ FwOf(scan'[k]) = FwOf(firmware'[k])
    BY <2>1, <2>2, <2>5 DEF Agrees
  <2>7. QED  BY <2>1, <2>2, <2>3, <2>4, <2>6 DEF Agrees
<1>2. CASE ReloadSwap
  <2>1. /\ UNCHANGED <<firmware, staging, job, handle>> /\ scan # Nil /\ scan' = Nil
        /\ live' = Manifest(scan) /\ staged' = ScanStaged
    BY <1>2 DEF ReloadSwap
  <2>2. \A k \in Key : (LiveDue(k)' <=> LiveDue(k)) /\ (StagedDue(k)' <=> StagedDue(k))
    BY <2>1 DEF LiveDue, StagedDue
  <2>3. \A k \in Key : StagedIs(k)'
    <3>1. \A k \in Key : ScanStaged'[k] = ScanStaged[k]
      BY <2>1 DEF ScanStaged, Manifest
    <3>2. QED  BY <2>1, <3>1 DEF StagedIs
  <2>4. \A v \in Worker : JobOne(v)' <=> JobOne(v)
    BY <2>1 DEF JobOne, Target, DirAt
  <2>5. \A k \in Key : LiveDue(k)' \/ live'[k] = FwOf(firmware'[k])
    BY <2>1, <2>2, ManifestIs DEF Agrees
  <2>6. QED  BY <2>1, <2>3, <2>4, <2>5 DEF Agrees
<1>3. CASE Crash
  <2>1. /\ UNCHANGED <<firmware, staging>> /\ scan' = Nil
        /\ live' = Manifest(firmware) /\ staged' = ScanStaged
        /\ \A v \in Worker : job'[v].pc = "idle"
    BY <1>3 DEF Crash, Idle
  <2>2. \A k \in Key : ScanStaged'[k] = ScanStaged[k]
    BY <2>1 DEF ScanStaged, Manifest
  <2>3. \A v \in Worker : JobOne(v)'
    BY <2>1, IdleOne DEF Writers, Building
  <2>4. \A k \in Key : live'[k] = FwOf(firmware'[k])
    BY <2>1, ManifestIs
  <2>5. QED  BY <2>1, <2>2, <2>3, <2>4 DEF Agrees, StagedIs
<1>4. QED  BY <1>1, <1>2, <1>3

LEMMA AgreesNext ==
    ASSUME OneWriter, OneWriter', TInv, Agrees, [Next]_vars
    PROVE  Agrees'
<1>1. CASE UNCHANGED vars
  <2>1. UNCHANGED <<firmware, staging, live, staged, scan, job, handle>>
    BY <1>1 DEF vars
  <2>2. \A k \in Key : (LiveDue(k)' <=> LiveDue(k)) /\ (StagedDue(k)' <=> StagedDue(k))
    BY <2>1 DEF LiveDue, StagedDue
  <2>3. \A k \in Key : StagedIs(k)' <=> StagedIs(k)
    BY <2>1 DEF StagedIs, ScanStaged, Manifest
  <2>4. \A v \in Worker : JobOne(v)' <=> JobOne(v)
    BY <2>1 DEF JobOne, Target, DirAt
  <2>5. QED  BY <2>1, <2>2, <2>3, <2>4 DEF Agrees
<1>2. ASSUME NEW w \in Worker, Call(w) \/ Step(w) PROVE Agrees'
  <2>1. \/ (\E s \in Sha : PutCheck(w, s)) \/ PutWrite(w) \/ PutIndex(w)
        \/ \/ \E m \in Fw, u \in User : Stage(w, m, u)
           \/ \E m \in Fw : Publish(w, m)
           \/ Quota(w) \/ Lookup(w) \/ Copy(w) \/ Replace(w)
        \/ Unlink(w) \/ Rmdir(w) \/ Commit(w) \/ Index(w)
        \/ (SweepOwned(w) \/ SweepFile(w) \/ SweepEnd(w) \/ GcBegin(w) \/ GcFile(w) \/ GcEnd(w))
        \/ ((\E k \in Key : Approve(w, k) \/ Reject(w, k)) \/ RejectCheck(w))
        \/ (Rename(w) \/ GoLive(w) \/ Unstage(w))
    BY <1>2 DEF Call, Step
  <2>2. QED  BY <1>2, <2>1, PutOne, BuildOne, UnlinkOne, RmdirOne, CommitOne, IndexOne, SweepOne,
               DecideOne, ApproveOne
<1>3. QED  BY <1>1, <1>2, RestOne DEF Next

LEMMA AgreesInit ==
    ASSUME Init
    PROVE  Agrees
<1>1. \A v \in Worker : job[v].pc = "idle" /\ job[v] = Idle
  BY DEF Init, Idle
<1>2. \A v \in Worker : JobOne(v)
  BY <1>1 DEF JobOne, Building
<1>3. \A k \in Key : ScanStaged[k] = Nil
  BY ScanStagedIs DEF Init, FwOf
<1>4. QED  BY <1>2, <1>3 DEF Init, Agrees, FwOf, StagedIs

LEMMA AgreesAlways ==
    Spec /\ []OneWriter => [](TInv /\ Agrees)
<1>1. Init => TInv /\ Agrees
  BY TypeInit, AgreesInit
<1>2. OneWriter /\ OneWriter' /\ TInv /\ Agrees /\ [Next]_vars => (TInv /\ Agrees)'
  BY TypeNext, AgreesNext
<1>3. QED  BY <1>1, <1>2, PTL DEF Spec

\* IndexIsDisk: of one writer at a time, between requests the index says what
\* the directories say (src/store/catalog.rs, src/store/mod.rs).
THEOREM IndexIsDiskHolds ==
    Spec /\ []OneWriter => []IndexIsDisk
<1>1. ASSUME TInv, Agrees PROVE IndexIsDisk
  <2>1. SUFFICES ASSUME Resting
                 PROVE  /\ live = Manifest(firmware)
                        /\ \A k \in Key : staged[k] = ScanStaged[k] \/ (staged[k] = Nil /\ live[k] # Nil)
    BY DEF IndexIsDisk
  <2>2. \A k \in Key : ~ LiveDue(k) /\ ~ StagedDue(k)
    BY <2>1 DEF Resting, LiveDue, StagedDue
  <2>3. \A k \in Key : live[k] = Manifest(firmware)[k]
    BY <1>1, <2>2, ManifestIs DEF Agrees
  <2>4. live = Manifest(firmware)
    BY <1>1, <2>3 DEF TInv, TypeOK, Manifest
  <2>5. QED  BY <1>1, <2>2, <2>4 DEF Agrees, StagedIs
<1>2. TInv /\ Agrees => IndexIsDisk
  BY <1>1
<1>3. QED  BY <1>2, AgreesAlways, PTL

-----------------------------------------------------------------------------
(* One writer at a time: live versions do not change *)

\* A complete directory under firmware/ stays as it is: what a publication
\* removes or renames has no manifest, and everything else is under staging/.
LEMMA FirmwareKept ==
    ASSUME TInv, Agrees, [Next]_vars, NEW k \in Key, Complete(firmware[k])
    PROVE  firmware'[k] = firmware[k]
<1>1. firmware \in [Key -> VersionDir \cup {Nil}] /\ ~ Vacant(firmware[k])
  BY DEF TInv, TypeOK, Complete, Vacant, Emptied
<1>2. ASSUME NEW place, NEW dir, SetDir(place, dir), place = <<place[1], place[2]>>,
             place # <<"firmware", k>>
      PROVE  firmware'[k] = firmware[k]
  BY <1>1, <1>2 DEF SetDir
<1>3. ASSUME NEW w \in Worker, Unlink(w) PROVE firmware'[k] = firmware[k]
  <2>1. /\ job[w].pc = "unlink" /\ handle[w] = Target(w) /\ JobOne(w)
        /\ job[w].op # "reject" => FwOf(firmware[job[w].key]) = Nil
    BY <1>3 DEF Unlink, Agrees, JobOne, Building
  <2>2. PICK dir : SetDir(Target(w), dir)
    BY <1>3, <2>1 DEF Unlink
  <2>3. Target(w) # <<"firmware", k>>
    BY <2>1 DEF Target, FwOf, Complete
  <2>4. QED  BY <1>2, <2>2, <2>3 DEF Target
<1>4. ASSUME NEW w \in Worker, Rmdir(w) \/ Commit(w) PROVE firmware'[k] = firmware[k]
  <2>1. CASE Target(w) = <<"firmware", k>>
    BY <1>1, <1>4, <2>1 DEF Rmdir, Commit, DirAt
  <2>2. CASE Target(w) # <<"firmware", k>>
    BY <1>1, <1>2, <1>4, <2>2 DEF Rmdir, Commit, Target
  <2>3. QED  BY <2>1, <2>2
<1>5. ASSUME NEW w \in Worker, Rename(w) PROVE firmware'[k] = firmware[k]
  BY <1>1, <1>5 DEF Rename
<1>6. QED  BY <1>3, <1>4, <1>5, WhoChanges

\* FirmwareUntouched: of one writer at a time, nothing opens, empties or
\* replaces the directory of a version on disk (write_version_dir, approve,
\* reject).
THEOREM FirmwareUntouchedHolds ==
    Spec /\ []OneWriter => FirmwareUntouched
<1> DEFINE Untouched == \A k \in Key : Complete(firmware[k]) => firmware'[k] = firmware[k]
<1>1. TInv /\ Agrees /\ [Next]_vars => [Untouched]_vars
  BY FirmwareKept
<1>2. QED  BY <1>1, AgreesAlways, PTL DEF Spec, FirmwareUntouched

\* What the index and a scan say of a live version is what its directory says,
\* or not yet anything: at no step of a request do they name another manifest.
LiveFollows ==
    \A k \in Key : /\ live[k] \in {Nil, FwOf(firmware[k])}
                   /\ scan # Nil => FwOf(scan[k]) \in {Nil, FwOf(firmware[k])}

\* What FwOf reads of a directory on disk that it does not read there next.
LEMMA FwKept ==
    ASSUME TInv, Agrees, [Next]_vars, NEW k \in Key
    PROVE  FwOf(firmware[k]) \in {Nil, FwOf(firmware'[k])}
<1>1. CASE Complete(firmware[k])
  BY <1>1, FirmwareKept
<1>2. CASE ~ Complete(firmware[k])
  BY <1>2 DEF Complete, FwOf
<1>3. QED  BY <1>1, <1>2

LEMMA LiveFollowsStep ==
    ASSUME TInv, Agrees, LiveFollows, [Next]_vars
    PROVE  LiveFollows'
<1>1. SUFFICES ASSUME NEW k \in Key
               PROVE  /\ live'[k] \in {Nil, FwOf(firmware'[k])}
                      /\ scan' # Nil => FwOf(scan'[k]) \in {Nil, FwOf(firmware'[k])}
  BY DEF LiveFollows
<1>2. FwOf(firmware[k]) \in {Nil, FwOf(firmware'[k])}
  BY FwKept
<1>3. /\ live[k] \in {Nil, FwOf(firmware'[k])}
      /\ scan # Nil => FwOf(scan[k]) \in {Nil, FwOf(firmware'[k])}
  BY <1>2 DEF LiveFollows
<1>4. live'[k] \in {Nil, FwOf(firmware'[k])}
  <2>1. ASSUME NEW w \in Worker, Index(w) PROVE live'[k] \in {Nil, FwOf(firmware'[k])}
    <3>1. job[w].pc = "index" /\ job[w].op \in {"stage", "publish"} /\ job[w].key \in Key
          /\ JobOne(w)
      BY <2>1 DEF Index, TInv, GoodJob, WellFormed, MayBeAt, Agrees
    <3>2. CASE job[w].op = "stage"
      BY <1>3, <2>1, <3>2 DEF Index
    <3>3. CASE job[w].op = "publish"
      <4>1. FwOf(firmware[job[w].key]) = job[w].fw /\ firmware' = firmware
        BY <2>1, <3>1, <3>3 DEF Index, JobOne, Target, DirAt
      <4>2. live' = [live EXCEPT ![job[w].key] = job[w].fw]
        BY <2>1, <3>3 DEF Index
      <4>3. live'[k] \in {live[k], FwOf(firmware'[k])}
        BY <3>1, <4>1, <4>2 DEF TInv, TypeOK
      <4>4. QED  BY <1>3, <4>3
    <3>4. QED  BY <3>1, <3>2, <3>3
  <2>2. ASSUME NEW w \in Worker, GoLive(w) PROVE live'[k] \in {Nil, FwOf(firmware'[k])}
    <3>1. job[w].key \in Key /\ FwOf(firmware[job[w].key]) = job[w].fw /\ firmware' = firmware
      BY <2>2 DEF GoLive, TInv, GoodJob, WellFormed, MayBeAt, Agrees, JobOne
    <3>2. live' = [live EXCEPT ![job[w].key] = job[w].fw]
      BY <2>2 DEF GoLive
    <3>3. live'[k] \in {live[k], FwOf(firmware'[k])}
      BY <3>1, <3>2 DEF TInv, TypeOK
    <3>4. QED  BY <1>3, <3>3
  <2>3. CASE ReloadSwap
    <3>1. live'[k] = FwOf(scan[k]) /\ scan # Nil
      BY <2>3, ManifestIs DEF ReloadSwap
    <3>2. QED  BY <1>3, <3>1
  <2>4. CASE Crash
    <3>1. live'[k] = FwOf(firmware[k])
      BY <2>4, ManifestIs DEF Crash
    <3>2. QED  BY <1>2, <3>1
  <2>5. CASE UNCHANGED live
    BY <1>3, <2>5
  <2>6. QED  BY <2>1, <2>2, <2>3, <2>4, <2>5, WhoChanges
<1>5. scan' # Nil => FwOf(scan'[k]) \in {Nil, FwOf(firmware'[k])}
  <2>1. CASE ReloadScan
    BY <1>2, <2>1 DEF ReloadScan
  <2>2. CASE ReloadSwap \/ Crash
    BY <2>2 DEF ReloadSwap, Crash
  <2>3. CASE UNCHANGED scan
    BY <1>3, <2>3
  <2>4. QED  BY <2>1, <2>2, <2>3, WhoChanges
<1>6. QED  BY <1>4, <1>5

\* LiveImmutable: of one writer at a time, with reloads and crashes anywhere,
\* what a live version serves never changes (publish, approve, reload).
THEOREM LiveImmutableAloneHolds ==
    Spec /\ []OneWriter => LiveImmutable
<1> DEFINE Immutable == \A k \in Key : live[k] # Nil => live'[k] \in {live[k], Nil}
<1>1. Init => LiveFollows
  BY DEF Init, LiveFollows
<1>2. TInv /\ Agrees /\ LiveFollows /\ [Next]_vars => LiveFollows'
  BY LiveFollowsStep
<1>3. TInv /\ Agrees /\ LiveFollows /\ LiveFollows' /\ [Next]_vars => [Immutable]_vars
  <2> SUFFICES ASSUME TInv, Agrees, LiveFollows, LiveFollows', [Next]_vars,
                      NEW k \in Key, live[k] # Nil
               PROVE  live'[k] \in {live[k], Nil}
    OBVIOUS
  <2>1. live[k] = FwOf(firmware[k]) /\ live'[k] \in {Nil, FwOf(firmware'[k])}
    BY DEF LiveFollows
  <2>2. FwOf(firmware'[k]) = FwOf(firmware[k])
    BY <2>1, FwKept
  <2>3. QED  BY <2>1, <2>2
<1>4. QED  BY <1>1, <1>2, <1>3, AgreesAlways, PTL DEF Spec, LiveImmutable

-----------------------------------------------------------------------------
(* One writer at a time: the cap, with reloads and crashes anywhere *)

\* Only the rename that commits sends a request to the index.
LEMMA WhoIndexes ==
    ASSUME TInv, NEW w \in Worker, Call(w) \/ Step(w), job'[w].pc = "index"
    PROVE  Commit(w) /\ job'[w].op = job[w].op /\ job'[w].key = job[w].key
<1>0. job \in [Worker -> Job] /\ job[w] \in Job /\ Idle.pc = "idle"
  BY DEF TInv, TypeOK, Idle
<1>1. ASSUME NEW j, job' = [job EXCEPT ![w] = j] PROVE j.pc = "index"
  BY <1>0, <1>1
<1>2. ASSUME NEW pc, Goto(w, pc) PROVE pc = "index"
  BY <1>2, GotoIs
<1>3. ~ Return(w)
  BY ReturnIs
<1>4. ~ Call(w)
  <2>1. ASSUME NEW s \in Sha PROVE ~ PutCheck(w, s)
    <3> DEFINE j == [Idle EXCEPT !.pc = IF incoming[s] = "absent" THEN "put_write" ELSE "put_index",
                                 !.op = "put", !.sha = s]
    <3>1. j.pc # "index"
      BY DEF Idle
    <3>2. PutCheck(w, s) => job' = [job EXCEPT ![w] = j]
      BY DEF PutCheck
    <3> HIDE DEF j
    <3>3. QED  BY <1>1, <3>1, <3>2
  <2>2. ASSUME NEW op \in {"stage", "publish"}, NEW m, NEW u PROVE ~ Validate(w, op, m, u)
    <3>1. SUFFICES ASSUME Validate(w, op, m, u) PROVE FALSE
      OBVIOUS
    <3> DEFINE j == [Idle EXCEPT !.pc = IF op = "stage" THEN "quota" ELSE "lookup", !.op = op,
                                 !.fw = m, !.key = KeyOf[m], !.by = u, !.n = 1]
    <3>2. j.pc # "index"
      BY DEF Idle
    <3>3. job' = [job EXCEPT ![w] = j]
      BY <3>1 DEF Validate
    <3> HIDE DEF j
    <3>4. QED  BY <1>1, <3>2, <3>3
  <2>3. ASSUME NEW k \in Key PROVE ~ Approve(w, k) /\ ~ Reject(w, k)
    <3>1. /\ [Idle EXCEPT !.pc = "check", !.op = "reject", !.key = k].pc = "check"
          /\ [Idle EXCEPT !.pc = "rename", !.op = "approve", !.key = k, !.fw = staged[k].fw].pc
                = "rename"
          /\ [Idle EXCEPT !.pc = "replace", !.op = "reject", !.key = k].pc = "replace"
      BY DEF Idle
    <3>2. ~ Approve(w, k)
      BY <1>1, <3>1 DEF Approve
    <3>3. ~ Reject(w, k)
      BY <1>1, <3>1 DEF Reject
    <3>4. QED  BY <3>2, <3>3
  <2>4. ~ GcBegin(w)
    BY <1>1 DEF GcBegin, Idle
  <2>5. QED  BY <2>1, <2>2, <2>3, <2>4 DEF Call, Stage, Publish
<1>5. ASSUME Step(w), ~ Commit(w) PROVE FALSE
  <2>1. ~ PutWrite(w) /\ ~ PutIndex(w) /\ ~ Quota(w) /\ ~ Replace(w) /\ ~ Unlink(w) /\ ~ Rmdir(w)
    BY <1>2, <1>3 DEF PutWrite, PutIndex, Quota, Replace, Unlink, Rmdir, AfterRemoval
  <2>2. ~ Lookup(w)
    <3>1. [job[w] EXCEPT !.src = paths[Blob(w)[1]], !.pc = "copy"].pc = "copy"
      BY <1>0 DEF Job
    <3>2. QED  BY <1>0, <1>1, <1>3, <3>1 DEF Lookup
  <2>3. ~ Copy(w)
    BY <1>0, <1>3 DEF Copy, Job
  <2>4. ~ Index(w)
    BY <1>1 DEF Index, Idle
  <2>5. ~ SweepOwned(w) /\ ~ SweepFile(w) /\ ~ GcFile(w)
    <3>1. ~ SweepOwned(w)
      <4>1. [job[w] EXCEPT !.shas = Owned, !.pc = "sweep_file"].pc = "sweep_file"
        BY <1>0 DEF Job
      <4>2. QED  BY <1>0, <1>1, <4>1 DEF SweepOwned
    <3>2. ~ SweepFile(w)
      BY <1>0 DEF SweepFile, Job
    <3>3. ~ GcFile(w)
      BY <1>0 DEF GcFile, Job
    <3>4. QED  BY <3>1, <3>2, <3>3
  <2>6. /\ ~ SweepEnd(w) /\ ~ GcEnd(w) /\ ~ GoLive(w)
        /\ ~ RejectCheck(w) /\ ~ Unstage(w) /\ ~ Rename(w)
    BY <1>2, <1>3 DEF SweepEnd, GcEnd, GoLive, RejectCheck, Unstage, Rename
  <2>7. QED  BY <1>5, <2>1, <2>2, <2>3, <2>4, <2>5, <2>6 DEF Step
<1>6. Commit(w)
  BY <1>4, <1>5
<1>7. job' = [job EXCEPT ![w].pc = "index", ![w].files = NoFiles]
  BY <1>3, <1>6 DEF Commit
<1>8. QED  BY <1>0, <1>6, <1>7 DEF Job

\* The coordinates whose staged directory is the account's, of no version on
\* disk, or of one that is being published over them.
DiskBy(u) ==
    {k \in Key : /\ FwOf(staging[k]) # Nil /\ staging[k].by = u
                 /\ FwOf(firmware[k]) = Nil \/ LiveDue(k)}

\* What an account holds of its cap: what the index lists for it, what a reload
\* or a restart would list, and what its request is on its way to list.
Held(u) == Awaiting(u) \cup DiskBy(u) \cup {job[w].key : w \in InFlight(u)}

HeldCapped == \A u \in User : Cardinality(Held(u)) <= MaxStaged


\* A staged directory with a manifest and a submitter has had both, or is the
\* one its request commits.
LEMMA StagedDirMove ==
    ASSUME TInv, Agrees, [Next]_vars, NEW u \in User, NEW k \in Key,
           FwOf(staging'[k]) # Nil, staging'[k].by = u
    PROVE  \/ FwOf(staging[k]) # Nil /\ staging[k].by = u
           \/ \E w \in InFlight(u) : k = job[w].key
<1> DEFINE Goal == \/ FwOf(staging[k]) # Nil /\ staging[k].by = u
                   \/ \E w \in InFlight(u) : k = job[w].key
<1>0. staging \in [Key -> VersionDir \cup {Nil}] /\ u # Nil
  BY NilAssumption DEF TInv, TypeOK
<1>1. CASE staging'[k] = staging[k]
  BY <1>1
<1>2. ASSUME NEW w \in Worker, Unlink(w) PROVE Goal
  <2>1. handle[w] \in Place /\ Opened(w) \in VersionDir /\ Opened(w) = DirAt(handle[w])
    BY <1>2, OpenedType, NilAssumption DEF Unlink, TInv, Opened
  <2>2. PICK dir \in Fewer(DirAt(handle[w])) : SetDir(handle[w], dir)
    BY <1>2, <2>1 DEF Unlink
  <2>3. CASE handle[w] = <<"staging", k>>
    <3>1. staging[k] \in VersionDir /\ staging'[k] \in Fewer(staging[k])
      BY <1>0, <2>1, <2>2, <2>3 DEF SetDir, DirAt
    <3>2. staging'[k].fw \in {Nil, staging[k].fw} /\ staging'[k].by \in {Nil, staging[k].by}
      BY <3>1 DEF Fewer, VersionDir
    <3>3. QED  BY <1>0, <3>1, <3>2, NilAssumption DEF FwOf
  <2>4. CASE handle[w] # <<"staging", k>>
    <3>1. staging'[k] = staging[k]
      BY <1>0, <2>1, <2>2, <2>4 DEF SetDir, Place
    <3>2. QED  BY <3>1
  <2>5. QED  BY <2>3, <2>4
<1>3. ASSUME NEW w \in Worker, Rmdir(w) PROVE Goal
  <2>1. staging'[k] \in {Nil, staging[k]}
    BY <1>0, <1>3 DEF Rmdir, SetDir
  <2>2. QED  BY <1>1, <2>1 DEF FwOf
<1>4. ASSUME NEW w \in Worker, Commit(w), staging'[k] # staging[k] PROVE Goal
  <2> DEFINE dir == [fw |-> job[w].fw, by |-> job[w].by, files |-> job[w].files]
  <2>1. job[w].pc = "commit" /\ job[w].op \in {"stage", "publish"} /\ SetDir(Target(w), dir)
    BY <1>4 DEF Commit, TInv, GoodJob, WellFormed, MayBeAt
  <2>2. dir.by = job[w].by
    OBVIOUS
  <2> HIDE DEF dir
  <2>3. Target(w)[1] = "staging" /\ Target(w)[2] = k /\ staging'[k] = dir
    BY <1>0, <1>4, <2>1 DEF SetDir
  <2>4. job[w].op = "stage" /\ job[w].key = k /\ job[w].by = u
    BY <2>1, <2>2, <2>3 DEF Target
  <2>5. w \in InFlight(u)
    BY <2>1, <2>4 DEF InFlight, Claims, Passed
  <2>6. QED  BY <2>4, <2>5
<1>5. ASSUME NEW w \in Worker, Rename(w) PROVE Goal
  <2>1. staging'[k] \in {Nil, staging[k]}
    BY <1>0, <1>5 DEF Rename
  <2>2. QED  BY <1>1, <2>1 DEF FwOf
<1>6. QED  BY <1>1, <1>2, <1>3, <1>4, <1>5, WhoChanges

\* Where there is no version on disk, or one that is going live, it was so before:
\* but for an approval, which takes the staged directory away.
LEMMA FreeMove ==
    ASSUME TInv, Agrees, [Next]_vars, NEW k \in Key, FwOf(staging'[k]) # Nil,
           FwOf(firmware'[k]) = Nil \/ LiveDue(k)'
    PROVE  FwOf(firmware[k]) = Nil \/ LiveDue(k)
<1>1. CASE FwOf(firmware'[k]) = Nil
  BY <1>1, FwKept
<1>2. CASE LiveDue(k)'
  <2>1. PICK v \in Worker : job'[v].key = k /\ \/ job'[v].pc = "golive"
                                               \/ job'[v].pc = "index" /\ job'[v].op = "publish"
    BY <1>2 DEF LiveDue
  <2>2. CASE job'[v].pc = "golive"
    <3>1. CASE At(v, "golive") /\ job'[v].key = job[v].key
      BY <2>1, <3>1 DEF LiveDue
    <3>2. CASE /\ Rename(v) /\ job'[v].key = job[v].key
               /\ staging[job[v].key] # Nil /\ Vacant(firmware[job[v].key])
      <4>1. staging' = [staging EXCEPT ![k] = Nil]
        BY <2>1, <3>2 DEF Rename
      <4>2. staging'[k] = Nil
        BY <4>1 DEF TInv, TypeOK
      <4>3. QED  BY <4>2 DEF FwOf
    <3>3. QED  BY <2>2, <3>1, <3>2, WhoGoesLive
  <2>3. CASE job'[v].pc = "index" /\ job'[v].op = "publish"
    <3>1. CASE job' = job
      BY <2>1, <2>3, <3>1 DEF LiveDue
    <3>2. ASSUME NEW w \in Worker, Call(w) \/ Step(w)
          PROVE  FwOf(firmware[k]) = Nil \/ LiveDue(k)
      <4>1. CASE w # v
        <5>1. job'[v] = job[v]
          BY <3>2, <4>1, OthersStay
        <5>2. QED  BY <2>1, <2>3, <5>1 DEF LiveDue
      <4>2. CASE w = v
        <5>1. Commit(v) /\ job[v].op = "publish" /\ job[v].key = k
          BY <2>1, <2>3, <3>2, <4>2, WhoIndexes
        <5>2. JobOne(v) /\ job[v].pc = "commit"
          BY <5>1 DEF Commit, Agrees
        <5>3. QED  BY <5>1, <5>2 DEF JobOne, Building
      <4>3. QED  BY <4>1, <4>2
    <3>3. CASE (\E s \in Sha : Age(s)) \/ ReloadScan \/ ReloadSwap \/ UNCHANGED vars
      BY <3>1, <3>3 DEF Age, ReloadScan, ReloadSwap, vars
    <3>4. ~ Crash
      BY <2>3 DEF Crash, Idle
    <3>5. QED  BY <3>2, <3>3, <3>4 DEF Next
  <2>4. QED  BY <2>1, <2>2, <2>3
<1>3. QED  BY <1>1, <1>2

LEMMA DiskByStep ==
    ASSUME TInv, Agrees, [Next]_vars, NEW u \in User
    PROVE  DiskBy(u)' \subseteq Held(u)
<1>1. ASSUME NEW k \in DiskBy(u)' PROVE k \in Held(u)
  <2>1. /\ k \in Key /\ FwOf(staging'[k]) # Nil /\ staging'[k].by = u
        /\ FwOf(firmware'[k]) = Nil \/ LiveDue(k)'
    BY DEF DiskBy
  <2>2. FwOf(firmware[k]) = Nil \/ LiveDue(k)
    BY <2>1, FreeMove
  <2>3. \/ FwOf(staging[k]) # Nil /\ staging[k].by = u
        \/ \E w \in InFlight(u) : k = job[w].key
    BY <2>1, StagedDirMove
  <2>4. QED  BY <2>1, <2>2, <2>3 DEF Held, DiskBy
<1>2. QED  BY <1>1

\* Awaiting review is what awaited it, what the request is on its way to list, or
\* what a scan finds on disk.
LEMMA AwaitingStep ==
    ASSUME TInv, Agrees, [Next]_vars, NEW u \in User
    PROVE  Awaiting(u)' \subseteq Held(u)
<1>1. SUFFICES ASSUME NEW k \in Key, staged'[k] # Nil, staged'[k].by = u, live'[k] = Nil
               PROVE  k \in Held(u)
  BY DEF Awaiting, StagedBy
<1>2. ASSUME ~ ReloadSwap, ~ Crash, NEW w \in Worker, Call(w) \/ Step(w) PROVE k \in Held(u)
  <2>1. k \in StagedBy(u)'
    BY <1>1 DEF StagedBy
  <2>2. k \in StagedBy(u) \/ \E v \in InFlight(u) : k = job[v].key
    BY <1>2, <2>1, StagedMove DEF Claimed
  <2>3. live[k] = Nil
    <3>1. ASSUME NEW v \in Worker, Index(v) \/ GoLive(v) PROVE live[k] = Nil
      <4>1. job[v].fw \in Fw /\ job[v].key \in Key
        BY <3>1 DEF Index, GoLive, TInv, GoodJob, WellFormed, MayBeAt
      <4>2. UNCHANGED live \/ live' = [live EXCEPT ![job[v].key] = job[v].fw]
        BY <3>1 DEF Index, GoLive
      <4>3. QED  BY <1>1, <4>1, <4>2, NilAssumption DEF TInv, TypeOK
    <3>2. QED  BY <1>1, <1>2, <3>1, WhoChanges
  <2>4. QED  BY <1>1, <2>2, <2>3 DEF Held, Awaiting, StagedBy
<1>3. CASE ReloadSwap \/ Crash
  <2>1. staged'[k] = ScanStaged[k]
    BY <1>3 DEF ReloadSwap, Crash
  <2>2. FwOf(staging[k]) # Nil /\ staging[k].by = u
    <3>1. /\ FwOf(staging[k]) = Nil => ScanStaged[k] = Nil
          /\ FwOf(staging[k]) # Nil =>
                ScanStaged[k] = [fw |-> FwOf(staging[k]), by |-> staging[k].by]
      BY ScanStagedIs
    <3>2. QED  BY <1>1, <2>1, <3>1
  <2>3. FwOf(firmware[k]) = Nil \/ LiveDue(k)
    <3>1. CASE ReloadSwap
      BY <1>1, <3>1, ManifestIs DEF ReloadSwap, Agrees
    <3>2. CASE Crash
      BY <1>1, <3>2, ManifestIs DEF Crash
    <3>3. QED  BY <1>3, <3>1, <3>2
  <2>4. QED  BY <2>2, <2>3 DEF Held, DiskBy
<1>4. CASE (\E s \in Sha : Age(s)) \/ ReloadScan \/ UNCHANGED vars
  <2>1. staged[k] # Nil /\ staged[k].by = u /\ live[k] = Nil
    BY <1>1, <1>4 DEF Age, ReloadScan, vars
  <2>2. QED  BY <2>1 DEF Held, Awaiting, StagedBy
<1>5. QED  BY <1>2, <1>3, <1>4 DEF Next

\* Only a request that passes the cap adds coordinates, its own.
LEMMA HeldStep ==
    ASSUME TInv, Agrees, [Next]_vars, NEW u \in User
    PROVE  \/ Held(u)' \subseteq Held(u)
           \/ \E w \in Worker : /\ Quota(w) /\ job[w].op = "stage" /\ MayStage(u, job[w].key)
                                /\ Held(u)' \subseteq Held(u) \cup {job[w].key}
<1>1. Awaiting(u)' \subseteq Held(u) /\ DiskBy(u)' \subseteq Held(u)
  BY AwaitingStep, DiskByStep
<1>2. ASSUME NEW K, Held(u) \subseteq K, \A v \in InFlight(u)' : job'[v].key \in K
      PROVE  Held(u)' \subseteq K
  <2>1. Held(u)' = Awaiting(u)' \cup DiskBy(u)' \cup {job'[v].key : v \in InFlight(u)'}
    BY DEF Held
  <2>2. QED  BY <1>1, <1>2, <2>1
<1>3. ASSUME NEW w \in Worker, Call(w) \/ Step(w)
      PROVE  \/ Held(u)' \subseteq Held(u)
             \/ /\ Quota(w) /\ job[w].op = "stage" /\ MayStage(u, job[w].key)
                /\ Held(u)' \subseteq Held(u) \cup {job[w].key}
  <2>1. Claims(job'[w], u) =>
            /\ job[w].op = "stage" /\ job[w].by = u /\ job'[w].key = job[w].key
            /\ Claims(job[w], u) \/ (Quota(w) /\ MayStage(u, job[w].key))
    BY <1>3, ClaimsMove
  <2>2. \A v \in InFlight(u)' : \/ v = w /\ Claims(job'[w], u)
                                \/ v \in InFlight(u) /\ job'[v].key = job[v].key
    <3>1. \A v \in Worker \ {w} : job'[v] = job[v]
      BY <1>3, OthersStay
    <3>2. ASSUME NEW v \in InFlight(u)'
          PROVE  \/ v = w /\ Claims(job'[w], u)
                 \/ v \in InFlight(u) /\ job'[v].key = job[v].key
      <4>1. v \in Worker /\ Claims(job'[v], u)
        BY DEF InFlight
      <4>2. v # w => v \in InFlight(u) /\ job'[v].key = job[v].key
        BY <3>1, <4>1 DEF InFlight
      <4>3. QED  BY <4>1, <4>2
    <3>3. QED  BY <3>2
  <2>3. CASE Claims(job'[w], u) => Claims(job[w], u)
    <3>1. \A v \in InFlight(u)' : job'[v].key \in Held(u)
      BY <2>1, <2>2, <2>3 DEF Held, InFlight
    <3>2. QED  BY <1>2, <3>1
  <2>4. CASE Claims(job'[w], u) /\ ~ Claims(job[w], u)
    <3>1. \A v \in InFlight(u)' : job'[v].key \in Held(u) \cup {job[w].key}
      BY <2>1, <2>2 DEF Held
    <3>2. Held(u)' \subseteq Held(u) \cup {job[w].key}
      BY <1>2, <3>1
    <3>3. QED  BY <2>1, <2>4, <3>2
  <2>5. QED  BY <2>3, <2>4
<1>4. CASE (\E s \in Sha : Age(s)) \/ ReloadScan \/ ReloadSwap \/ UNCHANGED vars
  <2>1. job' = job
    BY <1>4 DEF Age, ReloadScan, ReloadSwap, vars
  <2>2. \A v \in InFlight(u)' : job'[v].key \in Held(u)
    BY <2>1 DEF InFlight, Claims, Held
  <2>3. QED  BY <1>2, <2>2
<1>5. CASE Crash
  <2>1. InFlight(u)' = {}
    BY <1>5 DEF Crash, InFlight, Claims, Passed, Idle
  <2>2. QED  BY <1>2, <2>1
<1>6. QED  BY <1>3, <1>4, <1>5 DEF Next

\* When a request asks the cap, what its account holds is what the index lists.
LEMMA HeldAtQuota ==
    ASSUME OneWriter, TInv, Agrees, NEW w \in Worker, At(w, "quota"), NEW u \in User
    PROVE  /\ Held(u) \subseteq StagedBy(u)
           /\ job[w].op = "stage" /\ job[w].key \in StagedBy(u) => job[w].key \in Held(u)
<1>0. \A v \in Worker : v = w \/ job[v].pc \notin Writers
  BY DEF OneWriter, Writers, Building
<1>1. \A k \in Key : ~ LiveDue(k) /\ ~ StagedDue(k)
  BY <1>0 DEF LiveDue, StagedDue, Writers, Building
<1>2. \A k \in Key : live[k] = FwOf(firmware[k]) /\ StagedIs(k)
  BY <1>1 DEF Agrees
<1>3. InFlight(u) = {}
  BY <1>0 DEF InFlight, Claims, Passed, Writers, Building
<1>4. ASSUME NEW k \in DiskBy(u) PROVE k \in StagedBy(u)
  <2>1. k \in Key /\ FwOf(staging[k]) # Nil /\ staging[k].by = u /\ live[k] = Nil
    BY <1>1, <1>2 DEF DiskBy
  <2>2. staged[k] = [fw |-> FwOf(staging[k]), by |-> staging[k].by]
    BY <1>2, <2>1, ScanStagedIs DEF StagedIs
  <2>3. staged[k] \in Entry \cup {Nil} /\ staging[k] \in VersionDir
    BY <2>1 DEF FwOf, TInv, TypeOK
  <2>4. [fw |-> FwOf(staging[k]), by |-> staging[k].by] \in Entry
    BY <2>1, <2>3 DEF FwOf, VersionDir, Entry
  <2>5. QED  BY <2>1, <2>2, <2>4, NilAssumption DEF StagedBy
<1>5. Held(u) \subseteq StagedBy(u)
  BY <1>3, <1>4 DEF Held, Awaiting
<1>6. ASSUME job[w].op = "stage", job[w].key \in StagedBy(u) PROVE job[w].key \in Held(u)
  <2>1. JobOne(w) /\ job[w].key \in Key
    BY <1>6 DEF Agrees, StagedBy
  <2>2. live[job[w].key] = Nil
    BY <1>2, <1>6, <2>1 DEF JobOne, Building
  <2>3. QED  BY <1>6, <2>2 DEF Held, Awaiting
<1>7. QED  BY <1>5, <1>6

LEMMA HeldIs ==
    ASSUME TInv, NEW u \in User
    PROVE  /\ Held(u) \subseteq Key /\ IsFiniteSet(Held(u)) /\ Cardinality(Held(u)) \in Nat
           /\ Awaiting(u) \subseteq Held(u)
<1>1. \A w \in InFlight(u) : job[w].key \in Key
  BY DEF InFlight, Claims, Passed, TInv, GoodJob, WellFormed, MayBeAt, Removing
<1>2. Held(u) \subseteq Key
  BY <1>1 DEF Held, Awaiting, StagedBy, DiskBy
<1>3. IsFiniteSet(Key)
  BY FS_Interval, StoreAssumption DEF Key
<1>4. IsFiniteSet(Held(u))
  BY <1>2, <1>3, FS_Subset
<1>5. QED  BY <1>2, <1>4, FS_CardinalityType DEF Held

LEMMA HeldCappedStep ==
    ASSUME OneWriter, TInv, Agrees, HeldCapped, [Next]_vars
    PROVE  HeldCapped'
<1>1. SUFFICES ASSUME NEW u \in User PROVE Cardinality(Held(u)') <= MaxStaged
  BY DEF HeldCapped
<1>2. IsFiniteSet(Held(u)) /\ Cardinality(Held(u)) <= MaxStaged /\ MaxStaged \in Int
  BY HeldIs, StoreAssumption DEF HeldCapped
<1>3. ASSUME NEW S, Held(u)' \subseteq S, IsFiniteSet(S), Cardinality(S) <= MaxStaged
      PROVE  Cardinality(Held(u)') <= MaxStaged
  BY <1>2, <1>3, Fewest
<1>4. CASE Held(u)' \subseteq Held(u)
  BY <1>2, <1>3, <1>4
<1>5. ASSUME NEW w \in Worker, Quota(w), job[w].op = "stage", MayStage(u, job[w].key),
             Held(u)' \subseteq Held(u) \cup {job[w].key}
      PROVE  Cardinality(Held(u)') <= MaxStaged
  <2>1. /\ Held(u) \subseteq StagedBy(u)
        /\ job[w].key \in StagedBy(u) => job[w].key \in Held(u)
    BY <1>5, HeldAtQuota DEF Quota
  <2>2. CASE job[w].key \in StagedBy(u)
    BY <1>4, <1>5, <2>1, <2>2
  <2>3. CASE job[w].key \notin StagedBy(u)
    <3> DEFINE S == StagedBy(u) \cup {job[w].key}
    <3>1. Cardinality(StagedBy(u)) < MaxStaged
      BY <1>5, <2>3 DEF MayStage
    <3>2. IsFiniteSet(StagedBy(u)) /\ Cardinality(StagedBy(u)) \in Nat
      BY ClaimedIs
    <3>3. IsFiniteSet(S) /\ Cardinality(S) = Cardinality(StagedBy(u)) + 1
      BY <2>3, <3>2, FS_AddElement
    <3>4. Held(u)' \subseteq S
      BY <1>5, <2>1
    <3>5. Cardinality(S) <= MaxStaged
      BY <1>2, <3>1, <3>2, <3>3
    <3> HIDE DEF S
    <3>6. QED  BY <1>3, <3>3, <3>4, <3>5
  <2>4. QED  BY <2>2, <2>3
<1>6. QED  BY <1>4, <1>5, HeldStep

\* The cap itself, that other requests in progress would overrun.
WithinCap == \A u \in User : Cardinality(Awaiting(u)) <= MaxStaged

\* SubmissionsBounded: of one writer at a time, with reloads and crashes anywhere,
\* no account has more awaiting review than the cap (stage, reload).
THEOREM SubmissionsBoundedAloneHolds ==
    ASSUME Crowd
    PROVE  Spec /\ []OneWriter => [](SubmissionsBounded /\ WithinCap)
<1>1. Cardinality(Worker) \in Nat /\ Cardinality(Worker) # 0
  BY FS_CardinalityType, FS_EmptySet DEF Crowd
<1>2. Init => HeldCapped
  <2> SUFFICES ASSUME Init, NEW u \in User PROVE Cardinality(Held(u)) <= MaxStaged
    BY DEF HeldCapped
  <2>1. InFlight(u) = {}
    BY DEF Init, InFlight, Claims, Passed, Idle
  <2>2. Awaiting(u) = {} /\ DiskBy(u) = {}
    BY DEF Init, Awaiting, StagedBy, DiskBy, FwOf
  <2>3. Held(u) = {}
    BY <2>1, <2>2 DEF Held
  <2>4. QED  BY <2>3, FS_EmptySet, StoreAssumption
<1>3. OneWriter /\ TInv /\ Agrees /\ HeldCapped /\ [Next]_vars => HeldCapped'
  BY HeldCappedStep
<1>4. TInv /\ HeldCapped => SubmissionsBounded /\ WithinCap
  <2> SUFFICES ASSUME TInv, HeldCapped, NEW u \in User
               PROVE  /\ Cardinality(Awaiting(u)) <= MaxStaged + Cardinality(Worker) - 1
                      /\ Cardinality(Awaiting(u)) <= MaxStaged
    BY DEF SubmissionsBounded, WithinCap
  <2>1. MaxStaged \in Int /\ MaxStaged <= MaxStaged + Cardinality(Worker) - 1
    BY <1>1, StoreAssumption
  <2>2. IsFiniteSet(Held(u)) /\ Cardinality(Held(u)) <= MaxStaged /\ Awaiting(u) \subseteq Held(u)
    BY HeldIs DEF HeldCapped
  <2>3. Cardinality(Awaiting(u)) <= MaxStaged
    BY <2>1, <2>2, Fewest
  <2>4. Cardinality(Awaiting(u)) \in Nat
    BY <2>2, FS_Subset, FS_CardinalityType
  <2>5. QED  BY <1>1, <2>1, <2>3, <2>4
<1>5. QED  BY <1>2, <1>3, <1>4, AgreesAlways, PTL DEF Spec

-----------------------------------------------------------------------------
(* The catalogue, implemented one writer at a time *)

LEMMA ManifestExcept ==
    ASSUME NEW dirs \in [Key -> VersionDir \cup {Nil}], NEW k \in Key, NEW d
    PROVE  Manifest([dirs EXCEPT ![k] = d]) = [Manifest(dirs) EXCEPT ![k] = FwOf(d)]
BY DEF Manifest, FwOf

\* The directory a manifest is taken from is a withdrawn submission's; of a
\* directory on the way of a publication there is none to take.
LEMMA UnlinkWithdraws ==
    ASSUME TInv, Agrees, NEW w \in Worker, Unlink(w)
    PROVE  [Catalogue!Next]_(Catalogue!vars)
<1>0. /\ WellFormed(job[w]) /\ JobOne(w) /\ TypeOK /\ job[w].pc = "unlink" /\ Opened(w) # Nil
  BY DEF TInv, GoodJob, Agrees, Unlink
<1>1. /\ job[w].op \in {"stage", "publish", "reject"} /\ job[w].key \in Key
      /\ handle[w] = Target(w) /\ Opened(w) = DirAt(Target(w))
  BY <1>0 DEF WellFormed, MayBeAt, Removing, JobOne, Opened
<1>2. PICK dir \in Fewer(Opened(w)) : SetDir(Target(w), dir)
  BY <1>1 DEF Unlink
<1>3. Opened(w) \in VersionDir /\ dir \in VersionDir /\ dir # Nil
  <2>1. Opened(w) \in VersionDir
    BY <1>0, <1>1 DEF DirAt, Target, TypeOK
  <2>2. QED  BY <1>2, <2>1, FewerType
<1>4. FwOf(dir) \in {FwOf(Opened(w)), Nil}
  BY <1>0, <1>2, <1>3 DEF Fewer, FwOf, VersionDir
<1>5. CASE job[w].op = "publish"
  <2>1. /\ firmware' = [firmware EXCEPT ![job[w].key] = dir] /\ staging' = staging
        /\ Opened(w) = firmware[job[w].key]
    BY <1>1, <1>2, <1>5 DEF SetDir, Target, DirAt
  <2>2. FwOf(dir) = FwOf(firmware[job[w].key])
    BY <1>0, <1>4, <1>5, <2>1 DEF JobOne, Building
  <2>3. Manifest(firmware)' = [Manifest(firmware) EXCEPT ![job[w].key] = FwOf(dir)]
    <3>1. firmware \in [Key -> VersionDir \cup {Nil}]
      BY <1>0 DEF TypeOK
    <3>2. Manifest([firmware EXCEPT ![job[w].key] = dir])
            = [Manifest(firmware) EXCEPT ![job[w].key] = FwOf(dir)]
      BY <1>1, <3>1, ManifestExcept
    <3>3. Manifest(firmware)' = Manifest([firmware EXCEPT ![job[w].key] = dir])
      BY <2>1 DEF Manifest
    <3>4. QED  BY <3>2, <3>3
  <2>4. Manifest(firmware)' = Manifest(firmware)
    <3>1. Manifest(firmware)[job[w].key] = FwOf(dir)
      BY <1>1, <2>2, ManifestIs
    <3>2. QED  BY <1>1, <2>3, <3>1 DEF Manifest
  <2>5. Manifest(staging)' = Manifest(staging)
    BY <2>1 DEF Manifest
  <2>6. QED  BY <2>4, <2>5 DEF Catalogue!vars
<1>6. CASE job[w].op # "publish"
  <2>1. /\ staging' = [staging EXCEPT ![job[w].key] = dir] /\ firmware' = firmware
        /\ Opened(w) = staging[job[w].key]
    BY <1>1, <1>2, <1>6 DEF SetDir, Target, DirAt
  <2>2. Manifest(firmware)' = Manifest(firmware)
    BY <2>1 DEF Manifest
  <2>3. Manifest(staging)' = [Manifest(staging) EXCEPT ![job[w].key] = FwOf(dir)]
    BY <1>0, <1>1, <2>1, ManifestExcept DEF TypeOK
  <2>4. CASE FwOf(dir) = Nil
    <3>1. Catalogue!Withdraw(job[w].key)
      BY <2>2, <2>3, <2>4 DEF Catalogue!Withdraw
    <3>2. QED  BY <1>1, <3>1 DEF Catalogue!Next
  <2>5. CASE FwOf(dir) = FwOf(Opened(w))
    <3>1. Manifest(staging)' = Manifest(staging)
      BY <1>1, <2>1, <2>3, <2>5, ManifestIs DEF Manifest
    <3>2. QED  BY <2>2, <3>1 DEF Catalogue!vars
  <2>6. QED  BY <1>4, <2>4, <2>5
<1>7. QED  BY <1>5, <1>6

\* A path removed or replaced holds no manifest any more; what the rename puts
\* there is the version the request is about, whose coordinates are free.
LEMMA CommitPromises ==
    ASSUME TInv, Agrees, NEW w \in Worker, Rmdir(w) \/ Commit(w)
    PROVE  [Catalogue!Next]_(Catalogue!vars)
<1>0. /\ WellFormed(job[w]) /\ JobOne(w) /\ TypeOK /\ job[w] \in Job
  BY DEF TInv, GoodJob, Agrees, TypeOK
<1>1. CASE UNCHANGED <<firmware, staging>>
  BY <1>1 DEF Catalogue!vars, Manifest
<1>2. ASSUME NEW d, SetDir(Target(w), d), FwOf(d) = FwOf(DirAt(Target(w))), job[w].key \in Key
      PROVE  [Catalogue!Next]_(Catalogue!vars)
  <2>1. /\ firmware' = firmware \/ (/\ firmware' = [firmware EXCEPT ![job[w].key] = d]
                                    /\ FwOf(d) = FwOf(firmware[job[w].key]))
        /\ staging' = staging \/ (/\ staging' = [staging EXCEPT ![job[w].key] = d]
                                  /\ FwOf(d) = FwOf(staging[job[w].key]))
    BY <1>2 DEF SetDir, Target, DirAt
  <2>2. Manifest(firmware)' = Manifest(firmware)
    <3>1. CASE firmware' = firmware
      BY <3>1 DEF Manifest
    <3>2. CASE firmware' = [firmware EXCEPT ![job[w].key] = d] /\ FwOf(d) = FwOf(firmware[job[w].key])
      <4>1. Manifest(firmware)' = [Manifest(firmware) EXCEPT ![job[w].key] = FwOf(d)]
        BY <1>0, <1>2, <3>2, ManifestExcept DEF TypeOK
      <4>2. QED  BY <1>2, <3>2, <4>1, ManifestIs DEF Manifest
    <3>3. QED  BY <2>1, <3>1, <3>2
  <2>3. Manifest(staging)' = Manifest(staging)
    <3>1. CASE staging' = staging
      BY <3>1 DEF Manifest
    <3>2. CASE staging' = [staging EXCEPT ![job[w].key] = d] /\ FwOf(d) = FwOf(staging[job[w].key])
      <4>1. Manifest(staging)' = [Manifest(staging) EXCEPT ![job[w].key] = FwOf(d)]
        BY <1>0, <1>2, <3>2, ManifestExcept DEF TypeOK
      <4>2. QED  BY <1>2, <3>2, <4>1, ManifestIs DEF Manifest
    <3>3. QED  BY <2>1, <3>1, <3>2
  <2>4. QED  BY <2>2, <2>3 DEF Catalogue!vars
<1>3. CASE Rmdir(w) /\ Vacant(DirAt(Target(w)))
  <2>1. job[w].key \in Key /\ SetDir(Target(w), Nil)
    BY <1>0, <1>3 DEF Rmdir, WellFormed, MayBeAt, Removing
  <2>2. FwOf(Nil) = FwOf(DirAt(Target(w)))
    BY <1>3 DEF FwOf, Vacant, Emptied
  <2>3. QED  BY <1>2, <2>1, <2>2
<1>4. CASE Commit(w) /\ Vacant(DirAt(Target(w)))
  <2>1. /\ job[w].op \in {"stage", "publish"} /\ job[w].key \in Key /\ job[w].fw \in Fw
        /\ job[w].pc = "commit"
    BY <1>0, <1>4 DEF WellFormed, MayBeAt, Commit
  <2>2. job[w].key = KeyOf[job[w].fw] /\ Manifest(firmware)[job[w].key] = Nil
    BY <1>0, <2>1, ManifestIs DEF JobOne, Building
  <2>3. PICK d : d = [fw |-> job[w].fw, by |-> job[w].by, files |-> job[w].files]
    OBVIOUS
  <2>4. SetDir(Target(w), d)
    BY <1>4, <2>3 DEF Commit
  <2>5. FwOf(d) = job[w].fw
    <3>1. d \in VersionDir
      BY <1>0, <2>1, <2>3 DEF VersionDir, Job
    <3>2. QED  BY <2>3, <3>1, NilAssumption DEF FwOf
  <2>6. CASE job[w].op = "stage"
    <3>1. staging' = [staging EXCEPT ![job[w].key] = d] /\ firmware' = firmware
      BY <2>4, <2>6 DEF SetDir, Target
    <3>2. Manifest(staging)' = [Manifest(staging) EXCEPT ![job[w].key] = job[w].fw]
      <4>1. Manifest(staging)' = [Manifest(staging) EXCEPT ![job[w].key] = FwOf(d)]
        BY <1>0, <2>1, <3>1, ManifestExcept DEF TypeOK
      <4>2. QED  BY <2>5, <4>1
    <3>3. Manifest(firmware)' = Manifest(firmware)
      BY <3>1 DEF Manifest
    <3>4. Catalogue!Submit(job[w].fw)
      BY <2>2, <3>2, <3>3 DEF Catalogue!Submit
    <3>5. QED  BY <2>1, <3>4 DEF Catalogue!Next
  <2>7. CASE job[w].op = "publish"
    <3>1. firmware' = [firmware EXCEPT ![job[w].key] = d] /\ staging' = staging
      BY <2>4, <2>7 DEF SetDir, Target
    <3>2. Manifest(firmware)' = [Manifest(firmware) EXCEPT ![job[w].key] = job[w].fw]
      <4>1. Manifest(firmware)' = [Manifest(firmware) EXCEPT ![job[w].key] = FwOf(d)]
        BY <1>0, <2>1, <3>1, ManifestExcept DEF TypeOK
      <4>2. QED  BY <2>5, <4>1
    <3>3. Manifest(staging)' = Manifest(staging)
      BY <3>1 DEF Manifest
    <3>4. Catalogue!Publish(job[w].fw)
      BY <2>2, <3>2, <3>3 DEF Catalogue!Publish
    <3>5. QED  BY <2>1, <3>4 DEF Catalogue!Next
  <2>8. QED  BY <2>1, <2>6, <2>7
<1>5. QED  BY <1>1, <1>3, <1>4 DEF Rmdir, Commit

LEMMA RenameApproves ==
    ASSUME TInv, Agrees, NEW w \in Worker, Rename(w)
    PROVE  [Catalogue!Next]_(Catalogue!vars)
<1>0. /\ WellFormed(job[w]) /\ JobOne(w) /\ TypeOK /\ job[w].pc = "rename"
  BY DEF TInv, GoodJob, Agrees, Rename
<1>1. job[w].key \in Key /\ FwOf(staging[job[w].key]) = job[w].fw /\ job[w].fw \in Fw
  BY <1>0 DEF WellFormed, MayBeAt, JobOne
<1>2. CASE UNCHANGED <<firmware, staging>>
  BY <1>2 DEF Catalogue!vars, Manifest
<1>3. CASE staging[job[w].key] # Nil /\ Vacant(firmware[job[w].key])
  <2>1. PICK d : d = [staging[job[w].key] EXCEPT !.by = Nil]
    OBVIOUS
  <2>2. /\ firmware' = [firmware EXCEPT ![job[w].key] = d]
        /\ staging' = [staging EXCEPT ![job[w].key] = Nil]
    BY <1>3, <2>1 DEF Rename
  <2>3. FwOf(d) = job[w].fw
    <3>1. d \in VersionDir /\ staging[job[w].key] \in VersionDir
      BY <1>0, <1>1, <1>3, <2>1 DEF VersionDir, TypeOK
    <3>2. QED  BY <1>1, <1>3, <2>1, <3>1, NilAssumption DEF FwOf, VersionDir
  <2>4. Manifest(firmware)' = [Manifest(firmware) EXCEPT ![job[w].key] = job[w].fw]
    <3>1. Manifest(firmware)' = [Manifest(firmware) EXCEPT ![job[w].key] = FwOf(d)]
      BY <1>0, <1>1, <2>2, ManifestExcept DEF TypeOK
    <3>2. QED  BY <2>3, <3>1
  <2>5. Manifest(staging)' = [Manifest(staging) EXCEPT ![job[w].key] = Nil]
    BY <1>0, <1>1, <2>2, ManifestExcept DEF TypeOK, FwOf
  <2>6. Manifest(staging)[job[w].key] = job[w].fw /\ Manifest(firmware)[job[w].key] = Nil
    BY <1>1, <1>3, ManifestIs DEF Vacant, Emptied, FwOf
  <2>7. Catalogue!Approve(job[w].key)
    BY <1>1, <2>4, <2>5, <2>6, NilAssumption DEF Catalogue!Approve
  <2>8. QED  BY <1>1, <2>7 DEF Catalogue!Next
<1>4. QED  BY <1>2, <1>3 DEF Rename

LEMMA CatalogueNext ==
    ASSUME TInv, Agrees, [Next]_vars
    PROVE  [Catalogue!Next]_(Catalogue!vars)
<1>1. CASE UNCHANGED <<firmware, staging>>
  BY <1>1 DEF Catalogue!vars, Manifest
<1>2. ASSUME NEW w \in Worker, Call(w) \/ Step(w) PROVE [Catalogue!Next]_(Catalogue!vars)
  <2>1. Unlink(w) \/ Rmdir(w) \/ Commit(w) \/ Rename(w) \/ UNCHANGED <<firmware, staging>>
    BY <1>2 DEF Call, Step, PutCheck, Stage, Publish, Validate, Approve, Reject, GcBegin,
        PutWrite, PutIndex, Quota, Lookup, Copy, Replace, Index, SweepOwned, SweepFile,
        SweepEnd, GoLive, RejectCheck, Unstage, GcFile, GcEnd
  <2>2. QED  BY <1>1, <2>1, UnlinkWithdraws, CommitPromises, RenameApproves
<1>3. CASE UNCHANGED vars \/ (\E s \in Sha : Age(s)) \/ ReloadScan \/ ReloadSwap \/ Crash
  BY <1>1, <1>3 DEF vars, Age, ReloadScan, ReloadSwap, Crash
<1>4. QED  BY <1>2, <1>3 DEF Next

\* ImplementsCatalogue: of one writer at a time, every effect on the disk is a
\* step of the catalogue or none (write_version_dir, approve, reject, reload).
THEOREM ImplementsCatalogueHolds ==
    Spec /\ []OneWriter => ImplementsCatalogue
<1>1. Init => Catalogue!Init
  BY DEF Init, Catalogue!Init, Manifest
<1>2. TInv /\ Agrees /\ [Next]_vars => [Catalogue!Next]_(Catalogue!vars)
  BY CatalogueNext
<1>3. QED  BY <1>1, <1>2, AgreesAlways, PTL DEF Spec, ImplementsCatalogue, Catalogue!Spec

-----------------------------------------------------------------------------
(* One request at a time: the bytes *)

\* No manifest gives two blobs one filename.
Distinct ==
    \A m \in Fw : \A i, j \in DOMAIN BlobsOf[m] :
        BlobsOf[m][i][2] = BlobsOf[m][j][2] => BlobsOf[m][i][1] = BlobsOf[m][j][1]

\* The filename a manifest gives a blob is that of an entry of the blob.
LEMMA FileOfIs ==
    ASSUME NEW m \in Fw, NEW s \in Shas(m)
    PROVE  \E i \in DOMAIN BlobsOf[m] : BlobsOf[m][i][1] = s /\ FileOf(m, s) = BlobsOf[m][i][2]
<1> DEFINE at == {i \in DOMAIN BlobsOf[m] : BlobsOf[m][i][1] = s}
<1>1. BlobsOf[m] \in Seq(Sha \X File) /\ Len(BlobsOf[m]) \in Nat
      /\ DOMAIN BlobsOf[m] = 1..Len(BlobsOf[m])
  BY StoreAssumption
<1>2. at # {} /\ at \in SUBSET (0..Len(BlobsOf[m]))
  BY <1>1 DEF Shas
<1>3. \E i \in at : \A j \in at : j <= i
  <2> HIDE DEF at
  <2> QED  BY <1>1, <1>2, GreatestExists
<1>4. PICK l : l = CHOOSE i \in at : \A j \in at : j <= i
  OBVIOUS
<1>5. l \in at
  <2> HIDE DEF at
  <2> QED  BY <1>3, <1>4
<1>6. FileOf(m, s) = BlobsOf[m][l][2]
  BY <1>4 DEF FileOf
<1>7. QED  BY <1>5, <1>6

StagedPath(k, m, s) == [at |-> "staging", key |-> k, file |-> FileOf(m, s)]
LivePath(k, m, s) == [at |-> "firmware", key |-> k, file |-> FileOf(m, s)]

\* Where rebuild_blob_paths sends a digest: to a staged manifest that names it,
\* else to a live one, else to the pool.
LEMMA RebuildIs ==
    ASSUME NEW lv \in [Key -> Fw \cup {Nil}], NEW sg \in [Key -> Entry \cup {Nil}], NEW pool,
           NEW s \in Sha
    PROVE  \/ \E k \in Key : /\ sg[k] # Nil /\ s \in Shas(sg[k].fw)
                             /\ Rebuild(lv, sg, pool)[s] = StagedPath(k, sg[k].fw, s)
           \/ \E k \in Key : /\ lv[k] # Nil /\ s \in Shas(lv[k])
                             /\ Rebuild(lv, sg, pool)[s] = LivePath(k, lv[k], s)
           \/ pool[s] # "absent" /\ Rebuild(lv, sg, pool)[s] = InPool
           \/ pool[s] = "absent" /\ Rebuild(lv, sg, pool)[s] = Nil
<1> DEFINE holders(fws) == {k \in Key : fws[k] # Nil /\ s \in Shas(fws[k])}
           last(fws) == CHOOSE k \in holders(fws) : \A h \in holders(fws) : h <= k
<1>1. ASSUME NEW fws \in [Key -> Fw \cup {Nil}], holders(fws) # {}
      PROVE  last(fws) \in holders(fws)
  <2>1. holders(fws) \in SUBSET (0..NKeys) /\ NKeys \in Nat
    BY StoreAssumption DEF Key
  <2>2. \E k \in holders(fws) : \A h \in holders(fws) : h <= k
    <3> HIDE DEF holders
    <3> QED  BY <1>1, <2>1, GreatestExists
  <2>3. QED
    <3> HIDE DEF holders
    <3> QED  BY <2>2
<1>2. StagedFw(sg) \in [Key -> Fw \cup {Nil}]
  BY DEF StagedFw, Entry
<1>3. CASE holders(StagedFw(sg)) # {}
  <2>1. PICK k : k = last(StagedFw(sg))
    OBVIOUS
  <2>2. k \in holders(StagedFw(sg))
    <3> HIDE DEF holders, last
    <3> QED  BY <1>1, <1>2, <1>3, <2>1
  <2>3. k \in Key /\ sg[k] # Nil /\ s \in Shas(sg[k].fw) /\ StagedFw(sg)[k] = sg[k].fw
    BY <2>2 DEF StagedFw
  <2>4. Rebuild(lv, sg, pool)[s] = [at |-> "staging", key |-> k, file |-> FileOf(StagedFw(sg)[k], s)]
    BY <1>3, <2>1 DEF Rebuild
  <2>5. QED  BY <2>3, <2>4 DEF StagedPath
<1>4. CASE holders(StagedFw(sg)) = {} /\ holders(lv) # {}
  <2>1. PICK k : k = last(lv)
    OBVIOUS
  <2>2. k \in holders(lv)
    <3> HIDE DEF holders, last
    <3> QED  BY <1>1, <1>4, <2>1
  <2>3. k \in Key /\ lv[k] # Nil /\ s \in Shas(lv[k])
    BY <2>2
  <2>4. Rebuild(lv, sg, pool)[s] = [at |-> "firmware", key |-> k, file |-> FileOf(lv[k], s)]
    BY <1>4, <2>1 DEF Rebuild
  <2>5. QED  BY <2>3, <2>4 DEF LivePath
<1>5. CASE holders(StagedFw(sg)) = {} /\ holders(lv) = {}
  BY <1>5 DEF Rebuild
<1>6. QED  BY <1>3, <1>4, <1>5

\* Only the pool's file can make a digest lead to the pool, and only there.
LEMMA RebuildPool ==
    ASSUME NEW lv, NEW sg, NEW old, NEW new, NEW s \in Sha
    PROVE  /\ (old[s] = "absent" <=> new[s] = "absent") =>
                    Rebuild(lv, sg, new)[s] = Rebuild(lv, sg, old)[s]
           /\ new[s] # "absent" =>
                    \/ Rebuild(lv, sg, new)[s] = Rebuild(lv, sg, old)[s]
                    \/ Rebuild(lv, sg, old)[s] = Nil /\ Rebuild(lv, sg, new)[s] = InPool
BY DEF Rebuild

\* Nobody is between an effect on the disk and its effect on the index.
Calm == \A k \in Key : ~ LiveDue(k) /\ ~ StagedDue(k)

LEMMA CalmIs ==
    ASSUME OneRequest, NEW w \in Worker, job[w].pc \notin Dues
    PROVE  Calm /\ \A k \in Key : ~ Clearing(k)
<1>1. \A v \in Worker : v = w
  BY DEF OneRequest
<1>2. QED  BY <1>1 DEF Calm, Dues, LiveDue, StagedDue, Clearing

\* What the index lists is on the disk, with every blob of its manifest.
LEMMA ListedOnDisk ==
    ASSUME TInv, Agrees, Keeps, Calm, \A k \in Key : ~ Clearing(k), NEW k \in Key
    PROVE  /\ staged[k] # Nil => /\ Complete(staging[k]) /\ staging[k].fw = staged[k].fw
                                 /\ staged[k].fw \in Fw
                                 /\ \A i \in DOMAIN BlobsOf[staged[k].fw] :
                                      staging[k].files[BlobsOf[staged[k].fw][i][2]] = BlobsOf[staged[k].fw][i][1]
           /\ live[k] # Nil => /\ Complete(firmware[k]) /\ firmware[k].fw = live[k]
                               /\ live[k] \in Fw
                               /\ \A i \in DOMAIN BlobsOf[live[k]] :
                                    firmware[k].files[BlobsOf[live[k]][i][2]] = BlobsOf[live[k]][i][1]
<1>1. Whole(firmware[k]) /\ Whole(staging[k]) /\ live[k] = FwOf(firmware[k]) /\ StagedIs(k)
  BY DEF Keeps, Agrees, Calm
<1>2. staged[k] # Nil => /\ staged[k].fw \in Fw /\ staged[k] = ScanStaged[k]
  BY <1>1 DEF TInv, TypeOK, Entry, StagedIs
<1>3. staged[k] # Nil => FwOf(staging[k]) = staged[k].fw /\ staged[k].fw \in Fw
  <2>1. SUFFICES ASSUME staged[k] # Nil PROVE FwOf(staging[k]) = staged[k].fw
    BY <1>2
  <2>2. ScanStaged[k] # Nil
    BY <1>2, <2>1
  <2>3. ScanStaged[k] = [fw |-> FwOf(staging[k]), by |-> staging[k].by]
    BY <2>2, ScanStagedIs
  <2>4. QED  BY <1>2, <2>1, <2>3
<1>4. live[k] # Nil => live[k] \in Fw
  BY DEF TInv, TypeOK
<1>5. staged[k] # Nil => Complete(staging[k]) /\ staging[k].fw = staged[k].fw
  BY <1>3, NilAssumption DEF FwOf, Complete
<1>6. live[k] # Nil => Complete(firmware[k]) /\ firmware[k].fw = live[k]
  BY <1>1 DEF FwOf, Complete
<1>7. QED  BY <1>1, <1>3, <1>4, <1>5, <1>6 DEF Whole

\* A digest the index lists can be read where it says.
LEMMA PathServes ==
    ASSUME TInv, Agrees, Keeps, Calm, \A k \in Key : ~ Clearing(k),
           NEW s \in Sha, ~ PathDue(s), paths[s] # Nil
    PROVE  Bytes(paths[s], s) = s
<1>1. paths[s] = Rebuild(live, staged, incoming)[s]
  BY DEF Keeps
<1>2. live \in [Key -> Fw \cup {Nil}] /\ staged \in [Key -> Entry \cup {Nil}]
  BY DEF TInv, TypeOK
<1>3. ASSUME NEW k \in Key, staged[k] # Nil, s \in Shas(staged[k].fw),
             paths[s] = StagedPath(k, staged[k].fw, s)
      PROVE  Bytes(paths[s], s) = s
  <2>1. staged[k].fw \in Fw
    BY <1>3, ListedOnDisk
  <2>2. PICK i \in DOMAIN BlobsOf[staged[k].fw] :
            BlobsOf[staged[k].fw][i][1] = s /\ FileOf(staged[k].fw, s) = BlobsOf[staged[k].fw][i][2]
    BY <1>3, <2>1, FileOfIs
  <2>3. staging[k] # Nil /\ staging[k].files[FileOf(staged[k].fw, s)] = s
    BY <1>3, <2>2, ListedOnDisk DEF Complete
  <2>4. paths[s] # Nil /\ paths[s].at = "staging" /\ paths[s].key = k
        /\ paths[s].file = FileOf(staged[k].fw, s)
    BY <1>3 DEF StagedPath
  <2>5. QED  BY <2>3, <2>4 DEF Bytes
<1>4. ASSUME NEW k \in Key, live[k] # Nil, s \in Shas(live[k]), paths[s] = LivePath(k, live[k], s)
      PROVE  Bytes(paths[s], s) = s
  <2>1. live[k] \in Fw
    BY <1>4, ListedOnDisk
  <2>2. PICK i \in DOMAIN BlobsOf[live[k]] :
            BlobsOf[live[k]][i][1] = s /\ FileOf(live[k], s) = BlobsOf[live[k]][i][2]
    BY <1>4, <2>1, FileOfIs
  <2>3. firmware[k] # Nil /\ firmware[k].files[FileOf(live[k], s)] = s
    BY <1>4, <2>2, ListedOnDisk DEF Complete
  <2>4. paths[s] # Nil /\ paths[s].at = "firmware" /\ paths[s].key = k
        /\ paths[s].file = FileOf(live[k], s)
    BY <1>4 DEF LivePath
  <2>5. QED  BY <2>3, <2>4 DEF Bytes
<1>5. CASE incoming[s] # "absent" /\ paths[s] = InPool
  BY <1>5 DEF Bytes, InPool
<1>6. QED  BY <1>1, <1>2, <1>3, <1>4, <1>5, RebuildIs

\* What a manifest of the index names, or the index has a path for outside the
\* pool, a version directory names.
LEMMA WantedOnDisk ==
    ASSUME TInv, Agrees, Keeps, Calm, \A k \in Key : ~ Clearing(k), NEW s \in Sha
    PROVE  /\ s \in Referenced => OnDisk(s)
           /\ s \in Owned /\ ~ PathDue(s) => OnDisk(s)
<1>1. ASSUME NEW k \in Key, staged[k] # Nil, s \in Shas(staged[k].fw) PROVE OnDisk(s)
  <2>1. FwOf(staging[k]) = staged[k].fw /\ FwOf(staging[k]) # Nil
    BY <1>1, ListedOnDisk DEF Complete, FwOf
  <2>2. QED  BY <1>1, <2>1 DEF OnDisk
<1>2. ASSUME NEW k \in Key, live[k] # Nil, s \in Shas(live[k]) PROVE OnDisk(s)
  <2>1. FwOf(firmware[k]) = live[k] /\ FwOf(firmware[k]) # Nil
    BY <1>2, ListedOnDisk DEF Complete, FwOf
  <2>2. QED  BY <1>2, <2>1 DEF OnDisk
<1>3. s \in Referenced => OnDisk(s)
  BY <1>1, <1>2 DEF Referenced
<1>4. ASSUME s \in Owned, ~ PathDue(s) PROVE OnDisk(s)
  <2>1. paths[s] = Rebuild(live, staged, incoming)[s] /\ paths[s] # Nil /\ paths[s] # InPool
    BY <1>4 DEF Keeps, Owned
  <2>2. live \in [Key -> Fw \cup {Nil}] /\ staged \in [Key -> Entry \cup {Nil}]
    BY DEF TInv, TypeOK
  <2>3. \/ \E k \in Key : staged[k] # Nil /\ s \in Shas(staged[k].fw)
        \/ \E k \in Key : live[k] # Nil /\ s \in Shas(live[k])
    BY <2>1, <2>2, RebuildIs
  <2>4. QED  BY <1>1, <1>2, <2>3
<1>5. QED  BY <1>3, <1>4

\* A version directory has the bytes of what it names.
LEMMA OnDiskHas ==
    ASSUME TInv, Keeps, \A k \in Key : ~ Clearing(k), NEW s \in Sha, OnDisk(s)
    PROVE  \E k \in Key, f \in File : \E d \in {firmware[k], staging[k]} :
                d # Nil /\ d.files[f] = s
<1>0. PICK k \in Key : \E d \in {firmware[k], staging[k]} : FwOf(d) # Nil /\ s \in Shas(FwOf(d))
  BY DEF OnDisk
<1>1. PICK d \in {firmware[k], staging[k]} : FwOf(d) # Nil /\ s \in Shas(FwOf(d))
  BY <1>0
<1>2. Whole(d) /\ Complete(d) /\ d # Nil /\ d.fw = FwOf(d)
  BY <1>1 DEF Keeps, Complete, FwOf
<1>3. d.fw \in Fw
  BY <1>1, <1>2 DEF TInv, TypeOK, VersionDir, Complete
<1>4. PICK i \in DOMAIN BlobsOf[d.fw] : BlobsOf[d.fw][i][1] = s
  BY <1>1, <1>2 DEF Shas
<1>5. BlobsOf[d.fw][i][2] \in File /\ d.files[BlobsOf[d.fw][i][2]] = s
  <2>1. BlobsOf[d.fw] \in Seq(Sha \X File)
    BY <1>3, StoreAssumption
  <2>2. QED  BY <1>2, <1>4, <2>1 DEF Whole
<1>6. QED  BY <1>1, <1>2, <1>5

LEMMA KeepsStays ==
    ASSUME OneRequest, Keeps, NEW w \in Worker, UNCHANGED <<firmware, staging>>,
           job[w].pc # "unlink",
           \A s \in Sha : PathDue(s)' \/ paths'[s] = Rebuild(live', staged', incoming')[s],
           BytesOne(w)'
    PROVE  Keeps'
<1>1. \A v \in Worker : v = w
  BY DEF OneRequest
<1>2. \A k \in Key : Whole(firmware[k]) /\ Whole(staging[k])
  BY <1>1 DEF Keeps, Clearing
<1>3. \A v \in Worker : BytesOne(v)'
  BY <1>1
<1>4. QED  BY <1>2, <1>3 DEF Keeps

LEMMA PathsStay ==
    ASSUME OneRequest, Keeps, NEW w \in Worker, UNCHANGED <<live, staged, paths>>,
           job[w].pc \notin {"put_index", "gc_files", "sweep_file"},
           \A s \in Sha : incoming'[s] = "absent" <=> incoming[s] = "absent"
    PROVE  \A s \in Sha : paths'[s] = Rebuild(live', staged', incoming')[s]
<1>1. \A v \in Worker : v = w
  BY DEF OneRequest
<1>2. \A s \in Sha : ~ PathDue(s)
  BY <1>1 DEF PathDue
<1>3. \A s \in Sha : paths[s] = Rebuild(live, staged, incoming)[s]
  BY <1>2 DEF Keeps
<1>4. \A s \in Sha : Rebuild(live, staged, incoming')[s] = Rebuild(live, staged, incoming)[s]
  BY RebuildPool
<1>5. QED  BY <1>3, <1>4

LEMMA BytesNone ==
    ASSUME NEW w \in Worker,
           \/ job'[w].pc \in {"idle", "put_write", "index", "sweep_owned", "rename", "golive",
                              "check", "unstage"}
           \/ job'[w].pc = "replace" /\ job'[w].op = "reject"
    PROVE  BytesOne(w)'
BY DEF BytesOne

\* put_blob gives a digest the path of its pool file when it has none.
LEMMA PutKeeps ==
    ASSUME OneRequest, TInv, Keeps, NEW w \in Worker,
           (\E s \in Sha : PutCheck(w, s)) \/ PutWrite(w) \/ PutIndex(w)
    PROVE  Keeps'
<1>0. /\ job[w] \in Job /\ WellFormed(job[w]) /\ TypeOK /\ \A v \in Worker : v = w
      /\ BytesOne(w)
  BY DEF TInv, GoodJob, OneRequest, Keeps
<1>1. CASE \E s \in Sha : PutCheck(w, s)
  <2>1. PICK s \in Sha : PutCheck(w, s)
    BY <1>1
  <2>2. /\ UNCHANGED <<firmware, staging, incoming, live, staged, paths>> /\ job[w].pc = "idle"
        /\ job'[w].pc = IF incoming[s] = "absent" THEN "put_write" ELSE "put_index"
        /\ job'[w].sha = s
    BY <1>0, <2>1 DEF PutCheck, Idle, TypeOK
  <2>3. BytesOne(w)'
    BY <2>2 DEF BytesOne
  <2>4. QED  BY <2>2, <2>3, PathsStay, KeepsStays
<1>2. CASE PutWrite(w)
  <2> DEFINE s == job[w].sha
  <2>1. /\ UNCHANGED <<firmware, staging, live, staged, paths>> /\ job[w].pc = "put_write"
        /\ job'[w].pc = "put_index" /\ job'[w].sha = s /\ s \in Sha
        /\ incoming' = [incoming EXCEPT ![s] = "fresh"]
    BY <1>0, <1>2, GotoIs DEF PutWrite, WellFormed, MayBeAt
  <2>2. incoming'[s] = "fresh" /\ \A t \in Sha : t # s => incoming'[t] = incoming[t]
    BY <1>0, <2>1 DEF TypeOK
  <2>3. BytesOne(w)'
    BY <2>1, <2>2 DEF BytesOne
  <2>4. \A t \in Sha : paths[t] = Rebuild(live, staged, incoming)[t]
    <3>1. \A t \in Sha : ~ PathDue(t)
      BY <1>0, <2>1 DEF PathDue
    <3>2. QED  BY <3>1 DEF Keeps
  <2>5. ASSUME NEW t \in Sha PROVE PathDue(t)' \/ paths'[t] = Rebuild(live', staged', incoming')[t]
    <3>1. CASE Rebuild(live, staged, incoming')[t] = Rebuild(live, staged, incoming)[t]
      BY <2>1, <2>4, <3>1
    <3>2. CASE Rebuild(live, staged, incoming')[t] # Rebuild(live, staged, incoming)[t]
      <4>1. t = s
        BY <2>2, <3>2, RebuildPool
      <4>2. Rebuild(live, staged, incoming)[t] = Nil /\ Rebuild(live, staged, incoming')[t] = InPool
        BY <2>2, <3>2, <4>1, RebuildPool
      <4>3. paths'[t] = Nil /\ Rebuild(live', staged', incoming')[t] = InPool
        BY <2>1, <2>4, <4>2
      <4>4. QED  BY <2>1, <4>1, <4>3 DEF PathDue
    <3>3. QED  BY <3>1, <3>2
  <2>6. QED  BY <2>1, <2>3, <2>5, KeepsStays
<1>3. CASE PutIndex(w)
  <2> DEFINE s == job[w].sha
  <2>1. /\ UNCHANGED <<firmware, staging, live, staged, incoming>> /\ job[w].pc = "put_index"
        /\ job'[w].pc = "idle" /\ s \in Sha /\ incoming[s] # "absent"
        /\ paths' = [paths EXCEPT ![s] = IF @ = Nil THEN InPool ELSE @]
    BY <1>0, <1>3, ReturnIs DEF PutIndex, WellFormed, MayBeAt, BytesOne
  <2>2. paths'[s] = (IF paths[s] = Nil THEN InPool ELSE paths[s])
        /\ \A t \in Sha : t # s => paths'[t] = paths[t]
    BY <1>0, <2>1 DEF TypeOK
  <2>3. \A t \in Sha : t # s => paths[t] = Rebuild(live, staged, incoming)[t]
    <3>1. \A t \in Sha : t # s => ~ PathDue(t)
      BY <1>0, <2>1 DEF PathDue
    <3>2. QED  BY <3>1 DEF Keeps
  <2>4. paths'[s] = Rebuild(live, staged, incoming)[s]
    <3>1. CASE PathDue(s)
      <4>1. paths[s] = Nil /\ Rebuild(live, staged, incoming)[s] = InPool
        BY <1>0, <2>1, <3>1 DEF PathDue
      <4>2. QED  BY <2>2, <4>1
    <3>2. CASE ~ PathDue(s)
      <4>1. paths[s] = Rebuild(live, staged, incoming)[s]
        BY <2>1, <3>2 DEF Keeps
      <4>2. Rebuild(live, staged, incoming)[s] # Nil
        <5>1. live \in [Key -> Fw \cup {Nil}] /\ staged \in [Key -> Entry \cup {Nil}]
          BY <1>0 DEF TypeOK
        <5>2. InPool # Nil
          BY NilAssumption DEF Path
        <5>3. ASSUME NEW k \in Key, NEW m \in Fw, s \in Shas(m)
              PROVE  StagedPath(k, m, s) # Nil /\ LivePath(k, m, s) # Nil
          <6>1. FileOf(m, s) \in File
            BY <5>3, FileOfType
          <6>2. StagedPath(k, m, s) \in Path /\ LivePath(k, m, s) \in Path
            BY <6>1 DEF StagedPath, LivePath, Path
          <6>3. QED  BY <6>2, NilAssumption
        <5>4. \A k \in Key : (staged[k] # Nil => staged[k].fw \in Fw) /\ (live[k] # Nil => live[k] \in Fw)
          BY <5>1 DEF Entry
        <5>5. QED  BY <2>1, <5>1, <5>2, <5>3, <5>4, RebuildIs
      <4>3. QED  BY <2>2, <4>1, <4>2
    <3>3. QED  BY <3>1, <3>2
  <2>5. \A t \in Sha : paths'[t] = Rebuild(live', staged', incoming')[t]
    BY <2>1, <2>2, <2>3, <2>4
  <2>6. BytesOne(w)'
    BY <2>1, BytesNone
  <2>7. QED  BY <2>1, <2>5, <2>6, KeepsStays
<1>4. QED  BY <1>1, <1>2, <1>3

\* The build copies every blob whole.
LEMMA BuildKeeps ==
    ASSUME OneRequest, Distinct, TInv, Agrees, Keeps, NEW w \in Worker,
           \/ \E m \in Fw, u \in User : Stage(w, m, u)
           \/ \E m \in Fw : Publish(w, m)
           \/ Quota(w) \/ Lookup(w) \/ Copy(w) \/ Replace(w)
    PROVE  Keeps'
<1>0. /\ job[w] \in Job /\ WellFormed(job[w]) /\ TypeOK /\ \A v \in Worker : v = w
      /\ BytesOne(w)
  BY DEF TInv, GoodJob, OneRequest, Keeps
<1>1. /\ UNCHANGED <<firmware, staging, incoming, live, staged, paths>>
      /\ job[w].pc \in {"idle", "quota", "lookup", "copy", "replace"}
  BY DEF Stage, Publish, Validate, Quota, Lookup, Copy, Replace
<1>2. \A m \in Fw : /\ BlobsOf[m] \in Seq(Sha \X File) /\ Len(BlobsOf[m]) \in Nat
                    /\ DOMAIN BlobsOf[m] = 1..Len(BlobsOf[m])
  BY StoreAssumption
<1>3. SUFFICES BytesOne(w)'
  BY <1>1, PathsStay, KeepsStays
<1>4. ASSUME NEW op, NEW m \in Fw, NEW u, Validate(w, op, m, u) PROVE BytesOne(w)'
  <2>1. job'[w].pc \in {"quota", "lookup"} /\ job'[w].fw = m /\ job'[w].n = 1
    BY <1>0, <1>4 DEF Validate, Idle, TypeOK
  <2>2. Built(w, job[w].n)'
    BY <1>2, <2>1 DEF Built
  <2>3. QED  BY <2>1, <2>2 DEF BytesOne
<1>5. CASE Quota(w)
  <2>1. CASE Goto(w, "lookup")
    <3>1. job'[w].pc = "lookup" /\ job[w].pc = "quota"
      BY <1>5, <2>1, GotoIs DEF Quota, At
    <3>2. job'[w].n = job[w].n /\ job'[w].fw = job[w].fw /\ job'[w].files = job[w].files
      BY <2>1, GotoIs
    <3>3. Built(w, job[w].n)
      BY <1>0, <3>1 DEF BytesOne
    <3>4. Built(w, job[w].n)'
      BY <3>2, <3>3 DEF Built
    <3>5. QED  BY <3>1, <3>4 DEF BytesOne
  <2>2. CASE Return(w)
    BY <2>2, ReturnIs, BytesNone
  <2>3. QED  BY <1>5, <2>1, <2>2 DEF Quota
<1>6. CASE Lookup(w)
  <2>1. CASE Return(w)
    BY <2>1, ReturnIs, BytesNone
  <2>2. CASE job' = [job EXCEPT ![w].src = paths[Blob(w)[1]], ![w].pc = "copy"] /\ paths[Blob(w)[1]] # Nil
    <3>1. /\ job'[w].pc = "copy" /\ job'[w].fw = job[w].fw /\ job'[w].n = job[w].n
          /\ job'[w].files = job[w].files /\ job'[w].src = paths[Blob(w)[1]]
          /\ job[w].pc = "lookup"
      BY <1>0, <1>6, <2>2 DEF TypeOK, Job, Lookup
    <3>2. job[w].fw \in Fw /\ job[w].n \in 1..Len(BlobsOf[job[w].fw])
      BY <1>0, <3>1 DEF WellFormed, MayBeAt
    <3>3. Blob(w)[1] \in Sha /\ Blob(w)' = Blob(w)
      BY <1>2, <3>1, <3>2 DEF Blob
    <3>4. Calm /\ \A k \in Key : ~ Clearing(k)
      BY <3>1, CalmIs DEF Dues
    <3>5. ~ PathDue(Blob(w)[1])
      BY <1>0, <3>1 DEF PathDue
    <3>6. Bytes(paths[Blob(w)[1]], Blob(w)[1]) = Blob(w)[1]
      BY <2>2, <3>3, <3>4, <3>5, PathServes
    <3>7. Bytes(job[w].src, Blob(w)[1])' = Blob(w)[1]
      BY <1>1, <3>1, <3>3, <3>6 DEF Bytes
    <3>8. Built(w, job[w].n) /\ Built(w, job[w].n)'
      BY <1>0, <3>1 DEF BytesOne, Built
    <3>9. QED  BY <3>1, <3>3, <3>7, <3>8 DEF BytesOne
  <2>3. QED  BY <1>6, <2>1, <2>2 DEF Lookup
<1>7. CASE Copy(w)
  <2>1. CASE Return(w)
    BY <2>1, ReturnIs, BytesNone
  <2>2. CASE ~ Return(w)
    <3> DEFINE last == job[w].n = Len(BlobsOf[job[w].fw])
    <3>1. /\ job[w].pc = "copy" /\ Bytes(job[w].src, Blob(w)[1]) = Blob(w)[1]
          /\ Built(w, job[w].n)
      BY <1>0, <1>7 DEF Copy, BytesOne
    <3>2. job[w].fw \in Fw /\ job[w].n \in 1..Len(BlobsOf[job[w].fw]) /\ job[w].op # "reject"
      BY <1>0, <3>1 DEF WellFormed, MayBeAt
    <3>3. job' = [job EXCEPT ![w].files[Blob(w)[2]] = Blob(w)[1],
                             ![w].src = Nil,
                             ![w].n = IF last THEN 0 ELSE @ + 1,
                             ![w].pc = IF last THEN "replace" ELSE "lookup"]
      BY <1>7, <2>2, <3>1 DEF Copy
    <3>4. /\ job'[w].pc = (IF last THEN "replace" ELSE "lookup") /\ job'[w].fw = job[w].fw
          /\ job'[w].files = [job[w].files EXCEPT ![Blob(w)[2]] = Blob(w)[1]]
          /\ job'[w].n = (IF last THEN 0 ELSE job[w].n + 1)
      BY <1>0, <3>3 DEF TypeOK, Job
    <3>5. job[w].files \in [File -> Sha \cup {Nil}]
      BY <1>0 DEF Job
    <3>6. ASSUME NEW i \in DOMAIN BlobsOf[job[w].fw], i < job[w].n + 1
          PROVE  job'[w].files[BlobsOf[job[w].fw][i][2]] = BlobsOf[job[w].fw][i][1]
      <4>1. BlobsOf[job[w].fw][i][2] \in File
        BY <1>2, <3>2
      <4>2. CASE BlobsOf[job[w].fw][i][2] = Blob(w)[2]
        <5>1. BlobsOf[job[w].fw][i][1] = Blob(w)[1]
          BY <1>2, <3>2, <4>2 DEF Distinct, Blob
        <5>2. QED  BY <3>4, <3>5, <4>1, <4>2, <5>1
      <4>3. CASE BlobsOf[job[w].fw][i][2] # Blob(w)[2]
        <5>1. i # job[w].n
          BY <4>3 DEF Blob
        <5>2. i < job[w].n
          BY <1>2, <3>2, <3>6, <5>1
        <5>3. job[w].files[BlobsOf[job[w].fw][i][2]] = BlobsOf[job[w].fw][i][1]
          BY <3>1, <5>2 DEF Built
        <5>4. QED  BY <3>4, <3>5, <4>1, <4>3, <5>3
      <4>4. QED  BY <4>2, <4>3
    <3>7. CASE last
      <4>1. Built(w, Len(BlobsOf[job[w].fw]) + 1)'
        BY <3>4, <3>6, <3>7 DEF Built
      <4>2. QED  BY <3>4, <3>7, <4>1 DEF BytesOne
    <3>8. CASE ~ last
      <4>1. Built(w, job[w].n)'
        BY <3>4, <3>6, <3>8 DEF Built
      <4>2. QED  BY <3>4, <3>8, <4>1 DEF BytesOne
    <3>9. QED  BY <3>7, <3>8
  <2>3. QED  BY <2>1, <2>2
<1>8. CASE Replace(w)
  <2>1. job[w].pc = "replace" /\ (Goto(w, AfterRemoval(w)) \/ Goto(w, "unlink"))
    BY <1>8 DEF Replace
  <2>2. /\ job'[w].pc \in {"unlink", "commit", "unstage"} /\ job'[w].op = job[w].op
        /\ job'[w].fw = job[w].fw /\ job'[w].files = job[w].files
    BY <2>1, GotoIs DEF AfterRemoval
  <2>3. QED  BY <1>0, <2>1, <2>2 DEF BytesOne, Built
<1>9. QED  BY <1>4, <1>5, <1>6, <1>7, <1>8 DEF Stage, Publish

\* A directory loses its blobs only under a removal; the two renames carry them.
LEMMA DiskKeeps ==
    ASSUME OneRequest, TInv, Agrees, Keeps, NEW w \in Worker,
           Unlink(w) \/ Rmdir(w) \/ Commit(w) \/ Rename(w)
    PROVE  Keeps'
<1>0. /\ job[w] \in Job /\ WellFormed(job[w]) /\ TypeOK /\ \A v \in Worker : v = w
      /\ BytesOne(w) /\ JobOne(w)
      /\ job[w].pc \in {"unlink", "commit", "rename"} /\ UNCHANGED <<incoming, live, staged, paths>>
  BY DEF TInv, GoodJob, OneRequest, Keeps, Agrees, Unlink, Rmdir, Commit, Rename
<1>1. \A s \in Sha : paths'[s] = Rebuild(live', staged', incoming')[s]
  BY <1>0, PathsStay
<1>2. job[w].key \in Key
  BY <1>0 DEF WellFormed, MayBeAt, Removing
<1>3. \A k \in Key : Whole(firmware[k]) /\ (Clearing(k) \/ Whole(staging[k]))
  BY DEF Keeps
<1>4. SUFFICES /\ BytesOne(w)'
               /\ \A k \in Key : Whole(firmware'[k]) /\ (Clearing(k)' \/ Whole(staging'[k]))
  <2>1. \A v \in Worker : BytesOne(v)'
    BY <1>0, <1>4
  <2>2. QED  BY <1>1, <1>4, <2>1 DEF Keeps
<1>5. CASE Unlink(w)
  <2>1. job' = job /\ job[w].pc = "unlink" /\ \A k \in Key : Clearing(k)' <=> Clearing(k)
    BY <1>5 DEF Unlink, Clearing
  <2>2. BytesOne(w)'
    BY <1>0, <2>1 DEF BytesOne, Built
  <2>3. /\ job[w].op \in {"stage", "publish", "reject"}
        /\ handle[w] = Target(w) /\ Opened(w) = DirAt(Target(w)) /\ Opened(w) # Nil
    BY <1>0, <1>5, <2>1 DEF WellFormed, MayBeAt, Removing, JobOne, Opened, Unlink
  <2>4. PICK dir \in Fewer(Opened(w)) : SetDir(Target(w), dir)
    BY <1>5, <2>3 DEF Unlink
  <2>5. CASE job[w].op = "publish"
    <3>1. /\ firmware' = [firmware EXCEPT ![job[w].key] = dir] /\ staging' = staging
          /\ Opened(w) = firmware[job[w].key]
      BY <2>3, <2>4, <2>5 DEF SetDir, Target, DirAt
    <3>2. Opened(w) \in VersionDir /\ Opened(w).fw = Nil
      BY <1>0, <1>2, <2>1, <2>3, <2>5, <3>1 DEF JobOne, Building, FwOf, TypeOK
    <3>3. dir.fw = Nil
      BY <2>4, <3>2 DEF Fewer, VersionDir
    <3>4. Whole(dir)
      BY <3>3 DEF Whole, Complete
    <3>5. QED  BY <1>0, <1>2, <1>3, <2>1, <2>2, <3>1, <3>4 DEF TypeOK
  <2>6. CASE job[w].op # "publish"
    <3>1. staging' = [staging EXCEPT ![job[w].key] = dir] /\ firmware' = firmware
      BY <2>3, <2>4, <2>6 DEF SetDir, Target
    <3>2. \A k \in Key : k = job[w].key => Clearing(k)
      BY <2>1, <2>6 DEF Clearing
    <3>3. \A k \in Key : k # job[w].key => staging'[k] = staging[k]
      BY <1>0, <3>1 DEF TypeOK
    <3>4. QED  BY <1>3, <2>1, <2>2, <3>1, <3>2, <3>3
  <2>7. QED  BY <2>5, <2>6
<1>6. CASE Rmdir(w)
  <2>1. job[w].pc = "unlink" /\ handle[w] = Target(w) /\ Target(w) # Nil
    <3>1. job[w].op \in {"stage", "publish", "reject"} /\ job[w].pc = "unlink" /\ handle[w] = Target(w)
      BY <1>0, <1>6 DEF WellFormed, MayBeAt, Removing, JobOne, Rmdir
    <3>2. Target(w) \in Place
      BY <1>2 DEF Target, Place
    <3>3. QED  BY <3>1, <3>2, NilAssumption
  <2>2. SetDir(Target(w), Nil) /\ Goto(w, AfterRemoval(w))
    BY <1>6, <2>1 DEF Rmdir, Opened
  <2>3. /\ job'[w].pc \in {"commit", "unstage"} /\ job'[w].op = job[w].op
        /\ job'[w].fw = job[w].fw /\ job'[w].files = job[w].files
        /\ job'[w].pc = "commit" => job[w].op # "reject"
    <3>1. /\ job'[w].pc = AfterRemoval(w) /\ job'[w].op = job[w].op
          /\ job'[w].fw = job[w].fw /\ job'[w].files = job[w].files
      BY <2>2, GotoIs
    <3>2. QED  BY <3>1 DEF AfterRemoval
  <2>4. BytesOne(w)'
    BY <1>0, <2>1, <2>3 DEF BytesOne, Built
  <2>5. Whole(Nil)
    BY DEF Whole, Complete
  <2>6. \A k \in Key : firmware'[k] \in {firmware[k], Nil}
    BY <1>0, <1>2, <2>2 DEF SetDir, TypeOK, Target
  <2>7. ASSUME NEW k \in Key PROVE Whole(staging'[k])
    <3>1. CASE job[w].op # "publish" /\ k = job[w].key
      <4>1. staging' = [staging EXCEPT ![job[w].key] = Nil]
        BY <2>2, <3>1 DEF SetDir, Target
      <4>2. QED  BY <1>0, <1>2, <2>5, <3>1, <4>1 DEF TypeOK
    <3>2. CASE ~ (job[w].op # "publish" /\ k = job[w].key)
      <4>1. staging'[k] = staging[k]
        BY <1>0, <1>2, <2>2, <3>2 DEF SetDir, Target, TypeOK
      <4>2. ~ Clearing(k)
        BY <1>0, <3>2 DEF Clearing
      <4>3. QED  BY <1>3, <4>1, <4>2
    <3>3. QED  BY <3>1, <3>2
  <2>8. QED  BY <1>3, <2>4, <2>5, <2>6, <2>7
<1>7. \A k \in Key : job[w].pc # "unlink" => Whole(staging[k])
  BY <1>0, <1>3 DEF Clearing
<1>8. CASE Commit(w)
  <2>1. job[w].pc = "commit" /\ job[w].op \in {"stage", "publish"} /\ job[w].fw \in Fw
        /\ DirAt(Target(w)) = Nil /\ Built(w, Len(BlobsOf[job[w].fw]) + 1)
    BY <1>0, <1>8 DEF Commit, WellFormed, MayBeAt, JobOne, BytesOne
  <2>2. PICK d : d = [fw |-> job[w].fw, by |-> job[w].by, files |-> job[w].files]
    OBVIOUS
  <2>3. /\ SetDir(Target(w), d) /\ job' = [job EXCEPT ![w].pc = "index", ![w].files = NoFiles]
    BY <1>8, <2>1, <2>2 DEF Commit, Vacant
  <2>4. job'[w].pc = "index"
    BY <1>0, <2>3 DEF TypeOK, Job
  <2>5. BytesOne(w)'
    BY <2>4, BytesNone
  <2>6. Whole(d)
    <3>1. \A i \in DOMAIN BlobsOf[job[w].fw] : i < Len(BlobsOf[job[w].fw]) + 1
      <4>1. BlobsOf[job[w].fw] \in Seq(Sha \X File)
        BY <2>1, StoreAssumption
      <4>2. QED  BY <4>1
    <3>2. d.fw = job[w].fw /\ d.files = job[w].files
      BY <2>2
    <3>3. QED  BY <2>1, <3>1, <3>2 DEF Whole, Built
  <2>7. \A k \in Key : firmware'[k] \in {firmware[k], d} /\ staging'[k] \in {staging[k], d}
    BY <1>0, <1>2, <2>3 DEF SetDir, TypeOK, Target
  <2>8. QED  BY <1>3, <1>7, <2>1, <2>5, <2>6, <2>7
<1>9. CASE Rename(w)
  <2>1. job[w].pc = "rename"
    BY <1>9 DEF Rename
  <2>2. CASE Return(w) /\ UNCHANGED <<firmware, staging>>
    <3>1. BytesOne(w)'
      BY <2>2, ReturnIs, BytesNone
    <3>2. QED  BY <1>3, <1>7, <2>1, <2>2, <3>1
  <2>3. CASE ~ (Return(w) /\ UNCHANGED <<firmware, staging>>)
    <3>1. PICK d : d = [staging[job[w].key] EXCEPT !.by = Nil]
      OBVIOUS
    <3>2. /\ firmware' = [firmware EXCEPT ![job[w].key] = d]
          /\ staging' = [staging EXCEPT ![job[w].key] = Nil]
          /\ staging[job[w].key] # Nil /\ Goto(w, "golive")
      BY <1>9, <2>3, <3>1 DEF Rename
    <3>3. staging[job[w].key] \in VersionDir
      BY <1>0, <1>2, <3>2 DEF TypeOK
    <3>4. d.fw = staging[job[w].key].fw /\ d.files = staging[job[w].key].files /\ d # Nil
      <4>1. d \in VersionDir
        BY <3>1, <3>3 DEF VersionDir
      <4>2. QED  BY <3>1, <3>3, <4>1, NilAssumption DEF VersionDir
    <3>5. Whole(d) /\ Whole(Nil)
      BY <1>2, <1>7, <2>1, <3>2, <3>4 DEF Whole, Complete
    <3>6. BytesOne(w)'
      <4>1. job'[w].pc = "golive"
        BY <3>2, GotoIs
      <4>2. QED  BY <4>1, BytesNone
    <3>7. \A k \in Key : firmware'[k] \in {firmware[k], d} /\ staging'[k] \in {staging[k], Nil}
      BY <1>0, <1>2, <3>2 DEF TypeOK
    <3>8. QED  BY <1>3, <1>7, <2>1, <3>5, <3>6, <3>7
  <2>4. QED  BY <2>2, <2>3
<1>10. QED  BY <1>5, <1>6, <1>8, <1>9

\* Every change of the index rebuilds the paths.
LEMMA IndexKeeps ==
    ASSUME OneRequest, TInv, Keeps, NEW w \in Worker,
           Index(w) \/ SweepEnd(w) \/ GoLive(w) \/ Unstage(w)
    PROVE  Keeps'
<1>0. job[w] \in Job /\ WellFormed(job[w]) /\ TypeOK
  BY DEF TInv, GoodJob
<1>1. /\ UNCHANGED <<firmware, staging, incoming>> /\ job[w].pc # "unlink"
      /\ paths' = Rebuild(live', staged', incoming')
  BY DEF Index, SweepEnd, GoLive, Unstage
<1>2. job'[w].pc \in {"idle", "sweep_owned"}
  BY <1>0, ReturnIs DEF Index, SweepEnd, GoLive, Unstage, Idle, TypeOK
<1>3. QED  BY <1>1, <1>2, BytesNone, KeepsStays

\* What a pass unlinks from the pool has its path rebuilt at the end of it.
LEMMA SweepKeeps ==
    ASSUME OneRequest, TInv, Agrees, Keeps, NEW w \in Worker,
           SweepOwned(w) \/ SweepFile(w) \/ GcBegin(w) \/ GcFile(w) \/ GcEnd(w)
    PROVE  Keeps'
<1>0. /\ job[w] \in Job /\ WellFormed(job[w]) /\ TypeOK /\ \A v \in Worker : v = w
      /\ BytesOne(w)
  BY DEF TInv, GoodJob, OneRequest, Keeps
<1>1. /\ UNCHANGED <<firmware, staging, live, staged>>
      /\ job[w].pc \in {"sweep_owned", "sweep_file", "idle", "gc_files"}
  BY DEF SweepOwned, SweepFile, GcBegin, GcFile, GcEnd
<1>2. CASE SweepOwned(w)
  <2>1. /\ job[w].pc = "sweep_owned" /\ job'[w].pc = "sweep_file" /\ job'[w].shas = Owned
        /\ UNCHANGED <<paths, incoming>>
    BY <1>0, <1>2 DEF SweepOwned, TypeOK, Job
  <2>2. Calm /\ (\A k \in Key : ~ Clearing(k)) /\ \A s \in Sha : ~ PathDue(s)
    BY <1>0, <2>1, CalmIs DEF Dues, PathDue
  <2>3. \A s \in Owned : OnDisk(s)
    BY <2>2, WantedOnDisk DEF Owned
  <2>4. \A s \in job'[w].shas : OnDisk(s)'
    BY <1>1, <2>1, <2>3 DEF OnDisk
  <2>5. BytesOne(w)'
    BY <2>1, <2>4 DEF BytesOne
  <2>6. QED  BY <1>1, <2>1, <2>5, PathsStay, KeepsStays
<1>3. CASE SweepFile(w)
  <2>1. job[w].pc = "sweep_file" /\ job'[w].pc = "sweep_file" /\ job'[w].shas \subseteq job[w].shas
    BY <1>0, <1>3 DEF SweepFile, TypeOK, Job
  <2>2. \A s \in job'[w].shas : OnDisk(s)'
    BY <1>0, <1>1, <2>1 DEF OnDisk, BytesOne
  <2>3. BytesOne(w)'
    BY <2>1, <2>2 DEF BytesOne
  <2>4. \A s \in Sha : PathDue(s)'
    BY <2>1 DEF PathDue
  <2>5. QED  BY <1>1, <2>1, <2>3, <2>4, KeepsStays
<1>4. CASE GcBegin(w)
  <2>1. /\ job[w].pc = "idle" /\ job'[w].pc = "gc_files" /\ job'[w].n = 0
        /\ UNCHANGED <<paths, incoming>>
    BY <1>0, <1>4 DEF GcBegin, Idle, TypeOK
  <2>2. BytesOne(w)'
    BY <2>1 DEF BytesOne
  <2>3. QED  BY <1>1, <2>1, <2>2, PathsStay, KeepsStays
<1>5. CASE GcFile(w)
  <2>1. job[w].pc = "gc_files" /\ job'[w].pc = "gc_files" /\ job'[w].n = 1
    <3>1. PICK s \in job[w].shas :
              job' = [job EXCEPT ![w].shas = job[w].shas \ {s}, ![w].n = 1]
      BY <1>5 DEF GcFile
    <3>2. job'[w] = [job[w] EXCEPT !.shas = job[w].shas \ {s}, !.n = 1]
      BY <1>0, <3>1 DEF TypeOK
    <3>3. job[w].pc = "gc_files"
      BY <1>5 DEF GcFile
    <3>4. QED  BY <1>0, <3>2, <3>3 DEF Job
  <2>2. BytesOne(w)'
    BY <2>1 DEF BytesOne
  <2>3. \A s \in Sha : PathDue(s)'
    BY <2>1 DEF PathDue
  <2>4. QED  BY <1>1, <2>1, <2>2, <2>3, KeepsStays
<1>6. CASE GcEnd(w)
  <2>1. /\ job[w].pc = "gc_files" /\ job'[w].pc = "idle" /\ incoming' = incoming
        /\ job[w].n \in {0, 1}
    BY <1>0, <1>6, ReturnIs DEF GcEnd, BytesOne
  <2>2. BytesOne(w)'
    BY <2>1, BytesNone
  <2>3. \A s \in Sha : paths'[s] = Rebuild(live', staged', incoming')[s]
    <3>1. CASE job[w].n = 0
      <4>1. \A s \in Sha : ~ PathDue(s)
        BY <1>0, <2>1, <3>1 DEF PathDue
      <4>2. QED  BY <1>1, <1>6, <2>1, <3>1, <4>1 DEF Keeps, GcEnd
    <3>2. CASE job[w].n # 0
      BY <1>1, <1>6, <2>1, <3>2 DEF GcEnd
    <3>3. QED  BY <3>1, <3>2
  <2>4. QED  BY <1>1, <2>1, <2>2, <2>3, KeepsStays
<1>7. QED  BY <1>2, <1>3, <1>4, <1>5, <1>6

LEMMA DecideKeeps ==
    ASSUME OneRequest, TInv, Keeps, NEW w \in Worker,
           (\E k \in Key : Approve(w, k) \/ Reject(w, k)) \/ RejectCheck(w)
    PROVE  Keeps'
<1>0. job[w] \in Job /\ WellFormed(job[w]) /\ TypeOK
  BY DEF TInv, GoodJob
<1>1. /\ UNCHANGED <<firmware, staging, incoming, live, staged, paths>>
      /\ job[w].pc \in {"idle", "check"}
  BY DEF Approve, Reject, RejectCheck
<1>2. ASSUME NEW k \in Key, Approve(w, k) PROVE job'[w].pc \in {"check", "rename"}
  <2>1. CASE live[k] # Nil
    BY <1>0, <1>2, <2>1 DEF Approve, Idle, TypeOK
  <2>2. CASE live[k] = Nil
    BY <1>0, <1>2, <2>2 DEF Approve, Idle, TypeOK
  <2>3. QED  BY <2>1, <2>2
<1>3. ASSUME NEW k \in Key, Reject(w, k) PROVE job'[w].pc = "replace" /\ job'[w].op = "reject"
  BY <1>0, <1>3 DEF Reject, Idle, TypeOK
<1>4. ASSUME RejectCheck(w)
      PROVE  job'[w].pc = "idle" \/ (job'[w].pc = "replace" /\ job'[w].op = "reject")
  <2>1. job[w].op = "reject"
    BY <1>0, <1>4 DEF RejectCheck, WellFormed, MayBeAt
  <2>2. QED  BY <1>4, <2>1, GotoIs, ReturnIs DEF RejectCheck
<1>5. BytesOne(w)'
  BY <1>2, <1>3, <1>4, BytesNone
<1>6. QED  BY <1>1, <1>5, PathsStay, KeepsStays

\* The reload rebuilds the paths; a day changes no path.
LEMMA RestKeeps ==
    ASSUME OneRequest, TInv, Keeps,
           (\E s \in Sha : Age(s)) \/ ReloadScan \/ ReloadSwap \/ UNCHANGED vars
    PROVE  Keeps'
<1>1. UNCHANGED <<firmware, staging, job>>
  BY DEF Age, ReloadScan, ReloadSwap, vars
<1>2. \A s \in Sha : incoming'[s] = "absent" <=> incoming[s] = "absent"
  BY DEF Age, ReloadScan, ReloadSwap, vars, TInv, TypeOK
<1>3. \A k \in Key : Clearing(k)' <=> Clearing(k)
  BY <1>1 DEF Clearing
<1>4. ASSUME NEW w \in Worker PROVE BytesOne(w)'
  <2>1. BytesOne(w) /\ job[w] \in GoodJob
    BY DEF Keeps, TInv
  <2>2. \A s \in Sha : OnDisk(s)' <=> OnDisk(s)
    BY <1>1 DEF OnDisk
  <2>3. \A n : Built(w, n)' <=> Built(w, n)
    BY <1>1 DEF Built
  <2>4. job[w].pc = "put_index" => job[w].sha \in Sha
    BY <2>1 DEF GoodJob, WellFormed, MayBeAt
  <2>5. job[w].pc = "copy" => Bytes(job[w].src, Blob(w)[1])' = Bytes(job[w].src, Blob(w)[1])
    <3>1. SUFFICES ASSUME job[w].pc = "copy"
                   PROVE  Bytes(job[w].src, Blob(w)[1])' = Bytes(job[w].src, Blob(w)[1])
      OBVIOUS
    <3>2. job[w].fw \in Fw /\ job[w].n \in 1..Len(BlobsOf[job[w].fw])
      BY <2>1, <3>1 DEF GoodJob, WellFormed, MayBeAt
    <3>3. Blob(w)[1] \in Sha /\ Blob(w)' = Blob(w)
      BY <1>1, <3>2, StoreAssumption DEF Blob
    <3>4. QED  BY <1>1, <1>2, <3>3 DEF Bytes
  <2>6. job[w].shas \subseteq Sha /\ job[w].n \in Nat
    BY <2>1 DEF GoodJob, Job
  <2>7. Blob(w)' = Blob(w) /\ job'[w] = job[w]
    BY <1>1 DEF Blob
  <2>8. Built(w, job[w].n)' <=> Built(w, job[w].n)
    BY <1>1 DEF Built
  <2>9. Built(w, Len(BlobsOf[job[w].fw]) + 1)' <=> Built(w, Len(BlobsOf[job[w].fw]) + 1)
    BY <1>1 DEF Built
  <2>10. QED  BY <1>2, <2>1, <2>2, <2>4, <2>5, <2>6, <2>7, <2>8, <2>9 DEF BytesOne
<1>5. ASSUME NEW s \in Sha
      PROVE  PathDue(s)' \/ paths'[s] = Rebuild(live', staged', incoming')[s]
  <2>1. CASE ReloadSwap
    BY <2>1 DEF ReloadSwap
  <2>2. CASE ~ ReloadSwap
    <3>1. UNCHANGED <<live, staged, paths>>
      BY <2>2 DEF Age, ReloadScan, vars
    <3>2. Rebuild(live, staged, incoming')[s] = Rebuild(live, staged, incoming)[s]
      BY <1>2, RebuildPool
    <3>3. PathDue(s) => PathDue(s)'
      <4>1. Rebuild(live, staged, incoming)'[s] = Rebuild(live, staged, incoming)[s]
        BY <3>1, <3>2
      <4>2. QED  BY <1>1, <3>1, <4>1 DEF PathDue
    <3>4. QED  BY <3>1, <3>2, <3>3 DEF Keeps
  <2>3. QED  BY <2>1, <2>2
<1>6. QED  BY <1>1, <1>3, <1>4, <1>5 DEF Keeps

LEMMA KeepsInit ==
    ASSUME Init
    PROVE  Keeps
<1>1. \A k \in Key : Whole(firmware[k]) /\ Whole(staging[k])
  BY DEF Init, Whole, Complete
<1>2. \A s \in Sha : paths[s] = Rebuild(live, staged, incoming)[s]
  <2>1. \A k \in Key : live[k] = Nil /\ StagedFw(staged)[k] = Nil
    BY DEF Init, StagedFw
  <2>2. \A s \in Sha : paths[s] = Nil /\ incoming[s] = "absent"
    BY DEF Init
  <2>3. QED  BY <2>1, <2>2 DEF Rebuild
<1>3. \A w \in Worker : BytesOne(w)
  BY DEF Init, Idle, BytesOne
<1>4. QED  BY <1>1, <1>2, <1>3 DEF Keeps

LEMMA OneStepKeeps ==
    ASSUME OneRequest, Distinct, TInv, Agrees, Keeps, NEW w \in Worker, Call(w) \/ Step(w)
    PROVE  Keeps'
<1>1. \/ (\E s \in Sha : PutCheck(w, s)) \/ PutWrite(w) \/ PutIndex(w)
      \/ \/ \E m \in Fw, u \in User : Stage(w, m, u)
         \/ \E m \in Fw : Publish(w, m)
         \/ Quota(w) \/ Lookup(w) \/ Copy(w) \/ Replace(w)
      \/ (Unlink(w) \/ Rmdir(w) \/ Commit(w) \/ Rename(w))
      \/ (Index(w) \/ SweepEnd(w) \/ GoLive(w) \/ Unstage(w))
      \/ (SweepOwned(w) \/ SweepFile(w) \/ GcBegin(w) \/ GcFile(w) \/ GcEnd(w))
      \/ ((\E k \in Key : Approve(w, k) \/ Reject(w, k)) \/ RejectCheck(w))
  BY DEF Call, Step
<1>2. QED  BY <1>1, PutKeeps, BuildKeeps, DiskKeeps, IndexKeeps, SweepKeeps, DecideKeeps

AloneInv == TInv /\ Agrees /\ (crashed \/ Keeps)

LEMMA AloneSteps ==
    ASSUME OneRequest, Distinct
    PROVE  /\ AloneInit => AloneInv
           /\ AloneInv /\ [AloneNext]_<<vars, crashed>> => AloneInv'
<1>1. AloneInit => AloneInv
  BY TypeInit, AgreesInit, KeepsInit DEF AloneInit, AloneInv
<1>2. ASSUME AloneInv, [AloneNext]_<<vars, crashed>> PROVE AloneInv'
  <2>1. [Next]_vars
    BY <1>2 DEF AloneNext, Next
  <2>2. TInv' /\ Agrees'
    BY <1>2, <2>1, TypeNext, OneIsWriter, AgreesNext DEF AloneInv
  <2>3. CASE Crash /\ crashed' = TRUE
    BY <2>2, <2>3 DEF AloneInv
  <2>4. CASE ~ (Crash /\ crashed' = TRUE)
    <3>1. crashed' = crashed /\ (\/ UNCHANGED vars
                                 \/ \E w \in Worker : Call(w) \/ Step(w)
                                 \/ \E s \in Sha : Age(s)
                                 \/ ReloadScan \/ ReloadSwap)
      BY <1>2, <2>4 DEF AloneNext
    <3>2. Keeps => Keeps'
      <4>1. CASE \E w \in Worker : Call(w) \/ Step(w)
        <5>1. PICK w \in Worker : Call(w) \/ Step(w)
          BY <4>1
        <5>2. QED  BY <1>2, <5>1, OneStepKeeps DEF AloneInv
      <4>2. QED  BY <1>2, <3>1, <4>1, RestKeeps DEF AloneInv
    <3>3. QED  BY <1>2, <2>2, <3>1, <3>2 DEF AloneInv
  <2>5. QED  BY <2>3, <2>4
<1>3. QED  BY <1>1, <1>2

LEMMA AloneRests ==
    ASSUME OneRequest, TInv, Agrees, Keeps, Resting
    PROVE  Servable /\ SelfContained
<1>1. Calm /\ (\A k \in Key : ~ Clearing(k)) /\ \A s \in Sha : ~ PathDue(s)
  BY DEF Resting, Calm, LiveDue, StagedDue, Clearing, PathDue
<1>2. \A s \in Sha : paths[s] # Nil => Bytes(paths[s], s) = s
  BY <1>1, PathServes
<1>3. \A k \in Key : Whole(firmware[k]) /\ Whole(staging[k])
  BY <1>1 DEF Keeps
<1>4. QED  BY <1>2, <1>3 DEF Servable, SelfContained, Whole

\* ServableAlone: of one request at a time, until a crash, every path the index
\* lists leads to the bytes of its digest (get_blob, rebuild_blob_paths).
THEOREM ServableAloneHolds ==
    ASSUME OneRequest, Distinct
    PROVE  AloneSpec => []ServableAlone
<1>1. AloneInv => ServableAlone
  BY AloneRests DEF AloneInv, ServableAlone, Servable
<1>2. QED  BY <1>1, AloneSteps, PTL DEF AloneSpec

\* SelfContainedAlone: of one request at a time, until a crash, every version
\* directory holds the blobs its manifest names (write_version_dir, reject).
THEOREM SelfContainedAloneHolds ==
    ASSUME OneRequest, Distinct
    PROVE  AloneSpec => []SelfContainedAlone
<1>1. AloneInv => SelfContainedAlone
  BY AloneRests DEF AloneInv, SelfContainedAlone, SelfContained
<1>2. QED  BY <1>1, AloneSteps, PTL DEF AloneSpec

\* OnlyAbandonedLostAlone: of one request at a time, until a crash, the sweep and
\* the GC take nothing from the pool but what a version directory has too, or
\* what is a day old and in no manifest (sweep_incoming, gc_incoming).
THEOREM OnlyAbandonedLostAloneHolds ==
    ASSUME OneRequest, Distinct
    PROVE  AloneSpec => OnlyAbandonedLostAlone
<1>1. ASSUME AloneInv, [AloneNext]_<<vars, crashed>>, ~ crashed PROVE LosesOnlyAbandoned
  <2>1. TInv /\ Agrees /\ Keeps
    BY <1>1 DEF AloneInv
  <2>2. ASSUME NEW s \in Sha, incoming[s] # "absent", incoming'[s] = "absent"
        PROVE  \/ \E k \in Key, f \in File : \E d \in {firmware[k], staging[k]} :
                        d # Nil /\ d.files[f] = s
               \/ incoming[s] = "old" /\ s \notin Referenced
    <3>1. PICK w \in Worker : (SweepFile(w) \/ GcFile(w)) /\ s \in job[w].shas
      <4>1. incoming' # incoming
        BY <2>2
      <4>2. \A t \in Sha : ~ Age(t)
        BY <2>1, <2>2 DEF Age, TInv, TypeOK
      <4>3. \A w \in Worker : ~ PutWrite(w)
        BY <2>1, <2>2 DEF PutWrite, TInv, TypeOK
      <4>4. PICK w \in Worker : SweepFile(w) \/ GcFile(w)
        <5>1. /\ \A w \in Worker : ~ Call(w)
              /\ ~ ReloadScan /\ ~ ReloadSwap /\ ~ Crash /\ ~ UNCHANGED <<vars, crashed>>
          BY <4>1 DEF Call, PutCheck, Stage, Publish, Validate, Approve, Reject, GcBegin,
             ReloadScan, ReloadSwap, Crash, vars, disk
        <5>2. PICK w \in Worker : Step(w)
          BY <1>1, <4>2, <5>1 DEF AloneNext
        <5>3. ~ (PutIndex(w) \/ Quota(w) \/ Lookup(w) \/ Copy(w) \/ Replace(w))
          BY <4>1 DEF PutIndex, Quota, Lookup, Copy, Replace, disk
        <5>4. ~ (Unlink(w) \/ Rmdir(w) \/ Commit(w) \/ Index(w) \/ SweepOwned(w) \/ SweepEnd(w))
          BY <4>1 DEF Unlink, Rmdir, Commit, Index, SweepOwned, SweepEnd, disk
        <5>5. ~ (Rename(w) \/ GoLive(w) \/ RejectCheck(w) \/ Unstage(w) \/ GcEnd(w))
          BY <4>1 DEF Rename, GoLive, RejectCheck, Unstage, GcEnd, disk
        <5>6. QED  BY <4>3, <5>2, <5>3, <5>4, <5>5 DEF Step
      <4>5. s \in job[w].shas
        BY <2>1, <2>2, <4>4 DEF SweepFile, GcFile, TInv, TypeOK
      <4>6. QED  BY <4>4, <4>5
    <3>2. Calm /\ \A k \in Key : ~ Clearing(k)
      <4>1. job[w].pc \in {"sweep_file", "gc_files"}
        BY <3>1 DEF SweepFile, GcFile, At
      <4>2. job[w].pc \notin Dues
        BY <4>1 DEF Dues
      <4>3. QED  BY <4>2, CalmIs
    <3>3. CASE SweepFile(w)
      <4>1. OnDisk(s)
        BY <2>1, <3>1, <3>3 DEF Keeps, BytesOne, SweepFile
      <4>2. QED  BY <2>1, <3>2, <4>1, OnDiskHas
    <3>4. CASE GcFile(w)
      <4>1. incoming[s] = "old"
        BY <2>1, <2>2, <3>4 DEF GcFile, TInv, TypeOK
      <4>2. s \in Referenced => OnDisk(s)
        BY <2>1, <3>2, WantedOnDisk
      <4>3. QED  BY <2>1, <3>2, <4>1, <4>2, OnDiskHas
    <3>5. QED  BY <3>1, <3>3, <3>4
  <2>3. QED  BY <2>2 DEF LosesOnlyAbandoned
<1>2. AloneInv /\ [AloneNext]_<<vars, crashed>> => [crashed \/ LosesOnlyAbandoned]_<<vars, crashed>>
  BY <1>1
<1>3. QED  BY <1>2, AloneSteps, PTL DEF AloneSpec, OnlyAbandonedLostAlone
=============================================================================
