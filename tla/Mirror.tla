-------------------------------- MODULE Mirror --------------------------------
(***************************************************************************)
(* Downloads (src/store/blobs.rs) and the egress mirror (src/mirror.rs)    *)
(* beside the store's own requests: a download is answered with a URL of   *)
(* the bucket, which it fills first if it has to, or else with the bytes.  *)
(* The bucket is external: any request to it may fail, and a PUT that      *)
(* failed may have been carried out, or be carried out later.  Nothing is  *)
(* ever deleted there.                                                     *)
(*                                                                         *)
(* A worker runs a request of Store or a download; the worker of a publish *)
(* goes on to mirror what it published.                                    *)
(***************************************************************************)
EXTENDS Store

VARIABLES
    bucket,      \* the object under each digest: the bytes, by their digest
    late,        \* PUTs given up on that may still be carried out
    load         \* what each worker does for a download, or after a publish

mirror == <<bucket, late, load>>
mvars == <<vars, mirror>>

\* The answers a property is about; after any other the worker is idle.
Answer == {"url_sent", "failed"}

Load == [pc : Answer \cup {"idle", "stat", "head", "get", "read", "probe", "put", "url"},
         sha : Sha \cup {Nil},
         src : Path \cup {Nil},       \* the path a lookup found
         got : Sha \cup {Nil},        \* verified bytes in hand
         inline : BOOLEAN,            \* the bytes are for the client
         fw : Fw \cup {Nil},          \* what a publish has published
         n : Nat]                     \* and which of its blobs is next

NoLoad == [pc |-> "idle", sha |-> Nil, src |-> Nil, got |-> Nil, inline |-> FALSE,
           fw |-> Nil, n |-> 0]

MirrorTypeOK ==
    /\ TypeOK
    /\ bucket \in [Sha -> Sha \cup {Nil}]
    /\ late \subseteq Sha \X Sha
    /\ load \in [Worker -> Load]

MirrorInit ==
    /\ Init
    /\ bucket = [s \in Sha |-> Nil] /\ late = {}
    /\ load = [w \in Worker |-> NoLoad]

Doing(w, pc) == load[w].pc = pc

Become(w, l) == load' = [load EXCEPT ![w] = l]

Proceed(w, pc) == Become(w, [load[w] EXCEPT !.pc = pc])

For(w) == load[w].sha

Eager(w) == load[w].fw # Nil

\* The next blob of what was published, or the end of the publish.
NextBlob(w) ==
    LET l == load[w]
    IN  IF l.n = Len(BlobsOf[l.fw])
          THEN NoLoad
          ELSE [NoLoad EXCEPT !.pc = "get", !.fw = l.fw, !.n = l.n + 1,
                              !.sha = BlobsOf[l.fw][l.n + 1][1]]

\* What comes of a download; of a publish's mirroring nobody is told.
Reply(w, answer) ==
    IF Eager(w) THEN NextBlob(w)
    ELSE IF answer \in Answer THEN [NoLoad EXCEPT !.pc = answer, !.sha = For(w)]
    ELSE NoLoad

-----------------------------------------------------------------------------
(* download *)

\* stat_blob's lookup, which answers "not found" by itself ...
Download(w, s) ==
    /\ At(w, "idle") /\ Doing(w, "idle")
    /\ Unlocked
    /\ paths[s] # Nil
    /\ Become(w, [NoLoad EXCEPT !.pc = "stat", !.sha = s, !.src = paths[s]])
    /\ UNCHANGED <<vars, bucket, late>>

\* ... and the file's metadata.
Stat(w) ==
    /\ Doing(w, "stat")
    /\ Become(w, IF Bytes(load[w].src, For(w)) = Nil
                   THEN Reply(w, "failed")
                   ELSE [load[w] EXCEPT !.pc = "head", !.src = Nil])
    /\ UNCHANGED <<vars, bucket, late>>

Local(w) == Become(w, [load[w] EXCEPT !.pc = "get", !.inline = TRUE, !.got = Nil])

\* Slip: a mirror that fails fails the download.
AskOrFail(w) ==
    /\ Doing(w, "head")
    /\ \/ Proceed(w, IF bucket[For(w)] = Nil THEN "get" ELSE "url")
       \/ Become(w, Reply(w, "failed"))
    /\ UNCHANGED <<vars, bucket, late>>

AskBucket(w) ==
    /\ Doing(w, "head")
    /\ Proceed(w, IF bucket[For(w)] = Nil THEN "get" ELSE "url") \/ Local(w)
    /\ UNCHANGED <<vars, bucket, late>>

\* get_blob's lookup: the path may be another by now.
Get(w) ==
    /\ Doing(w, "get")
    /\ Unlocked
    /\ Become(w, IF paths[For(w)] = Nil
                   THEN Reply(w, "missing")
                   ELSE [load[w] EXCEPT !.pc = "read", !.src = paths[For(w)]])
    /\ UNCHANGED <<vars, bucket, late>>

\* Slip: the bytes not verified.
ReadAny(w) ==
    /\ Doing(w, "read")
    /\ LET got == Bytes(load[w].src, For(w))
       IN  Become(w, IF got = Nil THEN Reply(w, "failed")
                     ELSE IF load[w].inline THEN Reply(w, "bytes_sent")
                     ELSE [load[w] EXCEPT !.pc = "probe", !.src = Nil, !.got = got])
    /\ UNCHANGED <<vars, bucket, late>>

\* ... and the read, of bytes that are verified.
ReadBlob(w) ==
    /\ Doing(w, "read")
    /\ LET got == Bytes(load[w].src, For(w))
       IN  Become(w, IF got # For(w) THEN Reply(w, "failed")
                     ELSE IF load[w].inline THEN Reply(w, "bytes_sent")
                     ELSE [load[w] EXCEPT !.pc = "probe", !.src = Nil, !.got = got])
    /\ UNCHANGED <<vars, bucket, late>>

Mirrored(w) == Become(w, IF Eager(w) THEN NextBlob(w)
                         ELSE [load[w] EXCEPT !.pc = "url", !.got = Nil])

\* put_if_absent: a HEAD of its own, and the PUT.
Probe(w) ==
    /\ Doing(w, "probe")
    /\ \/ bucket[For(w)] = Nil /\ Proceed(w, "put")
       \/ bucket[For(w)] # Nil /\ Mirrored(w)
       \/ Become(w, Reply(w, "bytes_sent"))
    /\ UNCHANGED <<vars, bucket, late>>

\* Slip: a failed PUT taken for done.
PutRegardless(w) ==
    /\ Doing(w, "put")
    /\ \/ /\ bucket' = [bucket EXCEPT ![For(w)] = load[w].got]
          /\ UNCHANGED late
       \/ /\ late' = late \cup {<<For(w), load[w].got>>}
          /\ UNCHANGED bucket
    /\ Mirrored(w)
    /\ UNCHANGED vars

\* A late PUT of the bytes that are there by then changes nothing.
Put(w) ==
    /\ Doing(w, "put")
    /\ \/ /\ bucket' = [bucket EXCEPT ![For(w)] = load[w].got]
          /\ late' = late \ {<<For(w), load[w].got>>}
          /\ Mirrored(w) \/ Become(w, Reply(w, "bytes_sent"))
       \/ /\ late' = late \cup {<<For(w), load[w].got>>}
          /\ Become(w, Reply(w, "bytes_sent"))
          /\ UNCHANGED bucket
    /\ UNCHANGED vars

\* Signing it may fail too.
Url(w) ==
    /\ Doing(w, "url")
    /\ Become(w, Reply(w, "url_sent")) \/ Local(w)
    /\ UNCHANGED <<vars, bucket, late>>

Leave(w) ==
    /\ load[w].pc \in Answer
    /\ Become(w, NoLoad)
    /\ UNCHANGED <<vars, bucket, late>>

-----------------------------------------------------------------------------
(* The bucket, and the store's own requests *)

Land ==
    /\ \E p \in late :
          /\ bucket' = [bucket EXCEPT ![p[1]] = p[2]]
          /\ late' = late \ {p}
    /\ UNCHANGED <<vars, load>>

\* A publish's worker keeps what it published, and mirrors it at the end.
ThenMirror(w) ==
    IF At(w, "index") /\ job[w].op = "publish"
      THEN Become(w, [NoLoad EXCEPT !.fw = job[w].fw])
      ELSE IF At(w, "sweep_file") /\ job'[w] = Idle /\ Eager(w)
             THEN Become(w, NextBlob(w))
             ELSE UNCHANGED load

Request(w) ==
    /\ Doing(w, "idle")
    /\ Call(w) \/ Step(w)
    /\ ThenMirror(w)
    /\ UNCHANGED <<bucket, late>>

Background ==
    /\ (\E s \in Sha : Age(s)) \/ ReloadScan \/ ReloadSwap
    /\ UNCHANGED mirror

\* A PUT under way may still be carried out.
CrashAll ==
    /\ Crash
    /\ late' = late \cup {<<For(w), load[w].got>> : w \in {w \in Worker : Doing(w, "put")}}
    /\ load' = [w \in Worker |-> NoLoad]
    /\ UNCHANGED bucket

MirrorNext ==
    \/ \E w \in Worker :
          \/ \E s \in Sha : Download(w, s)
          \/ Stat(w) \/ AskBucket(w) \/ Get(w) \/ ReadBlob(w) \/ Probe(w) \/ Put(w) \/ Url(w)
          \/ Leave(w) \/ Request(w)
    \/ Land \/ Background \/ CrashAll

MirrorSpec == MirrorInit /\ [][MirrorNext]_mvars

-----------------------------------------------------------------------------
(* Properties *)

\* "The mirror can't be poisoned": whatever a version directory holds by now
\* under the filename a manifest gives, and whenever a PUT is carried out, an
\* object's bytes are those of its digest; and a client that is answered with a
\* URL finds it there.  (Checked with the types.)
UrlServes ==
    /\ MirrorTypeOK
    /\ \A s \in Sha : bucket[s] \in {s, Nil}
    /\ \A w \in Worker : Doing(w, "url_sent") => bucket[For(w)] # Nil

\* "The mirror is an optimization: on ANY mirror error, fall back": a download
\* fails only on a step that looks for the local file and finds it gone or wrong.
FallsBack ==
    [][\A w \in Worker : load'[w].pc = "failed" /\ ~Doing(w, "failed") =>
            load[w].src # Nil /\ Bytes(load[w].src, For(w)) # For(w)]_mvars
=============================================================================
