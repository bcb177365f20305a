----------------------------- MODULE FrozenCache -----------------------------
(***************************************************************************)
(* build_frozen_train_cache (methods/dive/src/dive/cache_build.py) and the *)
(* TensorCacheWriter of cache.py: the train features are computed batch by *)
(* batch; each batch becomes one shard of every cache, a file and its      *)
(* checksum; a cache is indexed when it has all its shards.  A relaunched  *)
(* build adopts the shards it finds.                                       *)
(***************************************************************************)
EXTENDS Builder

CONSTANTS Caches, Batches    \* both 1..n: names and shards are ordered

Empty ==
    [state   |-> None,
     shard   |-> [c \in Caches |-> [b \in Batches |-> None]],
     sidecar |-> [c \in Caches |-> [b \in Batches |-> None]],
     index   |-> [c \in Caches |-> None],
     report  |-> None]

Init == Begin(Inputs)

Shards == [Caches -> [Batches -> Maybe(Contents)]]
Directories ==
    [state : Maybe(Inputs), shard : Shards, sidecar : Shards,
     index : [Caches -> Maybe([Batches -> Maybe(Contents)])], report : Maybe(Inputs)]

\* Variant: a checksum whose shard is missing is refused as well.
AdoptableStrictly(dir, input) ==
    \A c \in Caches, b \in Batches :
        dir.shard[c][b] = dir.sidecar[c][b]

\* _adopt: a shard that is there has its checksum and is of this build.
Adoptable(dir, input) ==
    \A c \in Caches, b \in Batches :
        dir.shard[c][b] # None => /\ dir.sidecar[c][b] = dir.shard[c][b]
                                  /\ dir.shard[c][b].input = input

\* An index that is there is the one the adopted shards give.
IndexAgrees(dir) ==
    \A c \in Caches : dir.index[c] # None => dir.index[c] = dir.shard[c]

Writable(dir, input) == Adoptable(dir, input) /\ IndexAgrees(dir)

Adopt ==
    Find(/\ \A c \in Caches : final.index[c] # None
         /\ Writable(final, final.report))

Make == MakePending(Empty)
Resume == Reopen(Writable(pending, now))

\* Shards are made batch by batch, those that are there are kept.
Missing == {m \in Batches \X Caches : pending.shard[m[2]][m[1]] = None}
Following ==
    CHOOSE m \in Missing : \A n \in Missing : \/ m[1] < n[1]
                                              \/ m[1] = n[1] /\ m[2] <= n[2]

SaveSidecar ==
    LET b == Following[1]  c == Following[2] IN
    /\ Step("build", "shard") /\ Missing # {}
    /\ Put("sidecar", [pending.sidecar EXCEPT ![c][b] = Made])

SaveShard ==
    LET b == Following[1]  c == Following[2] IN
    /\ Step("shard", "build")
    /\ Put("shard", [pending.shard EXCEPT ![c][b] = Made])

Unindexed == {c \in Caches : pending.index[c] = None}

Finalize ==
    LET c == CHOOSE c \in Unindexed : \A d \in Unindexed : c <= d IN
    /\ Step("build", "build") /\ Missing = {} /\ Unindexed # {}
    /\ Put("index", [pending.index EXCEPT ![c] = pending.shard[c]])

Finalized ==
    /\ Step("build", "report") /\ Missing = {} /\ Unindexed = {}
    /\ UNCHANGED <<mem, pending, final, registered>>

Work ==
    \/ Adopt \/ Make \/ WriteState \/ Resume \/ SaveSidecar \/ SaveShard
    \/ Finalize \/ Finalized \/ WriteReport \/ Publish \/ Register

Cut == Kill({})

\* Every cache is complete, indexed, and of the input that the report names.
Complete(dir) ==
    /\ \A c \in Caches, b \in Batches : dir.shard[c][b] # None
    /\ \A c \in Caches : dir.index[c] = dir.shard[c]
    /\ Adoptable(dir, dir.report)

Whole ==
    /\ final # None => Complete(final)
    /\ pending # None => IndexAgrees(pending)

\* Killed between the creation of the directory and its first file.
Obstacle == "state" \in cuts \/ Outdated
=============================================================================
