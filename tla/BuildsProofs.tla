----------------------------- MODULE BuildsProofs -----------------------------
(***************************************************************************)
(* Proofs about the builders of artifacts, for all inputs, caches, batches *)
(* and vectors, and any number of kills and changes: an inductive          *)
(* invariant of each builder, the wholeness of its files, and that it      *)
(* implements StageBuild.                                                  *)
(***************************************************************************)
EXTENDS MCBuilds, FiniteSetTheorems, TLAPS

(***************************************************************************)
(* The inductive invariant of the spans                                    *)
(***************************************************************************)
ReferenceStill == swaps \cap {"teacher", "manifests"} = {}
BundleStill == swaps \cap {"captions", "encode", "hash"} = {}

ReferencePoints == {"teacher", "manifests", "arrays", "indexes", "reference"}
BundlePoints == {"captions", "encode", "hash", "mining", "negatives", "bundle"}

SpansType ==
    /\ now \in Inputs /\ kills \in 0..MaxKills /\ registered \in BOOLEAN
    /\ pc \in {"down", "done"} \cup ReferencePoints \cup BundlePoints
    /\ pc # "down" => mem \in [input : Inputs, teacher : Maybe(Inputs),
                               data : Maybe(Inputs), label : Maybe(Inputs)]
    /\ final \in Maybe(Spans!References)
    /\ pc \in {"indexes", "reference"} => pending \in Spans!PendingReferences
    /\ pc \in {"negatives", "bundle"} => pending \in Spans!Bundles
    /\ pc \notin {"indexes", "reference", "negatives", "bundle"} => pending = None

\* What a launch has in memory is the identity that it hashed first, unless an
\* input was replaced between that and its reading.
SpansMemory ==
    /\ pc = "teacher" => (ReferenceStill => mem.input = now)
    /\ pc = "manifests" =>
          /\ mem.teacher \in Inputs
          /\ ReferenceStill => mem.teacher = mem.input /\ mem.input = now
    /\ pc \in {"arrays", "indexes", "reference"} =>
          /\ {mem.teacher, mem.data} \subseteq Inputs
          /\ ReferenceStill => mem.teacher = mem.input /\ mem.data = mem.input
    /\ pc = "captions" => (BundleStill => mem.input = now)
    /\ pc = "encode" =>
          /\ mem.data \in Inputs
          /\ BundleStill => mem.data = mem.input /\ mem.input = now
    /\ pc = "hash" =>
          /\ {mem.teacher, mem.data} \subseteq Inputs
          /\ BundleStill => /\ mem.teacher = mem.input /\ mem.data = mem.input
                            /\ mem.input = now
    /\ pc \in {"mining", "negatives", "bundle"} =>
          /\ {mem.teacher, mem.data, mem.label} \subseteq Inputs
          /\ BundleStill => /\ mem.teacher = mem.input /\ mem.data = mem.input
                            /\ mem.label = mem.input

SpansFiles ==
    /\ pc \in ReferencePoints => final = None
    /\ pc \in {"indexes", "reference"} =>
          pending.state = mem.input /\ pending.arrays = Spans!Encoded
    /\ pc = "reference" => pending.indexes = pending.arrays
    /\ pc \in BundlePoints => final # None /\ final.report = mem.input
    /\ pc \in {"negatives", "bundle"} =>
          /\ pending.state = mem.input /\ pending.label = mem.label
          /\ pending.edits = Spans!Encoded
    /\ pc = "bundle" => pending.negatives = pending.edits
    /\ registered => final # None

SpansInv == SpansType /\ SpansMemory /\ SpansFiles /\ Spans!Whole

(***************************************************************************)
(* The inductive invariant of the auxiliary cache                          *)
(***************************************************************************)
AuxType ==
    /\ now \in Inputs /\ kills \in 0..MaxKills /\ registered = FALSE
    /\ pc \in {"down", "bank", "vocab", "graph", "records", "meta", "done"}
    /\ pc # "down" => mem \in [input : Inputs]
    /\ pending \in Maybe(Aux!Directories) /\ final \in Maybe(Aux!Published)

OfLaunch(file) == file \in Contents /\ file.input = mem.input

\* The files are of the launch, as far as it has come; nothing was taken up.
AuxFiles ==
    /\ pc = "bank" => pending = None
    /\ pc \in {"bank", "vocab", "graph", "records", "meta"} => final = None
    /\ pc \in {"vocab", "graph", "records", "meta"} =>
          /\ pending \in Aux!Directories /\ pending.state = mem.input
          /\ OfLaunch(pending.bank)
          /\ pc # "vocab" => OfLaunch(pending.vocab)
          /\ pc \in {"records", "meta"} => OfLaunch(pending.graph)
          /\ pc = "meta" => OfLaunch(pending.records)
    /\ swaps = {} /\ pc # "down" => mem.input = now

AuxInv == AuxType /\ AuxFiles /\ Aux!Whole

(***************************************************************************)
(* The inductive invariant of the audit export                             *)
(***************************************************************************)
ExportType ==
    /\ now \in Inputs /\ kills \in 0..MaxKills /\ registered \in BOOLEAN
    /\ pc \in {"down", "annotation", "decision", "report", "publish", "register", "done"}
    /\ pc # "down" => mem \in [input : Inputs]
    /\ pending \in Maybe(Export!Directories) /\ final \in Maybe(Export!Directories)

\* A directory that is published is the only one, it names an input, and nothing
\* else is registered.
Single ==
    /\ final # None => pending = None /\ final.report \in Inputs
    /\ pc \in {"register", "done"} \/ registered => final # None

ExportFiles ==
    /\ pc \in {"annotation", "decision", "report", "publish"} =>
          /\ final = None /\ pending # None /\ pending.state = mem.input
          /\ pc # "annotation" => OfLaunch(pending.annotation)
          /\ pc \in {"report", "publish"} => OfLaunch(pending.decision)
          /\ pc = "publish" => /\ pending.report = mem.input
                               /\ pending.hashes = Export!Hashes(pending)

ExportInv == ExportType /\ ExportFiles /\ Single /\ Export!Whole

(***************************************************************************)
(* The inductive invariant of the bank                                     *)
(***************************************************************************)
CopyPoints == {"open", "state", "bank", "bankMeta", "decision", "annotation"}
BankPoints == CopyPoints \cup {"rejections", "report", "publish"}

BankType ==
    /\ now \in Inputs /\ kills \in 0..MaxKills /\ registered \in BOOLEAN
    /\ pc \in {"down", "hash", "register", "done"} \cup BankPoints
    /\ pc = "hash" => mem \in [input : Inputs]
    /\ pc \in BankPoints => mem \in Bank!Banks
    /\ pending \in Maybe(Bank!Directories) /\ final \in Maybe(Bank!Directories)

\* The decision in memory is an acceptance, and the one that is there unless the
\* human has edited it meanwhile.
BankMemory ==
    /\ pc \in BankPoints \cup {"hash"} => final = None /\ mem.input \in Accepted
    /\ ~Bank!Edited =>
          /\ pc = "hash" => mem.input = now
          /\ pc \in CopyPoints => mem.input = now /\ mem.hash = now
          /\ pc \in BankPoints => mem.hash = mem.input

BankFiles ==
    /\ pc \in BankPoints \ {"open"} => pending # None
    /\ pc = "state" => pending.state = None
    /\ pc \in BankPoints \ {"open", "state"} => pending.state = mem.hash
    /\ pc \in BankPoints \ {"open", "state", "bank"} => pending.bank = mem
    /\ pc \in BankPoints \ {"open", "state", "bank", "bankMeta"} => pending.bankMeta = mem
    /\ pc \in BankPoints \ (CopyPoints \ {"annotation"}) =>
          pending.decision \in Inputs /\ (Bank!Edited \/ pending.decision = mem.hash)
    /\ pc \in {"rejections", "report", "publish"} =>
          pending.annotation \in Inputs /\ (Bank!Edited \/ pending.annotation = mem.hash)
    /\ pc \in {"report", "publish"} => pending.rejections = mem
    /\ pc = "publish" => pending.report = mem.hash

BankInv == BankType /\ BankMemory /\ BankFiles /\ Single /\ Bank!Whole

(***************************************************************************)
(* The inductive invariant of the frozen cache                             *)
(***************************************************************************)
FrozenPoints == {"state", "build", "shard", "report", "publish"}

FrozenType ==
    /\ now \in Inputs /\ kills \in 0..MaxKills /\ registered \in BOOLEAN
    /\ pc \in {"down", "register", "done"} \cup FrozenPoints
    /\ pc # "down" => mem \in [input : Inputs]
    /\ pending \in Maybe(Frozen!Directories) /\ final \in Maybe(Frozen!Directories)

\* A shard that is there has its checksum, and is of the input that the build was
\* begun with; an index is made when all the shards are there, and describes them.
Sharded(dir) ==
    /\ Frozen!Writable(dir, dir.state)
    /\ \A c \in Caches : dir.index[c] # None => \A b \in Batches : dir.shard[c][b] # None

FrozenFiles ==
    /\ pending # None => Sharded(pending)
    /\ pc \in FrozenPoints => final = None /\ pending # None
    /\ pc = "state" => pending = Frozen!Empty
    /\ pc \in FrozenPoints \ {"state"} => pending.state = mem.input
    /\ pc = "shard" =>
          /\ Frozen!Missing # {}
          /\ pending.sidecar[Frozen!Following[2]][Frozen!Following[1]] = Made
    /\ pc \in {"report", "publish"} => Frozen!Missing = {} /\ Frozen!Unindexed = {}
    /\ pc = "publish" => pending.report = mem.input

FrozenInv == FrozenType /\ FrozenFiles /\ Single /\ Frozen!Whole

(***************************************************************************)
(* The inductive invariant of the mining                                   *)
(***************************************************************************)
ScorePoints == {"scores", "chunk", "progress", "checksum"}
ProposalPoints == {"proposals", "proposalsMeta", "rejections", "report", "publish"}
MiningPoints == {"state", "build", "listsMeta", "vector"} \cup ScorePoints \cup ProposalPoints

MiningType ==
    /\ now \in Inputs /\ kills \in 0..MaxKills /\ registered \in BOOLEAN
    /\ pc \in {"down", "register", "done"} \cup MiningPoints
    /\ pc # "down" => mem \in [input : Inputs] \cup [input : Inputs, chunk : 0..NumChunks]
    /\ pc \in {"chunk", "progress"} => mem \in [input : Inputs, chunk : 0..NumChunks]
    /\ pending \in Maybe(Mining!Directories) /\ final \in Maybe(Mining!Directories)

\* A vector k of a directory: it is of the input that the build was begun with, its
\* data is made after its progress file, the chunks that this counts are there,
\* and a checksum says that all of them are.
Vector(dir, k) ==
    /\ dir.progress[k] # None \/ dir.scores[k] # None => k[2] = dir.state
    /\ dir.scores[k] # None => dir.progress[k] # None
    /\ dir.progress[k] # None =>
          /\ dir.scores[k] \notin {None, Torn} => 1..dir.progress[k].done \subseteq dir.scores[k]
          /\ dir.progress[k].sha => /\ dir.progress[k].done = NumChunks
                                    /\ dir.scores[k] \notin {None, Torn}

Sought == Mining!Key(Mining!Current)

MiningVectors ==
    /\ pending # None => \A k \in Vectors \X Inputs : Vector(pending, k)
    /\ pc \in ScorePoints => Mining!Unscored # {} /\ pending.progress[Sought] # None
    /\ pc = "scores" => pending.progress[Sought].done = 0 /\ pending.scores[Sought] = None
    /\ pc \in {"chunk", "progress", "checksum"} => pending.scores[Sought] \notin {None, Torn}
    /\ pc \in {"chunk", "progress"} => pending.progress[Sought].done = mem.chunk
    /\ pc = "progress" /\ mem.chunk < NumChunks => mem.chunk + 1 \in pending.scores[Sought]
    /\ pc = "checksum" => pending.progress[Sought].done = NumChunks

MiningFiles ==
    /\ pc \in MiningPoints => final = None /\ pending # None
    /\ pc = "state" => pending = Mining!Empty
    /\ pc \in MiningPoints \ {"state"} => pending.state = mem.input
    /\ pc \in MiningPoints \ {"state", "build"} => OfLaunch(pending.lists)
    /\ pc \in MiningPoints \ {"state", "build", "listsMeta"} => pending.listsMeta = pending.lists
    /\ pc \in ProposalPoints => Mining!Unscored = {} /\ OfLaunch(pending.coverage)
    /\ pc \in ProposalPoints \ {"proposals"} => OfLaunch(pending.proposals)
    /\ pc = "proposalsMeta" => pending.proposals = Made
    /\ pc \in {"rejections", "report", "publish"} => pending.proposalsMeta = pending.proposals
    /\ pc \in {"report", "publish"} => OfLaunch(pending.rejections)
    /\ pc = "publish" => pending.report = mem.input

MiningInv == MiningType /\ MiningVectors /\ MiningFiles /\ Single /\ Mining!Whole
-----------------------------------------------------------------------------
LEMMA Begun == ASSUME Init PROVE registered \in BOOLEAN /\ kills \in 0..MaxKills
<1> USE DEF Init, Begin
<1>1. registered \in BOOLEAN
  OBVIOUS
<1>2. kills \in 0..MaxKills
  BY BuilderAssumption DEF BuilderAssumption
<1>3. QED
  BY <1>1, <1>2

(***************************************************************************)
(* A non-empty set of numbers has a least element: the library has it with *)
(* an operator for a parameter, so it is derived here from the order of    *)
(* the intervals from 0.                                                   *)
(***************************************************************************)
LEMMA Least ==
    ASSUME NEW S, S \subseteq Nat, S # {}
    PROVE  \E x \in S : \A y \in S : x <= y
<1> DEFINE R == StrictSubsetOrdering(Nat)
           T == {0..x : x \in S}
<1>1. IsWellFoundedOn(R, FiniteSubsetsOf(Nat))
  BY FS_StrictSubsetOrderingWellFounded
<1>2. T \subseteq FiniteSubsetsOf(Nat)
  <2>1. ASSUME NEW x \in S PROVE 0..x \in FiniteSubsetsOf(Nat)
    BY FS_Interval, 0 \in Int, x \in Int, 0..x \in SUBSET Nat DEF FiniteSubsetsOf
  <2>2. QED
    BY <2>1
<1>3. T # {}
  OBVIOUS
<1>4. PICK t \in T : \A u \in T : <<u, t>> \notin R
  <2> HIDE DEF R, T
  <2>1. QED
    BY <1>1, <1>2, <1>3, WFMin
<1>5. PICK x \in S : t = 0..x
  BY <1>4
<1>6. ASSUME NEW y \in S PROVE x <= y
  <2>1. <<0..y, 0..x>> \notin R
    BY <1>4, <1>5
  <2>2. ~(0..y \subseteq 0..x /\ 0..y # 0..x)
    BY <2>1, 0..y \in SUBSET Nat, 0..x \in SUBSET Nat DEF StrictSubsetOrdering
  <2>3. ASSUME y < x PROVE FALSE
    <3>1. x \in Nat /\ y \in Nat
      OBVIOUS
    <3>2. x \in 0..x /\ x \notin 0..y
      BY <2>3, <3>1
    <3>3. 0..y \subseteq 0..x
      BY <2>3, <3>1
    <3>4. QED
      BY <2>2, <3>2, <3>3
  <2>4. QED
    BY <2>3
<1>7. QED
  BY <1>6

(***************************************************************************)
(* The frozen cache                                                        *)
(***************************************************************************)
\* The next shard to make is one that is missing.
LEMMA FollowingMissing ==
    ASSUME Frozen!Missing # {}
    PROVE  Frozen!Following \in Frozen!Missing
<1> DEFINE M == Frozen!Missing
           B == {m[1] : m \in M}
<1>1. M \subseteq Nat \X Nat
  BY BuildsAssumption DEF Frozen!Missing
<1>2. PICK b \in B : \A d \in B : b <= d
  <2>1. B \subseteq Nat /\ B # {}
    BY <1>1
  <2>2. QED
    BY <2>1, Least
<1> DEFINE C == {m[2] : m \in {n \in M : n[1] = b}}
<1>3. PICK c \in C : \A d \in C : c <= d
  <2>1. C \subseteq Nat /\ C # {}
    BY <1>1
  <2>2. QED
    BY <2>1, Least
<1>4. PICK m \in M : m[1] = b /\ m[2] = c
  OBVIOUS
<1>5. \A n \in M : m[1] < n[1] \/ (m[1] = n[1] /\ m[2] <= n[2])
  <2>1. ASSUME NEW n \in M PROVE m[1] < n[1] \/ (m[1] = n[1] /\ m[2] <= n[2])
    <3>1. m[1] <= n[1]
      <4>1. n[1] \in B
        OBVIOUS
      <4>2. QED
        BY <1>2, <1>4, <4>1
    <3>2. m[1] \in Nat /\ n[1] \in Nat
      BY <1>1
    <3>3. m[1] = n[1] => m[2] <= n[2]
      <4>1. m[1] = n[1] => n[2] \in C
        BY <1>4
      <4>2. QED
        BY <1>3, <1>4, <4>1
    <3>4. m[1] < n[1] \/ m[1] = n[1]
      BY <3>1, <3>2
    <3>5. QED
      BY <3>3, <3>4
  <2>2. QED
    BY <2>1
<1>6. QED
  BY <1>5 DEF Frozen!Following

LEMMA FrozenStart == ASSUME Init PROVE FrozenInv
BY Begun DEF Init, Begin, FrozenInv, FrozenType, FrozenFiles, FrozenPoints, Single,
             Frozen!Whole, Maybe

LEMMA FrozenShards ==
    ASSUME FrozenInv, Frozen!SaveSidecar \/ Frozen!SaveShard
    PROVE  FrozenInv'
<1> DEFINE b == Frozen!Following[1]
           c == Frozen!Following[2]
<1> USE DEF FrozenInv
<1>1. Frozen!Missing # {}
  BY DEF Frozen!SaveSidecar, Frozen!SaveShard, Frozen!Step, FrozenFiles
<1>2. b \in Batches /\ c \in Caches /\ pending.shard[c][b] = None
  BY <1>1, FollowingMissing DEF Frozen!Missing
<1>3. /\ pending \in Frozen!Directories /\ final = None /\ pending.state = mem.input
      /\ mem \in [input : Inputs] /\ Sharded(pending) /\ kills \in 0..MaxKills
  BY DEF Frozen!SaveSidecar, Frozen!SaveShard, Frozen!Step, FrozenType, FrozenFiles,
         FrozenPoints, Maybe
<1>4. Frozen!Made \in Contents
  BY <1>3 DEF Frozen!Made, Contents
<1>5. CASE Frozen!SaveSidecar
  <2> DEFINE side == [pending.sidecar EXCEPT ![c][b] = Frozen!Made]
  <2>1. /\ pending' = [pending EXCEPT !.sidecar = side]
        /\ UNCHANGED <<mem, final, registered, now, kills, swaps>>
        /\ pc = "build" /\ pc' = "shard"
    BY <1>5 DEF Frozen!SaveSidecar, Frozen!Put, Frozen!Step
  <2>2. side \in Frozen!Shards /\ side[c][b] = Frozen!Made
    BY <1>2, <1>3, <1>4
       DEF Frozen!Directories, Frozen!Shards, Frozen!Maybe, Frozen!Contents, Contents
  <2>3. \A d \in Caches, e \in Batches :
           side[d][e] = IF d = c /\ e = b THEN Frozen!Made ELSE pending.sidecar[d][e]
    BY <1>2, <1>3 DEF Frozen!Directories, Frozen!Shards
  <2> HIDE DEF side
  <2>4. /\ pending' \in Frozen!Directories
        /\ pending'.shard = pending.shard /\ pending'.sidecar = side
        /\ pending'.index = pending.index /\ pending'.state = pending.state
    BY <1>3, <2>1, <2>2 DEF Frozen!Directories
  <2>5. Sharded(pending')
    BY <1>2, <1>3, <2>3, <2>4
       DEF Sharded, Frozen!Writable, Frozen!Adoptable, Frozen!IndexAgrees
  <2>6. Frozen!Missing' = Frozen!Missing /\ Frozen!Following' = Frozen!Following
    <3>1. Frozen!Missing' = Frozen!Missing
      BY <2>4 DEF Frozen!Missing
    <3>2. QED
      BY <3>1 DEF Frozen!Following
  <2>7. pending'.sidecar[Frozen!Following'[2]][Frozen!Following'[1]] = Made'
    BY <2>1, <2>2, <2>4, <2>6 DEF Made, Frozen!Made
  <2>8. FrozenType'
    BY <2>1, <2>4 DEF FrozenType, FrozenPoints, Maybe
  <2>9. pending' # None
    BY <2>4, BuildsAssumption
  <2>10. FrozenFiles'
    BY <1>1, <1>3, <2>1, <2>4, <2>5, <2>6, <2>7, <2>9 DEF FrozenFiles, FrozenPoints
  <2>11. Single' /\ Frozen!Whole'
    BY <1>3, <2>1, <2>4, <2>5
       DEF Single, Frozen!Whole, FrozenFiles, Sharded, Frozen!Writable
  <2>12. QED
    BY <2>8, <2>10, <2>11
<1>6. CASE Frozen!SaveShard
  <2> DEFINE shard == [pending.shard EXCEPT ![c][b] = Frozen!Made]
  <2>1. /\ pending' = [pending EXCEPT !.shard = shard]
        /\ UNCHANGED <<mem, final, registered, now, kills, swaps>>
        /\ pc = "shard" /\ pc' = "build"
    BY <1>6 DEF Frozen!SaveShard, Frozen!Put, Frozen!Step
  <2>2. shard \in Frozen!Shards
    BY <1>2, <1>3, <1>4
       DEF Frozen!Directories, Frozen!Shards, Frozen!Maybe, Frozen!Contents, Contents
  <2>3. /\ \A d \in Caches, e \in Batches :
              shard[d][e] = IF d = c /\ e = b THEN Frozen!Made ELSE pending.shard[d][e]
        /\ \A d \in Caches : d # c => shard[d] = pending.shard[d]
    BY <1>2, <1>3 DEF Frozen!Directories, Frozen!Shards
  <2> HIDE DEF shard
  <2>4. /\ pending' \in Frozen!Directories
        /\ pending'.sidecar = pending.sidecar /\ pending'.shard = shard
        /\ pending'.index = pending.index /\ pending'.state = pending.state
    BY <1>3, <2>1, <2>2 DEF Frozen!Directories
  <2>5. pending.sidecar[c][b] = Frozen!Made
    BY <2>1 DEF FrozenFiles, Made, Frozen!Made
  <2>6. Frozen!Made.input = pending.state
    BY <1>3 DEF Frozen!Made
  <2>7. Frozen!Adoptable(pending', pending'.state)
    BY <1>2, <1>3, <2>3, <2>4, <2>5, <2>6 DEF Sharded, Frozen!Writable, Frozen!Adoptable
  <2>8. pending.index[c] = None
    BY <1>2, <1>3 DEF Sharded
  <2>9. Frozen!IndexAgrees(pending')
    BY <1>3, <2>3, <2>4, <2>8 DEF Sharded, Frozen!Writable, Frozen!IndexAgrees
  <2>10. \A d \in Caches : pending'.index[d] # None => \A e \in Batches : shard[d][e] # None
    BY <1>3, <2>3, <2>4, <2>8 DEF Sharded
  <2>11. Sharded(pending')
    BY <2>4, <2>7, <2>9, <2>10 DEF Sharded, Frozen!Writable
  <2>12. pending' # None
    BY <2>4, BuildsAssumption
  <2>13. FrozenType'
    BY <2>1, <2>4 DEF FrozenType, FrozenPoints, Maybe
  <2>14. FrozenFiles' /\ Single' /\ Frozen!Whole'
    BY <1>3, <2>1, <2>4, <2>9, <2>11, <2>12
       DEF FrozenFiles, FrozenPoints, Single, Frozen!Whole
  <2>15. QED
    BY <2>13, <2>14
<1>7. QED
  BY <1>5, <1>6

LEMMA FrozenKept ==
    ASSUME FrozenInv, which = "frozen", [Next]_vars
    PROVE  FrozenInv'
<1> USE BuilderAssumption, BuildsAssumption
    DEF FrozenInv, FrozenType, FrozenFiles, FrozenPoints, Single, Frozen!Whole, Maybe,
        Frozen!Step, Frozen!Put, Frozen!Loaded
<1>1. CASE Frozen!Adopt
  BY <1>1 DEF Frozen!Adopt, Frozen!Find
<1>2. CASE Frozen!Make
  <2>1. /\ Frozen!Empty \in Frozen!Directories
        /\ Sharded(Frozen!Empty) /\ Frozen!IndexAgrees(Frozen!Empty)
    BY DEF Frozen!Empty, Frozen!Directories, Frozen!Shards, Frozen!Maybe, Sharded,
           Frozen!Writable, Frozen!Adoptable, Frozen!IndexAgrees
  <2>2. QED
    BY <1>2, <2>1 DEF Frozen!Make, Frozen!MakePending
<1>3. CASE Frozen!WriteState
  <2>1. /\ pending' \in Frozen!Directories
        /\ Sharded(pending') /\ Frozen!IndexAgrees(pending')
        /\ pending'.state = mem.input
    BY <1>3 DEF Frozen!WriteState, Frozen!Empty, Frozen!Directories, Frozen!Shards,
       Frozen!Maybe, Sharded, Frozen!Writable, Frozen!Adoptable, Frozen!IndexAgrees
  <2>2. QED
    BY <1>3, <2>1 DEF Frozen!WriteState
<1>4. CASE Frozen!Resume
  BY <1>4 DEF Frozen!Resume, Frozen!Reopen, Frozen!SameBuild
<1>5. CASE Frozen!SaveSidecar \/ Frozen!SaveShard
  BY <1>5, FrozenShards
<1>6. CASE Frozen!Finalize
  <2> DEFINE c == CHOOSE c \in Frozen!Unindexed : \A d \in Frozen!Unindexed : c <= d
             index == [pending.index EXCEPT ![c] = pending.shard[c]]
  <2>1. c \in Frozen!Unindexed
    <3>1. Frozen!Unindexed \subseteq Nat /\ Frozen!Unindexed # {}
      BY <1>6 DEF Frozen!Finalize, Frozen!Unindexed
    <3>2. \E d \in Frozen!Unindexed : \A e \in Frozen!Unindexed : d <= e
      BY <3>1, Least
    <3>3. QED
      BY <3>2
  <2> HIDE DEF c
  <2>2. /\ pending' = [pending EXCEPT !.index = index]
        /\ UNCHANGED <<mem, final, registered, now, kills, swaps, pc>>
        /\ pc = "build" /\ Frozen!Missing = {}
    BY <1>6 DEF Frozen!Finalize, c
  <2>3. c \in Caches /\ pending \in Frozen!Directories /\ Sharded(pending)
    BY <2>1, <2>2 DEF Frozen!Unindexed
  <2>4. \A d \in Caches : index[d] = IF d = c THEN pending.shard[c] ELSE pending.index[d]
    BY <2>3 DEF Frozen!Directories
  <2>5. index \in [Caches -> Maybe([Batches -> Maybe(Contents)])]
    BY <2>3 DEF Frozen!Directories, Frozen!Shards, Frozen!Maybe, Contents, Frozen!Contents
  <2> HIDE DEF index
  <2>6. /\ pending' \in Frozen!Directories
        /\ pending'.index = index /\ pending'.shard = pending.shard
        /\ pending'.sidecar = pending.sidecar /\ pending'.state = pending.state
    BY <2>2, <2>3, <2>5 DEF Frozen!Directories, Frozen!Maybe, Contents, Frozen!Contents
  <2>7. \A d \in Caches, b \in Batches : pending.shard[d][b] # None
    <3>1. ASSUME NEW d \in Caches, NEW b \in Batches, pending.shard[d][b] = None
          PROVE  FALSE
      <4>1. <<b, d>> \in Frozen!Missing
        BY <3>1 DEF Frozen!Missing
      <4>2. QED
        BY <2>2, <4>1
    <3>2. QED
      BY <3>1
  <2>8. Sharded(pending') /\ Frozen!IndexAgrees(pending')
    BY <2>3, <2>4, <2>6, <2>7
       DEF Sharded, Frozen!Writable, Frozen!Adoptable, Frozen!IndexAgrees
  <2>9. QED
    BY <2>2, <2>6, <2>8
<1>7. CASE Frozen!Finalized
  BY <1>7 DEF Frozen!Finalized, Frozen!Missing, Frozen!Unindexed
<1>8. CASE Frozen!WriteReport
  <2>1. /\ pending' = [pending EXCEPT !.report = mem.input] /\ pending \in Frozen!Directories
        /\ UNCHANGED <<mem, final, registered, now, kills, swaps>>
        /\ pc = "report" /\ pc' = "publish"
    BY <1>8 DEF Frozen!WriteReport
  <2>2. /\ pending' \in Frozen!Directories
        /\ pending'.index = pending.index /\ pending'.shard = pending.shard
        /\ pending'.sidecar = pending.sidecar /\ pending'.state = pending.state
        /\ pending'.report = mem.input
    BY <2>1 DEF Frozen!Directories, Frozen!Maybe
  <2>3. Sharded(pending') /\ Frozen!IndexAgrees(pending')
    BY <2>1, <2>2 DEF Sharded, Frozen!Writable, Frozen!Adoptable, Frozen!IndexAgrees
  <2>4. Frozen!Missing' = {} /\ Frozen!Unindexed' = {}
    BY <2>1, <2>2 DEF Frozen!Missing, Frozen!Unindexed
  <2>5. QED
    BY <2>1, <2>2, <2>3, <2>4
<1>9. CASE Frozen!Publish
  <2>1. Frozen!Complete(pending)
    BY <1>9 DEF Frozen!Publish, Frozen!Complete, Frozen!Missing, Frozen!Unindexed,
                Sharded, Frozen!Writable, Frozen!IndexAgrees
  <2>2. QED
    BY <1>9, <2>1 DEF Frozen!Publish
<1>10. CASE Frozen!Register
  BY <1>10 DEF Frozen!Register
<1>11. CASE Frozen!Cut
  BY <1>11 DEF Frozen!Cut, Frozen!Kill
<1>12. CASE Change
  BY <1>12 DEF Change, Frozen!Missing, Frozen!Following, Frozen!Unindexed, Made
<1>13. CASE UNCHANGED bvars
  BY <1>13 DEF bvars, Frozen!Missing, Frozen!Following, Frozen!Unindexed, Made
<1>14. QED
  BY <1>1, <1>2, <1>3, <1>4, <1>5, <1>6, <1>7, <1>8, <1>9, <1>10, <1>11, <1>12, <1>13
     DEF Next, Work, Interruptions, Changes, vars, Frozen!Work

(***************************************************************************)
(* The mining                                                              *)
(***************************************************************************)
LEMMA MiningStart == ASSUME Init PROVE MiningInv
BY Begun DEF Init, Begin, MiningInv, MiningType, MiningVectors, MiningFiles, MiningPoints,
             ScorePoints, ProposalPoints, Single, Mining!Whole, Maybe

\* The scorer works on a vector that is not verified.
LEMMA CurrentUnscored ==
    ASSUME Mining!Unscored # {}, mem.input \in Inputs
    PROVE  /\ Mining!Current \in Vectors /\ ~Mining!Verified(Mining!Current)
           /\ Sought \in Vectors \X Inputs /\ Sought[2] = mem.input
<1>1. Mining!Unscored \subseteq Nat
  BY BuildsAssumption DEF Mining!Unscored
<1>2. \E v \in Mining!Unscored : \A w \in Mining!Unscored : v <= w
  BY <1>1, Least
<1>3. Mining!Current \in Mining!Unscored
  BY <1>2 DEF Mining!Current
<1>4. QED
  BY <1>3 DEF Mining!Unscored, Sought, Mining!Key

\* It goes on with the same vector as long as no other checksum is written.
LEMMA CurrentStays ==
    ASSUME mem'.input = mem.input,
           \A v \in Vectors : Mining!Verified(v)' <=> Mining!Verified(v)
    PROVE  /\ Mining!Unscored' = Mining!Unscored
           /\ Sought' = Sought
<1>1. Mining!Unscored' = Mining!Unscored
  BY DEF Mining!Unscored
<1>2. Mining!Current' = Mining!Current
  BY <1>1 DEF Mining!Current
<1>3. QED
  BY <1>1, <1>2 DEF Sought, Mining!Key

LEMMA MiningScore ==
    ASSUME MiningInv, Mining!Score
    PROVE  MiningInv'
<1> DEFINE K == Vectors \X Inputs
           k0 == Sought
<1>1. /\ pending \in Mining!Directories /\ final = None /\ pending # None
      /\ pending.state = mem.input /\ mem.input \in Inputs
      /\ Mining!Unscored # {}
      /\ \A k \in K : Vector(pending, k)
      /\ UNCHANGED <<now, kills, final, registered>>
  BY DEF MiningInv, MiningType, MiningFiles, MiningVectors, MiningPoints, ScorePoints, Maybe,
         Mining!Score, Mining!CreateProgress, Mining!CreateScores, Mining!OpenVector,
         Mining!WriteChunk, Mining!SaveProgress, Mining!SaveChecksum, Mining!Scoring,
         Mining!Step, Mining!Put
<1>2. /\ k0 \in K /\ k0[2] = mem.input /\ k0 = Mining!Key(Mining!Current)
      /\ Mining!Current \in Vectors /\ ~Mining!Verified(Mining!Current)
  BY <1>1, CurrentUnscored DEF Sought
<1>3. /\ pending.progress \in [K -> Maybe([done : 0..NumChunks, sha : BOOLEAN])]
      /\ pending.scores \in [K -> {None, Torn} \cup SUBSET Mining!Chunks]
  BY <1>1 DEF Mining!Directories, Mining!Maybe, Maybe
<1>4. pending.progress[k0] = None \/ pending.progress[k0].sha = FALSE
  BY <1>2, <1>3 DEF Mining!Verified, Maybe
<1>5. NumChunks \in Nat /\ (\A S \in SUBSET Mining!Chunks : S \notin {None, Torn})
  BY BuildsAssumption
<1> DEFINE Unlisted(dir) ==
        /\ dir.state = pending.state /\ dir.lists = pending.lists
        /\ dir.listsMeta = pending.listsMeta
\* What is common to the steps: another file of the vector, at a statement of the scorer.
<1>6. ASSUME pending' \in Mining!Directories, Unlisted(pending'),
             pc \in {"vector"} \cup ScorePoints, pc' \in {"vector"} \cup ScorePoints,
             mem' \in [input : Inputs] \cup [input : Inputs, chunk : 0..NumChunks],
             pc' \in {"chunk", "progress"} => mem' \in [input : Inputs, chunk : 0..NumChunks],
             mem'.input = mem.input,
             MiningVectors'
      PROVE  MiningInv'
  <2>1. pending' # None
    BY <1>6, BuildsAssumption
  <2>2. MiningType'
    BY <1>1, <1>6 DEF MiningInv, MiningType, MiningPoints, ScorePoints, Maybe
  <2>3. MiningFiles'
    BY <1>1, <1>6, <2>1
       DEF MiningInv, MiningFiles, MiningPoints, ScorePoints, ProposalPoints, OfLaunch
  <2>4. Single'
    BY <1>1, <1>6 DEF MiningInv, Single, ScorePoints
  <2>5. Mining!Whole'
    <3>1. Mining!Filled(pending')
      BY <1>6, <2>1 DEF Mining!Filled, MiningVectors, Vector
    <3>2. QED
      BY <1>1, <3>1 DEF Mining!Whole
  <2>6. QED
    BY <1>6, <2>2, <2>3, <2>4, <2>5 DEF MiningInv
\* The progress file of the vector is written, without a checksum or with it.
<1>7. ASSUME NEW done \in 0..NumChunks, NEW sha \in BOOLEAN,
             pending' = [pending EXCEPT !.progress = Mining!SetProgress(done, sha)]
      PROVE  /\ pending' \in Mining!Directories /\ Unlisted(pending')
             /\ pending'.scores = pending.scores
             /\ \A k \in K \ {k0} : pending'.progress[k] = pending.progress[k]
             /\ pending'.progress[k0] # None
             /\ pending'.progress[k0].done = done /\ pending'.progress[k0].sha = sha
  <2> DEFINE progress == [pending.progress EXCEPT ![k0] = [done |-> done, sha |-> sha]]
  <2>1. progress \in [K -> Maybe([done : 0..NumChunks, sha : BOOLEAN])]
    BY <1>2, <1>3 DEF Maybe
  <2>2. /\ \A k \in K \ {k0} : progress[k] = pending.progress[k]
        /\ progress[k0] = [done |-> done, sha |-> sha]
    BY <1>2, <1>3
  <2>3. pending' = [pending EXCEPT !.progress = progress]
    BY <1>2, <1>7 DEF Mining!SetProgress, Mining!Progress
  <2>4. progress[k0] # None /\ progress[k0].done = done /\ progress[k0].sha = sha
    <3>1. [done |-> done, sha |-> sha] \in [done : 0..NumChunks, sha : BOOLEAN]
      OBVIOUS
    <3>2. [done |-> done, sha |-> sha] # None
      BY <3>1, BuildsAssumption
    <3>3. QED
      BY <2>2, <3>2
  <2> HIDE DEF progress
  <2>5. pending' \in Mining!Directories /\ Unlisted(pending') /\ pending'.progress = progress
        /\ pending'.scores = pending.scores
    BY <1>1, <2>1, <2>3 DEF Mining!Directories, Mining!Maybe, Maybe
  <2>6. QED
    BY <2>2, <2>4, <2>5
\* The data of the vector are written.
<1>8. ASSUME NEW data \in {None, Torn} \cup SUBSET Mining!Chunks,
             pending' = [pending EXCEPT !.scores = [pending.scores EXCEPT ![k0] = data]]
      PROVE  /\ pending' \in Mining!Directories /\ Unlisted(pending')
             /\ pending'.progress = pending.progress
             /\ \A k \in K \ {k0} : pending'.scores[k] = pending.scores[k]
             /\ pending'.scores[k0] = data
  <2> DEFINE scores == [pending.scores EXCEPT ![k0] = data]
  <2>1. scores \in [K -> {None, Torn} \cup SUBSET Mining!Chunks]
    BY <1>2, <1>3
  <2>2. scores[k0] = data /\ \A k \in K \ {k0} : scores[k] = pending.scores[k]
    BY <1>2, <1>3
  <2>3. pending' = [pending EXCEPT !.scores = scores]
    BY <1>8
  <2> HIDE DEF scores
  <2>4. QED
    BY <1>1, <2>1, <2>2, <2>3 DEF Mining!Directories, Mining!Maybe, Maybe
<1>9. ASSUME mem'.input = mem.input,
             \A k \in K \ {k0} : pending'.progress[k] = pending.progress[k],
             pending'.progress[k0] = pending.progress[k0] \/ pending'.progress[k0].sha = FALSE
      PROVE  Mining!Unscored' = Mining!Unscored /\ Sought' = k0
  <2>1. ASSUME NEW v \in Vectors
        PROVE  Mining!Verified(v)' <=> Mining!Verified(v)
    <3>1. <<v, mem.input>> \in K
      BY <1>1
    <3>2. CASE <<v, mem.input>> # k0
      BY <1>9, <3>1, <3>2 DEF Mining!Verified, Mining!Key
    <3>3. CASE <<v, mem.input>> = k0
      BY <1>4, <1>9, <3>1, <3>3 DEF Mining!Verified, Mining!Key
    <3>4. QED
      BY <3>2, <3>3
  <2>2. QED
    BY <1>9, <2>1, CurrentStays
<1>10. CASE Mining!CreateProgress
  <2>1. /\ pending' = [pending EXCEPT !.progress = Mining!SetProgress(0, FALSE)]
        /\ pc = "vector" /\ pc' = "scores" /\ mem' = mem
        /\ pending.scores[k0] = None
    BY <1>2, <1>10 DEF Mining!CreateProgress, Mining!Scoring, Mining!Step, Mining!Put
  <2>2. /\ pending' \in Mining!Directories /\ Unlisted(pending')
        /\ pending'.scores = pending.scores
        /\ \A k \in K \ {k0} : pending'.progress[k] = pending.progress[k]
        /\ pending'.progress[k0] # None
        /\ pending'.progress[k0].done = 0 /\ pending'.progress[k0].sha = FALSE
    BY <1>5, <1>7, <2>1, 0 \in 0..NumChunks
  <2>3. Mining!Unscored' = Mining!Unscored /\ Sought' = k0
    BY <1>5, <1>9, <2>1, <2>2
  <2>5. \A k \in K : Vector(pending', k)
    <3>1. Vector(pending', k0)
      BY <1>1, <1>2, <2>1, <2>2 DEF Vector
    <3>2. ASSUME NEW k \in K \ {k0} PROVE Vector(pending', k)
      BY <1>1, <2>2, <3>2 DEF Vector
    <3>3. QED
      BY <3>1, <3>2
  <2>6. MiningVectors'
    BY <1>1, <1>2, <2>1, <2>2, <2>3, <2>5 DEF MiningVectors, ScorePoints
  <2>7. QED
    BY <1>6, <2>1, <2>2, <2>6 DEF MiningInv, MiningType, ScorePoints
<1>11. CASE Mining!CreateScores
  <2>1. /\ pending' = [pending EXCEPT !.scores = [pending.scores EXCEPT ![k0] = {}]]
        /\ pc = "scores" /\ pc' = "chunk" /\ mem' = [input |-> mem.input, chunk |-> 0]
    BY <1>2, <1>11 DEF Mining!CreateScores, Mining!Step
  <2>2. /\ pending' \in Mining!Directories /\ Unlisted(pending')
        /\ pending'.progress = pending.progress
        /\ \A k \in K \ {k0} : pending'.scores[k] = pending.scores[k]
        /\ pending'.scores[k0] = {}
    BY <1>8, <2>1
  <2>3. Mining!Unscored' = Mining!Unscored /\ Sought' = k0
    BY <1>9, <2>1, <2>2
  <2>4. pending.progress[k0] # None /\ pending.progress[k0].done = 0
    BY <2>1 DEF MiningInv, MiningVectors, ScorePoints
  <2>5. {} \notin {None, Torn}
    BY <1>5
  <2>6. \A k \in K : Vector(pending', k)
    BY <1>1, <1>2, <1>4, <2>2, <2>4 DEF Vector
  <2>7. MiningVectors'
    <3>1. pending'.scores[k0] \notin {None, Torn}
      BY <2>2, <2>5
    <3>2. pending'.progress[k0].done = 0 /\ pending'.progress[k0] # None /\ mem'.chunk = 0
      BY <2>1, <2>2, <2>4
    <3>3. QED
      BY <1>1, <2>1, <2>3, <2>6, <3>1, <3>2 DEF MiningVectors, ScorePoints
  <2>8. mem' \in [input : Inputs, chunk : 0..NumChunks]
    BY <1>1, <1>5, <2>1
  <2>9. QED
    BY <1>6, <2>1, <2>2, <2>7, <2>8 DEF ScorePoints
<1>12. CASE Mining!OpenVector
  <2>1. /\ pending' = pending /\ pc = "vector"
        /\ pending.progress[k0] # None /\ pending.scores[k0] # Torn
        /\ \/ pending.scores[k0] = None /\ pending.progress[k0].done = 0
              /\ pc' = "scores" /\ mem' = mem
           \/ pending.scores[k0] # None /\ pc' = "chunk"
              /\ mem' = [input |-> mem.input, chunk |-> pending.progress[k0].done]
    BY <1>2, <1>12 DEF Mining!OpenVector, Mining!Scoring, Mining!Step, Mining!Resumed
  <2>2. mem'.input = mem.input
    BY <2>1
  <2>3. Mining!Unscored' = Mining!Unscored /\ Sought' = k0
    BY <1>9, <2>1, <2>2
  <2>4. MiningVectors'
    BY <1>1, <2>1, <2>3 DEF MiningVectors, ScorePoints
  <2>5. pending.progress[k0].done \in 0..NumChunks
    BY <1>2, <1>3, <2>1 DEF Maybe
  <2>6. pc' = "chunk" => mem' \in [input : Inputs, chunk : 0..NumChunks]
    BY <1>1, <2>1, <2>5
  <2>7. QED
    BY <1>1, <1>6, <2>1, <2>2, <2>4, <2>6 DEF MiningInv, MiningType, ScorePoints
<1>13. CASE Mining!WriteChunk
  <2> DEFINE data == pending.scores[k0] \cup ({mem.chunk + 1} \cap Mining!Chunks)
  <2>1. /\ pending' = [pending EXCEPT !.scores = [pending.scores EXCEPT ![k0] = data]]
        /\ pc = "chunk" /\ pc' = "progress" /\ mem' = mem
    BY <1>2, <1>13 DEF Mining!WriteChunk, Mining!Step, Mining!Put
  <2>2. /\ pending.scores[k0] \in SUBSET Mining!Chunks
        /\ pending.progress[k0] # None /\ pending.progress[k0].done = mem.chunk
        /\ mem.chunk \in 0..NumChunks
    BY <1>2, <1>3, <2>1 DEF MiningInv, MiningVectors, MiningType, ScorePoints
  <2>3. data \in SUBSET Mining!Chunks /\ pending.scores[k0] \subseteq data
    BY <2>2
  <2>4. data \notin {None, Torn} /\ pending.scores[k0] \notin {None, Torn}
    BY <1>5, <2>2, <2>3
  <2>5. mem.chunk < NumChunks => mem.chunk + 1 \in data
    BY <1>5, <2>2 DEF Mining!Chunks
  <2> HIDE DEF data
  <2>6. /\ pending' \in Mining!Directories /\ Unlisted(pending')
        /\ pending'.progress = pending.progress
        /\ \A k \in K \ {k0} : pending'.scores[k] = pending.scores[k]
        /\ pending'.scores[k0] = data
    BY <1>8, <2>1, <2>3
  <2>7. Mining!Unscored' = Mining!Unscored /\ Sought' = k0
    BY <1>9, <2>1, <2>6
  <2>8. \A k \in K : Vector(pending', k)
    BY <1>1, <1>2, <1>4, <2>2, <2>3, <2>4, <2>6 DEF Vector
  <2>9. MiningVectors'
    BY <1>1, <1>2, <2>1, <2>2, <2>4, <2>5, <2>6, <2>7, <2>8 DEF MiningVectors, ScorePoints
  <2>10. QED
    BY <1>6, <2>1, <2>6, <2>9 DEF MiningInv, MiningType, ScorePoints
<1>14. CASE Mining!SaveProgress
  <2> DEFINE stop == IF mem.chunk < NumChunks THEN mem.chunk + 1 ELSE NumChunks
  <2>1. /\ pending' = [pending EXCEPT !.progress = Mining!SetProgress(stop, FALSE)]
        /\ pc = "progress" /\ pc' = (IF stop = NumChunks THEN "checksum" ELSE "chunk")
        /\ mem' = [mem EXCEPT !.chunk = stop]
    BY <1>2, <1>14 DEF Mining!SaveProgress, Mining!Step
  <2>2. /\ pending.scores[k0] \in SUBSET Mining!Chunks
        /\ pending.scores[k0] \notin {None, Torn}
        /\ pending.progress[k0] # None /\ pending.progress[k0].done = mem.chunk
        /\ mem.chunk < NumChunks => mem.chunk + 1 \in pending.scores[k0]
        /\ mem \in [input : Inputs, chunk : 0..NumChunks]
    BY <1>2, <1>3, <2>1 DEF MiningInv, MiningVectors, MiningType, ScorePoints
  <2>3. 1..mem.chunk \subseteq pending.scores[k0]
    BY <1>1, <1>2, <2>2 DEF Vector
  <2>4. stop \in 0..NumChunks /\ 1..stop \subseteq pending.scores[k0]
    BY <1>5, <2>2, <2>3
  <2>5. mem' = [input |-> mem.input, chunk |-> stop]
    BY <2>1, <2>2
  <2> HIDE DEF stop
  <2>6. /\ pending' \in Mining!Directories /\ Unlisted(pending')
        /\ pending'.scores = pending.scores
        /\ \A k \in K \ {k0} : pending'.progress[k] = pending.progress[k]
        /\ pending'.progress[k0] # None
        /\ pending'.progress[k0].done = stop /\ pending'.progress[k0].sha = FALSE
    BY <1>7, <2>1, <2>4
  <2>7. Mining!Unscored' = Mining!Unscored /\ Sought' = k0
    BY <1>9, <2>4, <2>5, <2>6
  <2>9. \A k \in K : Vector(pending', k)
    BY <1>1, <1>2, <2>2, <2>4, <2>6 DEF Vector
  <2>10. MiningVectors'
    BY <1>1, <1>2, <2>1, <2>2, <2>5, <2>6, <2>7, <2>9 DEF MiningVectors, ScorePoints
  <2>11. mem' \in [input : Inputs, chunk : 0..NumChunks] /\ mem'.input = mem.input
    BY <1>1, <2>4, <2>5
  <2>12. QED
    BY <1>6, <2>1, <2>6, <2>10, <2>11 DEF ScorePoints
<1>15. CASE Mining!SaveChecksum
  <2>1. /\ pending' = [pending EXCEPT !.progress = Mining!SetProgress(NumChunks, TRUE)]
        /\ pc = "checksum" /\ pc' = "vector" /\ mem' = mem
    BY <1>2, <1>15 DEF Mining!SaveChecksum, Mining!Step, Mining!Put
  <2>2. /\ pending.scores[k0] \notin {None, Torn}
        /\ pending.progress[k0] # None /\ pending.progress[k0].done = NumChunks
    BY <1>2, <2>1 DEF MiningInv, MiningVectors, ScorePoints
  <2>3. /\ pending' \in Mining!Directories /\ Unlisted(pending')
        /\ pending'.scores = pending.scores
        /\ \A k \in K \ {k0} : pending'.progress[k] = pending.progress[k]
        /\ pending'.progress[k0] # None
        /\ pending'.progress[k0].done = NumChunks /\ pending'.progress[k0].sha = TRUE
    BY <1>5, <1>7, <2>1, NumChunks \in 0..NumChunks
  <2>4. \A k \in K : Vector(pending', k)
    BY <1>1, <1>2, <2>2, <2>3 DEF Vector
  <2>5. MiningVectors'
    BY <2>1, <2>4 DEF MiningVectors, ScorePoints
  <2>6. QED
    BY <1>6, <2>1, <2>3, <2>5 DEF MiningInv, MiningType, ScorePoints
<1>16. QED
  BY <1>10, <1>11, <1>12, <1>13, <1>14, <1>15 DEF Mining!Score

\* A step that writes one of the other files, or none, leaves the vectors alone.
LEMMA VectorsStay ==
    ASSUME MiningInv, pending # None,
           pending'.progress = pending.progress, pending'.scores = pending.scores,
           pending'.state = pending.state, mem'.input = mem.input
    PROVE  /\ \A k \in Vectors \X Inputs : Vector(pending', k)
           /\ Mining!Filled(pending')
           /\ Mining!Unscored' = Mining!Unscored /\ Sought' = Sought
<1>1. \A k \in Vectors \X Inputs : Vector(pending', k)
  BY DEF MiningInv, MiningVectors, Vector
<1>2. Mining!Filled(pending')
  BY <1>1 DEF Mining!Filled, Vector
<1>3. \A v \in Vectors : Mining!Verified(v)' <=> Mining!Verified(v)
  BY DEF Mining!Verified, Mining!Key
<1>4. QED
  BY <1>1, <1>2, <1>3, CurrentStays

\* When every vector is verified, the data are complete.
LEMMA ScoredWhole ==
    ASSUME MiningInv, pending # None, Mining!Unscored = {}, pending.state = mem.input,
           mem.input \in Inputs
    PROVE  /\ \A v \in Vectors : pending.scores[<<v, mem.input>>] = Mining!Chunks
           /\ Mining!Scored(pending, mem.input) /\ Mining!Filled(pending)
<1> DEFINE K == Vectors \X Inputs
<1>1. /\ \A k \in K : Vector(pending, k)
      /\ pending.progress \in [K -> Maybe([done : 0..NumChunks, sha : BOOLEAN])]
      /\ pending.scores \in [K -> {None, Torn} \cup SUBSET Mining!Chunks]
  BY DEF MiningInv, MiningType, MiningVectors, Mining!Directories, Mining!Maybe, Maybe
<1>2. \A v \in Vectors : Mining!Verified(v)
  BY DEF Mining!Unscored
<1>3. ASSUME NEW k \in K, k[2] = mem.input
      PROVE  /\ pending.progress[k] # None
             /\ pending.progress[k] = [done |-> NumChunks, sha |-> TRUE]
             /\ pending.scores[k] = Mining!Chunks /\ pending.scores[k] # None
  <2>1. k = Mining!Key(k[1]) /\ k[1] \in Vectors
    BY <1>3 DEF Mining!Key
  <2>2. pending.progress[k] # None /\ pending.progress[k].sha
    BY <1>2, <2>1 DEF Mining!Verified
  <2>3. /\ pending.progress[k].done = NumChunks /\ pending.scores[k] \notin {None, Torn}
        /\ 1..NumChunks \subseteq pending.scores[k]
    BY <1>1, <2>2 DEF Vector
  <2>4. pending.scores[k] \in SUBSET Mining!Chunks
    BY <1>1, <2>3
  <2>5. pending.progress[k] \in [done : 0..NumChunks, sha : BOOLEAN]
    BY <1>1, <2>2 DEF Maybe
  <2>6. pending.progress[k] = [done |-> NumChunks, sha |-> TRUE]
    BY <2>2, <2>3, <2>5
  <2>7. QED
    BY <2>2, <2>3, <2>4, <2>6 DEF Mining!Chunks
<1>4. ASSUME NEW k \in K
      PROVE  pending.progress[k] # None \/ pending.scores[k] # None => k[2] = mem.input
  BY <1>1 DEF Vector
<1>5. Mining!Scored(pending, mem.input)
  BY <1>3, <1>4 DEF Mining!Scored, Mining!Progress
<1>6. Mining!Filled(pending)
  BY <1>1 DEF Mining!Filled, Vector
<1>7. QED
  BY <1>3, <1>5, <1>6

\* A kill while the data of a vector are created may leave a file without a header.
LEMMA MiningTorn ==
    ASSUME MiningInv, Mining!Cut, pending' # pending
    PROVE  MiningInv'
<1> DEFINE K == Vectors \X Inputs
           k0 == Sought
<1>1. /\ pc = "scores" /\ pc' = "down" /\ mem' = None
      /\ pending' = [pending EXCEPT !.scores = [pending.scores EXCEPT ![k0] = Torn]]
      /\ UNCHANGED <<now, final, registered>> /\ kills' = kills + 1 /\ kills < MaxKills
  BY DEF Mining!Cut, Mining!Kill, Sought
<1>2. /\ pending \in Mining!Directories /\ mem.input \in Inputs /\ final = None
      /\ kills \in 0..MaxKills /\ now \in Inputs /\ registered \in BOOLEAN
      /\ Mining!Unscored # {} /\ pending.progress[k0] # None
      /\ \A k \in K : Vector(pending, k)
  BY <1>1 DEF MiningInv, MiningType, MiningVectors, MiningFiles, MiningPoints, ScorePoints,
     Maybe
<1>3. /\ k0 \in K /\ ~Mining!Verified(Mining!Current) /\ k0 = Mining!Key(Mining!Current)
  BY <1>2, CurrentUnscored DEF Sought
<1>4. pending.progress[k0].sha = FALSE
  <2>1. pending.progress[k0] \in Maybe([done : 0..NumChunks, sha : BOOLEAN])
    BY <1>2, <1>3 DEF Mining!Directories, Mining!Maybe, Maybe
  <2>2. QED
    BY <1>2, <1>3, <2>1 DEF Mining!Verified, Maybe
<1> DEFINE scores == [pending.scores EXCEPT ![k0] = Torn]
<1>5. /\ scores \in [K -> {None, Torn} \cup SUBSET Mining!Chunks]
      /\ scores[k0] = Torn
      /\ \A k \in K \ {k0} : scores[k] = pending.scores[k]
  BY <1>2, <1>3 DEF Mining!Directories
<1>6. pending' = [pending EXCEPT !.scores = scores]
  BY <1>1
<1> HIDE DEF scores
<1>7. /\ pending' \in Mining!Directories /\ pending'.state = pending.state
      /\ pending'.progress = pending.progress /\ pending'.scores = scores
  BY <1>2, <1>5, <1>6 DEF Mining!Directories
<1>8. \A k \in K : Vector(pending', k)
  <2>1. Vector(pending', k0)
    BY <1>2, <1>3, <1>4, <1>5, <1>7 DEF Vector
  <2>2. ASSUME NEW k \in K \ {k0} PROVE Vector(pending', k)
    BY <1>2, <1>5, <1>7 DEF Vector
  <2>3. QED
    BY <2>1, <2>2
<1>9. Mining!Filled(pending')
  BY <1>8 DEF Vector, Mining!Filled
<1>10. kills' \in 0..MaxKills
  BY <1>1, <1>2, BuilderAssumption DEF BuilderAssumption
<1>11. MiningType'
  BY <1>1, <1>2, <1>7, <1>10 DEF MiningType, MiningPoints, ScorePoints, ProposalPoints, Maybe
<1>12. MiningVectors'
  BY <1>1, <1>8 DEF MiningVectors, ScorePoints
<1>13. MiningFiles' /\ Single' /\ Mining!Whole'
  BY <1>1, <1>2, <1>9
     DEF MiningInv, MiningFiles, MiningPoints, ScorePoints, ProposalPoints, Single, Mining!Whole
<1>14. QED
  BY <1>11, <1>12, <1>13 DEF MiningInv

LEMMA MiningKept ==
    ASSUME MiningInv, which = "mining", [Next]_vars
    PROVE  MiningInv'
<1> USE BuilderAssumption, BuildsAssumption
    DEF MiningInv, MiningType, MiningFiles, MiningPoints, ScorePoints, ProposalPoints,
        Single, Mining!Whole, Maybe, Contents, Mining!Step, Mining!Put, Mining!Loaded,
        Mining!Made, Made, OfLaunch
<1>1. CASE Mining!Adopt
  BY <1>1 DEF Mining!Adopt, Mining!Find, MiningVectors
<1>2. CASE Mining!Make
  <2>1. Mining!Empty \in Mining!Directories /\ Mining!Filled(Mining!Empty)
    BY DEF Mining!Empty, Mining!Directories, Mining!Maybe, Mining!Contents, Mining!Filled
  <2>2. \A k \in Vectors \X Inputs : Vector(Mining!Empty, k)
    BY DEF Mining!Empty, Vector
  <2>3. QED
    BY <1>2, <2>1, <2>2 DEF Mining!Make, Mining!MakePending, MiningVectors
<1>3. CASE Mining!WriteState
  <2>1. /\ pc = "state" /\ pc' = "build" /\ mem' = mem /\ pending = Mining!Empty
        /\ UNCHANGED <<now, kills, final, registered>> /\ final = None
        /\ mem.input \in Inputs /\ pending' = [pending EXCEPT !.state = mem.input]
    BY <1>3 DEF Mining!WriteState
  <2>2. pending' \in Mining!Directories /\ pending'.state = mem.input
    BY <2>1 DEF Mining!Empty, Mining!Directories, Mining!Maybe, Mining!Contents
  <2>3. \A k \in Vectors \X Inputs : Vector(pending', k)
    BY <2>1 DEF Mining!Empty, Vector
  <2>4. Mining!Filled(pending')
    BY <2>1 DEF Mining!Empty, Mining!Filled
  <2>5. QED
    BY <2>1, <2>2, <2>3, <2>4 DEF MiningVectors
<1>4. CASE Mining!Resume
  BY <1>4 DEF Mining!Resume, Mining!Reopen, Mining!SameBuild, MiningVectors
<1>5. CASE Mining!LoadLists
  <2>1. pending \in Mining!Directories
    BY <1>5 DEF Mining!LoadLists
  <2>2. QED
    BY <1>5, <2>1, VectorsStay
       DEF Mining!LoadLists, MiningVectors, Mining!Directories, Mining!Maybe, Mining!Contents
<1>6. CASE \/ Mining!WriteLists \/ Mining!WriteListsMeta \/ Mining!WriteCoverage
           \/ Mining!WriteProposals \/ Mining!WriteProposalsMeta \/ Mining!WriteRejections
           \/ Mining!WriteReport
  <2>1. /\ pending \in Mining!Directories /\ pending # None /\ final = None
        /\ pending.state = mem.input /\ mem.input \in Inputs
        /\ UNCHANGED <<now, kills, final, registered, mem>>
        /\ Mining!Made \in Contents /\ Mining!Made.input = mem.input
    BY <1>6 DEF Mining!WriteLists, Mining!WriteListsMeta, Mining!WriteCoverage,
       Mining!WriteProposals, Mining!WriteProposalsMeta, Mining!WriteRejections,
       Mining!WriteReport
  <2>2. /\ pending' \in Mining!Directories /\ pending'.state = pending.state
        /\ pending'.progress = pending.progress /\ pending'.scores = pending.scores
    BY <1>6, <2>1 DEF Mining!WriteLists, Mining!WriteListsMeta, Mining!WriteCoverage,
       Mining!WriteProposals, Mining!WriteProposalsMeta, Mining!WriteRejections,
       Mining!WriteReport, Mining!Directories, Mining!Maybe, Mining!Contents
  <2>3. /\ \A k \in Vectors \X Inputs : Vector(pending', k)
        /\ Mining!Filled(pending')
        /\ Mining!Unscored' = Mining!Unscored
    BY <2>1, <2>2, VectorsStay
  <2>4. pc' \in MiningPoints \ ({"state"} \cup ScorePoints)
    BY <1>6 DEF Mining!WriteLists, Mining!WriteListsMeta, Mining!WriteCoverage,
       Mining!WriteProposals, Mining!WriteProposalsMeta, Mining!WriteRejections,
       Mining!WriteReport
  <2>5. pending' # None
    BY <2>2
  <2>6. MiningType' /\ Single' /\ Mining!Whole'
    <3>1. mem' = mem /\ pc # "down"
      BY <2>1, <2>4, <1>6 DEF Mining!WriteLists, Mining!WriteListsMeta, Mining!WriteCoverage,
         Mining!WriteProposals, Mining!WriteProposalsMeta, Mining!WriteRejections,
         Mining!WriteReport
    <3>2. MiningType'
      BY <2>1, <2>2, <2>4, <3>1
    <3>3. Single'
      BY <2>1, <2>4
    <3>4. Mining!Whole'
      BY <2>1, <2>3
    <3>5. QED
      BY <3>2, <3>3, <3>4
  <2>7. MiningVectors'
    BY <2>3, <2>4 DEF MiningVectors
  <2>8. MiningFiles'
    <3> USE <2>1, <2>2, <2>3, <2>4, <2>5 DEF Mining!Directories
    <3>1. CASE Mining!WriteLists
      BY <3>1 DEF Mining!WriteLists
    <3>2. CASE Mining!WriteListsMeta
      BY <3>2 DEF Mining!WriteListsMeta
    <3>3. CASE Mining!WriteCoverage
      BY <3>3 DEF Mining!WriteCoverage
    <3>4. CASE Mining!WriteProposals
      BY <3>4 DEF Mining!WriteProposals
    <3>5. CASE Mining!WriteProposalsMeta
      BY <3>5 DEF Mining!WriteProposalsMeta
    <3>6. CASE Mining!WriteRejections
      BY <3>6 DEF Mining!WriteRejections
    <3>7. CASE Mining!WriteReport
      BY <3>7 DEF Mining!WriteReport
    <3>8. QED
      BY <1>6, <3>1, <3>2, <3>3, <3>4, <3>5, <3>6, <3>7
  <2>9. QED
    BY <2>6, <2>7, <2>8
<1>7. CASE Mining!Score
  BY <1>7, MiningScore
<1>8. CASE Mining!Publish
  <2>1. /\ pc = "publish" /\ pc' = "register" /\ pending # None /\ pending.state = mem.input
        /\ final' = pending /\ pending' = None
        /\ UNCHANGED <<now, kills, registered, mem>>
    BY <1>8 DEF Mining!Publish
  <2>2. Mining!Complete(pending)
    BY <1>8, <2>1, ScoredWhole DEF Mining!Complete
  <2>3. QED
    BY <2>1, <2>2 DEF MiningVectors
<1>9. CASE Mining!Register
  BY <1>9 DEF Mining!Register, MiningVectors
<1>10. CASE Mining!Cut
  <2>1. CASE pending' = pending
    BY <1>10, <2>1 DEF Mining!Cut, Mining!Kill, MiningVectors
  <2>2. CASE pending' # pending
    BY <1>10, <2>2, MiningTorn
  <2>3. QED
    BY <2>1, <2>2
<1>11. CASE Change
  <2>1. UNCHANGED <<pc, mem, pending, final, registered, kills>> /\ now' \in Inputs
    BY <1>11 DEF Change
  <2>2. Mining!Unscored' = Mining!Unscored /\ Sought' = Sought
    BY <2>1 DEF Mining!Unscored, Mining!Verified, Mining!Key, Sought, Mining!Current
  <2>3. QED
    BY <2>1, <2>2 DEF MiningVectors
<1>12. CASE UNCHANGED bvars
  <2>1. UNCHANGED <<pc, mem, pending, final, registered, kills, now>>
    BY <1>12 DEF bvars
  <2>2. Mining!Unscored' = Mining!Unscored /\ Sought' = Sought
    BY <2>1 DEF Mining!Unscored, Mining!Verified, Mining!Key, Sought, Mining!Current
  <2>3. QED
    BY <2>1, <2>2 DEF MiningVectors
<1>13. QED
  BY <1>1, <1>2, <1>3, <1>4, <1>5, <1>6, <1>7, <1>8, <1>9, <1>10, <1>11, <1>12
     DEF Next, Work, Interruptions, Changes, vars, Mining!Work

(***************************************************************************)
(* The audit export                                                        *)
(***************************************************************************)
LEMMA ExportStart == ASSUME Init PROVE ExportInv
BY Begun DEF Init, Begin, ExportInv, ExportType, ExportFiles, Single, Export!Whole, Maybe

LEMMA ReportedDirectory ==
    ASSUME NEW dir \in Export!Directories, NEW input \in Inputs,
           NEW hashes \in Maybe(Contents) \X Maybe(Contents)
    PROVE  [dir EXCEPT !.report = input, !.hashes = hashes] \in Export!Directories
BY DEF Export!Directories, Export!Maybe, Export!Contents, Maybe, Contents

LEMMA ExportKept ==
    ASSUME ExportInv, which = "export", [Next]_vars
    PROVE  ExportInv'
<1> USE BuilderAssumption, BuildsAssumption
    DEF ExportInv, ExportType, ExportFiles, Single, Export!Whole, Export!Complete, OfLaunch,
        Export!Hashes, Contents, Maybe, Export!Contents, Export!Maybe, Export!Directories,
        Export!Step, Export!Put, Export!Made, Export!Loaded
<1>1. CASE Export!Adopt
  BY <1>1 DEF Export!Adopt, Export!Find
<1>2. CASE Export!Make
  BY <1>2 DEF Export!Make, Export!Empty
<1>3. CASE Export!WriteSheet
  BY <1>3 DEF Export!WriteSheet
<1>4. CASE Export!WriteTemplate
  BY <1>4 DEF Export!WriteTemplate
<1>5. CASE Export!SaveReport
  <2> USE <1>5 DEF Export!SaveReport
  <2>1. pending \in Export!Directories
    OBVIOUS
  <2>2. pending' = [pending EXCEPT !.report = mem.input, !.hashes = Export!Hashes(pending)]
    OBVIOUS
  <2>3. Export!Hashes(pending) \in Maybe(Contents) \X Maybe(Contents)
    BY <2>1
  <2>4. pending' \in Export!Directories
    <3>1. mem.input \in Inputs
      OBVIOUS
    <3> HIDE <1>5, BuilderAssumption, BuildsAssumption
           DEF ExportInv, ExportType, ExportFiles, Single, Export!Whole, Export!Complete,
               OfLaunch, Export!Hashes, Contents, Maybe, Export!Contents, Export!Maybe,
               Export!Directories, Export!SaveReport
    <3>2. QED
      BY <2>1, <2>2, <2>3, <3>1, ReportedDirectory
  <2>5. ExportType'
    BY <2>4
  <2>6. ExportFiles' /\ Single' /\ Export!Whole'
    BY <2>1, <2>4
  <2>7. QED
    BY <2>5, <2>6
<1>6. CASE Export!Publish
  BY <1>6 DEF Export!Publish
<1>7. CASE Export!Register
  BY <1>7 DEF Export!Register
<1>8. CASE Export!Cut
  BY <1>8 DEF Export!Cut, Export!Kill
<1>9. CASE Change
  BY <1>9 DEF Change
<1>10. CASE UNCHANGED bvars
  BY <1>10 DEF bvars
<1>11. QED
  BY <1>1, <1>2, <1>3, <1>4, <1>5, <1>6, <1>7, <1>8, <1>9, <1>10
     DEF Next, Work, Interruptions, Changes, vars, Export!Work

(***************************************************************************)
(* The bank                                                                *)
(***************************************************************************)
LEMMA BankStart == ASSUME Init PROVE BankInv
BY Begun DEF Init, Begin, BankInv, BankType, BankMemory, BankFiles, BankPoints, CopyPoints,
             Single, Bank!Whole, Maybe

LEMMA BankKept ==
    ASSUME BankInv, which = "bank", [Next]_vars
    PROVE  BankInv'
<1> USE BuilderAssumption, BuildsAssumption
    DEF BankInv, BankType, BankMemory, BankFiles, BankPoints, CopyPoints, Single,
        Bank!Whole, Bank!Complete, Bank!Edited, Maybe, Bank!Maybe, Bank!Directories,
        Bank!Banks, Bank!Step, Bank!Put, Bank!Loaded, Bank!Relaunched
<1>1. CASE Bank!Adopt
  BY <1>1 DEF Bank!Adopt
<1>2. CASE Bank!ReadDecision
  BY <1>2 DEF Bank!ReadDecision
<1>3. CASE Bank!HashDecision
  BY <1>3 DEF Bank!HashDecision
<1>4. CASE Bank!Make
  BY <1>4 DEF Bank!Make, Bank!Empty
<1>5. CASE Bank!Resume
  BY <1>5 DEF Bank!Resume
<1>6. CASE Bank!SaveState
  BY <1>6 DEF Bank!SaveState
<1>7. CASE Bank!WriteBank
  BY <1>7 DEF Bank!WriteBank
<1>8. CASE Bank!WriteBankMeta
  BY <1>8 DEF Bank!WriteBankMeta
<1>9. CASE Bank!CopyDecision
  BY <1>9 DEF Bank!CopyDecision
<1>10. CASE Bank!CopyAnnotation
  BY <1>10 DEF Bank!CopyAnnotation
<1>11. CASE Bank!WriteRejections
  BY <1>11 DEF Bank!WriteRejections
<1>12. CASE Bank!SaveReport
  BY <1>12 DEF Bank!SaveReport
<1>13. CASE Bank!Publish
  BY <1>13 DEF Bank!Publish
<1>14. CASE Bank!Register
  BY <1>14 DEF Bank!Register
<1>15. CASE Bank!Cut
  BY <1>15 DEF Bank!Cut, Bank!Kill
<1>16. CASE Change
  <2> USE <1>16 DEF Change
  <2>1. BankType' /\ Single'
    OBVIOUS
  <2>2. Bank!Edited => Bank!Edited'
    OBVIOUS
  <2>3. pc \in CopyPoints \cup {"hash"} => Bank!Edited'
    OBVIOUS
  <2>4. BankMemory'
    BY <2>2, <2>3
  <2>5. BankFiles'
    BY <2>2
  <2>6. Bank!Whole'
    BY <2>2
  <2>7. QED
    BY <2>1, <2>4, <2>5, <2>6
<1>17. CASE UNCHANGED bvars
  BY <1>17 DEF bvars
<1>18. QED
  BY <1>1, <1>2, <1>3, <1>4, <1>5, <1>6, <1>7, <1>8, <1>9, <1>10, <1>11, <1>12,
     <1>13, <1>14, <1>15, <1>16, <1>17
     DEF Next, Work, Interruptions, Changes, vars, Bank!Work

(***************************************************************************)
(* The auxiliary cache                                                     *)
(***************************************************************************)
LEMMA AuxStart == ASSUME Init PROVE AuxInv
BY Begun DEF Init, Begin, AuxInv, AuxType, AuxFiles, Aux!Whole, Maybe

LEMMA AuxKept ==
    ASSUME AuxInv, which = "aux", [Next]_vars
    PROVE  AuxInv'
<1> USE BuilderAssumption, BuildsAssumption
    DEF AuxInv, AuxType, AuxFiles, Aux!Whole, Aux!Complete, OfLaunch, Contents, Maybe,
        Aux!Contents, Aux!Maybe, Aux!Directories, Aux!Published, Aux!Step, Aux!Put,
        Aux!Made, Aux!Loaded
<1>1. CASE Aux!Reuse
  BY <1>1 DEF Aux!Reuse
<1>2. CASE Aux!Mine
  BY <1>2 DEF Aux!Mine
<1>3. CASE Aux!SaveBank
  BY <1>3 DEF Aux!SaveBank, Aux!Empty
<1>4. CASE Aux!SaveVocab
  BY <1>4 DEF Aux!SaveVocab
<1>5. CASE Aux!SaveGraph
  BY <1>5 DEF Aux!SaveGraph
<1>6. CASE Aux!SaveRecords
  BY <1>6 DEF Aux!SaveRecords
<1>7. CASE Aux!SaveMeta
  BY <1>7 DEF Aux!SaveMeta
<1>8. CASE Aux!Cut
  BY <1>8 DEF Aux!Cut, Aux!Kill, Aux!Empty
<1>9. CASE Change
  BY <1>9 DEF Change
<1>10. CASE UNCHANGED bvars
  BY <1>10 DEF bvars
<1>11. QED
  BY <1>1, <1>2, <1>3, <1>4, <1>5, <1>6, <1>7, <1>8, <1>9, <1>10
     DEF Next, Work, Interruptions, Changes, vars, Aux!Work

(***************************************************************************)
(* The spans                                                               *)
(***************************************************************************)
LEMMA SpansStart == ASSUME Init PROVE SpansInv
BY Begun DEF Init, Begin, SpansInv, SpansType, SpansMemory, SpansFiles, Spans!Whole, Maybe,
       ReferencePoints, BundlePoints

LEMMA SpansReference ==
    ASSUME SpansInv,
           \/ Spans!HashIdentity \/ Spans!LoadTeacher \/ Spans!LoadRecords
           \/ Spans!StageArrays \/ Spans!StageIndexes \/ Spans!ReplaceReference
    PROVE  SpansInv'
<1> USE BuilderAssumption, BuildsAssumption
    DEF SpansInv, SpansType, SpansMemory, SpansFiles, Spans!Whole, Spans!Complete,
        ReferencePoints, BundlePoints, Spans!Encoded, Spans!Step, Spans!Unwritten,
        Spans!Put, Maybe, Spans!Maybe, Spans!Encodings, Spans!Bundles, Spans!References,
        Spans!PendingReferences, ReferenceStill, BundleStill
<1>1. CASE Spans!HashIdentity
  BY <1>1 DEF Spans!HashIdentity, Spans!Identify
<1>2. CASE Spans!LoadTeacher
  BY <1>2 DEF Spans!LoadTeacher, Spans!Reads
<1>3. CASE Spans!LoadRecords
  BY <1>3 DEF Spans!LoadRecords, Spans!Reads
<1>4. CASE Spans!StageArrays
  BY <1>4 DEF Spans!StageArrays
<1>5. CASE Spans!StageIndexes
  BY <1>5 DEF Spans!StageIndexes
<1>6. CASE Spans!ReplaceReference
  BY <1>6 DEF Spans!ReplaceReference
<1>7. QED
  BY <1>1, <1>2, <1>3, <1>4, <1>5, <1>6

LEMMA SpansBundle ==
    ASSUME SpansInv,
           \/ Spans!ValidateReference \/ Spans!LoadCaptions \/ Spans!EncodeNegatives
           \/ Spans!HashManifests \/ Spans!StageMining \/ Spans!StageNegatives
           \/ Spans!ReplaceBundle
    PROVE  SpansInv'
<1> USE BuilderAssumption, BuildsAssumption
    DEF SpansInv, SpansType, SpansMemory, SpansFiles, Spans!Whole, Spans!Complete,
        ReferencePoints, BundlePoints, Spans!Encoded, Spans!Step, Spans!Unwritten,
        Spans!Put, Maybe, Spans!Maybe, Spans!Encodings, Spans!Bundles, Spans!References,
        Spans!PendingReferences, ReferenceStill, BundleStill
<1>1. CASE Spans!ValidateReference
  BY <1>1 DEF Spans!ValidateReference, Spans!ValidReference, Spans!Identify
<1>2. CASE Spans!LoadCaptions
  BY <1>2 DEF Spans!LoadCaptions, Spans!Reads
<1>3. CASE Spans!EncodeNegatives
  BY <1>3 DEF Spans!EncodeNegatives, Spans!Reads
<1>4. CASE Spans!HashManifests
  BY <1>4 DEF Spans!HashManifests, Spans!Reads
<1>5. CASE Spans!StageMining
  BY <1>5 DEF Spans!StageMining
<1>6. CASE Spans!StageNegatives
  BY <1>6 DEF Spans!StageNegatives
<1>7. CASE Spans!ReplaceBundle
  BY <1>7 DEF Spans!ReplaceBundle
<1>8. QED
  BY <1>1, <1>2, <1>3, <1>4, <1>5, <1>6, <1>7

LEMMA SpansOther ==
    ASSUME SpansInv, Spans!Open \/ Spans!Cut \/ Change \/ UNCHANGED bvars
    PROVE  SpansInv'
<1> USE BuilderAssumption, BuildsAssumption
    DEF SpansInv, SpansType, SpansMemory, SpansFiles, Spans!Whole, Spans!Complete,
        ReferencePoints, BundlePoints, Spans!Encoded, Spans!Unwritten,
        Maybe, Spans!Maybe, Spans!References, ReferenceStill, BundleStill
<1>1. CASE Spans!Open
  BY <1>1 DEF Spans!Open, Spans!Step, Spans!Identify
<1>2. CASE Spans!Cut
  <2>1. SpansType'
    BY <1>2 DEF Spans!Cut, Spans!Kill
  <2>2. SpansMemory' /\ SpansFiles'
    BY <1>2 DEF Spans!Cut, Spans!Kill
  <2>3. Spans!Whole'
    BY <1>2 DEF Spans!Cut, Spans!Kill
  <2>4. QED
    BY <2>1, <2>2, <2>3
<1>3. CASE Change
  BY <1>3 DEF Change, Spans!PendingReferences, Spans!Bundles
<1>4. CASE UNCHANGED bvars
  BY <1>4 DEF bvars
<1>5. QED
  BY <1>1, <1>2, <1>3, <1>4

LEMMA SpansKept ==
    ASSUME SpansInv, which = "spans", [Next]_vars
    PROVE  SpansInv'
BY SpansReference, SpansBundle, SpansOther
   DEF Next, Work, Interruptions, Changes, vars, Spans!Work
(***************************************************************************)
(* All of them                                                             *)
(***************************************************************************)
Builders == {"frozen", "mining", "export", "bank", "aux", "spans"}

BuildsInv ==
    /\ which \in Builders
    /\ which = "frozen" => FrozenInv
    /\ which = "mining" => MiningInv
    /\ which = "export" => ExportInv
    /\ which = "bank" => BankInv
    /\ which = "aux" => AuxInv
    /\ which = "spans" => SpansInv

LEMMA BuildsStart == ASSUME Init PROVE BuildsInv
BY FrozenStart, MiningStart, ExportStart, BankStart, AuxStart, SpansStart
   DEF Init, BuildsInv, Builders

LEMMA BuildsKept == ASSUME BuildsInv, [Next]_vars PROVE BuildsInv'
<1>1. UNCHANGED which
  BY DEF Next, Work, Interruptions, Changes, vars
<1>2. QED
  BY <1>1, FrozenKept, MiningKept, ExportKept, BankKept, AuxKept, SpansKept DEF BuildsInv

LEMMA BuildsAlways == Spec => []BuildsInv
BY BuildsStart, BuildsKept, PTL DEF Spec

LEMMA BuildsAreWhole == ASSUME BuildsInv PROVE Whole
<1>1. CASE which = "frozen"
  BY <1>1 DEF BuildsInv, FrozenInv, Whole
<1>2. CASE which = "mining"
  BY <1>2 DEF BuildsInv, MiningInv, Whole
<1>3. CASE which = "export"
  BY <1>3 DEF BuildsInv, ExportInv, Whole
<1>4. CASE which = "bank"
  BY <1>4 DEF BuildsInv, BankInv, Whole
<1>5. CASE which = "aux"
  BY <1>5 DEF BuildsInv, AuxInv, Whole
<1>6. CASE which = "spans"
  BY <1>6 DEF BuildsInv, SpansInv, Whole
<1>7. QED
  BY <1>1, <1>2, <1>3, <1>4, <1>5, <1>6 DEF BuildsInv, Builders

\* The files of an artifact agree with each other, published or being written,
\* wherever the builders of dive, ELSC and SSSC were killed and whenever their
\* inputs changed: the indexes of the frozen caches describe their shards, the
\* progress of the pair scorer counts chunks that are there, a published directory
\* is complete and of the one input it names.
THEOREM ArtifactsAreWhole == Spec => []Whole
BY BuildsAlways, BuildsAreWhole, PTL
(***************************************************************************)
(* A build is atomic                                                       *)
(***************************************************************************)
\* The input of the directory being filled, and of the published one.
Opened == IF pending = None \/ final # None THEN None ELSE pending.state
Named == IF which = "aux" THEN final.files.state ELSE final.report
Shown == IF final = None THEN None ELSE Named

\* What is published is complete, so that the abstraction shows its input.
LEMMA PublishedIsFinished ==
    ASSUME BuildsInv, final # None
    PROVE  Finished(final)
<1>1. CASE which = "frozen"
  BY <1>1 DEF BuildsInv, FrozenInv, Frozen!Whole, Finished
<1>2. CASE which = "mining"
  BY <1>2 DEF BuildsInv, MiningInv, Mining!Whole, Finished
<1>3. CASE which = "export"
  BY <1>3 DEF BuildsInv, ExportInv, Export!Whole, Finished
<1>4. CASE which = "bank"
  BY <1>4 DEF BuildsInv, BankInv, Bank!Whole, Finished
<1>5. CASE which = "aux"
  BY <1>5 DEF BuildsInv, AuxInv, Aux!Whole, Finished
<1>6. CASE which = "spans"
  BY <1>6 DEF BuildsInv, SpansInv, Spans!Whole, Finished
<1>7. QED
  BY <1>1, <1>2, <1>3, <1>4, <1>5, <1>6 DEF BuildsInv, Builders

\* What MCBuilds substitutes for `published`.
Outcome ==
    IF final = None THEN None
    ELSE IF ~Finished(final) THEN Broken
    ELSE IF which = "aux" THEN final.files.state ELSE final.report

LEMMA OutcomeIsShown == ASSUME BuildsInv PROVE Outcome = Shown
BY PublishedIsFinished DEF Outcome, Shown, Named

\* The steps of StageBuild, and stuttering, on the two inputs.
Opens == Opened = None /\ Shown = None /\ Opened' \in Inputs /\ Shown' = None
             /\ registered' = registered
Publishes == Opened # None /\ Shown = None /\ Shown' = Opened /\ Opened' = None
             /\ registered' = registered
Abandons == Opened # None /\ Opened' = None /\ Shown' = Shown /\ registered' = registered
Registers == Shown # None /\ registered' = TRUE /\ Opened' = Opened /\ Shown' = Shown
Stays == Opened' = Opened /\ Shown' = Shown /\ registered' = registered

Atomic == Opens \/ Publishes \/ Abandons \/ Registers \/ Stays

LEMMA FrozenAtomic ==
    ASSUME FrozenInv, FrozenInv', which = "frozen", which' = which, [Next]_vars
    PROVE  Atomic
<1> USE BuilderAssumption, BuildsAssumption
    DEF Atomic, Opens, Publishes, Registers, Stays, Opened, Shown, Named, FrozenInv,
        FrozenType, FrozenFiles, FrozenPoints, Single, Maybe, BuilderAssumption
<1>1. CASE Frozen!Adopt \/ Frozen!Resume \/ Frozen!Finalized
  BY <1>1 DEF Frozen!Adopt, Frozen!Find, Frozen!Resume, Frozen!Reopen, Frozen!Finalized
<1>2. CASE Frozen!Make
  BY <1>2 DEF Frozen!Make, Frozen!MakePending, Frozen!Empty
<1>3. CASE Frozen!WriteState
  <2>1. /\ pending.state = None /\ final = None /\ final' = None /\ registered' = registered
        /\ pending' # None /\ pending'.state \in Inputs
    BY <1>3 DEF Frozen!WriteState, Frozen!Step, Frozen!Put, Frozen!Empty
  <2>2. Opens
    BY <2>1
  <2>3. QED
    BY <2>2
<1>4. CASE Frozen!SaveSidecar \/ Frozen!SaveShard \/ Frozen!Finalize \/ Frozen!WriteReport
  BY <1>4 DEF Frozen!SaveSidecar, Frozen!SaveShard, Frozen!Finalize, Frozen!WriteReport,
     Frozen!Put, Frozen!Directories, Frozen!Step
<1>5. CASE Frozen!Publish
  BY <1>5 DEF Frozen!Publish, Frozen!Step
<1>6. CASE Frozen!Register
  BY <1>6 DEF Frozen!Register, Frozen!Step
<1>7. CASE Frozen!Cut \/ Change \/ UNCHANGED bvars
  BY <1>7 DEF Frozen!Cut, Frozen!Kill, Change, bvars
<1>8. QED
  BY <1>1, <1>2, <1>3, <1>4, <1>5, <1>6, <1>7
     DEF Next, Work, Interruptions, Changes, vars, Frozen!Work

LEMMA MiningAtomic ==
    ASSUME MiningInv, MiningInv', which = "mining", which' = which, [Next]_vars
    PROVE  Atomic
<1> USE BuilderAssumption, BuildsAssumption
    DEF Atomic, Opens, Publishes, Registers, Stays, Opened, Shown, Named, MiningInv,
        MiningType, MiningFiles, MiningPoints, ScorePoints, ProposalPoints, Single, Maybe,
        BuilderAssumption
<1>1. CASE Mining!Adopt \/ Mining!Resume \/ Mining!LoadLists \/ Mining!OpenVector
  BY <1>1 DEF Mining!Adopt, Mining!Find, Mining!Resume, Mining!Reopen, Mining!LoadLists,
     Mining!OpenVector
<1>2. CASE Mining!Make
  BY <1>2 DEF Mining!Make, Mining!MakePending, Mining!Empty
<1>3. CASE Mining!WriteState
  <2>1. /\ pending.state = None /\ final = None /\ final' = None /\ registered' = registered
        /\ pending' # None /\ pending'.state \in Inputs
    BY <1>3 DEF Mining!WriteState, Mining!Step, Mining!Put, Mining!Empty
  <2>2. Opens
    BY <2>1
  <2>3. QED
    BY <2>2
<1>4. CASE \/ Mining!WriteLists \/ Mining!WriteListsMeta \/ Mining!WriteCoverage
           \/ Mining!WriteProposals \/ Mining!WriteProposalsMeta \/ Mining!WriteRejections
           \/ Mining!WriteReport \/ Mining!WriteChunk \/ Mining!SaveChecksum
           \/ Mining!CreateProgress
  <2>1. /\ final = None /\ UNCHANGED <<final, registered>>
        /\ pending # None /\ pending \in Mining!Directories /\ pc' \in MiningPoints
    BY <1>4 DEF Mining!WriteLists, Mining!WriteListsMeta, Mining!WriteCoverage,
       Mining!WriteProposals, Mining!WriteProposalsMeta, Mining!WriteRejections,
       Mining!WriteReport, Mining!WriteChunk, Mining!SaveChecksum, Mining!CreateProgress,
       Mining!Step, Mining!Put
  <2>2. pending'.state = pending.state
    <3>1. CASE Mining!WriteLists
      BY <2>1, <3>1 DEF Mining!WriteLists, Mining!Put, Mining!Directories
    <3>2. CASE Mining!WriteListsMeta
      BY <2>1, <3>2 DEF Mining!WriteListsMeta, Mining!Put, Mining!Directories
    <3>3. CASE Mining!WriteCoverage
      BY <2>1, <3>3 DEF Mining!WriteCoverage, Mining!Put, Mining!Directories
    <3>4. CASE Mining!WriteProposals
      BY <2>1, <3>4 DEF Mining!WriteProposals, Mining!Put, Mining!Directories
    <3>5. CASE Mining!WriteProposalsMeta
      BY <2>1, <3>5 DEF Mining!WriteProposalsMeta, Mining!Put, Mining!Directories
    <3>6. CASE Mining!WriteRejections
      BY <2>1, <3>6 DEF Mining!WriteRejections, Mining!Put, Mining!Directories
    <3>7. CASE Mining!WriteReport
      BY <2>1, <3>7 DEF Mining!WriteReport, Mining!Put, Mining!Directories
    <3>8. CASE Mining!WriteChunk
      BY <2>1, <3>8 DEF Mining!WriteChunk, Mining!Put, Mining!Directories
    <3>9. CASE Mining!SaveChecksum
      BY <2>1, <3>9 DEF Mining!SaveChecksum, Mining!Put, Mining!Directories
    <3>10. CASE Mining!CreateProgress
      BY <2>1, <3>10 DEF Mining!CreateProgress, Mining!Put, Mining!Directories
    <3>11. QED
      BY <1>4, <3>1, <3>2, <3>3, <3>4, <3>5, <3>6, <3>7, <3>8, <3>9, <3>10
  <2>3. Stays
    BY <2>1, <2>2
  <2>4. QED
    BY <2>3
<1>5. CASE Mining!CreateScores \/ Mining!SaveProgress
  <2>1. /\ final = None /\ UNCHANGED <<final, registered>> /\ pending # None
        /\ pc' \in ScorePoints
    BY <1>5 DEF Mining!CreateScores, Mining!SaveProgress, Mining!Step
  <2>2. pending'.state = pending.state
    <3>1. CASE Mining!CreateScores
      BY <3>1 DEF Mining!CreateScores, Mining!Directories
    <3>2. CASE Mining!SaveProgress
      BY <3>2 DEF Mining!SaveProgress, Mining!Directories
    <3>3. QED
      BY <1>5, <3>1, <3>2
  <2>3. pending' # None
    BY <2>1
  <2>4. Stays
    BY <2>1, <2>2, <2>3
  <2>5. QED
    BY <2>4
<1>6. CASE Mining!Publish
  BY <1>6 DEF Mining!Publish, Mining!Step
<1>7. CASE Mining!Register
  BY <1>7 DEF Mining!Register, Mining!Step
<1>8. CASE Mining!Cut
  <2>1. UNCHANGED <<final, registered>>
        /\ (pending' = pending \/
              (pc = "scores" /\
               pending' = [pending EXCEPT !.scores[Mining!Key(Mining!Current)] = Torn]))
    BY <1>8 DEF Mining!Cut, Mining!Kill
  <2>2. CASE pending' = pending
    BY <2>1, <2>2
  <2>3. CASE pending' # pending
    <3>1. pending # None /\ pending \in Mining!Directories /\ final = None
      BY <2>1, <2>3
    <3>2. pending'.state = pending.state
      BY <2>1, <2>3, <3>1 DEF Mining!Directories
    <3>3. QED
      BY <2>1, <3>1, <3>2 DEF Abandons
  <2>4. QED
    BY <2>2, <2>3
<1>9. CASE Change \/ UNCHANGED bvars
  BY <1>9 DEF Change, bvars
<1>10. QED
  BY <1>1, <1>2, <1>3, <1>4, <1>5, <1>6, <1>7, <1>8, <1>9
     DEF Next, Work, Interruptions, Changes, vars, Mining!Work, Mining!Score

LEMMA ExportAtomic ==
    ASSUME ExportInv, ExportInv', which = "export", which' = which, [Next]_vars
    PROVE  Atomic
<1> USE BuilderAssumption, BuildsAssumption
    DEF Atomic, Opens, Publishes, Registers, Stays, Opened, Shown, Named, ExportInv,
        ExportType, ExportFiles, Single, Maybe, BuilderAssumption
<1>1. CASE Export!Adopt
  BY <1>1 DEF Export!Adopt, Export!Find
<1>2. CASE Export!Make
  BY <1>2 DEF Export!Make, Export!Step, Export!Empty
<1>3. CASE Export!WriteSheet \/ Export!WriteTemplate \/ Export!SaveReport
  BY <1>3 DEF Export!WriteSheet, Export!WriteTemplate, Export!SaveReport, Export!Step,
     Export!Put, Export!Directories
<1>4. CASE Export!Publish
  BY <1>4 DEF Export!Publish, Export!Step
<1>5. CASE Export!Register
  BY <1>5 DEF Export!Register, Export!Step
<1>6. CASE Export!Cut \/ Change \/ UNCHANGED bvars
  BY <1>6 DEF Export!Cut, Export!Kill, Change, bvars
<1>7. QED
  BY <1>1, <1>2, <1>3, <1>4, <1>5, <1>6
     DEF Next, Work, Interruptions, Changes, vars, Export!Work

LEMMA BankAtomic ==
    ASSUME BankInv, BankInv', which = "bank", which' = which, [Next]_vars
    PROVE  Atomic
<1> USE BuilderAssumption, BuildsAssumption
    DEF Atomic, Opens, Publishes, Registers, Stays, Opened, Shown, Named, BankInv, BankType,
        BankFiles, BankMemory, BankPoints, CopyPoints, Bank!Banks, Single, Maybe,
        BuilderAssumption
<1>1. CASE Bank!Adopt \/ Bank!ReadDecision \/ Bank!HashDecision \/ Bank!Resume
  BY <1>1 DEF Bank!Adopt, Bank!ReadDecision, Bank!HashDecision, Bank!Resume,
     Bank!Relaunched
<1>2. CASE Bank!Make
  BY <1>2 DEF Bank!Make, Bank!Empty
<1>3. CASE Bank!SaveState
  <2>1. /\ pending.state = None /\ final = None /\ final' = None /\ registered' = registered
        /\ pending' # None /\ pending'.state \in Inputs
    BY <1>3 DEF Bank!SaveState, Bank!Step, Bank!Put
  <2>2. Opens
    BY <2>1
  <2>3. QED
    BY <2>2
<1>4. CASE \/ Bank!WriteBank \/ Bank!WriteBankMeta \/ Bank!CopyDecision
           \/ Bank!CopyAnnotation \/ Bank!WriteRejections \/ Bank!SaveReport
  BY <1>4 DEF Bank!WriteBank, Bank!WriteBankMeta, Bank!CopyDecision, Bank!CopyAnnotation,
     Bank!WriteRejections, Bank!SaveReport, Bank!Step, Bank!Put, Bank!Directories
<1>5. CASE Bank!Publish
  BY <1>5 DEF Bank!Publish, Bank!Step
<1>6. CASE Bank!Register
  BY <1>6 DEF Bank!Register, Bank!Step
<1>7. CASE Bank!Cut \/ Change \/ UNCHANGED bvars
  BY <1>7 DEF Bank!Cut, Bank!Kill, Change, bvars
<1>8. QED
  BY <1>1, <1>2, <1>3, <1>4, <1>5, <1>6, <1>7
     DEF Next, Work, Interruptions, Changes, vars, Bank!Work

\* The torn first file already makes the directory one of its launch.
LEMMA AuxAtomic ==
    ASSUME AuxInv, AuxInv', which = "aux", which' = which, [Next]_vars
    PROVE  Atomic
<1> USE BuilderAssumption, BuildsAssumption
    DEF Atomic, Opens, Publishes, Abandons, Stays, Opened, Shown, Named, AuxInv, AuxType,
        AuxFiles, Maybe, BuilderAssumption
<1>1. CASE Aux!Reuse \/ Aux!Mine
  BY <1>1 DEF Aux!Reuse, Aux!Mine
<1>2. CASE Aux!SaveBank
  BY <1>2 DEF Aux!SaveBank, Aux!Empty, Aux!Step
<1>3. CASE Aux!SaveVocab \/ Aux!SaveGraph \/ Aux!SaveRecords
  BY <1>3 DEF Aux!SaveVocab, Aux!SaveGraph, Aux!SaveRecords, Aux!Step, Aux!Put,
     Aux!Directories
<1>4. CASE Aux!SaveMeta
  <2>1. /\ pending \in Aux!Directories /\ pending # None /\ final = None
        /\ pending' = None /\ registered' = registered
        /\ final' = [files |-> pending, report |-> now]
    BY <1>4 DEF Aux!SaveMeta, Aux!Step
  <2>2. final'.files.state = pending.state /\ pending.state \in Inputs
    BY <2>1 DEF Aux!Directories
  <2>3. QED
    BY <2>1, <2>2
<1>5. CASE Aux!Cut
  BY <1>5 DEF Aux!Cut, Aux!Kill, Aux!Empty, Aux!Directories
<1>6. CASE Change \/ UNCHANGED bvars
  BY <1>6 DEF Change, bvars
<1>7. QED
  BY <1>1, <1>2, <1>3, <1>4, <1>5, <1>6
     DEF Next, Work, Interruptions, Changes, vars, Aux!Work

LEMMA SpansAtomic ==
    ASSUME SpansInv, SpansInv', which = "spans", which' = which, [Next]_vars
    PROVE  Atomic
<1> USE BuilderAssumption, BuildsAssumption
    DEF Atomic, Opens, Publishes, Abandons, Registers, Stays, Opened, Shown, Named, SpansInv,
        SpansType, SpansFiles, ReferencePoints, BundlePoints, Maybe, BuilderAssumption
<1>1. CASE \/ Spans!HashIdentity \/ Spans!LoadTeacher \/ Spans!LoadRecords
           \/ Spans!ValidateReference \/ Spans!LoadCaptions \/ Spans!EncodeNegatives
           \/ Spans!HashManifests \/ Spans!Open
  BY <1>1 DEF Spans!HashIdentity, Spans!LoadTeacher, Spans!LoadRecords,
     Spans!ValidateReference, Spans!LoadCaptions, Spans!EncodeNegatives,
     Spans!HashManifests, Spans!Open, Spans!Unwritten
<1>2. CASE Spans!StageArrays
  BY <1>2 DEF Spans!StageArrays, Spans!Step, Spans!PendingReferences
<1>3. CASE Spans!StageIndexes
  BY <1>3 DEF Spans!StageIndexes, Spans!Step, Spans!Put, Spans!PendingReferences
<1>4. CASE Spans!ReplaceReference
  <2>1. /\ pending \in Spans!PendingReferences /\ pending # None /\ final = None
        /\ pending' = None /\ registered' = registered
        /\ final' \in Maybe(Spans!References)
    BY <1>4 DEF Spans!ReplaceReference, Spans!Step
  <2>2. final'.report = pending.state /\ pending.state \in Inputs
    BY <1>4, <2>1 DEF Spans!ReplaceReference, Spans!PendingReferences
  <2>3. QED
    BY <2>1, <2>2
<1>5. CASE Spans!StageMining \/ Spans!StageNegatives
  BY <1>5 DEF Spans!StageMining, Spans!StageNegatives, Spans!Step, Spans!Put
<1>6. CASE Spans!ReplaceBundle
  BY <1>6 DEF Spans!ReplaceBundle, Spans!Step, Spans!References
<1>7. CASE Spans!Cut
  BY <1>7 DEF Spans!Cut, Spans!Kill
<1>8. CASE Change \/ UNCHANGED bvars
  BY <1>8 DEF Change, bvars
<1>9. QED
  BY <1>1, <1>2, <1>3, <1>4, <1>5, <1>6, <1>7, <1>8
     DEF Next, Work, Interruptions, Changes, vars, Spans!Work

LEMMA BuildsStep ==
    ASSUME BuildsInv, [Next]_vars, Outcome = Shown, (Outcome = Shown)'
    PROVE  [Promise!Next]_(Promise!svars)
<1>1. BuildsInv' /\ which' = which
  BY BuildsKept DEF Next, Work, Interruptions, Changes, vars
<1>2. Atomic
  BY <1>1, FrozenAtomic, MiningAtomic, ExportAtomic, BankAtomic, AuxAtomic, SpansAtomic
     DEF BuildsInv, Builders
<1>3. Outcome = Shown /\ Outcome' = Shown'
  OBVIOUS
<1>4. CASE Opens
  BY <1>3, <1>4 DEF Opens, Opened, Outcome, Promise!Next, Promise!Open
<1>5. CASE Publishes
  BY <1>3, <1>5 DEF Publishes, Opened, Outcome, Promise!Next, Promise!Publish
<1>6. CASE Abandons
  BY <1>3, <1>6 DEF Abandons, Opened, Outcome, Promise!Next, Promise!Abandon
<1>7. CASE Registers
  BY <1>3, <1>7 DEF Registers, Opened, Outcome, Promise!Next, Promise!Register
<1>8. CASE Stays
  BY <1>3, <1>8 DEF Stays, Opened, Outcome, Promise!svars
<1>9. QED
  BY <1>2, <1>4, <1>5, <1>6, <1>7, <1>8 DEF Atomic

LEMMA OutcomeAlwaysShown == Spec => [](Outcome = Shown)
BY BuildsAlways, OutcomeIsShown, PTL

LEMMA BuildsBegin == ASSUME Init PROVE Promise!Init
BY DEF Init, Begin, Promise!Init

\* Every builder implements StageBuild: its artifact has one input from the first
\* file of the directory to the last, appears at once and complete, is registered
\* only then, and is never replaced, whatever was killed or changed between.
THEOREM BuildsAreAtomic == Spec => BuildsAtomically
BY BuildsAlways, OutcomeAlwaysShown, BuildsBegin, BuildsStep, PTL
   DEF Spec, BuildsAtomically, Promise!Spec
=============================================================================
