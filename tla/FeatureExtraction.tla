-------------------------- MODULE FeatureExtraction --------------------------
(***************************************************************************)
(* I3D feature extraction: processes of                                    *)
(* shared/slr_common/features/i3d.py that fill a feature root with one     *)
(* pickle and one JSON sidecar per video, and a metadata root, shared by   *)
(* all streams of a dataset, with one temporal record per video.           *)
(*                                                                         *)
(* A job is what one command line asks for; its process may be started,    *)
(* fail, be killed and be started again.  Jobs of one root and one split   *)
(* label exclude each other with flock, which the kernel releases when the *)
(* process is gone.  Jobs of different roots run side by side, as          *)
(* scripts/run_csl_i3d_train_dev.sh starts them.                           *)
(*                                                                         *)
(* A feature is told apart by the checkpoint and the recipe that made it   *)
(* and by a tag, since a GPU need not repeat its results bit by bit; a     *)
(* sha256 is the content it digests.  Sources and splits do not change.    *)
(***************************************************************************)
EXTENDS Integers, Sequences

CONSTANTS
    Jobs,         \* command lines
    Roots,        \* --output-root directories
    Videos,
    Root,         \* of each job: its output root,
    Label,        \* the split label of its lock and report,
    Plan,         \* its videos in order,
    Ckpt,         \* its checkpoint,
    Recipe,       \* and its extraction recipe
    Miscounted,   \* videos whose container announces other windows than decoding
    Tags,         \* results a GPU may give for one clip
    Interval,     \* --report-interval
    MaxFailures,  \* bound: processes that die or fail on a video
    NoFile

Ckpts   == {Ckpt[j] : j \in Jobs}
Recipes == {Recipe[j] : j \in Jobs}
Labels  == {Label[j] : j \in Jobs}

ASSUME JobsAssumption ==
    /\ Root \in [Jobs -> Roots]
    /\ Plan \in [Jobs -> Seq(Videos)]
    /\ \A j \in Jobs : \A a, b \in DOMAIN Plan[j] :
          Plan[j][a] = Plan[j][b] => a = b   \* duplicates are refused
ASSUME ExtractionBounds ==
    /\ Interval \in Nat \ {0}
    /\ MaxFailures \in Nat

Feature == [ckpt : Ckpts, recipe : Recipes, tag : Tags]
Sidecar == [ckpt : Ckpts, recipe : Recipes, sha256 : Feature]
Report  == [status : {"planned", "running", "failed", "complete"},
            job : Jobs, completed : Nat]

ASSUME NoFileAssumption ==
    NoFile \notin Feature \cup Sidecar \cup Recipes \cup Report

VARIABLES
    feature,   \* <root>/<split>/<video>.pkl
    sidecar,   \* <root>/<split>/<video>.pkl.meta.json
    temporal,  \* the recipe recorded in <temporal root>/<split>/<video>.json
    report,    \* <root>/extraction_report_<label>.json
    pc,        \* next step of the process of each job
    at,        \* position in its plan
    digest,    \* feature_sha256 in its memory
    completed, \* summary["completed"]
    failures   \* processes that died or failed

files  == <<feature, sidecar, temporal>>
locals == <<at, digest, completed>>
vars   == <<feature, sidecar, temporal, report, pc, at, digest, completed,
            failures>>

\* Steps inside the with-block that holds the lock, and those from the report
\* that opens a run to the one that closes it.
Writing  == {"feature", "digest", "sidecar", "temporal", "temporal_write"}
Working  == {"check", "count"} \cup Writing
Critical == {"start"} \cup Working

Key(j, v) == <<Root[j], v>>
LockOf(j) == <<Root[j], Label[j]>>
Video(j)  == Plan[j][at[j]]
VideosOf(j) == {Plan[j][i] : i \in DOMAIN Plan[j]}

TypeOK ==
    /\ feature \in [Roots \X Videos -> Feature \cup {NoFile}]
    /\ sidecar \in [Roots \X Videos -> Sidecar \cup {NoFile}]
    /\ temporal \in [Videos -> Recipes \cup {NoFile}]
    /\ report \in [Roots \X Labels -> Report \cup {NoFile}]
    /\ pc \in [Jobs -> {"off", "waiting"} \cup Critical]
    /\ at \in [Jobs -> Nat \ {0}]
    /\ digest \in [Jobs -> Feature \cup {NoFile}]
    /\ completed \in [Jobs -> Nat]
    /\ failures \in 0..MaxFailures

Init ==
    /\ feature = [k \in Roots \X Videos |-> NoFile]
    /\ sidecar = [k \in Roots \X Videos |-> NoFile]
    /\ temporal = [v \in Videos |-> NoFile]
    /\ report = [l \in Roots \X Labels |-> NoFile]
    /\ pc = [j \in Jobs |-> "off"]
    /\ at = [j \in Jobs |-> 1]
    /\ digest = [j \in Jobs |-> NoFile]
    /\ completed = [j \in Jobs |-> 0]
    /\ failures = 0

-----------------------------------------------------------------------------
(* What a process decides from the files                                   *)

\* The three files of a video are those of the job's checkpoint and recipe, and
\* the sidecar has the hash of the feature.
Consistent(j, v) ==
    LET f == feature[Key(j, v)]
        s == sidecar[Key(j, v)]
    IN  /\ f # NoFile /\ s # NoFile
        /\ s.ckpt = Ckpt[j] /\ s.recipe = Recipe[j]
        /\ temporal[v] = Recipe[j]
        /\ s.sha256 = f

\* _is_complete also compares the shape in the sidecar with the number of
\* windows counted from the container before anything is decoded.
IsComplete(j, v) == Consistent(j, v) /\ v \notin Miscounted

\* Variants: no exclusion; a lock file that must be gone instead of flock.
FreeAlways(j) == TRUE
FreeLockFile(j) ==
    \A r \in {report[LockOf(j)]} \ {NoFile} : r.status # "running"

\* flock on .extract-<label>.lock succeeds.
Free(j) == \A k \in Jobs \ {j} : LockOf(k) = LockOf(j) => pc[k] \notin Critical

\* atomic_json_dump(summary, report_path)
Reported(j, status, n) ==
    report' = [report EXCEPT ![LockOf(j)] =
                  [status |-> status, job |-> j, completed |-> n]]

Goto(j, step) == pc' = [pc EXCEPT ![j] = step]

-----------------------------------------------------------------------------
(* From the command line to the lock                                       *)

\* The plan is collected and fits the disk; otherwise nothing happens.
Start(j) ==
    /\ pc[j] = "off"
    /\ Goto(j, "waiting")
    /\ UNCHANGED <<files, report, locals, failures>>

\* --dry-run writes the report of its label without taking the lock.
DryRun(j) ==
    /\ pc[j] = "off"
    /\ Reported(j, "planned", 0)
    /\ UNCHANGED <<files, pc, locals, failures>>

Acquire(j) ==
    /\ pc[j] = "waiting"
    /\ Free(j)
    /\ Goto(j, "start")
    /\ UNCHANGED <<files, report, locals, failures>>

\* The deadline passes while another process holds the lock.
LockTimeout(j) ==
    /\ pc[j] = "waiting"
    /\ ~Free(j)
    /\ Goto(j, "off")
    /\ UNCHANGED <<files, report, locals, failures>>

\* require_resources inside the lock finds too little disk or GPU memory.
TooFewResources(j) ==
    /\ pc[j] = "start"
    /\ failures < MaxFailures
    /\ failures' = failures + 1
    /\ Goto(j, "off")
    /\ UNCHANGED <<files, report, locals>>

\* Variant: the previous report is left in place.
OpenReportQuiet(j) ==
    /\ pc[j] = "start"
    /\ at' = [at EXCEPT ![j] = 1]
    /\ completed' = [completed EXCEPT ![j] = 0]
    /\ Goto(j, "check")
    /\ UNCHANGED <<files, report, digest, failures>>

OpenReport(j) ==
    /\ pc[j] = "start"
    /\ Reported(j, "running", 0)
    /\ at' = [at EXCEPT ![j] = 1]
    /\ completed' = [completed EXCEPT ![j] = 0]
    /\ Goto(j, "check")
    /\ UNCHANGED <<files, digest, failures>>

-----------------------------------------------------------------------------
(* One video                                                               *)

Skip(j) ==
    /\ pc[j] = "check"
    /\ at[j] <= Len(Plan[j])
    /\ IsComplete(j, Video(j))
    /\ at' = [at EXCEPT ![j] = @ + 1]
    /\ completed' = [completed EXCEPT ![j] = @ + 1]
    /\ UNCHANGED <<files, report, pc, digest, failures>>

\* The video is decoded and its windows encoded.
Extract(j) ==
    /\ pc[j] = "check"
    /\ at[j] <= Len(Plan[j])
    /\ ~IsComplete(j, Video(j))
    /\ Goto(j, "feature")
    /\ UNCHANGED <<files, report, locals, failures>>

WriteFeature(j) ==
    /\ pc[j] = "feature"
    /\ \E t \in Tags :
          feature' = [feature EXCEPT ![Key(j, Video(j))] =
                         [ckpt |-> Ckpt[j], recipe |-> Recipe[j], tag |-> t]]
    /\ Goto(j, "digest")
    /\ UNCHANGED <<sidecar, temporal, report, locals, failures>>

\* sha256_file(feature_path): the file is read again.
ReadDigest(j) ==
    /\ pc[j] = "digest"
    /\ digest' = [digest EXCEPT ![j] = feature[Key(j, Video(j))]]
    /\ Goto(j, "sidecar")
    /\ UNCHANGED <<files, report, at, completed, failures>>

WriteSidecar(j) ==
    /\ pc[j] = "sidecar"
    /\ sidecar' = [sidecar EXCEPT ![Key(j, Video(j))] =
                      [ckpt |-> Ckpt[j], recipe |-> Recipe[j],
                       sha256 |-> digest[j]]]
    /\ Goto(j, "temporal")
    /\ UNCHANGED <<feature, temporal, report, locals, failures>>

\* Variant: the temporal record is reused unread.
ReuseAnyTemporal(j) ==
    /\ pc[j] = "temporal"
    /\ temporal[Video(j)] # NoFile
    /\ Goto(j, "count")
    /\ UNCHANGED <<files, report, locals, failures>>

\* Another stream has recorded the same windows.
ReuseTemporal(j) ==
    /\ pc[j] = "temporal"
    /\ temporal[Video(j)] = Recipe[j]
    /\ Goto(j, "count")
    /\ UNCHANGED <<files, report, locals, failures>>

FindNoTemporal(j) ==
    /\ pc[j] = "temporal"
    /\ temporal[Video(j)] = NoFile
    /\ Goto(j, "temporal_write")
    /\ UNCHANGED <<files, report, locals, failures>>

WriteTemporal(j) ==
    /\ pc[j] = "temporal_write"
    /\ temporal' = [temporal EXCEPT ![Video(j)] = Recipe[j]]
    /\ Goto(j, "count")
    /\ UNCHANGED <<feature, sidecar, report, locals, failures>>

CountVideo(j) ==
    /\ pc[j] = "count"
    /\ completed' = [completed EXCEPT ![j] = @ + 1]
    /\ IF at[j] % Interval = 0
          THEN Reported(j, "running", completed[j] + 1)
          ELSE UNCHANGED report
    /\ at' = [at EXCEPT ![j] = @ + 1]
    /\ Goto(j, "check")
    /\ UNCHANGED <<files, digest, failures>>

\* "conflicting temporal metadata": the feature and the sidecar are written.
ConflictingTemporal(j) ==
    /\ pc[j] = "temporal"
    /\ temporal[Video(j)] \notin {NoFile, Recipe[j]}
    /\ Reported(j, "failed", completed[j])
    /\ Goto(j, "off")
    /\ UNCHANGED <<files, locals, failures>>

\* Any other exception between decode_video and the temporal record.
VideoFails(j) ==
    /\ pc[j] \in Writing
    /\ failures < MaxFailures
    /\ failures' = failures + 1
    /\ Reported(j, "failed", completed[j])
    /\ Goto(j, "off")
    /\ UNCHANGED <<files, locals>>

Finish(j) ==
    /\ pc[j] = "check"
    /\ at[j] > Len(Plan[j])
    /\ Reported(j, "complete", completed[j])
    /\ Goto(j, "off")
    /\ UNCHANGED <<files, locals, failures>>

\* Killed: by hand, by timeout(1), by the out-of-memory killer.
Die(j) ==
    /\ pc[j] # "off"
    /\ failures < MaxFailures
    /\ failures' = failures + 1
    /\ Goto(j, "off")
    /\ UNCHANGED <<files, report, locals>>

-----------------------------------------------------------------------------
Step(j) ==
    \/ Acquire(j) \/ LockTimeout(j) \/ OpenReport(j)
    \/ Skip(j) \/ Extract(j) \/ WriteFeature(j) \/ ReadDigest(j)
    \/ WriteSidecar(j) \/ ReuseTemporal(j) \/ FindNoTemporal(j)
    \/ WriteTemporal(j) \/ CountVideo(j) \/ ConflictingTemporal(j)
    \/ Finish(j)

Trouble(j) == TooFewResources(j) \/ VideoFails(j) \/ Die(j)

Next == \E j \in Jobs : Start(j) \/ DryRun(j) \/ Step(j) \/ Trouble(j)

Spec == Init /\ [][Next]_vars

\* A process runs while it lives, and a job is started again after it ended.
Fairness == \A j \in Jobs : WF_vars(Start(j)) /\ WF_vars(Step(j))
FairSpec == Spec /\ Fairness
-----------------------------------------------------------------------------
(* Properties                                                              *)

\* Jobs that can touch one feature share a lock: their split labels differ only
\* if their splits do.
SplitsDisjoint ==
    \A j, k \in Jobs :
        (Root[j] = Root[k] /\ VideosOf(j) \cap VideosOf(k) # {})
            => LockOf(j) = LockOf(k)

\* Jobs that may run at one time and share temporal records use one recipe.
StreamsAgree ==
    \A j, k \in Jobs :
        (LockOf(j) # LockOf(k) /\ VideosOf(j) \cap VideosOf(k) # {})
            => Recipe[j] = Recipe[k]

\* "Keep exclusion within a split to prevent duplicate work and report/sidecar
\* races for the same videos": two processes never extract one video into one
\* root at a time.
OneExtractor ==
    \A j, k \in Jobs :
        (/\ j # k
         /\ pc[j] \in Writing /\ pc[k] \in Writing
         /\ Root[j] = Root[k]) => Video(j) # Video(k)

\* A sidecar describes the bytes whose hash it carries: no crash, restart or
\* other job lets a process vouch for a feature it has not made.
SidecarTruthful ==
    \A k \in Roots \X Videos :
        sidecar[k] # NoFile =>
            /\ sidecar[k].sha256 # NoFile
            /\ sidecar[k].ckpt = sidecar[k].sha256.ckpt
            /\ sidecar[k].recipe = sidecar[k].sha256.recipe

\* While a report says "complete", every video of its job is consistent with
\* the job's checkpoint and recipe, and as many are counted: a later job with
\* another checkpoint, a crash or a dry run withdraws the word before it
\* touches a file.
CompleteReport ==
    \A l \in Roots \X Labels :
        (report[l] # NoFile /\ report[l].status = "complete") =>
            LET j == report[l].job
            IN  /\ report[l].completed = Len(Plan[j])
                /\ \A i \in DOMAIN Plan[j] : Consistent(j, Plan[j][i])

\* "Feature extraction is resumable": a video whose three files are there and
\* agree with the job is not extracted again.
Resumable ==
    [][\A j \in Jobs : (pc[j] = "check" /\ pc'[j] = "feature")
                          => ~Consistent(j, Video(j))]_vars

\* Jobs that are started again after finitely many failures end with every
\* video extracted, for good.
EventuallyExtracted ==
    <>[](\A j \in Jobs : \A i \in DOMAIN Plan[j] : Consistent(j, Plan[j][i]))
-----------------------------------------------------------------------------
(* The inductive invariant                                                 *)

Exclusion ==
    \A j, k \in Jobs :
        (j # k /\ LockOf(j) = LockOf(k)) => pc[j] \notin Critical \/ pc[k] \notin Critical

\* What a process knows of the video in hand.
InHand(j) ==
    LET k == Key(j, Video(j))
    IN  /\ pc[j] \in Writing \cup {"count"} => at[j] \in DOMAIN Plan[j]
        /\ pc[j] \in (Writing \cup {"count"}) \ {"feature"} =>
              /\ feature[k] # NoFile
              /\ feature[k].ckpt = Ckpt[j] /\ feature[k].recipe = Recipe[j]
        /\ pc[j] = "sidecar" => digest[j] = feature[k]
        /\ pc[j] \in {"temporal", "temporal_write", "count"} =>
              sidecar[k] = [ckpt |-> Ckpt[j], recipe |-> Recipe[j],
                            sha256 |-> feature[k]]
        /\ pc[j] = "count" => temporal[Video(j)] = Recipe[j]

\* The videos a process has passed are extracted and counted.
Passed(j) ==
    pc[j] \in Working =>
        /\ completed[j] = at[j] - 1
        /\ at[j] <= Len(Plan[j]) + 1
        /\ \A i \in DOMAIN Plan[j] : i < at[j] => Consistent(j, Plan[j][i])

\* A report that says "complete" is not of a label somebody works on.
ReportIdle ==
    \A j \in Jobs : pc[j] \in Working =>
        report[LockOf(j)] # NoFile /\ report[LockOf(j)].status # "complete"

ReportOwn ==
    \A l \in Roots \X Labels : report[l] # NoFile => LockOf(report[l].job) = l

ExtractionInv ==
    /\ TypeOK
    /\ Exclusion
    /\ \A j \in Jobs : InHand(j) /\ Passed(j)
    /\ ReportIdle /\ ReportOwn
    /\ SidecarTruthful
    /\ CompleteReport
=============================================================================
