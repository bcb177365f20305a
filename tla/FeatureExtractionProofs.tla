----------------------- MODULE FeatureExtractionProofs -----------------------
(* Proofs about FeatureExtraction, for every set of jobs, roots and videos. *)
EXTENDS FeatureExtraction, TLAPS

(***************************************************************************)
(* Keys, locks and values                                                  *)
(***************************************************************************)

\* Locks and keys are where the files are.
LEMMA Places ==
  ASSUME NEW j \in Jobs
  PROVE  /\ LockOf(j) \in Roots \X Labels
         /\ Root[j] \in Roots
         /\ Plan[j] \in Seq(Videos)
         /\ Ckpt[j] \in Ckpts /\ Recipe[j] \in Recipes
         /\ \A v \in Videos : Key(j, v) \in Roots \X Videos
         /\ \A v \in VideosOf(j) : v \in Videos
  BY JobsAssumption DEF LockOf, Labels, Key, Ckpts, Recipes, VideosOf

\* Two keys are one file only for one root and one video.
LEMMA KeyEqual ==
  ASSUME NEW j \in Jobs, NEW k \in Jobs, NEW v, NEW w, Key(j, v) = Key(k, w)
  PROVE  Root[j] = Root[k] /\ v = w
  BY DEF Key

\* A process with a video in hand has one of its plan.
LEMMA HandledVideo ==
  ASSUME NEW j \in Jobs, at[j] \in DOMAIN Plan[j]
  PROVE  Video(j) \in VideosOf(j) /\ Video(j) \in Videos
  BY Places DEF Video, VideosOf

\* What is written is what the files may hold.
LEMMA Written ==
  ASSUME NEW j \in Jobs
  PROVE  /\ \A t \in Tags :
               [ckpt |-> Ckpt[j], recipe |-> Recipe[j], tag |-> t] \in Feature
         /\ \A f \in Feature :
               [ckpt |-> Ckpt[j], recipe |-> Recipe[j], sha256 |-> f] \in Sidecar
         /\ \A n \in Nat, s \in {"planned", "running", "failed", "complete"} :
               [status |-> s, job |-> j, completed |-> n] \in Report
  BY Places DEF Feature, Sidecar, Report

(***************************************************************************)
(* Type correctness                                                        *)
(***************************************************************************)

LEMMA InitType == Init => TypeOK
  BY ExtractionBounds DEF Init, TypeOK

\* A report is well typed after any line written to it.
LEMMA ReportType ==
  ASSUME TypeOK, NEW j \in Jobs, NEW n \in Nat,
         NEW s \in {"planned", "running", "failed", "complete"},
         Reported(j, s, n)
  PROVE  report' \in [Roots \X Labels -> Report \cup {NoFile}]
  BY Places, Written DEF TypeOK, Reported

\* Every step of a process is well typed.
LEMMA StepType ==
  ASSUME TypeOK, NEW j \in Jobs, InHand(j),
         Start(j) \/ DryRun(j) \/ Step(j) \/ Trouble(j)
  PROVE  TypeOK'
<1> USE DEF TypeOK, files, locals, Goto
<1>1. CASE Start(j) \/ Acquire(j) \/ LockTimeout(j)
  BY <1>1 DEF Start, Acquire, LockTimeout, Critical
<1>2. CASE DryRun(j)
  <2>1. Reported(j, "planned", 0)
    BY <1>2 DEF DryRun
  <2>2. report' \in [Roots \X Labels -> Report \cup {NoFile}]
    BY <2>1, ReportType
  <2>3. QED
    BY <1>2, <2>2 DEF DryRun
<1>3. CASE OpenReport(j)
  <2>1. Reported(j, "running", 0)
    BY <1>3 DEF OpenReport
  <2>2. report' \in [Roots \X Labels -> Report \cup {NoFile}]
    BY <2>1, ReportType
  <2>3. QED
    BY <1>3, <2>2 DEF OpenReport, Critical, Working
<1>4. CASE Skip(j)
  BY <1>4 DEF Skip
<1>5. CASE Extract(j) \/ ReuseTemporal(j) \/ FindNoTemporal(j)
  BY <1>5 DEF Extract, ReuseTemporal, FindNoTemporal, Critical, Working, Writing
<1>6. CASE WriteFeature(j)
  <2>1. PICK t \in Tags :
           feature' = [feature EXCEPT ![Key(j, Video(j))] =
                          [ckpt |-> Ckpt[j], recipe |-> Recipe[j], tag |-> t]]
    BY <1>6 DEF WriteFeature
  <2>2. [ckpt |-> Ckpt[j], recipe |-> Recipe[j], tag |-> t] \in Feature
    BY Written
  <2>3. feature' \in [Roots \X Videos -> Feature \cup {NoFile}]
    BY <2>1, <2>2
  <2>4. QED
    BY <1>6, <2>3 DEF WriteFeature, Critical, Working, Writing
<1>7. CASE ReadDigest(j)
  <2>0. at[j] \in DOMAIN Plan[j]
    BY <1>7 DEF ReadDigest, InHand, Writing
  <2>1. Key(j, Video(j)) \in Roots \X Videos
    BY <2>0, HandledVideo, Places
  <2>2. QED
    BY <1>7, <2>1 DEF ReadDigest, Critical, Working, Writing
<1>8. CASE CountVideo(j)
  <2>1. report' \in [Roots \X Labels -> Report \cup {NoFile}]
    <3>1. CASE UNCHANGED report
      BY <3>1
    <3>2. CASE Reported(j, "running", completed[j] + 1)
      <4>1. completed[j] + 1 \in Nat
        OBVIOUS
      <4>2. QED
        BY <3>2, <4>1, ReportType
    <3>3. QED
      BY <1>8, <3>1, <3>2 DEF CountVideo
  <2>2. QED
    BY <1>8, <2>1 DEF CountVideo, Critical, Working
<1>9. CASE WriteTemporal(j)
  BY <1>9, Places DEF WriteTemporal, Critical, Working
<1>10. CASE TooFewResources(j) \/ Die(j)
  BY <1>10, ExtractionBounds DEF TooFewResources, Die
<1>11. CASE ConflictingTemporal(j) \/ VideoFails(j)
  <2>1. Reported(j, "failed", completed[j]) /\ completed[j] \in Nat
    BY <1>11 DEF ConflictingTemporal, VideoFails
  <2>2. report' \in [Roots \X Labels -> Report \cup {NoFile}]
    BY <2>1, ReportType
  <2>3. QED
    BY <1>11, <2>2, ExtractionBounds DEF ConflictingTemporal, VideoFails
<1>12. CASE Finish(j)
  <2>1. Reported(j, "complete", completed[j]) /\ completed[j] \in Nat
    BY <1>12 DEF Finish
  <2>2. report' \in [Roots \X Labels -> Report \cup {NoFile}]
    BY <2>1, ReportType
  <2>3. QED
    BY <1>12, <2>2 DEF Finish
<1>13. CASE WriteSidecar(j)
  <2>0. /\ at[j] \in DOMAIN Plan[j]
        /\ feature[Key(j, Video(j))] # NoFile
        /\ digest[j] = feature[Key(j, Video(j))]
    BY <1>13 DEF WriteSidecar, InHand, Writing
  <2>1. Key(j, Video(j)) \in Roots \X Videos
    BY <2>0, HandledVideo, Places
  <2>2. digest[j] \in Feature
    BY <2>0, <2>1
  <2>3. [ckpt |-> Ckpt[j], recipe |-> Recipe[j], sha256 |-> digest[j]] \in Sidecar
    BY <2>2, Written
  <2>4. sidecar' \in [Roots \X Videos -> Sidecar \cup {NoFile}]
    BY <1>13, <2>3 DEF WriteSidecar
  <2>5. QED
    BY <1>13, <2>4 DEF WriteSidecar, Critical, Working, Writing
<1>14. QED
  BY <1>1, <1>2, <1>3, <1>4, <1>5, <1>6, <1>7, <1>8, <1>9, <1>10, <1>11, <1>12,
     <1>13
  DEF Step, Trouble
(***************************************************************************)
(* What a step of one process leaves alone                                 *)
(***************************************************************************)

\* The memory of the others.
LocalStep(j) ==
    \A k \in Jobs \ {j} :
        /\ pc'[k] = pc[k] /\ at'[k] = at[k]
        /\ digest'[k] = digest[k] /\ completed'[k] = completed[k]

\* Files of other videos; and the temporal record, but for its own recipe.
FileStep(j) ==
    \/ UNCHANGED files
    \/ /\ pc[j] \in Writing
       /\ \A key \in Roots \X Videos : key # Key(j, Video(j)) =>
             feature'[key] = feature[key] /\ sidecar'[key] = sidecar[key]
       /\ \A v \in Videos : temporal'[v] # temporal[v] =>
             v = Video(j) /\ temporal'[v] = Recipe[j]

\* Reports of other locks; and no report says "complete" by this step.
ReportStep(j) ==
    \/ UNCHANGED report /\ (pc'[j] \in Working => pc[j] \in Working)
    \/ \E r \in Report : /\ r.status # "complete" /\ r.job = j
                         /\ report' = [report EXCEPT ![LockOf(j)] = r]

\* The lock is held by who took it when it was free.
LockStep(j) == pc'[j] \in Critical => pc[j] \in Critical \/ Free(j)

\* The files of a video of another lock stay what its job has made of them.
LEMMA OthersConsistent ==
  ASSUME SplitsDisjoint, StreamsAgree, TypeOK,
         NEW j \in Jobs, NEW k \in Jobs, NEW v \in VideosOf(k),
         LockOf(k) # LockOf(j), FileStep(j), InHand(j)
  PROVE  /\ feature'[Key(k, v)] = feature[Key(k, v)]
         /\ sidecar'[Key(k, v)] = sidecar[Key(k, v)]
         /\ temporal'[v] = temporal[v] \/ temporal'[v] = Recipe[k]
         /\ Consistent(k, v) => Consistent(k, v)'
<1>1. CASE UNCHANGED files
  BY <1>1 DEF files, Consistent
<1>2. CASE ~UNCHANGED files
  <2>1. pc[j] \in Writing /\ at[j] \in DOMAIN Plan[j]
    BY <1>2 DEF FileStep, InHand
  <2>2. Video(j) \in VideosOf(j)
    BY <2>1, HandledVideo
  <2>3. Key(k, v) # Key(j, Video(j))
    <3>1. SUFFICES ASSUME Root[k] = Root[j], v = Video(j) PROVE FALSE
      BY KeyEqual
    <3>2. VideosOf(j) \cap VideosOf(k) # {}
      BY <3>1, <2>2
    <3>3. QED
      BY <3>1, <3>2 DEF SplitsDisjoint
  <2>4. Key(k, v) \in Roots \X Videos /\ v \in Videos
    BY Places
  <2>5. feature'[Key(k, v)] = feature[Key(k, v)]
        /\ sidecar'[Key(k, v)] = sidecar[Key(k, v)]
    BY <1>2, <2>3, <2>4 DEF FileStep
  <2>6. temporal'[v] = temporal[v] \/ temporal'[v] = Recipe[k]
    <3>1. SUFFICES ASSUME temporal'[v] # temporal[v] PROVE temporal'[v] = Recipe[k]
      OBVIOUS
    <3>2. v = Video(j) /\ temporal'[v] = Recipe[j]
      BY <3>1, <1>2, <2>4 DEF FileStep
    <3>3. Recipe[j] = Recipe[k]
      BY <3>2, <2>2 DEF StreamsAgree
    <3>4. QED
      BY <3>2, <3>3
  <2>7. QED
    BY <2>5, <2>6 DEF Consistent
<1>3. QED
  BY <1>1, <1>2
\* One process at most has a lock.
LEMMA ExclusionKept ==
  ASSUME Exclusion, NEW j \in Jobs, LocalStep(j), LockStep(j)
  PROVE  Exclusion'
<1> SUFFICES ASSUME NEW a \in Jobs, NEW b \in Jobs, a # b, LockOf(a) = LockOf(b),
                    pc'[a] \in Critical, pc'[b] \in Critical
             PROVE  FALSE
  BY DEF Exclusion, LockOf
<1>1. CASE a # j /\ b # j
  BY <1>1 DEF LocalStep, Exclusion
<1>2. CASE a = j
  BY <1>2 DEF LocalStep, LockStep, Exclusion, Free
<1>3. CASE b = j
  BY <1>3 DEF LocalStep, LockStep, Exclusion, Free
<1>4. QED
  BY <1>1, <1>2, <1>3

\* What the others know stays true.
LEMMA OthersKept ==
  ASSUME SplitsDisjoint, StreamsAgree, ExtractionInv,
         NEW j \in Jobs, NEW k \in Jobs, k # j, LocalStep(j), FileStep(j)
  PROVE  InHand(k)' /\ Passed(k)'
<1>1. /\ pc'[k] = pc[k] /\ at'[k] = at[k]
      /\ digest'[k] = digest[k] /\ completed'[k] = completed[k]
  BY DEF LocalStep
<1>2. InHand(k) /\ Passed(k) /\ InHand(j) /\ TypeOK /\ Exclusion
  BY DEF ExtractionInv
<1>3. Video(k)' = Video(k)
  BY <1>1 DEF Video
<1>4. CASE UNCHANGED files
  BY <1>1, <1>2, <1>3, <1>4 DEF files, InHand, Passed, Consistent, Key
<1>5. CASE pc[k] \notin Working
  BY <1>1, <1>5 DEF InHand, Passed, Working, Writing
<1>6. CASE ~UNCHANGED files /\ pc[k] \in Working
  <2>1. LockOf(k) # LockOf(j)
    BY <1>2, <1>6 DEF FileStep, Exclusion, Critical, Working
  <2>2. ASSUME NEW v \in VideosOf(k)
        PROVE  /\ feature'[Key(k, v)] = feature[Key(k, v)]
               /\ sidecar'[Key(k, v)] = sidecar[Key(k, v)]
               /\ temporal'[v] = temporal[v] \/ temporal'[v] = Recipe[k]
               /\ Consistent(k, v) => Consistent(k, v)'
    BY <1>2, <2>1, OthersConsistent
  <2>3. Passed(k)'
    BY <1>1, <1>2, <2>2 DEF Passed, VideosOf
  <2>4. InHand(k)'
    <3>1. CASE pc[k] \notin Writing \cup {"count"}
      BY <1>1, <3>1 DEF InHand, Writing
    <3>2. CASE pc[k] \in Writing \cup {"count"}
      <4>1. at[k] \in DOMAIN Plan[k]
        BY <1>2, <3>2 DEF InHand
      <4>2. Video(k) \in VideosOf(k)
        BY <4>1, HandledVideo
      <4>3. /\ feature'[Key(k, Video(k))] = feature[Key(k, Video(k))]
            /\ sidecar'[Key(k, Video(k))] = sidecar[Key(k, Video(k))]
            /\ temporal'[Video(k)] \in {temporal[Video(k)], Recipe[k]}
        BY <2>2, <4>2
      <4>4. Key(k, Video(k))' = Key(k, Video(k))
        BY <1>3 DEF Key
      <4>5. QED
        BY <1>1, <1>2, <1>3, <4>1, <4>3, <4>4 DEF InHand
    <3>3. QED
      BY <3>1, <3>2
  <2>5. QED
    BY <2>3, <2>4
<1>7. QED
  BY <1>4, <1>5, <1>6

\* A report that says "complete" is withdrawn before its videos are touched.
LEMMA CompleteKept ==
  ASSUME SplitsDisjoint, StreamsAgree, ExtractionInv,
         NEW j \in Jobs, FileStep(j), NEW l \in Roots \X Labels,
         report[l] # NoFile, report[l].status = "complete",
         NEW k \in Jobs, report[l].job = k
  PROVE  /\ report[l].completed = Len(Plan[k])
         /\ \A i \in DOMAIN Plan[k] : Consistent(k, Plan[k][i])'
<1>1. /\ TypeOK /\ InHand(j) /\ ReportIdle /\ ReportOwn /\ CompleteReport
  BY DEF ExtractionInv
<1>2. LockOf(k) = l
  BY <1>1 DEF ReportOwn
<1>3. /\ report[l].completed = Len(Plan[k])
      /\ \A i \in DOMAIN Plan[k] : Consistent(k, Plan[k][i])
  BY <1>1, <1>2 DEF CompleteReport
<1>4. CASE UNCHANGED files
  BY <1>3, <1>4 DEF files, Consistent
<1>5. CASE ~UNCHANGED files
  <2>1. LockOf(k) # LockOf(j)
    BY <1>1, <1>2, <1>5 DEF FileStep, ReportIdle, Working
  <2>2. \A i \in DOMAIN Plan[k] : Plan[k][i] \in VideosOf(k)
    BY DEF VideosOf
  <2>3. QED
    BY <1>1, <1>2, <1>3, <2>1, <2>2, OthersConsistent
<1>6. QED
  BY <1>4, <1>5

\* CompleteReport, one job at a time.
LEMMA CompleteJobs ==
  ASSUME \A l \in Roots \X Labels : report'[l] # NoFile => report'[l].job \in Jobs,
         \A l \in Roots \X Labels, k \in Jobs :
            (/\ report'[l] # NoFile /\ report'[l].status = "complete"
             /\ report'[l].job = k) =>
                /\ report'[l].completed = Len(Plan[k])
                /\ \A i \in DOMAIN Plan[k] : Consistent(k, Plan[k][i])'
  PROVE  CompleteReport'
  BY DEF CompleteReport, Consistent, Key

\* Reports stay what ReportIdle, ReportOwn and CompleteReport say.
LEMMA ReportsKept ==
  ASSUME SplitsDisjoint, StreamsAgree, ExtractionInv,
         NEW j \in Jobs, LocalStep(j), FileStep(j), ReportStep(j)
  PROVE  ReportIdle' /\ ReportOwn' /\ CompleteReport'
<1>1. /\ TypeOK /\ ReportIdle /\ ReportOwn /\ CompleteReport
  BY DEF ExtractionInv
<1>2. LockOf(j) \in Roots \X Labels
  BY Places
<1>3. \A l \in Roots \X Labels : report'[l] # NoFile => report'[l].job \in Jobs
  BY <1>1, <1>2 DEF ReportStep, TypeOK, Report
<1>4. CASE UNCHANGED report /\ (pc'[j] \in Working => pc[j] \in Working)
  <2>1. ReportIdle'
    BY <1>1, <1>4 DEF ReportIdle, LocalStep, LockOf
  <2>2. ReportOwn'
    BY <1>1, <1>4 DEF ReportOwn, LockOf
  <2>3. CompleteReport'
    <3>1. SUFFICES ASSUME NEW l \in Roots \X Labels, NEW k \in Jobs,
                          report'[l] # NoFile, report'[l].status = "complete",
                          report'[l].job = k
                   PROVE  /\ report'[l].completed = Len(Plan[k])
                          /\ \A i \in DOMAIN Plan[k] : Consistent(k, Plan[k][i])'
      BY <1>3, CompleteJobs
    <3>2. QED
      BY <1>4, <3>1, CompleteKept
  <2>4. QED
    BY <2>1, <2>2, <2>3
<1>5. ASSUME NEW r \in Report, r.status # "complete", r.job = j,
             report' = [report EXCEPT ![LockOf(j)] = r]
      PROVE  ReportIdle' /\ ReportOwn' /\ CompleteReport'
  <2>1. /\ report'[LockOf(j)] = r
        /\ \A l \in (Roots \X Labels) \ {LockOf(j)} : report'[l] = report[l]
    BY <1>1, <1>2, <1>5 DEF TypeOK
  <2>2. r # NoFile
    BY NoFileAssumption
  <2>3. ReportIdle'
    <3>1. SUFFICES ASSUME NEW k \in Jobs, pc'[k] \in Working
                   PROVE  /\ report'[LockOf(k)] # NoFile
                          /\ report'[LockOf(k)].status # "complete"
      BY DEF ReportIdle, LockOf
    <3>2. CASE LockOf(k) = LockOf(j)
      BY <3>2, <2>1, <2>2, <1>5
    <3>3. CASE LockOf(k) # LockOf(j)
      <4>1. pc[k] \in Working
        BY <3>1, <3>3 DEF LocalStep
      <4>2. LockOf(k) \in Roots \X Labels
        BY Places
      <4>3. QED
        BY <1>1, <2>1, <3>3, <4>1, <4>2 DEF ReportIdle
    <3>4. QED
      BY <3>2, <3>3
  <2>4. ReportOwn'
    BY <1>1, <1>5, <2>1 DEF ReportOwn, LockOf
  <2>5. CompleteReport'
    <3>1. SUFFICES ASSUME NEW l \in Roots \X Labels, NEW k \in Jobs,
                          report'[l] # NoFile, report'[l].status = "complete",
                          report'[l].job = k
                   PROVE  /\ report'[l].completed = Len(Plan[k])
                          /\ \A i \in DOMAIN Plan[k] : Consistent(k, Plan[k][i])'
      BY <1>3, CompleteJobs
    <3>2. l # LockOf(j) /\ report'[l] = report[l]
      BY <1>5, <2>1, <3>1
    <3>3. QED
      BY <3>1, <3>2, CompleteKept
  <2>6. QED
    BY <2>3, <2>4, <2>5
<1>6. QED
  BY <1>4, <1>5 DEF ReportStep
(***************************************************************************)
(* The steps                                                               *)
(***************************************************************************)

\* A step is its process's own business.
LEMMA StepShape ==
  ASSUME TypeOK, NEW j \in Jobs, InHand(j),
         Start(j) \/ DryRun(j) \/ Step(j) \/ Trouble(j)
  PROVE  LocalStep(j) /\ FileStep(j) /\ LockStep(j)
<1> USE DEF TypeOK, LocalStep, LockStep, FileStep, files, locals, Goto
<1>1. CASE Start(j) \/ Acquire(j) \/ LockTimeout(j) \/ DryRun(j)
  BY <1>1 DEF Start, Acquire, LockTimeout, DryRun, Critical, Working, Writing
<1>2. CASE OpenReport(j) \/ Skip(j) \/ Extract(j)
  BY <1>2 DEF OpenReport, Skip, Extract, Critical, Working, Writing
<1>3. CASE ReadDigest(j) \/ ReuseTemporal(j) \/ FindNoTemporal(j) \/ CountVideo(j)
  BY <1>3 DEF ReadDigest, ReuseTemporal, FindNoTemporal, CountVideo,
              Critical, Working, Writing
<1>4. CASE ConflictingTemporal(j) \/ Finish(j) \/ Trouble(j)
  BY <1>4 DEF ConflictingTemporal, Finish, Trouble, TooFewResources, VideoFails,
              Die, Critical, Working, Writing
<1>5. CASE WriteFeature(j) \/ WriteSidecar(j) \/ WriteTemporal(j)
  <2>1. pc[j] \in Writing /\ Video(j) \in Videos
    BY <1>5, HandledVideo DEF WriteFeature, WriteSidecar, WriteTemporal, Writing, InHand
  <2>2. LocalStep(j) /\ LockStep(j)
    BY <1>5, <2>1 DEF WriteFeature, WriteSidecar, WriteTemporal, Critical, Working
  <2>3. FileStep(j)
    BY <1>5, <2>1 DEF WriteFeature, WriteSidecar, WriteTemporal
  <2>4. QED
    BY <2>2, <2>3
<1>6. QED
  BY <1>1, <1>2, <1>3, <1>4, <1>5 DEF Step

\* The line each step writes to its report.
LEMMA StepReport ==
  ASSUME TypeOK, NEW j \in Jobs, ~Finish(j),
         Start(j) \/ DryRun(j) \/ Step(j) \/ Trouble(j)
  PROVE  ReportStep(j)
<1>1. ASSUME NEW n \in Nat, NEW s \in {"planned", "running", "failed"}, Reported(j, s, n)
      PROVE  ReportStep(j)
  <2>1. [status |-> s, job |-> j, completed |-> n] \in Report
    BY <1>1, Written
  <2>2. QED
    BY <1>1, <2>1 DEF ReportStep, Reported
<1> USE DEF TypeOK, files, locals, Goto
<1>2. CASE DryRun(j) \/ OpenReport(j)
  BY <1>1, <1>2 DEF DryRun, OpenReport
<1>3. CASE ConflictingTemporal(j) \/ VideoFails(j)
  BY <1>1, <1>3 DEF ConflictingTemporal, VideoFails
<1>4. CASE CountVideo(j)
  <2>1. completed[j] + 1 \in Nat
    OBVIOUS
  <2>2. CASE Reported(j, "running", completed[j] + 1)
    BY <1>1, <2>1, <2>2
  <2>3. CASE UNCHANGED report
    BY <1>4, <2>3 DEF CountVideo, ReportStep, Working
  <2>4. QED
    BY <1>4, <2>2, <2>3 DEF CountVideo
<1>5. CASE Start(j) \/ Acquire(j) \/ LockTimeout(j) \/ Skip(j) \/ Extract(j)
  BY <1>5 DEF Start, Acquire, LockTimeout, Skip, Extract, ReportStep, Working, Writing
<1>6. CASE ReadDigest(j) \/ ReuseTemporal(j) \/ FindNoTemporal(j)
           \/ WriteFeature(j) \/ WriteSidecar(j) \/ WriteTemporal(j)
  BY <1>6 DEF ReadDigest, ReuseTemporal, FindNoTemporal, WriteFeature, WriteSidecar,
              WriteTemporal, ReportStep, Working, Writing
<1>7. CASE TooFewResources(j) \/ Die(j)
  BY <1>7 DEF TooFewResources, Die, ReportStep, Working, Writing
<1>8. QED
  BY <1>2, <1>3, <1>4, <1>5, <1>6, <1>7 DEF Step, Trouble

\* "complete" is said of a plan whose videos have all been passed.
LEMMA FinishReports ==
  ASSUME ExtractionInv, NEW j \in Jobs, Finish(j)
  PROVE  ReportIdle' /\ ReportOwn' /\ CompleteReport'
<1>1. /\ TypeOK /\ Exclusion /\ Passed(j)
      /\ ReportIdle /\ ReportOwn /\ CompleteReport
  BY DEF ExtractionInv
<1>2. LockOf(j) \in Roots \X Labels /\ Plan[j] \in Seq(Videos)
  BY Places
<1>3. /\ report'[LockOf(j)] = [status |-> "complete", job |-> j,
                               completed |-> completed[j]]
      /\ \A l \in (Roots \X Labels) \ {LockOf(j)} : report'[l] = report[l]
      /\ pc' = [pc EXCEPT ![j] = "off"] /\ UNCHANGED files
  BY <1>1, <1>2 DEF Finish, Reported, Goto, TypeOK
<1>4. /\ completed[j] = Len(Plan[j])
      /\ \A i \in DOMAIN Plan[j] : Consistent(j, Plan[j][i])
  <2>1. /\ at[j] > Len(Plan[j]) /\ at[j] \in Nat /\ Len(Plan[j]) \in Nat
        /\ completed[j] = at[j] - 1 /\ at[j] <= Len(Plan[j]) + 1
        /\ \A i \in DOMAIN Plan[j] : i < at[j] => Consistent(j, Plan[j][i])
    BY <1>1, <1>2 DEF Finish, Passed, Working, TypeOK
  <2>2. DOMAIN Plan[j] = 1..Len(Plan[j])
    BY <1>2
  <2>3. \A i \in DOMAIN Plan[j] : i < at[j]
    BY <2>1, <2>2
  <2>4. QED
    BY <2>1, <2>3
<1>5. ReportIdle'
  <2>1. SUFFICES ASSUME NEW k \in Jobs, pc'[k] \in Working
                 PROVE  /\ report'[LockOf(k)] # NoFile
                        /\ report'[LockOf(k)].status # "complete"
    BY DEF ReportIdle, LockOf
  <2>2. k # j /\ pc[k] \in Working /\ pc[j] \in Critical
    BY <1>1, <1>3, <2>1 DEF Finish, TypeOK, Critical, Working, Writing
  <2>3. LockOf(k) # LockOf(j)
    BY <1>1, <2>2 DEF Exclusion, Critical
  <2>4. LockOf(k) \in Roots \X Labels
    BY Places
  <2>5. QED
    BY <1>1, <1>3, <2>2, <2>3, <2>4 DEF ReportIdle
<1>6. ReportOwn'
  BY <1>1, <1>3 DEF ReportOwn, LockOf
<1>7. CompleteReport'
  <2>1. \A l \in Roots \X Labels : report'[l] # NoFile => report'[l].job \in Jobs
    BY <1>1, <1>3 DEF TypeOK, Report
  <2>2. SUFFICES ASSUME NEW l \in Roots \X Labels, NEW k \in Jobs,
                        report'[l] # NoFile, report'[l].status = "complete",
                        report'[l].job = k
                 PROVE  /\ report'[l].completed = Len(Plan[k])
                        /\ \A i \in DOMAIN Plan[k] : Consistent(k, Plan[k][i])'
    BY <2>1, CompleteJobs
  <2>3. \A v : Consistent(k, v) => Consistent(k, v)'
    BY <1>3 DEF files, Consistent
  <2>4. CASE l = LockOf(j)
    BY <1>3, <1>4, <2>2, <2>3, <2>4
  <2>5. CASE l # LockOf(j)
    BY <1>1, <1>3, <2>2, <2>3, <2>5 DEF CompleteReport
  <2>6. QED
    BY <2>4, <2>5
<1>8. QED
  BY <1>5, <1>6, <1>7
\* What a process knows of its own videos stays true.
LEMMA OwnKept ==
  ASSUME ExtractionInv, NEW j \in Jobs,
         Start(j) \/ DryRun(j) \/ Step(j) \/ Trouble(j)
  PROVE  InHand(j)' /\ Passed(j)'
<1>1. TypeOK /\ InHand(j) /\ Passed(j)
  BY DEF ExtractionInv
<1>2. /\ Plan[j] \in Seq(Videos) /\ Len(Plan[j]) \in Nat
      /\ DOMAIN Plan[j] = 1..Len(Plan[j])
      /\ at[j] \in Nat \ {0} /\ completed[j] \in Nat
  BY <1>1, Places DEF TypeOK
<1>3. CASE UNCHANGED pc /\ pc[j] = "off"
  BY <1>3 DEF InHand, Passed, Working, Writing
<1>4. CASE pc'[j] \in {"off", "waiting", "start"}
  BY <1>4 DEF InHand, Passed, Working, Writing
<1>5. CASE OpenReport(j)
  BY <1>1, <1>2, <1>5 DEF OpenReport, Goto, TypeOK, InHand, Passed, Writing
<1>6. CASE Skip(j)
  <2>1. Consistent(j, Plan[j][at[j]])
    BY <1>6 DEF Skip, IsComplete, Video
  <2>2. /\ at'[j] = at[j] + 1 /\ completed'[j] = completed[j] + 1
        /\ pc'[j] = "check" /\ pc[j] = "check" /\ at[j] <= Len(Plan[j])
        /\ UNCHANGED files
    BY <1>1, <1>6 DEF Skip, TypeOK, files
  <2>3. \A v : Consistent(j, v) => Consistent(j, v)'
    BY <2>2 DEF files, Consistent
  <2>4. \A i \in DOMAIN Plan[j] : i < at'[j] => Consistent(j, Plan[j][i])'
    BY <1>1, <1>2, <2>1, <2>2, <2>3 DEF Passed, Working
  <2>5. InHand(j)'
    BY <2>2 DEF InHand, Writing
  <2>6. QED
    BY <1>1, <1>2, <2>2, <2>4, <2>5 DEF Passed, Working
<1>7. CASE Extract(j) \/ ReuseTemporal(j) \/ FindNoTemporal(j) \/ ReadDigest(j)
  <2>1. UNCHANGED <<files, at, completed>> /\ pc[j] \in Working
    BY <1>7 DEF Extract, ReuseTemporal, FindNoTemporal, ReadDigest, files, locals,
                Working, Writing
  <2>2. Passed(j)'
    BY <1>1, <2>1 DEF Passed, Consistent, files, Key
  <2>3. Video(j)' = Video(j) /\ Key(j, Video(j))' = Key(j, Video(j))
    BY <2>1 DEF Video, Key
  <2>4. InHand(j)'
    BY <1>1, <1>2, <1>7, <2>1, <2>3
    DEF Extract, ReuseTemporal, FindNoTemporal, ReadDigest, Goto, TypeOK, files,
        locals, InHand, Writing
  <2>5. QED
    BY <2>2, <2>4
<1>8. CASE WriteFeature(j) \/ WriteSidecar(j) \/ WriteTemporal(j)
  <2>1. /\ UNCHANGED <<at, completed, digest>> /\ pc[j] \in Writing
        /\ at[j] \in DOMAIN Plan[j]
    BY <1>1, <1>8 DEF WriteFeature, WriteSidecar, WriteTemporal, locals, Writing, InHand
  <2>2. Video(j)' = Video(j) /\ Key(j, Video(j))' = Key(j, Video(j))
    BY <2>1 DEF Video, Key
  <2>3. Video(j) \in Videos /\ Key(j, Video(j)) \in Roots \X Videos
    BY <2>1, HandledVideo, Places
  <2>4. \A i \in DOMAIN Plan[j] : i < at[j] => Plan[j][i] # Video(j)
    BY <1>2, <2>1, JobsAssumption DEF Video
  <2>5. FileStep(j)
    BY <1>1, <1>8, StepShape DEF Step
  <2>6. \A i \in DOMAIN Plan[j] :
           i < at[j] => (Consistent(j, Plan[j][i]) => Consistent(j, Plan[j][i])')
    <3>1. SUFFICES ASSUME NEW i \in DOMAIN Plan[j], i < at[j]
                   PROVE  Consistent(j, Plan[j][i]) => Consistent(j, Plan[j][i])'
      OBVIOUS
    <3>2. Plan[j][i] \in Videos /\ Plan[j][i] # Video(j)
      BY <1>2, <2>4, <3>1
    <3>3. /\ Key(j, Plan[j][i]) \in Roots \X Videos
          /\ Key(j, Plan[j][i]) # Key(j, Video(j))
      BY <3>2, Places, KeyEqual
    <3>4. QED
      BY <2>5, <3>2, <3>3 DEF FileStep, files, Consistent
  <2>7. Passed(j)'
    <3>1. /\ completed[j] = at[j] - 1 /\ at[j] <= Len(Plan[j]) + 1
          /\ \A i \in DOMAIN Plan[j] : i < at[j] => Consistent(j, Plan[j][i])'
      BY <1>1, <2>1, <2>6 DEF Passed, Working
    <3>2. QED
      BY <2>1, <3>1 DEF Passed
  <2>8. InHand(j)'
    <3>1. CASE WriteFeature(j)
      <4>1. PICK t \in Tags :
               feature' = [feature EXCEPT ![Key(j, Video(j))] =
                              [ckpt |-> Ckpt[j], recipe |-> Recipe[j], tag |-> t]]
        BY <3>1 DEF WriteFeature
      <4>2. /\ feature'[Key(j, Video(j))] =
                   [ckpt |-> Ckpt[j], recipe |-> Recipe[j], tag |-> t]
            /\ [ckpt |-> Ckpt[j], recipe |-> Recipe[j], tag |-> t] # NoFile
        BY <1>1, <2>3, <4>1, Written, NoFileAssumption DEF TypeOK
      <4>3. pc'[j] = "digest" /\ at'[j] = at[j]
        BY <1>1, <3>1 DEF WriteFeature, Goto, TypeOK, locals
      <4>4. QED
        BY <2>1, <2>2, <4>2, <4>3 DEF InHand
    <3>2. CASE WriteSidecar(j)
      BY <1>1, <2>1, <2>2, <2>3, <3>2
      DEF WriteSidecar, Goto, TypeOK, InHand, Writing
    <3>3. CASE WriteTemporal(j)
      BY <1>1, <2>1, <2>2, <2>3, <3>3
      DEF WriteTemporal, Goto, TypeOK, InHand, Writing
    <3>4. QED
      BY <1>8, <3>1, <3>2, <3>3
  <2>9. QED
    BY <2>7, <2>8
<1>9. CASE CountVideo(j)
  <2>1. /\ at'[j] = at[j] + 1 /\ completed'[j] = completed[j] + 1
        /\ pc'[j] = "check" /\ pc[j] = "count" /\ UNCHANGED files
    BY <1>1, <1>9 DEF CountVideo, Goto, TypeOK, files
  <2>2. at[j] \in DOMAIN Plan[j]
    BY <1>1, <2>1 DEF InHand
  <2>3. Consistent(j, Plan[j][at[j]])
    <3>1. /\ feature[Key(j, Video(j))] # NoFile
          /\ feature[Key(j, Video(j))] \in Feature \cup {NoFile}
      BY <1>1, <2>1, <2>2, HandledVideo, Places DEF InHand, TypeOK
    <3>2. [ckpt |-> Ckpt[j], recipe |-> Recipe[j],
           sha256 |-> feature[Key(j, Video(j))]] # NoFile
      BY <3>1, Written, NoFileAssumption
    <3>3. QED
      BY <1>1, <2>1, <3>1, <3>2 DEF InHand, Consistent, Video
  <2>4. \A v : Consistent(j, v) => Consistent(j, v)'
    BY <2>1 DEF files, Consistent
  <2>5. \A i \in DOMAIN Plan[j] : i < at'[j] => Consistent(j, Plan[j][i])'
    BY <1>1, <1>2, <2>1, <2>3, <2>4 DEF Passed, Working
  <2>6. InHand(j)'
    BY <2>1 DEF InHand, Writing
  <2>7. QED
    BY <1>1, <1>2, <2>1, <2>2, <2>5, <2>6 DEF Passed, Working
<1>10. QED
  <2>1. CASE Start(j) \/ Acquire(j) \/ LockTimeout(j)
    BY <1>1, <1>4, <2>1 DEF Start, Acquire, LockTimeout, Goto, TypeOK
  <2>2. CASE ConflictingTemporal(j) \/ Finish(j) \/ Trouble(j)
    BY <1>1, <1>4, <2>2 DEF ConflictingTemporal, Finish, Trouble, TooFewResources,
                            VideoFails, Die, Goto, TypeOK
  <2>3. CASE DryRun(j)
    BY <1>3, <2>3 DEF DryRun
  <2>4. QED
    BY <1>5, <1>6, <1>7, <1>8, <1>9, <2>1, <2>2, <2>3 DEF Step
\* Sidecars are written of features in hand.
LEMMA SidecarKept ==
  ASSUME ExtractionInv, NEW j \in Jobs,
         Start(j) \/ DryRun(j) \/ Step(j) \/ Trouble(j)
  PROVE  SidecarTruthful'
<1>1. TypeOK /\ InHand(j) /\ SidecarTruthful
  BY DEF ExtractionInv
<1>2. CASE UNCHANGED sidecar
  BY <1>1, <1>2 DEF SidecarTruthful
<1>3. CASE WriteSidecar(j)
  <2>1. /\ digest[j] # NoFile
        /\ digest[j].ckpt = Ckpt[j] /\ digest[j].recipe = Recipe[j]
    BY <1>1, <1>3 DEF WriteSidecar, InHand, Writing
  <2>2. sidecar' = [sidecar EXCEPT ![Key(j, Video(j))] =
                       [ckpt |-> Ckpt[j], recipe |-> Recipe[j], sha256 |-> digest[j]]]
    BY <1>3 DEF WriteSidecar
  <2>3. QED
    BY <1>1, <2>1, <2>2 DEF SidecarTruthful, TypeOK
<1>4. QED
  BY <1>2, <1>3 DEF Start, DryRun, Step, Trouble, Acquire, LockTimeout, TooFewResources,
     OpenReport, Skip, Extract, WriteFeature, ReadDigest, ReuseTemporal, FindNoTemporal,
     WriteTemporal, CountVideo, ConflictingTemporal, VideoFails, Finish, Die, files

(***************************************************************************)
(* The theorems                                                            *)
(***************************************************************************)

\* The inductive invariant, for jobs whose locks cover what they share: of one
\* root, a lock in common if a video is; of several roots, one recipe.
THEOREM Extraction ==
  ASSUME SplitsDisjoint, StreamsAgree
  PROVE  Spec => []ExtractionInv
<1>1. Init => ExtractionInv
  <2>1. SUFFICES ASSUME Init PROVE ExtractionInv
    OBVIOUS
  <2>2. TypeOK
    BY <2>1, InitType
  <2>3. /\ \A j \in Jobs : pc[j] = "off"
        /\ \A k \in Roots \X Videos : sidecar[k] = NoFile
        /\ \A l \in Roots \X Labels : report[l] = NoFile
    BY <2>1 DEF Init
  <2>4. Exclusion /\ ReportIdle /\ ReportOwn /\ SidecarTruthful /\ CompleteReport
    BY <2>3 DEF Exclusion, ReportIdle, ReportOwn, SidecarTruthful, CompleteReport,
                Critical, Working, Writing
  <2>5. \A j \in Jobs : InHand(j) /\ Passed(j)
    BY <2>3 DEF InHand, Passed, Working, Writing
  <2>6. QED
    BY <2>2, <2>4, <2>5 DEF ExtractionInv
<1>2. ExtractionInv /\ [Next]_vars => ExtractionInv'
  <2>1. SUFFICES ASSUME ExtractionInv, [Next]_vars PROVE ExtractionInv'
    OBVIOUS
  <2>2. CASE UNCHANGED vars
    <3>1. TypeOK' /\ Exclusion' /\ ReportIdle' /\ ReportOwn' /\ SidecarTruthful'
      BY <2>1, <2>2 DEF ExtractionInv, TypeOK, Exclusion, ReportIdle, ReportOwn,
                        SidecarTruthful, LockOf, vars
    <3>2. \A j \in Jobs : InHand(j)' /\ Passed(j)'
      BY <2>1, <2>2 DEF ExtractionInv, InHand, Passed, Consistent, Key, Video, vars
    <3>3. CompleteReport'
      BY <2>1, <2>2 DEF ExtractionInv, CompleteReport, Consistent, Key, vars
    <3>4. QED
      BY <3>1, <3>2, <3>3 DEF ExtractionInv
  <2>3. CASE Next
    <3>1. PICK j \in Jobs : Start(j) \/ DryRun(j) \/ Step(j) \/ Trouble(j)
      BY <2>3 DEF Next
    <3>2. TypeOK /\ InHand(j) /\ Exclusion
      BY <2>1 DEF ExtractionInv
    <3>3. LocalStep(j) /\ FileStep(j) /\ LockStep(j)
      BY <3>1, <3>2, StepShape
    <3>4. TypeOK'
      BY <3>1, <3>2, StepType
    <3>5. Exclusion'
      BY <3>2, <3>3, ExclusionKept
    <3>6. \A k \in Jobs : InHand(k)' /\ Passed(k)'
      BY <2>1, <3>1, <3>3, OwnKept, OthersKept
    <3>7. SidecarTruthful'
      BY <2>1, <3>1, SidecarKept
    <3>8. ReportIdle' /\ ReportOwn' /\ CompleteReport'
      <4>1. CASE Finish(j)
        BY <2>1, <4>1, FinishReports
      <4>2. CASE ~Finish(j)
        BY <2>1, <3>1, <3>2, <3>3, <4>2, StepReport, ReportsKept
      <4>3. QED
        BY <4>1, <4>2
    <3>9. QED
      BY <3>4, <3>5, <3>6, <3>7, <3>8 DEF ExtractionInv
  <2>4. QED
    BY <2>1, <2>2, <2>3
<1>3. QED
  BY <1>1, <1>2, PTL DEF Spec

\* Two processes never extract one video into one root at a time.
THEOREM ExtractorsExclude ==
  ASSUME SplitsDisjoint, StreamsAgree
  PROVE  Spec => []OneExtractor
<1>1. ExtractionInv => OneExtractor
  <2>1. SUFFICES ASSUME ExtractionInv, NEW j \in Jobs, NEW k \in Jobs, j # k,
                        pc[j] \in Writing, pc[k] \in Writing, Root[j] = Root[k],
                        Video(j) = Video(k)
                 PROVE  FALSE
    BY DEF OneExtractor
  <2>2. Video(j) \in VideosOf(j) /\ Video(k) \in VideosOf(k)
    BY <2>1, HandledVideo DEF ExtractionInv, InHand
  <2>3. LockOf(j) = LockOf(k)
    BY <2>1, <2>2 DEF SplitsDisjoint
  <2>4. QED
    BY <2>1, <2>3 DEF ExtractionInv, Exclusion, Critical, Working
<1>2. QED
  BY <1>1, Extraction, PTL

\* A sidecar describes the feature whose hash it carries.
THEOREM SidecarsTruthful ==
  ASSUME SplitsDisjoint, StreamsAgree
  PROVE  Spec => []SidecarTruthful
<1>1. ExtractionInv => SidecarTruthful
  BY DEF ExtractionInv
<1>2. QED
  BY <1>1, Extraction, PTL

\* What a report says is complete is complete.
THEOREM CompleteReports ==
  ASSUME SplitsDisjoint, StreamsAgree
  PROVE  Spec => []CompleteReport
<1>1. ExtractionInv => CompleteReport
  BY DEF ExtractionInv
<1>2. QED
  BY <1>1, Extraction, PTL

\* The files, the locks and the statements of every process keep their types.
THEOREM ExtractionTypes ==
  ASSUME SplitsDisjoint, StreamsAgree
  PROVE  Spec => []TypeOK
<1>1. ExtractionInv => TypeOK
  BY DEF ExtractionInv
<1>2. QED
  BY <1>1, Extraction, PTL
=============================================================================
