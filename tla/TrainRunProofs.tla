--------------------------- MODULE TrainRunProofs ---------------------------
(* Proofs about TrainRun, for every value of its constants. *)
EXTENDS TrainRun, TLAPS

(***************************************************************************)
(* Selection values and paths                                              *)
(***************************************************************************)

\* Selection values are numbers.
LEMMA DevType ==
  ASSUME NEW m \in Models
  PROVE  /\ Dev(m) \in Int \X Int
         /\ Dev(m)[1] = R1[m] /\ Dev(m)[2] = R5[m]
         /\ R1[m] \in Nat /\ R5[m] \in Nat
  BY ModelsAssumption DEF Dev

\* A path that is not empty ends in an outcome.
LEMMA OutcomeType ==
  ASSUME NEW w \in Seq(Models), Len(w) >= 1
  PROVE  Outcome(w) \in Models
  BY DEF Outcome

\* A path of one candidate.
LEMMA SingletonPath ==
  ASSUME NEW m \in Models
  PROVE  /\ <<m>> \in Seq(Models)
         /\ Len(<<m>>) = 1
         /\ <<m>>[1] = m
         /\ Outcome(<<m>>) = m
  BY DEF Outcome

\* A path stays a prefix of what grows from it.
LEMMA PrefixAppend ==
  ASSUME NEW a \in Seq(Models), NEW b \in Seq(Models), NEW m \in Models,
         Prefix(a, b)
  PROVE  Prefix(a, Append(b, m))
<1>1. Len(Append(b, m)) = Len(b) + 1
  OBVIOUS
<1>2. \A i \in 1..Len(b) : Append(b, m)[i] = b[i]
  OBVIOUS
<1>3. QED
  BY <1>1, <1>2 DEF Prefix

\* The values memory is reset to.
LEMMA EmptyMemoryType ==
  ASSUME EmptyMemory, cfg \in Configs
  PROVE  /\ resumed' \in BOOLEAN /\ cfg' \in Configs
         /\ epoch' \in Nat /\ batch' \in Nat /\ pending' \in Nat
         /\ step' \in Nat /\ dev' \in Int \X Int
         /\ weights' \in Seq(Models)
<1>1. <<>> \in Seq(Models)
  OBVIOUS
<1>2. <<NegInf, NegInf>> \in Int \X Int
  BY DEF NegInf
<1>3. QED
  BY <1>1, <1>2 DEF EmptyMemory

(***************************************************************************)
(* Type correctness                                                        *)
(***************************************************************************)

LEMMA TypeOKInit == Init => TypeOK
<1> SUFFICES ASSUME Init PROVE TypeOK
  OBVIOUS
<1>1. <<>> \in Seq(Models)
  OBVIOUS
<1>2. <<NegInf, NegInf>> \in Int \X Int
  BY DEF NegInf
<1>3. 0 \in 0..MaxCrashes
  BY BoundsAssumption
<1>4. QED
  BY <1>1, <1>2, <1>3 DEF Init, TypeOK, Steps, Verdicts

\* What each write leaves behind is a file of its kind.
LEMMA Written ==
  ASSUME RunInv
  PROVE  /\ SaveInit \/ SaveBest => best' \in Checkpoint
         /\ SaveLast => last' \in Checkpoint
         /\ SaveInitMetrics \/ SaveMetrics => metrics' \in Metrics
         /\ WriteSelection => selection' \in Selection
         /\ WriteSummary => summary' \in Summary
<1>0. /\ TypeOK /\ FilesInv /\ MemoryInv
  BY DEF RunInv
<1> USE ModelsAssumption, BoundsAssumption, FilesAssumption
<1>1. ASSUME SaveInit \/ SaveBest PROVE best' \in Checkpoint
  BY <1>0, <1>1
  DEF TypeOK, SaveInit, SaveBest, Checkpoint, CandidateEpochs
<1>2. ASSUME SaveLast PROVE last' \in Checkpoint
  <2>1. Len(weights) >= 1
    BY <1>0, <1>2 DEF TypeOK, SaveLast, SaveLastWith, MemoryInv, InEpoch
  <2>2. R1[Outcome(weights)] \in Int
    BY <1>0, <2>1, OutcomeType, DevType DEF TypeOK
  <2>3. Larger(dev[1], R1[Outcome(weights)]) \in Int
    BY <1>0, <2>2 DEF Larger, TypeOK
  <2>4. QED
    BY <1>0, <1>2, <2>3
    DEF TypeOK, SaveLast, SaveLastWith, Checkpoint, CandidateEpochs
<1>3. ASSUME SaveInitMetrics PROVE metrics' \in Metrics
  <2>1. weights = <<InitModel[cfg]>> /\ InitModel[cfg] \in Models
    BY <1>0, <1>3 DEF TypeOK, SaveInitMetrics, MemoryInv, Initial
  <2>2. QED
    BY <1>3, <2>1, SingletonPath DEF SaveInitMetrics, Metrics, CandidateEpochs
<1>4. ASSUME SaveMetrics PROVE metrics' \in Metrics
  <2>1. Len(weights) >= 1
    BY <1>0, <1>4
    DEF TypeOK, SaveMetrics, FilesInv, MemoryInv, Comparing
  <2>2. QED
    BY <1>0, <1>4, <2>1, OutcomeType
    DEF TypeOK, SaveMetrics, Metrics, CandidateEpochs
<1>5. ASSUME WriteSelection PROVE selection' \in Selection
  BY <1>0, <1>5
  DEF TypeOK, WriteSelection, Selection, Metrics, FilesInv, MemoryInv,
      Finishing
<1>6. ASSUME WriteSummary PROVE summary' \in Summary
  BY <1>0, <1>6 DEF TypeOK, WriteSummary, Summary, MemoryInv
<1>7. QED
  BY <1>1, <1>2, <1>3, <1>4, <1>5, <1>6

LEMMA TypeOKNext == RunInv /\ [Next]_vars => TypeOK'
<1> SUFFICES ASSUME RunInv, [Next]_vars PROVE TypeOK'
  OBVIOUS
<1> USE ModelsAssumption, BoundsAssumption, FilesAssumption
<1>0. /\ TypeOK /\ FilesInv /\ MemoryInv
  BY DEF RunInv
<1> USE DEF TypeOK, Steps, Verdicts, NegInf, mem, files
<1>1. CASE ResourcesShort
  BY <1>0, <1>1 DEF ResourcesShort
<1>2. ASSUME NEW c \in Configs, Launch(c) PROVE TypeOK'
  <2>1. CASE SkipCompleted(c)
    BY <1>0, <2>1 DEF SkipCompleted
  <2>2. CASE RefuseOverwrite(c)
    BY <1>0, <2>2 DEF RefuseOverwrite
  <2>3. CASE StartFresh(c)
    <3>1. <<InitModel[c]>> \in Seq(Models)
      OBVIOUS
    <3>2. <<NegInf, NegInf>> \in Int \X Int
      OBVIOUS
    <3>3. QED
      BY <1>0, <2>3, <3>1, <3>2 DEF StartFresh
  <2>4. CASE StartResume(c)
    <3>1. last \in Checkpoint
      BY <1>0, <2>4 DEF StartResume
    <3>2. /\ last.epoch + 1 \in Nat /\ last.step \in Nat
          /\ last.best \in Int /\ last.weights \in Seq(Models)
      BY <3>1 DEF Checkpoint, CandidateEpochs
    <3>3. (IF metrics # NoFile THEN R5[metrics.outcome] ELSE NegInf) \in Int
      BY <1>0, DevType DEF Metrics
    <3>4. dev' \in Int \X Int
      BY <2>4, <3>2, <3>3 DEF StartResume, Resume
    <3>5. QED
      BY <1>0, <2>4, <3>2, <3>4 DEF StartResume, Resume
  <2>5. CASE ResumeMismatch(c)
    BY <1>0, <2>5 DEF ResumeMismatch
  <2>6. QED
    BY <1>2, <2>1, <2>2, <2>3, <2>4, <2>5 DEF Launch
<1>3. CASE OpenResolved
  BY <1>0, <1>3 DEF OpenResolved
<1>4. CASE CloseResolved
  BY <1>0, <1>4 DEF CloseResolved
<1>5. CASE EvaluateInit
  <2>1. weights = <<InitModel[cfg]>> /\ InitModel[cfg] \in Models
    BY <1>0, <1>5 DEF EvaluateInit, MemoryInv, Initial
  <2>2. dev' \in Int \X Int
    BY <1>5, <2>1, DevType, SingletonPath DEF EvaluateInit
  <2>3. QED
    BY <1>0, <1>5, <2>2 DEF EvaluateInit
<1>6. CASE SaveInit
  BY <1>0, <1>6, Written DEF SaveInit
<1>7. CASE SaveInitMetrics
  BY <1>0, <1>7, Written DEF SaveInitMetrics
<1>8. CASE StartEpoch
  BY <1>0, <1>8 DEF StartEpoch
<1>9. CASE EndTraining
  BY <1>0, <1>9 DEF EndTraining, LeaveLoop
<1>10. CASE TrainBatch
  BY <1>0, <1>10 DEF TrainBatch
<1>11. CASE EvaluateEpoch
  BY <1>0, <1>11 DEF EvaluateEpoch
<1>12. CASE SaveLast
  BY <1>0, <1>12, Written DEF SaveLast, SaveLastWith
<1>13. CASE NewBest
  BY <1>0, <1>13 DEF NewBest, Dev, Outcome, FilesInv, MemoryInv, Comparing
<1>14. CASE KeepBest
  BY <1>0, <1>14 DEF KeepBest
<1>15. CASE SaveBest
  BY <1>0, <1>15, Written DEF SaveBest
<1>16. CASE SaveMetrics
  BY <1>0, <1>16, Written DEF SaveMetrics
<1>17. CASE WriteSelection
  BY <1>0, <1>17, Written DEF WriteSelection
<1>18. CASE WriteSummary
  BY <1>0, <1>18, Written DEF WriteSummary
<1>19. CASE Verify
  BY <1>0, <1>19, EmptyMemoryType DEF Verify
<1>20. CASE Crash
  <2>1. crashes' \in 0..MaxCrashes
    BY <1>0, <1>20 DEF Crash
  <2>2. torn' \in BOOLEAN
    BY <1>0, <1>20 DEF Crash
  <2>3. QED
    BY <1>0, <1>20, <2>1, <2>2, EmptyMemoryType DEF Crash
<1>21. CASE UNCHANGED vars
  BY <1>0, <1>21 DEF vars
<1>22. QED
  BY <1>1, <1>2, <1>3, <1>4, <1>5, <1>6, <1>7, <1>8, <1>9, <1>10, <1>11,
     <1>12, <1>13, <1>14, <1>15, <1>16, <1>17, <1>18, <1>19, <1>20, <1>21
  DEF Next, Step

(***************************************************************************)
(* Files and memory                                                        *)
(***************************************************************************)

LEMMA FilesInvNext == RunInv /\ [Next]_vars => FilesInv'
<1> SUFFICES ASSUME RunInv, [Next]_vars PROVE FilesInv'
  OBVIOUS
<1> USE ModelsAssumption, BoundsAssumption, FilesAssumption
<1>0. TypeOK /\ FilesInv /\ MemoryInv
  BY DEF RunInv
<1> USE DEF FilesInv, mem, files
<1>1. CASE ResourcesShort
  BY <1>0, <1>1 DEF ResourcesShort
<1>2. ASSUME NEW c \in Configs, Launch(c) PROVE FilesInv'
  <2>1. CASE SkipCompleted(c)
    BY <1>0, <2>1 DEF SkipCompleted
  <2>2. CASE RefuseOverwrite(c)
    BY <1>0, <2>2 DEF RefuseOverwrite
  <2>3. CASE StartFresh(c)
    BY <1>0, <2>3 DEF StartFresh
  <2>4. CASE StartResume(c)
    BY <1>0, <2>4 DEF StartResume, Resume
  <2>5. CASE ResumeMismatch(c)
    BY <1>0, <2>5 DEF ResumeMismatch
  <2>6. QED
    BY <1>2, <2>1, <2>2, <2>3, <2>4, <2>5 DEF Launch
<1>3. CASE OpenResolved
  BY <1>0, <1>3 DEF OpenResolved, MemoryInv
<1>4. CASE CloseResolved
  BY <1>0, <1>4 DEF CloseResolved, MemoryInv
<1>5. CASE EvaluateInit
  BY <1>0, <1>5 DEF EvaluateInit
<1>6. CASE SaveInit
  <2>1. /\ last = NoFile /\ selection = NoFile /\ cfg \in Configs
        /\ weights = <<InitModel[cfg]>> /\ InitModel[cfg] \in Models
    BY <1>0, <1>6 DEF SaveInit, MemoryInv, Initial, TypeOK
  <2>2. best' # NoFile
    BY <1>6, Written
  <2>3. /\ best'.weights = <<InitModel[best'.cfg]>>
        /\ Len(best'.weights) >= 1
    BY <1>6, <2>1, SingletonPath DEF SaveInit
  <2>4. QED
    BY <1>0, <1>6, <2>1, <2>2, <2>3 DEF SaveInit
<1>7. CASE SaveInitMetrics
  BY <1>0, <1>7, Written DEF SaveInitMetrics, MemoryInv, Initial
<1>8. CASE StartEpoch
  BY <1>0, <1>8 DEF StartEpoch
<1>9. CASE EndTraining
  BY <1>0, <1>9 DEF EndTraining, LeaveLoop
<1>10. CASE TrainBatch
  BY <1>0, <1>10 DEF TrainBatch
<1>11. CASE EvaluateEpoch
  BY <1>0, <1>11 DEF EvaluateEpoch
<1>12. CASE SaveLast
  BY <1>0, <1>12, Written
  DEF SaveLast, SaveLastWith, MemoryInv, InEpoch, TypeOK
<1>13. CASE NewBest
  BY <1>0, <1>13 DEF NewBest
<1>14. CASE KeepBest
  BY <1>0, <1>14 DEF KeepBest
<1>15. CASE SaveBest
  <2>1. /\ selection = NoFile
        /\ last # NoFile /\ last.weights = weights /\ last.cfg = cfg
    BY <1>0, <1>15 DEF SaveBest, MemoryInv, Comparing
  <2>2. best' # NoFile /\ best'.weights = weights /\ best'.cfg = cfg
    BY <1>15, Written DEF SaveBest
  <2>3. Len(weights) >= 1
    BY <1>0, <2>1
  <2>4. Prefix(best'.weights, last.weights)
    BY <1>0, <2>1, <2>2, <2>3 DEF Prefix
  <2>5. QED
    BY <1>0, <1>15, <2>1, <2>2, <2>3, <2>4 DEF SaveBest
<1>16. CASE SaveMetrics
  BY <1>0, <1>16, Written DEF SaveMetrics, MemoryInv, Comparing
<1>17. CASE WriteSelection
  BY <1>0, <1>17, Written DEF WriteSelection, MemoryInv, Finishing, Setup
<1>18. CASE WriteSummary
  BY <1>0, <1>18, Written DEF WriteSummary, MemoryInv, Finishing
<1>19. CASE Verify
  BY <1>0, <1>19 DEF Verify, EmptyMemory
<1>20. CASE Crash
  BY <1>0, <1>20 DEF Crash, EmptyMemory
<1>21. CASE UNCHANGED vars
  BY <1>0, <1>21 DEF vars
<1>22. QED
  BY <1>1, <1>2, <1>3, <1>4, <1>5, <1>6, <1>7, <1>8, <1>9, <1>10, <1>11,
     <1>12, <1>13, <1>14, <1>15, <1>16, <1>17, <1>18, <1>19, <1>20, <1>21
  DEF Next, Step

LEMMA MemoryInvNext == RunInv /\ [Next]_vars => MemoryInv'
<1> SUFFICES ASSUME RunInv, [Next]_vars PROVE MemoryInv'
  OBVIOUS
<1> USE ModelsAssumption, BoundsAssumption, FilesAssumption
<1>0. TypeOK /\ FilesInv /\ MemoryInv
  BY DEF RunInv
<1> USE DEF MemoryInv, Setup, Initial, InEpoch, Comparing, Finishing, mem, files
<1>1. CASE ResourcesShort
  BY <1>0, <1>1 DEF ResourcesShort
<1>2. ASSUME NEW c \in Configs, Launch(c) PROVE MemoryInv'
  <2>1. CASE SkipCompleted(c)
    BY <1>0, <2>1 DEF SkipCompleted
  <2>2. CASE RefuseOverwrite(c)
    BY <1>0, <2>2 DEF RefuseOverwrite
  <2>3. CASE StartFresh(c)
    BY <1>0, <2>3 DEF StartFresh, HasResult
  <2>4. CASE StartResume(c)
    BY <1>0, <2>4 DEF StartResume, Resume, FilesInv, HasResult
  <2>5. CASE ResumeMismatch(c)
    BY <1>0, <2>5 DEF ResumeMismatch
  <2>6. QED
    BY <1>2, <2>1, <2>2, <2>3, <2>4, <2>5 DEF Launch
<1>3. CASE OpenResolved
  BY <1>0, <1>3 DEF OpenResolved
<1>4. CASE CloseResolved
  <2>1. CASE ~resumed
    BY <1>0, <1>4, <2>1 DEF CloseResolved
  <2>2. CASE resumed
    <3>1. /\ last # NoFile /\ cfg = last.cfg /\ weights = last.weights
          /\ epoch = last.epoch + 1 /\ last.epoch \in 0..(Epochs - 1)
          /\ Len(weights) = epoch + 1
          /\ best # NoFile /\ metrics # NoFile /\ best.cfg = cfg
          /\ Prefix(best.weights, weights)
      <4>1. /\ last # NoFile /\ cfg = last.cfg /\ weights = last.weights
            /\ epoch = last.epoch + 1
        BY <1>0, <1>4, <2>2 DEF CloseResolved
      <4>2. last.epoch \in 0..(Epochs - 1) /\ Len(last.weights) = last.epoch + 2
        BY <1>0, <4>1 DEF FilesInv
      <4>3. /\ best # NoFile /\ metrics # NoFile /\ best.cfg = last.cfg
            /\ Prefix(best.weights, last.weights)
        BY <1>0, <4>1 DEF FilesInv
      <4>4. QED
        BY <4>1, <4>2, <4>3
    <3>2. epoch <= Epochs /\ epoch # 0
      BY <3>1
    <3>3. QED
      BY <1>0, <1>4, <2>2, <3>1, <3>2 DEF CloseResolved
  <2>3. QED
    BY <1>0, <2>1, <2>2 DEF TypeOK
<1>5. CASE EvaluateInit
  BY <1>0, <1>5 DEF EvaluateInit
<1>6. CASE SaveInit
  BY <1>0, <1>6, Written DEF SaveInit
<1>7. CASE SaveInitMetrics
  <2>1. /\ last = NoFile /\ epoch = 0 /\ best # NoFile /\ best.cfg = cfg
        /\ cfg \in Configs /\ weights = <<InitModel[cfg]>>
        /\ selection = NoFile /\ resolved = cfg
    BY <1>0, <1>7 DEF SaveInitMetrics, TypeOK
  <2>2. best.weights = weights /\ Len(weights) = 1
    BY <1>0, <2>1, SingletonPath DEF FilesInv
  <2>3. Prefix(best.weights, weights)
    BY <2>2 DEF Prefix
  <2>4. metrics' # NoFile
    BY <1>7, Written
  <2>5. QED
    BY <1>7, <2>1, <2>2, <2>3, <2>4 DEF SaveInitMetrics
<1>8. CASE StartEpoch
  BY <1>0, <1>8 DEF StartEpoch
<1>9. CASE EndTraining
  BY <1>0, <1>9 DEF EndTraining, LeaveLoop, TypeOK
<1>10. CASE TrainBatch
  BY <1>0, <1>10 DEF TrainBatch
<1>11. CASE EvaluateEpoch
  <2>1. PICK m \in Models : weights' = Append(weights, m)
    BY <1>11 DEF EvaluateEpoch
  <2>2. /\ weights \in Seq(Models) /\ epoch \in Nat
        /\ Len(weights) = epoch + 1 /\ Prefix(best.weights, weights)
        /\ best # NoFile /\ best \in Checkpoint
    BY <1>0, <1>11 DEF EvaluateEpoch, TypeOK
  <2>3. Len(weights') = epoch + 2
    BY <2>1, <2>2
  <2>4. Prefix(best.weights, weights')
    BY <2>1, <2>2, PrefixAppend DEF Checkpoint
  <2>5. epoch # 0 => weights' = Append(last.weights, Outcome(weights'))
    <3>1. Outcome(weights') = m
      BY <2>1, <2>2, <2>3 DEF Outcome
    <3>2. epoch # 0 => last.weights = weights
      BY <1>0, <1>11 DEF EvaluateEpoch
    <3>3. QED
      BY <2>1, <3>1, <3>2
  <2>6. QED
    BY <1>0, <1>11, <2>3, <2>4, <2>5 DEF EvaluateEpoch
<1>12. CASE SaveLast
  BY <1>0, <1>12, Written DEF SaveLast, SaveLastWith
<1>13. CASE NewBest
  BY <1>0, <1>13 DEF NewBest
<1>14. CASE KeepBest
  <2>1. /\ last # NoFile /\ last.epoch = epoch /\ last.weights = weights
        /\ last.cfg = cfg /\ epoch \in Nat
        /\ selection = NoFile /\ resolved = cfg
    BY <1>0, <1>14 DEF KeepBest, TypeOK
  <2>2. /\ epoch \in 0..(Epochs - 1) /\ Len(weights) = epoch + 2
        /\ best # NoFile /\ metrics # NoFile /\ best.cfg = cfg
        /\ Prefix(best.weights, weights)
    BY <1>0, <2>1 DEF FilesInv
  <2>3. epoch' <= Epochs /\ epoch' # 0 /\ epoch = epoch' - 1
        /\ Len(weights) = epoch' + 1
    BY <1>14, <2>1, <2>2 DEF KeepBest
  <2>4. QED
    BY <1>14, <2>1, <2>2, <2>3 DEF KeepBest
<1>15. CASE SaveBest
  BY <1>0, <1>15 DEF SaveBest
<1>16. CASE SaveMetrics
  <2>1. /\ last # NoFile /\ last.epoch = epoch /\ last.weights = weights
        /\ last.cfg = cfg /\ epoch \in Nat
        /\ selection = NoFile /\ resolved = cfg
    BY <1>0, <1>16 DEF SaveMetrics, TypeOK
  <2>2. /\ epoch \in 0..(Epochs - 1) /\ Len(weights) = epoch + 2
        /\ best # NoFile /\ best.cfg = cfg
        /\ Prefix(best.weights, weights)
    BY <1>0, <2>1 DEF FilesInv
  <2>3. epoch' <= Epochs /\ epoch' # 0 /\ epoch = epoch' - 1
        /\ Len(weights) = epoch' + 1
    BY <1>16, <2>1, <2>2 DEF SaveMetrics
  <2>4. metrics' # NoFile
    BY <1>16, Written
  <2>5. QED
    BY <1>16, <2>1, <2>2, <2>3, <2>4 DEF SaveMetrics
<1>17. CASE WriteSelection
  BY <1>0, <1>17, Written DEF WriteSelection, FilesInv
<1>18. CASE WriteSummary
  BY <1>0, <1>18, Written DEF WriteSummary, FilesInv
<1>19. CASE Verify
  BY <1>0, <1>19 DEF Verify, EmptyMemory
<1>20. CASE Crash
  BY <1>0, <1>20 DEF Crash, EmptyMemory
<1>21. CASE UNCHANGED vars
  BY <1>0, <1>21 DEF vars
<1>22. QED
  BY <1>1, <1>2, <1>3, <1>4, <1>5, <1>6, <1>7, <1>8, <1>9, <1>10, <1>11,
     <1>12, <1>13, <1>14, <1>15, <1>16, <1>17, <1>18, <1>19, <1>20, <1>21
  DEF Next, Step


(***************************************************************************)
(* The recorded best value covers best_dev.pt                              *)
(***************************************************************************)

LEMMA BestCoveredNext == RunInv /\ [Next]_vars => BestCovered'
<1> SUFFICES ASSUME RunInv, [Next]_vars PROVE BestCovered'
  OBVIOUS
<1> USE ModelsAssumption, BoundsAssumption, FilesAssumption
<1>0. TypeOK /\ FilesInv /\ MemoryInv /\ BestCovered
  BY DEF RunInv
<1> USE DEF BestCovered, Setup, Initial, InEpoch, Comparing, Finishing, mem, files
<1>1. CASE ResourcesShort
  BY <1>0, <1>1 DEF ResourcesShort
<1>2. ASSUME NEW c \in Configs, Launch(c) PROVE BestCovered'
  <2>1. CASE SkipCompleted(c)
    BY <1>0, <2>1 DEF SkipCompleted
  <2>2. CASE RefuseOverwrite(c)
    BY <1>0, <2>2 DEF RefuseOverwrite
  <2>3. CASE StartFresh(c)
    BY <1>0, <2>3 DEF StartFresh
  <2>4. CASE StartResume(c)
    BY <1>0, <2>4 DEF StartResume, Resume
  <2>5. CASE ResumeMismatch(c)
    BY <1>0, <2>5 DEF ResumeMismatch
  <2>6. QED
    BY <1>2, <2>1, <2>2, <2>3, <2>4, <2>5 DEF Launch
<1>3. CASE OpenResolved
  BY <1>0, <1>3 DEF OpenResolved
<1>4. CASE CloseResolved
  <2>1. last # NoFile /\ resumed => dev[1] = last.best
    BY <1>0, <1>4 DEF CloseResolved, MemoryInv
  <2>2. resumed => last # NoFile
    BY <1>0, <1>4 DEF CloseResolved, MemoryInv
  <2>3. QED
    BY <1>0, <1>4, <2>1, <2>2 DEF CloseResolved
<1>5. CASE EvaluateInit
  <2>1. InitModel[cfg] \in Models /\ weights = <<InitModel[cfg]>>
    BY <1>0, <1>5 DEF EvaluateInit, MemoryInv, TypeOK
  <2>2. dev' = Dev(InitModel[cfg])
    BY <1>5, <2>1, SingletonPath DEF EvaluateInit
  <2>3. dev'[1] = R1[InitModel[cfg]]
    BY <2>1, <2>2, DevType
  <2>4. QED
    BY <1>0, <1>5, <2>3 DEF EvaluateInit
<1>6. CASE SaveInit
  BY <1>0, <1>6 DEF SaveInit, MemoryInv
<1>7. CASE SaveInitMetrics
  <2>1. /\ last = NoFile /\ best # NoFile /\ best.cfg = cfg
        /\ InitModel[cfg] \in Models
    BY <1>0, <1>7 DEF SaveInitMetrics, MemoryInv, TypeOK
  <2>2. Outcome(best.weights) = InitModel[cfg]
    BY <1>0, <2>1, SingletonPath DEF FilesInv
  <2>3. dev[1] >= R1[Outcome(best.weights)]
    BY <1>0, <1>7, <2>1, <2>2, DevType DEF SaveInitMetrics
  <2>4. QED
    BY <1>0, <1>7, <2>1, <2>3 DEF SaveInitMetrics
<1>8. CASE StartEpoch
  BY <1>0, <1>8 DEF StartEpoch
<1>9. CASE EndTraining
  BY <1>0, <1>9 DEF EndTraining, LeaveLoop
<1>10. CASE TrainBatch
  BY <1>0, <1>10 DEF TrainBatch
<1>11. CASE EvaluateEpoch
  BY <1>0, <1>11 DEF EvaluateEpoch
<1>12. CASE SaveLast
  <2>1. /\ weights \in Seq(Models) /\ Len(weights) >= 1
        /\ dev[1] \in Int
        /\ best # NoFile /\ best \in Checkpoint /\ Len(best.weights) >= 1
    BY <1>0, <1>12 DEF SaveLast, SaveLastWith, MemoryInv, TypeOK, FilesInv
  <2>2. R1[Outcome(weights)] \in Nat /\ R1[Outcome(best.weights)] \in Nat
    BY <2>1, OutcomeType, DevType DEF Checkpoint
  <2>3. /\ last'.best >= dev[1] /\ last'.best >= R1[Outcome(weights)]
        /\ last'.best \in Int
    BY <1>12, <2>1, <2>2 DEF SaveLast, SaveLastWith, Larger
  <2>4. dev[1] >= R1[Outcome(best.weights)]
    BY <1>0, <1>12 DEF SaveLast, SaveLastWith
  <2>5. last'.best >= R1[Outcome(best.weights)]
    BY <2>1, <2>2, <2>3, <2>4
  <2>6. QED
    BY <1>12, <2>3, <2>4, <2>5 DEF SaveLast, SaveLastWith
<1>13. CASE NewBest
  <2>1. /\ weights \in Seq(Models) /\ Len(weights) >= 1
        /\ last # NoFile /\ dev \in Int \X Int
        /\ best # NoFile /\ best \in Checkpoint /\ Len(best.weights) >= 1
    BY <1>0, <1>13 DEF NewBest, MemoryInv, TypeOK, FilesInv
  <2>2. /\ R1[Outcome(weights)] \in Nat /\ R1[Outcome(best.weights)] \in Nat
        /\ Dev(Outcome(weights))[1] = R1[Outcome(weights)]
    BY <2>1, OutcomeType, DevType DEF Checkpoint
  <2>3. R1[Outcome(weights)] >= dev[1]
    BY <1>13, <2>1, <2>2 DEF NewBest, Improves, Better
  <2>4. dev[1] >= R1[Outcome(best.weights)]
    BY <1>0, <1>13 DEF NewBest
  <2>5. dev'[1] >= R1[Outcome(best.weights)] /\ dev' = Dev(Outcome(weights))
    BY <1>13, <2>1, <2>2, <2>3, <2>4 DEF NewBest
  <2>6. QED
    BY <1>0, <1>13, <2>1, <2>5 DEF NewBest
<1>14. CASE KeepBest
  BY <1>0, <1>14 DEF KeepBest
<1>15. CASE SaveBest
  <2>1. /\ weights \in Seq(Models) /\ Len(weights) >= 1
        /\ last # NoFile /\ last.best \in Int
        /\ dev = Dev(Outcome(weights))
    BY <1>0, <1>15 DEF SaveBest, MemoryInv, TypeOK, FilesInv, Checkpoint
  <2>2. Outcome(best'.weights) = Outcome(weights)
    BY <1>15 DEF SaveBest
  <2>3. dev[1] = R1[Outcome(weights)] /\ R1[Outcome(weights)] \in Nat
    BY <2>1, OutcomeType, DevType
  <2>4. last.best >= R1[Outcome(weights)]
    BY <1>0, <1>15, <2>1 DEF SaveBest
  <2>5. QED
    BY <1>0, <1>15, <2>1, <2>2, <2>3, <2>4 DEF SaveBest
<1>16. CASE SaveMetrics
  BY <1>0, <1>16 DEF SaveMetrics
<1>17. CASE WriteSelection
  BY <1>0, <1>17 DEF WriteSelection
<1>18. CASE WriteSummary
  BY <1>0, <1>18 DEF WriteSummary
<1>19. CASE Verify
  BY <1>0, <1>19 DEF Verify, EmptyMemory
<1>20. CASE Crash
  BY <1>0, <1>20 DEF Crash, EmptyMemory
<1>21. CASE UNCHANGED vars
  BY <1>0, <1>21 DEF vars
<1>22. QED
  BY <1>1, <1>2, <1>3, <1>4, <1>5, <1>6, <1>7, <1>8, <1>9, <1>10, <1>11,
     <1>12, <1>13, <1>14, <1>15, <1>16, <1>17, <1>18, <1>19, <1>20, <1>21
  DEF Next, Step


(***************************************************************************)
(* Optimizer steps                                                         *)
(***************************************************************************)

\* The next micro-batch opens a window, or goes into the same one.
LEMMA NextWindow ==
  ASSUME NEW b \in Nat, NEW a \in Nat \ {0}
  PROVE  /\ (b + 1) % a = 0 => (b + 1) \div a = b \div a + 1
         /\ (b + 1) % a # 0 => /\ (b + 1) \div a = b \div a
                              /\ (b + 1) % a = (b % a) + 1
  OBVIOUS

\* The last window is short or full, and is counted once.
LEMMA LastWindow ==
  ASSUME NEW n \in Nat \ {0}, NEW a \in Nat \ {0}
  PROVE  Ceil(n, a) = (n - 1) \div a + 1
  BY DEF Ceil

LEMMA Remainder ==
  ASSUME NEW b \in Nat, NEW a \in Nat \ {0}, NEW q \in Nat, q = b \div a
  PROVE  b - q * a = b % a
  BY SMTT(30)

LEMMA Quotient ==
  ASSUME NEW b \in Nat, NEW a \in Nat \ {0}, NEW q \in Nat,
         NEW r \in 0..(a - 1), b = q * a + r
  PROVE  b \div a = q /\ b % a = r
  BY SMTT(30)

\* Dividing a batch number by the accumulation, with quotient and remainder
\* named.
LEMMA Division ==
  ASSUME NEW b \in Nat, NEW a \in Nat \ {0}
  PROVE  \E q \in Nat, r \in 0..(a - 1) :
            q = b \div a /\ r = b % a /\ b = q * a + r
<1>1. PICK q \in Nat, r \in 0..(a - 1) : q = b \div a /\ r = b % a
  <2>1. b % a \in 0..(a - 1) /\ b \div a \in Nat
    OBVIOUS
  <2>2. QED
    BY <2>1
<1>2. b - q * a = r
  BY <1>1, Remainder
<1>3. b = q * a + r
  <2>1. q * a \in Nat
    OBVIOUS
  <2>2. QED
    BY <1>2, <2>1
<1>4. QED
  BY <1>1, <1>3

LEMMA NextModulus ==
  ASSUME NEW b \in Nat, NEW a \in Nat \ {0}, NEW r \in 0..(a - 1),
         r = b % a, (b + 1) % a = 0
  PROVE  r + 1 = a
<1>1. PICK q \in Nat, t \in 0..(a - 1) :
         q = b \div a /\ t = b % a /\ b = q * a + t
  BY Division
<1>2. PICK n \in Nat, m \in Nat : n = b + 1 /\ m = q + 1
  BY <1>1
<1>3. n \div a = m /\ n % a = 0
  BY <1>1, <1>2, NextWindow
<1>4. n - m * a = 0
  BY <1>2, <1>3, Remainder, Zenon
<1>5. PICK s \in Nat : s = q * a
  BY <1>1
<1>6. m * a = s + a
  BY <1>1, <1>2, <1>5
<1>7. b + 1 = s + a /\ b = s + t /\ t = r
  BY <1>1, <1>2, <1>4, <1>5, <1>6
<1>8. QED
  BY <1>1, <1>7

\* An update closes a window of the size its losses were divided by.
LEMMA WindowClosed ==
  ASSUME NEW b \in Nat, b < Batches, UpdateStep(b)
  PROVE  (b % Accum) + 1 = WindowSize(b)
<1>1. Batches \in Nat /\ Accum \in Nat \ {0}
  BY BoundsAssumption
<1>2. PICK q \in Nat, r \in 0..(Accum - 1) :
         q = b \div Accum /\ r = b % Accum /\ b = q * Accum + r
  BY <1>1, Division
<1>3. b + 1 = Batches \/ r + 1 = Accum
  BY <1>1, <1>2, NextModulus DEF UpdateStep
<1>4. PICK s \in Nat : s = q * Accum
  BY <1>1
<1>5. b = s + r
  BY <1>2, <1>4
<1>6. WindowStart(b) = s
  BY <1>2, <1>4, Zenon DEF WindowStart
<1>7. WindowSize(b) = IF Accum < Batches - s THEN Accum ELSE Batches - s
  BY ONLY <1>6 DEF WindowSize
<1>8. WindowSize(b) = r + 1
  BY <1>1, <1>3, <1>5, <1>7
<1>9. QED
  BY <1>2, <1>8, Zenon

LEMMA UpdatesType == UpdatesPerEpoch \in Nat
  BY BoundsAssumption DEF UpdatesPerEpoch, Ceil

LEMMA StepInvNext == RunInv /\ [Next]_vars => StepInv'
<1> SUFFICES ASSUME RunInv, [Next]_vars PROVE StepInv'
  OBVIOUS
<1> USE ModelsAssumption, BoundsAssumption, FilesAssumption
<1>0. TypeOK /\ FilesInv /\ MemoryInv /\ StepInv
  BY DEF RunInv
<1> USE DEF StepInv, Setup, Initial, InEpoch, Comparing, Finishing, mem, files
<1>1. CASE ResourcesShort
  BY <1>0, <1>1 DEF ResourcesShort
<1>2. ASSUME NEW c \in Configs, Launch(c) PROVE StepInv'
  <2>1. CASE SkipCompleted(c)
    BY <1>0, <2>1 DEF SkipCompleted
  <2>2. CASE RefuseOverwrite(c)
    BY <1>0, <2>2 DEF RefuseOverwrite
  <2>3. CASE StartFresh(c)
    BY <1>0, <2>3, UpdatesType DEF StartFresh
  <2>4. CASE StartResume(c)
    BY <1>0, <2>4 DEF StartResume, Resume
  <2>5. CASE ResumeMismatch(c)
    BY <1>0, <2>5 DEF ResumeMismatch
  <2>6. QED
    BY <1>2, <2>1, <2>2, <2>3, <2>4, <2>5 DEF Launch
<1>3. CASE OpenResolved
  BY <1>0, <1>3 DEF OpenResolved
<1>4. CASE CloseResolved
  BY <1>0, <1>4 DEF CloseResolved
<1>5. CASE EvaluateInit
  BY <1>0, <1>5 DEF EvaluateInit
<1>6. CASE SaveInit
  BY <1>0, <1>6 DEF SaveInit
<1>7. CASE SaveInitMetrics
  BY <1>0, <1>7 DEF SaveInitMetrics
<1>8. CASE StartEpoch
  <2>1. 0 \div Accum = 0 /\ 0 % Accum = 0
    BY BoundsAssumption
  <2>2. epoch * UpdatesPerEpoch + 0 \div Accum = epoch * UpdatesPerEpoch
    BY <1>0, <2>1, UpdatesType DEF TypeOK
  <2>3. QED
    BY <1>0, <1>8, <2>1, <2>2 DEF StartEpoch
<1>9. CASE EndTraining
  BY <1>0, <1>9 DEF EndTraining, LeaveLoop, MemoryInv, TypeOK
<1>10. CASE TrainBatch
  <2>0. /\ pc = "batch" /\ batch \in Nat /\ step \in Nat /\ epoch \in Nat
        /\ pending = batch % Accum /\ batch < Batches /\ batch' = batch + 1
        /\ step = epoch * UpdatesPerEpoch + batch \div Accum
    BY <1>0, <1>10 DEF TrainBatch, TypeOK
  <2>1. epoch * UpdatesPerEpoch \in Nat
        /\ (epoch + 1) * UpdatesPerEpoch
              = epoch * UpdatesPerEpoch + UpdatesPerEpoch
    BY <2>0, UpdatesType
  <2>2. CASE batch + 1 = Batches
    <3>1. UpdatesPerEpoch = batch \div Accum + 1
      BY <2>0, <2>2, LastWindow DEF UpdatesPerEpoch
    <3>2. step' = step + 1 /\ pc' = "eval"
      BY <1>10, <2>2 DEF TrainBatch, UpdateStep
    <3>3. step' = (epoch + 1) * UpdatesPerEpoch
      BY <2>0, <2>1, <3>1, <3>2
    <3>4. QED
      BY <1>0, <1>10, <3>2, <3>3 DEF TrainBatch
  <2>3. CASE batch + 1 # Batches /\ (batch + 1) % Accum = 0
    <3>1. /\ step' = step + 1 /\ pending' = 0 /\ pc' = "batch"
      BY <1>10, <2>3 DEF TrainBatch, UpdateStep
    <3>2. batch' \div Accum = batch \div Accum + 1 /\ batch' % Accum = 0
      BY <2>0, <2>3, NextWindow
    <3>3. step' = epoch * UpdatesPerEpoch + batch' \div Accum
      BY <2>0, <2>1, <3>1, <3>2
    <3>4. batch' < Batches
      BY <2>0, <2>3
    <3>5. QED
      BY <1>0, <1>10, <3>1, <3>2, <3>3, <3>4 DEF TrainBatch
  <2>4. CASE batch + 1 # Batches /\ (batch + 1) % Accum # 0
    <3>1. /\ step' = step /\ pending' = pending + 1 /\ pc' = "batch"
      BY <1>10, <2>4 DEF TrainBatch, UpdateStep
    <3>2. /\ batch' \div Accum = batch \div Accum
          /\ batch' % Accum = (batch % Accum) + 1
      BY <2>0, <2>4, NextWindow
    <3>3. batch' < Batches
      BY <2>0, <2>4
    <3>4. QED
      BY <1>0, <1>10, <2>0, <3>1, <3>2, <3>3 DEF TrainBatch
  <2>5. QED
    BY <2>2, <2>3, <2>4
<1>11. CASE EvaluateEpoch
  BY <1>0, <1>11 DEF EvaluateEpoch
<1>12. CASE SaveLast
  BY <1>0, <1>12 DEF SaveLast, SaveLastWith
<1>13. CASE NewBest
  BY <1>0, <1>13 DEF NewBest
<1>14. CASE KeepBest
  BY <1>0, <1>14 DEF KeepBest
<1>15. CASE SaveBest
  BY <1>0, <1>15 DEF SaveBest
<1>16. CASE SaveMetrics
  BY <1>0, <1>16 DEF SaveMetrics
<1>17. CASE WriteSelection
  BY <1>0, <1>17 DEF WriteSelection
<1>18. CASE WriteSummary
  BY <1>0, <1>18 DEF WriteSummary
<1>19. CASE Verify
  BY <1>0, <1>19 DEF Verify, EmptyMemory
<1>20. CASE Crash
  BY <1>0, <1>20 DEF Crash, EmptyMemory
<1>21. CASE UNCHANGED vars
  BY <1>0, <1>21 DEF vars
<1>22. QED
  BY <1>1, <1>2, <1>3, <1>4, <1>5, <1>6, <1>7, <1>8, <1>9, <1>10, <1>11,
     <1>12, <1>13, <1>14, <1>15, <1>16, <1>17, <1>18, <1>19, <1>20, <1>21
  DEF Next, Step


(***************************************************************************)
(* The registered choice                                                   *)
(***************************************************************************)

LEMMA OneCandidate ==
  ASSUME NEW m \in Models
  PROVE  FirstBest(<<m>>, 1, 1)
  BY DevType DEF FirstBest, Better

\* A further candidate that does not beat the choice leaves it.
LEMMA ChoiceKept ==
  ASSUME NEW w \in Seq(Models), NEW n \in Nat, n + 1 <= Len(w),
         NEW k \in Nat, FirstBest(w, n, k),
         ~Better(Dev(w[n + 1]), Dev(w[k]))
  PROVE  FirstBest(w, n + 1, k)
<1>1. k \in 1..n /\ k \in 1..(n + 1)
  BY DEF FirstBest
<1>2. ASSUME NEW j \in 1..(n + 1)
      PROVE  /\ ~Better(Dev(w[j]), Dev(w[k]))
             /\ j < k => Better(Dev(w[k]), Dev(w[j]))
  <2>1. CASE j = n + 1
    BY <1>1, <2>1
  <2>2. CASE j # n + 1
    <3>1. j \in 1..n
      BY <2>2
    <3>2. QED
      BY <3>1 DEF FirstBest
  <2>3. QED
    BY <2>1, <2>2
<1>3. QED
  BY <1>1, <1>2 DEF FirstBest

\* Python's comparison of pairs is a strict total order.
LEMMA BetterTransitive ==
  ASSUME NEW a \in Int \X Int, NEW b \in Int \X Int, NEW c \in Int \X Int,
         ~Better(b, a), Better(c, a)
  PROVE  ~Better(b, c) /\ Better(c, b)
  BY DEF Better

\* One that beats it beats all the earlier ones, and becomes the choice.
LEMMA ChoiceReplaced ==
  ASSUME NEW w \in Seq(Models), NEW n \in Nat, n + 1 <= Len(w),
         NEW k \in Nat, FirstBest(w, n, k),
         Better(Dev(w[n + 1]), Dev(w[k]))
  PROVE  FirstBest(w, n + 1, n + 1)
<1>1. k \in 1..n
  BY DEF FirstBest
<1>2. /\ w[n + 1] \in Models /\ w[k] \in Models
      /\ \A j \in 1..n : w[j] \in Models
  BY <1>1
<1>3. ASSUME NEW j \in 1..n
      PROVE  /\ ~Better(Dev(w[j]), Dev(w[n + 1]))
             /\ Better(Dev(w[n + 1]), Dev(w[j]))
  <2>1. ~Better(Dev(w[j]), Dev(w[k]))
    BY DEF FirstBest
  <2>2. /\ Dev(w[j]) \in Int \X Int
        /\ Dev(w[k]) \in Int \X Int
        /\ Dev(w[n + 1]) \in Int \X Int
    BY <1>2, DevType
  <2>3. QED
    BY <2>1, <2>2, BetterTransitive
<1>4. ~Better(Dev(w[n + 1]), Dev(w[n + 1]))
  BY <1>2, DevType DEF Better
<1>5. ASSUME NEW j \in 1..(n + 1)
      PROVE  /\ ~Better(Dev(w[j]), Dev(w[n + 1]))
             /\ j < n + 1 => Better(Dev(w[n + 1]), Dev(w[j]))
  <2>1. CASE j = n + 1
    BY <1>4, <2>1
  <2>2. CASE j # n + 1
    <3>1. j \in 1..n
      BY <2>2
    <3>2. QED
      BY <1>3, <3>1
  <2>3. QED
    BY <2>1, <2>2
<1>6. QED
  BY <1>5 DEF FirstBest

\* The choice among the first candidates does not see the later ones.
LEMMA ChoiceAppend ==
  ASSUME NEW w \in Seq(Models), NEW m \in Models, NEW n \in Nat, n <= Len(w),
         NEW k \in Nat, FirstBest(w, n, k)
  PROVE  FirstBest(Append(w, m), n, k) /\ Append(w, m)[k] = w[k]
<1>1. \A i \in 1..Len(w) : Append(w, m)[i] = w[i]
  OBVIOUS
<1>2. k \in 1..n
  BY DEF FirstBest
<1>3. \A j \in 1..n : Append(w, m)[j] = w[j]
  BY <1>1
<1>4. QED
  BY <1>2, <1>3 DEF FirstBest

\* Nothing forgets that a candidate may be lost.
LEMMA TornStays == [Next]_vars /\ ~torn' => ~torn
  BY DEF Next, vars, ResourcesShort, Launch, SkipCompleted, RefuseOverwrite,
         StartFresh, StartResume, Resume, ResumeMismatch, Step, OpenResolved,
         CloseResolved, EvaluateInit, SaveInit, SaveInitMetrics, StartEpoch,
         EndTraining, LeaveLoop, TrainBatch, EvaluateEpoch, SaveLast,
         SaveLastWith, NewBest, KeepBest, SaveBest, SaveMetrics,
         WriteSelection, WriteSummary, Verify, Crash

\* Where an epoch has not improved, the files record the choice already.
LEMMA KeptChoice ==
  ASSUME RunInv, ~torn, pc = "compare", ~Improves
  PROVE  /\ Records(weights, epoch + 2)
         /\ last.best = R1[metrics.outcome]
         /\ dev = Dev(metrics.outcome)
         /\ last # NoFile /\ last.weights = weights
         /\ Len(weights) = epoch + 2 /\ epoch \in Nat
         /\ selection = NoFile
<1>0. TypeOK /\ FilesInv /\ MemoryInv /\ ChoiceInv
  BY DEF RunInv
<1>1. /\ weights \in Seq(Models) /\ epoch \in Nat
      /\ last # NoFile /\ last.weights = weights /\ last.epoch = epoch
      /\ best # NoFile /\ metrics # NoFile
      /\ best \in Checkpoint /\ selection = NoFile /\ metrics \in Metrics
      /\ Records(weights, epoch + 1) /\ dev = Dev(metrics.outcome)
      /\ last.best = Larger(dev[1], R1[Outcome(weights)])
  BY <1>0 DEF MemoryInv, TypeOK, FilesInv, ChoiceInv, Comparing
<1>2. Len(weights) = epoch + 2
  BY <1>0, <1>1 DEF FilesInv
<1>3. Outcome(weights) = weights[epoch + 2] /\ Outcome(weights) \in Models
  BY <1>1, <1>2 DEF Outcome
<1>4. Len(best.weights) \in Nat /\ dev = Dev(weights[Len(best.weights)])
  BY <1>1 DEF Checkpoint, Records
<1>5. FirstBest(weights, epoch + 2, Len(best.weights))
  <2>1. ~Better(Dev(weights[(epoch + 1) + 1]), Dev(weights[Len(best.weights)]))
    BY <1>1, <1>3, <1>4 DEF Improves
  <2>2. FirstBest(weights, (epoch + 1) + 1, Len(best.weights))
    BY <1>1, <1>2, <1>4, <2>1, ChoiceKept DEF Records
  <2>3. QED
    BY <1>1, <2>2
<1>6. Records(weights, epoch + 2)
  BY <1>1, <1>5 DEF Records
<1>7. last.best = R1[metrics.outcome]
  <2>1. metrics.outcome \in Models
    BY <1>1 DEF Metrics
  <2>2. /\ dev \in Int \X Int /\ dev[1] = R1[metrics.outcome]
        /\ R1[Outcome(weights)] \in Nat
        /\ Dev(Outcome(weights))[1] = R1[Outcome(weights)]
    BY <1>1, <1>3, <2>1, DevType
  <2>3. ~(R1[Outcome(weights)] > dev[1])
    BY <2>2 DEF Improves, Better
  <2>4. QED
    BY <1>1, <2>2, <2>3 DEF Larger
<1>8. QED
  BY <1>1, <1>2, <1>6, <1>7

LEMMA ChoiceInvNext == RunInv /\ [Next]_vars /\ ~torn' => ChoiceInv'
<1> SUFFICES ASSUME RunInv, [Next]_vars, ~torn' PROVE ChoiceInv'
  OBVIOUS
<1> USE ModelsAssumption, BoundsAssumption, FilesAssumption
<1>0. /\ RunInv /\ TypeOK /\ FilesInv /\ MemoryInv /\ BestCovered /\ ChoiceInv
      /\ ~torn
  BY TornStays DEF RunInv
<1> USE DEF ChoiceInv, Records, Setup, Initial, InEpoch, Comparing, Finishing, mem, files
<1>1. CASE ResourcesShort
  BY <1>0, <1>1 DEF ResourcesShort
<1>2. ASSUME NEW c \in Configs, Launch(c) PROVE ChoiceInv'
  <2>1. CASE SkipCompleted(c)
    BY <1>0, <2>1 DEF SkipCompleted
  <2>2. CASE RefuseOverwrite(c)
    BY <1>0, <2>2 DEF RefuseOverwrite
  <2>3. CASE StartFresh(c)
    BY <1>0, <2>3 DEF StartFresh
  <2>4. CASE StartResume(c)
    BY <1>0, <2>4 DEF StartResume, Resume
  <2>5. CASE ResumeMismatch(c)
    BY <1>0, <2>5 DEF ResumeMismatch
  <2>6. QED
    BY <1>2, <2>1, <2>2, <2>3, <2>4, <2>5 DEF Launch
<1>3. CASE OpenResolved
  BY <1>0, <1>3 DEF OpenResolved
<1>4. CASE CloseResolved
  <2>1. CASE ~resumed
    BY <1>0, <1>4, <2>1 DEF CloseResolved, MemoryInv
  <2>2. CASE resumed
    <3>1. /\ pc \in Setup /\ last # NoFile /\ weights = last.weights
          /\ epoch = last.epoch + 1 /\ selection = NoFile
          /\ dev = <<last.best, R5[metrics.outcome]>>
      BY <1>0, <1>4, <2>2 DEF CloseResolved, MemoryInv
    <3>2. Len(last.weights) = epoch + 1 /\ metrics \in Metrics
      BY <1>0, <3>1 DEF FilesInv, TypeOK
    <3>3. /\ Records(weights, epoch + 1)
          /\ last.best = R1[metrics.outcome]
      BY <1>0, <3>1, <3>2
    <3>4. dev = Dev(metrics.outcome)
      BY <3>1, <3>3 DEF Dev
    <3>5. QED
      BY <1>0, <1>4, <2>2, <3>1, <3>3, <3>4 DEF CloseResolved
  <2>3. QED
    BY <1>0, <2>1, <2>2 DEF TypeOK
<1>5. CASE EvaluateInit
  <2>1. /\ InitModel[cfg] \in Models /\ weights = <<InitModel[cfg]>>
        /\ last = NoFile /\ selection = NoFile
    BY <1>0, <1>5 DEF EvaluateInit, MemoryInv, TypeOK
  <2>2. dev' = Dev(InitModel[cfg])
    BY <1>5, <2>1, SingletonPath DEF EvaluateInit
  <2>3. QED
    BY <1>5, <2>1, <2>2 DEF EvaluateInit
<1>6. CASE SaveInit
  BY <1>0, <1>6 DEF SaveInit, MemoryInv
<1>7. CASE SaveInitMetrics
  <2>1. /\ InitModel[cfg] \in Models /\ weights = <<InitModel[cfg]>>
        /\ epoch = 0 /\ last = NoFile /\ selection = NoFile
        /\ best.weights = weights /\ best.epoch = -1
        /\ dev = Dev(InitModel[cfg])
    BY <1>0, <1>7 DEF SaveInitMetrics, MemoryInv, TypeOK
  <2>2. /\ Len(best.weights) = 1 /\ weights[1] = InitModel[cfg]
        /\ Outcome(weights) = InitModel[cfg]
        /\ FirstBest(weights, 1, 1)
    BY <2>1, SingletonPath, OneCandidate
  <2>3. metrics' = [epoch |-> -1, outcome |-> InitModel[cfg]]
    BY <1>7, <2>2 DEF SaveInitMetrics
  <2>4. Records(weights, epoch + 1)'
    BY <1>7, <2>1, <2>2, <2>3 DEF SaveInitMetrics
  <2>5. dev' = Dev(metrics'.outcome)
    BY <1>7, <2>1, <2>3 DEF SaveInitMetrics
  <2>6. QED
    BY <1>7, <2>1, <2>4, <2>5 DEF SaveInitMetrics
<1>8. CASE StartEpoch
  BY <1>0, <1>8 DEF StartEpoch
<1>9. CASE EndTraining
  BY <1>0, <1>9 DEF EndTraining, LeaveLoop
<1>10. CASE TrainBatch
  BY <1>0, <1>10 DEF TrainBatch
<1>11. CASE EvaluateEpoch
  <2>1. PICK m \in Models : weights' = Append(weights, m)
    BY <1>11 DEF EvaluateEpoch
  <2>2. /\ weights \in Seq(Models) /\ epoch \in Nat
        /\ Len(weights) = epoch + 1 /\ Records(weights, epoch + 1)
        /\ best \in Checkpoint /\ selection = NoFile
    BY <1>0, <1>11 DEF EvaluateEpoch, MemoryInv, TypeOK
  <2>3. Len(best.weights) \in Nat
    BY <2>2 DEF Checkpoint
  <2>4. FirstBest(weights, epoch + 1, Len(best.weights))
    BY <2>2
  <2>5. epoch + 1 \in Nat /\ epoch + 1 <= Len(weights)
    BY <2>2
  <2>6. /\ FirstBest(Append(weights, m), epoch + 1, Len(best.weights))
        /\ Append(weights, m)[Len(best.weights)] = weights[Len(best.weights)]
    BY ONLY <2>2, <2>3, <2>4, <2>5, ChoiceAppend, m \in Models
  <2>7. Records(weights', epoch + 1)
    BY <2>1, <2>2, <2>6
  <2>8. QED
    BY <1>0, <1>11, <2>2, <2>7 DEF EvaluateEpoch
<1>12. CASE SaveLast
  BY <1>0, <1>12 DEF SaveLast, SaveLastWith
<1>13. CASE NewBest
  <2>1. /\ weights \in Seq(Models) /\ epoch \in Nat
        /\ last # NoFile /\ best \in Checkpoint /\ selection = NoFile
        /\ Records(weights, epoch + 1) /\ dev = Dev(metrics.outcome)
        /\ last.best = Larger(dev[1], R1[Outcome(weights)])
    BY <1>0, <1>13 DEF NewBest, MemoryInv, TypeOK, FilesInv
  <2>2. Len(weights) = epoch + 2
    BY <1>0, <1>13 DEF NewBest, MemoryInv, FilesInv
  <2>3. Outcome(weights) = weights[epoch + 2] /\ Outcome(weights) \in Models
    BY <2>1, <2>2 DEF Outcome
  <2>4. Len(best.weights) \in Nat
    BY <2>1 DEF Checkpoint
  <2>5. dev = Dev(weights[Len(best.weights)])
    BY <2>1
  <2>6. FirstBest(weights, epoch + 2, epoch + 2)
    <3>1. Better(Dev(weights[(epoch + 1) + 1]), Dev(weights[Len(best.weights)]))
      BY <1>13, <2>1, <2>3, <2>5 DEF NewBest, Improves
    <3>2. FirstBest(weights, epoch + 1, Len(best.weights))
      BY <2>1
    <3>3. epoch + 1 \in Nat /\ (epoch + 1) + 1 <= Len(weights)
      BY <2>1, <2>2
    <3>4. FirstBest(weights, (epoch + 1) + 1, (epoch + 1) + 1)
      BY ONLY <2>1, <2>4, <3>1, <3>2, <3>3, ChoiceReplaced
    <3>5. (epoch + 1) + 1 = epoch + 2
      BY <2>1
    <3>6. QED
      BY <3>4, <3>5
  <2>7. last.best = R1[Outcome(weights)] /\ dev' = Dev(Outcome(weights))
    <3>1. dev \in Int \X Int
      BY <1>0 DEF TypeOK
    <3>2. R1[Outcome(weights)] >= dev[1]
      BY <1>13, <2>3, <3>1, DevType DEF NewBest, Improves, Better
    <3>3. QED
      BY <1>13, <2>1, <2>3, <3>1, <3>2, DevType DEF NewBest, Larger
  <2>8. last.best = dev'[1]
    BY <2>3, <2>7, DevType
  <2>9. QED
    BY <1>13, <2>1, <2>6, <2>8 DEF NewBest
<1>14. CASE KeepBest
  <2>1. pc = "compare" /\ ~Improves
    BY <1>14 DEF KeepBest
  <2>2. /\ Records(weights, epoch + 2)
        /\ last.best = R1[metrics.outcome]
        /\ dev = Dev(metrics.outcome)
        /\ last.weights = weights
        /\ Len(weights) = epoch + 2 /\ epoch \in Nat
        /\ selection = NoFile
    BY <1>0, <2>1, KeptChoice
  <2>3. epoch' + 1 = epoch + 2
    BY <1>14, <2>2 DEF KeepBest
  <2>4. QED
    BY <1>14, <2>2, <2>3 DEF KeepBest
<1>15. CASE SaveBest
  BY <1>0, <1>15 DEF SaveBest
<1>16. CASE SaveMetrics
  <2>1. /\ last # NoFile /\ last.weights = weights /\ last.epoch = epoch
        /\ epoch \in Nat /\ weights \in Seq(Models) /\ selection = NoFile
        /\ FirstBest(weights, epoch + 2, epoch + 2) /\ last.best = dev[1]
        /\ best.weights = weights /\ best.epoch = epoch
    BY <1>0, <1>16 DEF SaveMetrics, MemoryInv, TypeOK
  <2>2. Len(weights) = epoch + 2
    BY <1>0, <2>1 DEF FilesInv
  <2>3. /\ Outcome(weights) = weights[epoch + 2]
        /\ Outcome(weights) \in Models
    BY <2>1, <2>2 DEF Outcome
  <2>4. dev = Dev(Outcome(weights))
    BY <1>0, <1>16 DEF SaveMetrics, BestCovered
  <2>5. metrics' = [epoch |-> epoch, outcome |-> weights[epoch + 2]]
    BY <1>16, <2>3 DEF SaveMetrics
  <2>6. epoch' + 1 = epoch + 2
    BY <1>16, <2>1 DEF SaveMetrics
  <2>7. Records(weights, epoch + 1)'
    BY <1>16, <2>1, <2>2, <2>5, <2>6 DEF SaveMetrics
  <2>8. last.best = R1[metrics'.outcome] /\ dev = Dev(metrics'.outcome)
    BY <2>1, <2>3, <2>4, <2>5, DevType
  <2>9. QED
    BY <1>16, <2>1, <2>2, <2>6, <2>7, <2>8 DEF SaveMetrics
<1>17. CASE WriteSelection
  <2>1. last # NoFile /\ metrics \in Metrics
    BY <1>0, <1>17 DEF WriteSelection, MemoryInv, FilesInv, TypeOK
  <2>2. metrics.outcome \in Models /\ dev = Dev(metrics.outcome)
    BY <1>0, <1>17, <2>1 DEF WriteSelection, Metrics
  <2>3. dev[1] = R1[metrics.outcome] /\ dev[2] = R5[metrics.outcome]
    BY <2>2, DevType
  <2>4. QED
    BY <1>0, <1>17, <2>1, <2>3 DEF WriteSelection
<1>18. CASE WriteSummary
  BY <1>0, <1>18 DEF WriteSummary
<1>19. CASE Verify
  BY <1>0, <1>19 DEF Verify, EmptyMemory
<1>20. CASE Crash
  <2>1. pc \notin Comparing \/ (pc = "compare" /\ ~Improves)
    BY <1>20 DEF Crash
  <2>2. CASE pc \notin Comparing
    BY <1>0, <1>20, <2>2 DEF Crash
  <2>3. CASE pc = "compare" /\ ~Improves
    <3>1. /\ Records(weights, epoch + 2) /\ last.weights = weights
          /\ Len(weights) = epoch + 2 /\ last.best = R1[metrics.outcome]
          /\ selection = NoFile
      BY <1>0, <2>3, KeptChoice
    <3>2. QED
      BY <1>20, <3>1 DEF Crash
  <2>4. QED
    BY <2>1, <2>2, <2>3
<1>21. CASE UNCHANGED vars
  BY <1>0, <1>21 DEF vars
<1>22. QED
  BY <1>1, <1>2, <1>3, <1>4, <1>5, <1>6, <1>7, <1>8, <1>9, <1>10, <1>11,
     <1>12, <1>13, <1>14, <1>15, <1>16, <1>17, <1>18, <1>19, <1>20, <1>21
  DEF Next, Step

(***************************************************************************)
(* The inductive invariant                                                 *)
(***************************************************************************)

LEMMA RunInvInit == Init => RunInv
<1> SUFFICES ASSUME Init PROVE RunInv
  OBVIOUS
<1>1. TypeOK
  BY TypeOKInit
<1>2. FilesInv /\ MemoryInv /\ BestCovered /\ ChoiceInv
  BY DEF Init, FilesInv, MemoryInv, BestCovered, ChoiceInv, Setup, Initial,
         InEpoch, Comparing, Finishing
<1>3. StepInv
  BY DEF Init, StepInv, Setup, Initial, InEpoch, Comparing, Finishing
<1>4. QED
  BY <1>1, <1>2, <1>3 DEF RunInv

LEMMA RunInvNext == RunInv /\ [Next]_vars => RunInv'
<1> SUFFICES ASSUME RunInv, [Next]_vars PROVE RunInv'
  OBVIOUS
<1>1. TypeOK' /\ FilesInv' /\ MemoryInv' /\ BestCovered' /\ StepInv'
  BY TypeOKNext, FilesInvNext, MemoryInvNext, BestCoveredNext, StepInvNext
<1>2. ~torn' => ChoiceInv'
  BY ChoiceInvNext
<1>3. QED
  BY <1>1, <1>2 DEF RunInv

\* The files, the memory of the process, the best value and the step counts
\* agree at every step, crash and launch of train.py, and up to the first
\* crash that loses a candidate so does the selection.
THEOREM RunInvariant == Spec => []RunInv
<1>1. Init => RunInv
  BY RunInvInit
<1>2. RunInv /\ [Next]_vars => RunInv'
  BY RunInvNext
<1>3. QED
  BY <1>1, <1>2, PTL DEF Spec

\* Every file of the run directory and every variable of train() keeps its
\* type, for every configuration, schedule and set of outcomes.
THEOREM TypeCorrect == Spec => []TypeOK
<1>1. RunInv => TypeOK
  BY DEF RunInv
<1>2. QED
  BY <1>1, RunInvariant, PTL

(***************************************************************************)
(* The safety properties                                                   *)
(***************************************************************************)

LEMMA RunInvSelects == RunInv => SelectionFaithful
<1> SUFFICES ASSUME RunInv, ~torn, selection # NoFile PROVE SelectsRegistered
  BY DEF SelectionFaithful, SelectsRegistered
<1> DEFINE k == Len(best.weights)
<1>1. /\ TypeOK /\ FilesInv /\ MemoryInv /\ ChoiceInv
  BY DEF RunInv
<1>2. pc \in {"idle", "summarise", "verify"}
  BY <1>1 DEF MemoryInv
<1>3. last # NoFile /\ selection.checkpoint = best
  BY <1>1 DEF FilesInv
<1>4. Records(last.weights, Len(last.weights))
  BY <1>1, <1>2, <1>3 DEF ChoiceInv, Comparing
<1>5. /\ RegisteredChoice(last.weights, k)
      /\ best.epoch = k - 2
      /\ metrics.epoch = k - 2
      /\ metrics.outcome = last.weights[k]
  BY <1>4 DEF Records, RegisteredChoice
<1>6. /\ selection.best = R1[metrics.outcome]
      /\ selection.r5 = R5[metrics.outcome]
      /\ selection.epoch = metrics.epoch
  BY <1>1 DEF ChoiceInv
<1>7. QED
  BY <1>3, <1>5, <1>6 DEF SelectsRegistered

\* Whatever the number of epochs, crashes and resumes, selection.json names
\* the candidate the registered rule picks among all of the run, provided no
\* crash fell between last.pt and best_dev_metrics.json of an epoch that
\* improved.
THEOREM SelectionCorrect == Spec => []SelectionFaithful
<1>1. QED
  BY RunInvSelects, RunInvariant, PTL

\* best_dev.pt always lies on the path of last.pt, under its configuration:
\* no resume mixes the checkpoints of two attempts.
THEOREM BestOnPathAlways == Spec => []BestOnPath
<1>1. RunInv => BestOnPath
  BY DEF RunInv, FilesInv, BestOnPath
<1>2. QED
  BY <1>1, RunInvariant, PTL

\* Resuming is exact in the optimizer schedule: last.pt and run_summary.json
\* count the updates of an uninterrupted run.
THEOREM StepsExactAlways == Spec => []StepsExact
<1>1. RunInv => StepsExact
  BY DEF RunInv, StepInv, StepsExact
<1>2. QED
  BY <1>1, RunInvariant, PTL

\* A frozen selection, the resolved configuration and both checkpoints carry
\* one configuration, whatever configurations the launches brought.
THEOREM OneConfigurationAlways == Spec => []OneConfiguration
<1>1. RunInv => OneConfiguration
  BY DEF RunInv, FilesInv, OneConfiguration
<1>2. QED
  BY <1>1, RunInvariant, PTL

(***************************************************************************)
(* The action properties                                                   *)
(***************************************************************************)

\* Only two actions write best_dev.pt.
LEMMA BestWriters ==
  [Next]_vars => SaveInit \/ SaveBest \/ best' = best
  BY DEF Next, vars, files, ResourcesShort, Launch, SkipCompleted,
         RefuseOverwrite, StartFresh, StartResume, Resume, ResumeMismatch,
         Step, OpenResolved, CloseResolved, EvaluateInit, SaveInitMetrics,
         StartEpoch, EndTraining, LeaveLoop, TrainBatch, EvaluateEpoch,
         SaveLast, SaveLastWith, NewBest, KeepBest, SaveMetrics,
         WriteSelection, WriteSummary, Verify, Crash

LEMMA BestStep ==
  ASSUME RunInv, [Next]_vars, best # NoFile, best'.cfg = best.cfg
  PROVE  R1[Outcome(best'.weights)] >= R1[Outcome(best.weights)]
<1> USE ModelsAssumption
<1>0. /\ TypeOK /\ FilesInv /\ MemoryInv /\ BestCovered
  BY DEF RunInv
<1>1. /\ best \in Checkpoint /\ Outcome(best.weights) \in Models
      /\ R1[Outcome(best.weights)] \in Nat
  <2>1. best \in Checkpoint
    BY <1>0 DEF TypeOK
  <2>2. best.weights \in Seq(Models) /\ Len(best.weights) >= 1
    BY <1>0, <2>1 DEF FilesInv, Checkpoint
  <2>3. Outcome(best.weights) \in Models
    BY <2>2, OutcomeType
  <2>4. QED
    BY <2>1, <2>3
<1>2. CASE best' = best
  BY <1>1, <1>2
<1>3. CASE SaveInit
  <2>1. last = NoFile /\ weights = <<InitModel[cfg]>>
    BY <1>0, <1>3 DEF SaveInit, MemoryInv, Initial
  <2>2. best.weights = <<InitModel[best.cfg]>>
    BY <1>0, <2>1 DEF FilesInv
  <2>3. best'.cfg = cfg /\ best'.weights = weights
    BY <1>3 DEF SaveInit
  <2>4. best'.weights = best.weights
    BY <2>1, <2>2, <2>3
  <2>5. QED
    BY <1>1, <2>4
<1>4. CASE SaveBest
  <2>1. /\ dev = Dev(Outcome(weights))
        /\ dev[1] >= R1[Outcome(best.weights)]
    BY <1>0, <1>4 DEF SaveBest, BestCovered, Comparing
  <2>2. best'.weights = weights
    BY <1>4 DEF SaveBest
  <2>3. dev[1] = R1[Outcome(weights)]
    BY <2>1 DEF Dev
  <2>4. QED
    BY <2>1, <2>2, <2>3
<1>5. QED
  BY <1>2, <1>3, <1>4, BestWriters

\* A checkpoint best_dev.pt once held is never replaced by one of lower dev R1
\* of the same configuration, whichever crashes fell in between.
THEOREM BestMonotone == Spec => BestNeverRegresses
<1>1. RunInv /\ [Next]_vars =>
        [(best # NoFile /\ best'.cfg = best.cfg)
            => R1[Outcome(best'.weights)] >= R1[Outcome(best.weights)]]_vars
  BY BestStep
<1>2. QED
  BY <1>1, RunInvariant, PTL DEF Spec, BestNeverRegresses

LEMMA WindowStep ==
  ASSUME RunInv, [Next]_vars, pc = "batch", step' > step
  PROVE  pending + 1 = WindowSize(batch)
<1> USE BoundsAssumption
<1>1. /\ batch \in Nat /\ pending \in Nat /\ step \in Nat
      /\ batch < Batches /\ pending = batch % Accum
  BY DEF RunInv, TypeOK, StepInv
<1>2. TrainBatch
  <2>1. ~(step' = step) /\ step' # 0
    BY <1>1
  <2>2. QED
    BY <2>1 DEF Next, vars, files, mem, ResourcesShort, Launch,
       SkipCompleted, RefuseOverwrite, StartFresh, StartResume, Resume,
       ResumeMismatch, Step, OpenResolved, CloseResolved, EvaluateInit,
       SaveInit, SaveInitMetrics, StartEpoch, EndTraining, LeaveLoop,
       EvaluateEpoch, SaveLast, SaveLastWith, NewBest, KeepBest, SaveBest,
       SaveMetrics, WriteSelection, WriteSummary, Verify, Crash, EmptyMemory
<1>3. UpdateStep(batch)
  BY <1>1, <1>2 DEF TrainBatch
<1>4. QED
  BY <1>1, <1>3, WindowClosed

\* Every optimizer update, the last one of an epoch included, closes a window
\* of as many micro-batches as their losses were divided by.
THEOREM WindowsAlwaysFilled == Spec => WindowsFilled
<1>1. RunInv /\ [Next]_vars =>
        [(pc = "batch" /\ step' > step)
            => pending + 1 = WindowSize(batch)]_vars
  BY WindowStep
<1>2. QED
  BY <1>1, RunInvariant, PTL DEF Spec, WindowsFilled

LEMMA FrozenStep ==
  ASSUME RunInv, [Next]_vars, selection # NoFile
  PROVE  UNCHANGED <<last, best, metrics, selection, resolved>>
<1>1. pc \in {"idle", "summarise", "verify"}
  BY DEF RunInv, MemoryInv
<1>2. HasResult
  BY DEF HasResult
<1>3. QED
  BY <1>1, <1>2 DEF Next, vars, files, mem, ResourcesShort, Launch,
     SkipCompleted, RefuseOverwrite, StartFresh, StartResume, Resume,
     ResumeMismatch, Step, OpenResolved, CloseResolved, EvaluateInit,
     SaveInit, SaveInitMetrics, StartEpoch, EndTraining, LeaveLoop, TrainBatch,
     EvaluateEpoch, SaveLast, SaveLastWith, NewBest, KeepBest, SaveBest,
     SaveMetrics, WriteSelection, WriteSummary, Verify, Crash, EmptyMemory

\* From selection.json on, no launch, step or crash changes the checkpoints it
\* locks, whatever configuration the launch brings.
THEOREM SelectionFrozen == Spec => SelectedRunFrozen
<1>1. RunInv /\ [Next]_vars =>
        [selection # NoFile
            => UNCHANGED <<last, best, metrics, selection, resolved>>]_vars
  BY FrozenStep
<1>2. QED
  BY <1>1, RunInvariant, PTL DEF Spec, SelectedRunFrozen
=============================================================================
