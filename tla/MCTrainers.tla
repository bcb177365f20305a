----------------------------- MODULE MCTrainers -----------------------------
(***************************************************************************)
(* The resumable trainers of dive, OCEM, PMGR, SSSC and sota_slret, one at *)
(* a time: the variables are those of the trainer that `which` names.      *)
(***************************************************************************)
EXTENDS Trainer

CONSTANTS SnapshotInterval, Batches, EveryEpochs, CheckpointEvery

ASSUME IntervalAssumption ==
    {SnapshotInterval, Batches, EveryEpochs, CheckpointEvery} \subseteq Nat \ {0}

VARIABLE which

vars == <<which, tvars>>

Baseline == INSTANCE DiveBaseline
Warmup   == INSTANCE DiveWarmup
Ocem     == INSTANCE OcemAdaptation
Pmgr     == INSTANCE PmgrTrainer
Sssc     == INSTANCE SsscTrainer
Sota     == INSTANCE SotaTrainer

\* None is not what a trainer writes.
ASSUME NoneAssumption ==
    /\ None \notin Nat \cup Version \cup {Sota!Torn}
    /\ None \notin Baseline!Checkpoints \cup Sota!Resumes \cup Pmgr!Positions
                     \cup Pmgr!Summaries \cup Sssc!Positions \cup Sssc!Checkpoints

Init ==
    \/ which = "baseline" /\ Baseline!Init
    \/ which = "warmup" /\ Warmup!Init
    \/ which = "ocem" /\ Ocem!Init
    \/ which = "pmgr" /\ Pmgr!Init
    \/ which = "sssc" /\ Sssc!Init
    \/ which = "sota" /\ Sota!Init

Work ==
    /\ UNCHANGED which
    /\ \/ which = "baseline" /\ Baseline!Work
       \/ which = "warmup" /\ Warmup!Work
       \/ which = "ocem" /\ Ocem!Work
       \/ which = "pmgr" /\ Pmgr!Work
       \/ which = "sssc" /\ Sssc!Work
       \/ which = "sota" /\ Sota!Work

Interruptions ==
    /\ UNCHANGED which
    /\ \/ which = "baseline" /\ Baseline!Kill
       \/ which = "warmup" /\ Warmup!Kill
       \/ which = "ocem" /\ (Ocem!Fail \/ Ocem!Kill)
       \/ which = "pmgr" /\ Pmgr!Kill
       \/ which = "sssc" /\ Sssc!Kill
       \/ which = "sota" /\ Sota!Kill

Selection ==
    /\ UNCHANGED which
    /\ which = "sssc"
    /\ Sssc!CreateLock \/ Sssc!ValidateLock \/ Sssc!Evaluate \/ Sssc!RecordObservation

Next == Work \/ Interruptions \/ Selection

\* The operator relaunches, and a process that runs takes its steps.
Spec == Init /\ [][Next]_vars /\ WF_vars(Work)

\* What the trainers have to say of their selection; PMGR and sota_slret do not
\* evaluate every epoch, OCEM ranks them by their order.
Planned ==
    CASE which = "pmgr" -> Pmgr!Candidates
      [] which = "sota" -> Sota!Candidates
      [] OTHER          -> 1..Epochs
Committed ==
    CASE which = "baseline" -> Baseline!Committed
      [] which = "warmup"   -> Warmup!Committed
      [] which = "ocem"     -> Ocem!Committed
      [] which = "pmgr"     -> Pmgr!Committed
      [] which = "sssc"     -> Sssc!Committed
      [] which = "sota"     -> Sota!Committed
Missed ==
    CASE which = "pmgr" -> Pmgr!Missed
      [] which = "sssc" -> Sssc!Missed
      [] OTHER          -> {}
Result ==
    CASE which = "baseline" -> Baseline!Result
      [] which = "warmup"   -> Warmup!Result
      [] which = "ocem"     -> Ocem!Result
      [] which = "pmgr"     -> Pmgr!Result
      [] which = "sssc"     -> Sssc!Result
      [] which = "sota"     -> Sota!Result

\* The score of a candidate counts once its epoch is committed: that of a lost
\* attempt does not.
Grades == IF which = "ocem" THEN [e \in 1..Epochs |-> e] ELSE score
Ranking == [e \in 1..Epochs |-> IF e \in Planned /\ e <= Committed THEN Grades[e] ELSE 0]

\* What a trainer publishes, however often it was killed and resumed and however an
\* epoch that is trained again scores, is the earliest of the best epochs, or the last
\* one where that is the rule; an epoch is left out only when it was cut at the
\* statements that Missed names.
Promise == INSTANCE EpochSelection WITH
    Scores <- Scores \cup 1..Epochs, planned <- Planned, score <- Ranking, done <- Committed, missed <- Missed, result <- Result
KeepsPromise == Promise!Spec

\* The files of a trainer agree with each other whenever a process may read them:
\* what a checkpoint names can be had, what is published is of one version.
Whole ==
    CASE which = "baseline" -> Baseline!Whole
      [] which = "warmup"   -> Warmup!Whole
      [] which = "ocem"     -> Ocem!Whole
      [] which = "pmgr"     -> Pmgr!Whole
      [] which = "sssc"     -> Sssc!Whole
      [] which = "sota"     -> Sota!Whole

\* Relaunching ends with a published result, or at one of the obstacles that a
\* death at the named statements leaves.
Completes ==
    <>(CASE which = "baseline" -> Baseline!Finished \/ Baseline!Obstacle
         [] which = "warmup"   -> Warmup!Finished \/ Warmup!Obstacle
         [] which = "ocem"     -> Ocem!Finished \/ Ocem!Obstacle
         [] which = "pmgr"     -> Pmgr!Finished \/ Pmgr!Obstacle
         [] which = "sssc"     -> Sssc!Finished
         [] which = "sota"     -> Sota!Finished)
=============================================================================
