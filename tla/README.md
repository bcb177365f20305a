# A verification of the SLR campaign protocols

The repository trains and evaluates retrieval models between sign-language
videos and sentences. Its numerical core (networks, losses, gradients) is
outside a model checker's reach. What decides whether its *results* can be
trusted is not: long processes that are killed and resumed, checkpoints and
JSON records written one after the other, shell scripts that decide from the
files whether to skip, resume or refuse, lock files, supervisors that stop and
continue other processes, a dev selection that must be frozen before the test
split is read. These protocols are what this directory specifies, checks with
TLC and proves with TLAPS.

## 1. Inventory

| Component | State it keeps | Operations | Interacts with |
|---|---|---|---|
| ELSC training run (`methods/elsc/elsc/train.py`, `provenance.py`) | `checkpoints/last.pt`, `checkpoints/best_dev.pt`, `best_dev_metrics.json`, `selection.json`, `run_summary.json`, `resolved_config.yaml`; in memory epoch, batch, step, best pair, weights | fresh start, resume, batch, epoch evaluation, the four kinds of save, selection | the campaign scripts (exit status, files), `evaluate.py`, `gate.py`, `configure_stage.py`, `report.py` (read the frozen files) |
| Campaign scripts (`methods/elsc/scripts/*.sh`) | the run directories, `artifacts/campaign/*.json` gate reports, a log, the process table | `run_training`, `evaluate_dev`, `run_gate`, wait for a predecessor, wait for an idle GPU | training, gates, extraction |
| Stage configuration, gates and reports (`configure_stage.py`, `gate.py`, `report.py`), test lock (`evaluate.py`) | generated configurations, evaluation files, reports, gate verdicts | select a parent run, freeze a configuration, compare runs, decide; validate the lock, evaluate | training runs, campaign scripts |
| Auxiliary cache of ELSC (`methods/elsc/elsc/mining/build_cache.py`) | `cache_meta.json`, records, vocabulary, graph, a lexical bank | build, reuse, refuse | training (teacher and cache hashes) |
| I3D feature extraction (`shared/slr_common/features/i3d.py`, `validate_release.py`) | one pickle per video, its sidecar, temporal metadata, a lock file per split, a campaign summary | acquire lock, skip complete videos, extract, publish, resume after a crash | `run_ph_i3d_extraction.sh`, prepared manifests |
| Resource guards (`shared/slr_common/resources.py`) | none (disk and GPU are read) | require resources, require a storage budget | every writer |
| Data, views, samplers, retrieval metrics (`shared/slr_common/data`, `evaluation`) | in-memory tables, RNG streams | sample one video per caption group, build text views, rank | training and evaluation |
| Pause supervisors (`research/slret_dataset_first/tools/run_c26_with_pause.py`, `research/slret_goal_v2/tools/run_c21_with_pause_v4.py`) | the stopped/continued state of another user's process, a child worker, a watchdog, a status file | stop the target, start the worker, check, continue the target, signals | the running training process |
| Dive run state and stages (`methods/dive/src/dive/artifacts.py` and the commands of the eight stages) | `run_state.json`, the outputs of each stage | resolve parents, rerun or resume a stage, register it | each other, through `run_state.json` |
| Dive artifact builders (`cache.py`, `mining/*.py`) | a pending directory per stage: shards with checksums, score vectors with progress, banks, reports | build, resume, adopt, publish | the run state |
| Dive baseline and warm-up trainers | `latest.pt`, pending and published best outputs, per-epoch checkpoints with hashes, progress, reports | start, resume, repair, select, register | the run state |
| OCEM adaptation run (`methods/ocem`) | a latest checkpoint, metrics, snapshots, a report with a status | start, resume, pass, fail | - |
| PMGR trainer and queue (`methods/pmgr`) | `last.pt`, `best_dev.pt`, its metrics, `summary.json` | update, validate, stop at a limit, resume; skip and judge an arm | the queue script decides from `summary.json` |
| SSSC trainer, selection lock and test (`methods/sssc/method1`) | `last.pt`, `best_dev.pt`, a completion mark, a lock, a record of the one test | update, save, resume, complete; lock, evaluate | test evaluation reads what a resumed trainer may rewrite |
| Span caches of SSSC | a reference cache and, inside it, a bundle of mined negatives | two building commands, one reader | trainer (teacher, manifests, identity) |
| `sota_slret` trainer and queue | best model and scores, `resume.pt`, `metrics.jsonl`, `DONE.json` | train, resume, relaunch | queue and watchdog look for `DONE.json` |
| Research tools (`research/*/tools`) | frozen manifests, resumable extractions, launch records | resume extraction, bounded launch, recover an evaluation | GPU host |
| Probes and adapters (`methods/information_probe`, `seds_adaptation`, `sl_mvr`, `gloss_bridge`, `translation_retrieval`) | none that outlives a call | numerical analyses and layers | - |
| Vendored code (`third_party/*`) | - | - | imported by the methods |

### What is hard here

* **A crash between two writes.** Every record is written atomically, no *set*
  of records is. The training loop writes `last.pt`, then perhaps `best_dev.pt`,
  then `best_dev_metrics.json`; the end of a run writes `selection.json`, then
  `run_summary.json`. A storage guard raises in the middle of an epoch by design.
* **State rebuilt from files of different moments.** A resumed process takes
  epoch, step, best value and weights from `last.pt` and the tie-break from
  `best_dev_metrics.json`.
* **Relaunches with something changed.** The configuration may have been edited
  between two launches; a fresh start may find files of an earlier attempt.
* **Boundaries.** A short accumulation window, a run whose last epoch is done
  but whose selection is not written, ties of the dev score.
* **Concurrent processes.** Extraction jobs that share a metadata directory,
  a supervisor and a watchdog that both continue a stopped process, two stages
  that record their completion in one state file without a lock.
* **Waiting.** Queue scripts that wait for a predecessor by name, idle samples
  of a GPU, a lock left by a dead process.

### What makes each component correct

* Training run: the frozen selection is the registered choice among *all*
  candidates; a resume continues the path it left, in the same schedule and
  configuration; the best checkpoint never gets worse; a frozen selection stays;
  a relaunched run ends.
* Extraction: a published feature is complete and belongs to the frozen
  configuration; two jobs never write one output; a restart repeats no finished
  video and leaves none out.
* Cache: what is consumed is what was built from the named teacher; a crash
  leaves something a restart can deal with.
* Test lock: test metrics are of the checkpoint the dev selection froze.
* Campaign: every comparison is between runs of one lineage; launching the
  scripts again finishes the campaign.
* Supervisors: the target is continued eventually, and never while the worker
  uses its GPU.
* Run state of dive: a recorded stage stays recorded, its record tells what it
  was made from, and its outputs stay what was recorded.
* Builders: what is published is whole and of one input, however often the
  builder was killed.
* Trainers: what is published is the best epoch by the stated rule, and the
  files of different moments agree.

## 2. Plan

Done, in this order:

1. `TrainRun`, `DevSelection`, `TrainRunProofs`, `TrainRunRefinement` - the ELSC
   training run, its abstract specification, and the proofs (section 3).
2. `FeatureExtraction`, `FeatureExtractionProofs` - I3D extraction jobs (4).
3. `PauseSupervisor`, `PauseSupervisorProofs` - supervisor, watchdog, target,
   worker, signals (5).
4. `DiveStore`, `DiveStoreProofs` - the shared run state of dive and its stages
   (6).
5. `Builder`, `StageBuild` and six builders of artifacts: `FrozenCache`,
   `ProposalMining`, `AuditExport`, `BankFinalization`, `AuxCache`, `SpanCaches`,
   with `BuildsProofs` (7).
6. `Trainer`, `EpochSelection` and six trainers: `DiveBaseline`, `DiveWarmup`,
   `OcemAdaptation`, `PmgrTrainer`, `SsscTrainer`, `SotaTrainer`, with
   `TrainersProofs` (8).
7. `CampaignScripts`, `Campaign`, `CampaignProofs` - thirteen campaign scripts of
   ELSC over shared runs, caches, reports and gates (9).

Open:

* `TestLock` - test evaluation of ELSC beside a training run that somebody starts
  again (`evaluate.py:86`; `SsscTrainer` has the like for SSSC).
* Two trainers on one run directory of ELSC, or of `sota_slret` (queue and
  watchdog for one directory).
* The C21 wrapper without a watchdog, and the C27 supervisor with two workers.
* The research trainers (`train_seds_extended.py`) and their launchers.
* Pure algorithms: window starts, the group sampler, tie-aware ranking.

Modules of one family share one run: their variables are the same and an extra
variable, `which`, says whose they are. Safety and liveness of an instance are
checked in one run, so that each run stands for one question; every violated
run has one property and one finding.

| Abstract specification | Says | Implemented by |
|---|---|---|
| `DevSelection` | the registered choice among all candidates | `TrainRun` |
| `EpochSelection` | epochs are committed in order, each with its score of that attempt; the result is the earliest best, or the last | the six trainers |
| `StageBuild` | an artifact has one input, appears at once, is registered later, is never replaced | the six builders; it is what `DiveStore` takes a build for |

## 3. The training run: `TrainRun`

### State and actions

The durable variables `last`, `best`, `metrics`, `selection`, `summary` and
`resolved` are the files of a run directory. Files written through a temporary
name and `rename` change in one step; `resolved_config.yaml` is written in place
by `dump_resolved`, so it passes through the value `Truncated`. `pc` is the next
statement of the process that matters, and the other variables are the locals of
`train()` that survive from one statement to the next. `EmptyMemory` is what
remains of them when the process is gone.

| Action | Code |
|---|---|
| `ResourcesShort`, `SkipCompleted`, `RefuseOverwrite`, `Launch`, `Verify` | `run_training` of `run_ph_b512_multiseed.sh` and its `check_disk` |
| `StartFresh`, `StartResume`, `ResumeMismatch` | the head of `train()`, with and without `--resume` |
| `OpenResolved`, `CloseResolved` | `dump_resolved` |
| `EvaluateInit`, `SaveInit`, `SaveInitMetrics` | the initialization as candidate -1 |
| `StartEpoch`, `TrainBatch`, `EvaluateEpoch`, `EndTraining` | the epoch loop |
| `SaveLast`, `NewBest`, `KeepBest`, `SaveBest`, `SaveMetrics` | the saves of an epoch, in the order of the code |
| `WriteSelection`, `WriteSummary` | the end of the run |
| `Crash` | a kill, an exception, the storage guard of `_save_checkpoint` |

Weights are told apart only by how they evaluate: `weights` is the sequence of
dev outcomes on the path that produced them, so two checkpoints with one path
hold the same weights and a resume that replays an epoch may take another path.
A sha256 is modelled by the content it digests. The outcome of an epoch is any
member of `Models`; `R1` and `R5` give its selection values.

`torn` is a history variable: it becomes true when a process dies between
`last.pt` and `best_dev_metrics.json` of an epoch that improved, the one window
in which the code can lose a candidate.

### Runs

Instances (`MCTrainRun`): four outcomes that cover a worse value, a tie on R1
and a full tie; two configurations whose initializations differ, so that a
relaunch may bring another one; three batches with an accumulation of two, so
that the last window is short; three epochs, so that a best epoch can be
followed and preceded by others; two deaths, so that a resumed process can die
again. More epochs repeat what the second does to the files, and a third death
finds no file state that two have not produced.

| Run | Checks | Shows |
|---|---|---|
| `train_run` | `SelectionFaithful`, `BestOnPath`, `StepsExact`, `OneConfiguration`, `RunInv`, `BestNeverRegresses`, `WindowsFilled`, `SelectedRunFrozen`, `ImplementsSelection`, `Settles` | the safety of the run directory, the refinement of `DevSelection`, and that relaunching ends: validated, or refused for ever |
| `train_run_rule` | `SelectsRegistered`, violated | the finding below |

Deadlock is checked in both; the launches of a finished run keep the
system moving, as the campaign script does.

*Fairness.* `Settles` assumes that a live process continues (it is never blocked
by another one) and that the operator relaunches each configuration he keeps:
that is what `run_training`, called again by the campaign, is for. Deaths are
not fair and are bounded by `MaxCrashes`.

### Finding: an improved epoch can be lost

`train()` writes `last.pt` with `max(best_dev, dev_score)` and only then
compares the scores and writes `best_dev.pt` and `best_dev_metrics.json`. If the
process dies in between (the storage guard of the second save raises exactly
there), the resumed process starts with the improved value as `best_dev`, the
improved epoch is not better than itself, and `selection.json` finally names an
older, worse candidate, although `provenance.selection_rule` in every
checkpoint says that all post-epoch checkpoints are candidates.
`train_run_rule` shows the shortest such history; `SelectionFaithful` shows that
it is the only way: without such a death every crash and resume leaves the
registered selection.

The state `Wedged` in `Settles` is a limit of the runner and not counted as a
contradiction: a death between `selection.json` and `run_summary.json` leaves a
run that does not validate and that `run_training` refuses to touch.

### Proofs

`TrainRunProofs` and `TrainRunRefinement` prove for all constants that satisfy
the assumptions of `TrainRun` (any number of epochs, batches, outcomes,
configurations and crashes; any selection values in `Nat`):

* `TypeCorrect`, `RunInvariant` - `Spec => []RunInv`;
* `SelectionCorrect`, `BestOnPathAlways`, `StepsExactAlways`,
  `OneConfigurationAlways` - the invariants of the run above;
* `BestMonotone`, `WindowsAlwaysFilled`, `SelectionFrozen` - its action
  properties;
* `Implementation` - `Spec => ImplementsSelection`.

`SelectionFaithful` is not inductive: it speaks only of the finished run.
`RunInv` adds what makes it so. `FilesInv` says what the files say of each
other at any time, `MemoryInv` what the process knows at each statement,
`BestCovered` that the recorded best value bounds the R1 of `best_dev.pt` even
after a candidate was lost, `ChoiceInv` (only while `~torn`) that
`best_dev.pt` and `best_dev_metrics.json` are the registered choice among the
candidates so far, and `StepInv` counts optimizer steps at every batch. Each
conjunct has its own preservation lemma with one case per action; the choice
among candidates rests on lemmas about `FirstBest` (a candidate that does not
beat the best keeps it, one that does replaces it), the step counts on lemmas
about quotients and remainders. The refinement maps the path to the weights of
`last.pt`, a loss to `torn` and the choice to `selection.json`: `SaveLast`
registers, `Crash` loses or stutters, `WriteSelection` chooses, all else stutters.

Only model-checked: `Settles` (liveness).

## 4. Feature extraction: `FeatureExtraction`

### State and actions

A *job* is one command line of `i3d.py`: an output root, a list of splits, a
checkpoint, a recipe, a plan. Its process may be started again and again.
`feature`, `sidecar` and `temporal` are the three files of a video (the last one
is shared by all roots of a dataset), `report` is the summary of a root and
split label. `pc`, `at`, `digest` and `completed` are the process: where it is,
the video it is at, the hash it computed, the number it has counted. The lock is
not a variable: `flock` is released by the kernel when the process is gone, so
`Free` reads who is inside the with-block.

A feature is told apart by checkpoint, recipe and a tag (a GPU need not give the
same bytes twice), and a sha256 is the content it digests. `Miscounted` names the
videos whose container announces another number of windows than decoding yields.

| Action | Code (`extract` unless said otherwise) |
|---|---|
| `Start`, `DryRun` | plan, storage budget, summary; `--dry-run` writes it as `planned` |
| `Acquire`, `LockTimeout` | `_acquire_extraction_lock` |
| `TooFewResources`, `OpenReport` | `require_resources`, the running report |
| `Skip`, `Extract` | `_is_complete`; decoding and inference |
| `WriteFeature`, `ReadDigest`, `WriteSidecar` | the pickle, its hash read back, the sidecar |
| `ReuseTemporal`, `FindNoTemporal`, `WriteTemporal`, `ConflictingTemporal` | the shared record, checked and then written |
| `CountVideo`, `VideoFails`, `Finish` | progress every `Interval` videos, the failed report, the complete one |
| `Die` | the process ends anywhere |

### Runs

Jobs of `MCFeatureExtraction`: `a1` and `a2` fill one root under one label, with
different checkpoints and, in their common video, conflicting recipes; `b1` fills
another root and shares a temporal record with `a1`; `w1` fills the first root
under another label. Two videos, so that one can be finished when the process
dies in the other; `Interval = 2`, so that a report lags behind; two tags, so
that a repeated extraction differs; one death or failure, after which every
process starts over from the files, which is all a death leaves behind.

| Run | Checks | Shows |
|---|---|---|
| `feature_extraction` | `OneExtractor`, `SidecarTruthful`, `CompleteReport`, `ExtractionInv` | exclusion, truthful sidecars, truthful reports through deaths, conflicts, dry runs and restarts |
| `feature_extraction_live` | `EventuallyExtracted` | with jobs that agree on the checkpoint of a root, restarts finish the work for good |
| `feature_extraction_overlap` | `OneExtractor`, violated | finding 1 |
| `feature_extraction_resume` | `Resumable`, violated | finding 2 |

*Fairness.* Each job: a live process runs on, and a job that is not running is
started again, as the launch scripts are rerun. Fairness is weak: a job may wait
for ever behind another of its root, which then does the work of both. Failures are not fair and are bounded by `MaxFailures`. Jobs with two
checkpoints for one root would re-extract each other's videos for ever; the live
run does not ask that of the code.

### Findings

1. A lock belongs to a list of splits, not to a split. Two jobs whose lists
   overlap without being equal run side by side on the same videos, against the
   comment above the lock.
2. A video that decodes to another number of windows than its container
   announces is written, counted and reported as complete, but `_is_complete`
   never agrees: each restart extracts it again.

### Proofs

`FeatureExtractionProofs` proves, for every set of jobs, plans, videos and any
number of failures, `Extraction` (`Spec => []ExtractionInv`) and from it
`ExtractorsExclude`, `SidecarsTruthful` and `CompleteReports`. The theorems assume
`SplitsDisjoint` (jobs that write one video into one root have one lock: the
assumption finding 1 breaks) and `StreamsAgree` (jobs that may run together and
share temporal records use one recipe: the record is checked and written without
a lock). `CompleteReport` is not inductive: a report says complete long after the
process is gone. `ExtractionInv` adds `Exclusion` of the critical sections, what a
process knows of the video in hand (`InHand`) and of the ones it has passed
(`Passed`), that nobody works under a complete report (`ReportIdle`: the running
report is written before the first file), and whose report it is (`ReportOwn`).

The types are the first conjunct of `ExtractionInv`; `ExtractionTypes` states them.

Only model-checked: `EventuallyExtracted`.

## 5. Pausing another process: `PauseSupervisor`

### State and actions

`target` is the process to be paused; "suspended" means stopped by its own user
before the job. `pc` is the next statement of `run()`, with its locals `paused`,
`known` (`child is not None`), `timedOut`, `failed` (`error is not None`) and
`resumed`. `watcher` and `action` are the watchdog, `worker` and `held` the worker
and the copy of the status its `Progress` object keeps, `file` is `status.json`.

| Action | Code |
|---|---|
| `Launch` ... `ReportRunning` | `run()` to the start of the worker, one step per system call and one per assignment that records it |
| `Collect`, `HardTimeout`, `Terminate` | `child.wait`, the judgement of exit status and summary, `stop_child` |
| `RecordError`, `IgnoreSignals`, `Cleanup`, `ContinueTarget`, `ConfirmRunning`, `ReportFinal` | the except and finally clauses |
| `Signal` | the handler raises wherever the main thread is: in the try block, in the except clause before the error is recorded, before the handlers are replaced by `SIG_IGN` |
| `Notice`, `Recover`, `ConfirmRecovery`, `Settle` | `watchdog()` |
| `LoadStatus`, `Heartbeat`, `WorkerEnds` | `Progress` of `run_c26_pilot.py` |
| `KillSupervisor`, `KillWatcher` | SIGKILL: each process has a session of its own |
| `OthersContinue`, `TargetEnds` | external: the user of the target |

Assumed of the outside: nobody else stops the target during the job (the code
cannot tell who did), and a stop or continue that was sent is seen within the five
seconds of `wait_state`. The check of PID, start time, group and command line is
"the target is still there".

### Runs

Two signals, since the second may hit the handling of the first; two SIGKILLs,
one for each of supervisor and watchdog. There are no other parameters: each
party is one process. Deadlock is not checked: the job ends.

| Run | Checks | Shows |
|---|---|---|
| `pause_supervisor` | `Covered`, `CompletedReleased`, `SupervisorReleases`, `CompletedTruthful`, `PauseInv`, `RefusesOwnership`, `ReleaseAfterWorker`, `Released`, `Settled` | the safety of the pause, and that it ends |
| `pause_supervisor_status` | `TerminalStays`, violated | the finding below |

*Fairness.* Supervisor and watchdog are live processes (the hard timeout is one of
the supervisor's steps, so a worker that hangs blocks nobody). The worker and the
target owe nothing. `Released` and `Settled` except a watchdog that was killed.

Two windows that the properties name rather than hide: a signal between SIGSTOP
and `paused = True` leaves the target to the watchdog (`SupervisorReleases`), and a
signal in the except clause loses the error, so that the job is COMPLETED
(`CompletedTruthful` holds without signals). `Settled` starts at the watchdog: a
supervisor that dies before leaves STARTING for ever. A worker started just
before a signal, or whose supervisor was killed, is stopped by nobody and uses
the GPU beside the continued target; `ReleaseAfterWorker` speaks of the worker the
supervisor knows of.

### Finding: a final status does not stay

The watchdog settles the status of a lost supervisor as INTERRUPTED but does not
stop the worker. The worker's heartbeat rewrites `status.json` from its own copy:
the job is RUNNING again, and stays so when the worker ends.

### Proofs

`PauseSupervisorProofs` proves for any number of signals and kills `Supervision`
(`Spec => []PauseInv`) and from it `WatchdogCovers`, `CompletedMeansReleased`,
`SupervisorAlwaysReleases`, `CompletedMeansTrue`, `OwnershipRefused` and
`TargetAfterWorker`. `PauseInv` adds to the types: the order of watchdog and pause
(`Order`: started before the stop, for a target nobody had suspended), that the
watchdog acts only when the supervisor is gone and nobody stops the target after
it has looked (`Late`), that the worker is reaped before the target goes on
(`Reaped`), that a stop without a record implies a signal (`Marked`), and that
every failure is on record when the verdict is written (`Recorded`).

The types are the first conjunct of `PauseInv`; `PauseTypes` states them.

Only model-checked: `Released`, `Settled`.

## 6. The run state of dive: `DiveStore`

### State and actions

`state` is `run_state.json`, `dest` the first and the last output of each stage,
`pending` its pending directory, `trained` the checkpoint of the warm-up and
whether its sha256 is there, `strays` the temporary files in the map directories of
`validate_data`. A process has the command it runs (`job`), the parents it resolved,
the parents as it read them, and the run state it loaded to extend. What a command
runs under is an environment: configuration, audit decision, revision of the
sources. A hash is the content it digests; that of a directory takes in every file
that lies in it (`Hashed`), so the outputs of `validate_data` are hashed with their
temporary files. A command resolves a stage as a whole; in the code it names some
of its outputs, and every command but the audit export names a map directory.

| Action | Code |
|---|---|
| `Launch`, `ResolveParents`, `MissingParent`, `ReadParents`, `Unacceptable` | the head of each stage's command: `resolve`, and the comparison of configurations |
| `Train`, `HashCheckpoint`, `ResumeTraining`, `RefuseTraining` | the warm-up's checkpoint, then its sha256; resumption |
| `MakeTemporary`, `ReplaceMap` | `_atomic_jsonl` of `validate_data`: the new map is written inside the registered directory and then replaces the old one |
| `WriteFirst`, `WriteLast` | the other outputs of the stages that write in place (`validate_data`, `baseline_validate`, `evidence_warmup`) |
| `ReturnRegistered`, `AdoptDestination`, `RefuseDestination`, `NothingThere` | `_registered_result` of the builders |
| `MakePending`, `MarkPending`, `ResumePending`, `RefusePending`, `BuildPart`, `PublishPending` | the pending directory |
| `LoadState`, `RefuseRecord`, `ReplaceState` | `record_stage`: checks and loading, then the replacement of the whole file |
| `Crash` | a kill anywhere |

### Run

`dive_store`: two terminals; four stages, one of each kind (written in place,
written in place under a revision with checkpoints, built and resumed, built
under an accepted audit); three environments (the operator's, one with an audit,
one of another revision); one crash and one command the operator did not need.
Two processes are enough for the lost update, one crash for every unfinished
state of a directory, and a foreign command overwrites whatever it overwrites at
once.

It checks `TypeOK`, `RegistrationsStay`, `OneChain`, `LineageTrue`,
`BuiltStaysWhole`, `OwnRerunsHarmless`, `BoundConfiguration` and `Settles`.
Weaknesses of the code are named in the properties, each by a history variable
that TLC shows to be needed:

* `raced`: `record_stage` loads, extends and replaces one JSON file without a
  lock. Two stages that finish together lose one registration.
* `healed`: a parent is hashed before it is read and after the build, not while;
  an output that is broken and made whole in between leaves a false lineage.
* `foreign`: a rerun under another configuration or revision writes over
  registered outputs and is refused only when it comes to register them; what
  depends on them no longer resolves. Stages that build are safe from it.
* the operator's own rerun of `validate_data` puts a temporary file into directories
  that are hashed as a whole. While it is there no stage resolves them, and when the
  rerun is killed it stays: its name carries a process id, so no later run replaces
  or removes it. `OwnRerunsHarmless` says that this is all an own rerun can do, and
  that it needs such a rerun under way or a kill.

*Fairness.* Live commands continue; a stage the operator still needs is launched
again (strong fairness: a stage is needed only while its parents resolve or the
terminals are free). `Settles` excepts a pending directory or a finished
one nobody takes up, a checkpoint of other parents or killed before its sha256 was
beside it, a stage registered under something else, and a registered directory that
holds a temporary file it was not hashed with. Deadlock is not checked: a finished
run stops.

### Proofs

`DiveStoreProofs` proves the seven safety properties of the run for any set of
processes, any of the eight stages, any environments, any number of kills and of
commands the operator did not need: `StoreTypeCorrect`, `BuiltWhole`,
`RegistrationsAreKept`, `ChainIsOne`, `LineageIsTrue`, `ConfigurationIsBound` and
`OwnRerunsBreakNothing`. The invariant is built in layers, each inductive on top of
those before it, because the properties need different parts of it:

* `Shape` and `Commands`: what the variables are made of, which statement belongs
  to which kind of stage, and that no two processes have a command of one stage;
* `Whole`: a record, and a record a process has loaded, is of outputs that are
  there; a directory is renamed onto nothing. `BuiltStaysWhole` rests on it;
* `Signed`: what a command took up or wrote carries its own environment;
* `Once`, as long as not `raced`: what a process has loaded is what is there, but
  for its own stage: `RegistrationsStay` and `OneChain`;
* `Lineage`, as long as neither `raced` nor `healed`: what a process has read of a
  parent is what is registered, or the parent no longer resolves; and what it bound
  to a parent's configuration, `Signed` included, was made under it: `LineageTrue`
  and `BoundConfiguration`;
* `OwnOutputs`, as long as neither `foreign` nor `raced`: every output that is there
  is the one its stage makes of what is registered of its parents (`Proper`), whoever
  wrote it, so a rerun alters nothing;
* `Litter`: temporary files are those of a running validation and of killed ones, and
  a record was hashed with no more of them than there are now without the running
  one. With `OwnOutputs` it leaves only temporary files to differ from a record:
  `OwnRerunsHarmless`.

Only model-checked: `Settles`.

## 7. The builders of artifacts: `Builder`, `StageBuild`, `MCBuilds`

`Builder` is what the six have in common: one command, launched again until it is
done, killed between any two writes, while its inputs (configuration, parents,
code, a decision of a human) may change. Contents of files are told apart by the
input and the launch they were made from. `Builder` also holds the frame of the
dive builders (pending directory, `build_state.json`, report, renaming,
registration); each module adds its own files.

| Module | Code | Its files |
|---|---|---|
| `FrozenCache` | `cache.py`, `cache_build.py` | shards with checksums of several caches, adopted or written again; an index per cache |
| `ProposalMining` | `mining/runner.py`, `pair_scorer.py`, `proposals.py` | shortlists, score vectors written chunk by chunk beside a progress file, proposals, coverage, rejections |
| `AuditExport` | `mining/audit_runner.py`, `audit.py` | the sheet for annotators and the decision template |
| `BankFinalization` | `mining/finalize_runner.py`, `bank.py` | the decision of the audit, read, hashed and later copied; the bank |
| `AuxCache` | `elsc/mining/build_cache.py` | files written straight into the cache, metadata last |
| `SpanCaches` | `sssc/method1/reference_pipeline.py`, `reference.py`, `mining_pipeline.py`, `miner.py`, `auxiliary_cache.py` | two private directories, renamed; a trainer that opens both |

Run `builds` checks `Whole` (the files of an artifact agree), `BuildsAtomically`
(each implements `StageBuild`) and `Completes` (launching again ends with a
registered artifact, or at a named obstacle). Two inputs, one of them an accepted
decision; two kills, so that a resumed command dies again; two changes, so that
an input can come back; two caches, batches and vectors, so that one is finished
when the command dies in the other; three chunks, so that there is a first, a
middle and a last one. *Fairness:* the command is launched again and goes on.
Deadlock is not checked: a refused build stops.

What the run shows of the code, each as a named obstacle or exception:

* any pending directory of dive killed between `mkdir` and `build_state.json` is
  refused for ever; the audit export, which has no build state, after any kill
  before publication;
* proposals: also after a kill between shortlists and their metadata, between the
  last chunk of a vector and its checksum, or before the data file has its header;
* the bank: decision and annotation are read, hashed and copied at three moments.
  An edit in between registers a snapshot the bank was not built from;
* the ELSC cache: a kill after the first file and before `cache_meta.json` is
  refused for ever, and the metadata hashes the inputs as they are at the end;
* the span caches of SSSC: a kill leaves nothing anybody reads. But the identity
  is hashed before teacher and manifests are read, by both commands, and nobody
  compares again: a teacher replaced in that window gives a cache that names
  another one. (A completed SSSC trainer that is resumed rewrites its best
  checkpoint, section 8: the caches of that teacher are then refused.)

One command of a stage runs at a time, as in `DiveStore`.

### Proofs

`BuildsProofs` proves `ArtifactsAreWhole` (`Spec => []Whole`) and `BuildsAreAtomic`
(`Spec => BuildsAtomically`) for any inputs, caches, batches, vectors and chunks
and any number of kills and edits. `BuildsAssumption` of `MCBuilds` says what the
proofs take from the constants: caches, batches and vectors are numbers, in the
order in which they are made, and "no file" is no content.

Each builder has its invariant: what a launch has in memory, what is in the pending
directory at each statement, and what a finished launch leaves. Two parts need more
than one statement. A resumed miner continues the vector whose progress it finds:
that every vector before it is complete and none behind it begun is stated with the
least unfinished vector, which exists by the well-foundedness of `<` on the
naturals (`Least`). And the span caches name an identity hashed before it is read:
`ReferenceStill` and `BundleStill` say between which statements an input would have
to be replaced for the cache to lie, which is the exception in its `Whole`. For the
refinement, `PublishedIsFinished` says what a renamed directory holds, and each
builder has a lemma that a step maps to one of `StageBuild` or to a stutter.

Only model-checked: `Completes`.

## 8. The trainers: `Trainer`, `EpochSelection`, `MCTrainers`

`Trainer` is what the six have in common: one process in one output directory,
launched again after each kill. An epoch that a kill makes a trainer train again
may score otherwise: random states and optimizer are restored, but `sota_slret`
leaves cuDNN non-deterministic unless `--deterministic` is given (`train.py:96`),
and OCEM says that bitwise identity of a rerun is not claimed
(`adaptation_run.py:414`). So each evaluation draws its score (`Evaluates`), and
`score` holds that of the attempt evaluated last; the bytes a launch writes are its
own (`Version`). `cuts` remembers at which statement and epoch a process died: the
exceptions below are stated with it.

| Module | Code | What is particular |
|---|---|---|
| `DiveBaseline` | `dive/baseline_training.py` | best outputs pend until `latest.pt` names them; repaired by the next launch |
| `DiveWarmup` | `dive/training/warmup.py`, `state.py` | one checkpoint per epoch with its hash; the winner is chosen at the end |
| `OcemAdaptation` | `ocem/training/adaptation_run.py` | snapshots and a report with `PASS`, `RUNNING`, `FAIL_TECHNICAL`; the last epoch is the result |
| `PmgrTrainer` | `pmgr/train.py` and `run_arm` of the queue | checkpoints after every update, launches with a limit, a summary the queue judges |
| `SsscTrainer` | `sssc/method1/train_pipeline.py`, `selection.py`, `inference.py` | periodic checkpoints, a completion mark; lock and test by other processes meanwhile |
| `SotaTrainer` | `sota_slret/src/train.py`, `queue.sh`, `watchdog.sh` | best model written in place before `resume.pt`; `DONE.json` |

Run `trainers` checks `Whole` (the files agree whenever a process may read them),
`KeepsPromise` (each implements `EpochSelection`; `Missed` names the epochs a
trainer loses) and `Completes` (launching again ends with a publication, or at a
named obstacle). Four epochs with two scores give ties, a best epoch at the start,
inside and at the end; two kills; snapshots and validations every second epoch;
two batches and a checkpoint every third update, so that a periodic checkpoint
falls inside an epoch and on its end. `KeepsPromise` is about the epochs on record:
`EpochSelection` gives an epoch its score when it is committed, and `Ranking` hides
the scores of attempts that are not. The published result is the epoch the trainer
itself calls the best (the checkpoint's selection, `resume.pt`, the summary); that
the file of the best model is of this epoch is part of `Whole`, with the exception
`Lost`: PMGR and `sota_slret` write the best model before the epoch enters
`last.pt` or `resume.pt`, and what a killed launch has written of an epoch stays
when the rerun of that epoch does not improve. *Fairness:* a process goes on and is launched
again. Deadlock is not checked: a published run stops.

What it shows of the code:

* dive baseline: nothing can be launched any more after a kill before the first
  `latest.pt` (its pending files are there), between `latest.pt` and its hash, or
  after the last checkpoint and before registration;
* dive warm-up: a kill between a checkpoint and its hash ends every resumption,
  although the checkpoint before verifies;
* OCEM: `PASS` is said of a run whose metrics or snapshot of a cut epoch are missing;
* PMGR: a launch whose limit falls exactly on the end of an epoch saves the next
  one before it has validated this one, which is never a candidate again. A run
  that died, or reached its limit, between its last checkpoint and its summary
  has nothing left to train; the next launch cannot compute the scores of a last
  batch again, says so in the summary, and the queue refuses it for good;
* SSSC: a kill between the periodic checkpoint of an epoch's last update and its
  evaluation loses the epoch's dev score. A completed run that is resumed writes
  `best_dev.pt` with other bytes: a lock made before is no longer valid, and the
  test is refused (never made on other weights);
* `sota_slret`: relaunching always completes, and the epoch that `DONE.json` calls
  the best is the earliest best of the record. Its model need not be (`Lost`).
  `best_model.bin` is written in place as soon as an epoch improves (`train.py:180`),
  `resume.pt` later. A launch that is killed in between trains the epoch again; when
  that attempt scores no better than the best so far, the torn or complete model of
  the lost attempt stays beside `DONE.json`, although `config.json` promises the
  "max over epochs of val PrimaryDev" (`train.py:128`). One kill is enough. PMGR
  writes `best_dev.pt` in the same order, but never a torn one.

Assumed: a fresh launch is made only where no checkpoint is (the code of PMGR and
SSSC does not refuse one; that of `sota_slret` starts afresh after `DONE.json`, so
nobody calls `launch.sh` then); queue and watchdog of `sota_slret` do not work on
one directory at once; the retries of its scripts (5 and 10) are not used up.

### Proofs

`TrainersProofs` proves `TrainersAreWhole` (`Spec => []Whole`) and
`TrainersKeepTheirPromise` (`Spec => KeepsPromise`) for any number of epochs,
batches and kills, any scores and all intervals. `NoneAssumption` says that "no
file" is no content of a file.

Each trainer has an invariant of three parts: types, what the process knows at each
statement (`BaselineMemory` and its like), and what the files say when it is gone.
They say which epoch is the choice of those compared so far by `Leads`, the earliest
of the best under the scores on record (a new score of an epoch that is not on record
changes nothing: `LeadsAlike` and its like). One exists (`LeaderExists`, by the least counterexample), it is the only
one (`LeaderIsOne`), and comparing with the next epoch gives that of one more
(`ChoiceNext`). For the refinement every trainer is shown to move only as `Moves`
says: it stays, commits the next epochs with the scores of these attempts, misses
one, or publishes. That `Moves`
implies a step of `EpochSelection` is proved once for all six (`MovesAsPromised`).

The proofs changed the modules in two places where the instance above had hidden a
case, and TLC was run with 18 other choices of the constants since (`Batches` 1 to
3, `EveryEpochs` 1 to 3, `Epochs` 3 and 5). `EpochSelection.Commit` may pass over
epochs that are no candidates, as PMGR does with one batch an epoch. And PMGR may
have missed every epoch it validates: it then has no metrics, and no launch gives it
any (`Obstacle`).

Only model-checked: `Completes`.

## 9. The campaign: `CampaignScripts`, `Campaign`, `MCCampaign`

`CampaignScripts` translates the scripts under `methods/elsc/scripts` into
sequences of the commands they run; `Campaign` is what each command does to the
shared directories: runs (`dir`), configurations, evaluations, caches, reports,
gates. A run has the commits it was launched from, a checkpoint has the number of
removals before it was made, which is when a run is trained anew.
Three scripts of CSL-Daily are queued at once and wait for each other through files
and the process table; the others are started one at a time, in rounds, until all
have ended well. Beside them run the feature extraction and a trainer
started by hand. `Kill` ends a script with its child, `Commit` changes the
sources, `ClearAway` removes a run or a cache when nothing runs.

Run `campaign` checks `Comparable` and `Completes` over eight campaigns
(`MCCampaigns`) that put every script with those it depends on; two seeds, so that
there is a screened one and another; up to two events (kills, removals, commits) in
the shorter campaigns, one or none in the longer ones. *Fairness:* the scripts, the
extraction and the trainer go on and are launched again. Deadlock is not
checked: the scripts end.

`Comparable`: every comparison is between runs taught by the checkpoint that
mined their cache, and seed by seed they go back to one baseline. `report.py`
does not look at teachers; it rests on what the scripts do before. After a removal
the second half holds only for reports of a script that has trained what it
compares (`Vouched`). That it has validated a run (`elsc.provenance`) is not
enough: `run_ph_b512_controls.sh` validates the baseline and `min`, trains
`adapter_only` against the baseline and compares the two. Had
`run_ph_b512_followup.sh` died between evaluating a baseline that was trained anew
and configuring `min`, that `min` is still the one taught by the old baseline, it
validates, and the report compares two baselines. `run_ph_b512_multiseed.sh` and
`run_csl_multiseed.sh` compare the runs of the first seed without training them:
with a gate file of the time before the removal they can do the same.

`Completes` excepts what no launch repairs (`Hindered`, each part shown to be
needed): a run selected without summary (the `Wedged` of section 3), a cache without
metadata or of another teacher, a cache mined again under runs that used the first,
runs from different commits in matched reports or gate M, a verdict that ends a
script others wait for. On the way:

* a script that waits exits with an error when its predecessor ended between the
  test for the file and the look at the process table, which another launch
  repairs, or ended quietly, which none repairs;
* a gate of `run_csl_gate_x.sh` is written in place: an old verdict other than
  "passed" is taken for the present one when the command fails;
* `run_ph_b512_lower_lr_multiseed.sh` needs a run that
  `run_ph_b512_corrective.sh` makes only after a "no_go";
* gate F does not compare the runs of its two gates, and `provenance.json` keeps
  only the commit of the last launch.

### Proofs

`CampaignProofs` proves `CampaignFollowed` (`Spec => []CampaignInv`) and
`RunsAreComparable` (`Spec => []Comparable`) for any two or more seeds, any
campaigns of the thirteen scripts and any number of kills, commits and removals.
Assumed of the constants: the seeds are a sequence of numbers, the first the
screened one (`SeedsAssumption`); a campaign has the scripts that train the
baselines and the runs its scripts compare (`CampaignsAssumption`); what is missing
is told from what is there (`MissingAssumption`). TLC evaluates the three on the
instance.

`Comparable` speaks of a report and says nothing of the runs it will be made from.
`CampaignInv` follows the running scripts instead (`Following`): what the commands
of a script before its present one have achieved - a configuration taught by the
baseline as it is now, a run trained from one - lasts until the script ends, whatever
the other scripts and the trainer started by hand do. It does because a checkpoint
that is there is only replaced after a removal, and nothing is removed while a script
runs. When a script then comes to a report, the runs it has trained go back to the
baseline of now.

That needs the order of the commands: each script configures a run before it trains
it or mines for it, and names the baseline of its seed as teacher. The scripts are
sequences put together from parts, seed by seed, so this is proved as one proves a
program: `Goes(C, p, D)` says that the part `p`, run where the runs of `C` are
configured, is in order and leaves those of `D`, parts follow each other, and a loop
over the seeds goes on as its body does (`ScriptsInOrder`, of all thirteen).
`FlattenSeq` is defined by recursion; that it unfolds is shown by the least length
for which it would not.

Only model-checked: `Completes`.

## 10. What is proved, what is only checked

Proved for all constants that satisfy the named assumptions: every safety invariant
and action property of the passing runs, and the refinements of `DevSelection`,
`StageBuild` and `EpochSelection`. The theorems are listed in `PROJECT.json`; TLC
evaluates each assumption on the instance of a run.

Only model-checked, on the instances above:

* liveness under fairness (`Settles` of both runs, `EventuallyExtracted`,
  `Released`, `Settled`, and `Completes` of the builders, the trainers and the
  campaign): the prover treats neither fairness nor `ENABLED`;
* the violated properties of the findings, which are counterexamples.

What the proofs do not widen: the assumptions on schedulers and operators that are
part of the models (one command of a stage at a time, removals only when no script
runs), and the properties' own exceptions (`torn`, `raced`, `healed`, `foreign`,
`Missed`, `Lost`, `Vouched`), each of which stands for a behaviour of the code that
breaks the property without it.

## 11. Not modelled

Listed with their files in `PROJECT.json`. The reasons, by kind:

* networks, losses, optimisers, metrics, probes, adapters and the arithmetic of
  miners: real numbers on tensors, which have no finite abstraction that would
  still be about the code. Where they decide something, their outcome is chosen
  freely (scores, verdicts, windows, out-of-memory refusals);
* commands of a single pass (prepare, audit, export, diagnostics, analyses): they
  read files, write one result and keep no state another process could meet half
  done;
* research launchers bound to the process numbers, hosts and hashes of one
  occasion. The pause supervisor stands for those that act on other processes;
* vendored code;
* what is open in the plan (section 2);
* of modelled components: random number streams, append-only logs other than that
  of `sota_slret`, printing, distributed engines, resource guards beyond their
  refusal, retries that are used up.
