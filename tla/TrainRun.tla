------------------------------ MODULE TrainRun ------------------------------
(***************************************************************************)
(* One ELSC training run: the durable files of its run directory, the      *)
(* process of methods/elsc/elsc/train.py that writes them one after the    *)
(* other, and the shell function run_training of                           *)
(* methods/elsc/scripts/run_ph_b512_multiseed.sh that decides, at each     *)
(* launch, to skip, to refuse, to resume or to start the run afresh.       *)
(*                                                                         *)
(* The process may die between any two durable writes (a kill, an          *)
(* out-of-memory error, the exception of a storage guard); the operator    *)
(* launches the script again, possibly with an edited configuration.       *)
(* Checkpoints and JSON records are written to a temporary file and        *)
(* renamed, so each appears at once; resolved_config.yaml is written in    *)
(* place and can be seen truncated.                                        *)
(*                                                                         *)
(* Weights are told apart only by how they evaluate on the dev split:      *)
(* "weights" is the sequence of the dev outcomes of the candidates on the  *)
(* path that produced them, initialization first, so that an epoch appends *)
(* one outcome.  A sha256 is modelled by the content it digests.           *)
(***************************************************************************)
EXTENDS Integers, Sequences

CONSTANTS
    Models,      \* outcomes an evaluation on the dev split can have
    R1, R5,      \* the two selection values of an outcome
    Configs,     \* resolved configurations the operator may launch with
    InitModel,   \* outcome of the initialization of each configuration
    Epochs,      \* train.epochs
    Batches,     \* len(loader)
    Accum,       \* train.accumulation_steps
    MaxCrashes,  \* bound: how many times a process may die
    NoFile,      \* a file that does not exist
    Truncated    \* a file left truncated by a write in place

ASSUME ModelsAssumption ==
    /\ R1 \in [Models -> Nat]
    /\ R5 \in [Models -> Nat]
    /\ InitModel \in [Configs -> Models]
ASSUME BoundsAssumption ==
    /\ Epochs \in Nat \ {0}
    /\ Batches \in Nat \ {0}
    /\ Accum \in Nat \ {0}
    /\ MaxCrashes \in Nat

\* -math.inf, below every selection value.
NegInf == -1

\* The (r1, r5) pair an outcome is registered with.
Dev(m) == <<R1[m], R5[m]>>

\* Variant: a later candidate that only ties replaces the best one.
BetterOrEqual(a, b) == a[1] > b[1] \/ (a[1] = b[1] /\ a[2] >= b[2])

\* Python's tuple comparison (dev_score, dev_r5) > (best_dev, best_dev_r5).
Better(a, b) == a[1] > b[1] \/ (a[1] = b[1] /\ a[2] > b[2])

\* The outcome of the current weights.
Outcome(w) == w[Len(w)]

Ceil(a, b) == (a + b - 1) \div b

\* optimizer updates of one epoch: math.ceil(len(loader) / accumulation)
UpdatesPerEpoch == Ceil(Batches, Accum)

\* Epoch -1 is the initialization.
CandidateEpochs == Nat \cup {-1}

Checkpoint == [cfg : Configs, epoch : CandidateEpochs, step : Nat, best : Int,
               weights : Seq(Models)]
Metrics    == [epoch : CandidateEpochs, outcome : Models]
Selection  == [best : Int, r5 : Int, checkpoint : Checkpoint,
               cfg : Configs, epoch : CandidateEpochs]
Summary    == [steps : Nat, selection : Selection]

ASSUME FilesAssumption ==
    /\ NoFile \notin Checkpoint \cup Metrics \cup Selection \cup Summary
    /\ NoFile \notin Configs /\ Truncated \notin Configs
    /\ NoFile # Truncated

VARIABLES
    last,       \* checkpoints/last.pt
    best,       \* checkpoints/best_dev.pt
    metrics,    \* best_dev_metrics.json
    selection,  \* selection.json
    summary,    \* run_summary.json
    resolved,   \* resolved_config.yaml
    pc,         \* next step of the process, "idle" when none runs
    resumed,    \* train() was given --resume
    cfg,        \* the configuration the process was launched with
    epoch,      \* loop variables of train()
    batch,
    pending,    \* micro-batches whose gradient awaits the update
    step,       \* global_step
    dev,        \* (best_dev, best_dev_r5)
    weights,    \* model.state_dict()
    verdict,    \* how the latest launch of run_training ended
    crashes,    \* processes that died so far
    torn        \* history: one died between last.pt and best_dev_metrics.json
                \* of an epoch that improved

files == <<last, best, metrics, selection, summary, resolved>>
mem   == <<resumed, cfg, epoch, batch, pending, step, dev, weights>>
vars  == <<last, best, metrics, selection, summary, resolved, pc, resumed,
           cfg, epoch, batch, pending, step, dev, weights, verdict, crashes,
           torn>>

Steps == {"idle", "dump", "dumping", "init_eval", "init_save",
          "init_metrics", "epoch", "batch", "eval", "save_last", "compare",
          "save_best", "save_metrics", "select", "summarise", "verify"}
Verdicts == {"none", "validated", "refused", "failed"}

TypeOK ==
    /\ last \in Checkpoint \cup {NoFile}
    /\ best \in Checkpoint \cup {NoFile}
    /\ metrics \in Metrics \cup {NoFile}
    /\ selection \in Selection \cup {NoFile}
    /\ summary \in Summary \cup {NoFile}
    /\ resolved \in Configs \cup {NoFile, Truncated}
    /\ pc \in Steps
    /\ resumed \in BOOLEAN
    /\ cfg \in Configs
    /\ epoch \in Nat
    /\ batch \in Nat
    /\ pending \in Nat
    /\ step \in Nat
    /\ dev \in Int \X Int
    /\ weights \in Seq(Models)
    /\ verdict \in Verdicts
    /\ crashes \in 0..MaxCrashes
    /\ torn \in BOOLEAN

-----------------------------------------------------------------------------
\* Between processes the memory holds nothing: these values stand for that.
EmptyMemory ==
    /\ resumed' = FALSE
    /\ epoch' = 0
    /\ batch' = 0
    /\ pending' = 0
    /\ step' = 0
    /\ dev' = <<NegInf, NegInf>>
    /\ weights' = <<>>
    /\ UNCHANGED cfg

Init ==
    /\ last = NoFile /\ best = NoFile /\ metrics = NoFile
    /\ selection = NoFile /\ summary = NoFile /\ resolved = NoFile
    /\ pc = "idle"
    /\ resumed = FALSE
    /\ cfg \in Configs
    /\ epoch = 0 /\ batch = 0 /\ pending = 0 /\ step = 0
    /\ dev = <<NegInf, NegInf>>
    /\ weights = <<>>
    /\ verdict = "none"
    /\ crashes = 0
    /\ torn = FALSE

-----------------------------------------------------------------------------
(* run_training of the campaign script                                     *)

\* elsc.provenance --run-dir ... --config c
Validates(c) ==
    /\ resolved \in Configs /\ summary # NoFile /\ selection # NoFile
    /\ best # NoFile
    /\ selection.checkpoint = best
    /\ selection.cfg = resolved
    /\ summary.selection = selection
    /\ resolved = c

\* Variant: only run_summary.json makes the script refuse.
HasSummary == summary # NoFile

HasResult == selection # NoFile \/ summary # NoFile

\* check_disk or require_resources turns the launch away: nothing is written.
ResourcesShort ==
    /\ pc = "idle"
    /\ verdict' = "failed"
    /\ UNCHANGED <<files, mem, pc, crashes, torn>>

SkipCompleted(c) ==
    /\ pc = "idle"
    /\ Validates(c)
    /\ verdict' = "validated"
    /\ UNCHANGED <<files, mem, pc, crashes, torn>>

RefuseOverwrite(c) ==
    /\ pc = "idle"
    /\ ~Validates(c)
    /\ HasResult
    /\ verdict' = "refused"
    /\ UNCHANGED <<files, mem, pc, crashes, torn>>

\* No last.pt: train() starts from model.init_checkpoint of the configuration.
StartFresh(c) ==
    /\ pc = "idle"
    /\ ~HasResult
    /\ last = NoFile
    /\ pc' = "dump"
    /\ resumed' = FALSE
    /\ cfg' = c
    /\ epoch' = 0
    /\ step' = 0
    /\ dev' = <<NegInf, NegInf>>
    /\ weights' = <<InitModel[c]>>
    /\ verdict' = "none"
    /\ UNCHANGED <<files, batch, pending, crashes, torn>>

\* --resume last.pt: train() restarts at epoch e after st optimizer steps with
\* weights w.  The tie-break value is not in the checkpoint: it is read from
\* best_dev_metrics.json when there is one.
Resume(c, e, st, w) ==
    /\ pc = "idle"
    /\ ~HasResult
    /\ last # NoFile
    /\ pc' = "dump"
    /\ resumed' = TRUE
    /\ cfg' = c
    /\ epoch' = e
    /\ step' = st
    /\ dev' = <<last.best,
                IF metrics # NoFile THEN R5[metrics.outcome] ELSE NegInf>>
    /\ weights' = w
    /\ verdict' = "none"
    /\ UNCHANGED <<files, batch, pending, crashes, torn>>

\* Variants: the configuration hashes are not compared; a run whose epochs are
\* all done is not resumed; the stored epoch is run again; the weights are the
\* initialization's.
ResumeAnyConfig(c) == Resume(c, last.epoch + 1, last.step, last.weights)
ResumeUnfinished(c) ==
    /\ last # NoFile /\ last.cfg = c /\ last.epoch + 1 < Epochs
    /\ Resume(c, last.epoch + 1, last.step, last.weights)
ResumeSameEpoch(c) ==
    /\ last # NoFile /\ last.cfg = c
    /\ Resume(c, last.epoch, last.step, last.weights)
ResumeInitWeights(c) ==
    /\ last # NoFile /\ last.cfg = c
    /\ Resume(c, last.epoch + 1, last.step, <<InitModel[c]>>)

StartResume(c) ==
    /\ last # NoFile /\ last.cfg = c
    /\ Resume(c, last.epoch + 1, last.step, last.weights)

\* "resume checkpoint config hash differs from the resolved run config"
ResumeMismatch(c) ==
    /\ pc = "idle"
    /\ ~HasResult
    /\ last # NoFile
    /\ last.cfg # c
    /\ verdict' = "failed"
    /\ UNCHANGED <<files, mem, pc, crashes, torn>>

Launch(c) ==
    \/ SkipCompleted(c)
    \/ RefuseOverwrite(c)
    \/ StartFresh(c)
    \/ StartResume(c)
    \/ ResumeMismatch(c)

-----------------------------------------------------------------------------
(* train(): before the epochs                                              *)

\* dump_resolved opens resolved_config.yaml for writing: it is truncated ...
OpenResolved ==
    /\ pc = "dump"
    /\ resolved' = Truncated
    /\ pc' = "dumping"
    /\ UNCHANGED <<last, best, metrics, selection, summary, mem, verdict,
                   crashes, torn>>

\* ... and complete when the file is closed.
CloseResolved ==
    /\ pc = "dumping"
    /\ resolved' = cfg
    /\ pc' = IF resumed THEN "epoch" ELSE "init_eval"
    /\ UNCHANGED <<last, best, metrics, selection, summary, mem, verdict,
                   crashes, torn>>

\* The initialization is the first candidate of a fresh run (epoch -1).
EvaluateInit ==
    /\ pc = "init_eval"
    /\ dev' = Dev(Outcome(weights))
    /\ pc' = "init_save"
    /\ UNCHANGED <<files, resumed, cfg, epoch, batch, pending, step, weights,
                   verdict, crashes, torn>>

SaveInit ==
    /\ pc = "init_save"
    /\ best' = [cfg |-> cfg, epoch |-> -1, step |-> 0, best |-> dev[1],
                weights |-> weights]
    /\ pc' = "init_metrics"
    /\ UNCHANGED <<last, metrics, selection, summary, resolved, mem, verdict,
                   crashes, torn>>

SaveInitMetrics ==
    /\ pc = "init_metrics"
    /\ metrics' = [epoch |-> -1, outcome |-> Outcome(weights)]
    /\ pc' = "epoch"
    /\ UNCHANGED <<last, best, selection, summary, resolved, mem, verdict,
                   crashes, torn>>

-----------------------------------------------------------------------------
(* train(): one epoch                                                      *)

\* optimizer.zero_grad at the head of the epoch; leaving the loop after the
\* last one.
StartEpoch ==
    /\ pc = "epoch"
    /\ epoch < Epochs
    /\ batch' = 0
    /\ pending' = 0
    /\ pc' = "batch"
    /\ UNCHANGED <<files, resumed, cfg, epoch, step, dev, weights, verdict,
                   crashes, torn>>

LeaveLoop(n) ==
    /\ pc = "epoch"
    /\ epoch >= n
    /\ pc' = "select"
    /\ UNCHANGED <<files, mem, verdict, crashes, torn>>

EndTrainingEarly == LeaveLoop(Epochs - 1)    \* variant: off by one

EndTraining == LeaveLoop(Epochs)

\* The accumulation window of a batch, and the divisor of its loss.
WindowStart(b) == (b \div Accum) * Accum
FullWindow(b) == Accum    \* variant: the last window taken for a full one
WindowSize(b) ==
    IF Accum < Batches - WindowStart(b) THEN Accum ELSE Batches - WindowStart(b)
UpdateStep(b) == (b + 1) % Accum = 0 \/ b + 1 = Batches

TrainBatch ==
    /\ pc = "batch"
    /\ batch' = batch + 1
    /\ IF UpdateStep(batch)
          THEN pending' = 0 /\ step' = step + 1
          ELSE pending' = pending + 1 /\ step' = step
    /\ pc' = IF batch + 1 = Batches THEN "eval" ELSE "batch"
    /\ UNCHANGED <<files, resumed, cfg, epoch, dev, weights, verdict, crashes,
                   torn>>

\* The weights of the epoch, whatever it learned, and their evaluation.
EvaluateEpoch ==
    /\ pc = "eval"
    /\ \E m \in Models : weights' = Append(weights, m)
    /\ pc' = "save_last"
    /\ UNCHANGED <<files, resumed, cfg, epoch, batch, pending, step, dev,
                   verdict, crashes, torn>>

Larger(a, b) == IF a > b THEN a ELSE b

\* last.pt is written before the comparison, with best_dev b.
SaveLastWith(b) ==
    /\ pc = "save_last"
    /\ last' = [cfg |-> cfg, epoch |-> epoch, step |-> step, best |-> b,
                weights |-> weights]
    /\ pc' = "compare"
    /\ UNCHANGED <<best, metrics, selection, summary, resolved, mem, verdict,
                   crashes, torn>>

\* Variant: best_dev before the comparison.
SaveLastOldBest == SaveLastWith(dev[1])

\* last.pt already records the improved best_dev: max(best_dev, dev_score).
SaveLast == SaveLastWith(Larger(dev[1], R1[Outcome(weights)]))

Improves == Better(Dev(Outcome(weights)), dev)

NewBest ==
    /\ pc = "compare"
    /\ Improves
    /\ dev' = Dev(Outcome(weights))
    /\ pc' = "save_best"
    /\ UNCHANGED <<files, resumed, cfg, epoch, batch, pending, step, weights,
                   verdict, crashes, torn>>

KeepBest ==
    /\ pc = "compare"
    /\ ~Improves
    /\ epoch' = epoch + 1
    /\ pc' = "epoch"
    /\ UNCHANGED <<files, resumed, cfg, batch, pending, step, dev, weights,
                   verdict, crashes, torn>>

SaveBest ==
    /\ pc = "save_best"
    /\ best' = [cfg |-> cfg, epoch |-> epoch, step |-> step, best |-> dev[1],
                weights |-> weights]
    /\ pc' = "save_metrics"
    /\ UNCHANGED <<last, metrics, selection, summary, resolved, mem, verdict,
                   crashes, torn>>

SaveMetrics ==
    /\ pc = "save_metrics"
    /\ metrics' = [epoch |-> epoch, outcome |-> Outcome(weights)]
    /\ epoch' = epoch + 1
    /\ pc' = "epoch"
    /\ UNCHANGED <<last, best, selection, summary, resolved, resumed, cfg,
                   batch, pending, step, dev, weights, verdict, crashes, torn>>

-----------------------------------------------------------------------------
(* train(): after the epochs, and the end of run_training                  *)

WriteSelection ==
    /\ pc = "select"
    /\ selection' = [best |-> dev[1], r5 |-> dev[2], checkpoint |-> best,
                     cfg |-> cfg, epoch |-> metrics.epoch]
    /\ pc' = "summarise"
    /\ UNCHANGED <<last, best, metrics, summary, resolved, mem, verdict,
                   crashes, torn>>

WriteSummary ==
    /\ pc = "summarise"
    /\ summary' = [steps |-> step, selection |-> selection]
    /\ pc' = "verify"
    /\ UNCHANGED <<last, best, metrics, selection, resolved, mem, verdict,
                   crashes, torn>>

\* The second elsc.provenance of run_training.
Verify ==
    /\ pc = "verify"
    /\ verdict' = IF Validates(cfg) THEN "validated" ELSE "failed"
    /\ pc' = "idle"
    /\ EmptyMemory
    /\ UNCHANGED <<files, crashes, torn>>

-----------------------------------------------------------------------------
\* The process dies before its next step; what it has renamed stays.
Crash ==
    /\ pc # "idle"
    /\ crashes < MaxCrashes
    /\ crashes' = crashes + 1
    /\ torn' = (torn \/ pc \in {"save_best", "save_metrics"}
                     \/ (pc = "compare" /\ Improves))
    /\ verdict' = "failed"
    /\ pc' = "idle"
    /\ EmptyMemory
    /\ UNCHANGED files

Step ==
    \/ OpenResolved \/ CloseResolved
    \/ EvaluateInit \/ SaveInit \/ SaveInitMetrics
    \/ StartEpoch \/ EndTraining
    \/ TrainBatch \/ EvaluateEpoch
    \/ SaveLast \/ NewBest \/ KeepBest \/ SaveBest \/ SaveMetrics
    \/ WriteSelection \/ WriteSummary \/ Verify

Next ==
    \/ ResourcesShort
    \/ \E c \in Configs : Launch(c)
    \/ Step
    \/ Crash

Spec == Init /\ [][Next]_vars

\* A live process keeps running, and the operator relaunches a run with every
\* configuration he keeps until the script stops changing its answer.
Fairness == WF_vars(Step) /\ \A c \in Configs : WF_vars(Launch(c))
FairSpec == Spec /\ Fairness
-----------------------------------------------------------------------------
(* Properties                                                              *)

\* The registered rule of provenance.json: the highest mean R1, ties broken by
\* mean R5 and then by the earlier epoch, among the first n candidates of the
\* path w.
FirstBest(w, n, k) ==
    /\ k \in 1..n
    /\ \A j \in 1..n :
          /\ ~Better(Dev(w[j]), Dev(w[k]))
          /\ j < k => Better(Dev(w[k]), Dev(w[j]))

RegisteredChoice(w, k) == FirstBest(w, Len(w), k)

\* a is the path b up to some candidate.
Prefix(a, b) == Len(a) <= Len(b) /\ \A i \in 1..Len(a) : a[i] = b[i]

\* selection.json names the checkpoint that the registered rule picks among
\* all candidates of the run, with that candidate's values and epoch.
SelectsRegistered ==
    selection # NoFile =>
        LET k == Len(selection.checkpoint.weights)
        IN  /\ RegisteredChoice(last.weights, k)
            /\ selection.best = R1[last.weights[k]]
            /\ selection.r5 = R5[last.weights[k]]
            /\ selection.epoch = k - 2
            /\ selection.checkpoint.epoch = k - 2

\* Any number of crashes and resumes leaves the selection the registered one,
\* as long as none falls between last.pt and best_dev_metrics.json of an epoch
\* that improved (train.py writes the three files one after the other).
SelectionFaithful == ~torn => SelectsRegistered

\* Wherever a crash falls, best_dev.pt holds weights the run really passed
\* through on its way to last.pt: never those of an epoch that was replayed
\* or of a fresh start that was given up.
BestOnPath ==
    last # NoFile =>
        /\ best # NoFile
        /\ best.cfg = last.cfg
        /\ Prefix(best.weights, last.weights)

\* Under one configuration no step, crash or resume ever replaces best_dev.pt
\* by a checkpoint of lower dev R1, even after best_dev_metrics.json went stale.
BestNeverRegresses ==
    [][(best # NoFile /\ best'.cfg = best.cfg)
          => R1[Outcome(best'.weights)] >= R1[Outcome(best.weights)]]_vars

\* "Exact resume" of the schedule: last.pt holds as many optimizer steps as an
\* uninterrupted run has taken by its epoch, and run_summary.json as many as
\* the scheduler was built for.
StepsExact ==
    /\ last # NoFile => last.step = (last.epoch + 1) * UpdatesPerEpoch
    /\ summary # NoFile => summary.steps = Epochs * UpdatesPerEpoch

\* An optimizer update closes a window holding exactly as many micro-batches
\* as the divisor of their losses, the short window at the end of an epoch
\* included.
WindowsFilled ==
    [][(pc = "batch" /\ step' > step)
          => pending + 1 = WindowSize(batch)]_vars

\* Once selection.json is there, no later launch, under whatever configuration,
\* touches the checkpoints it locks: that is what the refusal of run_training
\* and the order of the final writes are for.
SelectedRunFrozen ==
    [][selection # NoFile
          => UNCHANGED <<last, best, metrics, selection, resolved>>]_vars

\* The frozen selection, resolved_config.yaml and both checkpoints carry one
\* configuration, although every launch may bring another one and a refused
\* resume must not leave its configuration behind.
OneConfiguration ==
    selection # NoFile =>
        /\ resolved = selection.cfg
        /\ best.cfg = selection.cfg
        /\ last.cfg = selection.cfg

Complete == \E c \in Configs : Validates(c)

\* A process died between selection.json and run_summary.json: every later
\* launch refuses.
Wedged == pc = "idle" /\ selection # NoFile /\ summary = NoFile

\* However often it crashes (finitely), a run that is relaunched ends for good
\* validated or in the one state run_training refuses for ever.
Settles == <>[](Complete \/ Wedged)

\* What the run promises, abstractly (module DevSelection).
Promise == INSTANCE DevSelection WITH
    path   <- IF last = NoFile THEN <<>> ELSE last.weights,
    lost   <- torn,
    chosen <- IF selection = NoFile THEN 0
              ELSE Len(selection.checkpoint.weights)

\* The run implements the selection it promises: candidates are only added to
\* the path last.pt records, and one choice is made, once, from the whole path.
ImplementsSelection == Promise!Spec
-----------------------------------------------------------------------------
(* The inductive invariant behind the safety properties                    *)

\* Steps after the setup; steps of the epoch loop before its comparison, and
\* from last.pt to best_dev_metrics.json; steps after the loop.
Setup     == {"dump", "dumping"}
Initial   == {"init_eval", "init_save", "init_metrics"}
InEpoch   == {"batch", "eval", "save_last"}
Comparing == {"compare", "save_best", "save_metrics"}
Finishing == {"select", "summarise", "verify"}

\* What the files say of each other, whatever the process does.
FilesInv ==
    /\ best # NoFile => Len(best.weights) >= 1
    /\ (best # NoFile /\ last = NoFile) =>
          best.weights = <<InitModel[best.cfg]>>
    /\ last # NoFile =>
          /\ last.epoch \in 0..(Epochs - 1)
          /\ Len(last.weights) = last.epoch + 2
          /\ best # NoFile /\ metrics # NoFile
          /\ best.cfg = last.cfg
          /\ Prefix(best.weights, last.weights)
    /\ selection # NoFile =>
          /\ last # NoFile /\ last.epoch = Epochs - 1
          /\ selection.checkpoint = best
          /\ selection.cfg = last.cfg /\ resolved = last.cfg
    /\ summary # NoFile => selection # NoFile /\ summary.selection = selection

\* What the process holds at each of its steps.
MemoryInv ==
    /\ pc \notin {"idle", "summarise", "verify"} => selection = NoFile
    /\ pc = "summarise" => selection # NoFile /\ summary = NoFile
    /\ pc = "verify" => summary # NoFile
    /\ pc \notin {"idle"} \cup Setup => resolved = cfg
    /\ (pc \in Setup /\ ~resumed) \/ pc \in Initial =>
          /\ last = NoFile
          /\ epoch = 0
          /\ weights = <<InitModel[cfg]>>
    /\ pc \in Setup /\ resumed =>
          /\ last # NoFile /\ cfg = last.cfg
          /\ epoch = last.epoch + 1
          /\ weights = last.weights
          /\ dev = <<last.best, R5[metrics.outcome]>>
    /\ pc = "init_metrics" => best # NoFile /\ best.cfg = cfg
    /\ pc \in {"epoch"} \cup InEpoch =>
          /\ best # NoFile /\ metrics # NoFile /\ best.cfg = cfg
          /\ Prefix(best.weights, weights)
          /\ epoch <= Epochs /\ (pc # "epoch" => epoch < Epochs)
          /\ Len(weights) = epoch + (IF pc = "save_last" THEN 2 ELSE 1)
          /\ IF epoch = 0
                THEN last = NoFile
                ELSE /\ last # NoFile /\ last.epoch = epoch - 1
                     /\ last.cfg = cfg
                     /\ IF pc = "save_last"
                           THEN weights = Append(last.weights, Outcome(weights))
                           ELSE weights = last.weights
    /\ pc \in Comparing =>
          /\ last # NoFile
          /\ last.epoch = epoch /\ last.weights = weights /\ last.cfg = cfg
    /\ pc \in Finishing =>
          /\ last # NoFile
          /\ last.epoch = Epochs - 1 /\ last.weights = weights
          /\ last.cfg = cfg

\* While a process runs, and on disk, the recorded best value never falls below
\* the R1 of best_dev.pt.
BestCovered ==
    /\ last # NoFile => last.best >= R1[Outcome(best.weights)]
    /\ pc \in {"init_save", "init_metrics"} => dev[1] = R1[InitModel[cfg]]
    /\ pc \in {"epoch"} \cup InEpoch \cup Comparing =>
          dev[1] >= R1[Outcome(best.weights)]
    /\ pc \in Comparing => last.best >= R1[Outcome(weights)]
    /\ pc \in {"save_best", "save_metrics"} => dev = Dev(Outcome(weights))

\* best_dev.pt and best_dev_metrics.json are the registered choice among the
\* first n candidates of w.
Records(w, n) ==
    LET k == Len(best.weights)
    IN  /\ FirstBest(w, n, k)
        /\ best.epoch = k - 2
        /\ metrics = [epoch |-> k - 2, outcome |-> w[k]]

ChoiceInv ==
    /\ pc \in {"init_save", "init_metrics"} => dev = Dev(InitModel[cfg])
    /\ pc = "init_metrics" =>
          best.epoch = -1 /\ best.weights = <<InitModel[cfg]>>
    /\ last # NoFile /\ pc \notin Comparing =>
          /\ Records(last.weights, Len(last.weights))
          /\ last.best = R1[metrics.outcome]
    /\ pc \in {"epoch", "compare", "select"} \cup InEpoch =>
          dev = Dev(metrics.outcome)
    /\ pc \in {"epoch", "compare"} \cup InEpoch =>
          Records(weights, epoch + 1)
    /\ pc = "compare" => last.best = Larger(dev[1], R1[Outcome(weights)])
    /\ pc \in {"save_best", "save_metrics"} =>
          /\ FirstBest(weights, epoch + 2, epoch + 2)
          /\ last.best = dev[1]
    /\ pc = "save_metrics" =>
          best.weights = weights /\ best.epoch = epoch
    /\ selection # NoFile =>
          /\ selection.best = R1[metrics.outcome]
          /\ selection.r5 = R5[metrics.outcome]
          /\ selection.epoch = metrics.epoch

\* Optimizer steps at the head of every batch, epoch and file.
StepInv ==
    /\ last # NoFile => last.step = (last.epoch + 1) * UpdatesPerEpoch
    /\ summary # NoFile => summary.steps = Epochs * UpdatesPerEpoch
    /\ pc \in Setup \cup Initial \cup {"epoch"} \cup Finishing =>
          step = epoch * UpdatesPerEpoch
    /\ pc = "batch" =>
          /\ batch < Batches
          /\ pending = batch % Accum
          /\ step = epoch * UpdatesPerEpoch + batch \div Accum
    /\ pc \in {"eval", "save_last"} \cup Comparing =>
          step = (epoch + 1) * UpdatesPerEpoch
    /\ pc \in Finishing => epoch = Epochs

\* The inductive invariant.
RunInv ==
    /\ TypeOK /\ FilesInv /\ MemoryInv /\ BestCovered
    /\ ~torn => ChoiceInv
    /\ StepInv
=============================================================================
