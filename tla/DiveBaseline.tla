---------------------------- MODULE DiveBaseline ----------------------------
(***************************************************************************)
(* train_seds_baseline (methods/dive/src/dive/baseline_training.py) and    *)
(* the checkpoints of training/state.py.  A checkpoint names the best      *)
(* epoch by the hashes of its two files, which are written beside the      *)
(* published ones first and put in their place once the checkpoint is      *)
(* there; a hash is modelled by the version of the file.                   *)
(***************************************************************************)
EXTENDS Trainer

\* A file whose writing was cut: the version of no epoch.
Torn == [epoch |-> 0, try |-> 0]

Files == {"latest", "sidecar", "model", "modelPending", "scores", "scoresPending",
          "progress", "report"}
Checkpoints == [epoch : 1..Epochs, best : Version, try : 0..MaxKills]

Init ==
    /\ Begin
    /\ disk = [f \in Files \cup {"registered"} |-> None]

Fresh(e, best) == [epoch |-> e, best |-> best, improved |-> FALSE]

\* A fresh launch finds nothing of an earlier one.
NothingThere == \A f \in Files : disk[f] = None

Start ==
    /\ NothingThere
    /\ Step("down", "train")
    /\ mem' = Fresh(1, None) /\ UNCHANGED disk

Loadable == disk.latest # None /\ disk.sidecar = disk.latest

Resume ==
    /\ Loadable
    /\ Step("down", "resumeModel")
    /\ mem' = Fresh(disk.latest.epoch, disk.latest.best) /\ UNCHANGED disk

\* _repair_best_output: the file is the expected one, or its pending copy is.
Repair(file, pending, from, to) ==
    /\ pc = from
    /\ IF mem.best \in {disk[file], disk[pending]}
          THEN /\ Step(from, to)
               /\ disk' = [disk EXCEPT ![file] = mem.best, ![pending] = None]
               /\ UNCHANGED mem
          ELSE Step(from, "down") /\ Dies

\* Variant: a resumed process accepts only the published model.
RepairModelPublished ==
    /\ pc = "resumeModel"
    /\ IF mem.best = disk.model THEN Step("resumeModel", "resumeScores") /\ Silent
                                ELSE Step("resumeModel", "down") /\ Dies

RepairModel == Repair("model", "modelPending", "resumeModel", "resumeScores")
RepairScores == Repair("scores", "scoresPending", "resumeScores", "resumed")

\* A checkpoint of the last epoch is refused: nothing is left to train.
Continue ==
    /\ pc = "resumed"
    /\ IF mem.epoch < Epochs
          THEN /\ Step("resumed", "train")
               /\ mem' = [mem EXCEPT !.epoch = @ + 1] /\ UNCHANGED disk
          ELSE Step("resumed", "down") /\ Dies

\* Variant: a tie goes to the later epoch.
NotWorse(new, best) == best = None \/ new >= score[best.epoch]

Improved(new, best) == best = None \/ new > score[best.epoch]

TrainEpoch ==
    \E new \in Scores :
        LET better == Improved(new, mem.best) IN
        /\ Evaluates("train", IF better THEN "pendModel" ELSE "saveLatest", mem.epoch, new)
        /\ mem' = [mem EXCEPT !.improved = better] /\ UNCHANGED disk

PendModel ==
    /\ Step("pendModel", "pendScores")
    /\ Writes("modelPending", Written(mem.epoch))

PendScores ==
    /\ Step("pendScores", "saveLatest")
    /\ disk' = [disk EXCEPT !.scoresPending = Written(mem.epoch)]
    /\ mem' = [mem EXCEPT !.best = Written(mem.epoch)]

SaveLatest ==
    /\ Step("saveLatest", "saveSidecar")
    /\ Writes("latest", [epoch |-> mem.epoch, best |-> mem.best, try |-> kills])

SaveSidecar ==
    /\ Step("saveSidecar", IF mem.improved THEN "promoteModel" ELSE "progress")
    /\ Writes("sidecar", disk.latest)

PromoteModel == Repair("model", "modelPending", "promoteModel", "promoteScores")
PromoteScores == Repair("scores", "scoresPending", "promoteScores", "progress")

Progress ==
    /\ Step("progress", IF mem.epoch < Epochs THEN "train" ELSE "report")
    /\ disk' = [disk EXCEPT !.progress = mem.epoch]
    /\ mem' = [mem EXCEPT !.epoch = IF @ < Epochs THEN @ + 1 ELSE @]

Report == Step("report", "register") /\ Writes("report", mem.best)

\* record_stage hashes the files that are there.
Register ==
    /\ Step("register", "done")
    /\ Writes("registered", [f \in Files |-> disk[f]])

\* A pending model is written in place.
Kill == Cut(IF pc = "pendModel" THEN {[disk EXCEPT !.modelPending = Torn]} ELSE {})

Work == \/ Start \/ Resume \/ RepairModel \/ RepairScores \/ Continue \/ TrainEpoch
        \/ PendModel \/ PendScores \/ SaveLatest \/ SaveSidecar
        \/ PromoteModel \/ PromoteScores \/ Progress \/ Report \/ Register
Next == Work \/ Kill

(***************************************************************************)
(* Properties                                                              *)
(***************************************************************************)
Committed == IF disk.latest = None THEN 0 ELSE disk.latest.epoch
Result == IF disk.registered = None THEN None ELSE disk.registered.model.epoch

\* The two best outputs can be had from what a checkpoint that loads names, and
\* what is registered is of one version, with the progress of the last epoch.
Whole ==
    /\ Loadable => /\ disk.latest.best \in {disk.model, disk.modelPending}
                   /\ disk.latest.best \in {disk.scores, disk.scoresPending}
    /\ disk.registered # None =>
          LET r == disk.registered IN
          /\ r.scores = r.model /\ r.report = r.model /\ r.latest.best = r.model
          /\ r.progress = Epochs /\ r.sidecar = r.latest /\ r.latest.epoch = Epochs

Refused == pc = "down" /\ ~NothingThere /\ (Loadable => disk.latest.epoch = Epochs)

\* Nothing is left to launch only after a death before the first checkpoint,
\* between a checkpoint and its hash, or after the last checkpoint.
Obstacle ==
    Refused /\ \/ disk.latest = None
               \/ \E e \in 1..Epochs : <<"saveSidecar", e>> \in cuts
               \/ disk.latest.epoch = Epochs

Finished == pc = "done"
=============================================================================
