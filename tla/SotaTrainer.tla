----------------------------- MODULE SotaTrainer -----------------------------
(***************************************************************************)
(* main of methods/sota_slret/src/train.py under queue.sh and watchdog.sh, *)
(* which start it again until DONE.json is there.  The best model and its  *)
(* scores are written in place, before the epoch enters resume.pt.  The    *)
(* best score in resume.pt and DONE.json is modelled by the epoch it is    *)
(* of; val stands for the score matrices and best_val.json, which are      *)
(* written one after the other: it is torn when only some of them are.     *)
(***************************************************************************)
EXTENDS Trainer

CONSTANT EveryEpochs

\* A file whose writing was cut: the version of no epoch.
Torn == [epoch |-> 0, try |-> 0]

Resumes == [epoch : 1..Epochs, best : Maybe(1..Epochs)]

Evaluated(e) == e % EveryEpochs = 0 \/ e = Epochs

Init ==
    /\ Begin
    /\ disk = [model |-> None, val |-> None, resume |-> None, last |-> None, done |-> None,
               log |-> [e \in 1..Epochs |-> 0]]

\* The epoch after the one in resume.pt, or the first.
Launch(epoch, best) ==
    /\ disk.done = None
    /\ Step("down", IF epoch <= Epochs THEN "train" ELSE "last")
    /\ mem' = [epoch |-> epoch, best |-> best] /\ UNCHANGED disk

Start == disk.resume = None /\ Launch(1, None)
Resume == disk.resume # None /\ Launch(disk.resume.epoch + 1, disk.resume.best)

\* The scripts ask only whether the file is there.
SkipDone == disk.done # None /\ Step("down", "done") /\ Silent

Train == Step("train", "log") /\ ~Evaluated(mem.epoch) /\ Silent

TrainAndEvaluate ==
    /\ pc = "train" /\ Evaluated(mem.epoch)
    /\ \E new \in Scores :
          LET better == Improves(new, mem.best) IN
          /\ Evaluates("train", IF better THEN "model" ELSE "log", mem.epoch, new)
          /\ mem' = [mem EXCEPT !.best = IF better THEN mem.epoch ELSE @]
    /\ UNCHANGED disk

SaveModel == Step("model", "val") /\ Writes("model", Written(mem.epoch))
SaveScores == Step("val", "log") /\ Writes("val", Written(mem.epoch))
AppendLog == Step("log", "resume") /\ Writes("log", [disk.log EXCEPT ![mem.epoch] = @ + 1])

SaveResume ==
    /\ Step("resume", IF mem.epoch < Epochs THEN "train" ELSE "last")
    /\ disk' = [disk EXCEPT !.resume = [epoch |-> mem.epoch, best |-> mem.best]]
    /\ mem' = [mem EXCEPT !.epoch = @ + 1]

SaveLastModel == Step("last", "mark") /\ Writes("last", Written(mem.epoch - 1))
MarkDone == Step("mark", "clear") /\ Writes("done", Written(mem.best))
RemoveResume == Step("clear", "done") /\ Writes("resume", None)

Kill ==
    Cut(CASE pc = "model" -> {[disk EXCEPT !.model = Torn]}
          [] pc = "val"   -> {[disk EXCEPT !.val = Torn]}
          [] pc = "last"  -> {[disk EXCEPT !.last = Torn]}
          [] pc = "mark"  -> {[disk EXCEPT !.done = Torn]}
          [] OTHER        -> {})

Work == \/ Start \/ Resume \/ SkipDone \/ Train \/ TrainAndEvaluate
        \/ SaveModel \/ SaveScores \/ AppendLog \/ SaveResume \/ SaveLastModel \/ MarkDone \/ RemoveResume
Next == Work \/ Kill

(***************************************************************************)
(* Properties                                                              *)
(***************************************************************************)
Candidates == {e \in 1..Epochs : Evaluated(e)}

Committed ==
    IF disk.done # None THEN Epochs
    ELSE IF disk.resume # None THEN disk.resume.epoch ELSE 0

\* The best epoch on record; a torn DONE.json has resume.pt beside it.
Best == IF disk.resume # None THEN disk.resume.best
        ELSE IF disk.done # None THEN disk.done.epoch ELSE None
Result == IF disk.done = None THEN None ELSE Best

\* Epochs that a launch which was killed before resume.pt may have begun to write a
\* best model of: they are trained again, and may then not be the best.
Lost == {e \in 1..Epochs : ({"model", "val", "log", "resume"} \X {e}) \cap cuts # {}}

Under(points) == IF pc \in points /\ mem.best = mem.epoch THEN {mem.best} ELSE {}

\* The best model and its scores are those of the best epoch on record, or of a later
\* one that is on its way there or was lost (torn ones included: the rerun of a lost
\* epoch need not write them again).  An epoch is in the log as soon as it is in
\* resume.pt, and twice only after a death in between.
Whole ==
    /\ Best # None =>
          LET later == {e \in Lost : e > Best}
              kept == {Best} \cup later \cup (IF later = {} THEN {} ELSE {Torn.epoch}) IN
          /\ disk.model.epoch \in kept \cup Under({"val", "log", "resume"})
          /\ disk.val.epoch \in kept \cup Under({"log", "resume"})
    /\ \A e \in 1..Epochs : /\ e <= Committed => disk.log[e] > 0
                            /\ disk.log[e] > 1 => <<"resume", e>> \in cuts
    /\ disk.done # None => disk.last.epoch = Epochs

Finished == pc = "done"
=============================================================================
