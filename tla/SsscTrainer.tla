----------------------------- MODULE SsscTrainer -----------------------------
(***************************************************************************)
(* train_stage (methods/sssc/method1/train_pipeline.py), the selection     *)
(* lock of selection.py and the test evaluation of inference.py.  last.pt  *)
(* is replaced every CheckpointEvery updates and after each evaluation;    *)
(* the best epoch so far is the one in best_dev.pt, also for a resumed     *)
(* process.  Each checkpoint is a file of its own bytes: they contain the  *)
(* random name it was first written under.                                 *)
(***************************************************************************)
EXTENDS Trainer

CONSTANTS Batches, CheckpointEvery

\* A test evaluation: how far it is, and the checkpoint it has loaded.
Test(stage, of) == [stage |-> stage, of |-> of]
NoTest == Test("none", None)

Init ==
    /\ Begin
    /\ disk = [last |-> None, best |-> None, marker |-> FALSE,
               lock |-> None, observed |-> None, test |-> NoTest]

Positions == [epoch : 1..Epochs + 1, batch : 0..Batches - 1]
Checkpoints == [epoch : 1..Epochs, complete : BOOLEAN, try : 0..MaxKills]

Updates(position) == (position.epoch - 1) * Batches + position.batch
Planned == Epochs * Batches
After(e, b) == IF b = Batches THEN [epoch |-> e + 1, batch |-> 0] ELSE [epoch |-> e, batch |-> b]

Epoch(file) == IF file = None THEN None ELSE file.epoch

\* A resumed process reads the best epoch from best_dev.pt.
Launch(position) ==
    /\ Step("down", IF Updates(position) = Planned THEN "markBest" ELSE "update")
    /\ mem' = [epoch |-> position.epoch, batch |-> position.batch, best |-> Epoch(disk.best)]
    /\ UNCHANGED disk

Start == disk.last = None /\ Launch([epoch |-> 1, batch |-> 0])
Resume == disk.last # None /\ Launch(disk.last)

Periodic == Updates(mem) % CheckpointEvery = 0

AfterUpdate(b) == IF b = Batches THEN "evaluate" ELSE "update"

Update ==
    LET made == [mem EXCEPT !.batch = @ + 1] IN
    /\ Step("update", IF Updates(made) % CheckpointEvery = 0 THEN "periodic"
                      ELSE AfterUpdate(made.batch))
    /\ mem' = made /\ UNCHANGED disk

\* The periodic checkpoint at the end of an epoch is already past it.
SavePeriodic ==
    /\ Step("periodic", AfterUpdate(mem.batch))
    /\ Writes("last", After(mem.epoch, mem.batch))

SaveEpoch ==
    /\ \E new \in Scores :
          Evaluates("evaluate", IF Improves(new, mem.best) THEN "saveBest" ELSE "next",
                    mem.epoch, new)
    /\ Writes("last", After(mem.epoch, mem.batch))

Checkpoint(e, complete) == [epoch |-> e, complete |-> complete, try |-> kills]

SaveBest ==
    /\ Step("saveBest", "next")
    /\ disk' = [disk EXCEPT !.best = Checkpoint(mem.epoch, FALSE)]
    /\ mem' = [mem EXCEPT !.best = mem.epoch]

NextEpoch ==
    /\ Step("next", IF mem.epoch < Epochs THEN "update" ELSE "markBest")
    /\ mem' = IF mem.epoch < Epochs THEN [mem EXCEPT !.epoch = @ + 1, !.batch = 0] ELSE mem
    /\ UNCHANGED disk

\* The best checkpoint is rewritten as one of a complete run, then the last one.
MarkBest ==
    /\ Step("markBest", "marker")
    /\ Writes("best", IF disk.best = None THEN None ELSE Checkpoint(disk.best.epoch, TRUE))

Mark == Step("marker", "done") /\ Writes("marker", TRUE)

Kill == Cut({})

(***************************************************************************)
(* The selection lock and the one test evaluation, in other processes      *)
(***************************************************************************)
Beside == UNCHANGED <<score, pc, mem, kills, cuts>>

\* Variant: a checkpoint that is selected so far is locked.
LockableEarly == disk.best # None

Lockable == disk.best # None /\ disk.best.complete

CreateLock ==
    /\ disk.lock = None /\ Lockable
    /\ disk' = [disk EXCEPT !.lock = disk.best] /\ Beside

LockHolds == disk.lock # None /\ disk.lock = disk.best /\ disk.observed = None

ValidateLock ==
    /\ disk.test = NoTest /\ LockHolds
    /\ disk' = [disk EXCEPT !.test = Test("validated", None)] /\ Beside

Evaluate ==
    /\ disk.test.stage = "validated"
    /\ disk' = [disk EXCEPT !.test = Test("evaluated", disk.best)] /\ Beside

\* The lock is validated again before it is consumed.
RecordObservation ==
    /\ disk.test.stage = "evaluated"
    /\ disk' = [disk EXCEPT !.test = NoTest,
                            !.observed = IF LockHolds THEN disk.test.of ELSE @]
    /\ Beside

Work == \/ Start \/ Resume \/ Update \/ SavePeriodic \/ SaveEpoch \/ SaveBest
        \/ NextEpoch \/ MarkBest \/ Mark
Next == Work \/ Kill \/ CreateLock \/ ValidateLock \/ Evaluate \/ RecordObservation

(***************************************************************************)
(* Properties                                                              *)
(***************************************************************************)
\* An epoch is not over while the process that has saved its last update evaluates it.
Committed ==
    IF pc = "evaluate" THEN mem.epoch - 1
    ELSE IF disk.last = None THEN 0 ELSE disk.last.epoch - 1
Result == IF disk.marker THEN Epoch(disk.best) ELSE None

\* Epochs whose end was in last.pt when the process died before it had compared
\* their scores, or had written the checkpoint of the better one.
Missed == {e \in 1..Epochs :
              \/ <<"saveBest", e>> \in cuts
              \/ <<"evaluate", e>> \in cuts /\ (e * Batches) % CheckpointEvery = 0}

\* A complete checkpoint is of a run all of whose epochs are committed; what is
\* locked was complete, what was tested is what is locked.
Whole ==
    /\ disk.best # None /\ disk.best.complete => Committed = Epochs
    /\ disk.lock # None => disk.lock.epoch = Epoch(disk.best) /\ Committed = Epochs
    /\ disk.observed # None => disk.observed = disk.lock
    /\ disk.marker => disk.best = None \/ disk.best.complete

Finished == pc = "done"
=============================================================================
