--------------------------- MODULE OcemAdaptation ---------------------------
(***************************************************************************)
(* run_p14t_i3d_adaptation (methods/ocem/src/ocem/training/                *)
(* adaptation_run.py): a fixed number of epochs, the last one selected in  *)
(* advance; after each epoch the checkpoint, the metrics of all epochs, at *)
(* intervals a snapshot, and a report that says RUNNING, FAIL_TECHNICAL or *)
(* PASS.  Metrics are modelled by the number of epochs in them.            *)
(***************************************************************************)
EXTENDS Trainer

CONSTANT SnapshotInterval

Init ==
    /\ Begin
    /\ disk = [latest |-> None, metrics |-> 0, snapshots |-> {}, final |-> None,
               report |-> [status |-> "none", completed |-> 0]]

Report(status, completed) == [status |-> status, completed |-> completed]

\* The report of the launch says RUNNING before anything is trained.
Launch(epoch) ==
    /\ Step("down", IF epoch < Epochs THEN "train" ELSE "final")
    /\ mem' = [epoch |-> IF epoch < Epochs THEN epoch + 1 ELSE Epochs,
               completed |-> epoch]
    /\ disk' = [disk EXCEPT !.report = Report("RUNNING", epoch)]

Start == disk.latest = None /\ disk.metrics = 0 /\ Launch(0)
Resume == disk.latest # None /\ Launch(disk.latest)

SaveLatest == Step("train", "metrics") /\ Writes("latest", mem.epoch)

AfterMetrics(e) == IF e % SnapshotInterval = 0 THEN "snapshot" ELSE "report"

SaveMetrics == Step("metrics", AfterMetrics(mem.epoch)) /\ Writes("metrics", mem.epoch)

Snapshot ==
    Step("snapshot", "report") /\ Writes("snapshots", disk.snapshots \cup {disk.latest})

SaveReport ==
    /\ Step("report", IF mem.epoch < Epochs THEN "train" ELSE "final")
    /\ disk' = [disk EXCEPT !.report = Report("RUNNING", mem.epoch)]
    /\ mem' = [epoch |-> IF mem.epoch < Epochs THEN mem.epoch + 1 ELSE Epochs,
               completed |-> mem.epoch]

CopyFinal == Step("final", "pass") /\ Writes("final", disk.latest)

\* The hash of the metrics is part of the report: they must be there.
Pass ==
    /\ disk.metrics > 0
    /\ Step("pass", "done")
    /\ Writes("report", Report("PASS", mem.completed))

\* An exception is recorded before the process ends.
Fail ==
    /\ pc \notin {"down", "done"} /\ kills < MaxKills
    /\ pc' = "down" /\ mem' = None
    /\ disk' = [disk EXCEPT !.report = Report("FAIL_TECHNICAL", mem.completed)]
    /\ kills' = kills + 1
    /\ cuts' = cuts \cup {<<pc, mem.epoch>>}
    /\ UNCHANGED score

Kill == Cut({})

Work == Start \/ Resume \/ SaveLatest \/ SaveMetrics \/ Snapshot \/ SaveReport
        \/ CopyFinal \/ Pass
Next == Work \/ Fail \/ Kill

(***************************************************************************)
(* Properties                                                              *)
(***************************************************************************)
Committed == IF disk.latest = None THEN 0 ELSE disk.latest
Result == IF disk.report.status = "PASS" THEN disk.final ELSE None

CutAfterSave(e) == {<<"metrics", e>>, <<"snapshot", e>>} \cap cuts # {}

\* A report never counts an epoch that is not in the checkpoint; a run that
\* passed has all its metrics and snapshots, but for those of an epoch whose
\* process ended between its checkpoint and its report.
Whole ==
    /\ disk.report.completed <= Committed
    /\ disk.report.status = "PASS" =>
          /\ disk.latest = Epochs /\ disk.report.completed = Epochs
          /\ disk.metrics = Epochs \/ <<"metrics", Epochs>> \in cuts
          /\ \A e \in 1..Epochs :
                e % SnapshotInterval = 0 => e \in disk.snapshots \/ CutAfterSave(e)

\* The metrics are missing when the only epoch was cut.
Obstacle == pc = "pass" /\ disk.metrics = 0

Finished == pc = "done"
=============================================================================
