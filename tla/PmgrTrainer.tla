----------------------------- MODULE PmgrTrainer -----------------------------
(***************************************************************************)
(* train (methods/pmgr/src/pmgr/train.py), its checkpoints, and run_arm of *)
(* the queue script that launches it.  last.pt is replaced after every     *)
(* update but the last one of an epoch, where the validation enters the    *)
(* same checkpoint; a launch may be limited to a number of updates.        *)
(* Epochs are counted from 1; a checkpoint names the epoch and the batch   *)
(* that come next.  The summary says whether the scores of the last batch  *)
(* were computed again from the checkpoint: only a launch that has trained *)
(* a batch can tell.                                                       *)
(***************************************************************************)
EXTENDS Trainer

CONSTANTS Batches, EveryEpochs

Validated(e) == e % EveryEpochs = 0

Init ==
    /\ Begin
    /\ disk = [last |-> None, best |-> None, metrics |-> None, summary |-> None]

Positions == [epoch : 1..Epochs + 1, cursor : 0..Batches - 1, best : Maybe(1..Epochs)]
Position == [epoch |-> mem.epoch, cursor |-> mem.cursor, best |-> mem.best]

Summaries == [status : {"max_updates_reached", "training_complete"},
              best : Maybe(1..Epochs), parity : BOOLEAN]

Limits == {None} \cup 1..(Epochs * Batches)

\* validate_run of the queue.
RunValid ==
    /\ disk.metrics # None
    /\ disk.summary # None /\ disk.summary.status = "training_complete"
    /\ disk.summary.parity

SkipComplete == RunValid /\ Step("down", "done") /\ Silent

\* The queue resumes from last.pt when there is one; a launch by hand may be
\* limited, and counts as an interruption.
Launch(position, limit) ==
    /\ limit # None => kills < MaxKills
    /\ pc = "down" /\ ~RunValid
    /\ pc' = IF position.epoch <= Epochs THEN "update" ELSE "final"
    /\ mem' = [epoch |-> position.epoch, cursor |-> position.cursor, best |-> position.best,
               limit |-> limit, stop |-> FALSE, updated |-> FALSE]
    /\ kills' = IF limit = None THEN kills ELSE kills + 1
    /\ UNCHANGED <<score, disk, cuts>>

Start(limit) ==
    disk.last = None /\ Launch([epoch |-> 1, cursor |-> 0, best |-> None], limit)
Resume(limit) == disk.last # None /\ Launch(disk.last, limit)

Updates == (mem.epoch - 1) * Batches + mem.cursor

NextPosition == IF mem.cursor + 1 = Batches THEN [epoch |-> mem.epoch + 1, cursor |-> 0]
                                   ELSE [epoch |-> mem.epoch, cursor |-> mem.cursor + 1]

AfterEpoch(e) == IF e < Epochs THEN "update" ELSE "final"

\* One optimizer update; an ordinary epoch boundary is not saved before it is
\* validated.
Update ==
    LET reached == mem.limit # None /\ Updates + 1 >= mem.limit
        boundary == mem.cursor + 1 = Batches
    IN  /\ Step("update", IF reached \/ ~boundary THEN "saveUpdate"
                          ELSE IF Validated(mem.epoch) THEN "validate"
                          ELSE AfterEpoch(mem.epoch))
        /\ mem' = [mem EXCEPT !.epoch = NextPosition.epoch, !.cursor = NextPosition.cursor,
                              !.stop = reached, !.updated = TRUE]
        /\ UNCHANGED disk

\* The launch that reaches its limit at the end of an epoch does not validate it.
SaveUpdate ==
    /\ pc = "saveUpdate"
    /\ pc' = IF mem.stop THEN "final" ELSE "update"
    /\ disk' = [disk EXCEPT !.last = Position]
    /\ cuts' = IF mem.stop /\ mem.cursor = 0 THEN cuts \cup {<<"limit", mem.epoch - 1>>}
                                             ELSE cuts
    /\ UNCHANGED <<score, mem, kills>>

Validate ==
    \E new \in Scores :
        LET better == Improves(new, mem.best) IN
        /\ Evaluates("validate", IF better THEN "saveBest" ELSE "saveEpoch", mem.epoch - 1, new)
        /\ mem' = [mem EXCEPT !.best = IF better THEN mem.epoch - 1 ELSE @]
        /\ UNCHANGED disk

SaveBest == Step("saveBest", "saveMetrics") /\ Writes("best", mem.best)
SaveMetrics == Step("saveMetrics", "saveEpoch") /\ Writes("metrics", mem.best)
SaveEpoch == Step("saveEpoch", AfterEpoch(mem.epoch - 1)) /\ Writes("last", Position)

SaveFinal == Step("final", "summary") /\ Writes("last", Position)

Summary ==
    /\ Step("summary", IF mem.stop THEN "down" ELSE "judge")
    /\ disk' = [disk EXCEPT !.summary =
                   [status |-> IF mem.stop THEN "max_updates_reached" ELSE "training_complete",
                    best |-> mem.best, parity |-> mem.updated]]
    /\ mem' = IF mem.stop THEN None ELSE mem

\* The queue ends with a run that does not validate.
Judge == IF RunValid THEN Step("judge", "done") /\ Silent ELSE Step("judge", "down") /\ Dies

Kill == Cut({})

Work == \/ \E limit \in Limits : (Start(limit) \/ Resume(limit))
        \/ Update \/ SaveUpdate \/ Validate \/ SaveBest \/ SaveMetrics \/ SaveEpoch
        \/ SaveFinal \/ Summary \/ Judge \/ SkipComplete
Next == Work \/ Kill

(***************************************************************************)
(* Properties                                                              *)
(***************************************************************************)
Committed == IF disk.last = None THEN 0 ELSE disk.last.epoch - 1
Complete == disk.summary # None /\ disk.summary.status = "training_complete"
Result == IF Complete THEN disk.summary.best ELSE None

Candidates == {e \in 1..Epochs : Validated(e)}

\* Epochs whose end was saved by a launch that had reached its limit.
Missed == {e \in 1..Epochs : Validated(e) /\ <<"limit", e>> \in cuts}

\* Epochs whose best_dev.pt was written by a launch that was killed before it saved
\* last.pt: they are trained again, and may then not be the best, or not be validated.
Lost == {e \in 1..Epochs : {<<"saveMetrics", e + 1>>, <<"saveEpoch", e + 1>>} \cap cuts # {}}
Under(points) == IF pc \in points THEN {mem.best} ELSE {}

\* best_dev.pt and its metrics are of the epoch last.pt counts on, or of a later one
\* that is on its way into it or was lost; a summary agrees with last.pt.
Whole ==
    /\ (disk.last # None /\ disk.last.best # None) =>
          LET kept == {disk.last.best} \cup {e \in Lost : e > disk.last.best} IN
          /\ disk.best \in kept \cup Under({"saveMetrics", "saveEpoch"})
          /\ disk.metrics \in kept \cup Under({"saveEpoch"})
    /\ Complete => disk.last.epoch = Epochs + 1 /\ disk.last.best = disk.summary.best

Finished == pc = "done"

\* A launch that finds nothing left to train never passes: the one before it was
\* killed, or reached its limit, between the last checkpoint and its summary, or
\* there are no metrics, since every validation was missed.
Obstacle ==
    /\ ~RunValid /\ disk.last # None /\ disk.last.epoch > Epochs
    /\ pc = "down" \/ ~mem.updated
    /\ \/ {<<"final", Epochs + 1>>, <<"summary", Epochs + 1>>} \cap cuts # {}
       \/ <<"limit", Epochs>> \in cuts
       \/ \A e \in 1..Epochs : Validated(e) => e \in Missed
=============================================================================
