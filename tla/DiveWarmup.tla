----------------------------- MODULE DiveWarmup -----------------------------
(***************************************************************************)
(* run_evidence_warmup (methods/dive/src/dive/training/warmup.py): one     *)
(* checkpoint and one hash per epoch; when all epochs are there the        *)
(* checkpoint of the earliest best is loaded and exported.  A checkpoint   *)
(* holds the candidates of all epochs up to its own.                       *)
(***************************************************************************)
EXTENDS Trainer

Init ==
    /\ Begin
    /\ disk = [ckpt |-> [e \in 1..Epochs |-> None], hash |-> [e \in 1..Epochs |-> None],
               reference |-> None, referenceHash |-> None, selection |-> None]

Saved == {e \in 1..Epochs : disk.ckpt[e] # None}
Latest == CHOOSE e \in Saved : \A f \in Saved : f <= e
Verified(e) == disk.ckpt[e] # None /\ disk.hash[e] = disk.ckpt[e]

StartEmpty == Saved = {} /\ disk.reference = None

Start ==
    /\ StartEmpty
    /\ Step("down", "train")
    /\ mem' = [epoch |-> 1, winner |-> None] /\ UNCHANGED disk

\* Only the checkpoint with the highest number is tried.
Resumable == Saved # {} /\ Verified(Latest)

NextEpoch(e) == IF e < Epochs THEN "train" ELSE "choose"

Resume ==
    /\ Resumable
    /\ Step("down", NextEpoch(Latest))
    /\ mem' = [epoch |-> IF Latest < Epochs THEN Latest + 1 ELSE Epochs, winner |-> None]
    /\ UNCHANGED disk

SaveCheckpoint ==
    /\ \E new \in Scores : Evaluates("train", "saveHash", mem.epoch, new)
    /\ Writes("ckpt", [disk.ckpt EXCEPT ![mem.epoch] = Written(mem.epoch)])

SaveHash ==
    /\ Step("saveHash", NextEpoch(mem.epoch))
    /\ disk' = [disk EXCEPT !.hash[mem.epoch] = disk.ckpt[mem.epoch]]
    /\ mem' = [mem EXCEPT !.epoch = IF @ < Epochs THEN @ + 1 ELSE @]

Winner == EarliestBest(1..Epochs)

Choose ==
    IF Verified(Winner)
    THEN /\ Step("choose", "export")
         /\ mem' = [mem EXCEPT !.winner = disk.hash[Winner]] /\ UNCHANGED disk
    ELSE Step("choose", "down") /\ Dies

ExportReference == Step("export", "exportHash") /\ Writes("reference", mem.winner)
ExportHash == Step("exportHash", "select") /\ Writes("referenceHash", disk.reference)
Select == Step("select", "done") /\ Writes("selection", mem.winner)

Kill == Cut({})

Work == \/ Start \/ Resume \/ SaveCheckpoint \/ SaveHash \/ Choose
        \/ ExportReference \/ ExportHash \/ Select
Next == Work \/ Kill

(***************************************************************************)
(* Properties                                                              *)
(***************************************************************************)
Committed == IF Saved = {} THEN 0 ELSE Latest
Result == IF disk.selection = None THEN None ELSE disk.selection.epoch

\* What the selection names is the reference that is exported, of a checkpoint
\* that still verifies; every checkpoint but the last one does.
Whole ==
    /\ \A e \in Saved : Verified(e) \/ e = Latest
    /\ disk.selection # None =>
          /\ disk.reference = disk.selection /\ disk.referenceHash = disk.reference
          /\ disk.ckpt[disk.selection.epoch] = disk.selection

Refused == pc = "down" /\ ~StartEmpty /\ ~Resumable

\* Nothing is left to launch only after a death between the last checkpoint and
\* its hash, although the one before it could be resumed from.
Obstacle == Refused /\ \E e \in 1..Epochs : <<"saveHash", e>> \in cuts

Finished == pc = "done"
=============================================================================
