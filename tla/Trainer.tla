------------------------------- MODULE Trainer -------------------------------
(***************************************************************************)
(* What the models of the epoch trainers share: one process that an        *)
(* operator relaunches in one output directory, killed between any two     *)
(* writes.  An epoch that is trained again after a kill may score          *)
(* otherwise: not every trainer asks for deterministic kernels, and none   *)
(* of them promises that a rerun is the same.                              *)
(***************************************************************************)
EXTENDS Naturals

CONSTANTS
    Epochs, Scores,
    None,       \* no file, no value
    MaxKills    \* bound of the model

ASSUME TrainerAssumption ==
    /\ Epochs \in Nat \ {0}
    /\ Scores \subseteq Nat \ {0} /\ Scores # {}
    /\ MaxKills \in Nat

VARIABLES
    score,   \* dev score of each epoch as it was last evaluated; 0: it never was
    pc,      \* next statement of the process; "down": there is none
    mem,     \* its memory
    disk,    \* the output directory
    kills,   \* processes killed so far
    cuts     \* where: the statement and the epoch it was reached in

tvars == <<score, pc, mem, disk, kills, cuts>>

Version == [epoch : 1..Epochs, try : 0..MaxKills]
Written(e) == [epoch |-> e, try |-> kills]

\* What a file may be: a value, or not there.
Maybe(S) == S \cup {None}

\* select_earliest_best, and the comparison of a new score with the best so far.
EarliestBest(S) ==
    CHOOSE e \in S : \A f \in S : \/ score[e] > score[f]
                                  \/ score[e] = score[f] /\ e <= f
Improves(new, best) == best = None \/ new > score[best]

Begin == score = [e \in 1..Epochs |-> 0] /\ pc = "down" /\ mem = None
            /\ kills = 0 /\ cuts = {}

\* One statement of the process; one that evaluates epoch e on dev.
Step(from, to) == pc = from /\ pc' = to /\ UNCHANGED <<score, kills, cuts>>
Evaluates(from, to, e, new) ==
    pc = from /\ pc' = to /\ score' = [score EXCEPT ![e] = new] /\ UNCHANGED <<kills, cuts>>
Writes(file, value) == disk' = [disk EXCEPT ![file] = value] /\ UNCHANGED mem
Silent == UNCHANGED <<mem, disk>>
Dies == mem' = None /\ UNCHANGED disk

Cut(torn) ==
    /\ pc \notin {"down", "done"} /\ kills < MaxKills
    /\ pc' = "down" /\ mem' = None
    /\ disk' \in {disk} \cup torn
    /\ kills' = kills + 1
    /\ cuts' = cuts \cup {<<pc, mem.epoch>>}
    /\ UNCHANGED score
=============================================================================
