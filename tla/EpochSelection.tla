--------------------------- MODULE EpochSelection ---------------------------
(***************************************************************************)
(* What a trainer that can be killed and resumed promises about dev        *)
(* selection: the epochs are committed one after the other, each with the  *)
(* score of the attempt that was committed, and what is published once all *)
(* of them are is the earliest of the best.  A trainer may lose the score  *)
(* of an epoch before it has compared it; then the choice is made among    *)
(* the others.                                                             *)
(***************************************************************************)
EXTENDS Naturals

CONSTANTS
    Epochs,
    Scores,     \* what an epoch may score, more than 0
    None

VARIABLES
    planned,  \* the epochs that are candidates
    score,    \* the score each epoch was committed with; 0: none yet
    done,     \* epochs committed
    missed,   \* candidates whose score will not be compared
    result    \* the epoch that is published

avars == <<planned, score, done, missed, result>>

EarliestBest(S) ==
    CHOOSE e \in S : \A f \in S : \/ score[e] > score[f]
                                  \/ score[e] = score[f] /\ e <= f

Init ==
    /\ planned \subseteq 1..Epochs
    /\ score = [e \in 1..Epochs |-> 0]
    /\ done = 0 /\ missed = {} /\ result = None

\* A committed candidate is compared with its score of this attempt, or never.
Compare(e) ==
    /\ e \in planned
    /\ \E new \in Scores : score' = [score EXCEPT ![e] = new]
    /\ UNCHANGED missed
GiveUp(e) ==
    /\ e \in planned
    /\ \E old \in Scores \cup {0} : score' = [score EXCEPT ![e] = old]
    /\ missed' = missed \cup {e}
Pass(e) == e \notin planned /\ UNCHANGED <<score, missed>>

\* Epochs that are no candidates may be committed with the next one.
Commit ==
    /\ result = None
    /\ \E e \in (done + 1)..Epochs :
          /\ \A f \in (done + 1)..(e - 1) : f \notin planned
          /\ done' = e
          /\ \/ Compare(e) \/ GiveUp(e) \/ Pass(e)
    /\ UNCHANGED <<planned, result>>

\* Only a committed epoch can be missed: another one is trained again.
Miss ==
    /\ result = None
    /\ \E e \in (planned \cap 1..done) \ missed : missed' = missed \cup {e}
    /\ UNCHANGED <<planned, score, done, result>>

Publish ==
    /\ result = None /\ done = Epochs
    /\ planned \ missed # {}
    /\ result' = EarliestBest(planned \ missed)
    /\ UNCHANGED <<planned, score, done, missed>>

Next == Commit \/ Miss \/ Publish

Spec == Init /\ [][Next]_avars
=============================================================================
