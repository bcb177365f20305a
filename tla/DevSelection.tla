---------------------------- MODULE DevSelection ----------------------------
(***************************************************************************)
(* What an ELSC training run promises about dev selection, without files,  *)
(* processes or crashes: candidates are registered one after the other on  *)
(* one path, initialization first, and once all of them are there one is   *)
(* chosen for good by the rule that train.py writes into provenance.json.  *)
(* A candidate may be lost from sight; then only the choice of a           *)
(* registered candidate is promised, not of the best one.                  *)
(***************************************************************************)
EXTENDS Integers, Sequences

CONSTANTS Models, R1, R5, Epochs

VARIABLES
    path,    \* outcomes of the candidates, initialization first
    lost,    \* an improving candidate may have been overlooked
    chosen   \* 0, or the position of the chosen candidate

avars == <<path, lost, chosen>>

Beats(m, n) == R1[m] > R1[n] \/ (R1[m] = R1[n] /\ R5[m] > R5[n])

\* First of the best: primary value, tie-break, then the earlier epoch.
FirstBest(k) ==
    /\ k \in DOMAIN path
    /\ \A j \in DOMAIN path :
          /\ ~Beats(path[j], path[k])
          /\ j < k => Beats(path[k], path[j])

Init == path = <<>> /\ lost = FALSE /\ chosen = 0

\* The first epoch registers the initialization with it.
Register ==
    /\ chosen = 0
    /\ Len(path) < Epochs + 1
    /\ \E m \in Models :
          IF path = <<>>
             THEN \E i \in Models : path' = <<i, m>>
             ELSE path' = Append(path, m)
    /\ UNCHANGED <<lost, chosen>>

Lose ==
    /\ chosen = 0
    /\ path # <<>>
    /\ lost' = TRUE
    /\ UNCHANGED <<path, chosen>>

Choose ==
    /\ chosen = 0
    /\ Len(path) = Epochs + 1
    /\ \E k \in DOMAIN path :
          /\ lost \/ FirstBest(k)
          /\ chosen' = k
    /\ UNCHANGED <<path, lost>>

Next == Register \/ Lose \/ Choose

Spec == Init /\ [][Next]_avars
=============================================================================
