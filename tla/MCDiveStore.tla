----------------------------- MODULE MCDiveStore -----------------------------
(* A small instance of DiveStore for TLC: a stage that writes in place, one that
   does so under a revision, one that is built and resumed, one that is not
   resumed, and the bank that needs an accepted audit. *)
EXTENDS DiveStore

CONSTANTS p1, p2

TwoProcs == {p1, p2}
FourStages == {"validate_data", "evidence_warmup", "cache_frozen_train", "mine_finalize"}

Plain   == [config |-> "c", audit |-> "none", revision |-> "r1"]
Audited == [config |-> "c", audit |-> "accepted", revision |-> "r1"]
Later   == [config |-> "c", audit |-> "none", revision |-> "r2"]
ThreeEnvs == {Plain, Audited, Later}
OwnEnvs == [s \in FourStages |-> IF s = "mine_finalize" THEN Audited ELSE Plain]
=============================================================================
