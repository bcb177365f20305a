----------------------------- MODULE MCTrainRun -----------------------------
(* Small instances of TrainRun: four dev outcomes that cover a worse value, *)
(* a tie on R1 and a full tie, and two configurations whose initializations *)
(* evaluate differently.                                                    *)
EXTENDS TrainRun

MCModels == 1..4
MCR1 == <<1, 1, 2, 2>>
MCR5 == <<1, 2, 1, 2>>
MCConfigs == {"A", "B"}
MCInitModel == [c \in MCConfigs |-> IF c = "A" THEN 2 ELSE 3]
=============================================================================
