------------------------ MODULE MCFeatureExtraction ------------------------
(* Small instances of FeatureExtraction.  Jobs a1 and a2 fill one root under *)
(* one label, with different checkpoints and recipes that conflict in their  *)
(* common video w; b1 fills another root and shares video v with a1; w1      *)
(* fills root A under another split label.                                   *)
EXTENDS FeatureExtraction

MCRoots == {"A", "B"}
MCVideos == {"v", "w"}
Attribute(a1, a2, b1, w1) ==
    [j \in Jobs |-> CASE j = "a1" -> a1 [] j = "a2" -> a2
                      [] j = "b1" -> b1 [] j = "w1" -> w1]
MCRoot == Attribute("A", "A", "B", "A")
MCLabel == Attribute("train", "train", "train", "train_dev")
MCPlan == Attribute(<<"v", "w">>, <<"w", "v">>, <<"v">>, <<"v", "w">>)
RecipePlan == Attribute(<<"v", "w">>, <<"w">>, <<"v">>, <<"v", "w">>)
ShortPlan == [j \in Jobs |-> <<"v">>]
MCCkpt == Attribute("agnostic", "aware", "aware", "agnostic")
SameCkpt == Attribute("agnostic", "agnostic", "aware", "agnostic")
MCRecipe == Attribute(1, 1, 1, 1)
TwoRecipes == Attribute(1, 2, 1, 1)
=============================================================================
