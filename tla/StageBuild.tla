----------------------------- MODULE StageBuild -----------------------------
(***************************************************************************)
(* What the store of dive takes the builders for (DiveStore): a build has  *)
(* one input from its first file to its last, appears at once and whole,   *)
(* is registered after that, and is never replaced.                        *)
(***************************************************************************)
CONSTANTS Inputs, None

VARIABLES pending, published, registered

svars == <<pending, published, registered>>

Init == pending = None /\ published = None /\ registered = FALSE

Open ==
    /\ pending = None /\ published = None
    /\ pending' \in Inputs
    /\ UNCHANGED <<published, registered>>

Publish ==
    /\ pending # None /\ published = None
    /\ published' = pending /\ pending' = None
    /\ UNCHANGED registered

\* The directory of a killed launch that nobody will look at.
Abandon ==
    /\ pending # None
    /\ pending' = None
    /\ UNCHANGED <<published, registered>>

Register ==
    /\ published # None
    /\ registered' = TRUE
    /\ UNCHANGED <<pending, published>>

Next == Open \/ Publish \/ Abandon \/ Register

Spec == Init /\ [][Next]_svars
=============================================================================
