----------------------------- MODULE MCCampaign -----------------------------
(***************************************************************************)
(* Two seeds, the first one screened.  Every script is in a campaign with  *)
(* those it depends on; the shorter ones also meet a kill, a removal or a  *)
(* commit, the shortest two of them.                                       *)
(***************************************************************************)
EXTENDS Campaign

MCSeeds == <<1, 2>>

Together(scripts, events) == [scripts |-> scripts, events |-> events]
PhSeeds == {"ph_followup", "ph_controls", "ph_multiseed"}

MCQueued == {"csl_gate_x", "csl_multiseed", "csl_full_pilot"}
MCCampaigns ==
    {Together(MCQueued, 0),
     Together({"csl_gate_x", "csl_multiseed"}, 1),
     Together({"ph_followup", "ph_controls"}, 2),
     Together(PhSeeds \cup {"ph_full_pilot"}, 0),
     Together(PhSeeds \cup {"ph_corrective", "ph_lower_lr"}, 0),
     Together(PhSeeds \cup {"ph_balanced_lexical"}, 0),
     Together(PhSeeds \cup {"ph_diagnostics", "ph_local_word_video"}, 0),
     Together({"ph_followup", "ph_lexical_ramp"}, 2)}
=============================================================================
