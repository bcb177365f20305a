--------------------------- MODULE CampaignScripts ---------------------------
(***************************************************************************)
(* The campaign scripts of ELSC, in methods/elsc/scripts, as sequences of  *)
(* the commands they run.  What a command does is in Campaign.tla.  The    *)
(* scripts of one dataset share their run directories, configurations,     *)
(* caches, reports and gates; those of CSL-Daily are queues, each waiting  *)
(* for the output of the one before.  A run is <<kind, seed>>, a report is *)
(* named by the runs it compares, a gate by its letter and its report.     *)
(* Printing, resource guards and the clean-worktree guard are left out.    *)
(***************************************************************************)
EXTENDS Naturals, Sequences, SequencesExt

CONSTANTS
    Seeds       \* the seeds of the campaign, the screened one first

ASSUME SeedsAssumption == Seeds \in Seq(Nat) /\ Len(Seeds) >= 2

First == <<Head(Seeds)>>

-----------------------------------------------------------------------------
(* The commands. *)

Await(g, script) == <<[op |-> "await", gate |-> g, script |-> script]>>
AwaitFeatures == <<[op |-> "features"]>>
AwaitBaseline(run) == <<[op |-> "baseline", run |-> run]>>
Validate(run) == <<[op |-> "validate", run |-> run]>>
Train(run) == <<[op |-> "train", run |-> run]>>
Evaluate(run) == <<[op |-> "evaluate", run |-> run]>>
BuildCache(run) == <<[op |-> "cache", run |-> run]>>

\* elsc.configure_stage: the configuration of a run, from the runs it is
\* taught by and starts from; "" is no cache.
Configure(kind, student, bank, seed) ==
    <<[op |-> "configure", run |-> <<kind, seed>>, teacher |-> <<"base", seed>>,
       student |-> <<student, seed>>, cache |-> <<bank, seed>>]>>

\* elsc.report: the runs of one kind against those of another, seed by seed;
\* a matched report refuses different optimisation budgets.
Report(base, method, seeds) == <<base, method, seeds>>
Compare(base, method, seeds) ==
    <<[op |-> "report", file |-> Report(base, method, seeds), matched |-> FALSE]>>
CompareMatched(base, method, seeds) ==
    <<[op |-> "report", file |-> Report(base, method, seeds), matched |-> TRUE]>>

\* elsc.gate: G of one report, M of two.  The scripts but one let it write a
\* fresh file, which they read and then rename.
GainGate(base, method, seeds) == <<"G", Report(base, method, seeds)>>
MechanismGate(method, seeds) ==
    <<"M", Report("random_span", method, seeds), Report("caption", method, seeds)>>
Judge(g) == <<[op |-> "gate", gate |-> g, pending |-> TRUE]>>
JudgeInPlace(g) == <<[op |-> "gate", gate |-> g, pending |-> FALSE]>>
FullGate(gain, mechanism) == <<"F", gain, mechanism>>
JudgeFull(g, run) == <<[op |-> "full", gate |-> g, run |-> run]>>

\* The verdicts a script reads: one it cannot go on without, one that ends it
\* quietly, and the verdict of two datasets with the gates it was made from.
Require(g, allowed) == <<[op |-> "require", gate |-> g, allowed |-> allowed]>>
OnlyIf(g, allowed) == <<[op |-> "only", gate |-> g, allowed |-> allowed]>>
CrossGate == <<"X">>
Cross(gain, mechanism) == <<[op |-> "cross", gain |-> gain, mechanism |-> mechanism]>>
Agree(gain, mechanism) == <<[op |-> "agree", gain |-> gain, mechanism |-> mechanism]>>

-----------------------------------------------------------------------------
(* What the scripts have in common. *)

\* One stage: configured against the baseline, trained, evaluated.
Trained(run) == Train(run) \o Evaluate(run)
Staged(kind, bank, seed) ==
    Configure(kind, "base", bank, seed) \o Trained(<<kind, seed>>)

\* ELSC-Min of one seed, with the cache all its controls share.
MinStage(seed) ==
    Configure("min", "base", "min_cache", seed) \o BuildCache(<<"min", seed>>)
      \o Trained(<<"min", seed>>) \o Compare("base", "min", <<seed>>)

ControlCache(control) == IF control = "adapter_only" THEN "" ELSE "min_cache"
RunControl(control, seed) ==
    Staged(control, ControlCache(control), seed)
      \o Compare("base", control, <<seed>>) \o Compare(control, "min", <<seed>>)
RunControls(seed) ==
    RunControl("adapter_only", seed) \o RunControl("caption", seed)
      \o RunControl("random_span", seed)
RunSeed(seed) == Trained(<<"base", seed>>) \o MinStage(seed) \o RunControls(seed)

ForEach(seeds, Body(_)) == FlattenSeq([i \in DOMAIN seeds |-> Body(seeds[i])])

SeedGate == GainGate("base", "min", First)
Gain == GainGate("base", "min", Seeds)
Mechanism == MechanismGate("min", Seeds)

\* The Full pilot, after its gates: Full beside as many steps of Min.
FullPilot(seed) ==
    Validate(<<"base", seed>>) \o Validate(<<"min", seed>>)
      \o Configure("full", "min", "full_cache", seed)
      \o Configure("continued_min", "min", "min_cache", seed)
      \o BuildCache(<<"full", seed>>)
      \o JudgeFull(FullGate(Gain, Mechanism), <<"full", seed>>)
      \o Trained(<<"continued_min", seed>>) \o Trained(<<"full", seed>>)
      \o CompareMatched("continued_min", "full", <<seed>>)
      \o Compare("min", "full", <<seed>>) \o Compare("base", "full", <<seed>>)

-----------------------------------------------------------------------------
(* CSL-Daily: three queues, each waiting for the one before. *)

CslGateX ==
    AwaitFeatures \o Trained(<<"base", Head(Seeds)>>) \o MinStage(Head(Seeds))
      \o JudgeInPlace(SeedGate)

CslMultiseed ==
    Await(SeedGate, "csl_gate_x") \o OnlyIf(SeedGate, {"passed"})
      \o RunControls(Head(Seeds)) \o ForEach(Tail(Seeds), RunSeed)
      \o Compare("base", "min", Seeds) \o Compare("caption", "min", Seeds)
      \o Compare("random_span", "min", Seeds)
      \o Judge(Gain) \o Judge(Mechanism) \o Cross(Gain, Mechanism)

CslFullPilot ==
    Await(CrossGate, "csl_multiseed") \o Agree(Gain, Mechanism)
      \o OnlyIf(Gain, {"passed"}) \o OnlyIf(Mechanism, {"passed"})
      \o FullPilot(Head(Seeds))

-----------------------------------------------------------------------------
(* PHOENIX-2014T: scripts an operator starts one after another. *)

PhFollowup ==
    AwaitBaseline(<<"base", Head(Seeds)>>) \o Validate(<<"base", Head(Seeds)>>)
      \o Evaluate(<<"base", Head(Seeds)>>) \o MinStage(Head(Seeds))

PhControls ==
    Validate(<<"base", Head(Seeds)>>) \o Validate(<<"min", Head(Seeds)>>)
      \o RunControls(Head(Seeds))

PhMultiseed ==
    ForEach(Tail(Seeds), RunSeed)
      \o Compare("base", "min", Seeds) \o Compare("adapter_only", "min", Seeds)
      \o Compare("caption", "min", Seeds) \o Compare("random_span", "min", Seeds)
      \o Judge(Gain) \o Judge(Mechanism)

PhFullPilot ==
    Require(Gain, {"passed"}) \o Require(Mechanism, {"passed"})
      \o FullPilot(Head(Seeds))

Corrected(kind, seed) ==
    Trained(<<kind, seed>>) \o Compare("base", kind, <<seed>>)
      \o Compare("min", kind, <<seed>>)

PhCorrective ==
    Require(Gain, {"passed", "no_go"}) \o OnlyIf(Gain, {"no_go"})
      \o Validate(<<"base", Head(Seeds)>>) \o Validate(<<"min", Head(Seeds)>>)
      \o Configure("lower_lr", "base", "min_cache", Head(Seeds))
      \o Corrected("lower_lr", Head(Seeds))
      \o Configure("keep", "base", "min_cache", Head(Seeds))
      \o Corrected("keep", Head(Seeds))
      \o Compare("lower_lr", "keep", First)

\* A variant of Min at every seed: the first was run by an earlier script.
Screened(kind, seed) ==
    Validate(<<"base", seed>>)
      \o (IF seed = Head(Seeds)
             THEN Validate(<<kind, seed>>)
             ELSE Staged(kind, "min_cache", seed) \o Compare("base", kind, <<seed>>))

LowerLrScreened(seed) == Screened("lower_lr", seed)
LowerLrControl(control, seed) ==
    Staged(control, "min_cache", seed) \o CompareMatched(control, "lower_lr", <<seed>>)
LowerLrControls(seed) ==
    LowerLrControl("lower_lr_caption", seed)
      \o LowerLrControl("lower_lr_random_span", seed)
LowerLrMechanism ==
    <<"M", Report("lower_lr_random_span", "lower_lr", Seeds),
           Report("lower_lr_caption", "lower_lr", Seeds)>>

PhLowerLr ==
    ForEach(Seeds, LowerLrScreened) \o Compare("base", "lower_lr", Seeds)
      \o Judge(GainGate("base", "lower_lr", Seeds))
      \o OnlyIf(GainGate("base", "lower_lr", Seeds), {"passed"})
      \o ForEach(Seeds, LowerLrControls)
      \o CompareMatched("lower_lr_caption", "lower_lr", Seeds)
      \o CompareMatched("lower_lr_random_span", "lower_lr", Seeds)
      \o Judge(LowerLrMechanism)

LocalScreened(seed) == Screened("local_word_video", seed)
PhLocalWordVideo ==
    ForEach(Seeds, LocalScreened) \o Compare("base", "local_word_video", Seeds)
      \o Judge(GainGate("base", "local_word_video", Seeds))

PhLexicalRamp ==
    Validate(<<"base", Head(Seeds)>>) \o Staged("lexical_ramp5", "min_cache", Head(Seeds))
      \o Compare("base", "lexical_ramp5", First)
      \o Judge(GainGate("base", "lexical_ramp5", First))

Balanced(seed) ==
    Validate(<<"base", seed>>) \o Staged("balanced_lexical", "min_cache", seed)
      \o Compare("base", "balanced_lexical", <<seed>>)
      \o (IF seed = Head(Seeds)
             THEN Judge(GainGate("base", "balanced_lexical", First))
                    \o OnlyIf(GainGate("base", "balanced_lexical", First), {"passed"})
             ELSE <<>>)
PhBalancedLexical ==
    ForEach(Seeds, Balanced) \o Compare("base", "balanced_lexical", Seeds)
      \o Judge(GainGate("base", "balanced_lexical", Seeds))

\* A diagnostic variant against Min trained again from the present sources.
Diagnosed(kind, matched, seed) ==
    Compare("base", kind, <<seed>>)
      \o (IF matched THEN CompareMatched(kind, "matched_min", <<seed>>)
                     ELSE Compare(kind, "matched_min", <<seed>>))
Diagnostic(kind, matched, seed) ==
    Staged(kind, "min_cache", seed) \o Diagnosed(kind, matched, seed)

PhDiagnostics ==
    Require(Gain, {"passed", "no_go"})
      \o Require(Mechanism, {"passed", "no_go", "insufficient_seeds"})
      \o Validate(<<"base", Head(Seeds)>>) \o Validate(<<"min", Head(Seeds)>>)
      \o Staged("matched_min", "min_cache", Head(Seeds))
      \o Compare("min", "matched_min", First)
      \o Diagnostic("shuffled_lexical", TRUE, Head(Seeds))
      \o Diagnostic("head_only", FALSE, Head(Seeds))
      \o Diagnostic("local_word_video", TRUE, Head(Seeds))
      \o Configure("random_neighbors", "base", "random_cache", Head(Seeds))
      \o BuildCache(<<"random_neighbors", Head(Seeds)>>)
      \o Trained(<<"random_neighbors", Head(Seeds)>>)
      \o Diagnosed("random_neighbors", TRUE, Head(Seeds))
=============================================================================
