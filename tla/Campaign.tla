------------------------------- MODULE Campaign -------------------------------
(***************************************************************************)
(* The campaign of ELSC: scripts (CampaignScripts) that train, mine,       *)
(* compare and judge over shared directories while they, the feature       *)
(* extraction and a trainer started by hand are killed and launched again, *)
(* the sources are committed anew, and an operator removes a run or a      *)
(* cache that is in the way.  A checkpoint and a cache are told apart by   *)
(* the removals before they were made: only after one is a run trained, or *)
(* a cache mined, from the start again.                                    *)
(***************************************************************************)
EXTENDS CampaignScripts, FiniteSets

CONSTANTS
    Campaigns,      \* sets of scripts run together, and a bound on the kills,
                    \* removals and commits meanwhile
    Queued,         \* the scripts started at once; the others run alone
    Missing,        \* no such file, run or cache
    Torn            \* a cache directory without its metadata

Program ==
    [csl_gate_x |-> CslGateX, csl_multiseed |-> CslMultiseed,
     csl_full_pilot |-> CslFullPilot, ph_followup |-> PhFollowup,
     ph_controls |-> PhControls, ph_multiseed |-> PhMultiseed,
     ph_full_pilot |-> PhFullPilot, ph_corrective |-> PhCorrective,
     ph_lower_lr |-> PhLowerLr, ph_local_word_video |-> PhLocalWordVideo,
     ph_lexical_ramp |-> PhLexicalRamp, ph_balanced_lexical |-> PhBalancedLexical,
     ph_diagnostics |-> PhDiagnostics]

Scripts == UNION {c.scripts : c \in Campaigns}
Commands == UNION {ToSet(Program[s]) : s \in Scripts}
Using(op) == {s \in Scripts : \E i \in DOMAIN Program[s] : Program[s][i].op = op}
Extracting == Using("features")
ByHand == Using("baseline")
Runs == {c.run : c \in {d \in Commands : d.op \in {"train", "validate"}}}
Caches == {c.cache : c \in {d \in Commands : d.op = "configure" /\ d.cache[1] # ""}}
Files == {c.file : c \in {d \in Commands : d.op = "report"}}
Gates == {c.gate : c \in {d \in Commands : d.op \in {"gate", "full"}}} \cup {CrossGate}

\* Reports a gate is made of: the measured gain matters for no others.
ReportsOf(g) == {g[i] : i \in 2..Len(g)}
Judged == UNION {ReportsOf(g) : g \in {h \in Gates : h[1] \in {"G", "M"}}}

VARIABLES
    campaign, round,                \* the one this is; the scripts tried in turn
    at, stage, done,                \* of a script: the command, how far, exit 0
    dir, conf, metrics, cache,      \* runs, their configurations, scores, caches
    report, gate,                   \* comparisons and verdicts
    extraction, hand,               \* the extraction, a trainer started by hand
    head, kills, removals           \* the commit, and bounds

control == <<at, stage, done>>
files == <<dir, conf, metrics, cache, report, gate>>
world == <<campaign, round, extraction, hand, head, kills, removals>>
vars == <<control, files, world>>

Eventful == kills + removals + (head - 1) < campaign.events

Base(run) == <<"base", run[2]>>
BaseConfig == [teacher |-> 0, init |-> 0, cache |-> <<"", 0>>]

Init ==
    /\ campaign \in Campaigns /\ round = {}
    /\ at = [s \in Scripts |-> 0]
    /\ stage = [s \in Scripts |-> "off"]
    /\ done = [s \in Scripts |-> FALSE]
    /\ dir = [r \in Runs |-> Missing]
    /\ conf = [r \in Runs |-> IF r[1] = "base" THEN BaseConfig ELSE Missing]
    /\ metrics = [r \in Runs |-> 0]
    /\ cache = [c \in Caches |-> Missing]
    /\ report = [f \in Files |-> Missing]
    /\ gate = [g \in Gates |-> Missing]
    /\ extraction = "running" /\ hand = "off"
    /\ head = 1 /\ kills = 0 /\ removals = 0

-----------------------------------------------------------------------------
(* How a script goes on. *)

Cmd(s) == Program[s][at[s]]
At(s, op) == stage[s] = "ready" /\ Cmd(s).op = op

Goto(s, t) == stage' = [stage EXCEPT ![s] = t] /\ UNCHANGED <<at, done>>

Finish(s) ==
    /\ stage' = [stage EXCEPT ![s] = "off"]
    /\ at' = [at EXCEPT ![s] = 0]
    /\ done' = [done EXCEPT ![s] = TRUE]

\* set -e: a command that fails ends the script.
Exit(s) ==
    /\ stage' = [stage EXCEPT ![s] = "off"]
    /\ at' = [at EXCEPT ![s] = 0]
    /\ UNCHANGED done

Advance(s) ==
    IF at[s] = Len(Program[s])
       THEN Finish(s)
       ELSE /\ at' = [at EXCEPT ![s] = @ + 1]
            /\ stage' = [stage EXCEPT ![s] = "ready"]
            /\ UNCHANGED done

\* The command succeeds, leaving the files as they are, or the script ends.
Check(s, holds) == (IF holds THEN Advance(s) ELSE Exit(s)) /\ UNCHANGED <<files, world>>

\* The operator starts the queued scripts side by side.  The others run alone,
\* in rounds: one that has failed is tried again after the rest.
Alone == Scripts \ Queued
Tried(s) ==
    IF \A t \in campaign.scripts : done[t] \/ t \in round \cup {s}
       THEN {} ELSE round \cup {s}
Launch(s) ==
    /\ s \in campaign.scripts /\ stage[s] = "off" /\ ~done[s]
    /\ IF s \in Queued
          THEN UNCHANGED round
          ELSE /\ s \notin round /\ \A t \in Scripts : stage[t] = "off"
               /\ round' = Tried(s)
    /\ at' = [at EXCEPT ![s] = 1]
    /\ stage' = [stage EXCEPT ![s] = "ready"]
    /\ UNCHANGED <<done, files, campaign, extraction, hand, head, kills, removals>>

-----------------------------------------------------------------------------
(* Waiting: the file first, then the process that would write it. *)

AwaitGate(s) ==
    /\ At(s, "await")
    /\ IF gate[Cmd(s).gate] # Missing THEN Advance(s) ELSE Goto(s, "polling")
    /\ UNCHANGED <<files, world>>

PollScript(s) ==
    /\ stage[s] = "polling" /\ Cmd(s).op = "await"
    /\ \/ stage[Cmd(s).script] # "off" /\ Goto(s, "ready")
       \/ Exit(s)
    /\ UNCHANGED <<files, world>>

AwaitExtraction(s) ==
    /\ At(s, "features")
    /\ IF extraction = "complete" THEN Advance(s) ELSE Goto(s, "polling")
    /\ UNCHANGED <<files, world>>

PollExtraction(s) ==
    /\ stage[s] = "polling" /\ Cmd(s).op = "features"
    /\ \/ extraction = "running" /\ Goto(s, "ready")
       \/ Exit(s)
    /\ UNCHANGED <<files, world>>

Finished(r) == dir[r] # Missing /\ dir[r].state = "complete"

\* The follow-up also waits for the trainer to leave the GPU.
AwaitTrainer(s) ==
    /\ At(s, "baseline")
    /\ \/ Finished(Cmd(s).run) /\ hand = "off" /\ Advance(s)
       \/ ~Finished(Cmd(s).run) /\ Goto(s, "polling")
       \/ Finished(Cmd(s).run) /\ hand # "off" /\ Exit(s)
    /\ UNCHANGED <<files, world>>

PollTrainer(s) ==
    /\ stage[s] = "polling" /\ Cmd(s).op = "baseline"
    /\ \/ hand # "off" /\ Goto(s, "ready")
       \/ Exit(s)
    /\ UNCHANGED <<files, world>>

-----------------------------------------------------------------------------
(* Runs: elsc.provenance, elsc.train, elsc.evaluate, elsc.configure_stage. *)

\* A checkpoint selected on dev; the summary may still be missing.
Selected(r) == dir[r] # Missing /\ dir[r].state \in {"selected", "complete"}

\* A completed run of the configuration it is asked for.
\* Variant: of any configuration.
ValidAnyhow(r) == Finished(r)
Valid(r) == Finished(r) /\ conf[r] # Missing /\ dir[r].config = conf[r]

ValidateRun(s) == At(s, "validate") /\ Check(s, Valid(Cmd(s).run))

\* The cache is there and mined with the teacher as it is now.
Teachable(r) ==
    conf[r].cache[1] # "" =>
        /\ Selected(Base(r))
        /\ cache[conf[r].cache] \notin {Missing, Torn}
        /\ cache[conf[r].cache].teacher = dir[Base(r)].ckpt

CacheOf(r) == IF conf[r].cache[1] = "" THEN Missing ELSE cache[conf[r].cache]

\* A directory without last.pt: the trainer starts from the beginning.
Empty(r) == dir[r] = Missing \/ dir[r].state = "fresh"

\* A run that is valid is left alone; one that has ended otherwise, a last.pt
\* of another configuration and a cache of another teacher end the script.
SkipTraining(s) == At(s, "train") /\ Valid(Cmd(s).run) /\ Check(s, TRUE)

\* Variant: a run that was begun is not resumed.
TrainableOnce(r) == conf[r] # Missing /\ dir[r] = Missing /\ Teachable(r)
Trainable(r) ==
    /\ conf[r] # Missing /\ ~Selected(r) /\ Teachable(r)
    /\ ~Empty(r) => dir[r].config = conf[r]

RefuseTraining(s) ==
    /\ At(s, "train")
    /\ ~Valid(Cmd(s).run) /\ ~Trainable(Cmd(s).run)
    /\ Check(s, FALSE)

\* A launch records its commit and its cache, also when it resumes.
Relaunched(r) == [dir[r] EXCEPT !.source = head, !.sources = @ \cup {head}]
StartTraining(s) ==
    LET r == Cmd(s).run IN
    /\ At(s, "train") /\ Trainable(r)
    /\ dir' = [dir EXCEPT ![r] =
          IF Empty(r)
             THEN [state |-> "fresh", config |-> conf[r], ckpt |-> removals + 1,
                   source |-> head, sources |-> {head}, cache |-> CacheOf(r)]
             ELSE [Relaunched(r) EXCEPT !.cache = CacheOf(r)]]
    /\ Goto(s, "training")
    /\ UNCHANGED <<conf, metrics, cache, report, gate, world>>

State(r, t) == dir' = [dir EXCEPT ![r].state = t]

SaveLast(s) ==
    /\ stage[s] = "training" /\ dir[Cmd(s).run].state = "fresh"
    /\ State(Cmd(s).run, "partial")
    /\ UNCHANGED <<control, conf, metrics, cache, report, gate, world>>

WriteSelection(s) ==
    /\ stage[s] = "training" /\ dir[Cmd(s).run].state = "partial"
    /\ State(Cmd(s).run, "selected")
    /\ Goto(s, "closing")
    /\ UNCHANGED <<conf, metrics, cache, report, gate, world>>

\* Then the summary, and elsc.provenance once more.
WriteSummary(s) ==
    /\ stage[s] = "closing"
    /\ State(Cmd(s).run, "complete")
    /\ Advance(s)
    /\ UNCHANGED <<conf, metrics, cache, report, gate, world>>

EvaluateRun(s) ==
    LET r == Cmd(s).run IN
    /\ At(s, "evaluate")
    /\ metrics' = [metrics EXCEPT ![r] = dir[r].ckpt]
    /\ Advance(s)
    /\ UNCHANGED <<dir, conf, cache, report, gate, world>>

ConfigureStage(s) ==
    LET c == Cmd(s) IN
    /\ At(s, "configure")
    /\ IF Selected(c.teacher) /\ Selected(c.student)
          THEN /\ conf' = [conf EXCEPT ![c.run] =
                     [teacher |-> dir[c.teacher].ckpt, init |-> dir[c.student].ckpt,
                      cache |-> c.cache]]
               /\ Advance(s)
          ELSE Exit(s) /\ UNCHANGED conf
    /\ UNCHANGED <<dir, metrics, cache, report, gate, world>>

-----------------------------------------------------------------------------
(* elsc.mining.build_cache: one cache for a configuration and a teacher. *)

CacheAt(s) == conf[Cmd(s).run].cache
Mined(s) == [config |-> conf[Cmd(s).run], teacher |-> dir[Base(Cmd(s).run)].ckpt]

ReuseCache(s) ==
    /\ At(s, "cache") /\ cache[CacheAt(s)] # Missing
    /\ Check(s, /\ Selected(Base(Cmd(s).run)) /\ cache[CacheAt(s)] # Torn
                /\ cache[CacheAt(s)].config = Mined(s).config
                /\ cache[CacheAt(s)].teacher = Mined(s).teacher)

StartMining(s) ==
    /\ At(s, "cache") /\ cache[CacheAt(s)] = Missing
    /\ Goto(s, "mining")
    /\ UNCHANGED <<files, world>>

\* Its files, the metadata last.
WriteCache(s) ==
    /\ stage[s] = "mining"
    /\ cache' = [cache EXCEPT ![CacheAt(s)] =
                    [config |-> Mined(s).config, teacher |-> Mined(s).teacher,
                     made |-> removals]]
    /\ Advance(s)
    /\ UNCHANGED <<dir, conf, metrics, report, gate, world>>

-----------------------------------------------------------------------------
(* elsc.report and elsc.gate. *)

RunAt(kind, file, i) == <<kind, file[3][i]>>
Compared(file) == {<<file[1], x>> : x \in ToSet(file[3])} \cup {<<file[2], x>> : x \in ToSet(file[3])}

\* What a report says of a run.
Identity(r) ==
    [ckpt |-> dir[r].ckpt, teacher |-> dir[r].config.teacher,
     init |-> dir[r].config.init, cache |-> dir[r].cache,
     source |-> dir[r].source, sources |-> dir[r].sources]

\* Measured from the selected checkpoint, on the cache that is there.
Reportable(r) ==
    /\ Selected(r) /\ metrics[r] = dir[r].ckpt
    /\ LET c == dir[r].config.cache IN c[1] # "" => dir[r].cache = cache[c]

SameBudget(file) ==
    \A i \in DOMAIN file[3] :
        LET b == dir[RunAt(file[1], file, i)]
            m == dir[RunAt(file[2], file, i)]
        IN b.config.init = m.config.init /\ b.source = m.source

Measured(file) ==
    [base |-> [i \in DOMAIN file[3] |-> Identity(RunAt(file[1], file, i))],
     method |-> [i \in DOMAIN file[3] |-> Identity(RunAt(file[2], file, i))]]

\* What is measured again of the same runs does not change.
Compares(s) ==
    LET c == Cmd(s) IN
    /\ At(s, "report")
    /\ \A r \in Compared(c.file) : Reportable(r)
    /\ c.matched => SameBudget(c.file)
    /\ \E good \in IF c.file \in Judged THEN BOOLEAN ELSE {TRUE} :
          /\ (report[c.file] # Missing /\ report[c.file].runs = Measured(c.file))
                => good = report[c.file].good
          /\ report' = [report EXCEPT ![c.file] =
                          [runs |-> Measured(c.file), good |-> good]]
    /\ Advance(s)
    /\ UNCHANGED <<dir, conf, metrics, cache, gate, world>>

RefuseReport(s) ==
    LET c == Cmd(s) IN
    /\ At(s, "report")
    /\ \/ \E r \in Compared(c.file) : ~Reportable(r)
       \/ c.matched /\ ~SameBudget(c.file)
    /\ Check(s, FALSE)

\* Gate M is of one set of method runs and of controls of their contract.
Contract(x) == [teacher |-> x.teacher, init |-> x.init, cache |-> x.cache, source |-> x.source]
Judgeable(g) ==
    /\ \A f \in ReportsOf(g) : report[f] # Missing
    /\ g[1] = "M" =>
        /\ report[g[2]].runs.method = report[g[3]].runs.method
        /\ \A f \in ReportsOf(g) : \A i \in DOMAIN f[3] :
              Contract(report[f].runs.base[i]) = Contract(report[f].runs.method[i])

Verdict(g) ==
    [status |-> IF \A f \in ReportsOf(g) : report[f].good THEN "passed" ELSE "no_go",
     of |-> [f \in ReportsOf(g) |-> report[f]]]

WriteVerdict(s) ==
    LET g == Cmd(s).gate IN
    /\ At(s, "gate") /\ Judgeable(g)
    /\ gate' = [gate EXCEPT ![g] = Verdict(g)]
    /\ Advance(s)
    /\ UNCHANGED <<dir, conf, metrics, cache, report, world>>

\* A gate that fails without a verdict: a fresh file is missed, an old one in
\* place is read, and passes for the present one unless it says "passed".
Overlooked(s) ==
    /\ ~Cmd(s).pending
    /\ gate[Cmd(s).gate] # Missing /\ gate[Cmd(s).gate].status # "passed"
FailVerdict(s) ==
    /\ At(s, "gate")
    /\ ~Judgeable(Cmd(s).gate) \/ Eventful
    /\ kills' = IF Judgeable(Cmd(s).gate) THEN kills + 1 ELSE kills
    /\ IF Overlooked(s) THEN Advance(s) ELSE Exit(s)
    /\ UNCHANGED <<files, campaign, round, extraction, hand, head, removals>>

\* Gate F: both gates passed, and the cache is of this configuration; any other
\* outcome ends the script, one that cannot be read without a verdict.
FullReadable(s) ==
    LET g == Cmd(s).gate IN
    /\ \A i \in 2..3 : gate[g[i]] # Missing
    /\ cache[conf[Cmd(s).run].cache] \notin {Missing, Torn}
FullAllowed(s) ==
    LET g == Cmd(s).gate IN
    LET r == Cmd(s).run IN
    /\ FullReadable(s)
    /\ \A i \in 2..3 : gate[g[i]].status = "passed"
    /\ cache[conf[r].cache].config = conf[r]
    /\ cache[conf[r].cache].teacher = conf[r].teacher
JudgeFullGate(s) ==
    LET g == Cmd(s).gate IN
    /\ At(s, "full")
    /\ gate' = IF FullReadable(s)
                  THEN [gate EXCEPT ![g] =
                          [status |-> IF FullAllowed(s) THEN "passed" ELSE "no_go",
                           of |-> [i \in {g[2], g[3]} |-> gate[i]]]]
                  ELSE gate
    /\ IF FullAllowed(s) THEN Advance(s) ELSE Exit(s)
    /\ UNCHANGED <<dir, conf, metrics, cache, report, world>>

RequireVerdict(s) ==
    /\ At(s, "require")
    /\ Check(s, gate[Cmd(s).gate] # Missing /\ gate[Cmd(s).gate].status \in Cmd(s).allowed)

OnlyOnVerdict(s) ==
    /\ At(s, "only")
    /\ IF gate[Cmd(s).gate].status \in Cmd(s).allowed THEN Advance(s) ELSE Finish(s)
    /\ UNCHANGED <<files, world>>

WriteCross(s) ==
    /\ At(s, "cross")
    /\ gate' = [gate EXCEPT ![CrossGate] =
                  [status |-> "completed",
                   of |-> [g \in {Cmd(s).gain, Cmd(s).mechanism} |-> gate[g].status]]]
    /\ Advance(s)
    /\ UNCHANGED <<dir, conf, metrics, cache, report, world>>

AgreeOnVerdicts(s) ==
    /\ At(s, "agree")
    /\ Check(s, \A g \in {Cmd(s).gain, Cmd(s).mechanism} :
                    /\ gate[g] # Missing
                    /\ gate[CrossGate].of[g] = gate[g].status)

-----------------------------------------------------------------------------
(* The world around. *)

\* A run without last.pt starts anew, one without summary stays as it is.
\* A cache may lose its metadata.
AfterKill(s) ==
    \/ stage[s] = "mining" /\ cache' = [cache EXCEPT ![CacheAt(s)] = Torn]
    \/ UNCHANGED cache

Kill(s) ==
    /\ stage[s] # "off" /\ Eventful
    /\ kills' = kills + 1
    /\ Exit(s)
    /\ AfterKill(s)
    /\ UNCHANGED <<dir, conf, metrics, report, gate>>
    /\ UNCHANGED <<campaign, round, extraction, hand, head, removals>>

ExtractionStep ==
    /\ campaign.scripts \cap Extracting # {}
    /\ \/ extraction = "running" /\ extraction' = "complete" /\ UNCHANGED kills
       \/ /\ extraction = "running" /\ Eventful
          /\ extraction' = "dead" /\ kills' = kills + 1
       \/ extraction = "dead" /\ extraction' = "running" /\ UNCHANGED kills
    /\ UNCHANGED <<control, files, campaign, round, hand, head, removals>>

\* The baseline trained by hand, as the script that waits for it expects.
HandRun == <<"base", Head(Seeds)>>
HandStart ==
    /\ campaign.scripts \cap ByHand # {} /\ hand = "off" /\ Trainable(HandRun)
    /\ hand' = "training"
    /\ dir' = [dir EXCEPT ![HandRun] =
          IF Empty(HandRun)
             THEN [state |-> "partial", config |-> conf[HandRun], ckpt |-> removals + 1,
                   source |-> head, sources |-> {head}, cache |-> Missing]
             ELSE Relaunched(HandRun)]
    /\ UNCHANGED <<control, conf, metrics, cache, report, gate,
                   campaign, round, extraction, head, kills, removals>>
HandEnd ==
    \/ /\ hand = "training" /\ hand' = "closing"
       /\ State(HandRun, "selected") /\ UNCHANGED kills
    \/ /\ hand = "closing" /\ hand' = "leaving"
       /\ State(HandRun, "complete") /\ UNCHANGED kills
    \/ hand = "leaving" /\ hand' = "off" /\ UNCHANGED <<dir, kills>>
HandDies ==
    /\ hand # "off" /\ Eventful
    /\ hand' = "off" /\ kills' = kills + 1 /\ UNCHANGED dir
HandStep ==
    /\ HandEnd \/ HandDies
    /\ UNCHANGED <<control, conf, metrics, cache, report, gate,
                   campaign, round, extraction, head, removals>>

\* A commit to the sources; a trainer keeps those it was started from.
Commit ==
    /\ Eventful
    /\ head' = head + 1
    /\ UNCHANGED <<control, files, campaign, round, extraction, hand, kills, removals>>

\* With nothing running the operator removes a run or a cache, and launches
\* every script again.
ClearAway ==
    /\ \A s \in Scripts : stage[s] = "off"
    /\ hand = "off" /\ Eventful
    /\ removals' = removals + 1
    /\ \/ \E r \in Runs :
             /\ dir[r] # Missing
             /\ dir' = [dir EXCEPT ![r] = Missing]
             /\ metrics' = [metrics EXCEPT ![r] = 0]
             /\ UNCHANGED cache
       \/ \E c \in Caches :
             /\ cache[c] # Missing
             /\ cache' = [cache EXCEPT ![c] = Missing]
             /\ UNCHANGED <<dir, metrics>>
    /\ done' = [s \in Scripts |-> FALSE] /\ round' = {}
    /\ UNCHANGED <<at, stage, conf, report, gate, campaign, extraction, hand, head, kills>>

Command(s) ==
    \/ AwaitGate(s) \/ PollScript(s) \/ AwaitExtraction(s) \/ PollExtraction(s)
    \/ AwaitTrainer(s) \/ PollTrainer(s)
    \/ ValidateRun(s) \/ SkipTraining(s) \/ RefuseTraining(s) \/ StartTraining(s)
    \/ SaveLast(s) \/ WriteSelection(s) \/ WriteSummary(s)
    \/ EvaluateRun(s) \/ ConfigureStage(s)
    \/ ReuseCache(s) \/ StartMining(s) \/ WriteCache(s)
    \/ Compares(s) \/ RefuseReport(s) \/ WriteVerdict(s) \/ FailVerdict(s)
    \/ JudgeFullGate(s) \/ RequireVerdict(s) \/ OnlyOnVerdict(s)
    \/ WriteCross(s) \/ AgreeOnVerdicts(s)

Next ==
    \/ \E s \in Scripts : Launch(s) \/ Command(s) \/ Kill(s)
    \/ ExtractionStep \/ HandStart \/ HandStep
    \/ Commit \/ ClearAway

\* The scripts and the trainers go on, and what ended with an error is
\* launched again.
Fairness ==
    /\ \A s \in Queued : WF_vars(Launch(s)) /\ WF_vars(Command(s))
    /\ WF_vars(\E s \in Alone : Launch(s))
    /\ WF_vars(\E s \in Alone : Command(s))
    /\ WF_vars(ExtractionStep) /\ WF_vars(HandStart) /\ WF_vars(HandStep)

Spec == Init /\ [][Next]_vars /\ Fairness

-----------------------------------------------------------------------------
(* What the files hold, and which campaigns there are. *)

Names ==
    {BaseConfig.cache} \cup {c.cache : c \in {d \in Commands : d.op = "configure"}}
Configs == [teacher : Nat, init : Nat, cache : Names]
Mines == [config : Configs, teacher : Nat, made : Nat]
Trainings ==
    [state : {"fresh", "partial", "selected", "complete"}, config : Configs,
     ckpt : Nat, source : Nat, sources : SUBSET Nat, cache : Mines \cup {Missing}]

ASSUME MissingAssumption ==
    /\ Missing # Torn /\ Torn \notin Mines
    /\ Missing \notin Configs /\ Missing \notin Mines /\ Missing \notin Trainings

\* The campaigns have the scripts that train the baselines and the runs their
\* scripts compare.
ASSUME CampaignsAssumption ==
    /\ \A c \in Campaigns : c.scripts \subseteq DOMAIN Program
    /\ \A r \in Runs : Base(r) \in Runs
    /\ ByHand # {} => HandRun \in Runs
    /\ \A c \in Commands : /\ c.op = "configure" => c.run \in Runs /\ c.student \in Runs
                           /\ c.op = "cache" => c.run \in Runs
                           /\ c.op = "report" => Compared(c.file) \subseteq Runs

-----------------------------------------------------------------------------
(* Properties. *)

\* The checkpoint of the baseline that a run goes back to.
Root(x) == IF x.teacher = 0 THEN x.ckpt ELSE x.teacher

\* A script vouches for a report when it has trained every run the report
\* compares but the baselines, from configurations it has just made.  (One that
\* was only validated may have been taught by an earlier baseline.)
Vouches(s, i) ==
    \A r \in Compared(Program[s][i].file) :
        r = Base(r) \/ \E j \in 1..(i - 1) : /\ Program[s][j].op = "train"
                                            /\ Program[s][j].run = r
Careless ==
    [f \in Files |-> {s \in Scripts : \E i \in DOMAIN Program[s] :
        Program[s][i].op = "report" /\ Program[s][i].file = f /\ ~Vouches(s, i)}]
Vouched(f) == campaign.scripts \cap Careless[f] = {}

\* Every run a comparison is made of was taught by the checkpoint that mined
\* its cache, and, seed by seed, the runs go back to the same checkpoint of the
\* baseline, whatever was killed, committed or launched again; after an
\* operator removed a run, if the script has trained what it compares.
\* (report.py does not look at the teacher: that rests on the configurations,
\* the caches, elsc.provenance and the order of the commands.)
Comparable ==
    \A f \in {g \in Files : report[g] # Missing} : \A i \in DOMAIN f[3] :
        LET b == report[f].runs.base[i]
            m == report[f].runs.method[i]
        IN /\ \A x \in {b, m} : x.cache # Missing => x.cache.teacher = x.teacher
           /\ removals = 0 \/ Vouched(f) => Root(b) = Root(m)

\* What no launch repairs: a trainer was killed between selection.json and the
\* summary; a cache is without metadata, of another teacher, or was mined again
\* under a run that used the first; runs were launched from different commits;
\* a verdict ended a script that others wait for, or refuses it.
Wedged(r) == dir[r] # Missing /\ dir[r].state = "selected"
Spoilt(c) ==
    /\ cache[c] # Missing
    /\ cache[c] = Torn \/ (Selected(Base(c)) => cache[c].teacher # dir[Base(c)].ckpt)
Remined(r) == Selected(r) /\ dir[r].cache # Missing /\ dir[r].cache # CacheOf(r)
Mixed ==
    \E q, r \in Runs :
        dir[q] # Missing /\ dir[r] # Missing /\ dir[q].source # dir[r].source
Declined ==
    \E s \in campaign.scripts : \E i \in DOMAIN Program[s] :
        /\ Program[s][i].op \in {"only", "require"}
        /\ gate[Program[s][i].gate] # Missing
        /\ gate[Program[s][i].gate].status \notin Program[s][i].allowed
Hindered ==
    \/ \E r \in Runs : Wedged(r) \/ Remined(r)
    \/ \E c \in Caches : Spoilt(c)
    \/ Mixed \/ Declined

\* Launched again and again, the scripts of a campaign all end well, in
\* whatever order, unless one of those stands in the way.
Completes == <>[](Hindered \/ \A s \in campaign.scripts : done[s])
=============================================================================
