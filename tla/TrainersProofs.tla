---------------------------- MODULE TrainersProofs ----------------------------
(***************************************************************************)
(* Proofs about the trainers, for any number of epochs, of batches and of  *)
(* kills, all scores and all intervals: an inductive invariant of each     *)
(* trainer, the agreement of its files, and that what it publishes is what *)
(* EpochSelection promises.                                                *)
(***************************************************************************)
EXTENDS MCTrainers, FiniteSetTheorems, TLAPS

(***************************************************************************)
(* What the invariants of the trainers share                               *)
(***************************************************************************)
\* An epoch that was never evaluated has the mark 0.
Marks == Scores \cup {0}
Shared == score \in [1..Epochs -> Marks] /\ kills \in 0..MaxKills

\* e is the earliest of the best epochs of S.
Leads(s, e, S) ==
    e \in S /\ \A f \in S : s[e] > s[f] \/ (s[e] = s[f] /\ e <= f)

\* best is the earliest of the best of S, and None only when there is none.
Choice(s, best, S) == IF best = None THEN S = {} ELSE Leads(s, best, S)

(***************************************************************************)
(* The inductive invariant of the baseline                                 *)
(***************************************************************************)
ResumePoints == {"resumeModel", "resumeScores", "resumed"}
TrainPoints == {"train", "pendModel", "pendScores"}
SavedPoints == {"promoteModel", "promoteScores", "progress", "report", "register"}

BaselineType ==
    /\ Shared
    /\ pc \in {"down", "done", "saveLatest", "saveSidecar"}
                 \cup ResumePoints \cup TrainPoints \cup SavedPoints
    /\ pc # "down" => mem \in [epoch : 1..Epochs, best : Maybe(Version), improved : BOOLEAN]
    /\ DOMAIN disk = Baseline!Files \cup {"registered"}
    /\ {disk.latest, disk.sidecar} \subseteq Maybe(Baseline!Checkpoints)
    /\ {disk.model, disk.scores, disk.scoresPending, disk.report} \subseteq Maybe(Version)
    /\ disk.modelPending \in Maybe(Version \cup {Baseline!Torn})

\* A version of the earliest best of the first n epochs.
ChosenOf(s, best, n) ==
    IF n = 0 THEN best = None ELSE best \in Version /\ Leads(s, best.epoch, 1..n)

\* The checkpoint that loads is of epoch n, and names best.
LoadsAs(n, best) ==
    IF n = 0 THEN disk.latest = None
    ELSE Baseline!Loadable /\ disk.latest.epoch = n /\ disk.latest.best = best

Published == disk.model = mem.best /\ disk.scores = mem.best
Pended == disk.modelPending = mem.best /\ disk.scoresPending = mem.best

BaselineMemory ==
    /\ pc \in TrainPoints =>
          /\ ChosenOf(score, mem.best, mem.epoch - 1) /\ LoadsAs(mem.epoch - 1, mem.best)
          /\ Published
    /\ pc \in {"pendModel", "pendScores"} =>
          mem.improved /\ Baseline!Improved(score[mem.epoch], mem.best)
    /\ pc \in {"pendModel", "pendScores", "saveLatest"} => score[mem.epoch] # 0
    /\ pc = "pendScores" => disk.modelPending = Written(mem.epoch)
    /\ pc = "saveLatest" => LoadsAs(mem.epoch - 1, disk.model) /\ disk.model = disk.scores
    /\ pc \in {"saveLatest", "saveSidecar"} => IF mem.improved THEN Pended ELSE Published
    /\ pc = "saveSidecar" => disk.latest.epoch = mem.epoch /\ disk.latest.best = mem.best
    /\ pc \in {"saveLatest", "saveSidecar"} \cup SavedPoints \cup ResumePoints =>
          ChosenOf(score, mem.best, mem.epoch)
    /\ pc = "saveSidecar" => disk.latest # None
    /\ pc \in SavedPoints \cup ResumePoints => LoadsAs(mem.epoch, mem.best)
    /\ pc = "promoteModel" => Pended
    /\ pc = "promoteScores" => disk.model = mem.best /\ disk.scoresPending = mem.best
    /\ pc \in {"progress", "report", "register", "resumed"} => Published
    /\ pc = "resumeScores" => disk.model = mem.best
    /\ pc \in {"report", "register"} => mem.epoch = Epochs /\ disk.progress = Epochs
    /\ pc = "register" => disk.report = mem.best

BaselineFiles ==
    /\ disk.latest # None => ChosenOf(score, disk.latest.best, disk.latest.epoch)
    /\ pc # "done" => disk.registered = None
    /\ pc = "done" => LoadsAs(Epochs, disk.model)
    /\ disk.registered # None => disk.registered.model = disk.model

BaselineInv == BaselineType /\ BaselineMemory /\ BaselineFiles /\ Baseline!Whole

(***************************************************************************)
(* The inductive invariant of the warm-up                                  *)
(***************************************************************************)
WarmupType ==
    /\ Shared
    /\ pc \in {"down", "train", "saveHash", "choose", "export", "exportHash", "select", "done"}
    /\ pc # "down" => mem \in [epoch : 1..Epochs, winner : Maybe(Version)]
    /\ disk \in [ckpt : [1..Epochs -> Maybe(Version)], hash : [1..Epochs -> Maybe(Version)],
                 reference : Maybe(Version), referenceHash : Maybe(Version),
                 selection : Maybe(Version)]

\* The first n epochs are saved, the first m of them with their hashes.
SavedTo(ckpt, hash, n, m) ==
    /\ \A e \in 1..Epochs : ckpt[e] # None <=> e <= n
    /\ \A e \in 1..m : ckpt[e] # None /\ hash[e] = ckpt[e]
Saves(n, m) == SavedTo(disk.ckpt, disk.hash, n, m)

WarmupFiles ==
    /\ \A e \in 1..Epochs : disk.ckpt[e] # None => disk.ckpt[e].epoch = e
    /\ \E n \in 0..Epochs : Saves(n, n - 1)
    /\ pc = "train" => Saves(mem.epoch - 1, mem.epoch - 1)
    /\ pc = "saveHash" => Saves(mem.epoch, mem.epoch - 1)
    /\ pc \in {"choose", "export", "exportHash", "select", "done"} => Saves(Epochs, Epochs)
    /\ pc \in {"export", "exportHash", "select"} =>
          /\ mem.winner \in Version /\ Leads(score, mem.winner.epoch, 1..Epochs)
          /\ disk.ckpt[mem.winner.epoch] = mem.winner
    /\ pc \in {"exportHash", "select"} => disk.reference = mem.winner
    /\ pc = "select" => disk.referenceHash = mem.winner
    /\ pc # "done" => disk.selection = None
    /\ disk.selection # None =>
          /\ Leads(score, disk.selection.epoch, 1..Epochs)
          /\ disk.reference = disk.selection /\ disk.referenceHash = disk.reference
          /\ disk.ckpt[disk.selection.epoch] = disk.selection

WarmupInv == WarmupType /\ WarmupFiles

(***************************************************************************)
(* The inductive invariant of OCEM                                         *)
(***************************************************************************)
EndedPoints == {"metrics", "snapshot", "report"}

OcemReports ==
    [status : {"none", "RUNNING", "FAIL_TECHNICAL", "PASS"}, completed : 0..Epochs]

OcemType ==
    /\ Shared
    /\ pc \in {"down", "train", "final", "pass", "done"} \cup EndedPoints
    /\ pc # "down" => mem \in [epoch : 1..Epochs, completed : 0..Epochs]
    /\ disk \in [latest : Maybe(1..Epochs), metrics : 0..Epochs, snapshots : SUBSET (1..Epochs),
                 final : Maybe(1..Epochs), report : OcemReports]

AtInterval(e) == e % SnapshotInterval = 0

OcemMemory ==
    /\ pc = "train" => Ocem!Committed = mem.epoch - 1
    /\ pc \in {"train"} \cup EndedPoints => mem.completed = mem.epoch - 1
    /\ pc \in EndedPoints => disk.latest = mem.epoch
    /\ pc \in {"final", "pass"} => mem.completed = Epochs
    /\ pc \in {"final", "pass", "done"} => disk.latest = Epochs
    /\ pc \in {"pass", "done"} => disk.final = Epochs

\* The metrics and the snapshot of an epoch follow its checkpoint, unless the
\* process ended before them.
OcemFiles ==
    /\ disk.latest # None /\ pc # "metrics" =>
          disk.metrics = disk.latest \/ <<"metrics", disk.latest>> \in cuts
    /\ \A e \in 1..Epochs :
          e <= Ocem!Committed /\ AtInterval(e) =>
             \/ e \in disk.snapshots
             \/ <<"metrics", e>> \in cuts \/ <<"snapshot", e>> \in cuts
             \/ pc \in {"metrics", "snapshot"} /\ mem.epoch = e
    /\ disk.report.completed <= Ocem!Committed
    /\ disk.report.status = "PASS" => pc = "done" /\ disk.report.completed = Epochs

OcemInv == OcemType /\ OcemMemory /\ OcemFiles

(***************************************************************************)
(* The inductive invariant of PMGR                                         *)
(***************************************************************************)
UpdatePoints == {"update", "saveUpdate"}
ValidatePoints == {"validate", "saveBest", "saveMetrics", "saveEpoch"}
EndPoints == {"final", "summary", "judge"}

PmgrType ==
    /\ Shared
    /\ pc \in {"down", "done"} \cup UpdatePoints \cup ValidatePoints \cup EndPoints
    /\ pc # "down" /\ pc # "done" =>
          mem \in [epoch : 1..Epochs + 1, cursor : 0..Batches - 1, best : Maybe(1..Epochs),
                   limit : Pmgr!Limits, stop : BOOLEAN, updated : BOOLEAN]
    /\ disk \in [last : Maybe(Pmgr!Positions), best : Maybe(1..Epochs),
                 metrics : Maybe(1..Epochs), summary : Maybe(Pmgr!Summaries)]

\* Where a launch begins.
Reached ==
    IF disk.last = None THEN [epoch |-> 1, cursor |-> 0, best |-> None] ELSE disk.last

\* The epochs up to n whose validations have been compared.
Compared(missed, n) == {e \in 1..n : Pmgr!Validated(e) /\ e \notin missed}

\* x is the best so far, or a later one that was lost.
Kept(x, best) == x # best => x \in Pmgr!Lost /\ (best = None \/ x > best)

\* Both best_dev.pt and its metrics.
BothKept(best) == Kept(disk.best, best) /\ Kept(disk.metrics, best)

\* The epoch that is being trained, or was trained last and is not yet validated.
Open == IF pc = "validate" \/ (pc = "saveUpdate" /\ mem.cursor = 0) THEN mem.epoch - 1
        ELSE mem.epoch

\* No epoch from the first to the last one is validated.
Idle(first, last) == \A e \in first..last : ~Pmgr!Validated(e)

PmgrMemory ==
    /\ pc = "update" => mem.epoch <= Epochs /\ ~mem.stop
    /\ pc = "saveUpdate" /\ mem.cursor = 0 => mem.stop /\ mem.epoch > 1
    /\ pc = "saveUpdate" /\ mem.cursor > 0 => mem.epoch <= Epochs
    /\ pc \in UpdatePoints \cup {"validate", "final"} =>
          /\ mem.best = Reached.best
          /\ Reached.epoch <= Open /\ Idle(Reached.epoch, Open - 1)
          /\ Choice(score, mem.best, Compared(Pmgr!Missed, Open - 1))
    /\ pc \in ValidatePoints =>
          /\ mem.epoch > 1 /\ Pmgr!Validated(mem.epoch - 1) /\ ~mem.stop
          /\ Reached.epoch <= mem.epoch - 1 /\ Idle(Reached.epoch, mem.epoch - 2)
    /\ pc \in ValidatePoints \ {"validate"} =>
          /\ score[mem.epoch - 1] # 0
          /\ Choice(score, mem.best, Compared(Pmgr!Missed, mem.epoch - 1))
          /\ mem.best = mem.epoch - 1 \/ (pc = "saveEpoch" /\ mem.best = Reached.best)
    /\ pc = "saveMetrics" => disk.best = mem.best
    /\ pc = "saveEpoch" => BothKept(mem.best)
    /\ pc \in EndPoints /\ ~mem.stop => mem.epoch = Epochs + 1
    /\ pc \in {"summary", "judge"} => Reached = Pmgr!Position
    /\ pc = "judge" => ~mem.stop

PmgrFiles ==
    /\ Choice(score, Reached.best, Compared(Pmgr!Missed, Reached.epoch - 1))
    /\ pc \notin {"saveMetrics", "saveEpoch"} => BothKept(Reached.best)
    /\ pc = "saveMetrics" => Kept(disk.metrics, Reached.best)
    /\ \A e \in Pmgr!Missed : e < Reached.epoch
    /\ Pmgr!Complete =>
          /\ pc \in {"down", "done"} \cup EndPoints
          /\ pc \in EndPoints => ~mem.stop
          /\ disk.last # None /\ disk.last.epoch = Epochs + 1
          /\ disk.summary.best = disk.last.best

PmgrInv == PmgrType /\ PmgrMemory /\ PmgrFiles

(***************************************************************************)
(* The inductive invariant of SSSC                                         *)
(***************************************************************************)
StepPoints == {"update", "periodic"}
EpochPoints == {"evaluate", "saveBest", "next"}
CompletePoints == {"markBest", "marker"}

SsscType ==
    /\ Shared
    /\ pc \in {"down", "done"} \cup StepPoints \cup EpochPoints \cup CompletePoints
    /\ pc # "down" =>
          mem \in [epoch : 1..Epochs + 1, batch : 0..Batches, best : Maybe(1..Epochs)]
    /\ disk \in [last : Maybe(Sssc!Positions), best : Maybe(Sssc!Checkpoints),
                 marker : BOOLEAN, lock : Maybe(Sssc!Checkpoints),
                 observed : Maybe(Sssc!Checkpoints),
                 test : [stage : {"none", "validated", "evaluated"},
                         of : Maybe(Sssc!Checkpoints)]]

\* A periodic checkpoint ends epoch e.
Coincides(e) == (e * Batches) % CheckpointEvery = 0

\* The epochs that last.pt has behind it.
Ended == IF disk.last = None THEN 0 ELSE disk.last.epoch - 1

SsscMemory ==
    /\ pc # "down" => mem.best = Sssc!Epoch(disk.best)
    /\ pc \in StepPoints \cup EpochPoints => mem.epoch <= Epochs
    /\ pc = "update" => mem.batch < Batches
    /\ pc = "periodic" => mem.batch > 0 /\ Sssc!Periodic
    /\ pc \in EpochPoints => mem.batch = Batches
    /\ pc \in StepPoints => Ended = mem.epoch - 1
    /\ pc = "evaluate" => Ended = IF Coincides(mem.epoch) THEN mem.epoch ELSE mem.epoch - 1
    /\ pc \in {"saveBest", "next"} => Ended = mem.epoch
    /\ pc \in CompletePoints \cup {"done"} => Ended = Epochs
    /\ pc \in StepPoints \cup {"evaluate", "saveBest"} =>
          /\ Choice(score, mem.best, 1..(mem.epoch - 1) \ Sssc!Missed)
          /\ \A e \in Sssc!Missed : e < mem.epoch
    /\ pc = "saveBest" => Improves(score[mem.epoch], mem.best)
    /\ pc = "next" => Choice(score, mem.best, 1..mem.epoch \ Sssc!Missed)
    /\ pc \in {"down", "done"} \cup CompletePoints =>
          Choice(score, Sssc!Epoch(disk.best), 1..Ended \ Sssc!Missed)

\* The bytes of a complete checkpoint are replaced only by a later launch.
SsscFiles ==
    /\ disk.last # None /\ disk.last.epoch > Epochs => disk.last.batch = 0
    /\ \A e \in Sssc!Missed : e <= Ended
    /\ disk.best # None => disk.best.try <= kills
    /\ disk.best # None /\ disk.best.complete =>
          /\ pc \notin StepPoints \cup EpochPoints
          /\ pc \in {"down", "markBest"} => disk.best.try < kills
    /\ pc = "marker" => disk.best = None \/ disk.best.complete
    /\ disk.marker <=> pc = "done"
    /\ disk.lock # None => /\ disk.best # None /\ disk.best.complete
                           /\ disk.lock = disk.best \/ disk.lock.try < disk.best.try
    /\ disk.test.stage # "none" => disk.lock # None
    /\ disk.test.stage = "evaluated" =>
          disk.test.of = disk.lock \/ disk.lock.try < disk.best.try

SsscInv == SsscType /\ SsscMemory /\ SsscFiles /\ Sssc!Whole

(***************************************************************************)
(* The inductive invariant of sota_slret                                   *)
(***************************************************************************)
EpochWrites == {"model", "val", "log", "resume"}
LastPoints == {"last", "mark", "clear"}

SotaType ==
    /\ Shared
    /\ pc \in {"down", "done", "train"} \cup EpochWrites \cup LastPoints
    /\ pc \notin {"down", "done"} => mem \in [epoch : 1..Epochs + 1, best : Maybe(1..Epochs)]
    /\ disk \in [model : Maybe(Version \cup {Sota!Torn}), val : Maybe(Version \cup {Sota!Torn}),
                 resume : Maybe(Sota!Resumes), last : Maybe(Version \cup {Sota!Torn}),
                 done : Maybe(Version \cup {Sota!Torn}), log : [1..Epochs -> Nat]]

SotaReached == IF disk.resume = None THEN [epoch |-> 0, best |-> None] ELSE disk.resume
Evaluations(n) == {e \in 1..n : Sota!Evaluated(e)}

\* What is in a file is of epoch b, or of a later one of those lost, torn ones included.
HeldOver(lost, file, b) ==
    b # None =>
       /\ file # None
       /\ file.epoch = b \/ \E e \in lost : e > b /\ file.epoch \in {0, e}
Held(file, b) == HeldOver(Sota!Lost, file, b)

\* The best model and its scores.
BothHeld(b) == Held(disk.model, b) /\ Held(disk.val, b)

SotaMemory ==
    /\ pc \in {"train"} \cup EpochWrites =>
          mem.epoch = SotaReached.epoch + 1 /\ mem.epoch <= Epochs
    /\ pc = "train" => mem.best = SotaReached.best
    /\ pc \in EpochWrites =>
          /\ Choice(score, mem.best, Evaluations(mem.epoch))
          /\ Sota!Evaluated(mem.epoch) => score[mem.epoch] # 0
          /\ \/ mem.best = mem.epoch /\ Sota!Evaluated(mem.epoch)
             \/ pc \in {"log", "resume"} /\ mem.best = SotaReached.best
    /\ pc = "val" => Held(disk.model, mem.best) /\ Held(disk.val, SotaReached.best)
    /\ pc \in {"log", "resume"} => BothHeld(mem.best)
    /\ pc \in LastPoints =>
          mem.epoch = Epochs + 1 /\ SotaReached = [epoch |-> Epochs, best |-> mem.best]
    /\ pc = "mark" => disk.last = Written(Epochs)
    /\ pc = "clear" => disk.done = Written(mem.best)

SotaLog ==
    \A e \in 1..Epochs :
       /\ e <= Sota!Committed => disk.log[e] > 0
       /\ disk.log[e] > 1 => <<"resume", e>> \in cuts
       /\ e > Sota!Committed /\ disk.log[e] > 0 =>
             <<"resume", e>> \in cuts \/ (pc = "resume" /\ mem.epoch = e)

SotaFiles ==
    /\ disk.done = None =>
          /\ Choice(score, SotaReached.best, Evaluations(SotaReached.epoch))
          /\ pc \notin {"val", "log", "resume"} => BothHeld(SotaReached.best)
    /\ disk.done # None =>
          /\ pc \in {"down", "clear", "done"}
          /\ Sota!Best # None /\ Leads(score, Sota!Best, Evaluations(Epochs))
          /\ BothHeld(Sota!Best) /\ disk.last.epoch = Epochs
    /\ pc = "done" => disk.done # None
    /\ pc = "resume" => disk.log[mem.epoch] > 0

SotaInv == SotaType /\ SotaMemory /\ SotaFiles /\ SotaLog

(***************************************************************************)
(* What a step may do to what EpochSelection speaks of: P are the epochs   *)
(* that are candidates, s the scores after it, c and d the epochs          *)
(* committed before and after it, m and n those missed, x and y the        *)
(* results.                                                                *)
(***************************************************************************)
Stays(c, d, m, n, x, y) == d = c /\ n = m /\ y = x

Commits(P, s, c, d, m, n, x, y) ==
    /\ x = None /\ y = None
    /\ d \in (c + 1)..Epochs /\ \A e \in (c + 1)..(d - 1) : e \notin P
    /\ \/ n = m /\ (d \in P => s[d] # 0)
       \/ n = m \cup {d} /\ d \in P

Misses(P, c, d, m, n, x, y) ==
    /\ x = None /\ y = None /\ d = c
    /\ \E e \in (P \cap 1..c) \ m : n = m \cup {e}

Publishes(P, s, c, d, m, n, x, y) ==
    /\ x = None /\ d = c /\ c = Epochs /\ n = m
    /\ Leads(s, y, P \ m)

Moves(P, s, c, d, m, n, x, y) ==
    \/ Stays(c, d, m, n, x, y)
    \/ Commits(P, s, c, d, m, n, x, y)
    \/ Misses(P, c, d, m, n, x, y)
    \/ Publishes(P, s, c, d, m, n, x, y)

(***************************************************************************)
(* A non-empty set of numbers has a least element: the library has it with *)
(* an operator for a parameter, so it is derived here from the order of    *)
(* the intervals from 0.                                                   *)
(***************************************************************************)
LEMMA Least ==
    ASSUME NEW S, S \subseteq Nat, S # {}
    PROVE  \E x \in S : \A y \in S : x <= y
<1> DEFINE R == StrictSubsetOrdering(Nat)
           T == {0..x : x \in S}
<1>1. IsWellFoundedOn(R, FiniteSubsetsOf(Nat))
  BY FS_StrictSubsetOrderingWellFounded
<1>2. T \subseteq FiniteSubsetsOf(Nat)
  <2>1. ASSUME NEW x \in S PROVE 0..x \in FiniteSubsetsOf(Nat)
    BY FS_Interval, 0 \in Int, x \in Int, 0..x \in SUBSET Nat DEF FiniteSubsetsOf
  <2>2. QED
    BY <2>1
<1>3. T # {}
  OBVIOUS
<1>4. PICK t \in T : \A u \in T : <<u, t>> \notin R
  <2> HIDE DEF R, T
  <2>1. QED
    BY <1>1, <1>2, <1>3, WFMin
<1>5. PICK x \in S : t = 0..x
  BY <1>4
<1>6. ASSUME NEW y \in S PROVE x <= y
  <2>1. <<0..y, 0..x>> \notin R
    BY <1>4, <1>5
  <2>2. ~(0..y \subseteq 0..x /\ 0..y # 0..x)
    BY <2>1, 0..y \in SUBSET Nat, 0..x \in SUBSET Nat DEF StrictSubsetOrdering
  <2>3. ASSUME y < x PROVE FALSE
    <3>1. x \in Nat /\ y \in Nat
      OBVIOUS
    <3>2. x \in 0..x /\ x \notin 0..y
      BY <2>3, <3>1
    <3>3. 0..y \subseteq 0..x
      BY <2>3, <3>1
    <3>4. QED
      BY <2>2, <3>2, <3>3
  <2>4. QED
    BY <2>3
<1>7. QED
  BY <1>6

(***************************************************************************)
(* The earliest of the best                                                *)
(***************************************************************************)
\* One epoch leads itself; a later epoch leads when it is better than the leader.
LEMMA LeadsFirst ==
    ASSUME NEW s \in [1..Epochs -> Marks], NEW e \in 1..Epochs
    PROVE  Leads(s, e, {e})
BY TrainerAssumption DEF TrainerAssumption, Leads

\* One more epoch, later than those that were compared: it leads when it is better.
LEMMA LeadsNext ==
    ASSUME NEW s \in [1..Epochs -> Marks], NEW S \in SUBSET (1..Epochs),
           NEW b \in S, NEW e \in 1..Epochs, Leads(s, b, S), \A f \in S : f < e
    PROVE  IF s[e] > s[b] THEN Leads(s, e, S \cup {e}) ELSE Leads(s, b, S \cup {e})
<1>1. \A f \in S \cup {e} : s[f] \in Nat
  <2>1. Marks \subseteq Nat
    BY TrainerAssumption DEF TrainerAssumption, Marks
  <2>2. \A f \in 1..Epochs : s[f] \in Marks
    OBVIOUS
  <2>3. S \cup {e} \subseteq 1..Epochs
    OBVIOUS
  <2>4. QED
    BY <2>1, <2>2, <2>3
<1>2. CASE s[e] > s[b]
  BY <1>1, <1>2 DEF Leads
<1>3. CASE ~(s[e] > s[b])
  BY <1>1, <1>3 DEF Leads
<1>4. QED
  BY <1>2, <1>3

\* Who leads depends on the scores of those that were compared, and on no other.
LEMMA LeadsAlike ==
    ASSUME NEW s, NEW t, NEW S, NEW e, Leads(s, e, S), \A f \in S : t[f] = s[f]
    PROVE  Leads(t, e, S)
BY DEF Leads

LEMMA ChoiceAlike ==
    ASSUME NEW s, NEW t, NEW S, NEW b, Choice(s, b, S), \A f \in S : t[f] = s[f]
    PROVE  Choice(t, b, S)
BY LeadsAlike DEF Choice

LEMMA ChosenAlike ==
    ASSUME NEW s, NEW t, NEW n, NEW b, ChosenOf(s, b, n), \A f \in 1..n : t[f] = s[f]
    PROVE  ChosenOf(t, b, n)
BY LeadsAlike DEF ChosenOf

\* What an evaluation does to the scores.
LEMMA Evaluation ==
    ASSUME score \in [1..Epochs -> Marks], NEW e \in 1..Epochs, NEW new \in Scores,
           score' = [score EXCEPT ![e] = new]
    PROVE  /\ score' \in [1..Epochs -> Marks] /\ score'[e] = new /\ new # 0
           /\ \A f \in 1..Epochs : f # e => score'[f] = score[f]
BY TrainerAssumption DEF TrainerAssumption, Marks

LEMMA ChosenNext ==
    ASSUME NEW s \in [1..Epochs -> Marks], NEW n \in 1..Epochs, NEW b,
           ChosenOf(s, b, n - 1)
    PROVE  IF b = None \/ s[n] > s[b.epoch]
              THEN \A v \in Version : v.epoch = n => ChosenOf(s, v, n)
              ELSE ChosenOf(s, b, n)
<1>1. n # 0 /\ n - 1 \in 0..Epochs /\ (1..(n - 1)) \cup {n} = 1..n
  BY TrainerAssumption DEF TrainerAssumption
<1>2. CASE n - 1 = 0
  <2>1. b = None /\ 1..n = {n}
    BY <1>2 DEF ChosenOf
  <2>2. QED
    BY <1>1, <2>1, LeadsFirst DEF ChosenOf
<1>3. CASE n - 1 # 0
  <2>1. b \in Version /\ b # None /\ Leads(s, b.epoch, 1..(n - 1))
    BY <1>3, NoneAssumption DEF NoneAssumption, ChosenOf
  <2> DEFINE S == 1..(n - 1)
  <2>2. b.epoch \in S
    BY <2>1 DEF Leads
  <2>3. S \in SUBSET (1..Epochs) /\ \A f \in S : f < n
    BY TrainerAssumption DEF TrainerAssumption
  <2>4. S \cup {n} = 1..n /\ Leads(s, b.epoch, S)
    BY <1>1, <2>1
  <2> HIDE DEF S
  <2>5. IF s[n] > s[b.epoch] THEN Leads(s, n, S \cup {n}) ELSE Leads(s, b.epoch, S \cup {n})
    BY <2>2, <2>3, <2>4, LeadsNext
  <2>6. IF s[n] > s[b.epoch] THEN Leads(s, n, 1..n) ELSE Leads(s, b.epoch, 1..n)
    BY <2>4, <2>5
  <2>7. QED
    BY <1>1, <2>1, <2>6 DEF ChosenOf
<1>4. QED
  BY <1>2, <1>3

LEMMA ChoiceNext ==
    ASSUME NEW s \in [1..Epochs -> Marks], NEW S \in SUBSET (1..Epochs), NEW b,
           Choice(s, b, S), NEW e \in 1..Epochs, \A f \in S : f < e
    PROVE  IF b = None \/ s[e] > s[b] THEN Choice(s, e, S \cup {e})
                                      ELSE Choice(s, b, S \cup {e})
<1>1. e # None
  BY TrainerAssumption, NoneAssumption DEF TrainerAssumption, NoneAssumption
<1>2. CASE b = None
  <2>1. S \cup {e} = {e}
    BY <1>2 DEF Choice
  <2>2. QED
    BY <1>1, <1>2, <2>1, LeadsFirst DEF Choice
<1>3. CASE b # None
  <2>1. b \in S /\ Leads(s, b, S)
    BY <1>3 DEF Choice, Leads
  <2>2. IF s[e] > s[b] THEN Leads(s, e, S \cup {e}) ELSE Leads(s, b, S \cup {e})
    BY <2>1, LeadsNext
  <2>3. QED
    BY <1>1, <1>3, <2>2 DEF Choice
<1>4. QED
  BY <1>2, <1>3

LEMMA LeaderExists ==
    ASSUME NEW s \in [1..Epochs -> Marks]
    PROVE  \E e \in 1..Epochs : Leads(s, e, 1..Epochs)
<1> DEFINE Led(n) == \E e \in 1..Epochs : Leads(s, e, 1..n)
           C == {n \in 1..Epochs : ~Led(n)}
<1>1. SUFFICES ASSUME C # {} PROVE FALSE
  <2>1. Epochs \in 1..Epochs
    BY TrainerAssumption DEF TrainerAssumption
  <2>2. QED
    BY <2>1
<1>2. C \subseteq Nat
  OBVIOUS
<1>3. PICK n \in C : \A m \in C : n <= m
  <2> HIDE DEF C
  <2>1. QED
    BY <1>1, <1>2, Least
<1>4. n \in 1..Epochs /\ ~Led(n)
  OBVIOUS
<1>5. n # 1
  <2>1. 1 \in 1..Epochs /\ 1..1 = {1}
    BY TrainerAssumption DEF TrainerAssumption
  <2>2. Led(1)
    BY <2>1, LeadsFirst
  <2>3. QED
    BY <1>4, <2>2
<1>6. n - 1 \in 1..Epochs /\ ~(n <= n - 1)
  BY <1>4, <1>5, TrainerAssumption DEF TrainerAssumption
<1>7. Led(n - 1)
  BY <1>3, <1>6
<1> DEFINE S == 1..(n - 1)
<1>8. PICK b \in 1..Epochs : Leads(s, b, S)
  BY <1>7
<1>9. /\ S \in SUBSET (1..Epochs) /\ b \in S /\ \A f \in S : f < n
      /\ S \cup {n} = 1..n
  BY <1>4, <1>6, <1>8, TrainerAssumption DEF TrainerAssumption, Leads
<1>10. Leads(s, n, 1..n) \/ Leads(s, b, 1..n)
  <2> HIDE DEF S
  <2>1. IF s[n] > s[b] THEN Leads(s, n, S \cup {n}) ELSE Leads(s, b, S \cup {n})
    BY <1>4, <1>8, <1>9, LeadsNext
  <2>2. QED
    BY <1>9, <2>1
<1>11. QED
  BY <1>4, <1>10

\* There is one at most.
LEMMA LeaderIsOne ==
    ASSUME NEW s \in [1..Epochs -> Nat], NEW S \in SUBSET (1..Epochs),
           NEW a, NEW b, Leads(s, a, S), Leads(s, b, S)
    PROVE  a = b
<1>1. a \in S /\ b \in S
  BY DEF Leads
<1>2. a \in Nat /\ b \in Nat /\ s[a] \in Nat /\ s[b] \in Nat
  <2>1. a \in 1..Epochs /\ b \in 1..Epochs
    BY <1>1
  <2>2. QED
    BY <2>1, TrainerAssumption DEF TrainerAssumption
<1>3. (s[a] > s[b] \/ (s[a] = s[b] /\ a <= b)) /\ (s[b] > s[a] \/ (s[b] = s[a] /\ b <= a))
  BY <1>1 DEF Leads
<1>4. QED
  BY <1>2, <1>3

\* What the initial states of the trainers share.
LEMMA Begun == ASSUME Init PROVE Shared
<1>1. kills \in 0..MaxKills
  BY TrainerAssumption
     DEF Init, TrainerAssumption, Baseline!Init, Warmup!Init, Ocem!Init, Pmgr!Init, Sssc!Init,
         Sota!Init, Baseline!Begin, Warmup!Begin, Ocem!Begin, Pmgr!Begin, Sssc!Begin, Sota!Begin
<1>2. score \in [1..Epochs -> Marks]
  <2>1. score = [e \in 1..Epochs |-> 0]
    BY DEF Init, Baseline!Init, Warmup!Init, Ocem!Init, Pmgr!Init, Sssc!Init,
         Sota!Init, Baseline!Begin, Warmup!Begin, Ocem!Begin, Pmgr!Begin, Sssc!Begin, Sota!Begin
  <2>2. QED
    BY <2>1 DEF Marks
<1>3. QED
  BY <1>1, <1>2 DEF Shared

(***************************************************************************)
(* The baseline                                                            *)
(***************************************************************************)
LEMMA BaselineStart == ASSUME Init, which = "baseline" PROVE BaselineInv
<1> USE TrainerAssumption, NoneAssumption DEF TrainerAssumption, NoneAssumption
<1>1. Shared
  BY Begun
<1>2. pc = "down" /\ disk = [f \in Baseline!Files \cup {"registered"} |-> None]
  BY DEF Init, Baseline!Init, Baseline!Begin
<1>3. QED
  BY <1>1, <1>2 DEF BaselineInv, BaselineType, BaselineMemory, BaselineFiles, ResumePoints,
     TrainPoints, SavedPoints, Baseline!Files, Baseline!Whole, Baseline!Loadable, Maybe

LEMMA BaselineResumes ==
    ASSUME BaselineInv, Baseline!Start \/ Baseline!Resume \/ Baseline!Continue
    PROVE  BaselineInv'
<1> USE TrainerAssumption, NoneAssumption
    DEF TrainerAssumption, NoneAssumption, BaselineInv, BaselineType, BaselineMemory,
        BaselineFiles, ResumePoints, TrainPoints, SavedPoints, Baseline!Files, Baseline!Whole,
        Baseline!Loadable, Maybe, LoadsAs, Published, Pended, Shared,
        Baseline!Step, Baseline!Silent, Baseline!Dies
<1>1. CASE Baseline!Start
  <2>1. ChosenOf(score, None, 1 - 1) /\ 1 - 1 = 0
    BY DEF ChosenOf
  <2>2. QED
    BY <1>1, <2>1 DEF Baseline!Start, Baseline!NothingThere, Baseline!Fresh
<1>2. CASE Baseline!Resume
  BY <1>2 DEF Baseline!Resume, Baseline!Fresh, Baseline!Checkpoints
<1>3. CASE Baseline!Continue
  <2>1. mem.epoch + 1 - 1 = mem.epoch /\ mem.epoch # 0
    BY <1>3 DEF Baseline!Continue
  <2>2. CASE mem.epoch < Epochs
    <3>1. /\ pc = "resumed" /\ pc' = "train" /\ mem' = [mem EXCEPT !.epoch = mem.epoch + 1]
          /\ UNCHANGED <<score, disk, kills>>
      BY <1>3, <2>2 DEF Baseline!Continue
    <3>2. mem' \in [epoch : 1..Epochs, best : Maybe(Version), improved : BOOLEAN]
      BY <2>2, <3>1
    <3>3. mem'.epoch - 1 = mem.epoch /\ mem'.best = mem.best
      BY <2>1, <3>1
    <3>4. BaselineType'
      BY <3>1, <3>2
    <3>5. BaselineMemory'
      BY <3>1, <3>3
    <3>6. BaselineFiles' /\ Baseline!Whole'
      BY <3>1
    <3>7. QED
      BY <3>4, <3>5, <3>6
  <2>3. CASE ~(mem.epoch < Epochs)
    BY <1>3, <2>3 DEF Baseline!Continue
  <2>4. QED
    BY <2>2, <2>3
<1>4. QED
  BY <1>1, <1>2, <1>3

LEMMA BaselineRepairs ==
    ASSUME BaselineInv,
           \/ Baseline!RepairModel \/ Baseline!RepairScores
           \/ Baseline!PromoteModel \/ Baseline!PromoteScores
    PROVE  BaselineInv'
<1> USE TrainerAssumption, NoneAssumption
    DEF TrainerAssumption, NoneAssumption, BaselineInv, BaselineType, BaselineMemory,
        BaselineFiles, ResumePoints, TrainPoints, SavedPoints, Baseline!Files, Baseline!Whole,
        Baseline!Loadable, Maybe, LoadsAs, Published, Pended, Shared,
        Baseline!Step, Baseline!Silent, Baseline!Dies, Baseline!Repair
<1>1. CASE Baseline!RepairModel
  BY <1>1 DEF Baseline!RepairModel
<1>2. CASE Baseline!RepairScores
  BY <1>2 DEF Baseline!RepairScores
<1>3. CASE Baseline!PromoteModel
  BY <1>3 DEF Baseline!PromoteModel
<1>4. CASE Baseline!PromoteScores
  BY <1>4 DEF Baseline!PromoteScores
<1>5. QED
  BY <1>1, <1>2, <1>3, <1>4

LEMMA BaselineTrains ==
    ASSUME BaselineInv,
           Baseline!TrainEpoch \/ Baseline!PendModel \/ Baseline!PendScores
    PROVE  BaselineInv'
<1> USE TrainerAssumption, NoneAssumption
    DEF TrainerAssumption, NoneAssumption, BaselineInv, BaselineType, BaselineMemory,
        BaselineFiles, ResumePoints, TrainPoints, SavedPoints, Baseline!Files, Baseline!Whole,
        Baseline!Loadable, Maybe, LoadsAs, Published, Pended, Shared,
        Baseline!Step, Baseline!Silent, Baseline!Writes, Baseline!Improved, Version,
        Baseline!Written, Written
<1>1. CASE Baseline!TrainEpoch
  <2>1. PICK new \in Scores :
           /\ pc = "train"
           /\ pc' = IF Baseline!Improved(new, mem.best) THEN "pendModel" ELSE "saveLatest"
           /\ score' = [score EXCEPT ![mem.epoch] = new]
           /\ mem' = [mem EXCEPT !.improved = Baseline!Improved(new, mem.best)]
           /\ UNCHANGED <<disk, kills, cuts>>
    BY <1>1 DEF Baseline!TrainEpoch, Baseline!Evaluates
  <2>2. /\ score \in [1..Epochs -> Marks] /\ mem.epoch \in 1..Epochs
        /\ ChosenOf(score, mem.best, mem.epoch - 1) /\ LoadsAs(mem.epoch - 1, mem.best)
    BY <2>1
  <2>3. /\ score' \in [1..Epochs -> Marks] /\ score'[mem.epoch] = new /\ new # 0
        /\ \A f \in 1..Epochs : f # mem.epoch => score'[f] = score[f]
    BY <2>1, <2>2, Evaluation
  <2>4. ChosenOf(score', mem.best, mem.epoch - 1)
    <3>1. \A f \in 1..(mem.epoch - 1) : score'[f] = score[f]
      BY <2>2, <2>3
    <3>2. QED
      BY <2>2, <3>1, ChosenAlike
  <2>5. mem.best # None => score'[mem.best.epoch] = score[mem.best.epoch]
    BY <2>2, <2>3 DEF ChosenOf, Leads
  <2>6. ~Baseline!Improved(new, mem.best) => ChosenOf(score', mem.best, mem.epoch)
    BY <2>2, <2>3, <2>4, <2>5, ChosenNext DEF Baseline!Improved
  <2>7. Baseline!Improved(new, mem.best) => Baseline!Improved(score[mem.epoch], mem.best)'
    BY <2>1, <2>3, <2>5 DEF Baseline!Improved
  <2>8. disk.latest # None => ChosenOf(score', disk.latest.best, disk.latest.epoch)
    BY <2>2, <2>4
  <2> HIDE DEF Baseline!Improved
  <2>9. CASE Baseline!Improved(new, mem.best)
    BY <2>1, <2>3, <2>4, <2>7, <2>8, <2>9
  <2>10. CASE ~Baseline!Improved(new, mem.best)
    <3>1. mem' = [mem EXCEPT !.improved = FALSE]
      BY <2>1, <2>10 DEF Baseline!Improved
    <3>2. mem'.epoch = mem.epoch /\ mem'.best = mem.best /\ mem'.improved = FALSE
      BY <2>1, <3>1
    <3>3. BaselineType'
      BY <2>1, <2>3, <3>1, <3>2, <2>10
    <3>4. BaselineMemory'
      BY <2>1, <2>2, <2>3, <2>6, <2>10, <3>2
    <3>5. (BaselineFiles /\ Baseline!Whole)'
      BY <2>1, <2>8, <2>10
    <3>6. QED
      BY <3>3, <3>4, <3>5
  <2>11. QED
    BY <2>9, <2>10
<1>2. CASE Baseline!PendModel
  BY <1>2 DEF Baseline!PendModel
<1>3. CASE Baseline!PendScores
  <2>1. /\ score \in [1..Epochs -> Marks] /\ mem.epoch \in 1..Epochs
        /\ ChosenOf(score, mem.best, mem.epoch - 1)
    BY <1>3 DEF Baseline!PendScores
  <2>2. Written(mem.epoch) \in Version /\ Written(mem.epoch).epoch = mem.epoch
    BY <2>1
  <2>3. ChosenOf(score, Written(mem.epoch), mem.epoch)
    <3>1. mem.best = None \/ score[mem.epoch] > score[mem.best.epoch]
      BY <1>3 DEF Baseline!PendScores
    <3> HIDE DEF Written, Version, BaselineInv
    <3>2. \A v \in Version : v.epoch = mem.epoch => ChosenOf(score, v, mem.epoch)
      BY <2>1, <3>1, ChosenNext
    <3>3. QED
      BY <2>2, <3>2
  <2>4. QED
    BY <1>3, <2>2, <2>3 DEF Baseline!PendScores
<1>4. QED
  BY <1>1, <1>2, <1>3

LEMMA BaselineSaves ==
    ASSUME BaselineInv,
           \/ Baseline!SaveLatest \/ Baseline!SaveSidecar \/ Baseline!Progress
           \/ Baseline!Report \/ Baseline!Register \/ Baseline!Kill
    PROVE  BaselineInv'
<1> USE TrainerAssumption, NoneAssumption
    DEF TrainerAssumption, NoneAssumption, BaselineInv, BaselineType, BaselineMemory,
        BaselineFiles, ResumePoints, TrainPoints, SavedPoints, Baseline!Files, Baseline!Whole,
        Baseline!Loadable, Maybe, LoadsAs, Published, Pended, Shared,
        Baseline!Step, Baseline!Silent, Baseline!Writes
<1>1. CASE Baseline!SaveLatest
  <2>1. mem.best \in Version
    BY <1>1 DEF Baseline!SaveLatest, ChosenOf
  <2>2. QED
    <3> DEFINE new == [epoch |-> mem.epoch, best |-> mem.best, try |-> kills]
    <3>1. /\ pc = "saveLatest" /\ pc' = "saveSidecar" /\ disk' = [disk EXCEPT !.latest = new]
          /\ UNCHANGED <<score, mem, kills>>
      BY <1>1 DEF Baseline!SaveLatest
    <3>2. new \in Baseline!Checkpoints /\ new.epoch = mem.epoch /\ new.best = mem.best
      BY <2>1, <3>1 DEF Baseline!Checkpoints, Baseline!Version, Version
    <3> HIDE DEF new
    <3>3. new # None
      BY <3>2
    <3>4. BaselineType'
      BY <3>1, <3>2
    <3>5. BaselineMemory'
      BY <3>1, <3>2, <3>3
    <3>6. BaselineFiles'
      BY <3>1, <3>2, <3>3
    <3>7. Baseline!Whole'
      BY <3>1, <3>2, <3>3
    <3>8. QED
      BY <3>4, <3>5, <3>6, <3>7
<1>2. CASE Baseline!SaveSidecar
  BY <1>2 DEF Baseline!SaveSidecar
<1>3. CASE Baseline!Progress
  BY <1>3 DEF Baseline!Progress
<1>4. CASE Baseline!Report
  BY <1>4 DEF Baseline!Report
<1>5. CASE Baseline!Register
  BY <1>5 DEF Baseline!Register
<1>6. CASE Baseline!Kill
  <2>1. /\ pc' = "down" /\ kills' = kills + 1 /\ kills < MaxKills /\ score' = score
        /\ pc \notin {"down", "done"}
        /\ \/ disk' = disk
           \/ pc = "pendModel" /\ disk' = [disk EXCEPT !.modelPending = Baseline!Torn]
    BY <1>6 DEF Baseline!Kill, Baseline!Cut
  <2>2. CASE disk' = disk
    BY <2>1, <2>2
  <2>3. CASE pc = "pendModel" /\ disk' = [disk EXCEPT !.modelPending = Baseline!Torn]
    BY <2>1, <2>3
  <2>4. QED
    BY <2>1, <2>2, <2>3
<1>7. QED
  BY <1>1, <1>2, <1>3, <1>4, <1>5, <1>6

LEMMA BaselineStays == ASSUME BaselineInv, UNCHANGED tvars PROVE BaselineInv'
BY DEF tvars, BaselineInv, BaselineType, BaselineMemory, BaselineFiles, Baseline!Whole,
   Baseline!Loadable, LoadsAs, Published, Pended, Shared, Baseline!Improved,
   Written

LEMMA BaselineKept ==
    ASSUME BaselineInv, Baseline!Work \/ Baseline!Kill \/ UNCHANGED tvars
    PROVE  BaselineInv'
BY BaselineResumes, BaselineRepairs, BaselineTrains, BaselineSaves, BaselineStays
   DEF Baseline!Work

LEMMA BaselineNone ==
    /\ None \notin Nat /\ None \notin Version /\ None \notin Baseline!Checkpoints
    /\ Epochs \in Nat \ {0} /\ MaxKills \in Nat
BY NoneAssumption, TrainerAssumption DEF NoneAssumption, TrainerAssumption

LEMMA BaselineMoves ==
    ASSUME BaselineInv, Baseline!Work \/ Baseline!Kill \/ UNCHANGED tvars
    PROVE  Moves(1..Epochs, score', Baseline!Committed, Baseline!Committed', {}, {},
                 Baseline!Result, Baseline!Result')
<1> USE BaselineNone DEF Baseline!Written
<1>0. DOMAIN disk = Baseline!Files \cup {"registered"}
  BY DEF BaselineInv, BaselineType
<1>00. {"latest", "registered"} \subseteq DOMAIN disk
  BY <1>0 DEF Baseline!Files
<1> DEFINE Same == disk'.latest = disk.latest /\ disk'.registered = disk.registered
<1>1. Baseline!SaveLatest \/ Baseline!Register \/ Same
  <2>1. CASE UNCHANGED disk
    BY <2>1
  <2>2. CASE \/ Baseline!RepairModel \/ Baseline!RepairScores
             \/ Baseline!PromoteModel \/ Baseline!PromoteScores
    BY <1>00, <2>2 DEF Baseline!RepairModel, Baseline!RepairScores, Baseline!PromoteModel,
       Baseline!PromoteScores, Baseline!Repair, Baseline!Dies
  <2>3. CASE \/ Baseline!PendModel \/ Baseline!PendScores \/ Baseline!SaveSidecar
             \/ Baseline!Progress \/ Baseline!Report
    BY <1>00, <2>3 DEF Baseline!PendModel, Baseline!PendScores, Baseline!SaveSidecar,
       Baseline!Progress, Baseline!Report, Baseline!Writes
  <2>4. CASE Baseline!Kill
    BY <1>00, <2>4 DEF Baseline!Kill, Baseline!Cut, Baseline!Torn
  <2>5. QED
    BY <2>1, <2>2, <2>3, <2>4
       DEF Baseline!Work, Baseline!Start, Baseline!Resume, Baseline!Continue,
           Baseline!TrainEpoch, Baseline!Dies, tvars
<1>2. CASE Baseline!SaveLatest
  <2>1. /\ pc = "saveLatest" /\ mem.epoch \in 1..Epochs
        /\ DOMAIN disk = Baseline!Files \cup {"registered"}
        /\ disk' = [disk EXCEPT !.latest =
                       [epoch |-> mem.epoch, best |-> mem.best, try |-> kills]]
    <3>1. pc = "saveLatest" /\ disk' = [disk EXCEPT !.latest =
                       [epoch |-> mem.epoch, best |-> mem.best, try |-> kills]]
      BY <1>2 DEF Baseline!SaveLatest, Baseline!Step, Baseline!Writes
    <3>2. mem.epoch \in 1..Epochs
      BY <3>1 DEF BaselineInv, BaselineType
    <3>3. QED
      BY <1>0, <3>1, <3>2
  <2>2. Baseline!Committed = mem.epoch - 1
    BY <2>1 DEF BaselineInv, BaselineMemory, BaselineType, LoadsAs, Baseline!Loadable,
       Baseline!Committed
  <2>3. Baseline!Committed' = mem.epoch
    <3>1. disk'.latest = [epoch |-> mem.epoch, best |-> mem.best, try |-> kills]
      BY <2>1 DEF Baseline!Files
    <3>2. disk'.latest \in Baseline!Checkpoints
      <4>1. mem.best \in Version /\ kills \in 0..MaxKills
        BY <2>1 DEF BaselineInv, BaselineType, BaselineMemory, ChosenOf, Shared
      <4>2. QED
        BY <2>1, <4>1, <3>1 DEF Baseline!Checkpoints, Version, Baseline!Version
    <3>3. QED
      BY <3>1, <3>2 DEF Baseline!Committed
  <2>4. Baseline!Result = None /\ Baseline!Result' = None
    BY <2>1 DEF Baseline!Result, BaselineInv, BaselineFiles, Baseline!Files
  <2>5. score' = score /\ score[mem.epoch] # 0
    BY <1>2, <2>1 DEF Baseline!SaveLatest, Baseline!Step, BaselineInv, BaselineMemory
  <2>6. QED
    BY <2>1, <2>2, <2>3, <2>4, <2>5 DEF Moves, Commits
<1>3. CASE Baseline!Register
  <2>1. /\ pc = "register" /\ DOMAIN disk = Baseline!Files \cup {"registered"}
        /\ disk' = [disk EXCEPT !.registered = [f \in Baseline!Files |-> disk[f]]]
    BY <1>0, <1>3 DEF Baseline!Register, Baseline!Step, Baseline!Writes
  <2>2. /\ disk'.registered = [f \in Baseline!Files |-> disk[f]] /\ disk'.latest = disk.latest
        /\ disk.registered = None
    BY <2>1 DEF Baseline!Files, BaselineInv, BaselineFiles
  <2>3. /\ mem.epoch = Epochs /\ LoadsAs(Epochs, mem.best) /\ ChosenOf(score, mem.best, Epochs)
        /\ disk.model = mem.best
    <3>1. mem.epoch = Epochs /\ Published
      BY <2>1 DEF BaselineInv, BaselineMemory
    <3>2. LoadsAs(mem.epoch, mem.best) /\ ChosenOf(score, mem.best, mem.epoch)
      BY <2>1 DEF BaselineInv, BaselineMemory, SavedPoints
    <3>3. QED
      BY <3>1, <3>2 DEF Published
  <2>4. Baseline!Committed = Epochs /\ Baseline!Committed' = Epochs
    BY <2>2, <2>3 DEF Baseline!Committed, LoadsAs, Baseline!Loadable
  <2>5. Leads(score, disk.model.epoch, 1..Epochs)
    BY <2>3 DEF ChosenOf
  <2>6. Baseline!Result' = None \/ Baseline!Result' = disk.model.epoch
    BY <2>2 DEF Baseline!Result, Baseline!Files
  <2>7. Baseline!Result = None /\ 1..Epochs \ {} = 1..Epochs
    BY <2>2 DEF Baseline!Result
  <2>8. score' = score
    BY <1>3 DEF Baseline!Register, Baseline!Step
  <2>9. QED
    BY <2>4, <2>5, <2>6, <2>7, <2>8 DEF Moves, Stays, Publishes
<1>4. CASE Same
  BY <1>4 DEF Moves, Stays, Baseline!Committed, Baseline!Result
<1>5. QED
  BY <1>1, <1>2, <1>3, <1>4

(***************************************************************************)
(* The warm-up                                                             *)
(***************************************************************************)
LEMMA SavedIs ==
    ASSUME NEW n \in 0..Epochs, NEW m, Saves(n, m)
    PROVE  /\ Warmup!Saved = 1..n /\ \A e \in 1..m : Warmup!Verified(e)
           /\ n > 0 => Warmup!Latest = n
<1> USE TrainerAssumption DEF TrainerAssumption
<1>1. Warmup!Saved = 1..n
  BY DEF Saves, SavedTo, Warmup!Saved
<1>2. \A e \in 1..m : Warmup!Verified(e)
  BY DEF Saves, SavedTo, Warmup!Verified
<1>3. ASSUME n > 0 PROVE Warmup!Latest = n
  <2>1. n \in Warmup!Saved /\ \A f \in Warmup!Saved : f <= n
    BY <1>1, <1>3
  <2>2. \A e \in Warmup!Saved : (\A f \in Warmup!Saved : f <= e) => e = n
    BY <1>1, <1>3
  <2>3. QED
    BY <2>1, <2>2 DEF Warmup!Latest
<1>4. QED
  BY <1>1, <1>2, <1>3

LEMMA WinnerLeads ==
    ASSUME score \in [1..Epochs -> Marks]
    PROVE  Leads(score, Warmup!Winner, 1..Epochs)
<1> DEFINE Led(e) == \A f \in 1..Epochs : score[e] > score[f] \/ (score[e] = score[f] /\ e <= f)
<1>1. \E e \in 1..Epochs : Led(e)
  BY LeaderExists DEF Leads
<1>2. Warmup!Winner = CHOOSE e \in 1..Epochs : Led(e)
  BY DEF Warmup!Winner, Warmup!EarliestBest
<1>3. Warmup!Winner \in 1..Epochs /\ Led(Warmup!Winner)
  <2> HIDE DEF Led
  <2>1. QED
    BY <1>1, <1>2
<1>4. QED
  BY <1>3 DEF Leads

LEMMA WarmupStart == ASSUME Init, which = "warmup" PROVE WarmupInv
<1> USE TrainerAssumption, NoneAssumption DEF TrainerAssumption, NoneAssumption
<1>1. Shared
  BY Begun
<1>2. /\ pc = "down"
      /\ disk = [ckpt |-> [e \in 1..Epochs |-> None], hash |-> [e \in 1..Epochs |-> None],
               reference |-> None, referenceHash |-> None, selection |-> None]
  BY DEF Init, Warmup!Init, Warmup!Begin
<1>3. WarmupType
  BY <1>1, <1>2 DEF WarmupType, Maybe
<1>4. Saves(0, 0 - 1) /\ 0 \in 0..Epochs
  BY <1>2 DEF Saves, SavedTo
<1>5. WarmupFiles
  BY <1>2, <1>4 DEF WarmupFiles
<1>6. QED
  BY <1>3, <1>5 DEF WarmupInv

LEMMA WarmupBegins ==
    ASSUME WarmupInv, Warmup!Start \/ Warmup!Resume \/ Warmup!Choose
    PROVE  WarmupInv'
<1> USE TrainerAssumption, NoneAssumption
    DEF TrainerAssumption, NoneAssumption, WarmupInv, WarmupType, WarmupFiles, Saves,
        Shared, Maybe, Warmup!Step, Warmup!Dies
<1>1. PICK n \in 0..Epochs : Saves(n, n - 1)
  OBVIOUS
<1>2. Warmup!Saved = 1..n /\ (n > 0 => Warmup!Latest = n)
  BY <1>1, SavedIs
<1>3. CASE Warmup!Start
  <2>1. n = 0 /\ n - 1 + 1 = 0
    <3>1. Warmup!Saved = {}
      BY <1>3 DEF Warmup!Start, Warmup!StartEmpty
    <3>2. 1 \notin 1..n
      BY <1>2, <3>1, Zenon
    <3>3. QED
      BY <3>2
  <2>2. SavedTo(disk.ckpt, disk.hash, 1 - 1, 1 - 1)
    BY <1>1, <2>1 DEF SavedTo
  <2>3. /\ score' = score /\ disk' = disk /\ kills' = kills /\ cuts' = cuts /\ pc = "down"
        /\ pc' = "train" /\ mem' = [epoch |-> 1, winner |-> None]
    BY <1>3 DEF Warmup!Start
  <2>4. mem' \in [epoch : 1..Epochs, winner : Maybe(Version)] /\ mem'.epoch = 1
    BY <2>3
  <2>5. QED
    BY <2>2, <2>3, <2>4
<1>4. CASE Warmup!Resume
  <2>1. n > 0 /\ Warmup!Latest = n /\ Warmup!Verified(n)
    BY <1>2, <1>4 DEF Warmup!Resume, Warmup!Resumable
  <2>2. SavedTo(disk.ckpt, disk.hash, n, n)
    BY <1>1, <2>1 DEF SavedTo, Warmup!Verified
  <2>3. n < Epochs => n + 1 - 1 = n
    OBVIOUS
  <2>4. QED
    BY <1>4, <2>1, <2>2, <2>3 DEF Warmup!Resume, Warmup!NextEpoch
<1>5. CASE Warmup!Choose
  <2> DEFINE w == Warmup!Winner
  <2>1. w \in 1..Epochs /\ Leads(score, w, 1..Epochs)
    BY WinnerLeads DEF Leads
  <2>2. pc = "choose" /\ SavedTo(disk.ckpt, disk.hash, Epochs, Epochs)
    BY <1>5 DEF Warmup!Choose
  <2>3. disk.ckpt[w] # None /\ disk.hash[w] = disk.ckpt[w] /\ disk.ckpt[w].epoch = w
    BY <2>1, <2>2 DEF SavedTo
  <2>4. disk.hash[w] \in Version
    BY <2>1, <2>3
  <2> HIDE DEF w
  <2>5. QED
    BY <1>5, <2>1, <2>3, <2>4 DEF Warmup!Choose, Warmup!Verified, w
<1>6. QED
  BY <1>3, <1>4, <1>5

LEMMA WarmupSaves ==
    ASSUME WarmupInv, Warmup!SaveCheckpoint \/ Warmup!SaveHash
    PROVE  WarmupInv'
<1> USE TrainerAssumption, NoneAssumption
    DEF TrainerAssumption, NoneAssumption, WarmupInv, WarmupType, WarmupFiles, Saves,
        Shared, Maybe, Warmup!Step, Warmup!Dies, Warmup!Writes
<1>1. CASE Warmup!SaveCheckpoint
  <2> DEFINE e == mem.epoch
             ckpt == [disk.ckpt EXCEPT ![e] = Written(e)]
  <2>1. /\ pc = "train" /\ pc' = "saveHash" /\ UNCHANGED <<kills, mem>>
        /\ \E new \in Scores : score' = [score EXCEPT ![e] = new]
        /\ disk' = [disk EXCEPT !.ckpt = ckpt]
        /\ e \in 1..Epochs /\ SavedTo(disk.ckpt, disk.hash, e - 1, e - 1)
    BY <1>1 DEF Warmup!SaveCheckpoint, Warmup!Evaluates, Warmup!Written, Written
  <2>0. score' \in [1..Epochs -> Marks]
    BY <2>1, Evaluation
  <2>2. Written(e) \in Version /\ Written(e).epoch = e /\ Written(e) # None
    BY <2>1 DEF Written, Version
  <2>3. /\ ckpt \in [1..Epochs -> Maybe(Version)]
        /\ \A f \in 1..Epochs : ckpt[f] = IF f = e THEN Written(e) ELSE disk.ckpt[f]
    BY <2>1, <2>2
  <2>4. SavedTo(ckpt, disk.hash, e, e - 1)
    <3> HIDE DEF WarmupInv, ckpt
    <3>1. \A f \in 1..Epochs : (ckpt[f] # None <=> f <= e)
      BY <2>1, <2>2, <2>3 DEF SavedTo
    <3>2. \A f \in 1..(e - 1) : ckpt[f] # None /\ disk.hash[f] = ckpt[f]
      <4>1. \A f \in 1..(e - 1) : f \in 1..Epochs /\ f # e
        BY <2>1
      <4>2. QED
        BY <2>1, <2>3, <4>1 DEF SavedTo
    <3>3. QED
      BY <3>1, <3>2 DEF SavedTo
  <2>5. \A f \in 1..Epochs : ckpt[f] # None => ckpt[f].epoch = f
    BY <2>2, <2>3
  <2> HIDE DEF ckpt
  <2>6. /\ disk'.ckpt = ckpt /\ disk'.hash = disk.hash /\ mem' = mem
    BY <2>1
  <2>7. WarmupType'
    BY <2>0, <2>1, <2>3
  <2>8. \E n \in 0..Epochs : SavedTo(ckpt, disk.hash, n, n - 1)
    BY <2>1, <2>4
  <2>9. WarmupFiles'
    BY <2>1, <2>4, <2>5, <2>6, <2>8
  <2>10. QED
    BY <2>7, <2>9
<1>2. CASE Warmup!SaveHash
  <2> DEFINE e == mem.epoch
             hash == [disk.hash EXCEPT ![e] = disk.ckpt[e]]
  <2>1. /\ pc = "saveHash" /\ pc' = Warmup!NextEpoch(e) /\ UNCHANGED <<score, kills>>
        /\ disk' = [disk EXCEPT !.hash = hash]
        /\ mem' = [mem EXCEPT !.epoch = IF e < Epochs THEN e + 1 ELSE e]
        /\ e \in 1..Epochs /\ SavedTo(disk.ckpt, disk.hash, e, e - 1)
    BY <1>2 DEF Warmup!SaveHash
  <2>2. /\ hash \in [1..Epochs -> Maybe(Version)]
        /\ \A f \in 1..Epochs : hash[f] = IF f = e THEN disk.ckpt[e] ELSE disk.hash[f]
    BY <2>1
  <2>3. SavedTo(disk.ckpt, hash, e, e) /\ SavedTo(disk.ckpt, hash, e, e - 1)
    <3>1. \A f \in 1..e : f \in 1..Epochs /\ (f = e \/ f \in 1..(e - 1))
      BY <2>1
    <3>2. \A f \in 1..e : disk.ckpt[f] # None /\ hash[f] = disk.ckpt[f]
      BY <2>1, <2>2, <3>1 DEF SavedTo
    <3>3. 1..(e - 1) \subseteq 1..e
      BY <2>1
    <3> HIDE DEF hash, e
    <3>4. QED
      BY <2>1, <3>2, <3>3 DEF SavedTo
  <2>4. e + 1 - 1 = e
    BY <2>1
  <2> HIDE DEF hash
  <2>5. disk'.ckpt = disk.ckpt /\ disk'.hash = hash
    BY <2>1
  <2>6. WarmupType'
    <3>1. mem' \in [epoch : 1..Epochs, winner : Maybe(Version)]
      <4>1. mem \in [epoch : 1..Epochs, winner : Maybe(Version)]
        BY <2>1
      <4>2. (IF e < Epochs THEN e + 1 ELSE e) \in 1..Epochs
        BY <2>1
      <4> HIDE DEF e
      <4>3. QED
        BY <2>1, <4>1, <4>2
    <3>2. disk' \in [ckpt : [1..Epochs -> Maybe(Version)], hash : [1..Epochs -> Maybe(Version)],
                     reference : Maybe(Version), referenceHash : Maybe(Version),
                     selection : Maybe(Version)]
      BY <2>1, <2>2
    <3>3. QED
      BY <2>1, <3>1, <3>2 DEF Warmup!NextEpoch
  <2>7. \E n \in 0..Epochs : SavedTo(disk.ckpt, hash, n, n - 1)
    BY <2>1, <2>3
  <2>8. WarmupFiles'
    BY <2>1, <2>3, <2>4, <2>5, <2>7 DEF Warmup!NextEpoch
  <2>9. QED
    BY <2>6, <2>8
<1>3. QED
  BY <1>1, <1>2

LEMMA WarmupExports ==
    ASSUME WarmupInv,
           \/ Warmup!ExportReference \/ Warmup!ExportHash \/ Warmup!Select \/ Warmup!Kill
           \/ UNCHANGED tvars
    PROVE  WarmupInv'
<1> USE TrainerAssumption, NoneAssumption
    DEF TrainerAssumption, NoneAssumption, WarmupInv, WarmupType, WarmupFiles, Saves,
        Shared, Maybe, Warmup!Step, Warmup!Dies, Warmup!Writes
<1>1. CASE Warmup!ExportReference
  BY <1>1 DEF Warmup!ExportReference
<1>2. CASE Warmup!ExportHash
  BY <1>2 DEF Warmup!ExportHash
<1>3. CASE Warmup!Select
  BY <1>3 DEF Warmup!Select
<1>4. CASE Warmup!Kill
  BY <1>4 DEF Warmup!Kill, Warmup!Cut
<1>5. CASE UNCHANGED tvars
  BY <1>5 DEF tvars
<1>6. QED
  BY <1>1, <1>2, <1>3, <1>4, <1>5

LEMMA WarmupKept ==
    ASSUME WarmupInv, Warmup!Work \/ Warmup!Kill \/ UNCHANGED tvars
    PROVE  WarmupInv'
BY WarmupBegins, WarmupSaves, WarmupExports DEF Warmup!Work

LEMMA WarmupIsWhole == ASSUME WarmupInv PROVE Warmup!Whole
<1>1. PICK n \in 0..Epochs : Saves(n, n - 1)
  BY DEF WarmupInv, WarmupFiles
<1>2. /\ Warmup!Saved = 1..n /\ \A e \in 1..(n - 1) : Warmup!Verified(e)
      /\ n > 0 => Warmup!Latest = n
  BY <1>1, SavedIs
<1>3. \A e \in Warmup!Saved : Warmup!Verified(e) \/ e = Warmup!Latest
  BY <1>2
<1>4. QED
  BY <1>3 DEF WarmupInv, WarmupFiles, Warmup!Whole

LEMMA CommittedTo ==
    ASSUME NEW n \in 0..Epochs, NEW ckpt,
           \A e \in 1..Epochs : ckpt[e] # None <=> e <= n
    PROVE  LET S == {e \in 1..Epochs : ckpt[e] # None}
           IN  (IF S = {} THEN 0 ELSE CHOOSE e \in S : \A f \in S : f <= e) = n
<1> USE TrainerAssumption DEF TrainerAssumption
<1> DEFINE S == {e \in 1..Epochs : ckpt[e] # None}
<1>1. S = 1..n
  OBVIOUS
<1>2. CASE n = 0
  BY <1>1, <1>2
<1>3. CASE n > 0
  <2>1. n \in S /\ (\A f \in S : f <= n) /\ \A e \in S : (\A f \in S : f <= e) => e = n
    BY <1>1, <1>3
  <2> HIDE DEF S
  <2>2. (CHOOSE e \in S : \A f \in S : f <= e) = n
    BY <2>1
  <2>3. QED
    BY <2>1, <2>2 DEF S
<1>4. QED
  BY <1>2, <1>3

LEMMA WarmupMoves ==
    ASSUME WarmupInv, Warmup!Work \/ Warmup!Kill \/ UNCHANGED tvars
    PROVE  Moves(1..Epochs, score', Warmup!Committed, Warmup!Committed', {}, {},
                 Warmup!Result, Warmup!Result')
<1>0. /\ None \notin Version /\ None \notin Nat /\ Epochs \in Nat \ {0} /\ MaxKills \in Nat
      /\ DOMAIN disk = {"ckpt", "hash", "reference", "referenceHash", "selection"}
      /\ disk.ckpt \in [1..Epochs -> Maybe(Version)] /\ kills \in 0..MaxKills
  BY NoneAssumption, TrainerAssumption
     DEF NoneAssumption, TrainerAssumption, WarmupInv, WarmupType, Shared
<1>1. \/ Warmup!SaveCheckpoint \/ Warmup!Select
      \/ disk'.ckpt = disk.ckpt /\ disk'.selection = disk.selection
  BY <1>0
     DEF Warmup!Work, Warmup!Start, Warmup!Resume, Warmup!SaveHash, Warmup!Choose,
         Warmup!ExportReference, Warmup!ExportHash, Warmup!Kill, Warmup!Writes,
         Warmup!Dies, Warmup!Cut, tvars
<1>2. CASE Warmup!SaveCheckpoint
  <2> DEFINE new == [epoch |-> mem.epoch, try |-> kills]
             n == mem.epoch
  <2>1. /\ pc = "train" /\ \E s \in Scores : score' = [score EXCEPT ![mem.epoch] = s]
        /\ disk' = [disk EXCEPT !.ckpt = [disk.ckpt EXCEPT ![mem.epoch] = new]]
    BY <1>2 DEF Warmup!SaveCheckpoint, Warmup!Evaluates, Warmup!Writes, Warmup!Written
  <2>2. n \in 1..Epochs /\ Saves(n - 1, n - 1) /\ disk.selection = None
    BY <2>1 DEF WarmupInv, WarmupType, WarmupFiles
  <2>3. new \in Version
    BY <1>0, <2>2 DEF Version
  <2>4. \A e \in 1..Epochs : disk.ckpt[e] # None <=> e <= n - 1
    BY <2>2 DEF Saves, SavedTo
  <2>5. disk'.ckpt = [disk.ckpt EXCEPT ![n] = new] /\ disk'.selection = disk.selection
    BY <1>0, <2>1
  <2> HIDE DEF new
  <2>11. n \in 0..Epochs /\ n - 1 \in 0..Epochs
    BY <1>0, <2>2
  <2>6. \A e \in 1..Epochs : disk'.ckpt[e] # None <=> e <= n
    BY <1>0, <2>2, <2>3, <2>4, <2>5
  <2>7. Warmup!Committed = n - 1
    BY <2>4, <2>11, CommittedTo DEF Warmup!Committed, Warmup!Saved, Warmup!Latest
  <2>8. Warmup!Committed' = n
    BY <2>6, <2>11, CommittedTo DEF Warmup!Committed, Warmup!Saved, Warmup!Latest
  <2>9. Warmup!Result = None /\ Warmup!Result' = None
    BY <2>2, <2>5 DEF Warmup!Result
  <2>10. score'[n] # 0
    BY <2>1, <2>2, Evaluation DEF WarmupInv, WarmupType, Shared
  <2>12. QED
    BY <1>0, <2>2, <2>7, <2>8, <2>9, <2>10 DEF Moves, Commits
<1>3. CASE Warmup!Select
  <2>1. pc = "select" /\ disk' = [disk EXCEPT !.selection = mem.winner]
    BY <1>3 DEF Warmup!Select, Warmup!Step, Warmup!Writes
  <2>2. disk'.ckpt = disk.ckpt /\ disk'.selection = mem.winner
    BY <1>0, <2>1
  <2>3. /\ disk.selection = None /\ mem.winner \in Version
        /\ Leads(score, mem.winner.epoch, 1..Epochs) /\ Saves(Epochs, Epochs)
    BY <2>1 DEF WarmupInv, WarmupFiles
  <2>4. \A e \in 1..Epochs : disk.ckpt[e] # None <=> e <= Epochs
    BY <2>3 DEF Saves, SavedTo
  <2>5. Warmup!Committed = Epochs
    BY <1>0, <2>4, CommittedTo DEF Warmup!Committed, Warmup!Saved, Warmup!Latest
  <2>6. Warmup!Committed' = Warmup!Committed
    BY <2>2 DEF Warmup!Committed, Warmup!Saved, Warmup!Latest
  <2>7. Warmup!Result = None /\ Warmup!Result' = mem.winner.epoch /\ 1..Epochs \ {} = 1..Epochs
    BY <1>0, <2>2, <2>3 DEF Warmup!Result
  <2>8. score' = score
    BY <1>3 DEF Warmup!Select, Warmup!Step
  <2>9. QED
    BY <2>3, <2>5, <2>6, <2>7, <2>8 DEF Moves, Publishes
<1>4. CASE disk'.ckpt = disk.ckpt /\ disk'.selection = disk.selection
  BY <1>4 DEF Moves, Stays, Warmup!Committed, Warmup!Saved, Warmup!Latest, Warmup!Result
<1>5. QED
  BY <1>1, <1>2, <1>3, <1>4

(***************************************************************************)
(* OCEM                                                                    *)
(***************************************************************************)
LEMMA OcemStart == ASSUME Init, which = "ocem" PROVE OcemInv
<1> USE TrainerAssumption, NoneAssumption DEF TrainerAssumption, NoneAssumption
<1>1. Shared
  BY Begun
<1>2. /\ pc = "down"
      /\ disk = [latest |-> None, metrics |-> 0, snapshots |-> {}, final |-> None,
                 report |-> [status |-> "none", completed |-> 0]]
  BY DEF Init, Ocem!Init, Ocem!Begin
<1>3. QED
  BY <1>1, <1>2 DEF OcemInv, OcemType, OcemMemory, OcemFiles, OcemReports, EndedPoints,
     Ocem!Committed, Maybe

LEMMA OcemNone == None \notin Nat /\ Epochs \in Nat \ {0} /\ MaxKills \in Nat
BY NoneAssumption, TrainerAssumption DEF NoneAssumption, TrainerAssumption

LEMMA OcemReported ==
    ASSUME NEW status \in {"RUNNING", "FAIL_TECHNICAL", "PASS"}, NEW completed \in 0..Epochs
    PROVE  /\ Ocem!Report(status, completed) \in OcemReports
           /\ Ocem!Report(status, completed).status = status
           /\ Ocem!Report(status, completed).completed = completed
BY DEF OcemReports, Ocem!Report

LEMMA OcemSaves ==
    ASSUME OcemInv,
           \/ Ocem!SaveLatest \/ Ocem!SaveMetrics \/ Ocem!Snapshot \/ Ocem!CopyFinal
           \/ Ocem!Kill \/ UNCHANGED tvars
    PROVE  OcemInv'
<1> USE OcemNone
    DEF OcemInv, OcemType, OcemMemory, OcemFiles,
        EndedPoints, Ocem!Committed, Maybe, Shared, Ocem!Step, Ocem!Writes
<1>1. CASE Ocem!SaveLatest
  <2>1. /\ pc = "train" /\ pc' = "metrics" /\ disk' = [disk EXCEPT !.latest = mem.epoch]
        /\ UNCHANGED <<score, mem, kills, cuts>>
    BY <1>1 DEF Ocem!SaveLatest
  <2>2. mem.epoch \in 1..Epochs /\ mem.epoch # None
    BY <2>1
  <2>3. OcemType'
    BY <2>1, <2>2
  <2>4. OcemMemory'
    BY <2>1, <2>2
  <2>5. OcemFiles'
    <3>1. disk'.latest = mem.epoch /\ Ocem!Committed' = mem.epoch /\ disk'.report = disk.report
          /\ disk'.snapshots = disk.snapshots
      BY <2>1, <2>2
    <3>2. ASSUME NEW e \in 1..Epochs, e <= mem.epoch, AtInterval(e), e # mem.epoch
          PROVE  e \in disk.snapshots \/ <<"metrics", e>> \in cuts \/ <<"snapshot", e>> \in cuts
      <4>1. e <= Ocem!Committed
        BY <2>1, <2>2, <3>2
      <4>2. QED
        BY <2>1, <3>2, <4>1
    <3>3. disk.report.completed <= mem.epoch /\ disk.report.status # "PASS"
      BY <2>1, <2>2 DEF OcemReports
    <3>4. QED
      BY <2>1, <2>2, <3>1, <3>2, <3>3
  <2>6. QED
    BY <2>3, <2>4, <2>5
<1>2. CASE Ocem!SaveMetrics
  <2>1. /\ pc = "metrics" /\ pc' = (IF AtInterval(mem.epoch) THEN "snapshot" ELSE "report")
        /\ disk' = [disk EXCEPT !.metrics = mem.epoch] /\ UNCHANGED <<score, mem, kills, cuts>>
    BY <1>2 DEF Ocem!SaveMetrics, Ocem!AfterMetrics, AtInterval
  <2>2. OcemType'
    BY <2>1
  <2>3. OcemMemory'
    BY <2>1
  <2>4. OcemFiles'
    BY <2>1
  <2>5. QED
    BY <2>2, <2>3, <2>4
<1>3. CASE Ocem!Snapshot
  BY <1>3 DEF Ocem!Snapshot
<1>4. CASE Ocem!CopyFinal
  BY <1>4 DEF Ocem!CopyFinal
<1>5. CASE Ocem!Kill
  BY <1>5 DEF Ocem!Kill, Ocem!Cut
<1>6. CASE UNCHANGED tvars
  BY <1>6 DEF tvars
<1>7. QED
  BY <1>1, <1>2, <1>3, <1>4, <1>5, <1>6

LEMMA OcemLaunches ==
    ASSUME OcemInv, Ocem!Start \/ Ocem!Resume
    PROVE  OcemInv'
<1> USE OcemNone
    DEF OcemInv, OcemType, OcemMemory, OcemFiles,
        EndedPoints, Ocem!Committed, Maybe, Shared, Ocem!Step, Ocem!Writes
<1> DEFINE n == Ocem!Committed
           report == Ocem!Report("RUNNING", n)
<1>1. n \in 0..Epochs
  OBVIOUS
<1>2. /\ pc = "down" /\ pc' = IF n < Epochs THEN "train" ELSE "final"
      /\ mem' = [epoch |-> IF n < Epochs THEN n + 1 ELSE Epochs, completed |-> n]
      /\ disk' = [disk EXCEPT !.report = report]
      /\ UNCHANGED <<score, kills, cuts>>
  BY DEF Ocem!Start, Ocem!Resume, Ocem!Launch
<1>3. report \in OcemReports /\ report.status = "RUNNING" /\ report.completed = n
  BY <1>1, OcemReported
<1> HIDE DEF report
<1>4. OcemType'
  <2>1. mem' \in [epoch : 1..Epochs, completed : 0..Epochs]
    BY <1>1, <1>2
  <2>2. QED
    BY <1>2, <1>3, <2>1
<1>5. OcemMemory'
  BY <1>1, <1>2, <1>3
<1>6. OcemFiles'
  BY <1>1, <1>2, <1>3
<1>7. QED
  BY <1>4, <1>5, <1>6

LEMMA OcemEnds ==
    ASSUME OcemInv, Ocem!SaveReport \/ Ocem!Pass \/ Ocem!Fail
    PROVE  OcemInv'
<1> USE OcemNone
    DEF OcemInv, OcemType, OcemMemory, OcemFiles,
        EndedPoints, Ocem!Committed, Maybe, Shared, Ocem!Step, Ocem!Writes
<1>1. CASE Ocem!SaveReport
  <2> DEFINE report == Ocem!Report("RUNNING", mem.epoch)
  <2>1. /\ pc = "report" /\ disk' = [disk EXCEPT !.report = report]
        /\ pc' = IF mem.epoch < Epochs THEN "train" ELSE "final"
        /\ mem' = [epoch |-> IF mem.epoch < Epochs THEN mem.epoch + 1 ELSE Epochs,
                   completed |-> mem.epoch]
        /\ UNCHANGED <<score, kills, cuts>> /\ mem.epoch \in 1..Epochs
    BY <1>1 DEF Ocem!SaveReport
  <2>2. report \in OcemReports /\ report.status = "RUNNING" /\ report.completed = mem.epoch
    BY <2>1, OcemReported
  <2> HIDE DEF report
  <2>3. OcemType'
    <3>1. (IF mem.epoch < Epochs THEN mem.epoch + 1 ELSE Epochs) \in 1..Epochs
      BY <2>1
    <3>2. mem' \in [epoch : 1..Epochs, completed : 0..Epochs]
      BY <2>1, <3>1
    <3>3. QED
      BY <2>1, <2>2, <3>2
  <2>4. OcemMemory'
    BY <2>1, <2>2
  <2>5. OcemFiles'
    BY <2>1, <2>2
  <2>6. QED
    BY <2>3, <2>4, <2>5
<1>2. CASE Ocem!Pass
  <2> DEFINE report == Ocem!Report("PASS", mem.completed)
  <2>1. /\ pc = "pass" /\ pc' = "done" /\ disk' = [disk EXCEPT !.report = report]
        /\ UNCHANGED <<score, mem, kills, cuts>> /\ mem.completed = Epochs
    BY <1>2 DEF Ocem!Pass
  <2>2. report \in OcemReports /\ report.status = "PASS" /\ report.completed = Epochs
    BY <2>1, OcemReported
  <2> HIDE DEF report
  <2>3. OcemType' /\ OcemMemory'
    BY <2>1, <2>2
  <2>4. OcemFiles'
    BY <2>1, <2>2
  <2>5. QED
    BY <2>3, <2>4
<1>3. CASE Ocem!Fail
  <2> DEFINE report == Ocem!Report("FAIL_TECHNICAL", mem.completed)
  <2>1. /\ pc \notin {"down", "done"} /\ pc' = "down" /\ kills < MaxKills /\ kills' = kills + 1
        /\ disk' = [disk EXCEPT !.report = report] /\ cuts' = cuts \cup {<<pc, mem.epoch>>}
        /\ score' = score /\ mem.completed \in 0..Epochs
    BY <1>3 DEF Ocem!Fail
  <2>2. report \in OcemReports /\ report.status = "FAIL_TECHNICAL"
        /\ report.completed = mem.completed
    BY <2>1, OcemReported
  <2> HIDE DEF report
  <2>3. OcemType'
    <3>1. kills' \in 0..MaxKills
      BY <2>1
    <3>2. pc' = "down" /\ score' \in [1..Epochs -> Marks]
      BY <2>1
    <3>3. QED
      BY <2>1, <2>2, <3>1, <3>2
  <2>4. OcemMemory'
    BY <2>1, <2>2
  <2>5. OcemFiles'
    BY <2>1, <2>2
  <2>6. QED
    BY <2>3, <2>4, <2>5
<1>4. QED
  BY <1>1, <1>2, <1>3

LEMMA OcemKept ==
    ASSUME OcemInv, Ocem!Work \/ Ocem!Fail \/ Ocem!Kill \/ UNCHANGED tvars
    PROVE  OcemInv'
BY OcemSaves, OcemLaunches, OcemEnds DEF Ocem!Work

LEMMA OcemIsWhole == ASSUME OcemInv PROVE Ocem!Whole
<1>1. disk.report.completed <= Ocem!Committed
  BY DEF OcemInv, OcemFiles
<1>2. ASSUME disk.report.status = "PASS"
      PROVE  /\ disk.latest = Epochs /\ disk.report.completed = Epochs
             /\ disk.metrics = Epochs \/ <<"metrics", Epochs>> \in cuts
             /\ \A e \in 1..Epochs : e % SnapshotInterval = 0 =>
                   e \in disk.snapshots \/ Ocem!CutAfterSave(e)
  <2>1. pc = "done" /\ disk.latest = Epochs /\ disk.report.completed = Epochs /\ Epochs # None
    BY <1>2, TrainerAssumption, NoneAssumption
       DEF TrainerAssumption, NoneAssumption, OcemInv, OcemFiles, OcemMemory
  <2>2. disk.metrics = Epochs \/ <<"metrics", Epochs>> \in cuts
    BY <2>1 DEF OcemInv, OcemFiles
  <2>3. ASSUME NEW e \in 1..Epochs, e % SnapshotInterval = 0
        PROVE  e \in disk.snapshots \/ Ocem!CutAfterSave(e)
    <3>1. AtInterval(e) /\ e <= Ocem!Committed
      BY <2>1, <2>3, TrainerAssumption DEF TrainerAssumption, AtInterval, Ocem!Committed
    <3>2. e \in disk.snapshots \/ <<"metrics", e>> \in cuts \/ <<"snapshot", e>> \in cuts
      BY <2>1, <3>1 DEF OcemInv, OcemFiles
    <3>3. QED
      BY <3>2 DEF Ocem!CutAfterSave
  <2>4. QED
    BY <2>1, <2>2, <2>3
<1>3. QED
  BY <1>1, <1>2 DEF Ocem!Whole

\* The last epoch is selected whatever the scores are.
Order == [e \in 1..Epochs |-> e]

LEMMA OcemMoves ==
    ASSUME OcemInv, Ocem!Work \/ Ocem!Fail \/ Ocem!Kill \/ UNCHANGED tvars
    PROVE  Moves(1..Epochs, Order, Ocem!Committed, Ocem!Committed', {}, {},
                 Ocem!Result, Ocem!Result')
<1> USE OcemNone
<1>0. /\ DOMAIN disk = {"latest", "metrics", "snapshots", "final", "report"}
      /\ disk.report.status = "PASS" => pc = "done"
  BY DEF OcemInv, OcemType, OcemFiles
<1> DEFINE Same == /\ disk'.latest = disk.latest /\ disk'.final = disk.final
                   /\ disk'.report = disk.report
           Rewritten == /\ pc # "done" /\ disk'.latest = disk.latest
                        /\ disk'.report.status \in {"RUNNING", "FAIL_TECHNICAL"}
           Final == pc = "final" /\ disk'.latest = disk.latest /\ disk'.report = disk.report
<1>1. Ocem!SaveLatest \/ Ocem!Pass \/ Same \/ Rewritten \/ Final
  <2>1. CASE Ocem!Start \/ Ocem!Resume
    BY <1>0, <2>1 DEF Ocem!Start, Ocem!Resume, Ocem!Launch, Ocem!Report, Ocem!Step
  <2>2. CASE Ocem!SaveReport \/ Ocem!Fail
    BY <1>0, <2>2 DEF Ocem!SaveReport, Ocem!Fail, Ocem!Report, Ocem!Step
  <2>3. CASE Ocem!SaveMetrics \/ Ocem!Snapshot \/ Ocem!CopyFinal
    BY <1>0, <2>3 DEF Ocem!SaveMetrics, Ocem!Snapshot, Ocem!CopyFinal, Ocem!Step, Ocem!Writes
  <2>4. CASE Ocem!Kill \/ UNCHANGED tvars
    BY <2>4 DEF Ocem!Kill, Ocem!Cut, tvars
  <2>5. QED
    BY <2>1, <2>2, <2>3, <2>4 DEF Ocem!Work
<1>2. CASE Ocem!SaveLatest
  <2>1. pc = "train" /\ disk' = [disk EXCEPT !.latest = mem.epoch]
    BY <1>2 DEF Ocem!SaveLatest, Ocem!Step, Ocem!Writes
  <2>2. mem.epoch \in 1..Epochs /\ Ocem!Committed = mem.epoch - 1
    BY <2>1 DEF OcemInv, OcemType, OcemMemory
  <2>3. disk'.latest = mem.epoch /\ disk'.report = disk.report
    BY <1>0, <2>1
  <2>4. Ocem!Committed' = mem.epoch
    BY <2>2, <2>3 DEF Ocem!Committed
  <2>5. Ocem!Result = None /\ Ocem!Result' = None
    BY <1>0, <2>1, <2>3 DEF Ocem!Result
  <2>6. QED
    BY <2>2, <2>4, <2>5 DEF Moves, Commits, Order
<1>3. CASE Ocem!Pass
  <2>1. pc = "pass" /\ disk' = [disk EXCEPT !.report = Ocem!Report("PASS", mem.completed)]
    BY <1>3 DEF Ocem!Pass, Ocem!Step, Ocem!Writes
  <2>2. disk.latest = Epochs /\ disk.final = Epochs
    BY <2>1 DEF OcemInv, OcemMemory
  <2>3. disk'.latest = disk.latest /\ disk'.final = disk.final /\ disk'.report.status = "PASS"
    BY <1>0, <2>1 DEF Ocem!Report
  <2>4. Ocem!Committed = Epochs /\ Ocem!Committed' = Epochs
    BY <2>2, <2>3 DEF Ocem!Committed
  <2>5. Ocem!Result = None /\ Ocem!Result' = Epochs
    BY <1>0, <2>1, <2>2, <2>3 DEF Ocem!Result
  <2>6. Leads(Order, Epochs, 1..Epochs) /\ 1..Epochs \ {} = 1..Epochs
    BY DEF Leads, Order
  <2>7. QED
    BY <2>4, <2>5, <2>6 DEF Moves, Publishes
<1>4. CASE Same
  BY <1>4 DEF Moves, Stays, Ocem!Committed, Ocem!Result
<1>5. CASE Rewritten
  BY <1>0, <1>5 DEF Moves, Stays, Ocem!Committed, Ocem!Result
<1>6. CASE Final
  BY <1>0, <1>6 DEF Moves, Stays, Ocem!Committed, Ocem!Result
<1>7. QED
  BY <1>1, <1>2, <1>3, <1>4, <1>5, <1>6

(***************************************************************************)
(* PMGR                                                                    *)
(***************************************************************************)
LEMMA PmgrNone ==
    /\ None \notin Nat /\ None \notin Pmgr!Positions /\ None \notin Pmgr!Summaries
    /\ Batches \in Nat \ {0} /\ Epochs \in Nat \ {0} /\ MaxKills \in Nat
BY NoneAssumption, IntervalAssumption, TrainerAssumption
   DEF NoneAssumption, IntervalAssumption, TrainerAssumption

LEMMA PmgrStart == ASSUME Init, which = "pmgr" PROVE PmgrInv
<1> USE PmgrNone
<1>1. Shared
  BY Begun
<1>2. /\ pc = "down" /\ cuts = {}
      /\ disk = [last |-> None, best |-> None, metrics |-> None, summary |-> None]
  BY DEF Init, Pmgr!Init, Pmgr!Begin
<1>3. Pmgr!Missed = {} /\ Reached = [epoch |-> 1, cursor |-> 0, best |-> None]
  BY <1>2 DEF Pmgr!Missed, Reached
<1>4. Choice(score, None, Compared(Pmgr!Missed, Reached.epoch - 1))
  BY <1>3 DEF Choice, Compared
<1>5. PmgrFiles
  BY <1>2, <1>3, <1>4 DEF PmgrFiles, BothKept, Kept, Pmgr!Complete
<1>6. QED
  BY <1>1, <1>2, <1>5 DEF PmgrInv, PmgrType, PmgrMemory, UpdatePoints, ValidatePoints,
     EndPoints, Maybe

LEMMA PmgrCompared ==
    ASSUME NEW n \in 1..Epochs, NEW m
    PROVE  /\ Compared(m, n) = IF Pmgr!Validated(n) /\ n \notin m THEN Compared(m, n - 1) \cup {n}
                                                                   ELSE Compared(m, n - 1)
           /\ Compared(m \cup {n}, n) = Compared(m, n - 1)
           /\ Compared(m, n - 1) \in SUBSET (1..Epochs)
           /\ \A f \in Compared(m, n - 1) : f < n
<1>1. /\ 1..n = 1..(n - 1) \cup {n} /\ n \notin 1..(n - 1)
      /\ \A f \in 1..(n - 1) : f < n /\ f \in 1..Epochs
  BY PmgrNone
<1>2. QED
  BY <1>1 DEF Compared

LEMMA IdleNot == ASSUME NEW e \in Nat PROVE Idle(e, e - 1)
BY DEF Idle

LEMMA PmgrFacts ==
    ASSUME PmgrInv
    PROVE  /\ score \in [1..Epochs -> Marks] /\ kills \in 0..MaxKills
           /\ Reached \in Pmgr!Positions /\ Reached.epoch \in 1..Epochs + 1
           /\ Reached.best \in Maybe(1..Epochs)
           /\ disk.last # None => Reached = disk.last
           /\ pc # "down" /\ pc # "done" =>
                 /\ mem.epoch \in 1..Epochs + 1 /\ mem.cursor \in 0..Batches - 1
                 /\ mem.best \in Maybe(1..Epochs) /\ Pmgr!Position \in Pmgr!Positions
                 /\ Pmgr!Position.epoch = mem.epoch /\ Pmgr!Position.best = mem.best
                 /\ Pmgr!Position # None
           /\ disk.best \in Maybe(1..Epochs) /\ disk.metrics \in Maybe(1..Epochs)
<1> USE PmgrNone DEF PmgrInv, PmgrType, Shared
<1>1. disk.last = None \/ disk.last \in Pmgr!Positions
  BY DEF Maybe
<1>2. [epoch |-> 1, cursor |-> 0, best |-> None] \in Pmgr!Positions
  BY DEF Pmgr!Positions, Pmgr!Maybe
<1>3. Reached \in Pmgr!Positions /\ (disk.last # None => Reached = disk.last)
  BY <1>1, <1>2 DEF Reached
<1>4. Reached.epoch \in 1..Epochs + 1 /\ Reached.best \in Maybe(1..Epochs)
  BY <1>3 DEF Pmgr!Positions, Pmgr!Maybe, Maybe
<1>5. ASSUME pc # "down", pc # "done"
      PROVE  /\ mem.epoch \in 1..Epochs + 1 /\ mem.cursor \in 0..Batches - 1
             /\ mem.best \in Maybe(1..Epochs) /\ Pmgr!Position \in Pmgr!Positions
             /\ Pmgr!Position.epoch = mem.epoch /\ Pmgr!Position.best = mem.best
             /\ Pmgr!Position # None
  <2>1. /\ mem.epoch \in 1..Epochs + 1 /\ mem.cursor \in 0..Batches - 1
        /\ mem.best \in Maybe(1..Epochs)
    BY <1>5
  <2>2. Pmgr!Position \in Pmgr!Positions
    BY <2>1 DEF Pmgr!Position, Pmgr!Positions, Pmgr!Maybe, Maybe
  <2>3. Pmgr!Position.epoch = mem.epoch /\ Pmgr!Position.best = mem.best
    BY DEF Pmgr!Position
  <2>4. QED
    BY <2>1, <2>2, <2>3
<1>6. QED
  BY <1>3, <1>4, <1>5

LEMMA PmgrLaunches ==
    ASSUME PmgrInv, NEW limit \in Pmgr!Limits, Pmgr!Start(limit) \/ Pmgr!Resume(limit)
    PROVE  PmgrInv'
<1> USE PmgrNone
<1>1. /\ pc = "down" /\ pc' = IF Reached.epoch <= Epochs THEN "update" ELSE "final"
      /\ mem' = [epoch |-> Reached.epoch, cursor |-> Reached.cursor, best |-> Reached.best,
                 limit |-> limit, stop |-> FALSE, updated |-> FALSE]
      /\ kills' = kills \/ (kills < MaxKills /\ kills' = kills + 1)
      /\ UNCHANGED <<score, disk, cuts>>
  BY DEF Pmgr!Start, Pmgr!Resume, Pmgr!Launch, Reached
<1>2. /\ Reached.epoch \in 1..Epochs + 1 /\ Reached.cursor \in 0..Batches - 1
      /\ Reached.best \in Maybe(1..Epochs)
  BY PmgrFacts DEF Pmgr!Positions
<1>3. Pmgr!Missed' = Pmgr!Missed /\ Reached' = Reached /\ Pmgr!Lost' = Pmgr!Lost
  BY <1>1 DEF Pmgr!Missed, Reached, Pmgr!Lost
<1>4. kills' \in 0..MaxKills
  BY <1>1, PmgrFacts
<1>5. /\ mem'.epoch = Reached.epoch /\ mem'.best = Reached.best /\ mem'.stop = FALSE
      /\ pc' \in {"update", "final"} /\ (pc' = "update" => Reached.epoch <= Epochs)
      /\ (pc' = "final" => Reached.epoch = Epochs + 1)
  BY <1>1, <1>2
<1>6. PmgrType'
  BY <1>1, <1>2, <1>4, <1>5 DEF PmgrInv, PmgrType, Shared, UpdatePoints, EndPoints
<1>7. PmgrMemory'
  <2>1. Idle(Reached.epoch, Reached.epoch - 1)
    BY <1>2, IdleNot
  <2>2. QED
    BY <1>1, <1>2, <1>3, <1>5, <2>1 DEF PmgrInv, PmgrMemory, PmgrFiles, Open,
       UpdatePoints, ValidatePoints, EndPoints
<1>8. PmgrFiles'
  BY <1>1, <1>3, <1>5, PmgrFacts
     DEF PmgrInv, PmgrFiles, BothKept, Kept, Pmgr!Complete, EndPoints
<1>9. QED
  BY <1>6, <1>7, <1>8 DEF PmgrInv

LEMMA PmgrUpdates ==
    ASSUME PmgrInv, Pmgr!Update
    PROVE  PmgrInv'
<1> USE PmgrNone
<1> DEFINE e == mem.epoch
           b == mem.best
           boundary == mem.cursor + 1 = Batches
           reached == mem.limit # None /\ Pmgr!Updates + 1 >= mem.limit
<1>1. /\ pc = "update" /\ UNCHANGED <<score, disk, kills, cuts>>
      /\ pc' = IF reached \/ ~boundary THEN "saveUpdate"
               ELSE IF Pmgr!Validated(e) THEN "validate"
               ELSE IF e < Epochs THEN "update" ELSE "final"
      /\ mem' = [mem EXCEPT !.epoch = IF boundary THEN e + 1 ELSE e,
                            !.cursor = IF boundary THEN 0 ELSE mem.cursor + 1,
                            !.stop = reached, !.updated = TRUE]
  BY DEF Pmgr!Update, Pmgr!Step, Pmgr!NextPosition, Pmgr!AfterEpoch
<1>2. /\ e \in 1..Epochs /\ mem.cursor \in 0..Batches - 1
      /\ mem \in [epoch : 1..Epochs + 1, cursor : 0..Batches - 1, best : Maybe(1..Epochs),
                  limit : Pmgr!Limits, stop : BOOLEAN, updated : BOOLEAN]
      /\ Idle(Reached.epoch, e - 1)
      /\ b = Reached.best /\ Reached.epoch <= e /\ b \in Maybe(1..Epochs)
      /\ Choice(score, b, Compared(Pmgr!Missed, e - 1))
  <2>1. mem \in [epoch : 1..Epochs + 1, cursor : 0..Batches - 1, best : Maybe(1..Epochs),
                 limit : Pmgr!Limits, stop : BOOLEAN, updated : BOOLEAN]
    BY <1>1 DEF PmgrInv, PmgrType
  <2>2. /\ b = Reached.best /\ Reached.epoch <= Open /\ e <= Epochs
        /\ Choice(score, b, Compared(Pmgr!Missed, Open - 1))
        /\ Open = e /\ Idle(Reached.epoch, Open - 1)
    BY <1>1 DEF PmgrInv, PmgrMemory, UpdatePoints, Open
  <2>3. QED
    BY <2>1, <2>2
<1> DEFINE epoch == IF boundary THEN e + 1 ELSE e
           cursor == IF boundary THEN 0 ELSE mem.cursor + 1
<1>3. /\ reached \in BOOLEAN /\ epoch \in 1..Epochs + 1 /\ cursor \in 0..Batches - 1
      /\ (cursor = 0 <=> boundary)
      /\ mem' = [mem EXCEPT !.epoch = epoch, !.cursor = cursor, !.stop = reached,
                            !.updated = TRUE]
  BY <1>1, <1>2
<1>4. mem'.epoch = epoch /\ mem'.cursor = cursor /\ mem'.best = b /\ mem'.stop = reached
  BY <1>3, <1>2, Zenon
<1>5. mem' \in [epoch : 1..Epochs + 1, cursor : 0..Batches - 1, best : Maybe(1..Epochs),
                limit : Pmgr!Limits, stop : BOOLEAN, updated : BOOLEAN]
  <2> HIDE DEF epoch, cursor, reached
  <2>1. QED
    BY <1>3, <1>2
<1> HIDE DEF reached
<1>6. Pmgr!Missed' = Pmgr!Missed /\ Reached' = Reached /\ Pmgr!Lost' = Pmgr!Lost
  BY <1>1 DEF Pmgr!Missed, Reached, Pmgr!Lost
<1>7. /\ mem'.epoch = (IF boundary THEN e + 1 ELSE e) /\ mem'.best = b
      /\ (mem'.cursor = 0 <=> boundary) /\ mem'.cursor \in 0..Batches - 1
      /\ (mem'.stop <=> reached)
      /\ mem' \in [epoch : 1..Epochs + 1, cursor : 0..Batches - 1, best : Maybe(1..Epochs),
                   limit : Pmgr!Limits, stop : BOOLEAN, updated : BOOLEAN]
  BY <1>3, <1>4, <1>5
<1>8. PmgrType'
  BY <1>1, <1>7 DEF PmgrInv, PmgrType, Shared, UpdatePoints, ValidatePoints, EndPoints
<1>9. PmgrFiles'
  <2>1. ~Pmgr!Complete
    BY <1>1 DEF PmgrInv, PmgrFiles, EndPoints
  <2>2. QED
    BY <1>1, <1>6, <2>1 DEF PmgrInv, PmgrFiles, BothKept, Kept, Pmgr!Complete
<1>10. PmgrMemory'
  <2>1. CASE pc' \in {"saveUpdate", "validate"}
    <3>1. Open' = e
      BY <1>1, <1>2, <1>7, <2>1 DEF Open
    <3>2. /\ pc' = "saveUpdate" /\ mem'.cursor = 0 => mem'.stop /\ mem'.epoch > 1
          /\ pc' = "saveUpdate" /\ mem'.cursor > 0 => mem'.epoch <= Epochs
      BY <1>1, <1>2, <1>7
    <3>3. pc' = "validate" =>
            /\ mem'.epoch = e + 1 /\ mem'.epoch > 1 /\ Pmgr!Validated(mem'.epoch - 1)
            /\ ~mem'.stop /\ Reached.epoch <= mem'.epoch - 1
            /\ Idle(Reached.epoch, mem'.epoch - 2)
      <4>1. pc' = "validate" =>
              mem'.epoch = e + 1 /\ (e + 1) - 1 = e /\ (e + 1) - 2 = e - 1
        BY <1>1, <1>2, <1>7
      <4>2. QED
        BY <1>1, <1>2, <1>7, <4>1
    <3>4. QED
      BY <1>1, <1>2, <1>6, <1>7, <2>1, <3>1, <3>2, <3>3
         DEF PmgrMemory, UpdatePoints, ValidatePoints, EndPoints
  <2>2. CASE pc' \in {"update", "final"}
    <3>1. /\ ~reached /\ boundary /\ ~Pmgr!Validated(e) /\ mem'.epoch = e + 1
          /\ (pc' = "update" => e < Epochs) /\ (pc' = "final" => e = Epochs)
      BY <1>1, <1>2, <1>7, <2>2
    <3>2. Open' = e + 1 /\ (e + 1) - 1 = e /\ Reached.epoch <= e + 1
      <4>1. Reached.epoch \in Nat
        BY PmgrFacts
      <4>2. QED
        BY <1>2, <2>2, <3>1, <4>1 DEF Open
    <3>3. Choice(score, b, Compared(Pmgr!Missed, e))
      BY <1>2, <3>1, PmgrCompared
    <3>5. /\ pc' = "update" => mem'.epoch <= Epochs
          /\ pc' = "final" => mem'.epoch = Epochs + 1
          /\ ~mem'.stop
      BY <1>2, <1>7, <3>1
    <3>6. Idle(Reached.epoch, e)
      <4>1. /\ Reached.epoch \in Nat /\ e \in Nat
            /\ ~Pmgr!Validated(e) /\ Idle(Reached.epoch, e - 1)
        BY <1>2, <3>1, PmgrFacts
      <4>2. QED
        BY <4>1 DEF Idle
    <3>7. QED
      BY <1>1, <1>2, <1>6, <1>7, <2>2, <3>2, <3>3, <3>5, <3>6
         DEF PmgrMemory, UpdatePoints, ValidatePoints, EndPoints
  <2>3. QED
    BY <1>1, <2>1, <2>2
<1>11. QED
  BY <1>8, <1>9, <1>10 DEF PmgrInv

LEMMA PmgrSavesUpdate ==
    ASSUME PmgrInv, Pmgr!SaveUpdate
    PROVE  PmgrInv'
<1> USE PmgrNone
<1> DEFINE e == mem.epoch
           b == mem.best
           at == IF mem.cursor = 0 THEN e - 1 ELSE e
<1>1. /\ pc = "saveUpdate" /\ pc' = (IF mem.stop THEN "final" ELSE "update")
      /\ disk' = [disk EXCEPT !.last = Pmgr!Position] /\ UNCHANGED <<score, mem, kills>>
      /\ cuts' = IF mem.stop /\ mem.cursor = 0 THEN cuts \cup {<<"limit", e - 1>>} ELSE cuts
  BY DEF Pmgr!SaveUpdate
<1>2. /\ e \in 1..Epochs + 1 /\ mem.cursor \in 0..Batches - 1
      /\ Pmgr!Position \in Pmgr!Positions /\ Pmgr!Position.epoch = e
      /\ Pmgr!Position.best = b /\ Pmgr!Position # None
      /\ Reached.epoch \in 1..Epochs + 1
  BY <1>1, PmgrFacts
<1>3. /\ Reached.epoch <= at
      /\ Choice(score, b, Compared(Pmgr!Missed, at - 1))
      /\ b = Reached.best /\ BothKept(b)
      /\ mem.cursor = 0 => mem.stop /\ e > 1
      /\ mem.cursor > 0 => e <= Epochs
      /\ ~Pmgr!Complete /\ \A f \in Pmgr!Missed : f < Reached.epoch
  <2>1. Open = at
    BY <1>1 DEF Open
  <2>2. QED
    BY <1>1, <2>1 DEF PmgrInv, PmgrMemory, PmgrFiles, UpdatePoints, EndPoints
<1>4. at \in 1..Epochs
  BY <1>2, <1>3
<1>5. Pmgr!Missed' = IF mem.cursor = 0 /\ Pmgr!Validated(at) THEN Pmgr!Missed \cup {at}
                                                          ELSE Pmgr!Missed
  <2>1. cuts' = IF mem.cursor = 0 THEN cuts \cup {<<"limit", at>>} ELSE cuts
    BY <1>1, <1>3
  <2> HIDE DEF at
  <2>2. QED
    BY <1>4, <2>1 DEF Pmgr!Missed
<1> DEFINE missed == Pmgr!Missed'
<1>6. Reached' = Pmgr!Position
  BY <1>1, <1>2 DEF Reached
<1>7. \A f \in missed : f < e
  <2>1. \A f \in Pmgr!Missed : f \in Nat
    BY DEF Pmgr!Missed
  <2>2. QED
    BY <1>2, <1>3, <1>4, <1>5, <2>1
<1>8. Choice(score, b, Compared(missed, e - 1))
  <2>1. CASE mem.cursor = 0
    <3>1. at = e - 1 /\ at + 1 = e /\ (~Pmgr!Validated(at) \/ at \in missed)
          /\ Pmgr!Missed \subseteq missed
      BY <1>2, <1>5, <2>1
    <3>2. Compared(missed, at) = Compared(Pmgr!Missed, at - 1)
      <4> HIDE DEF at
      <4>1. CASE Pmgr!Validated(at)
        BY <1>4, <1>5, <2>1, <4>1, PmgrCompared
      <4>2. CASE ~Pmgr!Validated(at)
        BY <1>4, <1>5, <2>1, <4>2, PmgrCompared
      <4>3. QED
        BY <4>1, <4>2
    <3>3. QED
      BY <1>3, <3>1, <3>2
  <2>2. CASE mem.cursor # 0
    BY <1>3, <1>5, <2>2
  <2>3. QED
    BY <2>1, <2>2
<1> HIDE DEF missed
<1>9. /\ disk'.best = disk.best /\ disk'.metrics = disk.metrics /\ disk'.summary = disk.summary
      /\ Pmgr!Lost' = Pmgr!Lost
  BY <1>1 DEF Pmgr!Lost
<1>10. PmgrType'
  BY <1>1, <1>2 DEF PmgrInv, PmgrType, Shared, UpdatePoints, ValidatePoints, EndPoints, Maybe
<1>11. PmgrFiles'
  BY <1>1, <1>2, <1>3, <1>6, <1>7, <1>8, <1>9
     DEF PmgrFiles, BothKept, Kept, Pmgr!Complete, missed
<1>12. PmgrMemory'
  <2>1. Open' = e
    BY <1>1 DEF Open
  <2>2. pc' = "update" => e <= Epochs /\ ~mem.stop
    BY <1>1, <1>2, <1>3
  <2>3. pc' \in {"update", "final"} /\ (pc' = "final" => mem.stop)
    BY <1>1
  <2>4. Idle(e, e - 1)
    BY <1>2, IdleNot
  <2>5. QED
    BY <1>1, <1>2, <1>6, <1>8, <1>9, <2>1, <2>2, <2>3, <2>4
       DEF PmgrMemory, missed, UpdatePoints, ValidatePoints, EndPoints
<1>13. QED
  BY <1>10, <1>11, <1>12 DEF PmgrInv

LEMMA PmgrValidates ==
    ASSUME PmgrInv, Pmgr!Validate
    PROVE  PmgrInv'
<1> USE PmgrNone
<1> DEFINE n == mem.epoch - 1
           b == mem.best
<1>1. PICK new \in Scores :
         /\ pc = "validate"
         /\ pc' = (IF b = None \/ new > score[b] THEN "saveBest" ELSE "saveEpoch")
         /\ score' = [score EXCEPT ![n] = new]
         /\ mem' = [mem EXCEPT !.best = IF b = None \/ new > score[b] THEN n ELSE b]
         /\ UNCHANGED <<disk, kills, cuts>>
  BY DEF Pmgr!Validate, Pmgr!Evaluates, Pmgr!Improves
<1> DEFINE better == b = None \/ new > score[b]
<1>2. /\ b = Reached.best /\ Reached.epoch <= n /\ Pmgr!Validated(n) /\ ~mem.stop
      /\ Choice(score, b, Compared(Pmgr!Missed, n - 1))
      /\ Idle(Reached.epoch, n - 1) /\ BothKept(b)
      /\ Choice(score, Reached.best, Compared(Pmgr!Missed, Reached.epoch - 1))
      /\ mem.epoch > 1 /\ ~Pmgr!Complete /\ \A f \in Pmgr!Missed : f < Reached.epoch
      /\ mem \in [epoch : 1..Epochs + 1, cursor : 0..Batches - 1, best : Maybe(1..Epochs),
                  limit : Pmgr!Limits, stop : BOOLEAN, updated : BOOLEAN]
  <2>1. Open = n
    BY <1>1 DEF Open
  <2>2. QED
    BY <1>1, <2>1 DEF PmgrInv, PmgrType, PmgrMemory, PmgrFiles, UpdatePoints, ValidatePoints,
       EndPoints
<1>3. /\ n \in 1..Epochs /\ n + 1 = mem.epoch /\ n - 1 = mem.epoch - 2
      /\ n \notin Pmgr!Missed /\ Reached.epoch \in 1..n
  <2>1. mem.epoch \in 1..Epochs + 1 /\ Reached.epoch \in 1..Epochs + 1
    BY <1>1, PmgrFacts
  <2>2. n \in 1..Epochs /\ n + 1 = mem.epoch /\ n - 1 = mem.epoch - 2
    BY <1>2, <2>1
  <2>3. n \notin Pmgr!Missed
    BY <1>2, <2>1, <2>2
  <2>4. QED
    BY <1>2, <2>1, <2>2, <2>3
<1>4. Pmgr!Missed' = Pmgr!Missed /\ Reached' = Reached /\ Pmgr!Lost' = Pmgr!Lost
  BY <1>1 DEF Pmgr!Missed, Reached, Pmgr!Lost
<1>5. /\ mem'.epoch = mem.epoch /\ mem'.cursor = mem.cursor /\ mem'.stop = mem.stop
      /\ mem'.best = (IF better THEN n ELSE b)
      /\ mem' \in [epoch : 1..Epochs + 1, cursor : 0..Batches - 1, best : Maybe(1..Epochs),
                   limit : Pmgr!Limits, stop : BOOLEAN, updated : BOOLEAN]
  <2> DEFINE best == IF better THEN n ELSE b
  <2>1. best \in Maybe(1..Epochs)
    BY <1>2, <1>3 DEF Maybe
  <2>2. mem' = [mem EXCEPT !.best = best]
    BY <1>1
  <2> HIDE DEF best
  <2>3. /\ mem'.best = best /\ mem'.epoch = mem.epoch /\ mem'.cursor = mem.cursor
        /\ mem'.stop = mem.stop
        /\ mem' \in [epoch : 1..Epochs + 1, cursor : 0..Batches - 1, best : Maybe(1..Epochs),
                     limit : Pmgr!Limits, stop : BOOLEAN, updated : BOOLEAN]
    BY <1>2, <2>1, <2>2
  <2>4. QED
    BY <2>3 DEF best
<1> HIDE DEF n, better
<1>6. /\ score' \in [1..Epochs -> Marks] /\ score'[n] = new /\ new # 0
      /\ \A f \in 1..Epochs : f # n => score'[f] = score[f]
  <2>1. score \in [1..Epochs -> Marks]
    BY PmgrFacts
  <2>2. QED
    BY <1>1, <1>3, <2>1, Evaluation DEF n
\* The scores of the epochs before it are those they were compared with.
<1>7. ASSUME NEW k \in 1..n
      PROVE  \A f \in Compared(Pmgr!Missed, k - 1) : score'[f] = score[f]
  BY <1>3, <1>6 DEF Compared
<1>8. /\ Choice(score', b, Compared(Pmgr!Missed, n - 1))
      /\ Choice(score', Reached.best, Compared(Pmgr!Missed, Reached.epoch - 1))
  <2>1. /\ \A f \in Compared(Pmgr!Missed, n - 1) : score'[f] = score[f]
        /\ \A f \in Compared(Pmgr!Missed, Reached.epoch - 1) : score'[f] = score[f]
    BY <1>3, <1>7
  <2>2. QED
    BY <1>2, <2>1, ChoiceAlike DEF n
<1>9. better <=> b = None \/ score'[n] > score'[b]
  <2>1. b # None => b \in Compared(Pmgr!Missed, n - 1)
    BY <1>2 DEF Choice, Leads, n
  <2>2. b # None => score'[b] = score[b]
    BY <1>3, <1>7, <2>1
  <2>3. QED
    BY <1>6, <2>2 DEF better
<1>10. Choice(score', mem'.best, Compared(Pmgr!Missed, n))
  <2>1. /\ Compared(Pmgr!Missed, n) = Compared(Pmgr!Missed, n - 1) \cup {n}
        /\ Compared(Pmgr!Missed, n - 1) \in SUBSET (1..Epochs)
        /\ \A f \in Compared(Pmgr!Missed, n - 1) : f < n
    BY <1>2, <1>3, PmgrCompared DEF n
  <2>2. IF b = None \/ score'[n] > score'[b]
           THEN Choice(score', n, Compared(Pmgr!Missed, n - 1) \cup {n})
           ELSE Choice(score', b, Compared(Pmgr!Missed, n - 1) \cup {n})
    BY <1>3, <1>6, <1>8, <2>1, ChoiceNext
  <2>3. QED
    BY <1>5, <1>9, <2>1, <2>2
<1>11. PmgrType'
  BY <1>1, <1>5, <1>6 DEF PmgrInv, PmgrType, Shared, UpdatePoints, ValidatePoints, EndPoints
<1>12. PmgrFiles'
  <2>1. (BothKept(Reached.best) /\ Kept(disk.metrics, Reached.best))'
    BY <1>1, <1>2, <1>4 DEF BothKept, Kept
  <2>2. QED
    BY <1>1, <1>2, <1>4, <1>8, <2>1 DEF PmgrFiles, Pmgr!Complete
<1>13. PmgrMemory'
  <2>1. /\ pc' \in {"saveBest", "saveEpoch"} /\ (mem'.epoch - 1) = n
        /\ mem'.best = n \/ (pc' = "saveEpoch" /\ mem'.best = Reached.best)
    BY <1>1, <1>2, <1>5 DEF n, better
  <2>2. pc' = "saveEpoch" => BothKept(mem.best)'
    BY <1>1, <1>2, <1>4, <1>5 DEF BothKept, Kept, better
  <2>3. mem'.epoch > 1 /\ Pmgr!Validated(n) /\ ~mem'.stop /\ Reached.epoch <= n
        /\ Idle(Reached.epoch, mem'.epoch - 2)
    BY <1>2, <1>3, <1>5 DEF n
  <2>4. QED
    BY <1>4, <1>6, <1>10, <2>1, <2>2, <2>3
       DEF PmgrMemory, UpdatePoints, ValidatePoints, EndPoints
<1>14. QED
  BY <1>11, <1>12, <1>13 DEF PmgrInv

LEMMA PmgrSavesBest ==
    ASSUME PmgrInv, Pmgr!SaveBest \/ Pmgr!SaveMetrics
    PROVE  PmgrInv'
<1> USE PmgrNone
<1> DEFINE b == mem.best
<1>1. /\ UNCHANGED <<score, mem, kills, cuts>>
      /\ \/ pc = "saveBest" /\ pc' = "saveMetrics" /\ disk' = [disk EXCEPT !.best = b]
         \/ pc = "saveMetrics" /\ pc' = "saveEpoch" /\ disk' = [disk EXCEPT !.metrics = b]
  BY DEF Pmgr!SaveBest, Pmgr!SaveMetrics, Pmgr!Step, Pmgr!Writes
<1>2. /\ b = mem.epoch - 1 /\ mem.epoch > 1 /\ Pmgr!Validated(b) /\ ~mem.stop
      /\ Idle(Reached.epoch, mem.epoch - 2)
      /\ Reached.epoch <= b /\ Choice(score, b, Compared(Pmgr!Missed, b))
      /\ score[b] # 0
      /\ pc = "saveBest" => Kept(disk.metrics, Reached.best)
      /\ pc = "saveMetrics" => disk.best = b
      /\ ~Pmgr!Complete
  BY <1>1 DEF PmgrInv, PmgrMemory, PmgrFiles, BothKept, ValidatePoints, EndPoints
<1>3. b \in 1..Epochs /\ b \in Maybe(1..Epochs)
  <2>1. mem.epoch \in 1..Epochs + 1
    BY <1>1, PmgrFacts
  <2>2. QED
    BY <1>2, <2>1 DEF Maybe
<1>4. /\ disk'.last = disk.last /\ disk'.summary = disk.summary
      /\ disk'.best \in {disk.best, b} /\ disk'.metrics \in {disk.metrics, b}
      /\ pc' = "saveEpoch" => disk'.best = b /\ disk'.metrics = b
      /\ pc' = "saveMetrics" => disk'.best = b /\ disk'.metrics = disk.metrics
  <2>1. DOMAIN disk = {"last", "best", "metrics", "summary"}
    BY DEF PmgrInv, PmgrType
  <2>2. QED
    BY <1>1, <1>2, <2>1
<1>5. Pmgr!Missed' = Pmgr!Missed /\ Reached' = Reached /\ Pmgr!Lost' = Pmgr!Lost
  BY <1>1, <1>4 DEF Pmgr!Missed, Reached, Pmgr!Lost
<1>6. PmgrType'
  BY <1>1, <1>3 DEF PmgrInv, PmgrType, Shared, UpdatePoints, ValidatePoints, EndPoints
<1>7. PmgrFiles'
  BY <1>1, <1>2, <1>4, <1>5 DEF PmgrInv, PmgrFiles, Kept, Pmgr!Complete
<1>8. PmgrMemory'
  BY <1>1, <1>2, <1>4, <1>5
     DEF PmgrMemory, BothKept, Kept, UpdatePoints, ValidatePoints, EndPoints
<1>9. QED
  BY <1>6, <1>7, <1>8 DEF PmgrInv

LEMMA PmgrSavesEpoch ==
    ASSUME PmgrInv, Pmgr!SaveEpoch \/ Pmgr!SaveFinal
    PROVE  PmgrInv'
<1> USE PmgrNone
<1> DEFINE e == mem.epoch
           b == mem.best
<1>1. /\ pc \in {"saveEpoch", "final"} /\ UNCHANGED <<score, mem, kills, cuts>>
      /\ disk' = [disk EXCEPT !.last = Pmgr!Position]
      /\ pc' = IF pc = "final" THEN "summary" ELSE IF e - 1 < Epochs THEN "update" ELSE "final"
  BY DEF Pmgr!SaveEpoch, Pmgr!SaveFinal, Pmgr!Step, Pmgr!Writes, Pmgr!AfterEpoch
<1>2. /\ e \in 1..Epochs + 1 /\ b \in Maybe(1..Epochs)
      /\ Pmgr!Position \in Pmgr!Positions /\ Pmgr!Position.epoch = e
      /\ Pmgr!Position.best = b /\ Pmgr!Position # None
      /\ Reached.epoch \in 1..Epochs + 1 /\ (disk.last # None => Reached = disk.last)
  BY <1>1, PmgrFacts
<1>3. /\ Reached.epoch <= e /\ Choice(score, b, Compared(Pmgr!Missed, e - 1))
      /\ BothKept(b)
      /\ pc = "saveEpoch" => ~mem.stop /\ ~Pmgr!Complete
      /\ pc = "final" /\ ~mem.stop => e = Epochs + 1
      /\ Pmgr!Complete => /\ ~mem.stop /\ disk.last # None
                          /\ disk.summary.best = disk.last.best
      /\ pc = "final" => b = Reached.best
      /\ \A f \in Pmgr!Missed : f < Reached.epoch
  <2>1. CASE pc = "saveEpoch"
    <3>1. Reached.epoch <= e - 1
      BY <2>1 DEF PmgrInv, PmgrMemory, ValidatePoints
    <3>2. Reached.epoch <= e
      BY <1>2, <3>1
    <3>3. QED
      BY <2>1, <3>2 DEF PmgrInv, PmgrMemory, PmgrFiles, ValidatePoints, EndPoints
  <2>2. CASE pc = "final"
    <3>1. Open = e
      BY <2>2 DEF Open
    <3>2. QED
      BY <2>2, <3>1 DEF PmgrInv, PmgrMemory, PmgrFiles, UpdatePoints, EndPoints
  <2>3. QED
    BY <1>1, <2>1, <2>2
<1>4. /\ Pmgr!Missed' = Pmgr!Missed /\ Pmgr!Lost' = Pmgr!Lost
      /\ Reached' = Pmgr!Position /\ Pmgr!Position' = Pmgr!Position
  BY <1>1, <1>2 DEF Pmgr!Missed, Pmgr!Lost, Reached, Pmgr!Position
<1>5. \A f \in Pmgr!Missed : f < e
  <2>1. \A f \in Pmgr!Missed : f \in Nat
    BY DEF Pmgr!Missed
  <2>2. QED
    BY <1>2, <1>3, <2>1
<1>6. /\ disk'.last = Pmgr!Position /\ disk'.best = disk.best /\ disk'.metrics = disk.metrics
      /\ disk'.summary = disk.summary
  <2>1. DOMAIN disk = {"last", "best", "metrics", "summary"}
    BY DEF PmgrInv, PmgrType
  <2>2. QED
    BY <1>1, <2>1
<1>7. PmgrType'
  BY <1>1, <1>2 DEF PmgrInv, PmgrType, Shared, UpdatePoints, ValidatePoints, EndPoints, Maybe
<1>8. PmgrFiles'
  <2>1. Pmgr!Complete' => /\ pc' = "summary" /\ ~mem.stop /\ e = Epochs + 1
                          /\ disk.summary.best = b
    BY <1>1, <1>2, <1>3, <1>6 DEF Pmgr!Complete
  <2>2. QED
    BY <1>1, <1>2, <1>3, <1>4, <1>5, <1>6, <2>1
       DEF PmgrFiles, BothKept, Kept, EndPoints
<1>9. PmgrMemory'
  <2>1. CASE pc' = "update"
    <3>1. e <= Epochs /\ ~mem.stop /\ Open' = e /\ Idle(e, e - 1)
      BY <1>1, <1>2, <1>3, <2>1, IdleNot DEF Open
    <3>2. QED
      BY <1>1, <1>2, <1>3, <1>4, <1>6, <2>1, <3>1
         DEF PmgrMemory, UpdatePoints, ValidatePoints, EndPoints
  <2>2. CASE pc' = "final"
    <3>1. e = Epochs + 1 /\ Open' = e /\ Idle(e, e - 1)
      BY <1>1, <1>2, <2>2, IdleNot DEF Open
    <3>2. QED
      BY <1>1, <1>2, <1>3, <1>4, <1>6, <2>2, <3>1
         DEF PmgrMemory, UpdatePoints, ValidatePoints, EndPoints
  <2>3. CASE pc' = "summary"
    BY <1>1, <1>2, <1>3, <1>4, <2>3
       DEF PmgrMemory, UpdatePoints, ValidatePoints, EndPoints
  <2>4. QED
    BY <1>1, <2>1, <2>2, <2>3
<1>10. QED
  BY <1>7, <1>8, <1>9 DEF PmgrInv

LEMMA PmgrSummarises ==
    ASSUME PmgrInv, Pmgr!Summary
    PROVE  PmgrInv'
<1> USE PmgrNone
<1> DEFINE status == IF mem.stop THEN "max_updates_reached" ELSE "training_complete"
           summary == [status |-> status, best |-> mem.best, parity |-> mem.updated]
<1>1. /\ pc = "summary" /\ pc' = (IF mem.stop THEN "down" ELSE "judge")
      /\ disk' = [disk EXCEPT !.summary = summary]
      /\ mem' = (IF mem.stop THEN None ELSE mem) /\ UNCHANGED <<score, kills, cuts>>
  BY DEF Pmgr!Summary, Pmgr!Step
<1>2. mem \in [epoch : 1..Epochs + 1, cursor : 0..Batches - 1, best : Maybe(1..Epochs),
               limit : Pmgr!Limits, stop : BOOLEAN, updated : BOOLEAN]
  BY <1>1 DEF PmgrInv, PmgrType
<1>3. /\ summary \in Pmgr!Summaries /\ summary # None /\ summary.status = status
      /\ summary.best = mem.best
  <2>1. summary \in Pmgr!Summaries
    BY <1>2 DEF Pmgr!Summaries, Pmgr!Maybe, Maybe
  <2>2. QED
    BY <2>1
<1>4. Pmgr!Missed' = Pmgr!Missed /\ Reached' = Reached /\ Pmgr!Lost' = Pmgr!Lost
  <2>1. disk'.last = disk.last
    BY <1>1 DEF PmgrInv, PmgrType
  <2>2. QED
    BY <1>1, <2>1 DEF Pmgr!Missed, Reached, Pmgr!Lost
<1> HIDE DEF summary
<1>5. /\ disk'.last = disk.last /\ disk'.best = disk.best /\ disk'.metrics = disk.metrics
      /\ disk'.summary = summary
  <2>1. DOMAIN disk = {"last", "best", "metrics", "summary"}
    BY DEF PmgrInv, PmgrType
  <2>2. QED
    BY <1>1, <2>1
<1>6. /\ Reached = Pmgr!Position /\ (~mem.stop => mem.epoch = Epochs + 1)
  BY <1>1 DEF PmgrInv, PmgrMemory, EndPoints
<1>7. ~mem.stop => /\ disk.last # None /\ disk.last.epoch = Epochs + 1
                   /\ disk.last.best = mem.best
  <2>1. Reached.epoch = mem.epoch /\ Reached.best = mem.best
    BY <1>6 DEF Pmgr!Position
  <2>2. disk.last = None => Reached.epoch = 1
    BY DEF Reached
  <2>3. disk.last # None => Reached = disk.last
    BY PmgrFacts
  <2>4. QED
    BY <1>6, <2>1, <2>2, <2>3
<1>8. Pmgr!Complete' <=> ~mem.stop
  BY <1>3, <1>5 DEF Pmgr!Complete
<1>9. PmgrType'
  BY <1>1, <1>2, <1>3 DEF PmgrInv, PmgrType, Shared, EndPoints, Maybe
<1>10. PmgrFiles'
  BY <1>1, <1>3, <1>4, <1>5, <1>7, <1>8
     DEF PmgrInv, PmgrFiles, BothKept, Kept, EndPoints
<1>11. PmgrMemory'
  <2>1. CASE mem.stop
    BY <1>1, <2>1 DEF PmgrMemory, UpdatePoints, ValidatePoints, EndPoints
  <2>2. CASE ~mem.stop
    <3>1. Pmgr!Position' = Pmgr!Position
      BY <1>1, <2>2 DEF Pmgr!Position
    <3>2. QED
      BY <1>1, <1>4, <1>6, <2>2, <3>1 DEF PmgrMemory, UpdatePoints, ValidatePoints, EndPoints
  <2>3. QED
    BY <2>1, <2>2
<1>12. QED
  BY <1>9, <1>10, <1>11 DEF PmgrInv

\* The steps that touch no file.
LEMMA PmgrRests ==
    ASSUME PmgrInv,
           Pmgr!Judge \/ Pmgr!SkipComplete \/ Pmgr!Kill \/ UNCHANGED tvars
    PROVE  PmgrInv'
<1> USE PmgrNone
<1>1. CASE UNCHANGED tvars
  <2>1. UNCHANGED <<score, pc, mem, disk, kills, cuts>>
    BY <1>1 DEF tvars
  <2>2. /\ Pmgr!Missed' = Pmgr!Missed /\ Reached' = Reached /\ Open' = Open
        /\ Pmgr!Position' = Pmgr!Position /\ Pmgr!Lost' = Pmgr!Lost
    BY <2>1 DEF Pmgr!Missed, Reached, Open, Pmgr!Position, Pmgr!Lost
  <2>3. QED
    BY <2>1, <2>2 DEF PmgrInv, PmgrType, PmgrMemory, PmgrFiles, Shared, BothKept, Kept,
       Pmgr!Complete
<1>2. CASE Pmgr!Judge \/ Pmgr!SkipComplete \/ Pmgr!Kill
  <2>1. /\ score' = score /\ disk' = disk /\ pc' \in {"down", "done"}
        /\ \/ kills' = kills /\ cuts' = cuts
           \/ kills < MaxKills /\ kills' = kills + 1 /\ pc # "down" /\ pc # "done"
              /\ cuts' = cuts \cup {<<pc, mem.epoch>>}
    BY <1>2 DEF Pmgr!Judge, Pmgr!SkipComplete, Pmgr!Kill, Pmgr!Cut, Pmgr!Step, Pmgr!Silent,
       Pmgr!Dies
  <2>2. pc # "limit"
    BY DEF PmgrInv, PmgrType, UpdatePoints, ValidatePoints, EndPoints
  <2>3. Pmgr!Missed' = Pmgr!Missed /\ Reached' = Reached
    BY <2>1, <2>2 DEF Pmgr!Missed, Reached
  <2>4. pc \in {"saveMetrics", "saveEpoch"} => cuts' = cuts \cup {<<pc, mem.epoch>>}
    BY <1>2 DEF Pmgr!Judge, Pmgr!SkipComplete, Pmgr!Kill, Pmgr!Cut, Pmgr!Step
  <2>5. kills' \in 0..MaxKills
    BY <2>1, PmgrFacts
  <2>6. PmgrType'
    BY <2>1, <2>5 DEF PmgrInv, PmgrType, Shared
  <2>7. PmgrMemory'
    BY <2>1 DEF PmgrMemory, UpdatePoints, ValidatePoints, EndPoints
  <2>8. BothKept(Reached.best)'
    <3>1. Pmgr!Lost \subseteq Pmgr!Lost' /\ disk' = disk /\ Reached'.best = Reached.best
      BY <2>1, <2>3 DEF Pmgr!Lost
    <3>2. ASSUME pc \in {"saveMetrics", "saveEpoch"}
          PROVE  /\ mem.epoch - 1 \in Pmgr!Lost'
                 /\ Reached.best = None \/ mem.epoch - 1 > Reached.best
      <4>1. /\ mem.epoch \in 1..Epochs + 1 /\ mem.epoch > 1 /\ Reached.epoch <= mem.epoch - 1
            /\ Reached.epoch \in 1..Epochs + 1 /\ Reached.best \in Maybe(1..Epochs)
        BY <3>2, PmgrFacts DEF PmgrInv, PmgrMemory, ValidatePoints
      <4>2. <<pc, (mem.epoch - 1) + 1>> \in cuts' /\ mem.epoch - 1 \in 1..Epochs
        <5>1. (mem.epoch - 1) + 1 = mem.epoch /\ mem.epoch - 1 \in 1..Epochs
          BY <4>1
        <5>2. cuts' = cuts \cup {<<pc, mem.epoch>>}
          BY <2>1, <2>4, <3>2
        <5>3. QED
          BY <5>1, <5>2
      <4>3. mem.epoch - 1 \in Pmgr!Lost'
        BY <3>2, <4>2 DEF Pmgr!Lost
      <4>4. Reached.best # None => Reached.best < Reached.epoch /\ Reached.best \in 1..Epochs
        BY <4>1 DEF PmgrInv, PmgrFiles, Choice, Leads, Compared, Maybe
      <4>5. QED
        BY <4>1, <4>3, <4>4
    <3>3. CASE pc \notin {"saveMetrics", "saveEpoch"}
      BY <3>1, <3>3 DEF PmgrInv, PmgrFiles, BothKept, Kept
    <3>4. CASE pc = "saveMetrics"
      <4>1. disk.best = mem.epoch - 1 /\ Kept(disk.metrics, Reached.best)
        BY <3>4 DEF PmgrInv, PmgrMemory, PmgrFiles, ValidatePoints
      <4>2. QED
        BY <3>1, <3>2, <3>4, <4>1 DEF BothKept, Kept
    <3>5. CASE pc = "saveEpoch"
      <4>1. BothKept(mem.best) /\ mem.best \in {mem.epoch - 1, Reached.best}
        BY <3>5 DEF PmgrInv, PmgrMemory, ValidatePoints
      <4>2. CASE mem.best = Reached.best
        BY <3>1, <4>1, <4>2 DEF BothKept, Kept
      <4>3. CASE mem.best = mem.epoch - 1
        <5>1. ASSUME NEW x, Kept(x, mem.epoch - 1)
              PROVE  x \in Pmgr!Lost' /\ (Reached.best = None \/ x > Reached.best)
          <6>1. x = mem.epoch - 1 \/ (x \in Pmgr!Lost' /\ x \in Nat /\ x > mem.epoch - 1)
            <7>1. mem.epoch - 1 \in Nat /\ mem.epoch - 1 # None
              BY <3>2, <3>5 DEF Pmgr!Lost
            <7>2. QED
              BY <3>1, <5>1, <7>1 DEF Kept, Pmgr!Lost
          <6>2. mem.epoch - 1 \in Nat /\ (Reached.best # None => Reached.best \in Nat)
            BY <3>2, <3>5, PmgrFacts DEF Pmgr!Lost, Maybe
          <6>3. QED
            BY <3>2, <3>5, <6>1, <6>2
        <5>2. QED
          BY <3>1, <4>1, <4>3, <5>1 DEF BothKept, Kept
      <4>4. QED
        BY <4>1, <4>2, <4>3
    <3>6. QED
      BY <3>3, <3>4, <3>5
  <2>9. PmgrFiles'
    BY <2>1, <2>3, <2>8 DEF PmgrInv, PmgrFiles, Pmgr!Complete, EndPoints
  <2>10. QED
    BY <2>6, <2>7, <2>9 DEF PmgrInv
<1>3. QED
  BY <1>1, <1>2

LEMMA PmgrKept ==
    ASSUME PmgrInv, Pmgr!Work \/ Pmgr!Kill \/ UNCHANGED tvars
    PROVE  PmgrInv'
BY PmgrLaunches, PmgrUpdates, PmgrSavesUpdate, PmgrValidates, PmgrSavesBest, PmgrSavesEpoch,
   PmgrSummarises, PmgrRests DEF Pmgr!Work

LEMMA PmgrIsWhole == ASSUME PmgrInv PROVE Pmgr!Whole
<1> USE PmgrNone
<1> DEFINE best == disk.last.best
           kept == {best} \cup {e \in Pmgr!Lost : e > best}
<1>1. ASSUME disk.last # None, best # None
      PROVE  /\ disk.best \in kept \cup Pmgr!Under({"saveMetrics", "saveEpoch"})
             /\ disk.metrics \in kept \cup Pmgr!Under({"saveEpoch"})
  <2>1. Reached.best = best /\ Reached.epoch \in 1..Epochs + 1 /\ best \in 1..Epochs
    BY <1>1, PmgrFacts DEF Maybe
  <2>2. \A x : Kept(x, best) => x \in kept
    BY <1>1 DEF Kept
  <2>3. CASE pc \notin {"saveMetrics", "saveEpoch"}
    BY <2>1, <2>2, <2>3 DEF PmgrInv, PmgrFiles, BothKept
  <2>4. CASE pc = "saveMetrics"
    BY <2>1, <2>2, <2>4 DEF PmgrInv, PmgrFiles, PmgrMemory, Pmgr!Under
  <2>5. CASE pc = "saveEpoch"
    <3>1. BothKept(mem.best) /\ mem.best \in {mem.epoch - 1, best}
          /\ Reached.epoch <= mem.epoch - 1 /\ mem.epoch \in 1..Epochs + 1
      BY <2>1, <2>5, PmgrFacts DEF PmgrInv, PmgrMemory, ValidatePoints
    <3>2. best < Reached.epoch
      BY <1>1, <2>1 DEF PmgrInv, PmgrFiles, Choice, Leads, Compared
    <3>3. mem.best # None /\ mem.best \in Nat /\ best \in Nat /\ best <= mem.best
      BY <2>1, <3>1, <3>2
    <3>4. ASSUME NEW x, Kept(x, mem.best)
          PROVE  x \in kept \cup {mem.best}
      <4>1. x # mem.best => x \in Pmgr!Lost /\ x > mem.best /\ x \in Nat
        BY <3>3, <3>4 DEF Kept, Pmgr!Lost
      <4>2. QED
        BY <3>3, <4>1
    <3>5. QED
      BY <2>5, <3>1, <3>4 DEF BothKept, Pmgr!Under
  <2>6. QED
    BY <2>3, <2>4, <2>5
<1>2. Pmgr!Complete => disk.last.epoch = Epochs + 1 /\ disk.last.best = disk.summary.best
  BY DEF PmgrInv, PmgrFiles
<1>3. QED
  BY <1>1, <1>2 DEF Pmgr!Whole

LEMMA PmgrCommits ==
    ASSUME NEW s, NEW r \in 1..Epochs + 1, NEW e \in 1..Epochs + 1, r <= e, Idle(r, e - 2),
           NEW m, NEW n,
           \/ n = m /\ (r < e /\ Pmgr!Validated(e - 1) => s[e - 1] # 0)
           \/ r < e /\ n = m \cup {e - 1} /\ Pmgr!Validated(e - 1)
    PROVE  Moves(Pmgr!Candidates, s, r - 1, e - 1, m, n, None, None)
<1> USE PmgrNone
<1>1. CASE r = e
  BY <1>1 DEF Moves, Stays
<1>2. CASE r < e
  <2>1. e - 1 \in (r - 1 + 1)..Epochs /\ e - 1 \in 1..Epochs
    BY <1>2
  <2>2. ASSUME NEW f \in (r - 1 + 1)..(e - 1 - 1)
        PROVE  f \notin Pmgr!Candidates
    <3>1. f \in 1..Epochs /\ f \in r..(e - 2)
      BY <1>2, <2>2
    <3>2. QED
      BY <3>1 DEF Idle, Pmgr!Candidates
  <2>3. e - 1 \in Pmgr!Candidates <=> Pmgr!Validated(e - 1)
    BY <2>1 DEF Pmgr!Candidates
  <2>4. QED
    BY <1>2, <2>1, <2>2, <2>3 DEF Moves, Commits
<1>3. QED
  BY <1>1, <1>2

LEMMA PmgrCommitted ==
    ASSUME PmgrInv
    PROVE  Pmgr!Committed = Reached.epoch - 1
<1> USE PmgrNone
<1>1. disk.last = None => Reached.epoch = 1
  BY DEF Reached
<1>2. QED
  BY <1>1, PmgrFacts DEF Pmgr!Committed

LEMMA PmgrMoves ==
    ASSUME PmgrInv, Pmgr!Work \/ Pmgr!Kill \/ UNCHANGED tvars
    PROVE  Moves(Pmgr!Candidates, score', Pmgr!Committed, Pmgr!Committed',
                 Pmgr!Missed, Pmgr!Missed', Pmgr!Result, Pmgr!Result')
<1> USE PmgrNone
<1>0. DOMAIN disk = {"last", "best", "metrics", "summary"}
  BY DEF PmgrInv, PmgrType
<1> DEFINE Same == /\ disk'.last = disk.last /\ disk'.summary = disk.summary
                   /\ Pmgr!Missed' = Pmgr!Missed
           r == Reached.epoch
           e == mem.epoch
           m == Pmgr!Missed
           n == Pmgr!Missed'
<1>1. Pmgr!SaveUpdate \/ Pmgr!SaveEpoch \/ Pmgr!SaveFinal \/ Pmgr!Summary \/ Same
  <2>1. CASE \E limit \in Pmgr!Limits : Pmgr!Start(limit) \/ Pmgr!Resume(limit)
    BY <2>1 DEF Pmgr!Start, Pmgr!Resume, Pmgr!Launch, Pmgr!Missed
  <2>2. CASE Pmgr!Update \/ Pmgr!Validate \/ Pmgr!SkipComplete \/ Pmgr!Judge \/ UNCHANGED tvars
    BY <2>2 DEF Pmgr!Update, Pmgr!Validate, Pmgr!SkipComplete, Pmgr!Judge, Pmgr!Step,
       Pmgr!Evaluates, Pmgr!Silent, Pmgr!Dies, Pmgr!Missed, tvars
  <2>3. CASE Pmgr!SaveBest \/ Pmgr!SaveMetrics
    BY <1>0, <2>3 DEF Pmgr!SaveBest, Pmgr!SaveMetrics, Pmgr!Step, Pmgr!Writes, Pmgr!Missed
  <2>4. CASE Pmgr!Kill
    <3>1. disk' = disk /\ cuts' = cuts \cup {<<pc, mem.epoch>>} /\ pc # "limit"
      BY <2>4 DEF Pmgr!Kill, Pmgr!Cut, PmgrInv, PmgrType, UpdatePoints, ValidatePoints,
         EndPoints
    <3>2. \A f : <<"limit", f>> \in cuts' <=> <<"limit", f>> \in cuts
      BY <3>1
    <3>3. Pmgr!Missed' = Pmgr!Missed
      BY <3>2 DEF Pmgr!Missed
    <3>4. QED
      BY <3>1, <3>3
  <2>5. QED
    BY <2>1, <2>2, <2>3, <2>4 DEF Pmgr!Work
<1>2. Pmgr!Committed = r - 1
  BY PmgrCommitted
<1>3. CASE Pmgr!SaveUpdate \/ Pmgr!SaveEpoch \/ Pmgr!SaveFinal
  <2>1. /\ pc \in {"saveUpdate", "saveEpoch", "final"}
        /\ disk' = [disk EXCEPT !.last = Pmgr!Position] /\ UNCHANGED <<score, mem>>
        /\ cuts' = IF pc = "saveUpdate" /\ mem.stop /\ mem.cursor = 0
                      THEN cuts \cup {<<"limit", e - 1>>} ELSE cuts
    BY <1>3 DEF Pmgr!SaveUpdate, Pmgr!SaveEpoch, Pmgr!SaveFinal, Pmgr!Step, Pmgr!Writes
  <2>2. /\ disk'.last = Pmgr!Position /\ disk'.summary = disk.summary
    BY <1>0, <2>1
  <2>3. /\ e \in 1..Epochs + 1 /\ r \in 1..Epochs + 1 /\ Pmgr!Position # None
        /\ Pmgr!Position.epoch = e /\ mem.cursor \in 0..Batches - 1
    BY <2>1, PmgrFacts
  <2>4. Pmgr!Committed' = e - 1
    BY <2>2, <2>3 DEF Pmgr!Committed
  <2>5. Pmgr!Result' = Pmgr!Result /\ (~Pmgr!Complete => Pmgr!Result = None)
    BY <2>2 DEF Pmgr!Result, Pmgr!Complete
  <2>6. CASE pc = "saveUpdate"
    <3>1. mem.cursor = 0 => mem.stop /\ e > 1
      BY <2>6 DEF PmgrInv, PmgrMemory
    <3>2. Open = IF mem.cursor = 0 THEN e - 1 ELSE e
      BY <2>6 DEF Open
    <3>3. r <= Open /\ Idle(r, Open - 1) /\ ~Pmgr!Complete
      BY <2>6 DEF PmgrInv, PmgrMemory, PmgrFiles, UpdatePoints, EndPoints
    <3>4. r <= e /\ Idle(r, e - 2) /\ (mem.cursor = 0 => r < e)
      BY <2>3, <3>1, <3>2, <3>3 DEF Idle
    <3>5. \/ n = m /\ (r < e => ~Pmgr!Validated(e - 1))
          \/ r < e /\ n = m \cup {e - 1} /\ Pmgr!Validated(e - 1)
      <4>1. CASE mem.cursor = 0
        <5>1. cuts' = cuts \cup {<<"limit", e - 1>>} /\ e - 1 \in 1..Epochs
          BY <2>1, <2>3, <2>6, <3>1, <4>1
        <5>2. n = IF Pmgr!Validated(e - 1) THEN m \cup {e - 1} ELSE m
          BY <5>1 DEF Pmgr!Missed
        <5>3. QED
          BY <3>4, <4>1, <5>2
      <4>2. CASE mem.cursor # 0
        <5>1. n = m
          BY <2>1, <4>2 DEF Pmgr!Missed
        <5>2. r < e => ~Pmgr!Validated(e - 1)
          BY <2>3, <3>2, <3>3, <4>2 DEF Idle
        <5>3. QED
          BY <5>1, <5>2
      <4>3. QED
        BY <4>1, <4>2
    <3> HIDE DEF r, e, m, n
    <3>6. Moves(Pmgr!Candidates, score', r - 1, e - 1, m, n, None, None)
      BY <2>3, <3>4, <3>5, PmgrCommits
    <3>7. QED
      BY <1>2, <2>4, <2>5, <3>3, <3>6 DEF m, n
  <2>7. CASE pc # "saveUpdate"
    <3>1. n = m
      BY <2>1, <2>7 DEF Pmgr!Missed
    <3>2. /\ r <= e /\ Idle(r, e - 2) /\ (Pmgr!Complete => r = e)
          /\ r < e /\ Pmgr!Validated(e - 1) => score'[e - 1] # 0
      <4>1. CASE pc = "saveEpoch"
        <5>1. r <= e - 1 /\ Idle(r, e - 2) /\ ~Pmgr!Complete /\ score'[e - 1] # 0
          BY <2>1, <4>1 DEF PmgrInv, PmgrMemory, PmgrFiles, ValidatePoints, EndPoints
        <5>2. QED
          BY <2>3, <5>1
      <4>2. CASE pc = "final"
        <5>1. Open = e
          BY <4>2 DEF Open
        <5>2. r <= e /\ Idle(r, e - 1)
          BY <4>2, <5>1 DEF PmgrInv, PmgrMemory
        <5>3. Pmgr!Complete => r = Epochs + 1
          BY PmgrFacts DEF PmgrInv, PmgrFiles
        <5>4. QED
          BY <2>3, <5>2, <5>3 DEF Idle
      <4>3. QED
        BY <2>1, <2>7, <4>1, <4>2
    <3> HIDE DEF r, e, m, n
    <3>3. Moves(Pmgr!Candidates, score', r - 1, e - 1, m, n, None, None)
      BY <2>3, <3>1, <3>2, PmgrCommits
    <3>4. CASE Pmgr!Complete
      BY <1>2, <2>4, <2>5, <3>1, <3>2, <3>4 DEF Moves, Stays, m, n
    <3>5. CASE ~Pmgr!Complete
      BY <1>2, <2>4, <2>5, <3>3, <3>5 DEF m, n
    <3>6. QED
      BY <3>4, <3>5
  <2>8. QED
    BY <2>6, <2>7
<1>4. CASE Pmgr!Summary
  <2> DEFINE status == IF mem.stop THEN "max_updates_reached" ELSE "training_complete"
             summary == [status |-> status, best |-> mem.best, parity |-> mem.updated]
  <2>1. pc = "summary" /\ disk' = [disk EXCEPT !.summary = summary] /\ cuts' = cuts
    BY <1>4 DEF Pmgr!Summary, Pmgr!Step
  <2>2. mem \in [epoch : 1..Epochs + 1, cursor : 0..Batches - 1, best : Maybe(1..Epochs),
                 limit : Pmgr!Limits, stop : BOOLEAN, updated : BOOLEAN]
    BY <2>1 DEF PmgrInv, PmgrType, EndPoints
  <2>3. summary \in Pmgr!Summaries
    BY <2>2 DEF Pmgr!Summaries, Pmgr!Maybe, Maybe
  <2>4. summary # None /\ summary.status = status /\ summary.best = mem.best
    BY <2>3
  <2> HIDE DEF summary
  <2>5. disk'.last = disk.last /\ disk'.summary = summary /\ n = m
    BY <1>0, <2>1 DEF Pmgr!Missed
  <2>6. Pmgr!Committed' = Pmgr!Committed
    BY <2>5 DEF Pmgr!Committed
  <2>7. Pmgr!Result' = IF mem.stop THEN None ELSE mem.best
    BY <2>4, <2>5 DEF Pmgr!Result, Pmgr!Complete
  <2>8. Reached = Pmgr!Position /\ (~mem.stop => e = Epochs + 1)
    BY <2>1 DEF PmgrInv, PmgrMemory, EndPoints
  <2>9. r = e /\ Reached.best = mem.best
    BY <2>8 DEF Pmgr!Position
  <2>10. Pmgr!Complete => ~mem.stop /\ Pmgr!Result = mem.best
    <3>1. Pmgr!Complete => /\ ~mem.stop /\ disk.last # None
                           /\ disk.summary.best = disk.last.best
      BY <2>1 DEF PmgrInv, PmgrFiles, EndPoints
    <3>2. QED
      BY <2>9, <3>1, PmgrFacts DEF Pmgr!Result
  <2>11. ~Pmgr!Complete => Pmgr!Result = None
    BY DEF Pmgr!Result
  <2>12. CASE Pmgr!Complete \/ mem.stop \/ mem.best = None
    BY <2>5, <2>6, <2>7, <2>10, <2>11, <2>12 DEF Moves, Stays
  <2>13. CASE ~Pmgr!Complete /\ ~mem.stop /\ mem.best # None
    <3>1. r - 1 = Epochs
      BY <2>8, <2>9, <2>13
    <3>2. Leads(score, mem.best, Compared(m, Epochs))
      <4>1. Choice(score, Reached.best, Compared(m, r - 1))
        BY DEF PmgrInv, PmgrFiles
      <4>2. QED
        BY <2>9, <2>13, <3>1, <4>1 DEF Choice
    <3>3. Leads(score', mem.best, Pmgr!Candidates \ m)
      <4>1. Compared(m, Epochs) = Pmgr!Candidates \ m /\ score' = score
        BY <1>4 DEF Compared, Pmgr!Candidates, Pmgr!Summary, Pmgr!Step
      <4>2. QED
        BY <3>2, <4>1
    <3>4. QED
      BY <1>2, <2>5, <2>6, <2>7, <2>11, <2>13, <3>1, <3>3 DEF Moves, Publishes
  <2>14. QED
    BY <2>12, <2>13
<1>5. CASE Same
  BY <1>5 DEF Moves, Stays, Pmgr!Committed, Pmgr!Result, Pmgr!Complete
<1>6. QED
  BY <1>1, <1>3, <1>4, <1>5

(***************************************************************************)
(* SSSC                                                                    *)
(***************************************************************************)
LEMMA SsscStart == ASSUME Init, which = "sssc" PROVE SsscInv
<1> USE TrainerAssumption, NoneAssumption DEF TrainerAssumption, NoneAssumption
<1>1. Shared
  BY Begun
<1>2. /\ pc = "down" /\ cuts = {}
      /\ disk = [last |-> None, best |-> None, marker |-> FALSE, lock |-> None,
                 observed |-> None, test |-> [stage |-> "none", of |-> None]]
  BY DEF Init, Sssc!Init, Sssc!Begin, Sssc!NoTest, Sssc!Test
<1>3. Choice(score, None, 1..0 \ Sssc!Missed) /\ Sssc!Missed = {}
  BY <1>2 DEF Choice, Sssc!Missed
<1>4. QED
  BY <1>1, <1>2, <1>3 DEF SsscInv, SsscType, SsscMemory, SsscFiles, StepPoints, EpochPoints,
     CompletePoints, Sssc!Whole, Sssc!Committed, Ended, Sssc!Epoch, Maybe

LEMMA SsscNone ==
    /\ None \notin Nat /\ None \notin Sssc!Positions /\ None \notin Sssc!Checkpoints
    /\ Batches \in Nat \ {0} /\ CheckpointEvery \in Nat \ {0} /\ Epochs \in Nat \ {0}
    /\ MaxKills \in Nat
BY NoneAssumption, IntervalAssumption, TrainerAssumption
   DEF NoneAssumption, IntervalAssumption, TrainerAssumption

\* A launch has all updates behind it when no epoch is left.
LEMMA AllPlanned ==
    ASSUME NEW e \in 1..Epochs + 1, NEW b \in 0..Batches - 1, e > Epochs => b = 0
    PROVE  Sssc!Updates([epoch |-> e, batch |-> b]) = Sssc!Planned <=> e = Epochs + 1
<1> USE SsscNone
<1>1. Sssc!Updates([epoch |-> e, batch |-> b]) = (e - 1) * Batches + b
  BY DEF Sssc!Updates
<1>2. CASE e = Epochs + 1
  BY <1>1, <1>2 DEF Sssc!Planned
<1>3. CASE e # Epochs + 1
  <2>1. e - 1 \in 0..Epochs - 1
    BY <1>3
  <2>2. (e - 1) * Batches <= (Epochs - 1) * Batches
    BY <2>1
  <2>3. (Epochs - 1) * Batches = Epochs * Batches - Batches
    OBVIOUS
  <2>4. (e - 1) * Batches \in Int /\ Epochs * Batches \in Int
    BY <2>1
  <2>5. (e - 1) * Batches + b < Epochs * Batches
    BY <2>2, <2>3, <2>4
  <2>6. QED
    BY <1>1, <1>3, <2>4, <2>5 DEF Sssc!Planned
<1>4. QED
  BY <1>2, <1>3

LEMMA EpochEnd ==
    ASSUME NEW e \in 1..Epochs, NEW m, m.epoch = e, m.batch = Batches
    PROVE  Sssc!Updates(m) = e * Batches
BY SsscNone DEF Sssc!Updates

LEMMA SsscFacts ==
    ASSUME SsscInv
    PROVE  /\ kills \in 0..MaxKills /\ disk.best \in Maybe(Sssc!Checkpoints)
           /\ disk.best # None => disk.best.epoch \in 1..Epochs /\ disk.best.try \in Nat
           /\ disk.lock # None => disk.lock.try \in Nat
           /\ pc # "down" =>
                 /\ mem \in [epoch : 1..Epochs + 1, batch : 0..Batches, best : Maybe(1..Epochs)]
                 /\ mem.epoch \in 1..Epochs + 1 /\ mem.batch \in 0..Batches
                 /\ mem.best \in Maybe(1..Epochs)
           /\ pc \in StepPoints \cup EpochPoints => mem.epoch \in 1..Epochs
           /\ pc = "update" => mem.batch \in 0..Batches - 1
           /\ pc = "periodic" => mem.batch \in 1..Batches
<1>1. /\ kills \in 0..MaxKills /\ {disk.best, disk.lock} \subseteq Maybe(Sssc!Checkpoints)
      /\ pc # "down" =>
            mem \in [epoch : 1..Epochs + 1, batch : 0..Batches, best : Maybe(1..Epochs)]
      /\ pc \in StepPoints \cup EpochPoints => mem.epoch <= Epochs
      /\ pc = "update" => mem.batch < Batches
      /\ pc = "periodic" => mem.batch > 0
  BY DEF SsscInv, SsscType, SsscMemory, Shared
<1>2. pc = "down" => pc \notin StepPoints \cup EpochPoints
  BY DEF StepPoints, EpochPoints
<1>3. QED
  BY <1>1, <1>2, SsscNone DEF Sssc!Checkpoints, Maybe

LEMMA SsscLaunches ==
    ASSUME SsscInv, Sssc!Start \/ Sssc!Resume
    PROVE  SsscInv'
<1> USE SsscNone
    DEF SsscInv, SsscType, SsscMemory, SsscFiles, StepPoints, EpochPoints, CompletePoints,
        Shared, Maybe, Sssc!Whole, Sssc!Committed, Ended, Sssc!Step, Sssc!Epoch
<1> DEFINE last == IF disk.last = None THEN [epoch |-> 1, batch |-> 0] ELSE disk.last
<1>1. /\ pc = "down" /\ UNCHANGED <<score, disk, kills, cuts>>
      /\ pc' = IF Sssc!Updates(last) = Sssc!Planned THEN "markBest" ELSE "update"
      /\ mem' = [epoch |-> last.epoch, batch |-> last.batch, best |-> Sssc!Epoch(disk.best)]
  BY DEF Sssc!Start, Sssc!Resume, Sssc!Launch
<1>2. /\ last.epoch \in 1..Epochs + 1 /\ last.batch \in 0..Batches - 1
      /\ last = [epoch |-> last.epoch, batch |-> last.batch]
      /\ last.epoch > Epochs => last.batch = 0
  BY DEF Sssc!Positions
<1>3. pc' = IF last.epoch = Epochs + 1 THEN "markBest" ELSE "update"
  BY <1>1, <1>2, AllPlanned
<1>4. Ended = last.epoch - 1
  OBVIOUS
<1>5. Sssc!Missed' = Sssc!Missed
  BY <1>1 DEF Sssc!Missed
<1>6. Sssc!Epoch(disk.best) \in Maybe(1..Epochs)
  BY DEF Sssc!Checkpoints
<1> HIDE DEF last
<1>7. SsscType'
  BY <1>1, <1>2, <1>3, <1>6
<1>8. disk.best # None /\ disk.best.complete => pc' = "markBest"
  <2>1. disk.best # None /\ disk.best.complete => last.epoch = Epochs + 1
    BY <1>2, <1>4
  <2>2. QED
    BY <1>3, <2>1
<1>9. SsscMemory'
  <2>1. /\ Choice(score, Sssc!Epoch(disk.best), 1..(last.epoch - 1) \ Sssc!Missed)
        /\ \A f \in Sssc!Missed : f <= last.epoch - 1
    <3>1. /\ Choice(score, Sssc!Epoch(disk.best), 1..Ended \ Sssc!Missed)
          /\ \A f \in Sssc!Missed : f <= Ended
      BY <1>1
    <3> HIDE DEF SsscInv, Sssc!Committed, Ended, Sssc!Epoch
    <3>2. QED
      BY <1>4, <3>1
  <2>2. \A f \in Sssc!Missed : f < last.epoch
    <3>1. \A f \in Sssc!Missed : f \in Nat
      BY DEF Sssc!Missed
    <3> HIDE DEF SsscInv
    <3>2. QED
      BY <1>2, <2>1, <3>1
  <2>3. /\ mem'.epoch = last.epoch /\ mem'.batch = last.batch
        /\ mem'.best = Sssc!Epoch(disk.best) /\ Ended' = last.epoch - 1
        /\ disk' = disk /\ score' = score
    BY <1>1, <1>4
  <2>4. CASE last.epoch = Epochs + 1
    <3>1. pc' = "markBest" /\ last.epoch - 1 = Epochs
      BY <1>3, <2>4
    <3> HIDE DEF SsscInv, Sssc!Epoch, Sssc!Committed, Ended
    <3>2. QED
      BY <1>5, <2>1, <2>3, <2>4, <3>1 DEF Sssc!Epoch
  <2>5. CASE last.epoch # Epochs + 1
    <3>1. pc' = "update" /\ last.epoch <= Epochs /\ last.batch < Batches
      BY <1>2, <1>3, <2>5
    <3> HIDE DEF SsscInv, Sssc!Epoch, Sssc!Committed, Ended
    <3>2. QED
      BY <1>5, <2>1, <2>2, <2>3, <2>5, <3>1 DEF Sssc!Epoch
  <2>6. QED
    BY <2>4, <2>5
<1>10. SsscFiles' /\ Sssc!Whole'
  BY <1>1, <1>3, <1>5, <1>8
<1>11. QED
  BY <1>7, <1>9, <1>10

LEMMA SsscTrains ==
    ASSUME SsscInv, Sssc!Update \/ Sssc!SavePeriodic
    PROVE  SsscInv'
<1> USE SsscNone
    DEF SsscInv, SsscType, SsscMemory, SsscFiles, StepPoints, EpochPoints, CompletePoints,
        Shared, Maybe, Sssc!Whole, Sssc!Committed, Ended, Sssc!Step, Sssc!Epoch
<1>1. CASE Sssc!Update
  <2> DEFINE made == [mem EXCEPT !.batch = mem.batch + 1]
             periodic == Sssc!Updates(made) % CheckpointEvery = 0
  <2>1. /\ pc = "update" /\ mem' = made /\ UNCHANGED <<score, disk, kills, cuts>>
        /\ pc' = IF periodic THEN "periodic"
                 ELSE IF made.batch = Batches THEN "evaluate" ELSE "update"
    BY <1>1 DEF Sssc!Update, Sssc!AfterUpdate
  <2>2. /\ made \in [epoch : 1..Epochs + 1, batch : 0..Batches, best : Maybe(1..Epochs)]
        /\ made.epoch = mem.epoch /\ made.batch = mem.batch + 1 /\ made.best = mem.best
        /\ mem.epoch \in 1..Epochs /\ mem.batch \in 0..Batches - 1
        /\ made.batch \in 1..Batches
    <3> HIDE DEF SsscInv
    <3>1. /\ mem \in [epoch : 1..Epochs + 1, batch : 0..Batches, best : Maybe(1..Epochs)]
          /\ mem.epoch \in 1..Epochs /\ mem.batch \in 0..Batches - 1
      BY <2>1, SsscFacts
    <3>2. QED
      BY <3>1
  <2>3. made.batch = Batches => (periodic <=> Coincides(mem.epoch))
    BY <2>2, EpochEnd DEF Coincides
  <2>4. periodic = Sssc!Periodic'
    BY <2>1 DEF Sssc!Periodic, Sssc!Updates
  <2>5. Sssc!Missed' = Sssc!Missed
    BY <2>1 DEF Sssc!Missed
  <2> HIDE DEF made, periodic
  <2>6. SsscType'
    BY <2>1, <2>2
  <2>7. SsscMemory'
    BY <2>1, <2>2, <2>3, <2>4, <2>5
  <2>8. SsscFiles' /\ Sssc!Whole'
    BY <2>1, <2>5
  <2>9. QED
    BY <2>6, <2>7, <2>8
<1>2. CASE Sssc!SavePeriodic
  <2> DEFINE last == Sssc!After(mem.epoch, mem.batch)
  <2>1. /\ pc = "periodic" /\ UNCHANGED <<score, mem, kills, cuts>>
        /\ pc' = (IF mem.batch = Batches THEN "evaluate" ELSE "update")
        /\ disk' = [disk EXCEPT !.last = last]
    BY <1>2 DEF Sssc!SavePeriodic, Sssc!AfterUpdate, Sssc!Writes
  <2>2. mem.epoch \in 1..Epochs /\ mem.batch \in 1..Batches
    BY <2>1
  <2>3. mem.batch = Batches => Coincides(mem.epoch)
    BY <2>1, <2>2, EpochEnd DEF Coincides, Sssc!Periodic
  <2>4. /\ last \in Sssc!Positions /\ last # None
        /\ last.epoch = (IF mem.batch = Batches THEN mem.epoch + 1 ELSE mem.epoch)
        /\ last.epoch > Epochs => last.batch = 0
    <3> HIDE DEF SsscInv
    <3>1. QED
      BY <2>2 DEF Sssc!After, Sssc!Positions
  <2>5. Sssc!Missed' = Sssc!Missed
    BY <2>1 DEF Sssc!Missed
  <2> HIDE DEF last
  <2>6. /\ disk'.last = last /\ disk'.best = disk.best /\ disk'.lock = disk.lock
        /\ disk'.marker = disk.marker /\ disk'.test = disk.test
        /\ disk'.observed = disk.observed
    BY <2>1
  <2>7. SsscType'
    BY <2>1, <2>4
  <2>8. SsscMemory'
    BY <2>1, <2>2, <2>3, <2>4, <2>5, <2>6
  <2>9. SsscFiles' /\ Sssc!Whole'
    <3>1. /\ Ended = mem.epoch - 1 /\ \A f \in Sssc!Missed : f <= Ended
          /\ ~(disk.best # None /\ disk.best.complete) /\ disk.lock = None
          /\ disk.observed = None /\ disk.test.stage = "none" /\ ~disk.marker
      BY <2>1
    <3>2. Ended' = last.epoch - 1
      BY <2>4, <2>6
    <3>3. \A f \in Sssc!Missed : f <= last.epoch - 1
      <4>1. \A f \in Sssc!Missed : f \in Nat
        BY DEF Sssc!Missed
      <4> HIDE DEF SsscInv
      <4>2. QED
        BY <2>2, <2>4, <3>1, <4>1
    <3>4. pc' # "marker" /\ pc' # "done" /\ pc' # "down" /\ pc' # "markBest"
      BY <2>1
    <3>5. disk.best # None => disk.best.try <= kills
      OBVIOUS
    <3> HIDE DEF SsscInv, Sssc!Committed, Ended
    <3>6. SsscFiles'
      BY <2>1, <2>4, <2>5, <2>6, <3>1, <3>2, <3>3, <3>4, <3>5
    <3>7. Sssc!Whole'
      BY <2>6, <3>1
    <3>8. QED
      BY <3>6, <3>7
  <2>10. QED
    BY <2>7, <2>8, <2>9
<1>3. QED
  BY <1>1, <1>2

\* The epochs compared so far, and the next one, which none was missed after.
LEMMA ComparedNext ==
    ASSUME NEW e \in 1..Epochs, \A f \in Sssc!Missed : f < e
    PROVE  /\ 1..e \ Sssc!Missed = (1..(e - 1) \ Sssc!Missed) \cup {e}
           /\ 1..(e - 1) \ Sssc!Missed \in SUBSET (1..Epochs)
           /\ \A f \in 1..(e - 1) \ Sssc!Missed : f < e
<1>1. /\ e \in Nat /\ Epochs \in Nat /\ 1..e = 1..(e - 1) \cup {e} /\ e \notin Sssc!Missed
      /\ \A f \in 1..(e - 1) : f < e /\ f \in 1..Epochs
  BY SsscNone
<1>2. QED
  BY <1>1

\* The scores s are those so far, but for the epoch that is evaluated.
LEMMA SsscComparedNext ==
    ASSUME SsscInv, pc \in {"evaluate", "saveBest"}, NEW s \in [1..Epochs -> Marks],
           \A f \in 1..Epochs : f # mem.epoch => s[f] = score[f]
    PROVE  /\ Choice(s, mem.best, 1..(mem.epoch - 1) \ Sssc!Missed)
           /\ mem.best # None => s[mem.best] = score[mem.best]
           /\ IF mem.best = None \/ s[mem.epoch] > s[mem.best]
                 THEN Choice(s, mem.epoch, 1..mem.epoch \ Sssc!Missed)
                 ELSE Choice(s, mem.best, 1..mem.epoch \ Sssc!Missed)
<1> DEFINE e == mem.epoch
           S == 1..(e - 1) \ Sssc!Missed
<1>1. /\ e \in 1..Epochs /\ \A f \in Sssc!Missed : f < e
      /\ Choice(score, mem.best, S)
  <2>1. pc \in StepPoints \cup {"evaluate", "saveBest"} /\ pc \in EpochPoints
    BY DEF EpochPoints
  <2>2. QED
    BY <2>1, SsscFacts DEF SsscInv, SsscMemory
<1>2. /\ 1..e \ Sssc!Missed = S \cup {e} /\ S \in SUBSET (1..Epochs)
      /\ \A f \in S : f < e
  BY <1>1, ComparedNext
<1>3. \A f \in S : s[f] = score[f]
  <2>1. \A f \in S : f \in 1..Epochs /\ f # e
    BY <1>1, <1>2
  <2>2. QED
    BY <2>1
<1>4. mem.best # None => mem.best \in S
  BY <1>1 DEF Choice, Leads
<1> HIDE DEF S, e
<1>5. Choice(s, mem.best, S)
  BY <1>1, <1>3, ChoiceAlike
<1>6. IF mem.best = None \/ s[e] > s[mem.best]
         THEN Choice(s, e, S \cup {e}) ELSE Choice(s, mem.best, S \cup {e})
  BY <1>1, <1>2, <1>5, ChoiceNext
<1>7. QED
  BY <1>2, <1>3, <1>4, <1>5, <1>6 DEF e, S

LEMMA SsscEvaluates ==
    ASSUME SsscInv, Sssc!SaveEpoch \/ Sssc!SaveBest \/ Sssc!NextEpoch
    PROVE  SsscInv'
<1> USE SsscNone
    DEF SsscInv, SsscType, SsscMemory, SsscFiles, StepPoints, EpochPoints, CompletePoints,
        Shared, Maybe, Sssc!Whole, Sssc!Committed, Ended, Sssc!Step, Sssc!Epoch
<1> DEFINE e == mem.epoch
           better(s) == mem.best = None \/ s[e] > s[mem.best]
<1>1. CASE Sssc!SaveEpoch
  <2> DEFINE last == [epoch |-> e + 1, batch |-> 0]
  <2>1. /\ pc = "evaluate" /\ UNCHANGED <<mem, kills, cuts>> /\ e \in 1..Epochs
        /\ score' \in [1..Epochs -> Marks] /\ \A f \in 1..Epochs : f # e => score'[f] = score[f]
        /\ pc' = (IF better(score') THEN "saveBest" ELSE "next")
        /\ disk' = [disk EXCEPT !.last = last]
        /\ Choice(score', mem.best, 1..(e - 1) \ Sssc!Missed)
        /\ ~better(score') => Choice(score', mem.best, 1..e \ Sssc!Missed)
    <3>1. /\ pc = "evaluate" /\ mem.batch = Batches /\ e \in 1..Epochs
          /\ score \in [1..Epochs -> Marks]
      BY <1>1, SsscFacts DEF Sssc!SaveEpoch, Sssc!Evaluates
    <3> HIDE DEF SsscInv
    <3>2. PICK new \in Scores :
             /\ pc' = IF mem.best = None \/ new > score[mem.best] THEN "saveBest" ELSE "next"
             /\ score' = [score EXCEPT ![e] = new]
             /\ disk' = [disk EXCEPT !.last = last] /\ UNCHANGED <<mem, kills, cuts>>
      BY <1>1, <3>1
         DEF Sssc!SaveEpoch, Sssc!Evaluates, Sssc!After, Sssc!Writes, Sssc!Improves
    <3> HIDE DEF last
    <3>3. /\ score' \in [1..Epochs -> Marks] /\ score'[e] = new
          /\ \A f \in 1..Epochs : f # e => score'[f] = score[f]
      BY <3>1, <3>2, Evaluation
    <3>4. /\ Choice(score', mem.best, 1..(e - 1) \ Sssc!Missed)
          /\ mem.best # None => score'[mem.best] = score[mem.best]
          /\ ~better(score') => Choice(score', mem.best, 1..e \ Sssc!Missed)
      BY <3>1, <3>3, SsscComparedNext
    <3>5. QED
      BY <3>1, <3>2, <3>3, <3>4
  <2>2. /\ last \in Sssc!Positions /\ last # None /\ last.epoch = e + 1 /\ last.batch = 0
    BY <2>1 DEF Sssc!Positions
  <2>3. Sssc!Missed' = Sssc!Missed
    BY <2>1 DEF Sssc!Missed
  <2> HIDE DEF last
  <2>4. /\ disk'.last = last /\ disk'.best = disk.best /\ disk'.lock = disk.lock
        /\ disk'.marker = disk.marker /\ disk'.test = disk.test
        /\ disk'.observed = disk.observed
    BY <2>1
  <2>5. SsscType'
    BY <2>1, <2>2
  <2>6. SsscMemory'
    <3>1. /\ mem.batch = Batches /\ e <= Epochs /\ mem.best = Sssc!Epoch(disk.best)
          /\ \A f \in Sssc!Missed : f < e
      BY <2>1
    <3>2. Ended' = e /\ Sssc!Epoch(disk.best)' = Sssc!Epoch(disk.best)
      <4>1. Ended' = (e + 1) - 1
        BY <2>2, <2>4
      <4> HIDE DEF SsscInv
      <4>2. QED
        BY <2>1, <2>4, <4>1
    <3>3. pc' = "saveBest" => Improves(score[e], mem.best)'
      BY <2>1 DEF Improves
    <3> HIDE DEF SsscInv, Ended, Sssc!Epoch
    <3>4. QED
      BY <2>1, <2>3, <3>1, <3>2, <3>3
  <2>7. SsscFiles' /\ Sssc!Whole'
    <3>1. /\ Ended \in {e - 1, e} /\ \A f \in Sssc!Missed : f <= Ended
          /\ ~(disk.best # None /\ disk.best.complete) /\ disk.lock = None
          /\ disk.observed = None /\ disk.test.stage = "none" /\ ~disk.marker
      BY <2>1
    <3>2. Ended' = e
      <4>1. Ended' = last.epoch - 1
        BY <2>2, <2>4
      <4> HIDE DEF SsscInv
      <4>2. QED
        BY <2>1, <2>2, <4>1
    <3>3. \A f \in Sssc!Missed : f <= e
      <4>1. \A f \in Sssc!Missed : f \in Nat
        BY DEF Sssc!Missed
      <4> HIDE DEF SsscInv
      <4>2. QED
        BY <2>1, <3>1, <4>1
    <3>4. pc' # "marker" /\ pc' # "done" /\ pc' # "down" /\ pc' # "markBest"
      BY <2>1
    <3>5. disk.best # None => disk.best.try <= kills
      OBVIOUS
    <3> HIDE DEF SsscInv, Sssc!Committed, Ended
    <3>6. SsscFiles'
      BY <2>1, <2>2, <2>3, <2>4, <3>1, <3>2, <3>3, <3>4, <3>5
    <3>7. Sssc!Whole'
      BY <2>4, <3>1
    <3>8. QED
      BY <3>6, <3>7
  <2>8. QED
    BY <2>5, <2>6, <2>7
<1>2. CASE Sssc!SaveBest
  <2> DEFINE best == [epoch |-> e, complete |-> FALSE, try |-> kills]
  <2>1. /\ pc = "saveBest" /\ pc' = "next" /\ UNCHANGED <<score, kills, cuts>>
        /\ e \in 1..Epochs /\ mem' = [mem EXCEPT !.best = e]
        /\ disk' = [disk EXCEPT !.best = best]
    BY <1>2 DEF Sssc!SaveBest, Sssc!Checkpoint
  <2>2. /\ best \in Sssc!Checkpoints /\ best # None /\ best.epoch = e /\ best.complete = FALSE
        /\ best.try = kills /\ kills \in Nat
    <3>1. kills \in 0..MaxKills
      BY SsscFacts
    <3> HIDE DEF SsscInv
    <3>2. best \in Sssc!Checkpoints
      BY <2>1, <3>1 DEF Sssc!Checkpoints
    <3>3. best # None
      BY <3>2
    <3>4. best.epoch = e /\ best.complete = FALSE /\ best.try = kills
      BY Zenon
    <3>5. kills \in Nat
      BY <3>1
    <3>6. QED
      BY <3>2, <3>3, <3>4, <3>5
  <2>3. Sssc!Missed' = Sssc!Missed
    BY <2>1 DEF Sssc!Missed
  <2>4. Choice(score, e, 1..e \ Sssc!Missed)
    BY <2>1, SsscComparedNext DEF Improves
  <2>5. disk.lock = None /\ disk.observed = None /\ disk.test.stage = "none"
    BY <2>1
  <2> HIDE DEF best
  <2>6. /\ disk'.last = disk.last /\ disk'.best = best /\ disk'.lock = disk.lock
        /\ disk'.marker = disk.marker /\ disk'.test = disk.test
        /\ disk'.observed = disk.observed /\ mem'.best = e /\ mem'.epoch = e
        /\ mem'.batch = mem.batch
    BY <2>1
  <2>7. SsscType'
    BY <2>1, <2>2
  <2>8. SsscMemory'
    BY <2>1, <2>2, <2>3, <2>4, <2>6
  <2>9. SsscFiles' /\ Sssc!Whole'
    BY <2>1, <2>2, <2>3, <2>5, <2>6
  <2>10. QED
    BY <2>7, <2>8, <2>9
<1>3. CASE Sssc!NextEpoch
  <2>1. /\ pc = "next" /\ UNCHANGED <<score, disk, kills, cuts>> /\ e \in 1..Epochs
        /\ pc' = IF e < Epochs THEN "update" ELSE "markBest"
        /\ mem' = IF e < Epochs THEN [mem EXCEPT !.epoch = e + 1, !.batch = 0] ELSE mem
    BY <1>3 DEF Sssc!NextEpoch
  <2>2. Sssc!Missed' = Sssc!Missed
    BY <2>1 DEF Sssc!Missed
  <2>3. /\ Choice(score, mem.best, 1..e \ Sssc!Missed) /\ Ended = e
        /\ mem.batch = Batches /\ \A f \in Sssc!Missed : f <= e
        /\ mem \in [epoch : 1..Epochs + 1, batch : 0..Batches, best : Maybe(1..Epochs)]
        /\ ~(disk.best # None /\ disk.best.complete) /\ mem.best = Sssc!Epoch(disk.best)
        /\ disk.best # None => disk.best.try <= kills
    BY <2>1
  <2>4. CASE e < Epochs
    <3> DEFINE n == e + 1
    <3>1. n \in 1..Epochs /\ n - 1 = e /\ n # e /\ \A f \in Sssc!Missed : f < n
      <4>1. \A f \in Sssc!Missed : f \in Nat
        BY DEF Sssc!Missed
      <4> HIDE DEF SsscInv
      <4>2. QED
        BY <2>1, <2>3, <2>4, <4>1
    <3> HIDE DEF n
    <3>2. /\ mem'.epoch = n /\ mem'.batch = 0 /\ mem'.best = mem.best /\ pc' = "update"
          /\ mem' \in [epoch : 1..Epochs + 1, batch : 0..Batches, best : Maybe(1..Epochs)]
      <4>1. mem' = [mem EXCEPT !.epoch = n, !.batch = 0] /\ n \in 1..Epochs + 1
            /\ 0 \in 0..Batches
        BY <2>1, <2>4, <3>1 DEF n
      <4> HIDE DEF SsscInv
      <4>2. QED
        BY <2>1, <2>3, <2>4, <4>1
    <3>3. SsscType'
      BY <2>1, <3>2
    <3>4. SsscFiles' /\ Sssc!Whole'
      BY <2>1, <2>2, <2>3, <3>2
    <3>5. SsscMemory'
      <4>1. Ended' = n - 1 /\ disk' = disk /\ score' = score
        BY <2>1, <2>3, <3>1
      <4>2. Sssc!Epoch(disk'.best) = mem.best /\ n <= Epochs /\ 0 < Batches
        BY <2>3, <3>1, <4>1
      <4> HIDE DEF SsscInv, Sssc!Committed, Ended
      <4>3. QED
        BY <2>2, <2>3, <3>1, <3>2, <4>1, <4>2
    <3>6. QED
      BY <3>3, <3>4, <3>5
  <2>5. CASE ~(e < Epochs)
    <3>1. e = Epochs /\ mem' = mem /\ pc' = "markBest"
      BY <2>1, <2>5
    <3>2. SsscType'
      BY <2>1, <3>1
    <3>3. SsscFiles' /\ Sssc!Whole'
      BY <2>1, <2>2, <3>1
    <3>4. SsscMemory'
      <4>1. Ended' = Epochs /\ disk' = disk /\ score' = score
        BY <2>1, <2>3, <3>1
      <4> HIDE DEF SsscInv, Sssc!Committed, Ended
      <4>2. QED
        BY <2>2, <2>3, <3>1, <4>1
    <3>5. QED
      BY <3>2, <3>3, <3>4
  <2>6. QED
    BY <2>4, <2>5
<1>4. QED
  BY <1>1, <1>2, <1>3

LEMMA SsscEnds ==
    ASSUME SsscInv, Sssc!MarkBest \/ Sssc!Mark \/ UNCHANGED tvars
    PROVE  SsscInv'
<1> USE SsscNone
    DEF SsscInv, SsscType, SsscMemory, SsscFiles, StepPoints, EpochPoints, CompletePoints,
        Shared, Maybe, Sssc!Whole, Sssc!Committed, Ended, Sssc!Step, Sssc!Epoch
<1>1. CASE Sssc!MarkBest
  <2> DEFINE best == IF disk.best = None THEN None
                     ELSE [epoch |-> disk.best.epoch, complete |-> TRUE, try |-> kills]
  <2>1. /\ pc = "markBest" /\ pc' = "marker" /\ UNCHANGED <<score, mem, kills, cuts>>
        /\ disk' = [disk EXCEPT !.best = best]
    BY <1>1 DEF Sssc!MarkBest, Sssc!Writes, Sssc!Checkpoint
  <2>2. /\ best \in Maybe(Sssc!Checkpoints) /\ (best = None <=> disk.best = None)
        /\ best # None => /\ best.epoch = disk.best.epoch /\ best.complete = TRUE
                          /\ best.try = kills
        /\ kills \in Nat /\ disk.best \in Maybe(Sssc!Checkpoints)
    <3>1. kills \in 0..MaxKills /\ disk.best \in Maybe(Sssc!Checkpoints)
      BY SsscFacts
    <3> HIDE DEF SsscInv
    <3>2. CASE disk.best = None
      BY <3>1, <3>2
    <3>3. CASE disk.best # None
      <4>1. best \in Sssc!Checkpoints
        BY <3>1, <3>3 DEF Sssc!Checkpoints
      <4>2. best = [epoch |-> disk.best.epoch, complete |-> TRUE, try |-> kills]
        BY <3>3
      <4> HIDE DEF best
      <4>3. best # None /\ kills \in Nat
        BY <3>1, <4>1
      <4>4. best.epoch = disk.best.epoch /\ best.complete = TRUE /\ best.try = kills
        BY <4>2, Zenon
      <4>5. QED
        BY <3>1, <3>3, <4>1, <4>3, <4>4
    <3>4. QED
      BY <3>2, <3>3
  <2>3. Sssc!Missed' = Sssc!Missed
    BY <2>1 DEF Sssc!Missed
  <2> HIDE DEF best
  <2>4. /\ disk'.last = disk.last /\ disk'.best = best /\ disk'.lock = disk.lock
        /\ disk'.marker = disk.marker /\ disk'.test = disk.test
        /\ disk'.observed = disk.observed
    BY <2>1
  <2>5. SsscType'
    BY <2>1, <2>2
  <2>6. SsscMemory'
    BY <2>1, <2>2, <2>3, <2>4
  <2>7. disk.lock # None => disk.best # None /\ disk.lock.try < kills
    <3>1. disk.lock # None =>
            /\ disk.best # None
            /\ disk.lock = disk.best \/ disk.lock.try < disk.best.try
            /\ disk.best.try < kills
      BY <2>1
    <3> HIDE DEF SsscInv
    <3>2. /\ disk.lock # None => disk.lock.try \in Nat
          /\ disk.best # None => disk.best.try \in Nat
          /\ kills \in Nat
      BY SsscFacts
    <3>3. QED
      BY <3>1, <3>2
  <2>8. SsscFiles' /\ Sssc!Whole'
    BY <2>1, <2>2, <2>3, <2>4, <2>7
  <2>9. QED
    BY <2>5, <2>6, <2>8
<1>2. CASE Sssc!Mark
  <2>1. /\ pc = "marker" /\ pc' = "done" /\ UNCHANGED <<score, mem, kills, cuts>>
        /\ disk' = [disk EXCEPT !.marker = TRUE]
    BY <1>2 DEF Sssc!Mark, Sssc!Writes
  <2>2. Sssc!Missed' = Sssc!Missed
    BY <2>1 DEF Sssc!Missed
  <2>3. QED
    BY <2>1, <2>2
<1>3. CASE UNCHANGED tvars
  <2>1. Sssc!Missed' = Sssc!Missed
    BY <1>3 DEF Sssc!Missed, tvars
  <2>2. Sssc!Periodic' = Sssc!Periodic
    BY <1>3 DEF tvars, Sssc!Periodic, Sssc!Updates
  <2>3. UNCHANGED <<score, pc, mem, disk, kills, cuts>>
    BY <1>3 DEF tvars
  <2>4. SsscType'
    BY <2>3
  <2>5. SsscMemory'
    BY <2>1, <2>2, <2>3 DEF Improves
  <2>6. SsscFiles' /\ Sssc!Whole'
    BY <2>1, <2>3
  <2>7. QED
    BY <2>4, <2>5, <2>6
<1>4. QED
  BY <1>1, <1>2, <1>3

LEMMA SsscKills ==
    ASSUME SsscInv, Sssc!Kill
    PROVE  SsscInv'
<1> USE SsscNone
    DEF SsscInv, SsscType, SsscMemory, SsscFiles, StepPoints, EpochPoints, CompletePoints,
        Shared, Maybe, Sssc!Whole, Sssc!Committed, Ended, Sssc!Epoch
<1>1. /\ pc \notin {"down", "done"} /\ kills < MaxKills /\ pc' = "down" /\ mem' = None
      /\ UNCHANGED <<score, disk>> /\ kills' = kills + 1
      /\ cuts' = cuts \cup {<<pc, mem.epoch>>}
  BY DEF Sssc!Kill, Sssc!Cut
<1>2. kills \in 0..MaxKills /\ mem.epoch \in 1..Epochs + 1
  BY <1>1
<1>3. kills' \in 0..MaxKills /\ kills' = kills + 1
  <2> HIDE DEF SsscInv
  <2>1. QED
    BY <1>1, <1>2
<1>4. Sssc!Missed' = IF pc = "saveBest" \/ (pc = "evaluate" /\ Coincides(mem.epoch))
                     THEN Sssc!Missed \cup {mem.epoch} ELSE Sssc!Missed
  <2>1. pc \in {"evaluate", "saveBest"} => mem.epoch \in 1..Epochs
    BY <1>1, <1>2
  <2> HIDE DEF SsscInv
  <2>2. QED
    BY <1>1, <2>1 DEF Sssc!Missed, Coincides
<1>5. 1..Ended \ Sssc!Missed' =
        IF pc \in StepPoints \cup {"evaluate", "saveBest"} THEN 1..(mem.epoch - 1) \ Sssc!Missed
        ELSE IF pc = "next" THEN 1..mem.epoch \ Sssc!Missed
        ELSE 1..Ended \ Sssc!Missed
  <2>1. CASE pc = "saveBest" \/ (pc = "evaluate" /\ Coincides(mem.epoch))
    <3>1. Ended = mem.epoch /\ mem.epoch \in 1..Epochs
      BY <1>1, <1>2, <2>1
    <3>2. 1..mem.epoch \ (Sssc!Missed \cup {mem.epoch}) = 1..(mem.epoch - 1) \ Sssc!Missed
      <4> HIDE DEF SsscInv
      <4>1. /\ 1..mem.epoch = 1..(mem.epoch - 1) \cup {mem.epoch}
            /\ mem.epoch \notin 1..(mem.epoch - 1)
        BY <3>1
      <4>2. QED
        BY <4>1
    <3> HIDE DEF SsscInv, Sssc!Committed, Ended
    <3>3. QED
      BY <1>4, <2>1, <3>1, <3>2
  <2>2. CASE ~(pc = "saveBest" \/ (pc = "evaluate" /\ Coincides(mem.epoch)))
    <3>1. /\ pc \in StepPoints \cup {"evaluate"} => Ended = mem.epoch - 1
          /\ pc = "next" => Ended = mem.epoch
      BY <1>1, <2>2
    <3> HIDE DEF SsscInv, Sssc!Committed, Ended
    <3>2. QED
      BY <1>4, <2>2, <3>1
  <2>3. QED
    BY <2>1, <2>2
<1>6. Choice(score, Sssc!Epoch(disk.best), 1..Ended \ Sssc!Missed')
  <2>1. Sssc!Epoch(disk.best) = mem.best
    BY <1>1
  <2>2. \/ pc \in StepPoints \cup {"evaluate", "saveBest"}
        \/ pc = "next" \/ pc \in CompletePoints
    BY <1>1
  <2> HIDE DEF Sssc!Epoch, Sssc!Committed, Ended
  <2>3. QED
    BY <1>1, <1>5, <2>1, <2>2
<1>7. \A f \in Sssc!Missed' : f <= Ended
  <2>1. pc = "saveBest" \/ (pc = "evaluate" /\ Coincides(mem.epoch)) =>
          Ended = mem.epoch
    BY <1>1
  <2>2. \A f \in Sssc!Missed : f <= Ended
    OBVIOUS
  <2>3. mem.epoch \in Nat
    BY <1>2
  <2> HIDE DEF SsscInv, Sssc!Committed, Ended
  <2>4. QED
    BY <1>4, <2>1, <2>2, <2>3
<1>8. Ended' = Ended /\ disk'.best = disk.best
  BY <1>1
<1>9. SsscType' /\ SsscMemory'
  BY <1>1, <1>3, <1>6, <1>8
<1>10. disk.best # None => disk.best.try \in Nat
  BY DEF Sssc!Checkpoints
<1>11. SsscFiles' /\ Sssc!Whole'
  <2>1. /\ disk.best # None => disk.best.try <= kills'
        /\ disk.best # None /\ disk.best.complete => disk.best.try < kills'
    BY <1>1, <1>2, <1>3, <1>10
  <2>2. QED
    BY <1>1, <1>7, <1>8, <2>1
<1>12. QED
  BY <1>9, <1>11

LEMMA SsscSelects ==
    ASSUME SsscInv,
           Sssc!CreateLock \/ Sssc!ValidateLock \/ Sssc!Evaluate \/ Sssc!RecordObservation
    PROVE  SsscInv'
<1> USE SsscNone
    DEF SsscInv, SsscType, SsscMemory, SsscFiles, StepPoints, EpochPoints, CompletePoints,
        Shared, Maybe, Sssc!Whole, Sssc!Committed, Ended, Sssc!Epoch
<1>1. UNCHANGED <<score, pc, mem, kills, cuts>>
  BY DEF Sssc!CreateLock, Sssc!ValidateLock, Sssc!Evaluate, Sssc!RecordObservation, Sssc!Beside
<1>2. Sssc!Missed' = Sssc!Missed /\ (pc = "periodic" => Sssc!Periodic' = Sssc!Periodic)
  BY <1>1 DEF Sssc!Missed, Sssc!Periodic, Sssc!Updates
<1>3. CASE Sssc!CreateLock
  BY <1>1, <1>2, <1>3 DEF Sssc!CreateLock, Sssc!Lockable
<1>4. CASE Sssc!ValidateLock
  BY <1>1, <1>2, <1>4 DEF Sssc!ValidateLock, Sssc!LockHolds, Sssc!Test
<1>5. CASE Sssc!Evaluate
  <2> DEFINE test == [stage |-> "evaluated", of |-> disk.best]
  <2>1. disk.test.stage = "validated" /\ disk' = [disk EXCEPT !.test = test]
    BY <1>5 DEF Sssc!Evaluate, Sssc!Test
  <2>2. test.stage = "evaluated" /\ test.of = disk.best
    OBVIOUS
  <2> HIDE DEF test
  <2>3. /\ disk'.last = disk.last /\ disk'.best = disk.best /\ disk'.lock = disk.lock
        /\ disk'.marker = disk.marker /\ disk'.test = test /\ disk'.observed = disk.observed
    BY <2>1
  <2>4. SsscType'
    BY <1>1, <2>1 DEF test
  <2>5. SsscMemory'
    <3>1. Ended' = Ended /\ Sssc!Epoch(disk'.best) = Sssc!Epoch(disk.best)
      BY <2>3
    <3>2. SsscMemory
      OBVIOUS
    <3> HIDE DEF SsscInv, Ended, Sssc!Epoch
    <3>3. QED
      BY <1>1, <1>2, <2>3, <3>1, <3>2 DEF Improves
  <2>6. SsscFiles' /\ Sssc!Whole'
    BY <1>1, <1>2, <2>1, <2>2, <2>3
  <2>7. QED
    BY <2>4, <2>5, <2>6
<1>6. CASE Sssc!RecordObservation
  <2> DEFINE observed == IF disk.lock # None /\ disk.lock = disk.best /\ disk.observed = None
                         THEN disk.test.of ELSE disk.observed
             test == [stage |-> "none", of |-> None]
  <2>1. /\ disk.test.stage = "evaluated"
        /\ disk' = [disk EXCEPT !.test = test, !.observed = observed]
    BY <1>6 DEF Sssc!RecordObservation, Sssc!LockHolds, Sssc!NoTest, Sssc!Test
  <2>2. disk.test.of = disk.lock \/ disk.lock.try < disk.best.try
    BY <2>1
  <2>3. disk.lock = disk.best /\ disk.lock # None => disk.test.of = disk.lock
    <3> HIDE DEF SsscInv
    <3>1. QED
      BY <2>2, SsscFacts
  <2>4. observed \in Maybe(Sssc!Checkpoints) /\ (observed # None => observed = disk.lock)
    BY <2>1, <2>3
  <2> HIDE DEF observed
  <2>5. /\ disk'.last = disk.last /\ disk'.best = disk.best /\ disk'.lock = disk.lock
        /\ disk'.marker = disk.marker /\ disk'.test.stage = "none" /\ disk'.observed = observed
    BY <2>1
  <2>6. SsscType'
    BY <1>1, <2>1, <2>4
  <2>7. SsscMemory'
    <3>1. Ended' = Ended /\ Sssc!Epoch(disk'.best) = Sssc!Epoch(disk.best)
      BY <2>5
    <3>2. SsscMemory
      OBVIOUS
    <3> HIDE DEF SsscInv, Sssc!Committed, Ended, Sssc!Epoch
    <3>3. QED
      BY <1>1, <1>2, <2>5, <3>1, <3>2 DEF Improves
  <2>8. SsscFiles' /\ Sssc!Whole'
    BY <1>1, <1>2, <2>4, <2>5
  <2>9. QED
    BY <2>6, <2>7, <2>8
<1>7. QED
  BY <1>3, <1>4, <1>5, <1>6

LEMMA SsscKept ==
    ASSUME SsscInv,
           \/ Sssc!Work \/ Sssc!Kill \/ UNCHANGED tvars
           \/ Sssc!CreateLock \/ Sssc!ValidateLock \/ Sssc!Evaluate \/ Sssc!RecordObservation
    PROVE  SsscInv'
BY SsscLaunches, SsscTrains, SsscEvaluates, SsscEnds, SsscKills, SsscSelects DEF Sssc!Work

LEMMA SsscMoves ==
    ASSUME SsscInv,
           \/ Sssc!Work \/ Sssc!Kill \/ UNCHANGED tvars
           \/ Sssc!CreateLock \/ Sssc!ValidateLock \/ Sssc!Evaluate \/ Sssc!RecordObservation
    PROVE  Moves(1..Epochs, score', Sssc!Committed, Sssc!Committed',
                 Sssc!Missed, Sssc!Missed', Sssc!Result, Sssc!Result')
<1> USE SsscNone
<1>0. /\ DOMAIN disk = {"last", "best", "marker", "lock", "observed", "test"}
      /\ disk.marker <=> pc = "done"
      /\ disk.last \in Maybe(Sssc!Positions)
  BY DEF SsscInv, SsscType, SsscFiles
<1> DEFINE Same == /\ disk'.last = disk.last /\ disk'.marker = disk.marker
                   /\ Sssc!Missed' = Sssc!Missed
                   /\ disk.marker => disk'.best = disk.best
                   /\ (pc # "evaluate" /\ pc' # "evaluate") \/ (pc' = pc /\ mem' = mem)
           c == Sssc!Committed
           m == Sssc!Missed
<1>1. \/ Sssc!Update \/ Sssc!SavePeriodic \/ Sssc!SaveEpoch \/ Sssc!Mark \/ Sssc!Kill
      \/ Same
  <2>1. CASE Sssc!Start \/ Sssc!Resume \/ Sssc!NextEpoch
    BY <2>1 DEF Sssc!Start, Sssc!Resume, Sssc!Launch, Sssc!NextEpoch, Sssc!Step, Sssc!Missed
  <2>2. CASE Sssc!SaveBest \/ Sssc!MarkBest
    BY <1>0, <2>2 DEF Sssc!SaveBest, Sssc!MarkBest, Sssc!Step, Sssc!Writes, Sssc!Missed
  <2>3. CASE Sssc!CreateLock \/ Sssc!ValidateLock \/ Sssc!Evaluate \/ Sssc!RecordObservation
    BY <1>0, <2>3 DEF Sssc!CreateLock, Sssc!ValidateLock, Sssc!Evaluate,
       Sssc!RecordObservation, Sssc!Beside, Sssc!Missed
  <2>4. CASE UNCHANGED tvars
    BY <2>4 DEF tvars, Sssc!Missed
  <2>5. QED
    BY <2>1, <2>2, <2>3, <2>4 DEF Sssc!Work
<1>2. /\ pc # "evaluate" => c = Ended
      /\ pc = "evaluate" => c = mem.epoch - 1
      /\ pc' # "evaluate" => Sssc!Committed' = Ended'
      /\ pc' = "evaluate" => Sssc!Committed' = mem'.epoch - 1
      /\ Ended \in Int
  BY <1>0 DEF Sssc!Committed, Ended, Sssc!Positions, Maybe
<1>3. CASE Sssc!Update
  <2>1. /\ pc = "update" /\ UNCHANGED <<disk, cuts>>
        /\ mem' = [mem EXCEPT !.batch = mem.batch + 1]
    BY <1>3 DEF Sssc!Update, Sssc!Step
  <2>2. /\ Ended = mem.epoch - 1
        /\ mem \in [epoch : 1..Epochs + 1, batch : 0..Batches, best : Maybe(1..Epochs)]
    BY <2>1 DEF SsscInv, SsscType, SsscMemory, StepPoints
  <2>3. mem'.epoch = mem.epoch /\ Ended' = Ended
    BY <2>1, <2>2 DEF Ended
  <2>4. Sssc!Committed' = c /\ Sssc!Missed' = m /\ Sssc!Result' = Sssc!Result
    BY <1>2, <2>1, <2>2, <2>3 DEF Sssc!Missed, Sssc!Result, Sssc!Epoch
  <2>5. QED
    BY <2>4 DEF Moves, Stays
<1>4. CASE Sssc!SavePeriodic \/ Sssc!SaveEpoch
  <2> DEFINE position == Sssc!After(mem.epoch, mem.batch)
  <2>1. /\ pc \in {"periodic", "evaluate"} /\ cuts' = cuts /\ mem' = mem
        /\ disk' = [disk EXCEPT !.last = position]
    BY <1>4 DEF Sssc!SavePeriodic, Sssc!SaveEpoch, Sssc!Step, Sssc!Evaluates, Sssc!Writes
  <2>2. /\ mem.epoch \in 1..Epochs /\ mem.batch \in 1..Batches
        /\ pc = "evaluate" => mem.batch = Batches
        /\ pc = "periodic" => Ended = mem.epoch - 1
    BY <2>1, SsscFacts DEF SsscInv, SsscMemory, StepPoints, EpochPoints
  <2>3. /\ position # None
        /\ position.epoch = IF mem.batch = Batches THEN mem.epoch + 1 ELSE mem.epoch
    <3>1. position \in Sssc!Positions
      BY <2>2 DEF Sssc!After, Sssc!Positions
    <3>2. QED
      BY <3>1 DEF Sssc!After
  <2> HIDE DEF position
  <2>4. disk'.last = position /\ disk'.marker = disk.marker /\ Sssc!Missed' = m
    BY <1>0, <2>1 DEF Sssc!Missed
  <2>5. Ended' = IF mem.batch = Batches THEN mem.epoch ELSE mem.epoch - 1
    BY <2>2, <2>3, <2>4 DEF Ended
  <2>6. Sssc!Result = None /\ Sssc!Result' = None
    BY <1>0, <2>1, <2>4 DEF Sssc!Result
  <2> HIDE DEF c, m
  <2>7. CASE pc = "periodic"
    <3>1. pc' = IF mem.batch = Batches THEN "evaluate" ELSE "update"
      BY <1>4, <2>7 DEF Sssc!SavePeriodic, Sssc!SaveEpoch, Sssc!AfterUpdate, Sssc!Step,
         Sssc!Evaluates
    <3>2. Sssc!Committed' = c
      BY <1>2, <2>1, <2>2, <2>5, <2>7, <3>1
    <3>3. QED
      BY <2>4, <2>6, <3>2 DEF Moves, Stays, c, m
  <2>8. CASE pc = "evaluate"
    <3>1. pc' # "evaluate" /\ score'[mem.epoch] # 0
      <4>1. PICK new \in Scores :
               /\ score' = [score EXCEPT ![mem.epoch] = new]
               /\ pc' = IF Sssc!Improves(new, mem.best) THEN "saveBest" ELSE "next"
        BY <1>4, <2>8 DEF Sssc!SavePeriodic, Sssc!SaveEpoch, Sssc!Step, Sssc!Evaluates
      <4>2. score \in [1..Epochs -> Marks]
        BY DEF SsscInv, SsscType, Shared
      <4>3. score'[mem.epoch] # 0
        BY <2>2, <4>1, <4>2, Evaluation
      <4>4. QED
        BY <4>1, <4>3
    <3>2. c = mem.epoch - 1 /\ Sssc!Committed' = mem.epoch
      BY <1>2, <2>2, <2>5, <2>8, <3>1
    <3>3. mem.epoch \in (c + 1)..Epochs /\ (c + 1)..(mem.epoch - 1) = {}
      BY <2>2, <3>2
    <3>4. QED
      BY <2>4, <2>6, <3>1, <3>2, <3>3 DEF Moves, Commits, c, m
  <2>9. QED
    BY <2>1, <2>7, <2>8
<1>5. CASE Sssc!Mark
  <2>1. /\ pc = "marker" /\ pc' = "done" /\ disk' = [disk EXCEPT !.marker = TRUE]
        /\ cuts' = cuts /\ score' = score
    BY <1>5 DEF Sssc!Mark, Sssc!Step, Sssc!Writes
  <2>2. /\ disk'.last = disk.last /\ disk'.marker = TRUE /\ disk'.best = disk.best
        /\ Sssc!Missed' = m
    BY <1>0, <2>1 DEF Sssc!Missed
  <2>3. Ended = Epochs /\ Choice(score', Sssc!Epoch(disk.best), 1..Epochs \ m)
    BY <2>1 DEF SsscInv, SsscMemory, CompletePoints
  <2>4. c = Epochs /\ Sssc!Committed' = c
    BY <1>2, <2>1, <2>2, <2>3 DEF Ended
  <2>5. Sssc!Result = None /\ Sssc!Result' = Sssc!Epoch(disk.best)
    BY <1>0, <2>1, <2>2 DEF Sssc!Result, Sssc!Epoch
  <2>6. QED
    BY <2>2, <2>3, <2>4, <2>5 DEF Moves, Stays, Publishes, Choice
<1>6. CASE Sssc!Kill
  <2>1. /\ pc \notin {"down", "done"} /\ pc' = "down" /\ disk' = disk
        /\ cuts' = cuts \cup {<<pc, mem.epoch>>}
    BY <1>6 DEF Sssc!Kill, Sssc!Cut
  <2>2. Sssc!Committed' = Ended /\ Sssc!Result = None /\ Sssc!Result' = None
    BY <1>0, <1>2, <2>1 DEF Sssc!Result, Ended
  <2>3. CASE pc = "saveBest" \/ (pc = "evaluate" /\ Coincides(mem.epoch))
    <3>1. /\ mem.epoch \in 1..Epochs /\ Ended = mem.epoch /\ \A f \in m : f < mem.epoch
      BY <2>3, SsscFacts DEF SsscInv, SsscMemory, EpochPoints
    <3>2. Sssc!Missed' = m \cup {mem.epoch}
      BY <2>1, <2>3, <3>1 DEF Sssc!Missed, Coincides
    <3> HIDE DEF c, m
    <3>3. CASE pc = "saveBest"
      <4>1. c = Ended /\ mem.epoch \in (1..Epochs \cap 1..c) \ m
        BY <1>2, <3>1, <3>3
      <4>2. QED
        BY <2>2, <3>2, <4>1 DEF Moves, Misses, c, m
    <3>4. CASE pc = "evaluate"
      <4>1. /\ Ended \in (c + 1)..Epochs /\ (c + 1)..(Ended - 1) = {}
            /\ Ended \in 1..Epochs
        BY <1>2, <3>1, <3>4
      <4>2. QED
        BY <2>2, <3>1, <3>2, <4>1 DEF Moves, Commits, c, m
    <3>5. QED
      BY <2>3, <3>3, <3>4
  <2>4. CASE ~(pc = "saveBest" \/ (pc = "evaluate" /\ Coincides(mem.epoch)))
    <3>1. Sssc!Missed' = m
      BY <2>1, <2>4 DEF Sssc!Missed, Coincides
    <3>2. pc = "evaluate" => Ended = mem.epoch - 1
      BY <2>4 DEF SsscInv, SsscMemory
    <3>3. QED
      BY <1>2, <2>2, <3>1, <3>2 DEF Moves, Stays
  <2>5. QED
    BY <2>3, <2>4
<1>7. CASE Same
  <2>1. Ended' = Ended
    BY <1>7 DEF Ended
  <2>2. Sssc!Committed' = c
    BY <1>2, <1>7, <2>1
  <2>3. QED
    BY <1>0, <1>7, <2>2 DEF Moves, Stays, Sssc!Result, Sssc!Epoch
<1>8. QED
  BY <1>1, <1>3, <1>4, <1>5, <1>6, <1>7

(***************************************************************************)
(* sota_slret                                                              *)
(***************************************************************************)
LEMMA EvaluationsNext ==
    ASSUME NEW n \in 1..Epochs
    PROVE  /\ Evaluations(n) = IF Sota!Evaluated(n) THEN Evaluations(n - 1) \cup {n}
                                                   ELSE Evaluations(n - 1)
           /\ Evaluations(n - 1) \in SUBSET (1..Epochs)
           /\ \A f \in Evaluations(n - 1) : f < n
<1>1. n \in 1..Epochs /\ Epochs \in Nat
  BY TrainerAssumption DEF TrainerAssumption
<1>2. 1..n = 1..(n - 1) \cup {n} /\ \A f \in 1..(n - 1) : f < n /\ f \in 1..Epochs
  BY <1>1
<1>3. QED
  BY <1>2 DEF Evaluations

LEMMA LastEvaluated == Epochs \in Evaluations(Epochs)
BY TrainerAssumption DEF TrainerAssumption, Evaluations, Sota!Evaluated

LEMMA SotaNone ==
    /\ None \notin Nat /\ None \notin Version /\ None # Sota!Torn /\ None \notin Sota!Resumes
    /\ Epochs \in Nat \ {0} /\ MaxKills \in Nat
BY NoneAssumption, TrainerAssumption DEF NoneAssumption, TrainerAssumption

LEMMA SotaStart == ASSUME Init, which = "sota" PROVE SotaInv
<1> USE SotaNone
<1>1. Shared
  BY Begun
<1>2. /\ pc = "down"
      /\ disk = [model |-> None, val |-> None, resume |-> None, last |-> None, done |-> None,
                 log |-> [e \in 1..Epochs |-> 0]]
  BY DEF Init, Sota!Init, Sota!Begin
<1>3. SotaReached = [epoch |-> 0, best |-> None] /\ Sota!Committed = 0
  BY <1>2 DEF SotaReached, Sota!Committed
<1>4. Choice(score, None, Evaluations(0)) /\ BothHeld(None)
  BY DEF Choice, Evaluations, BothHeld, Held, HeldOver
<1>5. QED
  BY <1>1, <1>2, <1>3, <1>4
     DEF SotaInv, SotaType, SotaMemory, SotaFiles, SotaLog, EpochWrites, LastPoints, Maybe

SotaMemories == [epoch : 1..Epochs + 1, best : Maybe(1..Epochs)]

LEMMA SotaFacts ==
    ASSUME SotaInv
    PROVE  /\ score \in [1..Epochs -> Marks] /\ kills \in 0..MaxKills
           /\ DOMAIN disk = {"model", "val", "resume", "last", "done", "log"}
           /\ disk.log \in [1..Epochs -> Nat]
           /\ SotaReached.epoch \in 0..Epochs /\ SotaReached.best \in Maybe(1..Epochs)
           /\ disk.resume # None =>
                 /\ disk.resume \in Sota!Resumes /\ SotaReached = disk.resume
                 /\ SotaReached.epoch \in 1..Epochs
           /\ pc \notin {"down", "done"} =>
                 /\ mem \in SotaMemories
                 /\ mem.epoch \in 1..Epochs + 1 /\ mem.best \in Maybe(1..Epochs)
           /\ disk.done = None => Sota!Committed = SotaReached.epoch
           /\ pc \in {"train", "last", "mark"} \cup EpochWrites => disk.done = None
<1> USE SotaNone
<1>1. /\ score \in [1..Epochs -> Marks] /\ kills \in 0..MaxKills
      /\ DOMAIN disk = {"model", "val", "resume", "last", "done", "log"}
      /\ disk.log \in [1..Epochs -> Nat] /\ disk.resume \in Maybe(Sota!Resumes)
      /\ pc \notin {"down", "done"} => mem \in SotaMemories
  BY DEF SotaInv, SotaType, Shared, SotaMemories
<1>2. disk.resume # None => disk.resume \in Sota!Resumes /\ SotaReached = disk.resume
  BY <1>1 DEF Maybe, SotaReached
<1>3. disk.resume = None => SotaReached = [epoch |-> 0, best |-> None]
  BY DEF SotaReached
<1>4. /\ SotaReached.epoch \in 0..Epochs /\ SotaReached.best \in Maybe(1..Epochs)
      /\ disk.resume # None => SotaReached.epoch \in 1..Epochs
  BY <1>2, <1>3 DEF Sota!Resumes, Sota!Maybe, Maybe
<1>5. disk.done = None => Sota!Committed = SotaReached.epoch
  BY <1>2, <1>3 DEF Sota!Committed
<1>6. pc \in {"train", "last", "mark"} \cup EpochWrites => disk.done = None
  BY DEF SotaInv, SotaFiles, EpochWrites
<1>7. QED
  BY <1>1, <1>2, <1>4, <1>5, <1>6 DEF SotaMemories

\* Where the process is in an epoch, or after the last one.
LEMMA SotaWorks ==
    ASSUME SotaInv, pc \in {"train"} \cup EpochWrites
    PROVE  /\ mem.epoch = SotaReached.epoch + 1 /\ mem.epoch \in 1..Epochs
           /\ SotaReached.epoch = mem.epoch - 1
           /\ Choice(score, SotaReached.best, Evaluations(mem.epoch - 1))
           /\ SotaReached.best # None => SotaReached.best < mem.epoch
<1> USE SotaNone
<1>1. /\ mem.epoch = SotaReached.epoch + 1 /\ mem.epoch <= Epochs
      /\ Choice(score, SotaReached.best, Evaluations(SotaReached.epoch))
  BY SotaFacts DEF SotaInv, SotaMemory, SotaFiles
<1>2. SotaReached.epoch = mem.epoch - 1 /\ mem.epoch \in 1..Epochs
  <2>1. SotaReached.epoch \in 0..Epochs
    BY SotaFacts
  <2>2. QED
    BY <1>1, <2>1
<1>3. SotaReached.best # None => SotaReached.best \in Evaluations(mem.epoch - 1)
  BY <1>1, <1>2 DEF Choice, Leads
<1>4. QED
  BY <1>1, <1>2, <1>3, EvaluationsNext

\* At the end the best model is that of the best of all candidates.
LEMMA SotaCompleted ==
    ASSUME SotaInv, disk.done = None, SotaReached.epoch = Epochs
    PROVE  /\ disk.resume # None /\ disk.resume = SotaReached
           /\ SotaReached.best # None /\ SotaReached.best \in 1..Epochs
           /\ Leads(score, SotaReached.best, Evaluations(Epochs))
<1> USE SotaNone
<1>1. disk.resume # None /\ disk.resume = SotaReached
  BY SotaFacts DEF SotaReached
<1>2. Choice(score, SotaReached.best, Evaluations(Epochs))
  BY DEF SotaInv, SotaFiles
<1>3. SotaReached.best # None /\ Leads(score, SotaReached.best, Evaluations(Epochs))
  BY <1>2, LastEvaluated DEF Choice
<1>4. QED
  BY <1>1, <1>3, SotaFacts DEF Maybe

LEMMA SotaLogged ==
    ASSUME SotaInv, NEW e \in 1..Epochs
    PROVE  /\ e <= Sota!Committed => disk.log[e] > 0
           /\ disk.log[e] > 1 => <<"resume", e>> \in cuts
           /\ e > Sota!Committed /\ disk.log[e] > 0 =>
                 <<"resume", e>> \in cuts \/ (pc = "resume" /\ mem.epoch = e)
BY Zenon DEF SotaInv, SotaLog

\* A step that adds nothing to the log and commits no epoch.
LEMMA SotaLogStays ==
    ASSUME SotaInv, disk'.log = disk.log, Sota!Committed' = Sota!Committed,
           cuts \subseteq cuts',
           pc = "resume" => <<"resume", mem.epoch>> \in cuts' \/ (pc' = pc /\ mem' = mem)
    PROVE  SotaLog'
<1>1. ASSUME NEW e \in 1..Epochs
      PROVE  /\ e <= Sota!Committed => disk.log[e] > 0
             /\ disk.log[e] > 1 => <<"resume", e>> \in cuts'
             /\ e > Sota!Committed /\ disk.log[e] > 0 =>
                   <<"resume", e>> \in cuts' \/ (pc' = "resume" /\ mem'.epoch = e)
  <2>1. /\ e <= Sota!Committed => disk.log[e] > 0
        /\ disk.log[e] > 1 => <<"resume", e>> \in cuts
        /\ e > Sota!Committed /\ disk.log[e] > 0 =>
              <<"resume", e>> \in cuts \/ (pc = "resume" /\ mem.epoch = e)
    BY SotaLogged
  <2>2. QED
    BY <2>1, Zenon
<1>2. QED
  BY <1>1, Zenon DEF SotaLog

\* One file changes.
LEMMA SotaDisk ==
    ASSUME SotaInv, NEW v \in Version \cup {Sota!Torn}
    PROVE  LET T == [model : Maybe(Version \cup {Sota!Torn}),
                     val : Maybe(Version \cup {Sota!Torn}), resume : Maybe(Sota!Resumes),
                     last : Maybe(Version \cup {Sota!Torn}),
                     done : Maybe(Version \cup {Sota!Torn}), log : [1..Epochs -> Nat]] IN
           /\ disk \in T
           /\ [disk EXCEPT !.model = v] \in T /\ [disk EXCEPT !.val = v] \in T
           /\ [disk EXCEPT !.last = v] \in T /\ [disk EXCEPT !.done = v] \in T
<1> DEFINE F == Maybe(Version \cup {Sota!Torn})
           R == Maybe(Sota!Resumes)
           L == [1..Epochs -> Nat]
           D == [model : F, val : F, resume : R, last : F, done : F, log : L]
<1>1. v \in F
  BY DEF Maybe
<1>2. disk \in D
  BY DEF SotaInv, SotaType
<1> HIDE DEF F, R, L
<1>3. /\ [disk EXCEPT !.model = v] \in D
      /\ [disk EXCEPT !.val = v] \in D
      /\ [disk EXCEPT !.last = v] \in D
      /\ [disk EXCEPT !.done = v] \in D
  BY <1>1, <1>2
<1>4. QED
  BY <1>2, <1>3 DEF D, F, R, L

LEMMA SotaLaunches ==
    ASSUME SotaInv, Sota!Start \/ Sota!Resume \/ Sota!SkipDone
    PROVE  SotaInv'
<1> USE SotaNone
<1>1. CASE Sota!Start \/ Sota!Resume
  <2>1. /\ pc = "down" /\ disk.done = None /\ UNCHANGED <<score, disk, kills, cuts>>
        /\ pc' = IF SotaReached.epoch + 1 <= Epochs THEN "train" ELSE "last"
        /\ mem' = [epoch |-> SotaReached.epoch + 1, best |-> SotaReached.best]
    BY <1>1, SotaFacts DEF Sota!Start, Sota!Resume, Sota!Launch, Sota!Step, SotaReached
  <2>2. /\ SotaReached.epoch \in 0..Epochs /\ SotaReached.best \in Maybe(1..Epochs)
    BY SotaFacts
  <2>3. /\ mem'.epoch = SotaReached.epoch + 1 /\ mem'.best = SotaReached.best
        /\ mem' \in [epoch : 1..Epochs + 1, best : Maybe(1..Epochs)]
    BY <2>1, <2>2
  <2>4. /\ SotaReached' = SotaReached /\ Sota!Lost' = Sota!Lost
        /\ Sota!Committed' = Sota!Committed
    BY <2>1 DEF SotaReached, Sota!Lost, Sota!Committed
  <2>5. SotaType'
    BY <2>1, <2>3 DEF SotaInv, SotaType, Shared, EpochWrites, LastPoints
  <2>6. SotaFiles'
    BY <2>1, <2>4 DEF SotaInv, SotaFiles, BothHeld, Held
  <2>7. SotaLog'
    BY <2>1, <2>4, SotaLogStays
  <2>8. CASE SotaReached.epoch + 1 <= Epochs
    BY <2>1, <2>3, <2>4, <2>5, <2>6, <2>7, <2>8 DEF SotaInv, SotaMemory, EpochWrites, LastPoints
  <2>9. CASE ~(SotaReached.epoch + 1 <= Epochs)
    <3>1. SotaReached.epoch = Epochs
      BY <2>2, <2>9
    <3>2. SotaReached \in Sota!Resumes
      BY <2>1, <3>1, SotaFacts, SotaCompleted
    <3>3. SotaReached = [epoch |-> Epochs, best |-> SotaReached.best]
      BY <3>1, <3>2 DEF Sota!Resumes
    <3>4. SotaMemory'
      BY <2>1, <2>3, <2>4, <2>9, <3>1, <3>3 DEF SotaMemory, EpochWrites, LastPoints
    <3>5. QED
      BY <2>5, <2>6, <2>7, <3>4 DEF SotaInv
  <2>10. QED
    BY <2>8, <2>9
<1>2. CASE Sota!SkipDone
  <2>1. /\ pc = "down" /\ pc' = "done" /\ disk.done # None
        /\ UNCHANGED <<score, mem, disk, kills, cuts>>
    BY <1>2 DEF Sota!SkipDone, Sota!Step, Sota!Silent
  <2>2. /\ SotaReached' = SotaReached /\ Sota!Lost' = Sota!Lost /\ Sota!Best' = Sota!Best
        /\ Sota!Committed' = Sota!Committed
    BY <2>1 DEF SotaReached, Sota!Lost, Sota!Best, Sota!Committed
  <2>3. QED
    BY <2>1, <2>2 DEF SotaInv, SotaType, SotaMemory, SotaFiles, SotaLog, Shared, BothHeld, Held,
       EpochWrites, LastPoints
<1>3. QED
  BY <1>1, <1>2

LEMMA SotaTrains ==
    ASSUME SotaInv, Sota!Train
    PROVE  SotaInv'
<1> USE SotaNone
<1>1. /\ pc = "train" /\ pc' = "log" /\ ~Sota!Evaluated(mem.epoch)
      /\ UNCHANGED <<score, mem, disk, kills, cuts>>
  BY DEF Sota!Train, Sota!Step, Sota!Silent
<1>2. /\ SotaReached' = SotaReached /\ Sota!Lost' = Sota!Lost
      /\ Sota!Committed' = Sota!Committed
  BY <1>1 DEF SotaReached, Sota!Lost, Sota!Committed
<1>3. /\ mem.epoch = SotaReached.epoch + 1 /\ mem.epoch \in 1..Epochs
      /\ mem.best = SotaReached.best
      /\ Choice(score, mem.best, Evaluations(mem.epoch - 1)) /\ BothHeld(mem.best)
      /\ disk.done = None
  BY <1>1, SotaWorks, SotaFacts DEF SotaInv, SotaMemory, SotaFiles
<1>4. Choice(score, mem.best, Evaluations(mem.epoch))
  BY <1>1, <1>3, EvaluationsNext
<1>5. SotaType'
  BY <1>1 DEF SotaInv, SotaType, Shared, EpochWrites, LastPoints
<1>6. SotaMemory'
  BY <1>1, <1>2, <1>3, <1>4 DEF SotaMemory, BothHeld, Held, EpochWrites, LastPoints
<1>7. SotaFiles'
  BY <1>1, <1>2, <1>3 DEF SotaInv, SotaFiles, BothHeld, Held
<1>8. SotaLog'
  BY <1>1, <1>2, SotaLogStays
<1>9. QED
  BY <1>5, <1>6, <1>7, <1>8 DEF SotaInv

LEMMA SotaEvaluates ==
    ASSUME SotaInv, Sota!TrainAndEvaluate
    PROVE  SotaInv'
<1> USE SotaNone
<1> DEFINE n == mem.epoch
           b == mem.best
<1>1. PICK new \in Scores :
         /\ pc = "train" /\ Sota!Evaluated(n)
         /\ pc' = (IF b = None \/ new > score[b] THEN "model" ELSE "log")
         /\ score' = [score EXCEPT ![n] = new]
         /\ mem' = [mem EXCEPT !.best = IF b = None \/ new > score[b] THEN n ELSE b]
         /\ UNCHANGED <<disk, kills, cuts>>
  BY DEF Sota!TrainAndEvaluate, Sota!Evaluates, Sota!Improves
<1> DEFINE better == b = None \/ new > score[b]
<1>2. /\ n = SotaReached.epoch + 1 /\ n \in 1..Epochs /\ SotaReached.epoch = n - 1
      /\ b = SotaReached.best /\ Choice(score, b, Evaluations(n - 1)) /\ BothHeld(b)
      /\ disk.done = None /\ mem \in SotaMemories /\ b \in Maybe(1..Epochs)
  BY <1>1, SotaWorks, SotaFacts DEF SotaInv, SotaMemory, SotaFiles
<1>3. /\ SotaReached' = SotaReached /\ Sota!Lost' = Sota!Lost
      /\ Sota!Committed' = Sota!Committed
  BY <1>1 DEF SotaReached, Sota!Lost, Sota!Committed
<1>4. /\ mem'.epoch = n /\ mem'.best = (IF better THEN n ELSE b) /\ mem' \in SotaMemories
  <2> DEFINE best == IF better THEN n ELSE b
  <2>1. best \in Maybe(1..Epochs)
    BY <1>2 DEF Maybe
  <2>2. mem' = [mem EXCEPT !.best = best]
    BY <1>1
  <2> HIDE DEF best
  <2>3. mem'.epoch = n /\ mem'.best = best /\ mem' \in SotaMemories
    BY <1>2, <2>1, <2>2 DEF SotaMemories
  <2>4. QED
    BY <2>3 DEF best
<1> HIDE DEF n, better
<1>5. /\ score' \in [1..Epochs -> Marks] /\ score'[n] = new /\ new # 0
      /\ \A f \in 1..Epochs : f # n => score'[f] = score[f]
  <2>1. score \in [1..Epochs -> Marks]
    BY SotaFacts
  <2>2. QED
    BY <1>1, <1>2, <2>1, Evaluation DEF n
<1>6. /\ Evaluations(n) = Evaluations(n - 1) \cup {n}
      /\ Evaluations(n - 1) \in SUBSET (1..Epochs)
      /\ \A f \in Evaluations(n - 1) : f < n
  BY <1>1, <1>2, EvaluationsNext DEF n
\* The scores of the epochs before it are those they were compared with.
<1>7. \A f \in Evaluations(n - 1) : score'[f] = score[f]
  BY <1>2, <1>5, <1>6
<1>8. Choice(score', b, Evaluations(n - 1))
  BY <1>2, <1>7, ChoiceAlike
<1>9. better <=> b = None \/ score'[n] > score'[b]
  <2>1. b # None => b \in Evaluations(n - 1)
    BY <1>2 DEF Choice, Leads
  <2>2. b # None => score'[b] = score[b]
    BY <1>7, <2>1
  <2>3. QED
    BY <1>5, <2>2 DEF better
<1>10. Choice(score', mem'.best, Evaluations(n))
  <2>1. IF b = None \/ score'[n] > score'[b]
           THEN Choice(score', n, Evaluations(n - 1) \cup {n})
           ELSE Choice(score', b, Evaluations(n - 1) \cup {n})
    <3>1. n \in 1..Epochs
      BY <1>2
    <3>2. score' \in [1..Epochs -> Marks]
      BY <1>5
    <3>3. QED
      BY <1>6, <1>8, <3>1, <3>2, ChoiceNext
  <2>2. QED
    BY <1>4, <1>6, <1>9, <2>1
<1>11. /\ pc' \in {"model", "log"} /\ (pc' = "model" => mem'.best = n)
       /\ pc' = "log" => mem'.best = b
  BY <1>1, <1>4 DEF better
<1>12. SotaType'
  BY <1>1, <1>4, <1>5, <1>11
     DEF SotaInv, SotaType, Shared, EpochWrites, LastPoints, SotaMemories
<1>13. SotaMemory'
  <2>1. pc' = "log" => BothHeld(mem.best)'
    BY <1>1, <1>2, <1>3, <1>11 DEF BothHeld, Held
  <2>2. /\ mem'.epoch = SotaReached'.epoch + 1 /\ mem'.epoch <= Epochs
        /\ mem'.epoch = n /\ score'[n] # 0 /\ Sota!Evaluated(n)
    <3>1. n <= Epochs
      BY <1>2
    <3>2. Sota!Evaluated(n) /\ score'[n] # 0
      BY <1>1, <1>5 DEF n
    <3>3. QED
      BY <1>2, <1>3, <1>4, <3>1, <3>2
  <2>3. mem'.best = n \/ (pc' = "log" /\ mem'.best = SotaReached'.best)
    BY <1>2, <1>3, <1>11
  <2>4. QED
    BY <1>10, <1>11, <2>1, <2>2, <2>3 DEF SotaMemory, EpochWrites, LastPoints
<1>14. SotaFiles'
  <2>1. BothHeld(SotaReached.best)'
    BY <1>1, <1>2, <1>3 DEF BothHeld, Held
  <2>2. Choice(score', SotaReached'.best, Evaluations(SotaReached'.epoch))
    BY <1>2, <1>3, <1>8
  <2>3. QED
    BY <1>1, <1>2, <1>3, <1>11, <2>1, <2>2 DEF SotaFiles
<1>15. SotaLog'
  BY <1>1, <1>3, <1>11, SotaLogStays
<1>16. QED
  BY <1>12, <1>13, <1>14, <1>15 DEF SotaInv

LEMMA SotaSavesModel ==
    ASSUME SotaInv, Sota!SaveModel \/ Sota!SaveScores
    PROVE  SotaInv'
<1> USE SotaNone
<1> DEFINE n == mem.epoch
           version == Sota!Written(n)
<1>1. /\ UNCHANGED <<score, mem, kills, cuts>>
      /\ \/ pc = "model" /\ pc' = "val" /\ disk' = [disk EXCEPT !.model = version]
         \/ pc = "val" /\ pc' = "log" /\ disk' = [disk EXCEPT !.val = version]
  BY DEF Sota!SaveModel, Sota!SaveScores, Sota!Step, Sota!Writes
<1>2. /\ n = SotaReached.epoch + 1 /\ n \in 1..Epochs /\ mem.best = n
      /\ Sota!Evaluated(n) /\ score[n] # 0 /\ Choice(score, n, Evaluations(n))
      /\ pc = "val" => Held(disk.model, n)
      /\ pc = "model" => Held(disk.val, SotaReached.best)
      /\ Choice(score, SotaReached.best, Evaluations(SotaReached.epoch))
      /\ disk.done = None /\ kills \in 0..MaxKills
  BY <1>1, SotaWorks, SotaFacts
     DEF SotaInv, SotaMemory, SotaFiles, BothHeld, EpochWrites
<1>3. version \in Version /\ version # None /\ version.epoch = n
  BY <1>2 DEF Sota!Written, Version
<1> HIDE DEF version
<1>4. /\ disk'.resume = disk.resume /\ disk'.done = disk.done /\ disk'.log = disk.log
      /\ pc = "model" => disk'.model = version /\ disk'.val = disk.val
      /\ pc = "val" => disk'.model = disk.model /\ disk'.val = version
  BY <1>1, SotaFacts
<1>5. /\ SotaReached' = SotaReached /\ Sota!Lost' = Sota!Lost
      /\ Sota!Committed' = Sota!Committed
  BY <1>1, <1>4 DEF SotaReached, Sota!Lost, Sota!Committed
<1>6. Held(version, n)
  BY <1>3 DEF Held, HeldOver
<1>7. SotaType'
  BY <1>1, <1>3, SotaDisk DEF SotaInv, SotaType, Shared, EpochWrites, LastPoints
<1>8. SotaMemory'
  BY <1>1, <1>2, <1>4, <1>5, <1>6 DEF SotaMemory, BothHeld, Held, EpochWrites, LastPoints
<1>9. SotaFiles'
  BY <1>1, <1>2, <1>4, <1>5 DEF SotaFiles
<1>10. SotaLog'
  BY <1>1, <1>4, <1>5, SotaLogStays
<1>11. QED
  BY <1>7, <1>8, <1>9, <1>10 DEF SotaInv

LEMMA SotaLogs ==
    ASSUME SotaInv, Sota!AppendLog
    PROVE  SotaInv'
<1> USE SotaNone
<1> DEFINE n == mem.epoch
           log == [disk.log EXCEPT ![n] = @ + 1]
<1>1. /\ pc = "log" /\ pc' = "resume" /\ UNCHANGED <<score, mem, kills, cuts>>
      /\ disk' = [disk EXCEPT !.log = log]
  BY DEF Sota!AppendLog, Sota!Step, Sota!Writes
<1>2. /\ n = SotaReached.epoch + 1 /\ n \in 1..Epochs /\ disk.done = None
      /\ disk.log \in [1..Epochs -> Nat] /\ Sota!Committed = SotaReached.epoch
      /\ SotaReached.epoch \in 0..Epochs
  BY <1>1, SotaWorks, SotaFacts DEF EpochWrites
<1>3. /\ log \in [1..Epochs -> Nat]
      /\ \A e \in 1..Epochs : log[e] = IF e = n THEN disk.log[e] + 1 ELSE disk.log[e]
  <2> DEFINE old == disk.log
  <2>1. old \in [1..Epochs -> Nat] /\ n \in 1..Epochs
    BY <1>2
  <2>2. log = [old EXCEPT ![n] = old[n] + 1]
    OBVIOUS
  <2> HIDE DEF old, n, log
  <2>3. old[n] + 1 \in Nat
    BY <2>1
  <2>4. QED
    BY <2>1, <2>2, <2>3 DEF old
<1> HIDE DEF log
<1>4. /\ disk'.resume = disk.resume /\ disk'.done = disk.done /\ disk'.log = log
      /\ disk'.model = disk.model /\ disk'.val = disk.val
  BY <1>1, SotaFacts
<1>5. /\ SotaReached' = SotaReached /\ Sota!Lost' = Sota!Lost
      /\ Sota!Committed' = Sota!Committed
  BY <1>1, <1>4 DEF SotaReached, Sota!Lost, Sota!Committed
<1>6. SotaType'
  BY <1>1, <1>3 DEF SotaInv, SotaType, Shared, EpochWrites, LastPoints
<1>7. SotaMemory'
  BY <1>1, <1>4, <1>5 DEF SotaInv, SotaMemory, BothHeld, Held, EpochWrites, LastPoints
<1>8. log[n] > 0
  <2>1. disk.log[n] \in Nat /\ log[n] = disk.log[n] + 1
    BY <1>2, <1>3
  <2>2. QED
    BY <2>1
<1>9. SotaFiles'
  BY <1>1, <1>2, <1>4, <1>5, <1>8 DEF SotaInv, SotaFiles
<1>10. ASSUME NEW e \in 1..Epochs
       PROVE  /\ e <= Sota!Committed => log[e] > 0
              /\ log[e] > 1 => <<"resume", e>> \in cuts
              /\ e > Sota!Committed /\ log[e] > 0 => <<"resume", e>> \in cuts \/ n = e
  <2>1. disk.log[e] \in Nat
    BY <1>2
  <2>2. /\ e <= Sota!Committed => disk.log[e] > 0
        /\ disk.log[e] > 1 => <<"resume", e>> \in cuts
        /\ e > Sota!Committed /\ disk.log[e] > 0 => <<"resume", e>> \in cuts
    BY <1>1, SotaLogged
  <2>3. CASE e = n
    BY <1>2, <1>3, <2>1, <2>2, <2>3
  <2>4. CASE e # n
    BY <1>3, <2>2, <2>4
  <2>5. QED
    BY <2>3, <2>4
<1>11. SotaLog'
  BY <1>1, <1>4, <1>5, <1>10, Zenon DEF SotaLog
<1>12. QED
  BY <1>6, <1>7, <1>9, <1>11 DEF SotaInv

LEMMA SotaSavesResume ==
    ASSUME SotaInv, Sota!SaveResume
    PROVE  SotaInv'
<1> USE SotaNone
<1> DEFINE n == mem.epoch
           b == mem.best
           resume == [epoch |-> n, best |-> b]
<1>1. /\ pc = "resume" /\ pc' = (IF n < Epochs THEN "train" ELSE "last")
      /\ disk' = [disk EXCEPT !.resume = resume] /\ UNCHANGED <<score, kills, cuts>>
      /\ mem' = [mem EXCEPT !.epoch = n + 1]
  BY DEF Sota!SaveResume, Sota!Step
<1>2. /\ n = SotaReached.epoch + 1 /\ n \in 1..Epochs /\ disk.done = None
      /\ b \in Maybe(1..Epochs) /\ mem \in SotaMemories
      /\ Choice(score, b, Evaluations(n)) /\ BothHeld(b) /\ disk.log[n] > 0
      /\ Sota!Committed = SotaReached.epoch /\ SotaReached.epoch \in 0..Epochs
  BY <1>1, SotaWorks, SotaFacts DEF SotaInv, SotaMemory, SotaFiles, EpochWrites
<1>3. resume \in Sota!Resumes /\ resume # None /\ resume.epoch = n /\ resume.best = b
  <2>1. resume \in Sota!Resumes
    BY <1>2 DEF Sota!Resumes, Sota!Maybe, Maybe
  <2>2. QED
    BY <2>1
<1>4. mem'.epoch = n + 1 /\ mem'.best = b /\ mem' \in SotaMemories
  BY <1>1, <1>2 DEF SotaMemories
<1>5. /\ disk'.resume = resume /\ disk'.done = disk.done /\ disk'.log = disk.log
      /\ disk'.model = disk.model /\ disk'.val = disk.val
  BY <1>1, SotaFacts
<1>6. n = Epochs => resume = [epoch |-> Epochs, best |-> b]
  OBVIOUS
<1> HIDE DEF resume
<1>7. /\ SotaReached' = resume /\ Sota!Lost' = Sota!Lost /\ Sota!Committed' = n
  BY <1>1, <1>2, <1>3, <1>5 DEF SotaReached, Sota!Lost, Sota!Committed
<1>8. SotaType'
  BY <1>1, <1>3, <1>4
     DEF SotaInv, SotaType, Shared, EpochWrites, LastPoints, SotaMemories, Maybe
<1>9. /\ pc' \in {"train", "last"}
      /\ (pc' = "train" => n + 1 <= Epochs) /\ (pc' = "last" => n = Epochs)
  BY <1>1, <1>2
<1>10. SotaMemory'
  BY <1>3, <1>4, <1>6, <1>7, <1>9 DEF SotaMemory, EpochWrites, LastPoints
<1>11. SotaFiles'
  <2>1. BothHeld(SotaReached.best)'
    BY <1>2, <1>3, <1>5, <1>7 DEF BothHeld, Held
  <2>2. QED
    BY <1>1, <1>2, <1>3, <1>5, <1>7, <1>9, <2>1 DEF SotaFiles
<1>12. ASSUME NEW e \in 1..Epochs
       PROVE  /\ e <= n => disk.log[e] > 0
              /\ disk.log[e] > 1 => <<"resume", e>> \in cuts
              /\ e > n /\ disk.log[e] > 0 => <<"resume", e>> \in cuts
  <2>1. /\ e <= Sota!Committed => disk.log[e] > 0
        /\ disk.log[e] > 1 => <<"resume", e>> \in cuts
        /\ e > Sota!Committed /\ disk.log[e] > 0 => <<"resume", e>> \in cuts \/ n = e
    BY SotaLogged
  <2>2. QED
    BY <1>2, <2>1
<1>13. SotaLog'
  BY <1>1, <1>5, <1>7, <1>12, Zenon DEF SotaLog
<1>14. QED
  BY <1>8, <1>10, <1>11, <1>13 DEF SotaInv

LEMMA SotaEnds ==
    ASSUME SotaInv, Sota!SaveLastModel \/ Sota!MarkDone
    PROVE  SotaInv'
<1> USE SotaNone
<1>1. /\ pc \in {"last", "mark"} /\ UNCHANGED <<score, mem, kills, cuts>>
      /\ disk.done = None /\ mem.epoch = Epochs + 1 /\ kills \in 0..MaxKills
      /\ SotaReached = [epoch |-> Epochs, best |-> mem.best]
  BY SotaFacts DEF SotaInv, SotaMemory, LastPoints, Sota!SaveLastModel, Sota!MarkDone,
     Sota!Step, Sota!Writes
<1>2. SotaReached.epoch = Epochs /\ SotaReached.best = mem.best
  BY <1>1
<1>3. /\ disk.resume # None /\ disk.resume = SotaReached /\ mem.best # None
      /\ mem.best \in 1..Epochs /\ Leads(score, mem.best, Evaluations(Epochs))
      /\ Choice(score, mem.best, Evaluations(Epochs)) /\ BothHeld(mem.best)
  BY <1>1, <1>2, SotaCompleted DEF SotaInv, SotaFiles
<1>4. CASE Sota!SaveLastModel
  <2>1. /\ pc = "last" /\ pc' = "mark"
        /\ disk' = [disk EXCEPT !.last = Sota!Written(mem.epoch - 1)]
    BY <1>4 DEF Sota!SaveLastModel, Sota!Step, Sota!Writes
  <2>2. disk' = [disk EXCEPT !.last = Written(Epochs)] /\ Written(Epochs) \in Version
        /\ Written(Epochs)' = Written(Epochs)
    <3>1. mem.epoch - 1 = Epochs
      BY <1>1
    <3>2. QED
      BY <1>1, <2>1, <3>1 DEF Sota!Written, Written, Version
  <2>3. /\ disk'.resume = disk.resume /\ disk'.done = disk.done /\ disk'.log = disk.log
        /\ disk'.model = disk.model /\ disk'.val = disk.val /\ disk'.last = Written(Epochs)
    BY <2>2, SotaFacts
  <2>4. /\ SotaReached' = SotaReached /\ Sota!Lost' = Sota!Lost
        /\ Sota!Committed' = Sota!Committed
    BY <1>1, <2>3 DEF SotaReached, Sota!Lost, Sota!Committed
  <2>5. SotaType'
    BY <1>1, <2>1, <2>2 DEF SotaInv, SotaType, Shared, EpochWrites, LastPoints, Maybe
  <2>6. SotaMemory'
    BY <1>1, <2>1, <2>2, <2>3, <2>4 DEF SotaMemory, EpochWrites, LastPoints
  <2>7. SotaFiles'
    BY <1>1, <1>2, <1>3, <2>1, <2>3, <2>4 DEF SotaFiles, BothHeld, Held
  <2>8. SotaLog'
    BY <1>1, <2>1, <2>3, <2>4, SotaLogStays
  <2>9. QED
    BY <2>5, <2>6, <2>7, <2>8 DEF SotaInv
<1>5. CASE Sota!MarkDone
  <2>1. pc = "mark" /\ pc' = "clear" /\ disk' = [disk EXCEPT !.done = Written(mem.best)]
    BY <1>5 DEF Sota!MarkDone, Sota!Step, Sota!Writes, Sota!Written, Written
  <2>2. /\ Written(mem.best) \in Version /\ Written(mem.best) # None
        /\ Written(mem.best)' = Written(mem.best)
    BY <1>1, <1>3 DEF Written, Version
  <2>3. /\ disk'.resume = disk.resume /\ disk'.done = Written(mem.best)
        /\ disk'.log = disk.log /\ disk'.model = disk.model /\ disk'.val = disk.val
        /\ disk'.last = disk.last
    BY <2>1, SotaFacts
  <2>4. /\ SotaReached' = SotaReached /\ Sota!Lost' = Sota!Lost /\ Sota!Committed' = Epochs
        /\ Sota!Committed = Epochs /\ Sota!Best' = mem.best
    BY <1>1, <1>2, <1>3, <2>2, <2>3 DEF SotaReached, Sota!Lost, Sota!Committed, Sota!Best
  <2>5. disk.last.epoch = Epochs
    <3>1. disk.last = Written(Epochs)
      BY <2>1 DEF SotaInv, SotaMemory
    <3>2. QED
      BY <3>1 DEF Written
  <2>6. SotaType'
    BY <1>1, <2>1, <2>2 DEF SotaInv, SotaType, Shared, EpochWrites, LastPoints, Maybe
  <2>7. SotaMemory'
    BY <1>1, <2>1, <2>2, <2>3, <2>4 DEF SotaMemory, EpochWrites, LastPoints
  <2>8. SotaFiles'
    BY <1>1, <1>3, <2>1, <2>2, <2>3, <2>4, <2>5 DEF SotaFiles, BothHeld, Held
  <2>9. SotaLog'
    BY <1>1, <1>2, <2>1, <2>3, <2>4, SotaLogStays, SotaFacts
  <2>10. QED
    BY <2>6, <2>7, <2>8, <2>9 DEF SotaInv
<1>6. QED
  BY <1>4, <1>5

LEMMA SotaClears ==
    ASSUME SotaInv, Sota!RemoveResume
    PROVE  /\ SotaInv'
           /\ Sota!Best' = Sota!Best /\ Sota!Committed = Epochs /\ Sota!Committed' = Epochs
<1> USE SotaNone
<1>1. /\ pc = "clear" /\ pc' = "done" /\ disk' = [disk EXCEPT !.resume = None]
      /\ UNCHANGED <<score, mem, kills, cuts>>
  BY DEF Sota!RemoveResume, Sota!Step, Sota!Writes
<1>2. /\ disk'.resume = None /\ disk'.done = disk.done /\ disk'.log = disk.log
      /\ disk'.model = disk.model /\ disk'.val = disk.val /\ disk'.last = disk.last
  BY <1>1, SotaFacts
<1>3. /\ disk.done = Written(mem.best) /\ mem.best \in Maybe(1..Epochs)
      /\ SotaReached = [epoch |-> Epochs, best |-> mem.best]
  BY <1>1, SotaFacts DEF SotaInv, SotaMemory, LastPoints
<1>4. /\ disk.resume # None /\ disk.resume.best = mem.best
  BY <1>3, SotaFacts DEF SotaReached
<1>5. Sota!Best = mem.best /\ Sota!Best # None
  <2>1. Sota!Best = mem.best
    BY <1>4 DEF Sota!Best
  <2>2. CASE disk.done = None
    <3>1. SotaReached.epoch = Epochs /\ SotaReached.best = mem.best
      BY <1>3
    <3>2. QED
      BY <2>1, <2>2, <3>1, SotaCompleted
  <2>3. CASE disk.done # None
    BY <2>1, <2>3, Zenon DEF SotaInv, SotaFiles
  <2>4. QED
    BY <2>1, <2>2, <2>3
<1>6. disk.done # None /\ disk.done.epoch = mem.best
  <2>1. disk.done \in Version
    BY <1>3, <1>5, SotaFacts DEF Written, Version, Maybe
  <2>2. QED
    BY <1>3, <2>1 DEF Written
<1>7. Sota!Best' = Sota!Best /\ Sota!Committed = Epochs /\ Sota!Committed' = Epochs
  BY <1>2, <1>5, <1>6 DEF Sota!Best, Sota!Committed
<1>8. Sota!Lost' = Sota!Lost
  BY <1>1 DEF Sota!Lost
<1>9. SotaType'
  BY <1>1 DEF SotaInv, SotaType, Shared, EpochWrites, LastPoints, Maybe
<1>10. SotaMemory'
  BY <1>1 DEF SotaMemory, EpochWrites, LastPoints
<1>11. SotaFiles'
  BY <1>1, <1>2, <1>6, <1>7, <1>8 DEF SotaInv, SotaFiles, BothHeld, Held
<1>12. SotaLog'
  BY <1>1, <1>2, <1>7, SotaLogStays
<1>13. QED
  BY <1>7, <1>9, <1>10, <1>11, <1>12 DEF SotaInv

\* What is of a later epoch that is lost now is still of b or later.
LEMMA HeldLater ==
    ASSUME NEW lost, NEW more, lost \subseteq more, more \subseteq 1..Epochs,
           NEW b \in Maybe(1..Epochs), NEW e \in 1..Epochs, NEW file,
           b # None => e \in more /\ e > b,
           HeldOver(lost, file, b) \/ HeldOver(lost, file, e) \/ (file # None /\ file.epoch = 0)
    PROVE  HeldOver(more, file, b)
<1> USE SotaNone
<1>1. CASE b = None
  BY <1>1 DEF HeldOver
<1>2. CASE b # None
  <2>1. b \in Nat /\ e \in Nat /\ e \in more /\ e > b /\ e # None
    BY <1>2 DEF Maybe
  <2>2. CASE HeldOver(lost, file, b)
    BY <1>2, <2>2 DEF HeldOver
  <2>3. CASE HeldOver(lost, file, e)
    <3>1. CASE file.epoch = e
      BY <2>1, <2>3, <3>1 DEF HeldOver
    <3>2. CASE file.epoch # e
      <4>1. PICK f \in lost : f > e /\ file.epoch \in {0, f}
        BY <2>1, <2>3, <3>2 DEF HeldOver
      <4>2. f \in more /\ f \in Nat /\ f > b
        <5>1. f \in more /\ f \in 1..Epochs
          BY <4>1, Zenon
        <5>2. QED
          BY <2>1, <4>1, <5>1
      <4>3. QED
        BY <2>1, <2>3, <4>1, <4>2 DEF HeldOver
    <3>3. QED
      BY <3>1, <3>2
  <2>4. CASE file # None /\ file.epoch = 0
    BY <2>1, <2>4 DEF HeldOver
  <2>5. QED
    BY <2>2, <2>3, <2>4
<1>3. QED
  BY <1>1, <1>2

LEMMA SotaDies ==
    ASSUME SotaInv, Sota!Kill
    PROVE  SotaInv'
<1> USE SotaNone
<1> DEFINE b == SotaReached.best
<1>1. /\ pc \notin {"down", "done"} /\ pc' = "down" /\ kills < MaxKills /\ kills' = kills + 1
      /\ score' = score /\ cuts' = cuts \cup {<<pc, mem.epoch>>}
      /\ \/ disk' = disk
         \/ pc = "model" /\ disk' = [disk EXCEPT !.model = Sota!Torn]
         \/ pc = "val" /\ disk' = [disk EXCEPT !.val = Sota!Torn]
         \/ pc = "last" /\ disk' = [disk EXCEPT !.last = Sota!Torn]
         \/ pc = "mark" /\ disk' = [disk EXCEPT !.done = Sota!Torn]
  BY DEF Sota!Kill, Sota!Cut
<1>2. kills' \in 0..MaxKills
  BY <1>1, SotaFacts
<1>3. /\ disk'.resume = disk.resume /\ disk'.log = disk.log
      /\ pc # "mark" => disk'.done = disk.done
      /\ disk'.done = disk.done \/ disk'.done = Sota!Torn
      /\ disk'.model = disk.model \/ (pc = "model" /\ disk'.model = Sota!Torn)
      /\ disk'.val = disk.val \/ (pc = "val" /\ disk'.val = Sota!Torn)
      /\ pc # "last" => disk'.last = disk.last
  BY <1>1, SotaFacts
<1>4. /\ SotaReached' = SotaReached
      /\ Sota!Lost \subseteq Sota!Lost' /\ Sota!Lost' \subseteq 1..Epochs
  BY <1>1, <1>3 DEF SotaReached, Sota!Lost
<1>5. Sota!Torn # None /\ Sota!Torn.epoch = 0
  BY DEF Sota!Torn
<1>6. SotaType'
  BY <1>1, <1>2, SotaDisk DEF SotaInv, SotaType, Shared
<1>7. SotaMemory'
  BY <1>1 DEF SotaMemory, EpochWrites, LastPoints
<1>8. Sota!Committed' = Sota!Committed
  <2>1. CASE disk'.done = disk.done
    BY <1>3, <2>1 DEF Sota!Committed
  <2>2. CASE disk'.done # disk.done
    <3>1. /\ pc = "mark" /\ disk.done = None /\ disk'.done # None
          /\ SotaReached = [epoch |-> Epochs, best |-> mem.best]
      BY <1>3, <1>5, <2>2, SotaFacts DEF SotaInv, SotaMemory, LastPoints
    <3>2. SotaReached.epoch = Epochs
      BY <3>1
    <3>3. QED
      BY <3>1, <3>2, SotaFacts DEF Sota!Committed
  <2>3. QED
    BY <2>1, <2>2
<1>9. SotaLog'
  BY <1>1, <1>3, <1>8, SotaLogStays
\* Where the best model was being written, its epoch is lost now.
<1>10. CASE pc \in EpochWrites
  <2> DEFINE n == mem.epoch
  <2>1. /\ n \in 1..Epochs /\ (b # None => n > b) /\ b \in Maybe(1..Epochs) /\ disk.done = None
        /\ mem.best \in {n, b}
    BY <1>10, SotaWorks, SotaFacts DEF SotaInv, SotaMemory, Maybe
  <2>2. n \in Sota!Lost'
    BY <1>1, <1>10, <2>1 DEF Sota!Lost, EpochWrites
  <2>3. /\ Held(disk.model, b) \/ Held(disk.model, n)
        /\ Held(disk.val, b) \/ Held(disk.val, n)
    <3>1. CASE pc = "model"
      BY <2>1, <3>1 DEF SotaInv, SotaFiles, BothHeld
    <3>2. CASE pc = "val"
      BY <1>10, <2>1, <3>2 DEF SotaInv, SotaMemory
    <3>3. CASE pc \in {"log", "resume"}
      BY <2>1, <3>3 DEF SotaInv, SotaMemory, BothHeld
    <3>4. QED
      BY <1>10, <3>1, <3>2, <3>3 DEF EpochWrites
  <2>4. /\ HeldOver(Sota!Lost', disk'.model, b) /\ HeldOver(Sota!Lost', disk'.val, b)
    <3> HIDE DEF n, b
    <3>1. ASSUME NEW file, Held(file, b) \/ Held(file, n) \/ (file # None /\ file.epoch = 0)
          PROVE  HeldOver(Sota!Lost', file, b)
      BY <1>4, <2>1, <2>2, <3>1, HeldLater DEF Held
    <3>2. QED
      BY <1>3, <1>5, <2>3, <3>1
  <2>5. disk'.done = None
    BY <1>3, <1>10, <2>1 DEF EpochWrites
  <2>6. SotaFiles'
    BY <1>1, <1>4, <2>1, <2>4, <2>5 DEF SotaInv, SotaFiles, BothHeld, Held
  <2>7. QED
    BY <1>6, <1>7, <1>9, <2>6 DEF SotaInv
<1>11. CASE pc \notin EpochWrites
  <2>1. disk'.model = disk.model /\ disk'.val = disk.val
    BY <1>3, <1>11 DEF EpochWrites
  <2>2. ASSUME NEW x, BothHeld(x) PROVE BothHeld(x)'
    BY <1>4, <2>1, <2>2 DEF BothHeld, Held, HeldOver
  <2>3. CASE disk'.done = disk.done
    <3>1. Sota!Best' = Sota!Best
      BY <1>3, <2>3 DEF Sota!Best
    <3>2. disk.done # None => disk'.last = disk.last
      BY <1>3, SotaFacts
    <3>3. disk.done = None => BothHeld(b)
      BY <1>11 DEF SotaInv, SotaFiles, EpochWrites
    <3>4. SotaFiles'
      BY <1>1, <1>4, <2>2, <2>3, <3>1, <3>2, <3>3 DEF SotaInv, SotaFiles
    <3>5. QED
      BY <1>6, <1>7, <1>9, <3>4 DEF SotaInv
  <2>4. CASE disk'.done # disk.done
    <3>1. /\ pc = "mark" /\ disk.done = None /\ disk'.done # None
          /\ SotaReached = [epoch |-> Epochs, best |-> mem.best]
          /\ disk.last = Written(Epochs) /\ disk'.last = disk.last
      BY <1>3, <1>5, <2>4, SotaFacts DEF SotaInv, SotaMemory, LastPoints
    <3>2. SotaReached.epoch = Epochs
      BY <3>1
    <3>3. /\ disk.resume # None /\ disk.resume = SotaReached /\ b # None
          /\ Leads(score, b, Evaluations(Epochs)) /\ BothHeld(b)
      BY <3>1, <3>2, SotaCompleted DEF SotaInv, SotaFiles
    <3>4. Sota!Best' = b /\ disk'.last.epoch = Epochs
      BY <1>3, <3>1, <3>3 DEF Sota!Best, Written
    <3>5. SotaFiles'
      BY <1>1, <2>2, <3>1, <3>3, <3>4 DEF SotaFiles
    <3>6. QED
      BY <1>6, <1>7, <1>9, <3>5 DEF SotaInv
  <2>5. QED
    BY <2>3, <2>4
<1>12. QED
  BY <1>10, <1>11

LEMMA SotaRests == ASSUME SotaInv, UNCHANGED tvars PROVE SotaInv'
<1>1. UNCHANGED <<score, pc, mem, disk, kills, cuts>>
  BY DEF tvars
<1>2. /\ SotaReached' = SotaReached /\ Sota!Lost' = Sota!Lost /\ Sota!Best' = Sota!Best
      /\ Sota!Committed' = Sota!Committed
  BY <1>1 DEF SotaReached, Sota!Lost, Sota!Best, Sota!Committed
<1>3. Written(Epochs)' = Written(Epochs) /\ Written(mem.best)' = Written(mem.best)
  BY <1>1 DEF Written
<1>4. QED
  BY <1>1, <1>2, <1>3
     DEF SotaInv, SotaType, SotaMemory, SotaFiles, SotaLog, Shared, BothHeld, Held

LEMMA SotaKept ==
    ASSUME SotaInv, Sota!Work \/ Sota!Kill \/ UNCHANGED tvars
    PROVE  SotaInv'
BY SotaLaunches, SotaTrains, SotaEvaluates, SotaSavesModel, SotaLogs, SotaSavesResume,
   SotaEnds, SotaClears, SotaDies, SotaRests DEF Sota!Work

LEMMA SotaIsWhole == ASSUME SotaInv PROVE Sota!Whole
<1> USE SotaNone
<1> DEFINE b == Sota!Best
           later == {e \in Sota!Lost : e > b}
           kept == {b} \cup later \cup (IF later = {} THEN {} ELSE {Sota!Torn.epoch})
<1>1. ASSUME b # None
      PROVE  /\ disk.model.epoch \in kept \cup Sota!Under({"val", "log", "resume"})
             /\ disk.val.epoch \in kept \cup Sota!Under({"log", "resume"})
  <2>1. Sota!Torn.epoch = 0
    BY DEF Sota!Torn
  <2>2. ASSUME NEW file, Held(file, b) PROVE file.epoch \in kept
    BY <1>1, <2>1, <2>2 DEF Held, HeldOver
  <2>3. CASE BothHeld(b)
    BY <2>2, <2>3 DEF BothHeld
  <2>4. CASE ~BothHeld(b)
    <3>1. disk.done = None
      BY <2>4 DEF SotaInv, SotaFiles
    <3>2. b = SotaReached.best
      BY <1>1, <3>1, SotaFacts DEF Sota!Best, SotaReached
    <3>3. pc \in {"val", "log", "resume"}
      BY <2>4, <3>1, <3>2 DEF SotaInv, SotaFiles
    <3>4. /\ mem.best = mem.epoch /\ mem.epoch \in 1..Epochs /\ mem.epoch > b /\ b \in Nat
          /\ Held(disk.model, mem.best)
          /\ pc = "val" => Held(disk.val, b)
          /\ pc # "val" => Held(disk.val, mem.best)
      BY <1>1, <2>4, <3>2, <3>3, SotaWorks, SotaFacts
         DEF SotaInv, SotaMemory, EpochWrites, BothHeld, Maybe
    <3>5. ASSUME NEW file, Held(file, mem.best) PROVE file.epoch \in kept \cup {mem.best}
      <4>1. CASE file.epoch = mem.best
        BY <4>1
      <4>2. CASE file.epoch # mem.best
        <5>1. PICK f \in Sota!Lost : f > mem.best /\ file.epoch \in {0, f}
          BY <3>4, <3>5, <4>2 DEF Held, HeldOver
        <5>2. f \in Nat /\ f > b
          BY <3>4, <5>1 DEF Sota!Lost
        <5>3. f \in later
          BY <5>2
        <5> HIDE DEF later
        <5>4. QED
          BY <2>1, <5>1, <5>3
      <4>3. QED
        BY <4>1, <4>2
    <3> HIDE DEF kept
    <3>6. QED
      BY <2>2, <3>3, <3>4, <3>5 DEF Sota!Under
  <2>5. QED
    BY <2>3, <2>4
<1>2. \A e \in 1..Epochs : /\ e <= Sota!Committed => disk.log[e] > 0
                           /\ disk.log[e] > 1 => <<"resume", e>> \in cuts
  BY SotaLogged, Zenon
<1>3. disk.done # None => disk.last.epoch = Epochs
  BY DEF SotaInv, SotaFiles
<1>4. QED
  BY <1>1, <1>2, <1>3 DEF Sota!Whole

LEMMA SotaMoves ==
    ASSUME SotaInv, Sota!Work \/ Sota!Kill \/ UNCHANGED tvars
    PROVE  Moves(Sota!Candidates, score', Sota!Committed, Sota!Committed', {}, {},
                 Sota!Result, Sota!Result')
<1> USE SotaNone
<1> DEFINE Same == disk'.resume = disk.resume /\ disk'.done = disk.done
           Ends == /\ pc = "mark" /\ score' = score /\ disk'.resume = disk.resume
                   /\ disk'.done # None
<1>1. Sota!SaveResume \/ Sota!RemoveResume \/ Same \/ Ends
  <2>1. CASE UNCHANGED disk
    BY <2>1
  <2>2. CASE Sota!SaveModel \/ Sota!SaveScores \/ Sota!AppendLog \/ Sota!SaveLastModel
    BY <2>2, SotaFacts DEF Sota!SaveModel, Sota!SaveScores, Sota!AppendLog,
       Sota!SaveLastModel, Sota!Step, Sota!Writes
  <2>3. CASE Sota!MarkDone
    <3>1. /\ pc = "mark" /\ score' = score
          /\ disk' = [disk EXCEPT !.done = Sota!Written(mem.best)]
      BY <2>3 DEF Sota!MarkDone, Sota!Step, Sota!Writes
    <3>2. SotaReached = [epoch |-> Epochs, best |-> mem.best] /\ disk.done = None
      BY <3>1, SotaFacts DEF SotaInv, SotaMemory, LastPoints
    <3>3. mem.best \in 1..Epochs /\ kills \in 0..MaxKills
      <4>1. SotaReached.epoch = Epochs /\ SotaReached.best = mem.best
        BY <3>2
      <4>2. QED
        BY <3>2, <4>1, SotaFacts, SotaCompleted
    <3>4. Sota!Written(mem.best) \in Version
      BY <3>3 DEF Sota!Written, Version
    <3>5. QED
      BY <3>1, <3>4, SotaFacts
  <2>4. CASE Sota!Kill
    <3>1. /\ score' = score
          /\ \/ disk' = disk
             \/ pc = "model" /\ disk' = [disk EXCEPT !.model = Sota!Torn]
             \/ pc = "val" /\ disk' = [disk EXCEPT !.val = Sota!Torn]
             \/ pc = "last" /\ disk' = [disk EXCEPT !.last = Sota!Torn]
             \/ pc = "mark" /\ disk' = [disk EXCEPT !.done = Sota!Torn]
      BY <2>4 DEF Sota!Kill, Sota!Cut
    <3>2. QED
      BY <3>1, SotaFacts
  <2>5. QED
    BY <2>1, <2>2, <2>3, <2>4 DEF Sota!Work, Sota!Start, Sota!Resume, Sota!Launch,
       Sota!SkipDone, Sota!Silent, Sota!Train, Sota!TrainAndEvaluate, tvars
<1>2. CASE Sota!SaveResume
  <2> DEFINE position == [epoch |-> mem.epoch, best |-> mem.best]
  <2>1. pc = "resume" /\ disk' = [disk EXCEPT !.resume = position] /\ score' = score
    BY <1>2 DEF Sota!SaveResume, Sota!Step
  <2>2. /\ mem.epoch = SotaReached.epoch + 1 /\ mem.epoch \in 1..Epochs
        /\ disk.done = None /\ mem.best \in Maybe(1..Epochs)
        /\ Sota!Committed = SotaReached.epoch /\ SotaReached.epoch \in 0..Epochs
        /\ Sota!Evaluated(mem.epoch) => score[mem.epoch] # 0
    BY <2>1, SotaWorks, SotaFacts DEF SotaInv, SotaMemory, EpochWrites
  <2>3. position \in Sota!Resumes /\ position.epoch = mem.epoch
    BY <2>2 DEF Sota!Resumes, Sota!Maybe, Maybe
  <2>4. disk'.resume = position /\ disk'.done = None
    BY <2>1, <2>2, SotaFacts
  <2> HIDE DEF position
  <2>5. Sota!Committed' = mem.epoch
    BY <2>3, <2>4 DEF Sota!Committed
  <2>6. Sota!Result = None /\ Sota!Result' = None
    BY <2>2, <2>4 DEF Sota!Result
  <2>7. mem.epoch \in (Sota!Committed + 1)..Epochs
        /\ (Sota!Committed + 1)..(mem.epoch - 1) = {}
    BY <2>2
  <2>8. mem.epoch \in Sota!Candidates => score'[mem.epoch] # 0
    BY <2>1, <2>2 DEF Sota!Candidates
  <2>9. QED
    BY <2>5, <2>6, <2>7, <2>8 DEF Moves, Commits
<1>3. CASE Sota!RemoveResume
  <2>1. /\ Sota!Best' = Sota!Best /\ Sota!Committed = Epochs /\ Sota!Committed' = Epochs
        /\ disk'.done = disk.done
    BY <1>3, SotaClears, SotaFacts DEF Sota!RemoveResume, Sota!Step, Sota!Writes
  <2>2. QED
    BY <2>1 DEF Moves, Stays, Sota!Result
<1>4. CASE Ends
  <2>1. SotaReached = [epoch |-> Epochs, best |-> mem.best] /\ disk.done = None
    BY <1>4, SotaFacts DEF SotaInv, SotaMemory, LastPoints
  <2>2. SotaReached.epoch = Epochs /\ SotaReached.best = mem.best
    BY <2>1
  <2>3. /\ disk.resume # None /\ disk.resume.best = mem.best
        /\ Leads(score, mem.best, Evaluations(Epochs))
    BY <2>1, <2>2, SotaCompleted
  <2>4. /\ Sota!Committed = Epochs /\ Sota!Committed' = Epochs
        /\ Sota!Result = None /\ Sota!Result' = mem.best
    BY <1>4, <2>1, <2>2, <2>3, SotaFacts DEF Sota!Committed, Sota!Result, Sota!Best
  <2>5. Sota!Candidates \ {} = Evaluations(Epochs)
    BY DEF Sota!Candidates, Evaluations
  <2>6. Leads(score', mem.best, Sota!Candidates \ {})
    BY <1>4, <2>3, <2>5
  <2>7. QED
    BY <2>4, <2>6 DEF Moves, Publishes
<1>5. CASE Same
  BY <1>5 DEF Moves, Stays, Sota!Committed, Sota!Result, Sota!Best
<1>6. QED
  BY <1>1, <1>2, <1>3, <1>4, <1>5

(***************************************************************************)
(* The trainers together                                                   *)
(***************************************************************************)
TrainersInv ==
    /\ which \in {"baseline", "warmup", "ocem", "pmgr", "sssc", "sota"}
    /\ which = "baseline" => BaselineInv
    /\ which = "warmup" => WarmupInv
    /\ which = "ocem" => OcemInv
    /\ which = "pmgr" => PmgrInv
    /\ which = "sssc" => SsscInv
    /\ which = "sota" => SotaInv

LEMMA TrainersStart == ASSUME Init PROVE TrainersInv
<1>1. which \in {"baseline", "warmup", "ocem", "pmgr", "sssc", "sota"}
  BY DEF Init
<1>2. QED
  BY <1>1, BaselineStart, WarmupStart, OcemStart, PmgrStart, SsscStart, SotaStart
     DEF TrainersInv

LEMMA TrainersKept == ASSUME TrainersInv, [Next]_vars PROVE TrainersInv' /\ which' = which
<1> USE DEF Next, Work, Interruptions, Selection, vars
<1>1. which' = which
  OBVIOUS
<1>2. ASSUME which = "baseline" PROVE BaselineInv'
  BY <1>2, BaselineKept DEF TrainersInv
<1>3. ASSUME which = "warmup" PROVE WarmupInv'
  BY <1>3, WarmupKept DEF TrainersInv
<1>4. ASSUME which = "ocem" PROVE OcemInv'
  BY <1>4, OcemKept DEF TrainersInv
<1>5. ASSUME which = "pmgr" PROVE PmgrInv'
  BY <1>5, PmgrKept DEF TrainersInv
<1>6. ASSUME which = "sssc" PROVE SsscInv'
  BY <1>6, SsscKept DEF TrainersInv
<1>7. ASSUME which = "sota" PROVE SotaInv'
  BY <1>7, SotaKept DEF TrainersInv
<1>8. QED
  BY <1>1, <1>2, <1>3, <1>4, <1>5, <1>6, <1>7 DEF TrainersInv

LEMMA TrainersAlways == Spec => []TrainersInv
<1>1. TrainersInv /\ [Next]_vars => TrainersInv'
  BY TrainersKept
<1>2. QED
  BY <1>1, TrainersStart, PTL DEF Spec

LEMMA WholeHere == ASSUME TrainersInv PROVE Whole
<1>1. /\ which = "baseline" => Baseline!Whole
      /\ which = "warmup" => Warmup!Whole
      /\ which = "ocem" => Ocem!Whole
      /\ which = "pmgr" => Pmgr!Whole
      /\ which = "sssc" => Sssc!Whole
      /\ which = "sota" => Sota!Whole
  BY WarmupIsWhole, OcemIsWhole, PmgrIsWhole, SotaIsWhole
     DEF TrainersInv, BaselineInv, SsscInv
<1>2. CASE which = "baseline"
  BY <1>1, <1>2, Zenon DEF Whole
<1>3. CASE which = "warmup"
  BY <1>1, <1>3, Zenon DEF Whole
<1>4. CASE which = "ocem"
  BY <1>1, <1>4, Zenon DEF Whole
<1>5. CASE which = "pmgr"
  BY <1>1, <1>5, Zenon DEF Whole
<1>6. CASE which = "sssc"
  BY <1>1, <1>6, Zenon DEF Whole
<1>7. CASE which = "sota"
  BY <1>1, <1>7, Zenon DEF Whole
<1>8. QED
  BY <1>2, <1>3, <1>4, <1>5, <1>6, <1>7 DEF TrainersInv

\* Whatever is killed wherever, the files of a trainer agree with each other: what
\* a checkpoint names can be had, what is published is of one version.
THEOREM TrainersAreWhole == Spec => []Whole
BY TrainersAlways, WholeHere, PTL

\* A step keeps the scores of the first c epochs: it evaluates none, or a later one.
Keeps(c) ==
    /\ c \in 0..Epochs
    /\ score' \in [1..Epochs -> Marks]
    /\ \A e \in 1..Epochs : e <= c => score'[e] = score[e]

LEMMA StepKeeps ==
    ASSUME score \in [1..Epochs -> Marks], NEW c \in 0..Epochs,
           \/ score' = score
           \/ \E e \in 1..Epochs : /\ c < e
                                   /\ \E new \in Scores : score' = [score EXCEPT ![e] = new]
    PROVE  Keeps(c)
<1>1. CASE score' = score
  BY <1>1 DEF Keeps
<1>2. CASE score' # score
  <2>1. PICK e \in 1..Epochs :
           c < e /\ \E new \in Scores : score' = [score EXCEPT ![e] = new]
    BY <1>2
  <2>2. /\ score' \in [1..Epochs -> Marks]
        /\ \A f \in 1..Epochs : f # e => score'[f] = score[f]
    BY <2>1, Evaluation
  <2>3. \A f \in 1..Epochs : f <= c => f # e
    BY <2>1, TrainerAssumption DEF TrainerAssumption
  <2>4. QED
    BY <2>2, <2>3 DEF Keeps
<1>3. QED
  BY <1>1, <1>2

LEMMA BaselineScores ==
    ASSUME BaselineInv, Baseline!Work \/ Baseline!Kill \/ UNCHANGED tvars
    PROVE  Keeps(Baseline!Committed)
<1> USE BaselineNone
<1>1. Baseline!TrainEpoch \/ score' = score
  BY DEF Baseline!Work, Baseline!Start, Baseline!Resume, Baseline!RepairModel,
     Baseline!RepairScores, Baseline!Continue, Baseline!PendModel, Baseline!PendScores,
     Baseline!SaveLatest, Baseline!SaveSidecar, Baseline!PromoteModel,
     Baseline!PromoteScores, Baseline!Progress, Baseline!Report, Baseline!Register,
     Baseline!Kill, Baseline!Cut, Baseline!Step, Baseline!Repair, tvars
<1>2. score \in [1..Epochs -> Marks] /\ disk.latest \in Maybe(Baseline!Checkpoints)
  BY DEF BaselineInv, BaselineType, Shared
<1>3. Baseline!Committed \in 0..Epochs
  BY <1>2 DEF Baseline!Committed, Maybe, Baseline!Checkpoints
<1>4. CASE Baseline!TrainEpoch
  <2>1. pc = "train" /\ \E new \in Scores : score' = [score EXCEPT ![mem.epoch] = new]
    BY <1>4 DEF Baseline!TrainEpoch, Baseline!Evaluates
  <2>2. mem.epoch \in 1..Epochs /\ LoadsAs(mem.epoch - 1, mem.best)
    BY <2>1 DEF BaselineInv, BaselineType, BaselineMemory, TrainPoints
  <2>3. Baseline!Committed = mem.epoch - 1
    BY <2>2 DEF LoadsAs, Baseline!Committed, Baseline!Loadable
  <2>4. Baseline!Committed < mem.epoch
    BY <2>2, <2>3
  <2>5. QED
    BY <1>2, <1>3, <2>1, <2>2, <2>4, StepKeeps
<1>5. QED
  BY <1>1, <1>2, <1>3, <1>4, StepKeeps

LEMMA WarmupScores ==
    ASSUME WarmupInv, Warmup!Work \/ Warmup!Kill \/ UNCHANGED tvars
    PROVE  Keeps(Warmup!Committed)
<1> USE TrainerAssumption DEF TrainerAssumption
<1>1. Warmup!SaveCheckpoint \/ score' = score
  BY DEF Warmup!Work, Warmup!Start, Warmup!Resume, Warmup!SaveHash, Warmup!Choose,
     Warmup!ExportReference, Warmup!ExportHash, Warmup!Select, Warmup!Kill, Warmup!Cut,
     Warmup!Step, tvars
<1>2. score \in [1..Epochs -> Marks]
  BY DEF WarmupInv, WarmupType, Shared
<1>3. ASSUME NEW n \in 0..Epochs, NEW m, Saves(n, m) PROVE Warmup!Committed = n
  <2>1. \A e \in 1..Epochs : disk.ckpt[e] # None <=> e <= n
    BY <1>3 DEF Saves, SavedTo
  <2>2. QED
    BY <2>1, CommittedTo DEF Warmup!Committed, Warmup!Saved, Warmup!Latest
<1>4. Warmup!Committed \in 0..Epochs
  BY <1>3 DEF WarmupInv, WarmupFiles
<1>5. CASE Warmup!SaveCheckpoint
  <2>1. pc = "train" /\ \E new \in Scores : score' = [score EXCEPT ![mem.epoch] = new]
    BY <1>5 DEF Warmup!SaveCheckpoint, Warmup!Evaluates
  <2>2. mem.epoch \in 1..Epochs /\ Saves(mem.epoch - 1, mem.epoch - 1)
    BY <2>1 DEF WarmupInv, WarmupType, WarmupFiles
  <2>3. mem.epoch - 1 \in 0..Epochs /\ mem.epoch - 1 < mem.epoch
    BY <2>2
  <2>4. Warmup!Committed = mem.epoch - 1
    BY <1>3, <2>2, <2>3
  <2>5. QED
    BY <1>2, <1>4, <2>1, <2>2, <2>3, <2>4, StepKeeps
<1>6. QED
  BY <1>1, <1>2, <1>4, <1>5, StepKeeps

LEMMA OcemScores ==
    ASSUME OcemInv, Ocem!Work \/ Ocem!Fail \/ Ocem!Kill \/ UNCHANGED tvars
    PROVE  Keeps(Ocem!Committed)
<1>1. score' = score
  BY DEF Ocem!Work, Ocem!Start, Ocem!Resume, Ocem!Launch, Ocem!SaveLatest,
     Ocem!SaveMetrics, Ocem!Snapshot, Ocem!SaveReport, Ocem!CopyFinal, Ocem!Pass, Ocem!Fail,
     Ocem!Kill, Ocem!Cut, Ocem!Step, tvars
<1>2. score \in [1..Epochs -> Marks] /\ disk.latest \in Maybe(1..Epochs)
  BY DEF OcemInv, OcemType, Shared
<1>3. Ocem!Committed \in 0..Epochs
  BY <1>2, OcemNone DEF Ocem!Committed, Maybe
<1>4. QED
  BY <1>1, <1>2, <1>3, StepKeeps

LEMMA PmgrScores ==
    ASSUME PmgrInv, Pmgr!Work \/ Pmgr!Kill \/ UNCHANGED tvars
    PROVE  Keeps(Pmgr!Committed)
<1> USE PmgrNone
<1>1. Pmgr!Validate \/ score' = score
  BY DEF Pmgr!Work, Pmgr!Start, Pmgr!Resume, Pmgr!Launch, Pmgr!Update, Pmgr!SaveUpdate,
     Pmgr!SaveBest, Pmgr!SaveMetrics, Pmgr!SaveEpoch, Pmgr!SaveFinal, Pmgr!Summary,
     Pmgr!Judge, Pmgr!SkipComplete, Pmgr!Kill, Pmgr!Cut, Pmgr!Step, tvars
<1>2. /\ score \in [1..Epochs -> Marks] /\ Reached.epoch \in 1..Epochs + 1
      /\ Pmgr!Committed = Reached.epoch - 1
  BY PmgrFacts, PmgrCommitted
<1>3. Pmgr!Committed \in 0..Epochs
  BY <1>2
<1>4. CASE Pmgr!Validate
  <2>1. pc = "validate" /\ \E new \in Scores : score' = [score EXCEPT ![mem.epoch - 1] = new]
    BY <1>4 DEF Pmgr!Validate, Pmgr!Evaluates
  <2>2. mem.epoch \in 1..Epochs + 1 /\ mem.epoch > 1 /\ Reached.epoch <= mem.epoch - 1
    BY <2>1, PmgrFacts DEF PmgrInv, PmgrMemory, ValidatePoints
  <2>3. mem.epoch - 1 \in 1..Epochs /\ Pmgr!Committed < mem.epoch - 1
    BY <1>2, <2>2
  <2>4. QED
    BY <1>2, <1>3, <2>1, <2>3, StepKeeps
<1>5. QED
  BY <1>1, <1>2, <1>3, <1>4, StepKeeps

LEMMA SsscScores ==
    ASSUME SsscInv,
           \/ Sssc!Work \/ Sssc!Kill \/ UNCHANGED tvars
           \/ Sssc!CreateLock \/ Sssc!ValidateLock \/ Sssc!Evaluate \/ Sssc!RecordObservation
    PROVE  Keeps(Sssc!Committed)
<1> USE SsscNone
<1>1. Sssc!SaveEpoch \/ score' = score
  BY DEF Sssc!Work, Sssc!Start, Sssc!Resume, Sssc!Launch, Sssc!Update, Sssc!SavePeriodic,
     Sssc!SaveBest, Sssc!NextEpoch, Sssc!MarkBest, Sssc!Mark, Sssc!Kill, Sssc!Cut, Sssc!Step,
     Sssc!CreateLock, Sssc!ValidateLock, Sssc!Evaluate, Sssc!RecordObservation, Sssc!Beside,
     tvars
<1>2. score \in [1..Epochs -> Marks] /\ disk.last \in Maybe(Sssc!Positions)
  BY DEF SsscInv, SsscType, Shared
<1>3. pc = "evaluate" => mem.epoch \in 1..Epochs
  BY SsscFacts DEF EpochPoints
<1>4. Sssc!Committed \in 0..Epochs
  BY <1>2, <1>3 DEF Sssc!Committed, Maybe, Sssc!Positions
<1>5. CASE Sssc!SaveEpoch
  <2>1. pc = "evaluate" /\ \E new \in Scores : score' = [score EXCEPT ![mem.epoch] = new]
    BY <1>5 DEF Sssc!SaveEpoch, Sssc!Evaluates
  <2>2. Sssc!Committed < mem.epoch
    BY <1>3, <2>1 DEF Sssc!Committed
  <2>3. QED
    BY <1>2, <1>3, <1>4, <2>1, <2>2, StepKeeps
<1>6. QED
  BY <1>1, <1>2, <1>4, <1>5, StepKeeps

LEMMA SotaScores ==
    ASSUME SotaInv, Sota!Work \/ Sota!Kill \/ UNCHANGED tvars
    PROVE  Keeps(Sota!Committed)
<1> USE SotaNone
<1>1. Sota!TrainAndEvaluate \/ score' = score
  BY DEF Sota!Work, Sota!Start, Sota!Resume, Sota!Launch, Sota!SkipDone, Sota!Train,
     Sota!SaveModel, Sota!SaveScores, Sota!AppendLog, Sota!SaveResume, Sota!SaveLastModel,
     Sota!MarkDone, Sota!RemoveResume, Sota!Kill, Sota!Cut, Sota!Step, tvars
<1>2. score \in [1..Epochs -> Marks]
  BY SotaFacts
<1>3. Sota!Committed \in 0..Epochs
  <2>1. CASE disk.done = None
    BY <2>1, SotaFacts
  <2>2. CASE disk.done # None
    BY <2>2 DEF Sota!Committed
  <2>3. QED
    BY <2>1, <2>2
<1>4. CASE Sota!TrainAndEvaluate
  <2>1. pc = "train" /\ \E new \in Scores : score' = [score EXCEPT ![mem.epoch] = new]
    BY <1>4 DEF Sota!TrainAndEvaluate, Sota!Evaluates
  <2>2. mem.epoch \in 1..Epochs /\ Sota!Committed = mem.epoch - 1
    BY <2>1, SotaFacts, SotaWorks
  <2>3. Sota!Committed < mem.epoch
    BY <2>2
  <2>4. QED
    BY <1>2, <1>3, <2>1, <2>2, <2>3, StepKeeps
<1>5. QED
  BY <1>1, <1>2, <1>3, <1>4, StepKeeps

\* No step of a trainer changes the score of an epoch that is committed.
LEMMA ScoresStay == ASSUME TrainersInv, [Next]_vars PROVE which' = which /\ Keeps(Committed)
<1> USE DEF Next, Work, Interruptions, Selection, vars
<1>1. which' = which
  OBVIOUS
<1>2. CASE which = "baseline"
  BY <1>2, BaselineScores DEF TrainersInv, Committed
<1>3. CASE which = "warmup"
  BY <1>3, WarmupScores DEF TrainersInv, Committed
<1>4. CASE which = "ocem"
  BY <1>4, OcemScores DEF TrainersInv, Committed
<1>5. CASE which = "pmgr"
  BY <1>5, PmgrScores DEF TrainersInv, Committed
<1>6. CASE which = "sssc"
  BY <1>6, SsscScores DEF TrainersInv, Committed
<1>7. CASE which = "sota"
  BY <1>7, SotaScores DEF TrainersInv, Committed
<1>8. QED
  BY <1>1, <1>2, <1>3, <1>4, <1>5, <1>6, <1>7 DEF TrainersInv

\* What a committed epoch counts, it keeps.
LEMMA GradesStay ==
    ASSUME TrainersInv, [Next]_vars
    PROVE  /\ Committed \in 0..Epochs
           /\ Grades' \in [1..Epochs -> Scores \cup 1..Epochs \cup {0}]
           /\ \A e \in 1..Epochs : e <= Committed => Grades'[e] = Grades[e]
<1>1. which' = which /\ Keeps(Committed)
  BY ScoresStay
<1>2. CASE which = "ocem"
  BY <1>1, <1>2 DEF Keeps, Grades
<1>3. CASE which # "ocem"
  BY <1>1, <1>3 DEF Keeps, Grades, Marks
<1>4. QED
  BY <1>2, <1>3

\* A step that moves as above is one of EpochSelection.
LEMMA MovesAsPromised ==
    ASSUME Planned' = Planned, Planned \subseteq 1..Epochs, Committed \in 0..Epochs,
           Grades' \in [1..Epochs -> Scores \cup 1..Epochs \cup {0}],
           \A e \in 1..Epochs : e <= Committed => Grades'[e] = Grades[e],
           Moves(Planned, Grades', Committed, Committed', Missed, Missed', Result, Result')
    PROVE  [Promise!Next]_(Promise!avars)
<1> USE TrainerAssumption DEF TrainerAssumption
<1>1. ASSUME Committed' = Committed PROVE Ranking' = Ranking
  BY <1>1 DEF Ranking
<1>2. CASE Stays(Committed, Committed', Missed, Missed', Result, Result')
  BY <1>1, <1>2 DEF Stays, Promise!avars
<1>3. CASE Commits(Planned, Grades', Committed, Committed', Missed, Missed', Result, Result')
  <2> DEFINE c == Committed
             d == Committed'
             new == Grades'[d]
             m == Missed
  <2>1. /\ Result = None /\ Result' = None /\ d \in (c + 1)..Epochs
        /\ \A e \in (c + 1)..(d - 1) : e \notin Planned
        /\ \/ Missed' = m /\ (d \in Planned => new # 0)
           \/ Missed' = m \cup {d} /\ d \in Planned
    BY <1>3 DEF Commits
  <2>2. d \in 1..Epochs /\ new \in Scores \cup 1..Epochs \cup {0}
    BY <2>1
  <2>3. ASSUME NEW e \in 1..Epochs
        PROVE  /\ Ranking[e] = IF e \in Planned /\ e <= c THEN Grades[e] ELSE 0
               /\ Ranking'[e] = IF e \in Planned /\ e <= d THEN Grades'[e] ELSE 0
    BY DEF Ranking
  <2>4. ASSUME NEW e \in 1..Epochs, e # d PROVE Ranking'[e] = Ranking[e]
    <3>1. CASE e <= c
      <4>1. e <= d
        BY <2>1, <3>1
      <4>2. QED
        BY <2>3, <3>1, <4>1
    <3>2. CASE e > d
      <4>1. ~(e <= c) /\ ~(e <= d)
        BY <2>1, <3>2
      <4>2. QED
        BY <2>3, <4>1
    <3>3. CASE c < e /\ e < d
      <4>1. e \in Nat /\ c \in Nat /\ d \in Nat
        BY <2>2
      <4> HIDE DEF c, d
      <4>2. e \in (c + 1)..(d - 1)
        BY <3>3, <4>1
      <4>3. QED
        BY <2>1, <2>3, <3>3, <4>1, <4>2
    <3>4. QED
      BY <2>1, <2>4, <3>1, <3>2, <3>3
  <2>5. /\ Ranking'[d] = IF d \in Planned THEN new ELSE 0
        /\ Ranking[d] = 0
    <3>1. d <= d /\ ~(d <= c)
      BY <2>1
    <3>2. QED
      BY <2>2, <2>3, <3>1
  <2>6. /\ Ranking = [e \in 1..Epochs |-> Ranking[e]]
        /\ Ranking' = [e \in 1..Epochs |-> Ranking'[e]]
    BY DEF Ranking
  <2> HIDE DEF d, new
  <2>7. d \in Planned => Ranking' = [Ranking EXCEPT ![d] = new]
    BY <2>2, <2>4, <2>5, <2>6
  <2>8. d \notin Planned => Ranking' = Ranking
    BY <2>2, <2>4, <2>5, <2>6
  <2>9. Promise!Compare(d) \/ Promise!GiveUp(d) \/ Promise!Pass(d)
    <3>1. CASE d \notin Planned
      BY <2>1, <2>8, <3>1 DEF Promise!Pass
    <3>2. CASE d \in Planned /\ Missed' = m \cup {d}
      BY <2>2, <2>7, <3>2 DEF Promise!GiveUp
    <3>3. CASE d \in Planned /\ Missed' = m /\ new # 0
      BY <2>2, <2>7, <3>3 DEF Promise!Compare
    <3>4. QED
      BY <2>1, <3>1, <3>2, <3>3
  <2>10. Promise!Commit
    BY <2>1, <2>9 DEF Promise!Commit, d
  <2>11. QED
    BY <2>10 DEF Promise!Next
<1>4. CASE Misses(Planned, Committed, Committed', Missed, Missed', Result, Result')
  BY <1>1, <1>4 DEF Misses, Promise!Next, Promise!Miss
<1>5. CASE Publishes(Planned, Grades', Committed, Committed', Missed, Missed', Result, Result')
  <2> DEFINE S == Planned \ Missed
             Best(e) == \A f \in S : \/ Ranking[e] > Ranking[f]
                                     \/ Ranking[e] = Ranking[f] /\ e <= f
  <2>1. /\ Result = None /\ Committed' = Committed /\ Committed = Epochs /\ Missed' = Missed
        /\ Leads(Grades', Result', S)
    BY <1>5 DEF Publishes
  <2>2. \A e \in S : Ranking[e] = Grades'[e] /\ e \in 1..Epochs
    BY <2>1 DEF Ranking
  <2>3. S \in SUBSET (1..Epochs) /\ Ranking \in [1..Epochs -> Nat]
    <3>1. \A e \in 1..Epochs : Grades'[e] \in Scores \cup 1..Epochs \cup {0}
      OBVIOUS
    <3>2. ASSUME NEW e \in 1..Epochs, e <= Committed PROVE Grades[e] \in Nat
      <4>1. Grades[e] = Grades'[e] /\ Grades'[e] \in Scores \cup 1..Epochs \cup {0}
        BY <3>1, <3>2
      <4>2. Scores \cup 1..Epochs \cup {0} \subseteq Nat
        OBVIOUS
      <4>3. QED
        BY <4>1, <4>2, Zenon
    <3>3. QED
      BY <3>2 DEF Ranking
  <2> HIDE DEF S
  <2>4. Leads(Ranking, Result', S)
    BY <2>1, <2>2 DEF Leads
  <2>5. Result' \in S /\ Best(Result')
    BY <2>4 DEF Leads
  <2>6. \A e \in S : Best(e) => e = Result'
    <3>1. ASSUME NEW e \in S, Best(e) PROVE Leads(Ranking, e, S)
      BY <3>1 DEF Leads
    <3>2. QED
      BY <2>3, <2>4, <3>1, LeaderIsOne
  <2> HIDE DEF Best
  <2>7. (CHOOSE e \in S : Best(e)) = Result'
    BY <2>5, <2>6
  <2>8. Result' = Promise!EarliestBest(S)
    BY <2>7 DEF Promise!EarliestBest, Best
  <2>9. S # {}
    BY <2>5
  <2>10. QED
    BY <1>1, <2>1, <2>8, <2>9 DEF Promise!Next, Promise!Publish, S
<1>6. QED
  BY <1>2, <1>3, <1>4, <1>5 DEF Moves

LEMMA TrainersMove ==
    ASSUME TrainersInv, [Next]_vars
    PROVE  Moves(Planned, Grades', Committed, Committed', Missed, Missed', Result, Result')
<1> USE DEF Next, Work, Interruptions, Selection, vars
<1>0. which' = which
  BY ScoresStay
<1>1. CASE which = "baseline"
  <2>1. Moves(1..Epochs, score', Baseline!Committed, Baseline!Committed', {}, {},
              Baseline!Result, Baseline!Result')
    BY <1>1, BaselineMoves DEF TrainersInv
  <2>2. /\ Planned = 1..Epochs /\ Committed = Baseline!Committed /\ Result = Baseline!Result
        /\ Missed = {}
    BY <1>1 DEF Planned, Committed, Result, Missed
  <2>3. Committed' = Baseline!Committed' /\ Result' = Baseline!Result' /\ Missed' = {}
    BY <1>0, <1>1 DEF Committed, Result, Missed
  <2>4. Grades' = score'
    BY <1>0, <1>1 DEF Grades
  <2>5. QED
    BY <2>1, <2>2, <2>3, <2>4
<1>2. CASE which = "warmup"
  <2>1. Moves(1..Epochs, score', Warmup!Committed, Warmup!Committed', {}, {},
              Warmup!Result, Warmup!Result')
    BY <1>2, WarmupMoves DEF TrainersInv
  <2>2. /\ Planned = 1..Epochs /\ Committed = Warmup!Committed /\ Result = Warmup!Result
        /\ Missed = {}
    BY <1>2 DEF Planned, Committed, Result, Missed
  <2>3. Committed' = Warmup!Committed' /\ Result' = Warmup!Result' /\ Missed' = {}
    BY <1>0, <1>2 DEF Committed, Result, Missed
  <2>4. Grades' = score'
    BY <1>0, <1>2 DEF Grades
  <2>5. QED
    BY <2>1, <2>2, <2>3, <2>4
<1>3. CASE which = "ocem"
  <2>1. Moves(1..Epochs, Order, Ocem!Committed, Ocem!Committed', {}, {},
              Ocem!Result, Ocem!Result')
    BY <1>3, OcemMoves DEF TrainersInv
  <2>2. /\ Planned = 1..Epochs /\ Committed = Ocem!Committed /\ Result = Ocem!Result
        /\ Missed = {}
    BY <1>3 DEF Planned, Committed, Result, Missed
  <2>3. Committed' = Ocem!Committed' /\ Result' = Ocem!Result' /\ Missed' = {}
    BY <1>0, <1>3 DEF Committed, Result, Missed
  <2>4. Grades' = Order
    BY <1>0, <1>3 DEF Grades, Order
  <2>5. QED
    BY <2>1, <2>2, <2>3, <2>4
<1>4. CASE which = "pmgr"
  <2>1. Moves(Pmgr!Candidates, score', Pmgr!Committed, Pmgr!Committed',
              Pmgr!Missed, Pmgr!Missed', Pmgr!Result, Pmgr!Result')
    BY <1>4, PmgrMoves DEF TrainersInv
  <2>2. /\ Planned = Pmgr!Candidates /\ Committed = Pmgr!Committed /\ Result = Pmgr!Result
        /\ Missed = Pmgr!Missed
    BY <1>4 DEF Planned, Committed, Result, Missed
  <2>3. Committed' = Pmgr!Committed' /\ Result' = Pmgr!Result' /\ Missed' = Pmgr!Missed'
    BY <1>0, <1>4 DEF Committed, Result, Missed
  <2>4. Grades' = score'
    BY <1>0, <1>4 DEF Grades
  <2>5. QED
    BY <2>1, <2>2, <2>3, <2>4
<1>5. CASE which = "sssc"
  <2>1. Moves(1..Epochs, score', Sssc!Committed, Sssc!Committed', Sssc!Missed, Sssc!Missed',
              Sssc!Result, Sssc!Result')
    BY <1>5, SsscMoves DEF TrainersInv
  <2>2. /\ Planned = 1..Epochs /\ Committed = Sssc!Committed /\ Result = Sssc!Result
        /\ Missed = Sssc!Missed
    BY <1>5 DEF Planned, Committed, Result, Missed
  <2>3. Committed' = Sssc!Committed' /\ Result' = Sssc!Result' /\ Missed' = Sssc!Missed'
    BY <1>0, <1>5 DEF Committed, Result, Missed
  <2>4. Grades' = score'
    BY <1>0, <1>5 DEF Grades
  <2>5. QED
    BY <2>1, <2>2, <2>3, <2>4
<1>6. CASE which = "sota"
  <2>1. Moves(Sota!Candidates, score', Sota!Committed, Sota!Committed', {}, {},
              Sota!Result, Sota!Result')
    BY <1>6, SotaMoves DEF TrainersInv
  <2>2. /\ Planned = Sota!Candidates /\ Committed = Sota!Committed /\ Result = Sota!Result
        /\ Missed = {}
    BY <1>6 DEF Planned, Committed, Result, Missed
  <2>3. Committed' = Sota!Committed' /\ Result' = Sota!Result' /\ Missed' = {}
    BY <1>0, <1>6 DEF Committed, Result, Missed
  <2>4. Grades' = score'
    BY <1>0, <1>6 DEF Grades
  <2>5. QED
    BY <2>1, <2>2, <2>3, <2>4
<1>7. QED
  BY <1>1, <1>2, <1>3, <1>4, <1>5, <1>6 DEF TrainersInv

LEMMA TrainersBegin == ASSUME Init PROVE Promise!Init
<1>1. cuts = {}
  BY DEF Init, Baseline!Init, Warmup!Init, Ocem!Init, Pmgr!Init, Sssc!Init, Sota!Init,
     Baseline!Begin, Warmup!Begin, Ocem!Begin, Pmgr!Begin, Sssc!Begin, Sota!Begin
<1>2. Planned \subseteq 1..Epochs
  BY DEF Planned, Pmgr!Candidates, Sota!Candidates
<1>3. Committed = 0 /\ Result = None /\ Missed = {}
  <2>1. CASE which = "baseline" /\ Baseline!Init
    BY <2>1 DEF Committed, Result, Missed, Baseline!Init, Baseline!Files,
       Baseline!Committed, Baseline!Result
  <2>2. CASE which = "warmup" /\ Warmup!Init
    BY <2>2 DEF Committed, Result, Missed, Warmup!Init, Warmup!Committed, Warmup!Saved,
       Warmup!Result
  <2>3. CASE which = "ocem" /\ Ocem!Init
    BY <2>3 DEF Committed, Result, Missed, Ocem!Init, Ocem!Committed, Ocem!Result
  <2>4. CASE which = "pmgr" /\ Pmgr!Init
    BY <1>1, <2>4 DEF Committed, Result, Missed, Pmgr!Init, Pmgr!Committed, Pmgr!Result,
       Pmgr!Complete, Pmgr!Missed
  <2>5. CASE which = "sssc" /\ Sssc!Init
    BY <1>1, <2>5 DEF Committed, Result, Missed, Sssc!Init, Sssc!Begin,
       Sssc!Committed, Sssc!Result, Sssc!Missed
  <2>6. CASE which = "sota" /\ Sota!Init
    BY <2>6 DEF Committed, Result, Missed, Sota!Init, Sota!Committed, Sota!Result
  <2>7. QED
    BY <2>1, <2>2, <2>3, <2>4, <2>5, <2>6 DEF Init
<1>4. Ranking = [e \in 1..Epochs |-> 0]
  BY <1>3 DEF Ranking
<1>5. QED
  BY <1>2, <1>3, <1>4 DEF Promise!Init

LEMMA TrainersStep == ASSUME TrainersInv, [Next]_vars PROVE [Promise!Next]_(Promise!avars)
<1>1. which' = which
  BY ScoresStay
<1>2. Planned' = Planned /\ Planned \subseteq 1..Epochs
  BY <1>1 DEF Planned, Pmgr!Candidates, Sota!Candidates
<1>3. QED
  BY <1>2, GradesStay, TrainersMove, MovesAsPromised

\* What a trainer publishes, however often it was killed and resumed and however an
\* epoch that is trained again scores, is the earliest of the best of the epochs it did
\* not miss, or the last one where that is the rule, and it is published once, after
\* the last epoch is committed.
THEOREM TrainersKeepTheirPromise == Spec => KeepsPromise
<1>1. TrainersInv /\ [Next]_vars => [Promise!Next]_(Promise!avars)
  BY TrainersStep
<1>2. QED
  BY <1>1, TrainersBegin, TrainersAlways, PTL DEF Spec, KeepsPromise, Promise!Spec
=============================================================================
