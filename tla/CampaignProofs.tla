--------------------------- MODULE CampaignProofs ---------------------------
(***************************************************************************)
(* Whatever is killed, committed, removed and launched again, and with any *)
(* number of seeds, scripts and events: what a report compares goes back   *)
(* to one baseline.  The argument follows a script: what its commands have *)
(* achieved stays true until it ends, for a run is removed only when no    *)
(* script runs.                                                            *)
(***************************************************************************)
EXTENDS Campaign, FiniteSetTheorems, TLAPS

-----------------------------------------------------------------------------
(* The invariant. *)

Stages == {"off", "ready", "polling", "mining", "training", "closing"}

Typed ==
    /\ campaign \in Campaigns
    /\ at \in [Scripts -> Nat]
    /\ stage \in [Scripts -> Stages]
    /\ removals \in Nat /\ head \in Nat

FilesTyped ==
    /\ dir \in [Runs -> Trainings \cup {Missing}]
    /\ conf \in [Runs -> Configs \cup {Missing}]
    /\ cache \in [Caches -> Mines \cup {Missing, Torn}]
    /\ DOMAIN report = Files

\* Checkpoints are counted from 1; teacher 0 is none.
Numbered ==
    /\ \A r \in Runs : dir[r] # Missing =>
          /\ dir[r].ckpt \in 1..(removals + 1)
          /\ dir[r].config.teacher \in 0..(removals + 1)
    /\ \A r \in Runs : conf[r] # Missing => conf[r].teacher \in 0..(removals + 1)

\* A baseline has the configuration it was written with.
Baselines ==
    \A r \in Runs : r = Base(r) =>
        /\ conf[r] = BaseConfig
        /\ dir[r] # Missing => dir[r].config = BaseConfig

\* The cache a run was trained with is of the teacher of its configuration.
Taught ==
    \A r \in Runs : dir[r] # Missing =>
        (dir[r].cache # Missing => dir[r].cache.teacher = dir[r].config.teacher)

\* A configuration, a run that was begun, a run that was trained: taught by the
\* baseline as it is now.
Current(r) ==
    conf[r] # Missing /\ Selected(Base(r)) /\ conf[r].teacher = dir[Base(r)].ckpt
Begun(r) ==
    dir[r] # Missing /\ Selected(Base(r)) /\ dir[r].config.teacher = dir[Base(r)].ckpt
Anchored(r) == Selected(r) /\ Begun(r)

\* What a command of a running script has achieved.
Achieved(c) ==
    /\ c.op = "configure" => Current(c.run)
    /\ c.op = "train" => (c.run # Base(c.run) => Anchored(c.run))

InTraining(c) ==
    /\ c.op = "train" /\ dir[c.run] # Missing
    /\ c.run # Base(c.run) => Begun(c.run)

Followed(s) ==
    /\ s \in campaign.scripts
    /\ at[s] \in DOMAIN Program[s]
    /\ \A j \in 1..(at[s] - 1) : Achieved(Program[s][j])
    /\ stage[s] \in {"training", "closing"} => InTraining(Program[s][at[s]])
    /\ stage[s] = "mining" => Program[s][at[s]].op = "cache"

Following == \A s \in Scripts : stage[s] # "off" => Followed(s)

HandBusy == hand # "off" => HandRun \in Runs /\ dir[HandRun] # Missing

CampaignInv ==
    /\ Typed /\ FilesTyped /\ Numbered /\ Baselines /\ Taught
    /\ Following /\ HandBusy /\ Comparable

-----------------------------------------------------------------------------
(* The order of the commands in the scripts.                                 *)

\* A command that is not of a baseline comes after the configuration of its run.
Prepared(p, i) ==
    \/ p[i].run = Base(p[i].run)
    \/ \E j \in 1..(i - 1) : p[j].op = "configure" /\ p[j].run = p[i].run

\* Commands in order: no baseline is configured, a run is configured for the
\* baseline of its seed, and what is trained or mined is a baseline, a run of C,
\* or was configured before.  Goes(C, p, D): after p, the runs of D are, too.
Listed(p) == Len(p) \in Nat \ {0} /\ \E S : p \in Seq(S)
Makes(p, n) == {p[j].run : j \in {k \in 1..n : p[k].op = "configure"}}
InOrder(p, C) ==
    \A i \in 1..Len(p) :
        /\ p[i].op = "configure" => /\ p[i].run # Base(p[i].run)
                                    /\ p[i].teacher = Base(p[i].run)
        /\ p[i].op = "cache" => p[i].run # Base(p[i].run)
        /\ p[i].op \in {"train", "cache"} =>
              p[i].run = Base(p[i].run) \/ p[i].run \in C \cup Makes(p, i - 1)
Goes(C, p, D) == Listed(p) /\ InOrder(p, C) /\ D \subseteq C \cup Makes(p, Len(p))

LEMMA Concatenated ==
    ASSUME NEW p, NEW q, Listed(p), Listed(q)
    PROVE  /\ Listed(p \o q) /\ Len(p \o q) = Len(p) + Len(q)
           /\ \A i \in 1..Len(p) : (p \o q)[i] = p[i]
           /\ \A i \in 1..Len(q) : (p \o q)[Len(p) + i] = q[i]
<1>1. PICK S : p \in Seq(S)
  BY DEF Listed
<1>2. PICK T : q \in Seq(T)
  BY DEF Listed
<1>3. p \in Seq(S \cup T) /\ q \in Seq(S \cup T)
  BY <1>1, <1>2
<1>4. p \o q \in Seq(S \cup T) /\ Len(p \o q) = Len(p) + Len(q)
  BY <1>3
<1> QED BY <1>3, <1>4 DEF Listed

LEMMA GoesOn ==
    ASSUME NEW C, NEW D, NEW F, NEW p, NEW q, Goes(C, p, D), Goes(D, q, F)
    PROVE  Goes(C, p \o q, F)
<1> DEFINE m == Len(p)
           n == Len(q)
           r == p \o q
<1>1. /\ m \in Nat /\ n \in Nat /\ Listed(r) /\ Len(r) = m + n
      /\ \A i \in 1..m : r[i] = p[i]
      /\ \A i \in 1..n : r[m + i] = q[i]
  BY Concatenated DEF Goes, Listed
<1> HIDE DEF m, n, r
<1>2. \A i \in 0..m : Makes(r, i) = Makes(p, i)
  BY <1>1 DEF Makes
<1>3. \A i \in 0..n : Makes(r, m + i) = Makes(p, m) \cup Makes(q, i)
  <2>1. SUFFICES ASSUME NEW i \in 0..n, NEW x
                 PROVE  x \in Makes(r, m + i) <=> x \in Makes(p, m) \/ x \in Makes(q, i)
    OBVIOUS
  <2>2. ASSUME x \in Makes(r, m + i) PROVE x \in Makes(p, m) \/ x \in Makes(q, i)
    <3>1. PICK j \in 1..(m + i) : r[j].op = "configure" /\ x = r[j].run
      BY <2>2 DEF Makes
    <3>2. CASE j <= m
      BY <1>1, <3>1, <3>2 DEF Makes
    <3>3. CASE j > m
      <4>1. j - m \in 1..i /\ j - m \in 1..n /\ m + (j - m) = j
        BY <1>1, <3>3
      <4>2. r[j] = q[j - m]
        BY <1>1, <4>1
      <4> QED BY <3>1, <4>1, <4>2 DEF Makes
    <3> QED BY <1>1, <3>2, <3>3
  <2>3. ASSUME x \in Makes(p, m) PROVE x \in Makes(r, m + i)
    <3>1. PICK j \in 1..m : p[j].op = "configure" /\ x = p[j].run
      BY <2>3 DEF Makes
    <3> QED BY <1>1, <3>1 DEF Makes
  <2>4. ASSUME x \in Makes(q, i) PROVE x \in Makes(r, m + i)
    <3>1. PICK j \in 1..i : q[j].op = "configure" /\ x = q[j].run
      BY <2>4 DEF Makes
    <3>2. m + j \in 1..(m + i) /\ r[m + j] = q[j]
      BY <1>1
    <3> QED BY <3>1, <3>2 DEF Makes
  <2> QED BY <2>2, <2>3, <2>4
<1>4. InOrder(p, C) /\ InOrder(q, D) /\ D \subseteq C \cup Makes(p, m)
      /\ F \subseteq D \cup Makes(q, n)
  BY DEF Goes, m, n
<1>5. InOrder(r, C)
  <2>1. ASSUME NEW i \in 1..(m + n)
        PROVE  /\ r[i].op = "configure" => /\ r[i].run # Base(r[i].run)
                                           /\ r[i].teacher = Base(r[i].run)
               /\ r[i].op = "cache" => r[i].run # Base(r[i].run)
               /\ r[i].op \in {"train", "cache"} =>
                     r[i].run = Base(r[i].run) \/ r[i].run \in C \cup Makes(r, i - 1)
    <3>1. CASE i <= m
      <4>1. i \in 1..Len(p) /\ r[i] = p[i] /\ Makes(r, i - 1) = Makes(p, i - 1)
        BY <1>1, <1>2, <3>1 DEF m
      <4> QED BY <1>4, <4>1 DEF InOrder
    <3>2. CASE i > m
      <4> DEFINE k == i - m
      <4>1. k \in 1..Len(q) /\ i = m + k
        BY <1>1, <3>2 DEF n
      <4>2. r[i] = q[k] /\ Makes(r, i - 1) = Makes(p, m) \cup Makes(q, k - 1)
        <5>1. k - 1 \in 0..n /\ i - 1 = m + (k - 1) /\ k \in 1..n
          BY <1>1, <4>1 DEF n
        <5> QED BY <1>1, <1>3, <4>1, <5>1
      <4> HIDE DEF k
      <4> QED BY <1>4, <4>1, <4>2 DEF InOrder
    <3> QED BY <1>1, <3>1, <3>2
  <2> QED BY <1>1, <2>1 DEF InOrder
<1>6. F \subseteq C \cup Makes(r, m + n)
  <2>1. Makes(r, m + n) = Makes(p, m) \cup Makes(q, n)
    BY <1>1, <1>3
  <2> QED BY <1>4, <2>1
<1> QED BY <1>1, <1>5, <1>6 DEF Goes, r

-----------------------------------------------------------------------------
(* Loops: what FlattenSeq computes, by the least counterexample.             *)

LEMMA Least ==
    ASSUME NEW S, S \subseteq Nat, S # {}
    PROVE  \E x \in S : \A y \in S : x <= y
<1> DEFINE R == StrictSubsetOrdering(Nat)
           T == {0..x : x \in S}
<1>1. IsWellFoundedOn(R, FiniteSubsetsOf(Nat))
  BY FS_StrictSubsetOrderingWellFounded
<1>2. T \subseteq FiniteSubsetsOf(Nat)
  <2>1. ASSUME NEW x \in S PROVE 0..x \in FiniteSubsetsOf(Nat)
    BY FS_Interval, 0 \in Int, x \in Int, 0..x \in SUBSET Nat DEF FiniteSubsetsOf
  <2>2. QED
    BY <2>1
<1>3. T # {}
  OBVIOUS
<1>4. PICK t \in T : \A u \in T : <<u, t>> \notin R
  <2> HIDE DEF R, T
  <2>1. QED
    BY <1>1, <1>2, <1>3, WFMin
<1>5. PICK x \in S : t = 0..x
  BY <1>4
<1>6. ASSUME NEW y \in S PROVE x <= y
  <2>1. <<0..y, 0..x>> \notin R
    BY <1>4, <1>5
  <2>2. ~(0..y \subseteq 0..x /\ 0..y # 0..x)
    BY <2>1, 0..y \in SUBSET Nat, 0..x \in SUBSET Nat DEF StrictSubsetOrdering
  <2>3. ASSUME y < x PROVE FALSE
    <3>1. x \in Nat /\ y \in Nat
      OBVIOUS
    <3>2. x \in 0..x /\ x \notin 0..y
      BY <2>3, <3>1
    <3>3. 0..y \subseteq 0..x
      BY <2>3, <3>1
    <3>4. QED
      BY <2>2, <3>2, <3>3
  <2>4. QED
    BY <2>3
<1>7. QED
  BY <1>6

\* What FlattenSeq computes, without the choice.
Unfolds(ss, k, g) == g = [i \in 1..k |-> IF i = 1 THEN ss[i] ELSE g[i - 1] \o ss[i]]

LEMMA UnfoldingExists ==
    ASSUME NEW ss, NEW n \in Nat
    PROVE  \E g : Unfolds(ss, n, g)
<1> SUFFICES ASSUME ~ \E g : Unfolds(ss, n, g) PROVE FALSE
  OBVIOUS
<1> DEFINE Failing == {k \in Nat : ~ \E g : Unfolds(ss, k, g)}
<1>1. PICK k \in Failing : \A l \in Failing : k <= l
  BY Least
<1>2. k # 0
  <2>1. Unfolds(ss, 0, [i \in 1..0 |-> ss])
    BY DEF Unfolds
  <2> QED BY <2>1
<1>3. k - 1 \in Nat /\ k - 1 \notin Failing
  BY <1>1, <1>2
<1>4. PICK g : Unfolds(ss, k - 1, g)
  BY <1>3
<1> DEFINE h == [i \in 1..k |-> IF i = 1 THEN ss[i] ELSE g[i - 1] \o ss[i]]
<1>5. ASSUME NEW i \in 1..(k - 1) PROVE h[i] = g[i]
  <2>1. g[i] = IF i = 1 THEN ss[i] ELSE g[i - 1] \o ss[i]
    <3> HIDE DEF h, Failing
    <3>1. g = [l \in 1..(k - 1) |-> IF l = 1 THEN ss[l] ELSE g[l - 1] \o ss[l]]
      BY <1>4 DEF Unfolds
    <3> QED BY <3>1
  <2>2. i \in 1..k
    BY <1>3
  <2> QED BY <2>1, <2>2
<1>6. ASSUME NEW i \in 1..k
      PROVE  h[i] = IF i = 1 THEN ss[i] ELSE h[i - 1] \o ss[i]
  <2>1. i # 1 => i - 1 \in 1..(k - 1)
    OBVIOUS
  <2> QED BY <1>5, <2>1
<1>7. Unfolds(ss, k, h)
  <2>1. h = [i \in 1..k |-> h[i]]
    OBVIOUS
  <2> HIDE DEF h
  <2> QED BY <1>6, <2>1 DEF Unfolds
<1> QED BY <1>1, <1>7

LEMMA FlattenedGoes ==
    ASSUME NEW ss, Len(ss) \in Nat \ {0}, \A i \in 1..Len(ss) : Goes({}, ss[i], {})
    PROVE  Goes({}, FlattenSeq(ss), {})
<1> DEFINE n == Len(ss)
           f == CHOOSE g : Unfolds(ss, n, g)
<1>1. Unfolds(ss, n, f)
  BY UnfoldingExists
<1>2. FlattenSeq(ss) = f[n]
  BY DEF FlattenSeq, Unfolds
<1> HIDE DEF f
<1>3. ASSUME NEW m \in 1..n, ~Goes({}, f[m], {}) PROVE FALSE
  <2> DEFINE Failing == {k \in 1..n : ~Goes({}, f[k], {})}
  <2>1. PICK k \in Failing : \A l \in Failing : k <= l
    <3>1. Failing \subseteq Nat /\ Failing # {}
      BY <1>3
    <3> HIDE DEF Failing
    <3> QED BY <3>1, Least
  <2>2. CASE k = 1
    BY <1>1, <2>1, <2>2 DEF Unfolds
  <2>3. CASE k # 1
    <3>1. k - 1 \in 1..n /\ k \in 1..n /\ Goes({}, f[k - 1], {})
      BY <2>1, <2>3
    <3>2. f[k] = f[k - 1] \o ss[k]
      BY <1>1, <2>3, <3>1 DEF Unfolds
    <3>3. Goes({}, f[k], {})
      BY <3>1, <3>2, GoesOn
    <3> QED BY <2>1, <3>3
  <2> QED BY <2>2, <2>3
<1> QED BY <1>2, <1>3

-----------------------------------------------------------------------------
(* The commands, and what the scripts have in common.                        *)

LEMMA PlainGoes ==
    ASSUME NEW C, NEW c, c.op \notin {"configure", "train", "cache"}
    PROVE  Goes(C, <<c>>, C)
<1> DEFINE p == <<c>>
<1>1. Listed(p) /\ Len(p) = 1 /\ p[1] = c
  <2>1. p \in Seq({c})
    OBVIOUS
  <2>2. Len(p) = 1 /\ p[1] = c
    OBVIOUS
  <2> HIDE DEF p
  <2> QED BY <2>1, <2>2 DEF Listed
<1> HIDE DEF p
<1>2. InOrder(p, C)
  BY <1>1 DEF InOrder
<1> QED BY <1>1, <1>2 DEF Goes, p

LEMMA TrainGoes ==
    ASSUME NEW C, NEW r, r = Base(r) \/ r \in C
    PROVE  Goes(C, Train(r), C)
<1> DEFINE c == [op |-> "train", run |-> r]
           p == <<c>>
<1>1. Listed(p) /\ Len(p) = 1 /\ p[1] = c
  <2>1. p \in Seq({c})
    OBVIOUS
  <2>2. Len(p) = 1 /\ p[1] = c
    OBVIOUS
  <2> HIDE DEF p
  <2> QED BY <2>1, <2>2 DEF Listed
<1>2. c.op = "train" /\ c.run = r /\ Train(r) = p
  BY DEF Train
<1> HIDE DEF p, c
<1>3. InOrder(p, C)
  BY <1>1, <1>2 DEF InOrder
<1> QED BY <1>1, <1>2, <1>3 DEF Goes

LEMMA CacheGoes ==
    ASSUME NEW C, NEW r \in C, r # Base(r)
    PROVE  Goes(C, BuildCache(r), C)
<1> DEFINE c == [op |-> "cache", run |-> r]
           p == <<c>>
<1>1. Listed(p) /\ Len(p) = 1 /\ p[1] = c
  <2>1. p \in Seq({c})
    OBVIOUS
  <2>2. Len(p) = 1 /\ p[1] = c
    OBVIOUS
  <2> HIDE DEF p
  <2> QED BY <2>1, <2>2 DEF Listed
<1>2. c.op = "cache" /\ c.run = r /\ BuildCache(r) = p
  BY DEF BuildCache
<1> HIDE DEF p, c
<1>3. InOrder(p, C)
  BY <1>1, <1>2 DEF InOrder
<1> QED BY <1>1, <1>2, <1>3 DEF Goes

LEMMA ConfigureGoes ==
    ASSUME NEW C, NEW kind, kind # "base", NEW student, NEW bank, NEW seed
    PROVE  /\ Goes(C, Configure(kind, student, bank, seed), C \cup {<<kind, seed>>})
           /\ <<kind, seed>> # Base(<<kind, seed>>)
<1> DEFINE r == <<kind, seed>>
           c == [op |-> "configure", run |-> r, teacher |-> <<"base", seed>>,
                 student |-> <<student, seed>>, cache |-> <<bank, seed>>]
           p == <<c>>
<1>1. Listed(p) /\ Len(p) = 1 /\ p[1] = c
  <2>1. p \in Seq({c})
    OBVIOUS
  <2>2. Len(p) = 1 /\ p[1] = c
    OBVIOUS
  <2> HIDE DEF p
  <2> QED BY <2>1, <2>2 DEF Listed
<1>2. /\ c.op = "configure" /\ c.run = r /\ c.teacher = Base(r) /\ r # Base(r)
      /\ Configure(kind, student, bank, seed) = p
  BY DEF Configure, Base
<1> HIDE DEF p, c, r
<1>3. InOrder(p, C)
  BY <1>1, <1>2 DEF InOrder
<1>4. r \in Makes(p, 1)
  BY <1>1, <1>2 DEF Makes
<1>5. Goes(C, p, C \cup {r})
  BY <1>1, <1>3, <1>4 DEF Goes
<1> QED BY <1>2, <1>5 DEF r

LEMMA GoesForLess ==
    ASSUME NEW C, NEW p, NEW D, Goes(C, p, D), NEW F, F \subseteq D
    PROVE  Goes(C, p, F)
  BY DEF Goes

\* The commands that neither configure nor train.
LEMMA PlainCommands ==
    ASSUME NEW C
    PROVE  /\ \A g, s : Goes(C, Await(g, s), C)
           /\ Goes(C, AwaitFeatures, C)
           /\ \A r : Goes(C, AwaitBaseline(r), C) /\ Goes(C, Validate(r), C)
                     /\ Goes(C, Evaluate(r), C)
           /\ \A b, m, s : Goes(C, Compare(b, m, s), C) /\ Goes(C, CompareMatched(b, m, s), C)
           /\ \A g : Goes(C, Judge(g), C) /\ Goes(C, JudgeInPlace(g), C)
           /\ \A g, r : Goes(C, JudgeFull(g, r), C)
           /\ \A g, a : Goes(C, Require(g, a), C) /\ Goes(C, OnlyIf(g, a), C)
           /\ \A g, m : Goes(C, Cross(g, m), C) /\ Goes(C, Agree(g, m), C)
<1>1. \A g, s : Goes(C, Await(g, s), C)
  BY PlainGoes DEF Await
<1>2. Goes(C, AwaitFeatures, C)
  BY PlainGoes DEF AwaitFeatures
<1>3. \A r : Goes(C, AwaitBaseline(r), C) /\ Goes(C, Validate(r), C) /\ Goes(C, Evaluate(r), C)
  BY PlainGoes DEF AwaitBaseline, Validate, Evaluate
<1>4. \A b, m, s : Goes(C, Compare(b, m, s), C) /\ Goes(C, CompareMatched(b, m, s), C)
  BY PlainGoes DEF Compare, CompareMatched
<1>5. \A g : Goes(C, Judge(g), C) /\ Goes(C, JudgeInPlace(g), C)
  BY PlainGoes DEF Judge, JudgeInPlace
<1>6. \A g, r : Goes(C, JudgeFull(g, r), C)
  BY PlainGoes DEF JudgeFull
<1>7. \A g, a : Goes(C, Require(g, a), C) /\ Goes(C, OnlyIf(g, a), C)
  BY PlainGoes DEF Require, OnlyIf
<1>8. \A g, m : Goes(C, Cross(g, m), C) /\ Goes(C, Agree(g, m), C)
  BY PlainGoes DEF Cross, Agree
<1> QED BY <1>1, <1>2, <1>3, <1>4, <1>5, <1>6, <1>7, <1>8

LEMMA TrainedGoes ==
    ASSUME NEW C, NEW r, r = Base(r) \/ r \in C
    PROVE  Goes(C, Trained(r), C)
<1>1. Goes(C, Train(r), C) /\ Goes(C, Evaluate(r), C)
  BY TrainGoes, PlainCommands
<1> QED BY <1>1, GoesOn DEF Trained

LEMMA StagedGoes ==
    ASSUME NEW C, NEW kind, kind # "base", NEW bank, NEW seed
    PROVE  Goes(C, Staged(kind, bank, seed), C)
<1> DEFINE D == C \cup {<<kind, seed>>}
<1>1. Goes(C, Configure(kind, "base", bank, seed), D)
  BY ConfigureGoes
<1>2. Goes(D, Trained(<<kind, seed>>), D)
  BY TrainedGoes
<1>3. Goes(C, Staged(kind, bank, seed), D)
  BY <1>1, <1>2, GoesOn DEF Staged
<1> QED BY <1>3, GoesForLess

LEMMA MinStageGoes ==
    ASSUME NEW C, NEW seed
    PROVE  Goes(C, MinStage(seed), C)
<1> DEFINE r == <<"min", seed>>
           D == C \cup {r}
<1>1. Goes(C, Configure("min", "base", "min_cache", seed), D) /\ r # Base(r)
  BY ConfigureGoes
<1>2. Goes(D, BuildCache(r), D)
  BY <1>1, CacheGoes
<1>3. Goes(D, Trained(r), D)
  BY TrainedGoes
<1>4. Goes(D, Compare("base", "min", <<seed>>), D)
  BY PlainCommands
<1>5. Goes(C, MinStage(seed), D)
  BY <1>1, <1>2, <1>3, <1>4, GoesOn DEF MinStage
<1> QED BY <1>5, GoesForLess

LEMMA ControlsGo ==
    ASSUME NEW seed
    PROVE  Goes({}, RunControls(seed), {})
<1>1. ASSUME NEW kind, kind # "base" PROVE Goes({}, RunControl(kind, seed), {})
  <2>1. Goes({}, Staged(kind, ControlCache(kind), seed), {})
    BY <1>1, StagedGoes
  <2>2. /\ Goes({}, Compare("base", kind, <<seed>>), {})
        /\ Goes({}, Compare(kind, "min", <<seed>>), {})
    BY PlainCommands
  <2> QED BY <2>1, <2>2, GoesOn DEF RunControl
<1>2. /\ Goes({}, RunControl("adapter_only", seed), {})
      /\ Goes({}, RunControl("caption", seed), {})
      /\ Goes({}, RunControl("random_span", seed), {})
  BY <1>1
<1> QED BY <1>2, GoesOn DEF RunControls

LEMMA RunSeedGoes ==
    ASSUME NEW seed
    PROVE  Goes({}, RunSeed(seed), {})
<1>1. Goes({}, Trained(<<"base", seed>>), {})
  BY TrainedGoes DEF Base
<1>2. Goes({}, MinStage(seed), {}) /\ Goes({}, RunControls(seed), {})
  BY MinStageGoes, ControlsGo
<1> QED BY <1>1, <1>2, GoesOn DEF RunSeed

LEMMA FullPilotGoes ==
    ASSUME NEW seed
    PROVE  Goes({}, FullPilot(seed), {})
<1> DEFINE f == <<"full", seed>>
           m == <<"continued_min", seed>>
<1>1. Goes({}, Configure("full", "min", "full_cache", seed), {f}) /\ f # Base(f)
  <2>1. {} \cup {f} = {f}
    OBVIOUS
  <2> QED BY <2>1, ConfigureGoes
<1> DEFINE D == {f} \cup {m}
<1>2. Goes({f}, Configure("continued_min", "min", "min_cache", seed), D)
  BY ConfigureGoes
<1>3. Goes(D, BuildCache(f), D) /\ Goes(D, Trained(m), D) /\ Goes(D, Trained(f), D)
  BY <1>1, CacheGoes, TrainedGoes
<1>4. /\ \A r : Goes({}, Validate(r), {})
      /\ \A g, r : Goes(D, JudgeFull(g, r), D)
      /\ \A b, k, s : Goes(D, Compare(b, k, s), D) /\ Goes(D, CompareMatched(b, k, s), D)
  BY PlainCommands
<1> HIDE DEF D
<1> DEFINE p == Validate(<<"base", seed>>) \o Validate(<<"min", seed>>)
                  \o Configure("full", "min", "full_cache", seed)
                  \o Configure("continued_min", "min", "min_cache", seed)
           g == JudgeFull(FullGate(Gain, Mechanism), f)
           q == p \o BuildCache(f) \o g \o Trained(m) \o Trained(f)
<1>5. Goes({}, p, D)
  BY <1>1, <1>2, <1>4, GoesOn
<1>6. Goes({}, q, D)
  <2>1. Goes(D, g, D)
    BY <1>4
  <2> HIDE DEF p, g, f, m
  <2> QED BY <1>3, <1>5, <2>1, GoesOn
<1> DEFINE x == CompareMatched("continued_min", "full", <<seed>>)
           y == Compare("min", "full", <<seed>>)
           z == Compare("base", "full", <<seed>>)
<1>7. Goes({}, q \o x \o y \o z, D)
  <2>1. Goes(D, x, D) /\ Goes(D, y, D) /\ Goes(D, z, D)
    BY <1>4
  <2> HIDE DEF q, x, y, z
  <2> QED BY <1>6, <2>1, GoesOn
<1>8. Goes({}, FullPilot(seed), D)
  BY <1>7 DEF FullPilot
<1> QED BY <1>8, GoesForLess

-----------------------------------------------------------------------------
(* The thirteen scripts.                                                     *)

LEMMA LengthOf ==
    ASSUME NEW n \in Nat, NEW f, f = [i \in 1..n |-> f[i]]
    PROVE  Len(f) = n
<1> DEFINE S == {f[i] : i \in 1..n}
<1>1. f \in Seq(S)
  OBVIOUS
<1> QED BY <1>1

\* A loop over seeds.
LEMMA LoopGoes ==
    ASSUME NEW seeds, seeds \in Seq(Nat), Len(seeds) # 0,
           NEW ss, ss = [i \in DOMAIN seeds |-> ss[i]],
           \A i \in DOMAIN seeds : Goes({}, ss[i], {})
    PROVE  Goes({}, FlattenSeq(ss), {})
<1>1. DOMAIN seeds = 1..Len(seeds) /\ Len(seeds) \in Nat
  OBVIOUS
<1>2. Len(ss) = Len(seeds)
  BY <1>1, LengthOf
<1> QED BY <1>1, <1>2, FlattenedGoes

LEMMA SeedsGo ==
    /\ Seeds \in Seq(Nat) /\ Len(Seeds) # 0
    /\ Tail(Seeds) \in Seq(Nat) /\ Len(Tail(Seeds)) # 0
<1>1. Seeds \in Seq(Nat) /\ Len(Seeds) >= 2 /\ Len(Seeds) \in Nat
  BY SeedsAssumption
<1>2. Seeds # << >>
  BY <1>1
<1>3. Tail(Seeds) \in Seq(Nat) /\ Len(Tail(Seeds)) = Len(Seeds) - 1
  BY <1>1, <1>2
<1> QED BY <1>1, <1>3

LEMMA EachSeedGoes == Goes({}, ForEach(Tail(Seeds), RunSeed), {})
<1> DEFINE ss == [i \in DOMAIN Tail(Seeds) |-> RunSeed(Tail(Seeds)[i])]
<1>1. ss = [i \in DOMAIN Tail(Seeds) |-> ss[i]]
  OBVIOUS
<1>2. \A i \in DOMAIN Tail(Seeds) : Goes({}, ss[i], {})
  BY RunSeedGoes
<1>3. ForEach(Tail(Seeds), RunSeed) = FlattenSeq(ss)
  BY DEF ForEach
<1> HIDE DEF ss
<1> QED BY <1>1, <1>2, <1>3, SeedsGo, LoopGoes

LEMMA CslGo ==
    Goes({}, CslGateX, {}) /\ Goes({}, CslMultiseed, {}) /\ Goes({}, CslFullPilot, {})
<1> DEFINE h == Head(Seeds)
<1>1. Goes({}, CslGateX, {})
  <2>1. /\ Goes({}, AwaitFeatures, {}) /\ Goes({}, Trained(<<"base", h>>), {})
        /\ Goes({}, MinStage(h), {}) /\ Goes({}, JudgeInPlace(SeedGate), {})
    BY PlainCommands, TrainedGoes, MinStageGoes DEF Base
  <2> QED BY <2>1, GoesOn DEF CslGateX
<1>2. Goes({}, CslMultiseed, {})
  <2>1. /\ Goes({}, Await(SeedGate, "csl_gate_x"), {}) /\ Goes({}, OnlyIf(SeedGate, {"passed"}), {})
        /\ Goes({}, RunControls(h), {}) /\ Goes({}, ForEach(Tail(Seeds), RunSeed), {})
    BY PlainCommands, ControlsGo, EachSeedGoes
  <2>2. /\ Goes({}, Compare("base", "min", Seeds), {}) /\ Goes({}, Compare("caption", "min", Seeds), {})
        /\ Goes({}, Compare("random_span", "min", Seeds), {})
        /\ Goes({}, Judge(Gain), {}) /\ Goes({}, Judge(Mechanism), {})
        /\ Goes({}, Cross(Gain, Mechanism), {})
    BY PlainCommands
  <2> QED BY <2>1, <2>2, GoesOn DEF CslMultiseed
<1>3. Goes({}, CslFullPilot, {})
  <2>1. /\ Goes({}, Await(CrossGate, "csl_multiseed"), {}) /\ Goes({}, Agree(Gain, Mechanism), {})
        /\ Goes({}, OnlyIf(Gain, {"passed"}), {}) /\ Goes({}, OnlyIf(Mechanism, {"passed"}), {})
        /\ Goes({}, FullPilot(h), {})
    BY PlainCommands, FullPilotGoes
  <2> QED BY <2>1, GoesOn DEF CslFullPilot
<1> QED BY <1>1, <1>2, <1>3

\* PHOENIX-2014T: from the first script to the full pilot.
LEMMA PhGo ==
    /\ Goes({}, PhFollowup, {}) /\ Goes({}, PhControls, {})
    /\ Goes({}, PhMultiseed, {}) /\ Goes({}, PhFullPilot, {})
<1> DEFINE h == Head(Seeds)
           b == <<"base", h>>
<1>1. /\ \A r : Goes({}, Validate(r), {}) /\ Goes({}, Evaluate(r), {}) /\ Goes({}, AwaitBaseline(r), {})
      /\ \A p, m, s : Goes({}, Compare(p, m, s), {})
      /\ \A g, a : Goes({}, Judge(g), {}) /\ Goes({}, Require(g, a), {})
  BY PlainCommands
<1>2. /\ Goes({}, MinStage(h), {}) /\ Goes({}, RunControls(h), {})
      /\ Goes({}, ForEach(Tail(Seeds), RunSeed), {}) /\ Goes({}, FullPilot(h), {})
  BY MinStageGoes, ControlsGo, EachSeedGoes, FullPilotGoes
<1>3. Goes({}, PhFollowup, {})
  BY <1>1, <1>2, GoesOn DEF PhFollowup
<1>4. Goes({}, PhControls, {})
  BY <1>1, <1>2, GoesOn DEF PhControls
<1>5. Goes({}, PhMultiseed, {})
  BY <1>1, <1>2, GoesOn DEF PhMultiseed
<1>6. Goes({}, PhFullPilot, {})
  BY <1>1, <1>2, GoesOn DEF PhFullPilot
<1> QED BY <1>3, <1>4, <1>5, <1>6

LEMMA CorrectedGoes ==
    ASSUME NEW kind, kind # "base", NEW seed
    PROVE  /\ Goes({}, Configure(kind, "base", "min_cache", seed), {<<kind, seed>>})
           /\ Goes({<<kind, seed>>}, Corrected(kind, seed), {})
<1> DEFINE D == {<<kind, seed>>}
<1>1. Goes({}, Configure(kind, "base", "min_cache", seed), D)
  <2> DEFINE r == <<kind, seed>>
  <2>1. {} \cup {r} = {r}
    OBVIOUS
  <2>2. Goes({}, Configure(kind, "base", "min_cache", seed), {} \cup {r})
    BY ConfigureGoes
  <2> HIDE DEF r
  <2>3. Goes({}, Configure(kind, "base", "min_cache", seed), {r})
    BY <2>1, <2>2
  <2> QED BY <2>3 DEF r
<1>2. Goes(D, Trained(<<kind, seed>>), D)
  BY TrainedGoes
<1>3. /\ Goes(D, Compare("base", kind, <<seed>>), D) /\ Goes(D, Compare("min", kind, <<seed>>), D)
  BY PlainCommands
<1>4. Goes(D, Corrected(kind, seed), D)
  <2> HIDE DEF D
  <2> QED BY <1>2, <1>3, GoesOn DEF Corrected
<1>5. Goes(D, Corrected(kind, seed), {})
  BY <1>4, GoesForLess
<1> QED BY <1>1, <1>5

LEMMA CorrectiveGoes == Goes({}, PhCorrective, {})
<1> DEFINE h == Head(Seeds)
           p == Require(Gain, {"passed", "no_go"}) \o OnlyIf(Gain, {"no_go"})
                  \o Validate(<<"base", h>>) \o Validate(<<"min", h>>)
           c == Configure("lower_lr", "base", "min_cache", h)
           d == Configure("keep", "base", "min_cache", h)
           x == Corrected("lower_lr", h)
           y == Corrected("keep", h)
           z == Compare("lower_lr", "keep", First)
<1>1. Goes({}, p, {})
  <2>1. /\ Goes({}, Require(Gain, {"passed", "no_go"}), {}) /\ Goes({}, OnlyIf(Gain, {"no_go"}), {})
        /\ Goes({}, Validate(<<"base", h>>), {}) /\ Goes({}, Validate(<<"min", h>>), {})
    BY PlainCommands
  <2> QED BY <2>1, GoesOn
<1>2. /\ Goes({}, c, {<<"lower_lr", h>>}) /\ Goes({<<"lower_lr", h>>}, x, {})
      /\ Goes({}, d, {<<"keep", h>>}) /\ Goes({<<"keep", h>>}, y, {})
  BY CorrectedGoes
<1>3. Goes({}, z, {})
  BY PlainCommands
<1>4. PhCorrective = p \o c \o x \o d \o y \o z
  BY DEF PhCorrective
<1> HIDE DEF p, c, d, x, y, z
<1> QED BY <1>1, <1>2, <1>3, <1>4, GoesOn

LEMMA ScreenedGoes ==
    ASSUME NEW kind, kind # "base", NEW seed
    PROVE  Goes({}, Screened(kind, seed), {})
<1>1. /\ Goes({}, Validate(<<"base", seed>>), {}) /\ Goes({}, Validate(<<kind, seed>>), {})
      /\ Goes({}, Staged(kind, "min_cache", seed), {})
      /\ Goes({}, Compare("base", kind, <<seed>>), {})
  BY PlainCommands, StagedGoes
<1> DEFINE q == IF seed = Head(Seeds)
                   THEN Validate(<<kind, seed>>)
                   ELSE Staged(kind, "min_cache", seed) \o Compare("base", kind, <<seed>>)
<1>2. Goes({}, q, {})
  BY <1>1, GoesOn
<1>3. Screened(kind, seed) = Validate(<<"base", seed>>) \o q
  BY DEF Screened
<1> HIDE DEF q
<1> QED BY <1>1, <1>2, <1>3, GoesOn

LEMMA LowerLrControlsGo ==
    ASSUME NEW seed
    PROVE  Goes({}, LowerLrControls(seed), {})
<1>1. ASSUME NEW kind, kind # "base" PROVE Goes({}, LowerLrControl(kind, seed), {})
  <2>1. /\ Goes({}, Staged(kind, "min_cache", seed), {})
        /\ Goes({}, CompareMatched(kind, "lower_lr", <<seed>>), {})
    BY <1>1, StagedGoes, PlainCommands
  <2> QED BY <2>1, GoesOn DEF LowerLrControl
<1>2. /\ Goes({}, LowerLrControl("lower_lr_caption", seed), {})
      /\ Goes({}, LowerLrControl("lower_lr_random_span", seed), {})
  BY <1>1
<1> QED BY <1>2, GoesOn DEF LowerLrControls

LEMMA LowerLrGoes == Goes({}, PhLowerLr, {})
<1> DEFINE ss == [i \in DOMAIN Seeds |-> LowerLrScreened(Seeds[i])]
           cs == [i \in DOMAIN Seeds |-> LowerLrControls(Seeds[i])]
<1>1. ss = [i \in DOMAIN Seeds |-> ss[i]] /\ cs = [i \in DOMAIN Seeds |-> cs[i]]
  OBVIOUS
<1>2. \A i \in DOMAIN Seeds : Goes({}, ss[i], {})
  BY ScreenedGoes DEF LowerLrScreened
<1>3. \A i \in DOMAIN Seeds : Goes({}, cs[i], {})
  BY LowerLrControlsGo
<1>4. /\ ForEach(Seeds, LowerLrScreened) = FlattenSeq(ss)
      /\ ForEach(Seeds, LowerLrControls) = FlattenSeq(cs)
  BY DEF ForEach
<1> HIDE DEF ss, cs
<1>5. /\ Goes({}, ForEach(Seeds, LowerLrScreened), {})
      /\ Goes({}, ForEach(Seeds, LowerLrControls), {})
  BY <1>1, <1>2, <1>3, <1>4, SeedsGo, LoopGoes
<1>6. /\ Goes({}, Compare("base", "lower_lr", Seeds), {})
      /\ Goes({}, Judge(GainGate("base", "lower_lr", Seeds)), {})
      /\ Goes({}, OnlyIf(GainGate("base", "lower_lr", Seeds), {"passed"}), {})
      /\ Goes({}, CompareMatched("lower_lr_caption", "lower_lr", Seeds), {})
      /\ Goes({}, CompareMatched("lower_lr_random_span", "lower_lr", Seeds), {})
      /\ Goes({}, Judge(LowerLrMechanism), {})
  BY PlainCommands
<1> QED BY <1>5, <1>6, GoesOn DEF PhLowerLr

LEMMA LocalGoes == Goes({}, PhLocalWordVideo, {})
<1> DEFINE ss == [i \in DOMAIN Seeds |-> LocalScreened(Seeds[i])]
<1>1. ss = [i \in DOMAIN Seeds |-> ss[i]]
  OBVIOUS
<1>2. \A i \in DOMAIN Seeds : Goes({}, ss[i], {})
  BY ScreenedGoes DEF LocalScreened
<1>3. ForEach(Seeds, LocalScreened) = FlattenSeq(ss)
  BY DEF ForEach
<1> HIDE DEF ss
<1>4. Goes({}, ForEach(Seeds, LocalScreened), {})
  BY <1>1, <1>2, <1>3, SeedsGo, LoopGoes
<1>5. /\ Goes({}, Compare("base", "local_word_video", Seeds), {})
      /\ Goes({}, Judge(GainGate("base", "local_word_video", Seeds)), {})
  BY PlainCommands
<1> QED BY <1>4, <1>5, GoesOn DEF PhLocalWordVideo

LEMMA RampGoes == Goes({}, PhLexicalRamp, {})
<1>1. /\ Goes({}, Validate(<<"base", Head(Seeds)>>), {})
      /\ Goes({}, Staged("lexical_ramp5", "min_cache", Head(Seeds)), {})
      /\ Goes({}, Compare("base", "lexical_ramp5", First), {})
      /\ Goes({}, Judge(GainGate("base", "lexical_ramp5", First)), {})
  BY StagedGoes, PlainCommands
<1> QED BY <1>1, GoesOn DEF PhLexicalRamp

LEMMA BalancedGoes == Goes({}, PhBalancedLexical, {})
<1>1. ASSUME NEW seed PROVE Goes({}, Balanced(seed), {})
  <2> DEFINE g == GainGate("base", "balanced_lexical", First)
             q == IF seed = Head(Seeds) THEN Judge(g) \o OnlyIf(g, {"passed"}) ELSE << >>
  <2>1. /\ Goes({}, Validate(<<"base", seed>>), {})
        /\ Goes({}, Staged("balanced_lexical", "min_cache", seed), {})
        /\ Goes({}, Compare("base", "balanced_lexical", <<seed>>), {})
        /\ Goes({}, Judge(g), {}) /\ Goes({}, OnlyIf(g, {"passed"}), {})
    BY StagedGoes, PlainCommands
  <2> DEFINE p == Validate(<<"base", seed>>) \o Staged("balanced_lexical", "min_cache", seed)
                    \o Compare("base", "balanced_lexical", <<seed>>)
  <2>2. Goes({}, p, {})
    BY <2>1, GoesOn
  <2>3. Balanced(seed) = p \o q
    BY DEF Balanced
  <2>4. CASE seed = Head(Seeds)
    <3>1. Goes({}, q, {})
      <4> HIDE DEF g
      <4> QED BY <2>1, <2>4, GoesOn
    <3> HIDE DEF p, q
    <3> QED BY <2>2, <2>3, <3>1, GoesOn
  <2>5. CASE seed # Head(Seeds)
    <3>1. q = << >>
      BY <2>5
    <3>2. PICK S : p \in Seq(S)
      BY <2>2 DEF Goes, Listed
    <3> HIDE DEF p, q
    <3>3. p \o << >> = p
      BY <3>2
    <3> QED BY <2>2, <2>3, <3>1, <3>3
  <2> QED BY <2>4, <2>5
<1> DEFINE ss == [i \in DOMAIN Seeds |-> Balanced(Seeds[i])]
<1>2. ss = [i \in DOMAIN Seeds |-> ss[i]]
  OBVIOUS
<1>3. \A i \in DOMAIN Seeds : Goes({}, ss[i], {})
  BY <1>1
<1>4. ForEach(Seeds, Balanced) = FlattenSeq(ss)
  BY DEF ForEach
<1> HIDE DEF ss
<1>5. Goes({}, ForEach(Seeds, Balanced), {})
  BY <1>2, <1>3, <1>4, SeedsGo, LoopGoes
<1>6. /\ Goes({}, Compare("base", "balanced_lexical", Seeds), {})
      /\ Goes({}, Judge(GainGate("base", "balanced_lexical", Seeds)), {})
  BY PlainCommands
<1> QED BY <1>5, <1>6, GoesOn DEF PhBalancedLexical

LEMMA DiagnosedGoes ==
    ASSUME NEW C, NEW kind, NEW matched \in BOOLEAN, NEW seed
    PROVE  Goes(C, Diagnosed(kind, matched, seed), C)
<1> DEFINE q == IF matched THEN CompareMatched(kind, "matched_min", <<seed>>)
                           ELSE Compare(kind, "matched_min", <<seed>>)
<1>1. Goes(C, Compare("base", kind, <<seed>>), C)
  BY PlainCommands
<1>2. Goes(C, q, C)
  <2>1. CASE matched = TRUE
    BY <2>1, PlainCommands
  <2>2. CASE matched = FALSE
    BY <2>2, PlainCommands
  <2> QED BY <2>1, <2>2
<1>3. Diagnosed(kind, matched, seed) = Compare("base", kind, <<seed>>) \o q
  BY DEF Diagnosed
<1> HIDE DEF q
<1> QED BY <1>1, <1>2, <1>3, GoesOn

LEMMA DiagnosticsGo == Goes({}, PhDiagnostics, {})
<1> DEFINE h == Head(Seeds)
           r == <<"random_neighbors", h>>
           a == Require(Gain, {"passed", "no_go"})
           b == Require(Mechanism, {"passed", "no_go", "insufficient_seeds"})
           p == a \o b \o Validate(<<"base", h>>) \o Validate(<<"min", h>>)
                  \o Staged("matched_min", "min_cache", h) \o Compare("min", "matched_min", First)
           u == Diagnostic("shuffled_lexical", TRUE, h)
           v == Diagnostic("head_only", FALSE, h)
           w == Diagnostic("local_word_video", TRUE, h)
           c == Configure("random_neighbors", "base", "random_cache", h)
           x == BuildCache(r)
           y == Trained(r)
           z == Diagnosed("random_neighbors", TRUE, h)
<1>1. Goes({}, p, {})
  <2>1. /\ Goes({}, a, {}) /\ Goes({}, b, {})
        /\ Goes({}, Validate(<<"base", h>>), {}) /\ Goes({}, Validate(<<"min", h>>), {})
        /\ Goes({}, Compare("min", "matched_min", First), {})
    BY PlainCommands
  <2>2. Goes({}, Staged("matched_min", "min_cache", h), {})
    BY StagedGoes
  <2> HIDE DEF a, b
  <2> QED BY <2>1, <2>2, GoesOn
<1>2. Goes({}, u, {}) /\ Goes({}, v, {}) /\ Goes({}, w, {})
  <2>1. ASSUME NEW kind, kind # "base", NEW matched \in BOOLEAN
        PROVE  Goes({}, Diagnostic(kind, matched, h), {})
    <3>1. /\ Goes({}, Staged(kind, "min_cache", h), {}) /\ Goes({}, Diagnosed(kind, matched, h), {})
      BY <2>1, StagedGoes, DiagnosedGoes
    <3> QED BY <3>1, GoesOn DEF Diagnostic
  <2> QED BY <2>1
<1>3. Goes({}, c, {r}) /\ Goes({r}, x, {r}) /\ Goes({r}, y, {r})
  <2>1. {} \cup {r} = {r}
    OBVIOUS
  <2>2. Goes({}, c, {r}) /\ r # Base(r)
    BY <2>1, ConfigureGoes
  <2> QED BY <2>2, CacheGoes, TrainedGoes
<1>4. Goes({r}, z, {})
  <2>1. Goes({r}, z, {r})
    BY DiagnosedGoes
  <2> QED BY <2>1, GoesForLess
<1>5. PhDiagnostics = p \o u \o v \o w \o c \o x \o y \o z
  BY DEF PhDiagnostics
<1> HIDE DEF p, u, v, w, c, x, y, z, r
<1> QED BY <1>1, <1>2, <1>3, <1>4, <1>5, GoesOn

\* No script configures a baseline; every other run is taught by that of its
\* seed, and configured before it is trained or its cache is mined.
LEMMA ScriptsInOrder ==
    ASSUME NEW s \in Scripts
    PROVE  LET p == Program[s] IN
           /\ Len(p) \in Nat \ {0} /\ DOMAIN p = 1..Len(p)
           /\ \A i \in DOMAIN p :
                 /\ p[i].op = "configure" => /\ p[i].run # Base(p[i].run)
                                             /\ p[i].teacher = Base(p[i].run)
                 /\ p[i].op = "cache" => p[i].run # Base(p[i].run)
                 /\ p[i].op \in {"train", "cache"} => Prepared(p, i)
<1> DEFINE p == Program[s]
<1>1. s \in DOMAIN Program
  BY CampaignsAssumption DEF Scripts
<1>2. Goes({}, p, {})
  BY <1>1, CslGo, PhGo, CorrectiveGoes, LowerLrGoes, LocalGoes, RampGoes, BalancedGoes,
     DiagnosticsGo DEF Program
<1> HIDE DEF p
<1>3. /\ Len(p) \in Nat \ {0} /\ DOMAIN p = 1..Len(p) /\ InOrder(p, {})
  <2>1. PICK S : p \in Seq(S)
    BY <1>2 DEF Goes, Listed
  <2> QED BY <1>2, <2>1 DEF Goes, Listed
<1>4. ASSUME NEW i \in DOMAIN p, p[i].op \in {"train", "cache"} PROVE Prepared(p, i)
  <2>1. p[i].run = Base(p[i].run) \/ p[i].run \in Makes(p, i - 1)
    BY <1>3, <1>4 DEF InOrder
  <2> QED BY <2>1 DEF Prepared, Makes
<1> QED BY <1>3, <1>4 DEF InOrder, p

-----------------------------------------------------------------------------
(* What lasts. *)

\* A checkpoint that was selected stays what it is, a configuration is changed
\* to the baseline as it is, and a run that was begun stays begun.
Kept(r) ==
    Selected(r) => /\ Selected(r)'
                   /\ dir'[r].ckpt = dir[r].ckpt /\ dir'[r].config = dir[r].config
Reconfigured(r) ==
    /\ conf'[r] # Missing /\ Selected(Base(r)) /\ conf'[r].teacher = dir[Base(r)].ckpt
Retrained(r) ==
    /\ dir'[r] # Missing
    /\ dir'[r].config = dir[r].config \/ (r # Base(r) => Current(r) /\ dir'[r].config = conf[r])
Lasts ==
    /\ \A r \in Runs : Kept(r)
    /\ \A r \in Runs : conf'[r] = conf[r] \/ Reconfigured(r)
    /\ \A r \in Runs : dir[r] # Missing => Retrained(r)

LEMMA BasesRun == \A r \in Runs : Base(r) \in Runs /\ Base(Base(r)) = Base(r)
  BY CampaignsAssumption DEF Base

LEMMA CurrentLasts ==
    ASSUME Lasts, NEW r \in Runs, Current(r)
    PROVE  Current(r)'
<1>1. Selected(Base(r)) /\ Kept(Base(r))
  BY BasesRun DEF Lasts, Current
<1>2. Selected(Base(r))' /\ dir'[Base(r)].ckpt = dir[Base(r)].ckpt
  BY <1>1 DEF Kept
<1>3. conf'[r] = conf[r] \/ Reconfigured(r)
  BY DEF Lasts
<1> QED BY <1>2, <1>3 DEF Current, Reconfigured

LEMMA BegunLasts ==
    ASSUME Lasts, NEW r \in Runs, r # Base(r), Begun(r)
    PROVE  Begun(r)'
<1>1. Selected(Base(r)) /\ Kept(Base(r))
  BY BasesRun DEF Lasts, Begun
<1>2. Selected(Base(r))' /\ dir'[Base(r)].ckpt = dir[Base(r)].ckpt
  BY <1>1 DEF Kept
<1>3. Retrained(r)
  BY DEF Lasts, Begun
<1> QED BY <1>2, <1>3 DEF Begun, Retrained, Current

LEMMA AnchoredLasts ==
    ASSUME Lasts, NEW r \in Runs, r # Base(r), Anchored(r)
    PROVE  Anchored(r)'
<1>1. Kept(r)
  BY DEF Lasts
<1>2. Begun(r)'
  BY BegunLasts DEF Anchored
<1> QED BY <1>1, <1>2 DEF Anchored, Kept

LEMMA Commanded ==
    ASSUME NEW s \in Scripts, NEW i \in DOMAIN Program[s]
    PROVE  Program[s][i] \in Commands
  BY DEF Commands, ToSet

LEMMA RunsOf ==
    ASSUME NEW c \in Commands
    PROVE  /\ c.op \in {"train", "validate", "configure", "cache"} => c.run \in Runs
           /\ c.op = "configure" => c.student \in Runs
  BY CampaignsAssumption DEF Runs

LEMMA AchievedLasts ==
    ASSUME Lasts, NEW c \in Commands, Achieved(c)
    PROVE  Achieved(c)'
<1>1. ASSUME c.op = "configure" PROVE Current(c.run)'
  BY <1>1, RunsOf, CurrentLasts DEF Achieved
<1>2. ASSUME c.op = "train", c.run # Base(c.run) PROVE Anchored(c.run)'
  BY <1>2, RunsOf, AnchoredLasts DEF Achieved
<1> QED BY <1>1, <1>2 DEF Achieved

LEMMA TrainingLasts ==
    ASSUME Lasts, NEW c \in Commands, InTraining(c)
    PROVE  InTraining(c)'
<1>1. c.run \in Runs
  BY RunsOf DEF InTraining
<1>2. dir'[c.run] # Missing
  BY <1>1 DEF InTraining, Lasts, Retrained
<1>3. ASSUME c.run # Base(c.run) PROVE Begun(c.run)'
  BY <1>1, <1>3, BegunLasts DEF InTraining
<1> QED BY <1>2, <1>3 DEF InTraining

-----------------------------------------------------------------------------
(* How a script goes on: it ends, stays with its command, has done it and goes *)
(* to the next, or is launched.  The other scripts stay where they are.        *)

Lingers(s) ==
    /\ stage[s] # "off" /\ at'[s] = at[s]
    /\ \/ stage'[s] \in {"ready", "polling"}
       \/ stage'[s] = "mining" /\ Program[s][at[s]].op = "cache"
       \/ /\ stage'[s] \in {"training", "closing"}
          /\ \A c \in Commands : c = Program[s][at[s]] => InTraining(c)'
Proceeds(s) ==
    /\ stage[s] # "off" /\ stage'[s] = "ready"
    /\ at'[s] = at[s] + 1 /\ at'[s] \in DOMAIN Program[s]
    /\ \A c \in Commands : c = Program[s][at[s]] => Achieved(c)'
Begins(s) ==
    /\ stage'[s] = "ready" /\ at'[s] = 1 /\ s \in campaign.scripts
Walks(s) ==
    /\ \A t \in Scripts \ {s} : at'[t] = at[t] /\ stage'[t] = stage[t]
    /\ stage'[s] = "off" \/ Lingers(s) \/ Proceeds(s) \/ Begins(s)

LEMMA StillFollowed ==
    ASSUME Lasts, campaign' = campaign, NEW s \in Scripts,
           at'[s] = at[s], stage'[s] = stage[s], stage[s] # "off", Followed(s)
    PROVE  Followed(s)'
<1>1. s \in campaign'.scripts /\ at'[s] \in DOMAIN Program[s]
  BY DEF Followed
<1>2. ASSUME NEW j \in 1..(at[s] - 1) PROVE Achieved(Program[s][j])'
  <2>1. Achieved(Program[s][j])
    BY DEF Followed
  <2>2. Program[s][j] \in Commands
    <3>1. j \in DOMAIN Program[s]
      BY ScriptsInOrder DEF Followed
    <3> QED BY <3>1, Commanded
  <2> QED BY <2>1, <2>2, AchievedLasts
<1>3. ASSUME stage[s] \in {"training", "closing"} PROVE InTraining(Program[s][at[s]])'
  <2>1. InTraining(Program[s][at[s]]) /\ Program[s][at[s]] \in Commands
    BY <1>3, Commanded DEF Followed
  <2> DEFINE c == Program[s][at[s]]
  <2>2. PICK d \in Commands : d = c
    BY <2>1
  <2>3. InTraining(d)'
    BY <2>1, <2>2, TrainingLasts
  <2> QED BY <2>2, <2>3
<1>4. stage[s] = "mining" => Program[s][at[s]].op = "cache"
  BY DEF Followed
<1> QED BY <1>1, <1>2, <1>3, <1>4 DEF Followed

LEMMA WalkFollowed ==
    ASSUME Lasts, campaign' = campaign, Following, NEW s \in Scripts, Walks(s)
    PROVE  Following'
<1>1. ASSUME NEW t \in Scripts, t # s, stage'[t] # "off" PROVE Followed(t)'
  BY <1>1, StillFollowed DEF Walks, Following
<1>2. ASSUME Lingers(s) PROVE Followed(s)'
  <2>1. Followed(s)
    BY <1>2 DEF Lingers, Following
  <2>2. s \in campaign'.scripts /\ at'[s] \in DOMAIN Program[s]
    BY <1>2, <2>1 DEF Lingers, Followed
  <2>3. ASSUME NEW j \in 1..(at[s] - 1) PROVE Achieved(Program[s][j])'
    <3>1. j \in DOMAIN Program[s]
      BY <2>1, ScriptsInOrder DEF Followed
    <3>2. Achieved(Program[s][j]) /\ Program[s][j] \in Commands
      BY <2>1, <3>1, Commanded DEF Followed
    <3> QED BY <3>2, AchievedLasts
  <2>4. PICK c \in Commands : c = Program[s][at[s]]
    BY <2>1, Commanded DEF Followed
  <2>5. stage'[s] \in {"training", "closing"} => InTraining(c)'
    BY <1>2, <2>4 DEF Lingers
  <2>6. stage'[s] = "mining" => Program[s][at[s]].op = "cache"
    BY <1>2 DEF Lingers
  <2> QED BY <1>2, <2>2, <2>3, <2>4, <2>5, <2>6 DEF Followed, Lingers
<1>3. ASSUME Proceeds(s) PROVE Followed(s)'
  <2>1. Followed(s)
    BY <1>3 DEF Proceeds, Following
  <2>2. PICK c \in Commands : c = Program[s][at[s]]
    BY <2>1, Commanded DEF Followed
  <2>3. Achieved(c)'
    BY <1>3, <2>2 DEF Proceeds
  <2>4. ASSUME NEW j \in 1..(at'[s] - 1) PROVE Achieved(Program[s][j])'
    <3>1. at[s] \in 1..Len(Program[s]) /\ Len(Program[s]) \in Nat
      BY <2>1, ScriptsInOrder DEF Followed
    <3>2. CASE j = at[s]
      BY <2>2, <2>3, <3>2
    <3>3. CASE j # at[s]
      <4>1. j \in 1..(at[s] - 1) /\ j \in DOMAIN Program[s]
        BY <1>3, <3>1, <3>3, ScriptsInOrder DEF Proceeds
      <4>2. Achieved(Program[s][j]) /\ Program[s][j] \in Commands
        BY <2>1, <4>1, Commanded DEF Followed
      <4> QED BY <4>2, AchievedLasts
    <3> QED BY <3>2, <3>3
  <2>5. s \in campaign'.scripts /\ at'[s] \in DOMAIN Program[s] /\ stage'[s] = "ready"
    BY <1>3, <2>1 DEF Proceeds, Followed
  <2> QED BY <2>4, <2>5 DEF Followed
<1>4. ASSUME Begins(s) PROVE Followed(s)'
  <2>1. 1 \in DOMAIN Program[s]
    BY ScriptsInOrder
  <2>2. s \in campaign'.scripts /\ at'[s] = 1 /\ stage'[s] = "ready"
    BY <1>4 DEF Begins
  <2> QED BY <2>1, <2>2 DEF Followed
<1> QED BY <1>1, <1>2, <1>3, <1>4 DEF Following, Walks

\* A script that trains a run, or mines its cache, has configured it.
LEMMA Configured ==
    ASSUME NEW s \in Scripts, Followed(s), Program[s][at[s]].op \in {"train", "cache"},
           Program[s][at[s]].run # Base(Program[s][at[s]].run)
    PROVE  Current(Program[s][at[s]].run)
<1>1. at[s] \in DOMAIN Program[s] /\ DOMAIN Program[s] = 1..Len(Program[s])
  BY ScriptsInOrder DEF Followed
<1>2. Prepared(Program[s], at[s])
  BY <1>1, ScriptsInOrder
<1>3. PICK j \in 1..(at[s] - 1) : /\ Program[s][j].op = "configure"
                                  /\ Program[s][j].run = Program[s][at[s]].run
  BY <1>2 DEF Prepared
<1>4. Achieved(Program[s][j])
  BY <1>3 DEF Followed
<1> QED BY <1>3, <1>4 DEF Achieved

-----------------------------------------------------------------------------
(* The commands that leave the runs, configurations, caches and reports.     *)

ControlTyped == at \in [Scripts -> Nat] /\ stage \in [Scripts -> Stages]

LEMMA Advances ==
    ASSUME Typed, NEW s \in Scripts, stage[s] # "off", Followed(s), Advance(s),
           \A c \in Commands : c = Program[s][at[s]] => Achieved(c)'
    PROVE  ControlTyped' /\ Walks(s)
<1>1. at[s] \in 1..Len(Program[s]) /\ Len(Program[s]) \in Nat
  BY ScriptsInOrder DEF Followed
<1>2. CASE at[s] = Len(Program[s])
  BY <1>2 DEF Advance, Finish, Typed, ControlTyped, Walks, Stages
<1>3. CASE at[s] # Len(Program[s])
  <2>1. /\ at' = [at EXCEPT ![s] = @ + 1] /\ stage' = [stage EXCEPT ![s] = "ready"]
    BY <1>3 DEF Advance
  <2>2. at[s] + 1 \in DOMAIN Program[s]
    BY <1>1, <1>3, ScriptsInOrder
  <2>3. ControlTyped'
    BY <2>1 DEF Typed, ControlTyped, Stages
  <2>4. Proceeds(s)
    BY <2>1, <2>2 DEF Typed, Proceeds
  <2> QED BY <2>1, <2>3, <2>4 DEF Walks, Typed
<1> QED BY <1>2, <1>3

LEMMA Exits ==
    ASSUME Typed, NEW s \in Scripts, Exit(s) \/ Finish(s)
    PROVE  ControlTyped' /\ Walks(s)
  BY DEF Exit, Finish, Typed, ControlTyped, Walks, Stages

LEMMA Turns ==
    ASSUME Typed, NEW s \in Scripts, stage[s] # "off", NEW t \in {"ready", "polling"},
           Goto(s, t)
    PROVE  ControlTyped' /\ Walks(s)
  BY DEF Goto, Typed, ControlTyped, Walks, Lingers, Stages

\* A command that neither configures nor trains has nothing to achieve.
LEMMA PlainWalks ==
    ASSUME Typed, Following, NEW s \in Scripts, stage[s] # "off",
           Cmd(s).op \notin {"configure", "train"},
           \/ Advance(s) \/ Exit(s) \/ Finish(s)
           \/ Goto(s, "ready") \/ Goto(s, "polling")
    PROVE  ControlTyped' /\ Walks(s)
<1>1. Followed(s)
  BY DEF Following
<1>2. \A c \in Commands : c = Program[s][at[s]] => Achieved(c)'
  BY DEF Cmd, Achieved
<1> QED BY <1>1, <1>2, Advances, Exits, Turns

Idle == UNCHANGED <<dir, conf, cache, report, campaign, hand, head, removals>>

Waiting(s) ==
    \/ AwaitGate(s) \/ PollScript(s) \/ AwaitExtraction(s) \/ PollExtraction(s)
    \/ AwaitTrainer(s) \/ PollTrainer(s)
Judging(s) ==
    \/ WriteVerdict(s) \/ FailVerdict(s) \/ JudgeFullGate(s) \/ RequireVerdict(s)
    \/ OnlyOnVerdict(s) \/ WriteCross(s) \/ AgreeOnVerdicts(s)

LEMMA WaitingIdle ==
    ASSUME Typed, Following, NEW s \in Scripts, Waiting(s)
    PROVE  Idle /\ ControlTyped' /\ Walks(s)
<1>1. Idle
  BY DEF Waiting, AwaitGate, PollScript, AwaitExtraction, PollExtraction, AwaitTrainer,
         PollTrainer, Idle, files, world
<1>2. stage[s] # "off" /\ Cmd(s).op \notin {"configure", "train"}
  BY DEF Waiting, AwaitGate, PollScript, AwaitExtraction, PollExtraction, AwaitTrainer,
         PollTrainer, At
<1>3. Advance(s) \/ Exit(s) \/ Goto(s, "ready") \/ Goto(s, "polling")
  BY DEF Waiting, AwaitGate, PollScript, AwaitExtraction, PollExtraction, AwaitTrainer,
         PollTrainer
<1> QED BY <1>1, <1>2, <1>3, PlainWalks

LEMMA JudgingIdle ==
    ASSUME Typed, Following, NEW s \in Scripts, Judging(s)
    PROVE  Idle /\ ControlTyped' /\ Walks(s)
<1>1. Idle
  BY DEF Judging, WriteVerdict, FailVerdict, JudgeFullGate, RequireVerdict, OnlyOnVerdict,
         WriteCross, AgreeOnVerdicts, Check, Idle, files, world
<1>2. stage[s] # "off" /\ Cmd(s).op \notin {"configure", "train"}
  BY DEF Judging, WriteVerdict, FailVerdict, JudgeFullGate, RequireVerdict, OnlyOnVerdict,
         WriteCross, AgreeOnVerdicts, At
<1>3. Advance(s) \/ Exit(s) \/ Finish(s)
  BY DEF Judging, WriteVerdict, FailVerdict, JudgeFullGate, RequireVerdict, OnlyOnVerdict,
         WriteCross, AgreeOnVerdicts, Check
<1> QED BY <1>1, <1>2, <1>3, PlainWalks

Looking(s) ==
    \/ ValidateRun(s) \/ RefuseTraining(s) \/ EvaluateRun(s)
    \/ ReuseCache(s) \/ RefuseReport(s)

LEMMA LookingIdle ==
    ASSUME Typed, Following, NEW s \in Scripts, Looking(s)
    PROVE  Idle /\ ControlTyped' /\ Walks(s)
<1>1. Idle
  BY DEF Looking, ValidateRun, RefuseTraining, EvaluateRun, ReuseCache, RefuseReport, Check,
         Idle, files, world
<1>2. CASE RefuseTraining(s)
  BY <1>1, <1>2, Exits DEF RefuseTraining, Check
<1>3. CASE ~RefuseTraining(s)
  <2>1. stage[s] # "off" /\ Cmd(s).op \notin {"configure", "train"}
    BY <1>3 DEF Looking, ValidateRun, EvaluateRun, ReuseCache, RefuseReport, At
  <2>2. Advance(s) \/ Exit(s)
    BY <1>3 DEF Looking, ValidateRun, EvaluateRun, ReuseCache, RefuseReport, Check
  <2> QED BY <1>1, <2>1, <2>2, PlainWalks
<1> QED BY <1>2, <1>3

LEMMA MiningIdle ==
    ASSUME Typed, Following, NEW s \in Scripts, StartMining(s)
    PROVE  Idle /\ ControlTyped' /\ Walks(s)
<1>1. Idle /\ Goto(s, "mining") /\ stage[s] = "ready" /\ Program[s][at[s]].op = "cache"
  BY DEF StartMining, At, Cmd, Idle, files, world
<1> QED BY <1>1 DEF Goto, Typed, ControlTyped, Walks, Lingers, Stages

\* A run that is valid has the configuration the script has made of it.
LEMMA SkippingIdle ==
    ASSUME Typed, Following, NEW s \in Scripts, SkipTraining(s)
    PROVE  Idle /\ ControlTyped' /\ Walks(s)
<1>1. Idle /\ stage[s] = "ready" /\ Cmd(s).op = "train" /\ Valid(Cmd(s).run) /\ Advance(s)
  BY DEF SkipTraining, Check, At, Idle, files, world
<1>2. Followed(s)
  BY <1>1 DEF Following
<1>3. ASSUME NEW c \in Commands, c = Program[s][at[s]] PROVE Achieved(c)'
  <2>1. c.op = "train" /\ Valid(c.run)
    BY <1>1, <1>3 DEF Cmd
  <2>2. ASSUME c.run # Base(c.run) PROVE Anchored(c.run)
    <3>1. Current(c.run)
      BY <1>2, <1>3, <2>1, <2>2, Configured
    <3> QED BY <2>1, <3>1 DEF Valid, Finished, Selected, Current, Anchored, Begun
  <2>3. dir' = dir
    BY <1>1 DEF Idle
  <2>4. ASSUME c.run # Base(c.run) PROVE Anchored(c.run)'
    BY <2>2, <2>3, <2>4 DEF Anchored, Begun, Selected
  <2> QED BY <2>1, <2>4 DEF Achieved
<1> QED BY <1>1, <1>2, <1>3, Advances

-----------------------------------------------------------------------------
(* The steps that change runs, configurations and caches.                    *)

FileInv == FilesTyped /\ Numbered /\ Baselines /\ Taught

LEMMA IdleLasts ==
    ASSUME dir' = dir, conf' = conf
    PROVE  Lasts
  BY DEF Lasts, Kept, Selected, Retrained

LEMMA IdleFiles ==
    ASSUME FileInv, dir' = dir, conf' = conf, cache' = cache, DOMAIN report' = DOMAIN report,
           removals' = removals
    PROVE  FileInv'
<1>1. FilesTyped'
  BY DEF FileInv, FilesTyped
<1>2. Numbered' /\ Baselines' /\ Taught'
  BY DEF FileInv, Numbered, Baselines, Taught
<1> QED BY <1>1, <1>2 DEF FileInv

LEMMA ReportsStay ==
    ASSUME Comparable, report' = report, campaign' = campaign,
           removals' = removals \/ removals' # 0
    PROVE  Comparable'
<1> SUFFICES ASSUME NEW f \in Files, report[f] # Missing, NEW i \in DOMAIN f[3]
             PROVE  LET b == report[f].runs.base[i]
                        m == report[f].runs.method[i]
                    IN /\ \A x \in {b, m} : x.cache # Missing => x.cache.teacher = x.teacher
                       /\ removals' = 0 \/ Vouched(f)' => Root(b) = Root(m)
  BY DEF Comparable
<1> DEFINE b == report[f].runs.base[i]
           m == report[f].runs.method[i]
<1>1. /\ \A x \in {b, m} : x.cache # Missing => x.cache.teacher = x.teacher
      /\ removals = 0 \/ Vouched(f) => Root(b) = Root(m)
  BY DEF Comparable
<1>2. Vouched(f)' <=> Vouched(f)
  BY DEF Vouched
<1> HIDE DEF b, m
<1>3. removals' = 0 \/ Vouched(f)' => Root(b) = Root(m)
  BY <1>1, <1>2
<1> QED BY <1>1, <1>3 DEF b, m

\* A run with a new record of the configuration as it is.
LEMMA RunStarts ==
    ASSUME FileInv, removals \in Nat, NEW r \in Runs, ~Selected(r),
           r # Base(r) => Current(r),
           NEW d \in Trainings, dir' = [dir EXCEPT ![r] = d],
           conf[r] # Missing, d.config = conf[r], d.ckpt \in 1..(removals + 1),
           d.cache # Missing => d.cache.teacher = conf[r].teacher,
           UNCHANGED <<conf, cache, report, removals>>
    PROVE  /\ FileInv' /\ Lasts /\ dir'[r] # Missing
           /\ r # Base(r) => Begun(r)'
<1>1. /\ dir'[r] = d /\ dir'[r] # Missing
      /\ \A q \in Runs : q # r => dir'[q] = dir[q]
  BY MissingAssumption DEF FileInv, FilesTyped
<1>2. FilesTyped'
  BY DEF FileInv, FilesTyped
<1>3. Numbered'
  <2>1. conf[r].teacher \in 0..(removals + 1)
    BY DEF FileInv, Numbered
  <2> QED BY <1>1, <2>1 DEF FileInv, Numbered
<1>4. Baselines'
  BY <1>1 DEF FileInv, Baselines
<1>5. Taught'
  BY <1>1 DEF FileInv, Taught
<1>6. Lasts
  <2>1. ASSUME NEW q \in Runs PROVE Kept(q)
    BY <1>1 DEF Kept, Selected
  <2>2. ASSUME NEW q \in Runs, dir[q] # Missing PROVE Retrained(q)
    BY <1>1, <2>2 DEF Retrained
  <2> QED BY <2>1, <2>2 DEF Lasts
<1>7. ASSUME r # Base(r) PROVE Begun(r)'
  <2>1. Base(r) \in Runs /\ Base(r) # r /\ Current(r)
    BY <1>7, BasesRun
  <2>2. dir'[Base(r)] = dir[Base(r)]
    BY <1>1, <2>1
  <2> QED BY <1>1, <2>1, <2>2 DEF Begun, Current, Selected
<1> QED BY <1>1, <1>2, <1>3, <1>4, <1>5, <1>6, <1>7 DEF FileInv

\* A run goes on to another state.
LEMMA RunGoesOn ==
    ASSUME FileInv, NEW r \in Runs, dir[r] # Missing,
           NEW t \in {"partial", "selected", "complete"}, State(r, t),
           Selected(r) => t # "partial",
           UNCHANGED <<conf, cache, report, removals>>
    PROVE  FileInv' /\ Lasts /\ dir'[r] # Missing /\ dir'[r].state = t
<1>1. dir[r] \in Trainings
  BY DEF FileInv, FilesTyped
<1>2. /\ dir'[r] \in Trainings /\ dir'[r].state = t
      /\ dir'[r].config = dir[r].config /\ dir'[r].ckpt = dir[r].ckpt
      /\ dir'[r].cache = dir[r].cache
      /\ \A q \in Runs : q # r => dir'[q] = dir[q]
  BY <1>1 DEF State, FileInv, FilesTyped, Trainings
<1>3. dir'[r] # Missing
  BY <1>2, MissingAssumption
<1>4. FilesTyped'
  BY <1>2 DEF FileInv, FilesTyped, State
<1>5. Numbered' /\ Baselines' /\ Taught'
  BY <1>2 DEF FileInv, Numbered, Baselines, Taught
<1>6. Lasts
  <2>1. ASSUME NEW q \in Runs PROVE Kept(q)
    BY <1>2, <1>3 DEF Kept, Selected
  <2>2. ASSUME NEW q \in Runs, dir[q] # Missing PROVE Retrained(q)
    BY <1>2, <1>3, <2>2 DEF Retrained
  <2> QED BY <2>1, <2>2 DEF Lasts
<1> QED BY <1>2, <1>3, <1>4, <1>5, <1>6 DEF FileInv

LEMMA CachesOf ==
    ASSUME FileInv, NEW r \in Runs, conf[r] # Missing, Teachable(r),
           r # Base(r) => Current(r)
    PROVE  /\ CacheOf(r) \in Mines \cup {Missing}
           /\ CacheOf(r) # Missing => CacheOf(r).teacher = conf[r].teacher
<1>1. CASE conf[r].cache[1] = ""
  BY <1>1 DEF CacheOf
<1>2. CASE conf[r].cache[1] # ""
  <2>1. conf[r] \in Configs /\ conf[r].cache \in Names
    BY DEF FileInv, FilesTyped, Configs
  <2> DEFINE none == <<"", 0>>
  <2>5. none[1] = ""
    OBVIOUS
  <2>6. BaseConfig.cache = none
    BY DEF BaseConfig
  <2> HIDE DEF none
  <2>2. r # Base(r)
    BY <1>2, <2>5, <2>6 DEF FileInv, Baselines
  <2>3. conf[r].cache \in Caches
    BY <1>2, <2>1, <2>5, <2>6 DEF Names, Caches
  <2>4. /\ cache[conf[r].cache] \in Mines
        /\ cache[conf[r].cache].teacher = dir[Base(r)].ckpt
    BY <1>2, <2>3 DEF Teachable, FileInv, FilesTyped
  <2> QED BY <1>2, <2>2, <2>4 DEF CacheOf, Current
<1> QED BY <1>1, <1>2

-----------------------------------------------------------------------------
(* Training, as the scripts and the operator do it.                          *)

LEMMA StartTrains ==
    ASSUME Typed, FileInv, Following, NEW s \in Scripts, StartTraining(s)
    PROVE  FileInv' /\ Lasts /\ ControlTyped' /\ Walks(s)
<1>0. PICK c \in Commands : c = Program[s][at[s]]
  BY Commanded DEF StartTraining, At, Following, Followed
<1> DEFINE r == c.run
<1>1. /\ stage[s] = "ready" /\ c.op = "train" /\ Trainable(r) /\ Followed(s)
      /\ Goto(s, "training") /\ UNCHANGED <<conf, cache, report, removals>>
  BY <1>0 DEF StartTraining, At, Cmd, Following, world
<1>2. r \in Runs
  BY <1>1, RunsOf
<1>3. ~Selected(r) /\ conf[r] # Missing /\ Teachable(r)
  BY <1>1 DEF Trainable
<1>4. ASSUME r # Base(r) PROVE Current(r)
  BY <1>0, <1>1, <1>4, Configured
<1>5. /\ CacheOf(r) \in Mines \cup {Missing}
      /\ CacheOf(r) # Missing => CacheOf(r).teacher = conf[r].teacher
  BY <1>2, <1>3, <1>4, CachesOf
<1> DEFINE d == IF Empty(r)
                   THEN [state |-> "fresh", config |-> conf[r], ckpt |-> removals + 1,
                         source |-> head, sources |-> {head}, cache |-> CacheOf(r)]
                   ELSE [Relaunched(r) EXCEPT !.cache = CacheOf(r)]
<1>6. dir' = [dir EXCEPT ![r] = d]
  BY <1>0 DEF StartTraining, Cmd
<1>7. /\ d \in Trainings /\ d.config = conf[r] /\ d.ckpt \in 1..(removals + 1)
      /\ d.cache = CacheOf(r)
  <2>1. removals \in Nat /\ head \in Nat /\ conf[r] \in Configs
    BY <1>2, <1>3 DEF Typed, FileInv, FilesTyped
  <2>2. CASE Empty(r)
    BY <1>5, <2>1, <2>2 DEF Trainings
  <2>3. CASE ~Empty(r)
    <3>1. /\ dir[r] \in Trainings /\ dir[r].config = conf[r]
          /\ dir[r].ckpt \in 1..(removals + 1)
      BY <1>1, <1>2, <2>3 DEF Empty, Trainable, FileInv, FilesTyped, Numbered
    <3> HIDE DEF r
    <3> QED BY <1>5, <2>1, <2>3, <3>1 DEF Trainings, Relaunched
  <2> QED BY <2>2, <2>3
<1> HIDE DEF d
<1>8. /\ FileInv' /\ Lasts /\ dir'[r] # Missing
      /\ r # Base(r) => Begun(r)'
  <2> HIDE DEF r
  <2>1. removals \in Nat
    BY DEF Typed
  <2>2. d.cache # Missing => d.cache.teacher = conf[r].teacher
    BY <1>5, <1>7
  <2> QED BY <1>1, <1>2, <1>3, <1>4, <1>6, <1>7, <2>1, <2>2, RunStarts
<1>9. ASSUME NEW e \in Commands, e = Program[s][at[s]] PROVE InTraining(e)'
  <2>1. e.run = r /\ e.op = "train"
    BY <1>0, <1>1, <1>9
  <2> HIDE DEF r
  <2> QED BY <1>8, <2>1 DEF InTraining
<1>10. Lingers(s) /\ ControlTyped'
  BY <1>1, <1>9 DEF Lingers, Goto, ControlTyped, Typed, Stages
<1> QED BY <1>1, <1>8, <1>10 DEF Walks, Goto, Typed

LEMMA SaveTrains ==
    ASSUME Typed, FileInv, Following, NEW s \in Scripts, SaveLast(s) \/ WriteSelection(s)
    PROVE  FileInv' /\ Lasts /\ ControlTyped' /\ Walks(s)
<1> DEFINE c == Program[s][at[s]]
           r == c.run
           t == IF SaveLast(s) THEN "partial" ELSE "selected"
<1>1. /\ stage[s] = "training" /\ Followed(s) /\ State(r, t)
      /\ dir[r].state \in {"fresh", "partial"}
      /\ UNCHANGED <<conf, cache, report, removals>>
  BY DEF SaveLast, WriteSelection, Cmd, Following, world
<1>2. c \in Commands /\ r \in Runs /\ InTraining(c) /\ c.op = "train" /\ dir[r] # Missing
  BY <1>1, Commanded, RunsOf DEF Followed, InTraining
<1>3. t \in {"partial", "selected", "complete"} /\ (Selected(r) => t # "partial")
  BY <1>1 DEF Selected
<1>4. FileInv' /\ Lasts
  <2> HIDE DEF r, t
  <2> QED BY <1>1, <1>2, <1>3, RunGoesOn
<1>5. ASSUME NEW e \in Commands, e = Program[s][at[s]] PROVE InTraining(e)'
  BY <1>2, <1>4, <1>5, TrainingLasts
<1>6. CASE SaveLast(s)
  <2>1. at' = at /\ stage' = stage
    BY <1>6 DEF SaveLast, control
  <2> QED BY <1>1, <1>4, <1>5, <2>1 DEF Walks, Lingers, ControlTyped, Typed
<1>7. CASE WriteSelection(s)
  <2>1. Goto(s, "closing")
    BY <1>7 DEF WriteSelection
  <2> QED BY <1>1, <1>4, <1>5, <2>1 DEF Walks, Lingers, ControlTyped, Typed, Goto, Stages
<1> QED BY <1>6, <1>7

LEMMA SummaryTrains ==
    ASSUME Typed, FileInv, Following, NEW s \in Scripts, WriteSummary(s)
    PROVE  FileInv' /\ Lasts /\ ControlTyped' /\ Walks(s)
<1> DEFINE c == Program[s][at[s]]
           r == c.run
<1>1. /\ stage[s] = "closing" /\ Followed(s) /\ State(r, "complete") /\ Advance(s)
      /\ UNCHANGED <<conf, cache, report, removals>>
  BY DEF WriteSummary, Cmd, Following, world
<1>2. c \in Commands /\ r \in Runs /\ InTraining(c) /\ c.op = "train" /\ dir[r] # Missing
  BY <1>1, Commanded, RunsOf DEF Followed, InTraining
<1>3. FileInv' /\ Lasts /\ dir'[r] # Missing /\ dir'[r].state = "complete"
  <2> HIDE DEF r
  <2> QED BY <1>1, <1>2, RunGoesOn
<1>4. ASSUME NEW e \in Commands, e = Program[s][at[s]] PROVE Achieved(e)'
  <2>1. ASSUME e.run # Base(e.run) PROVE Anchored(e.run)'
    <3>1. Begun(e.run)'
      BY <1>2, <1>3, <1>4, <2>1, BegunLasts DEF InTraining
    <3> QED BY <1>3, <1>4, <3>1 DEF Anchored, Selected
  <2> QED BY <1>2, <1>4, <2>1 DEF Achieved
<1> QED BY <1>1, <1>3, <1>4, Advances

LEMMA HandStarts ==
    ASSUME Typed, FileInv, HandStart
    PROVE  FileInv' /\ Lasts /\ HandRun \in Runs /\ dir'[HandRun] # Missing
<1> DEFINE r == HandRun
<1>1. r \in Runs /\ r = Base(r)
  BY CampaignsAssumption DEF HandStart, HandRun, Base
<1>2. ~Selected(r) /\ conf[r] # Missing /\ Trainable(r)
  BY DEF HandStart, Trainable
<1> DEFINE d == IF Empty(r)
                   THEN [state |-> "partial", config |-> conf[r], ckpt |-> removals + 1,
                         source |-> head, sources |-> {head}, cache |-> Missing]
                   ELSE Relaunched(r)
<1>3. dir' = [dir EXCEPT ![r] = d] /\ UNCHANGED <<conf, cache, report, removals>>
  BY DEF HandStart
<1>4. /\ d \in Trainings /\ d.config = conf[r] /\ d.ckpt \in 1..(removals + 1)
      /\ d.cache # Missing => d.cache.teacher = conf[r].teacher
  <2>1. removals \in Nat /\ head \in Nat /\ conf[r] \in Configs
    BY <1>1, <1>2 DEF Typed, FileInv, FilesTyped
  <2>2. CASE Empty(r)
    BY <2>1, <2>2 DEF Trainings
  <2>3. CASE ~Empty(r)
    <3>1. /\ dir[r] \in Trainings /\ dir[r].config = conf[r]
          /\ dir[r].ckpt \in 1..(removals + 1)
          /\ dir[r].cache # Missing => dir[r].cache.teacher = conf[r].teacher
      BY <1>1, <1>2, <2>3
      DEF Empty, Trainable, FileInv, FilesTyped, Numbered, Taught
    <3> HIDE DEF r
    <3> QED BY <2>1, <2>3, <3>1 DEF Trainings, Relaunched
  <2> QED BY <2>2, <2>3
<1> HIDE DEF d, r
<1>5. FileInv' /\ Lasts /\ dir'[r] # Missing
  BY <1>1, <1>2, <1>3, <1>4, RunStarts DEF Typed
<1> QED BY <1>1, <1>5 DEF r

LEMMA HandGoesOn ==
    ASSUME Typed, FileInv, HandBusy, HandStep
    PROVE  FileInv' /\ Lasts /\ HandBusy'
<1>1. UNCHANGED <<conf, cache, report, removals>> /\ hand # "off"
  BY DEF HandStep, HandEnd, HandDies
<1>2. HandRun \in Runs /\ dir[HandRun] # Missing
  BY <1>1 DEF HandBusy
<1>3. CASE UNCHANGED dir
  BY <1>1, <1>2, <1>3, IdleFiles, IdleLasts DEF HandBusy
<1>4. CASE State(HandRun, "selected") \/ State(HandRun, "complete")
  BY <1>1, <1>2, <1>4, RunGoesOn DEF HandBusy
<1> QED BY <1>3, <1>4 DEF HandStep, HandEnd, HandDies

-----------------------------------------------------------------------------
(* Configurations, caches and comparisons.                                   *)

LEMMA ConfigureKeeps ==
    ASSUME Typed, FileInv, Following, NEW s \in Scripts, ConfigureStage(s)
    PROVE  FileInv' /\ Lasts /\ ControlTyped' /\ Walks(s)
<1>0. PICK c \in Commands : c = Program[s][at[s]]
  BY Commanded DEF ConfigureStage, At, Following, Followed
<1> DEFINE r == c.run
<1>1. /\ stage[s] = "ready" /\ c.op = "configure" /\ Followed(s)
      /\ UNCHANGED <<dir, cache, report, removals>>
  BY <1>0 DEF ConfigureStage, At, Cmd, Following, world
<1>2. r \in Runs /\ c.student \in Runs
  BY <1>1, RunsOf
<1>3. r # Base(r) /\ c.teacher = Base(r) /\ Base(r) \in Runs
  BY <1>0, <1>1, <1>2, ScriptsInOrder, BasesRun DEF Followed
<1>4. CASE ~(Selected(c.teacher) /\ Selected(c.student))
  <2>1. Exit(s) /\ conf' = conf
    BY <1>0, <1>4 DEF ConfigureStage, Cmd
  <2> QED BY <1>1, <2>1, Exits, IdleFiles, IdleLasts
<1>5. CASE Selected(c.teacher) /\ Selected(c.student)
  <2> DEFINE new == [teacher |-> dir[c.teacher].ckpt, init |-> dir[c.student].ckpt,
                     cache |-> c.cache]
  <2>1. conf' = [conf EXCEPT ![r] = new] /\ Advance(s)
    BY <1>0, <1>5 DEF ConfigureStage, Cmd
  <2>2. dir[c.teacher].ckpt \in 1..(removals + 1) /\ dir[c.student].ckpt \in 1..(removals + 1)
    BY <1>2, <1>3, <1>5 DEF FileInv, Numbered, Selected
  <2>3. new \in Configs /\ new.teacher = dir[Base(r)].ckpt /\ new # Missing
    <3>1. c.cache \in Names
      BY <1>1 DEF Names
    <3>2. removals \in Nat
      BY DEF Typed
    <3>3. new \in Configs
      BY <2>2, <3>1, <3>2 DEF Configs
    <3> QED BY <1>3, <3>3, MissingAssumption
  <2> HIDE DEF new
  <2>4. conf'[r] = new /\ \A q \in Runs : q # r => conf'[q] = conf[q]
    BY <1>2, <2>1 DEF FileInv, FilesTyped
  <2>5. FilesTyped'
    BY <1>1, <2>1, <2>3 DEF FileInv, FilesTyped
  <2>6. Numbered' /\ Baselines' /\ Taught'
    <3>1. new.teacher \in 0..(removals + 1)
      BY <1>3, <2>2, <2>3 DEF Typed
    <3>2. Numbered'
      BY <1>1, <2>4, <3>1 DEF FileInv, Numbered
    <3>3. Baselines' /\ Taught'
      BY <1>1, <1>3, <2>4 DEF FileInv, Baselines, Taught
    <3> QED BY <3>2, <3>3
  <2>7. Lasts
    <3>1. ASSUME NEW q \in Runs PROVE Kept(q) /\ (dir[q] # Missing => Retrained(q))
      BY <1>1 DEF Kept, Selected, Retrained
    <3>2. Reconfigured(r)
      BY <1>3, <1>5, <2>3, <2>4 DEF Reconfigured
    <3> QED BY <2>4, <3>1, <3>2 DEF Lasts
  <2>8. Current(r)'
    BY <1>1, <1>3, <1>5, <2>3, <2>4 DEF Current, Selected
  <2>9. \A e \in Commands : e = Program[s][at[s]] => Achieved(e)'
    BY <1>0, <1>1, <2>8 DEF Achieved
  <2> QED BY <1>1, <2>1, <2>5, <2>6, <2>7, <2>9, Advances DEF FileInv
<1> QED BY <1>4, <1>5

LEMMA CacheKeeps ==
    ASSUME Typed, FileInv, Following, NEW s \in Scripts, WriteCache(s)
    PROVE  FileInv' /\ Lasts /\ ControlTyped' /\ Walks(s)
<1>0. PICK c \in Commands : c = Program[s][at[s]]
  BY Commanded DEF WriteCache, Following, Followed
<1> DEFINE r == c.run
<1>1. /\ stage[s] = "mining" /\ c.op = "cache" /\ Followed(s) /\ Advance(s)
      /\ UNCHANGED <<dir, conf, report, removals>>
  BY <1>0 DEF WriteCache, Following, Followed, world
<1>2. r \in Runs /\ r # Base(r)
  BY <1>0, <1>1, RunsOf, ScriptsInOrder DEF Followed
<1>3. Current(r) /\ Base(r) \in Runs
  BY <1>0, <1>1, <1>2, Configured, BasesRun
<1> DEFINE new == [config |-> conf[r], teacher |-> dir[Base(r)].ckpt, made |-> removals]
<1>4. cache' = [cache EXCEPT ![conf[r].cache] = new]
  BY <1>0 DEF WriteCache, Mined, CacheAt, Cmd
<1>5. new \in Mines
  <2>1. conf[r] \in Configs
    BY <1>2, <1>3 DEF Current, FileInv, FilesTyped
  <2>2. dir[Base(r)].ckpt \in 1..(removals + 1) /\ removals \in Nat
    BY <1>3 DEF Current, Selected, FileInv, Numbered, Typed
  <2> QED BY <2>1, <2>2 DEF Mines
<1> HIDE DEF new
<1>6. FilesTyped'
  BY <1>1, <1>4, <1>5 DEF FileInv, FilesTyped
<1>7. Numbered' /\ Baselines' /\ Taught'
  BY <1>1 DEF FileInv, Numbered, Baselines, Taught
<1>8. \A e \in Commands : e = Program[s][at[s]] => Achieved(e)'
  BY <1>0, <1>1 DEF Achieved
<1> QED BY <1>1, <1>6, <1>7, <1>8, Advances, IdleLasts DEF FileInv

\* The baseline a run goes back to: the first before any removal; the present
\* one if the run is a baseline, or taught by it.
LEMMA RootsOf ==
    ASSUME Typed, FileInv, NEW r \in Runs, Selected(r)
    PROVE  /\ removals = 0 => Root(Identity(r)) = 1
           /\ r = Base(r) \/ Anchored(r) => Root(Identity(r)) = dir[Base(r)].ckpt
<1> DEFINE x == Identity(r)
<1>1. x.ckpt = dir[r].ckpt /\ x.teacher = dir[r].config.teacher
  BY DEF Identity
<1>2. /\ removals \in Nat /\ dir[r] # Missing
      /\ dir[r].ckpt \in 1..(removals + 1)
      /\ dir[r].config.teacher \in 0..(removals + 1)
  BY DEF Typed, FileInv, Numbered, Selected
<1> HIDE DEF x
<1>3. removals = 0 => Root(x) = 1
  BY <1>1, <1>2 DEF Root
<1>4. ASSUME r = Base(r) PROVE Root(x) = dir[Base(r)].ckpt
  <2>1. dir[r].config = BaseConfig
    BY <1>2, <1>4 DEF FileInv, Baselines
  <2>2. BaseConfig.teacher = 0
    BY DEF BaseConfig
  <2> QED BY <1>1, <1>4, <2>1, <2>2 DEF Root
<1>5. ASSUME Anchored(r) PROVE Root(x) = dir[Base(r)].ckpt
  <2>1. dir[r].config.teacher = dir[Base(r)].ckpt /\ dir[Base(r)] # Missing
    BY <1>5 DEF Anchored, Begun, Selected
  <2>2. dir[Base(r)].ckpt \in 1..(removals + 1)
    BY <2>1, BasesRun DEF FileInv, Numbered
  <2> QED BY <1>1, <1>2, <2>1, <2>2 DEF Root
<1> QED BY <1>3, <1>4, <1>5 DEF x

LEMMA ComparesKeeps ==
    ASSUME Typed, FileInv, Following, Comparable, NEW s \in Scripts, Compares(s)
    PROVE  FileInv' /\ Lasts /\ ControlTyped' /\ Walks(s) /\ Comparable'
<1>0. PICK c \in Commands : c = Program[s][at[s]]
  BY Commanded DEF Compares, At, Following, Followed
<1> DEFINE f == c.file
<1>1. /\ stage[s] = "ready" /\ c.op = "report" /\ Followed(s) /\ Advance(s)
      /\ \A r \in Compared(f) : Reportable(r)
      /\ UNCHANGED <<dir, conf, cache, campaign, removals>>
  BY <1>0 DEF Compares, At, Cmd, Following, world
<1>2. PICK good \in BOOLEAN :
         report' = [report EXCEPT ![f] = [runs |-> Measured(f), good |-> good]]
  BY <1>0 DEF Compares, Cmd
<1>3. f \in Files /\ Compared(f) \subseteq Runs
  BY <1>1, CampaignsAssumption DEF Files
<1>4. FileInv' /\ Lasts
  <2>1. DOMAIN report' = DOMAIN report
    BY <1>2
  <2> QED BY <1>1, <2>1, IdleFiles, IdleLasts
<1>5. ControlTyped' /\ Walks(s)
  <2>1. \A e \in Commands : e = Program[s][at[s]] => Achieved(e)'
    BY <1>0, <1>1 DEF Achieved
  <2> QED BY <1>1, <2>1, Advances
<1>6. ASSUME NEW r \in Compared(f), Vouched(f)
      PROVE  r = Base(r) \/ Anchored(r)
  <2>1. s \notin Careless[f] /\ at[s] \in DOMAIN Program[s]
    BY <1>1, <1>6 DEF Vouched, Followed
  <2>2. Vouches(s, at[s])
    BY <1>0, <1>1, <1>3, <2>1 DEF Careless
  <2>3. CASE \E j \in 1..(at[s] - 1) : Program[s][j].op = "train" /\ Program[s][j].run = r
    BY <1>1, <2>3 DEF Followed, Achieved
  <2> QED BY <1>0, <1>6, <2>2, <2>3 DEF Vouches
<1>7. ASSUME NEW r \in Compared(f)
      PROVE  /\ Identity(r).cache # Missing => Identity(r).cache.teacher = Identity(r).teacher
             /\ removals = 0 => Root(Identity(r)) = 1
             /\ Vouched(f) => Root(Identity(r)) = dir[Base(r)].ckpt
  <2>1. r \in Runs /\ Selected(r) /\ dir[r] # Missing
    BY <1>1, <1>3 DEF Reportable, Selected
  <2>2. /\ Identity(r).cache = dir[r].cache
        /\ Identity(r).teacher = dir[r].config.teacher
    BY DEF Identity
  <2>3. dir[r].cache # Missing => dir[r].cache.teacher = dir[r].config.teacher
    BY <2>1 DEF FileInv, Taught
  <2>4. /\ removals = 0 => Root(Identity(r)) = 1
        /\ r = Base(r) \/ Anchored(r) => Root(Identity(r)) = dir[Base(r)].ckpt
    BY <2>1, RootsOf
  <2> HIDE DEF f
  <2> QED BY <1>6, <2>2, <2>3, <2>4
<1>8. Comparable'
  <2> SUFFICES ASSUME NEW g \in Files, report'[g] # Missing, NEW i \in DOMAIN g[3]
               PROVE  LET b == report'[g].runs.base[i]
                          m == report'[g].runs.method[i]
                      IN /\ \A x \in {b, m} : x.cache # Missing => x.cache.teacher = x.teacher
                         /\ removals' = 0 \/ Vouched(g)' => Root(b) = Root(m)
    BY DEF Comparable
  <2>1. Vouched(g)' <=> Vouched(g)
    BY <1>1 DEF Vouched
  <2>2. CASE g # f
    <3> DEFINE b == report[g].runs.base[i]
               m == report[g].runs.method[i]
    <3>1. report'[g] = report[g]
      BY <1>2, <2>2 DEF FileInv, FilesTyped
    <3>2. /\ \A x \in {b, m} : x.cache # Missing => x.cache.teacher = x.teacher
          /\ removals = 0 \/ Vouched(g) => Root(b) = Root(m)
      BY <3>1 DEF Comparable
    <3> HIDE DEF b, m
    <3>3. removals' = 0 \/ Vouched(g)' => Root(b) = Root(m)
      BY <1>1, <2>1, <3>2
    <3> QED BY <3>1, <3>2, <3>3 DEF b, m
  <2>3. CASE g = f
    <3> DEFINE p == RunAt(f[1], f, i)
               q == RunAt(f[2], f, i)
    <3>1. p \in Compared(f) /\ q \in Compared(f) /\ Base(p) = Base(q)
      BY <2>3 DEF RunAt, Compared, ToSet, Base
    <3>2. report'[g].runs = Measured(f)
      BY <1>2, <1>3, <2>3 DEF FileInv, FilesTyped
    <3>3. Measured(f).base[i] = Identity(p) /\ Measured(f).method[i] = Identity(q)
      BY <2>3 DEF Measured
    <3> HIDE DEF f, p, q
    <3>4. \A x \in {Identity(p), Identity(q)} : x.cache # Missing => x.cache.teacher = x.teacher
      BY <1>7, <3>1
    <3>5. removals' = 0 \/ Vouched(g)' => Root(Identity(p)) = Root(Identity(q))
      BY <1>1, <1>7, <2>1, <2>3, <3>1
    <3> QED BY <3>2, <3>3, <3>4, <3>5
  <2> QED BY <2>2, <2>3
<1> QED BY <1>4, <1>5, <1>8

-----------------------------------------------------------------------------
(* Kills, launches, commits and removals.                                    *)

LEMMA KillKeeps ==
    ASSUME Typed, FileInv, NEW s \in Scripts, Kill(s)
    PROVE  FileInv' /\ Lasts /\ ControlTyped' /\ Walks(s)
<1>1. Exit(s) /\ UNCHANGED <<dir, conf, report, removals>>
  BY DEF Kill
<1>2. CASE cache' = cache
  BY <1>1, <1>2, IdleFiles, IdleLasts, Exits
<1>3. CASE cache' = [cache EXCEPT ![CacheAt(s)] = Torn]
  <2>1. FilesTyped'
    BY <1>1, <1>3 DEF FileInv, FilesTyped
  <2>2. Numbered' /\ Baselines' /\ Taught'
    BY <1>1 DEF FileInv, Numbered, Baselines, Taught
  <2> QED BY <1>1, <2>1, <2>2, IdleLasts, Exits DEF FileInv
<1> QED BY <1>2, <1>3 DEF Kill, AfterKill

LEMMA LaunchWalks ==
    ASSUME Typed, NEW s \in Scripts, Launch(s)
    PROVE  Idle /\ ControlTyped' /\ Walks(s)
<1>1. Idle /\ s \in campaign.scripts
  BY DEF Launch, Idle, files
<1>2. at' = [at EXCEPT ![s] = 1] /\ stage' = [stage EXCEPT ![s] = "ready"]
  BY DEF Launch
<1>3. ControlTyped'
  BY <1>2 DEF Typed, ControlTyped, Stages
<1> QED BY <1>1, <1>2, <1>3 DEF Typed, Walks, Begins

LEMMA ClearAwayKeeps ==
    ASSUME CampaignInv, ClearAway
    PROVE  CampaignInv'
<1>1. /\ removals' = removals + 1 /\ hand = "off" /\ \A s \in Scripts : stage[s] = "off"
      /\ UNCHANGED <<at, stage, conf, report, campaign, hand, head>>
  BY DEF ClearAway
<1>2. Typed' /\ HandBusy' /\ Following'
  BY <1>1 DEF CampaignInv, Typed, HandBusy, Following
<1>3. /\ \A r \in Runs : dir'[r] = dir[r] \/ dir'[r] = Missing
      /\ dir' \in [Runs -> Trainings \cup {Missing}]
      /\ cache' \in [Caches -> Mines \cup {Missing, Torn}]
  BY DEF ClearAway, CampaignInv, FilesTyped
<1>4. FilesTyped'
  BY <1>1, <1>3 DEF CampaignInv, FilesTyped
<1>5. Numbered'
  <2>1. removals \in Nat /\ Numbered
    BY DEF CampaignInv, Typed
  <2> QED BY <1>1, <1>3, <2>1 DEF Numbered
<1>6. Baselines' /\ Taught'
  BY <1>1, <1>3 DEF CampaignInv, Baselines, Taught
<1>7. Comparable'
  <2>1. removals' # 0
    BY <1>1 DEF CampaignInv, Typed
  <2> QED BY <1>1, <2>1, ReportsStay DEF CampaignInv
<1> QED BY <1>2, <1>4, <1>5, <1>6, <1>7 DEF CampaignInv

-----------------------------------------------------------------------------
(* The theorem.                                                              *)

LEMMA CampaignBegins == Init => CampaignInv
<1> SUFFICES ASSUME Init PROVE CampaignInv
  OBVIOUS
<1>1. BaseConfig \in Configs /\ BaseConfig.teacher = 0
  BY DEF BaseConfig, Configs, Names
<1>2. Typed
  BY DEF Init, Typed, Stages
<1>3. FilesTyped
  BY <1>1 DEF Init, FilesTyped
<1>4. Numbered
  BY <1>1 DEF Init, Numbered
<1>5. Baselines
  BY DEF Init, Baselines, Base
<1>6. Taught /\ Following /\ HandBusy
  BY DEF Init, Taught, Following, HandBusy
<1>7. Comparable
  BY DEF Init, Comparable
<1> QED BY <1>2, <1>3, <1>4, <1>5, <1>6, <1>7 DEF CampaignInv

\* What is shown of a step of a script is enough.
LEMMA ScriptStep ==
    ASSUME CampaignInv, NEW s \in Scripts, FileInv', Lasts, ControlTyped', Walks(s),
           UNCHANGED <<campaign, hand, head, removals>>, Comparable'
    PROVE  CampaignInv'
<1>1. Typed'
  BY DEF CampaignInv, Typed, ControlTyped
<1>2. Following'
  BY WalkFollowed DEF CampaignInv
<1>3. HandBusy'
  BY DEF CampaignInv, HandBusy, Lasts, Retrained
<1> QED BY <1>1, <1>2, <1>3 DEF CampaignInv, FileInv

LEMMA IdleStep ==
    ASSUME CampaignInv, NEW s \in Scripts, Idle, ControlTyped', Walks(s)
    PROVE  CampaignInv'
<1>1. FileInv'
  BY IdleFiles DEF CampaignInv, FileInv, Idle
<1>2. Lasts
  BY IdleLasts DEF Idle
<1>3. Comparable'
  BY ReportsStay DEF CampaignInv, Idle
<1> QED BY <1>1, <1>2, <1>3, ScriptStep DEF Idle

LEMMA CommandKeeps ==
    ASSUME CampaignInv, NEW s \in Scripts, Command(s)
    PROVE  CampaignInv'
<1> USE DEF CampaignInv
<1>0. FileInv
  BY DEF FileInv
<1>1. CASE Waiting(s)
  BY <1>1, WaitingIdle, IdleStep
<1>2. CASE Judging(s)
  BY <1>2, JudgingIdle, IdleStep
<1>3. CASE Looking(s)
  BY <1>3, LookingIdle, IdleStep
<1>4. CASE StartMining(s)
  BY <1>4, MiningIdle, IdleStep
<1>5. CASE SkipTraining(s)
  BY <1>5, SkippingIdle, IdleStep
<1>6. ASSUME UNCHANGED <<campaign, hand, head, removals, report>>,
             FileInv' /\ Lasts /\ ControlTyped' /\ Walks(s)
      PROVE  CampaignInv'
  BY <1>6, ReportsStay, ScriptStep
<1>7. CASE StartTraining(s)
  <2>1. UNCHANGED <<campaign, hand, head, removals, report>>
    BY <1>7 DEF StartTraining, world
  <2> QED BY <1>0, <1>6, <1>7, <2>1, StartTrains
<1>8. CASE SaveLast(s) \/ WriteSelection(s)
  <2>1. UNCHANGED <<campaign, hand, head, removals, report>>
    BY <1>8 DEF SaveLast, WriteSelection, world
  <2> QED BY <1>0, <1>6, <1>8, <2>1, SaveTrains
<1>9. CASE WriteSummary(s)
  <2>1. UNCHANGED <<campaign, hand, head, removals, report>>
    BY <1>9 DEF WriteSummary, world
  <2> QED BY <1>0, <1>6, <1>9, <2>1, SummaryTrains
<1>10. CASE ConfigureStage(s)
  <2>1. UNCHANGED <<campaign, hand, head, removals, report>>
    BY <1>10 DEF ConfigureStage, world
  <2> QED BY <1>0, <1>6, <1>10, <2>1, ConfigureKeeps
<1>11. CASE WriteCache(s)
  <2>1. UNCHANGED <<campaign, hand, head, removals, report>>
    BY <1>11 DEF WriteCache, world
  <2> QED BY <1>0, <1>6, <1>11, <2>1, CacheKeeps
<1>12. CASE Compares(s)
  <2>1. UNCHANGED <<campaign, hand, head, removals>>
    BY <1>12 DEF Compares, world
  <2> QED BY <1>0, <1>12, <2>1, ComparesKeeps, ScriptStep
<1> QED
  BY <1>1, <1>2, <1>3, <1>4, <1>5, <1>7, <1>8, <1>9, <1>10, <1>11, <1>12
  DEF Command, Waiting, Judging, Looking

\* A step beside the scripts.
LEMMA OtherStep ==
    ASSUME CampaignInv, FileInv', Lasts, Comparable', HandBusy',
           UNCHANGED <<campaign, at, stage, removals>>, head' \in Nat
    PROVE  CampaignInv'
<1>1. Typed'
  BY DEF CampaignInv, Typed
<1>2. Following'
  BY StillFollowed DEF CampaignInv, Following
<1> QED BY <1>1, <1>2 DEF CampaignInv, FileInv

LEMMA WorldKeeps ==
    ASSUME CampaignInv,
           ExtractionStep \/ HandStart \/ HandStep \/ Commit \/ UNCHANGED vars
    PROVE  CampaignInv'
<1>0. Typed /\ FileInv /\ HandBusy /\ Comparable
  BY DEF CampaignInv, FileInv
<1>1. UNCHANGED <<campaign, at, stage, removals, report>>
  BY DEF ExtractionStep, HandStart, HandStep, Commit, vars, control, files, world
<1>2. Comparable'
  BY <1>0, <1>1, ReportsStay
<1>3. head' \in Nat
  BY <1>0 DEF Typed, ExtractionStep, HandStart, HandStep, Commit, vars, world
<1>4. CASE ExtractionStep \/ Commit \/ UNCHANGED vars
  <2>1. UNCHANGED <<dir, conf, cache, hand>>
    BY <1>4 DEF ExtractionStep, Commit, vars, files, world
  <2>2. FileInv' /\ Lasts
    BY <1>0, <1>1, <2>1, IdleFiles, IdleLasts
  <2>3. HandBusy'
    BY <1>0, <2>1 DEF HandBusy
  <2> QED BY <1>1, <1>2, <1>3, <2>2, <2>3, OtherStep
<1>5. CASE HandStart
  <2>1. FileInv' /\ Lasts /\ HandBusy'
    BY <1>0, <1>5, HandStarts DEF HandBusy
  <2> QED BY <1>1, <1>2, <1>3, <2>1, OtherStep
<1>6. CASE HandStep
  <2>1. FileInv' /\ Lasts /\ HandBusy'
    BY <1>0, <1>6, HandGoesOn
  <2> QED BY <1>1, <1>2, <1>3, <2>1, OtherStep
<1> QED BY <1>4, <1>5, <1>6

LEMMA CampaignKept == CampaignInv /\ [Next]_vars => CampaignInv'
<1> SUFFICES ASSUME CampaignInv, [Next]_vars PROVE CampaignInv'
  OBVIOUS
<1>0. Typed /\ FileInv /\ Comparable
  BY DEF CampaignInv, FileInv
<1>1. ASSUME NEW s \in Scripts, Launch(s) PROVE CampaignInv'
  BY <1>0, <1>1, LaunchWalks, IdleStep
<1>2. ASSUME NEW s \in Scripts, Command(s) PROVE CampaignInv'
  BY <1>2, CommandKeeps
<1>3. ASSUME NEW s \in Scripts, Kill(s) PROVE CampaignInv'
  <2>1. UNCHANGED <<campaign, hand, head, removals, report>>
    BY <1>3 DEF Kill
  <2>2. Comparable'
    BY <1>0, <2>1, ReportsStay
  <2> QED BY <1>0, <1>3, <2>1, <2>2, KillKeeps, ScriptStep
<1>4. CASE ExtractionStep \/ HandStart \/ HandStep \/ Commit \/ UNCHANGED vars
  BY <1>4, WorldKeeps
<1>5. CASE ClearAway
  BY <1>5, ClearAwayKeeps
<1> QED BY <1>1, <1>2, <1>3, <1>4, <1>5 DEF Next

\* The inductive invariant holds of every campaign.
THEOREM CampaignFollowed == Spec => []CampaignInv
  BY CampaignBegins, CampaignKept, PTL DEF Spec

\* A run is taught by the checkpoint that mined its cache, and what report.py
\* compares goes back to one baseline: always before the first removal, and
\* after it for the reports of scripts that train what they compare.
THEOREM RunsAreComparable == Spec => []Comparable
  BY CampaignFollowed, PTL DEF CampaignInv
=============================================================================
