--------------------------- MODULE DiveStoreProofs ---------------------------
(* Proofs about DiveStore, for every set of processes, stages and environments. *)
EXTENDS DiveStore, Integers, TLAPS

(***************************************************************************)
(* The inductive invariants                                                *)
(***************************************************************************)
Points == {"idle", "resolve", "reuse", "read", "train", "hash", "write", "swap", "rewrite",
           "open", "mark", "build", "record", "replace"}

\* Where a command has resolved its parents, and where it has also read them.
Resolved(p) == pc[p] \notin {"idle", "resolve"}
Reading(p)  == pc[p] \in {"train", "hash", "write", "swap", "rewrite",
                          "open", "mark", "build"}

\* A pending directory holds at most two parts.
Parted(parts) ==
    \/ parts = <<>>
    \/ parts = <<parts[1]>>
    \/ parts = <<parts[1], parts[2]>>

\* There is a checkpoint of the warm-up, and what it is made of.
Checkpointed == trained # None \/ \E p \in Procs : pc[p] = "hash"
IsCheckpoint(t) == t = [config |-> t.config, parents |-> t.parents, from |-> t.from,
                        hashed |-> t.hashed]

\* What the variables are made of.
Shape ==
    /\ state = [s \in Stages |-> state[s]]
    /\ dest = [s \in Stages |-> [first |-> dest[s].first, last |-> dest[s].last]]
    /\ pending = [s \in Stages |-> [there |-> pending[s].there,
                                    owner |-> pending[s].owner,
                                    parts |-> pending[s].parts]]
    /\ \A s \in Stages : Parted(pending[s].parts)
    /\ pc \in [Procs -> Points]
    /\ job \in [Procs -> [stage : Stages, env : Envs] \cup {Idle}]
    /\ resolved = [p \in Procs |-> resolved[p]]
    /\ built = [p \in Procs |-> built[p]]
    /\ seen = [p \in Procs |-> seen[p]]
    /\ raced \in BOOLEAN /\ healed \in BOOLEAN /\ foreign \in BOOLEAN
    /\ crashes \in 0..MaxCrashes /\ extras \in 0..MaxExtras

\* A process has a command unless it is idle, and each statement belongs to the
\* stages that reach it.
Placed(p) ==
    /\ pc[p] = "idle" <=> job[p] = Idle
    /\ pc[p] \in {"train", "hash"} => Stage(p) = "evidence_warmup"
    /\ pc[p] = "swap" => Stage(p) = "validate_data"
    /\ pc[p] \in {"write", "swap", "rewrite"} => Stage(p) \in InPlace
    /\ pc[p] \in {"reuse", "open", "mark", "build"} => Stage(p) \in Building
    /\ Resolved(p) => resolved[p] = [q \in Parents(Stage(p)) |-> resolved[p][q]]
    /\ pc[p] = "replace" => /\ seen[p] = [s \in Stages |-> seen[p][s]]
                            /\ seen[p][Stage(p)] # NoRecord

\* No two processes have a command of the same stage.
Apart == \A p, q \in Procs : p # q /\ Stage(p) = Stage(q) => pc[p] = "idle"

Commands ==
    /\ \A p \in Procs : Placed(p)
    /\ Apart
    /\ \A s \in Stages : pending[s].there => s \in Building
    /\ Checkpointed => IsCheckpoint(trained)

Present(s) == dest[s].first # NoOutput /\ dest[s].last # NoOutput

\* A record is of outputs that are there; those of a renamed directory are the
\* ones it names.
Kept(s, r) ==
    r # NoRecord => /\ DOMAIN r.parents = Parents(s)
                    /\ Present(s)
                    /\ s \in Building => r.outputs = Hashed(s)

\* What a process relies on being there, and on not being there.
Finds(p) ==
    /\ Resolved(p) => \A q \in Parents(Stage(p)) : Present(q)
    /\ pc[p] = "rewrite" => dest[Stage(p)].first # NoOutput
    /\ pc[p] = "record" => Present(Stage(p))
    /\ pc[p] = "replace" => \A s \in Stages : Kept(s, seen[p][s])
    /\ pc[p] \in {"read", "open", "mark", "build"} /\ Stage(p) \in Building =>
          dest[Stage(p)].last = NoOutput

\* Outputs appear and stay, and a directory is renamed onto nothing.
Whole ==
    /\ \A s \in Stages : \A i \in DOMAIN pending[s].parts : pending[s].parts[i] # NoOutput
    /\ \A s \in Stages : Kept(s, state[s])
    /\ \A s \in Stages \cap Building : dest[s].first = NoOutput <=> dest[s].last = NoOutput
    /\ \A p \in Procs : Finds(p)

\* What a command took up or wrote carries its own environment.
Signs(p) ==
    /\ pc[p] = "mark" => pending[Stage(p)].parts = <<>>
    /\ pc[p] = "build" =>
          /\ Stage(p) # "audit_export" =>
                pending[Stage(p)].owner.env = Seen(Stage(p), Env(p))
          /\ \A i \in DOMAIN pending[Stage(p)].parts :
                pending[Stage(p)].parts[i].env = Seen(Stage(p), Env(p))
    /\ pc[p] = "record" => dest[Stage(p)].last.env = Seen(Stage(p), Env(p))

Signed ==
    /\ \A s \in Stages \ {"audit_export"} : \A i \in DOMAIN pending[s].parts :
          pending[s].parts[i].env = pending[s].owner.env
    /\ \A p \in Procs : Signs(p)

\* The parents are registered with these outputs.
Known(s, ps) ==
    /\ ps = [q \in Parents(s) |-> ps[q]]
    /\ \A q \in Parents(s) : Registered(q) /\ ps[q] = state[q].outputs

\* The run state a command composed differs from the one that is there in its own
\* stage, which it registers for the first time or as it is.
Extends(p) ==
    pc[p] = "replace" =>
        /\ seen[p] = [state EXCEPT ![Stage(p)] = seen[p][Stage(p)]]
        /\ state[Stage(p)] \in {NoRecord, seen[p][Stage(p)]}
        /\ Known(Stage(p), seen[p][Stage(p)].parents)

\* As long as two commands have not been inside record_stage at once.
Once ==
    /\ \A p, q \in Procs : pc[p] = "replace" /\ pc[q] = "replace" => p = q
    /\ \A p \in Procs : Extends(p)
    /\ \A s \in Stages : Registered(s) => Known(s, state[s].parents)
    /\ \A r \in ever : r[1] \in Stages /\ r[2] # NoRecord /\ state[r[1]] = r[2]

\* What was read of the parents is what is registered, or they were altered.
ReadTrue(s, fs) ==
    /\ fs = [q \in Parents(s) |-> fs[q]]
    /\ \A q \in Parents(s) : Registered(q) /\ (Altered(q) \/ fs[q] = state[q].outputs.files)

\* The configuration a stage demands of the parents it is bound to.
Expected(s, config) == IF s = "mine_finalize" THEN <<config[1], "none">> ELSE config
BoundTo(s, fs, config) ==
    \A q \in BoundParents(s) \cap Stages : fs[q].last.env.config = Expected(s, config)

Honest(s, o) ==
    o # NoOutput => /\ Known(s, o.parents)
                    /\ ReadTrue(s, o.from)
                    /\ BoundTo(s, o.from, o.env.config)

\* A record names what its outputs were computed from.
Faithful(s, r) ==
    r # NoRecord => /\ r.outputs.files.first.from = FilesOf(r.parents)
                    /\ r.outputs.files.last.from = FilesOf(r.parents)
                    /\ BoundTo(s, FilesOf(r.parents), r.config)

\* What a command resolved, read and composed.
Reads(p) ==
    /\ Resolved(p) => Known(Stage(p), resolved[p])
    /\ Reading(p) => /\ ReadTrue(Stage(p), built[p])
                     /\ BoundTo(Stage(p), built[p], Hash(Env(p)))
    /\ pc[p] = "replace" => Faithful(Stage(p), seen[p][Stage(p)])

\* As long as no altered output matched its record again either, everything that
\* was written was computed from what is registered, or from something altered.
Lineage ==
    /\ \A s \in Stages : Honest(s, dest[s].first) /\ Honest(s, dest[s].last)
    /\ \A s \in Stages : \A i \in DOMAIN pending[s].parts : Honest(s, pending[s].parts[i])
    /\ Checkpointed => /\ Known("evidence_warmup", trained.parents)
                       /\ ReadTrue("evidence_warmup", trained.from)
    /\ \A s \in Stages : Faithful(s, state[s])
    /\ \A p \in Procs : Reads(p)

\* What the operator's own command makes of a stage, given what is registered of its
\* parents.
Both(o) == [first |-> o, last |-> o]
Rooted(s) == \A q \in Parents(s) : Registered(q)
ReadOf(s) == [q \in Parents(s) |-> state[q].outputs.files]
Proper(s) == [env     |-> Seen(s, Homes[s]),
              parents |-> [q \in Parents(s) |-> state[q].outputs],
              from    |-> ReadOf(s)]

Own(s, o) == o # NoOutput => Rooted(s) /\ o = Proper(s)
OwnRecord(s, r) == r # NoRecord => Rooted(s) /\ r.outputs.files = Both(Proper(s))

OwnCommand(p) ==
    /\ pc[p] # "idle" => Env(p) = Homes[Stage(p)]
    /\ Resolved(p) => Known(Stage(p), resolved[p])
    /\ Reading(p) => built[p] = ReadOf(Stage(p))
    /\ pc[p] = "replace" => OwnRecord(Stage(p), seen[p][Stage(p)])

\* As long as no command ran under another environment and no two registered at once,
\* an output is the one its stage makes, whoever wrote it.
OwnOutputs ==
    /\ \A s \in Stages : Own(s, dest[s].first) /\ Own(s, dest[s].last)
    /\ \A s \in Stages : \A i \in DOMAIN pending[s].parts : Own(s, pending[s].parts[i])
    /\ Checkpointed => /\ Rooted("evidence_warmup")
                       /\ trained.from = ReadOf("evidence_warmup")
    /\ \A s \in Stages : OwnRecord(s, state[s])
    /\ \A p \in Procs : OwnCommand(p)

\* The temporary file of a validate_data that is running, and what was hashed of the
\* others.
Writing == \E p \in Procs : pc[p] = "swap"
Live    == IF Writing THEN 1 ELSE 0
Counted(s, r) ==
    r # NoRecord => /\ r.outputs = [files |-> r.outputs.files, strays |-> r.outputs.strays]
                    /\ r.outputs.strays \in Nat
                    /\ s # "validate_data" => r.outputs.strays = 0
                    /\ s = "validate_data" => r.outputs.strays + Live <= strays

\* A temporary file is that of a running command or was left by a killed one.
Litter ==
    /\ strays \in Nat /\ Live <= strays /\ strays <= crashes + Live
    /\ \A s \in Stages : Counted(s, state[s])
    /\ \A p \in Procs : pc[p] = "replace" => \A s \in Stages : Counted(s, seen[p][s])

(***************************************************************************)
(* Lemmas about the operators                                              *)
(***************************************************************************)

\* Every stage writes in place or builds a directory, none is its own parent, and
\* only stages that build one are bound to a configuration of their parents.
LEMMA Kinds ==
  ASSUME NEW s \in Stages
  PROVE  /\ s \in Building \cup InPlace
         /\ s \in Building => s \notin InPlace
         /\ Parents(s) \subseteq Stages
         /\ s \notin Parents(s)
         /\ BoundParents(s) \cap Stages \subseteq Parents(s)
         /\ s \notin Building => BoundParents(s) = {}
         /\ s # None
         /\ "evidence_warmup" \in InPlace
  BY StoreAssumption DEF Building, InPlace, Parents, StageParents, BoundParents

\* What is hashed of a stage that is built is what its directory holds.
LEMMA HashedBuilt ==
  ASSUME NEW s \in Building
  PROVE  /\ Hashed(s) = [files |-> dest[s], strays |-> 0]
         /\ Hashed(s)' = [files |-> dest'[s], strays |-> 0]
  BY DEF Hashed, Building

\* Nothing that is digested is absent.
LEMMA Something ==
  /\ \A s, e, ps, fs : [env |-> Seen(s, e), parents |-> ps, from |-> fs] # NoOutput
  /\ \A e, ps, os : [config |-> Hash(e), parents |-> ps, outputs |-> os] # NoRecord
<1>1. \A e : Hash(e) # <<>>
  BY DEF Hash
<1>2. ASSUME NEW s, NEW e, NEW ps, NEW fs
      PROVE  [env |-> Seen(s, e), parents |-> ps, from |-> fs] # NoOutput
  <2>1. [env |-> Seen(s, e), parents |-> ps, from |-> fs].env.config = Hash(e)
    BY DEF Seen
  <2>2. NoOutput.env.config = <<>>
    BY DEF NoOutput
  <2>3. QED
    BY <1>1, <2>1, <2>2
<1>3. ASSUME NEW e, NEW ps, NEW os
      PROVE  [config |-> Hash(e), parents |-> ps, outputs |-> os] # NoRecord
  <2>1. [config |-> Hash(e), parents |-> ps, outputs |-> os].config = Hash(e)
    OBVIOUS
  <2>2. NoRecord.config = <<>>
    BY DEF NoRecord
  <2>3. QED
    BY <1>1, <2>1, <2>2
<1>4. QED
  BY <1>2, <1>3

\* Two tuples of parts with one more, and what an interrupted command left.
LEMMA Parts ==
  ASSUME NEW parts, Parted(parts)
  PROVE  /\ Len(parts) <= 2
         /\ Len(parts) < 2 => \A x : Parted(Append(parts, x))
         /\ Len(parts) < 2 => \A x : \A i \in DOMAIN Append(parts, x) :
               \/ Append(parts, x)[i] = x
               \/ i \in DOMAIN parts /\ Append(parts, x)[i] = parts[i]
         /\ Len(parts) = 2 => {1, 2} \subseteq DOMAIN parts
         /\ \A s : Parted(KeptParts(s, parts))
         /\ \A s : \A i \in DOMAIN KeptParts(s, parts) :
               i \in DOMAIN parts /\ KeptParts(s, parts)[i] = parts[i]
<1>0. Parted(<<>>) /\ (\A x : Parted(<<x>>)) /\ (\A x, y : Parted(<<x, y>>))
  BY DEF Parted
<1>1. CASE parts = <<>>
  <2>1. \A x : Append(parts, x) = <<x>>
    BY <1>1
  <2>2. \A s : KeptParts(s, parts) = <<>>
    BY <1>1 DEF KeptParts
  <2>3. QED
    BY <1>0, <1>1, <2>1, <2>2
<1>2. CASE parts = <<parts[1]>>
  <2>0. PICK a : parts = <<a>>
    BY <1>2
  <2>1. ASSUME NEW x PROVE Append(parts, x) = <<a, x>>
    <3>1. <<a>> \in Seq({a, x}) /\ x \in {a, x}
      OBVIOUS
    <3>2. Append(<<a>>, x) \in Seq({a, x}) /\ Len(Append(<<a>>, x)) = 2
      BY <3>1
    <3>3. Append(<<a>>, x)[1] = a /\ Append(<<a>>, x)[2] = x
      BY <3>1
    <3>4. Append(<<a>>, x) = [i \in 1..2 |-> Append(<<a>>, x)[i]]
      BY <3>2
    <3>5. <<a, x>> = [i \in 1..2 |-> <<a, x>>[i]]
      OBVIOUS
    <3>6. \A i \in 1..2 : Append(<<a>>, x)[i] = <<a, x>>[i]
      BY <3>3
    <3>7. Append(<<a>>, x) = <<a, x>>
      BY <3>4, <3>5, <3>6, Zenon
    <3>8. QED
      BY <2>0, <3>7
  <2>2. \A s : KeptParts(s, parts) \in {<<>>, <<a>>}
    BY <2>0 DEF KeptParts
  <2>3. DOMAIN parts = {1} /\ parts[1] = a /\ Len(parts) = 1
    BY <2>0
  <2>4. ASSUME NEW x, NEW i \in DOMAIN Append(parts, x)
        PROVE  Append(parts, x)[i] = x \/ (i \in DOMAIN parts /\ Append(parts, x)[i] = parts[i])
    <3>1. i \in {1, 2}
      BY <2>1, <2>4
    <3>2. QED
      BY <2>1, <2>3, <3>1
  <2>5. ASSUME NEW s, NEW i \in DOMAIN KeptParts(s, parts)
        PROVE  i \in DOMAIN parts /\ KeptParts(s, parts)[i] = parts[i]
    BY <2>0, <2>2, <2>3
  <2>6. /\ \A s : Parted(KeptParts(s, parts))
        /\ \A x : Parted(Append(parts, x))
    BY <1>0, <2>1, <2>2
  <2>7. QED
    BY <2>3, <2>4, <2>5, <2>6
<1>3. CASE parts = <<parts[1], parts[2]>>
  <2>0. PICK a, b : parts = <<a, b>>
    BY <1>3
  <2>1. \A s : KeptParts(s, parts) \in {<<>>, <<a>>}
    BY <2>0 DEF KeptParts
  <2>2. DOMAIN parts = {1, 2} /\ parts[1] = a /\ Len(parts) = 2
    BY <2>0
  <2>3. ASSUME NEW s, NEW i \in DOMAIN KeptParts(s, parts)
        PROVE  i \in DOMAIN parts /\ KeptParts(s, parts)[i] = parts[i]
    BY <2>1, <2>2
  <2>4. \A s : Parted(KeptParts(s, parts))
    BY <1>0, <2>1
  <2>5. QED
    BY <2>2, <2>3, <2>4
<1>4. QED
  BY <1>1, <1>2, <1>3 DEF Parted

(***************************************************************************)
(* Steps                                                                   *)
(***************************************************************************)

\* A command is refused, finds its stage registered or is killed.
Over(p) ==
    /\ pc[p] # "idle"
    /\ Leave(p)
    /\ UNCHANGED <<files, ghosts, foreign, extras>>
    /\ \/ crashes' = crashes /\ pc[p] # "swap"
       \/ crashes < MaxCrashes /\ crashes' = crashes + 1

\* The first output is replaced, one way or the other.
WritesFirst(p) == WriteFirst(p) \/ ReplaceMap(p)

\* A command goes from one statement to the next.
Goes(p) ==
    \/ ResolveParents(p) \/ ReadParents(p)
    \/ Train(p) \/ HashCheckpoint(p) \/ ResumeTraining(p)
    \/ MakeTemporary(p) \/ WritesFirst(p) \/ WriteLast(p)
    \/ AdoptDestination(p) \/ NothingThere(p)
    \/ MakePending(p) \/ MarkPending(p) \/ ResumePending(p)
    \/ BuildPart(p) \/ PublishPending(p) \/ LoadState(p)

Launches(p) == \E s \in Stages, e \in Envs : Launch(p, s, e)

\* Every step is an action of one process, and those that end a command without
\* writing anything do the same.
LEMMA OneStep ==
  ASSUME Next
  PROVE  \E p \in Procs : Over(p) \/ Launches(p) \/ Goes(p) \/ ReplaceState(p)
<1>1. PICK p \in Procs : Step(p) \/ Crash(p) \/ \E s \in Stages, e \in Envs : Launch(p, s, e)
  BY DEF Next
<1>2. MissingParent(p) \/ Unacceptable(p) \/ RefuseTraining(p) \/ ReturnRegistered(p)
        \/ RefuseDestination(p) \/ RefusePending(p) \/ RefuseRecord(p) \/ Crash(p)
      => Over(p)
  BY DEF MissingParent, Unacceptable, RefuseTraining, ReturnRegistered,
         RefuseDestination, RefusePending, RefuseRecord, Crash, Over, bounds
<1>3. QED
  BY <1>1, <1>2 DEF Step, Goes, WritesFirst, Launches

(***************************************************************************)
(* What the variables are made of                                          *)
(***************************************************************************)
LEMMA ShapeInit == Init => Shape /\ Commands
<1> SUFFICES ASSUME Init PROVE Shape /\ Commands
  OBVIOUS
<1>1. Parted(<<>>)
  BY DEF Parted
<1>2. Shape
  <2>1. /\ state = [s \in Stages |-> state[s]]
        /\ dest = [s \in Stages |-> [first |-> dest[s].first, last |-> dest[s].last]]
        /\ pending = [s \in Stages |-> [there |-> pending[s].there,
                                        owner |-> pending[s].owner,
                                        parts |-> pending[s].parts]]
        /\ \A s \in Stages : Parted(pending[s].parts)
    BY <1>1 DEF Init, NoPending
  <2>2. QED
    <3>1. /\ raced \in BOOLEAN /\ healed \in BOOLEAN /\ foreign \in BOOLEAN
          /\ crashes \in 0..MaxCrashes /\ extras \in 0..MaxExtras
      <4>1. raced = FALSE /\ healed = FALSE /\ foreign = FALSE /\ crashes = 0 /\ extras = 0
        BY DEF Init
      <4>2. crashes \in 0..MaxCrashes /\ extras \in 0..MaxExtras
        BY <4>1, StoreAssumption
      <4>3. QED
        BY <4>1, <4>2, Zenon
    <3>2. /\ pc \in [Procs -> Points]
          /\ job \in [Procs -> [stage : Stages, env : Envs] \cup {Idle}]
          /\ resolved = [p \in Procs |-> resolved[p]]
          /\ built = [p \in Procs |-> built[p]]
          /\ seen = [p \in Procs |-> seen[p]]
      BY DEF Init, Points
    <3>3. QED
      BY <2>1, <3>1, <3>2, Zenon DEF Shape
<1>3. Commands
  BY DEF Init, Commands, Placed, Apart, Idle, NoPending, Resolved, Checkpointed
<1>4. QED
  BY <1>2, <1>3

\* One field of one pending directory, or one output, is replaced.
LEMMA Replaced ==
  ASSUME Shape, NEW s \in Stages, NEW v
  PROVE  /\ [pending EXCEPT ![s].owner = v] =
              [pending EXCEPT ![s] = [there |-> pending[s].there, owner |-> v,
                                      parts |-> pending[s].parts]]
         /\ [pending EXCEPT ![s].parts = v] =
              [pending EXCEPT ![s] = [there |-> pending[s].there,
                                      owner |-> pending[s].owner, parts |-> v]]
         /\ [dest EXCEPT ![s]["first"] = v] =
              [dest EXCEPT ![s] = [first |-> v, last |-> dest[s].last]]
         /\ [dest EXCEPT ![s]["last"] = v] =
              [dest EXCEPT ![s] = [first |-> dest[s].first, last |-> v]]
<1>1. pending[s] = [there |-> pending[s].there, owner |-> pending[s].owner,
                    parts |-> pending[s].parts]
  BY Zenon DEF Shape
<1>2. dest[s] = [first |-> dest[s].first, last |-> dest[s].last]
  BY Zenon DEF Shape
<1>3. /\ [pending[s] EXCEPT !.owner = v] = [there |-> pending[s].there, owner |-> v,
                                             parts |-> pending[s].parts]
      /\ [pending[s] EXCEPT !.parts = v] = [there |-> pending[s].there,
                                             owner |-> pending[s].owner, parts |-> v]
  BY <1>1
<1>4. /\ [dest[s] EXCEPT !["first"] = v] = [first |-> v, last |-> dest[s].last]
      /\ [dest[s] EXCEPT !["last"] = v] = [first |-> dest[s].first, last |-> v]
  BY <1>2
<1>5. QED
  BY <1>3, <1>4

\* What the actions that write make of the outputs and of the pending directories.
LEMMA Writes ==
  ASSUME Shape, NEW p \in Procs, Stage(p) \in Stages
  PROVE  /\ WritesFirst(p) =>
              dest' = [dest EXCEPT ![Stage(p)] = [first |-> Output(p),
                                                  last  |-> dest[Stage(p)].last]]
         /\ WriteLast(p) =>
              dest' = [dest EXCEPT ![Stage(p)] = [first |-> dest[Stage(p)].first,
                                                  last  |-> Output(p)]]
         /\ MarkPending(p) =>
              pending' = [pending EXCEPT ![Stage(p)] =
                             [there |-> pending[Stage(p)].there, owner |-> Provenance(p),
                              parts |-> pending[Stage(p)].parts]]
         /\ ResumePending(p) =>
              pending' = [pending EXCEPT ![Stage(p)] =
                             [there |-> pending[Stage(p)].there,
                              owner |-> pending[Stage(p)].owner,
                              parts |-> KeptParts(Stage(p), pending[Stage(p)].parts)]]
         /\ BuildPart(p) =>
              pending' = [pending EXCEPT ![Stage(p)] =
                             [there |-> pending[Stage(p)].there,
                              owner |-> pending[Stage(p)].owner,
                              parts |-> Append(pending[Stage(p)].parts, Output(p))]]
  BY Replaced DEF WritesFirst, WriteFirst, ReplaceMap, WriteLast, Write, MarkPending,
     ResumePending, BuildPart

\* The entries of the stage of the process after them, and the entries of the others.
LEMMA Entries ==
  ASSUME Shape, NEW p \in Procs, Stage(p) \in Stages
  PROVE  /\ WritesFirst(p) => dest'[Stage(p)] = [first |-> Output(p),
                                                last  |-> dest[Stage(p)].last]
         /\ WriteLast(p) => dest'[Stage(p)] = [first |-> dest[Stage(p)].first,
                                               last  |-> Output(p)]
         /\ WritesFirst(p) \/ WriteLast(p) =>
              \A s \in Stages : s # Stage(p) => dest'[s] = dest[s]
         /\ MarkPending(p) => pending'[Stage(p)] =
              [there |-> pending[Stage(p)].there, owner |-> Provenance(p),
               parts |-> pending[Stage(p)].parts]
         /\ ResumePending(p) => pending'[Stage(p)] =
              [there |-> pending[Stage(p)].there, owner |-> pending[Stage(p)].owner,
               parts |-> KeptParts(Stage(p), pending[Stage(p)].parts)]
         /\ BuildPart(p) => pending'[Stage(p)] =
              [there |-> pending[Stage(p)].there, owner |-> pending[Stage(p)].owner,
               parts |-> Append(pending[Stage(p)].parts, Output(p))]
         /\ MarkPending(p) \/ ResumePending(p) \/ BuildPart(p) =>
              \A s \in Stages : s # Stage(p) => pending'[s] = pending[s]
<1>1. DOMAIN dest = Stages /\ DOMAIN pending = Stages
  BY DEF Shape
<1>2. CASE WritesFirst(p)
  BY <1>1, <1>2, Writes DEF WritesFirst, WriteFirst, ReplaceMap, MarkPending,
     ResumePending, BuildPart, WriteLast
<1>3. CASE WriteLast(p)
  BY <1>1, <1>3, Writes DEF WritesFirst, WriteFirst, ReplaceMap, MarkPending,
     ResumePending, BuildPart, WriteLast
<1>4. CASE MarkPending(p)
  <2>1. pending' = [pending EXCEPT ![Stage(p)] =
                           [there |-> pending[Stage(p)].there, owner |-> Provenance(p),
                            parts |-> pending[Stage(p)].parts]]
    BY <1>4, Writes
  <2>2. ~WritesFirst(p) /\ ~WriteLast(p) /\ ~ResumePending(p) /\ ~BuildPart(p)
    BY <1>4 DEF WritesFirst, WriteFirst, ReplaceMap, WriteLast, MarkPending,
       ResumePending, BuildPart
  <2>3. QED
    BY <1>1, <1>4, <2>1, <2>2
<1>5. CASE ResumePending(p)
  <2>1. pending' = [pending EXCEPT ![Stage(p)] =
                           [there |-> pending[Stage(p)].there,
                            owner |-> pending[Stage(p)].owner,
                            parts |-> KeptParts(Stage(p), pending[Stage(p)].parts)]]
    BY <1>5, Writes
  <2>2. ~WritesFirst(p) /\ ~WriteLast(p) /\ ~MarkPending(p) /\ ~BuildPart(p)
    BY <1>5 DEF WritesFirst, WriteFirst, ReplaceMap, WriteLast, MarkPending,
       ResumePending, BuildPart
  <2>3. QED
    BY <1>1, <1>5, <2>1, <2>2
<1>6. CASE BuildPart(p)
  <2>1. pending' = [pending EXCEPT ![Stage(p)] =
                           [there |-> pending[Stage(p)].there,
                            owner |-> pending[Stage(p)].owner,
                            parts |-> Append(pending[Stage(p)].parts, Output(p))]]
    BY <1>6, Writes
  <2>2. ~WritesFirst(p) /\ ~WriteLast(p) /\ ~MarkPending(p) /\ ~ResumePending(p)
    BY <1>6 DEF WritesFirst, WriteFirst, ReplaceMap, WriteLast, MarkPending,
       ResumePending, BuildPart
  <2>3. QED
    BY <1>1, <1>6, <2>1, <2>2
<1>7. QED
  BY <1>2, <1>3, <1>4, <1>5, <1>6

LEMMA ShapeStep == ASSUME Shape, Commands, [Next]_vars PROVE Shape'
<1> USE DEF Points, files, locals, ghosts, bounds, Goto
<1>1. CASE UNCHANGED vars
  BY <1>1 DEF Shape, vars
<1>2. CASE Next
  <2>1. PICK p \in Procs : Over(p) \/ Launches(p) \/ Goes(p) \/ ReplaceState(p)
    BY <1>2, OneStep
  <2>2. pc[p] # "idle" => Stage(p) \in Stages
    BY DEF Shape, Commands, Placed, Stage
  <2>3. CASE Over(p)
    <3>1. crashes' \in 0..MaxCrashes
      BY <2>3, StoreAssumption DEF Over, Shape
    <3>2. QED
      BY <2>3, <3>1 DEF Over, Leave, Shape
  <2>4. CASE Launches(p)
    BY <2>4, StoreAssumption DEF Launches, Launch, Shape
  <2>5. CASE ResolveParents(p) \/ ReadParents(p) \/ ResumeTraining(p)
    BY <2>5 DEF ResolveParents, ReadParents, ResumeTraining, Shape
  <2>6. CASE Train(p) \/ HashCheckpoint(p) \/ MakeTemporary(p) \/ AdoptDestination(p)
             \/ NothingThere(p)
    BY <2>6 DEF Train, HashCheckpoint, MakeTemporary, AdoptDestination, NothingThere, Shape
  <2>7. CASE WritesFirst(p) \/ WriteLast(p)
    <3>1. healed' \in BOOLEAN
      BY <2>7 DEF WritesFirst, WriteFirst, ReplaceMap, WriteLast, Write, Shape
    <3>2. Stage(p) \in Stages
      BY <2>2, <2>7 DEF WritesFirst, WriteFirst, ReplaceMap, WriteLast
    <3>3. PICK a, b : dest' = [dest EXCEPT ![Stage(p)] = [first |-> a, last |-> b]]
      <4>1. /\ WritesFirst(p) => dest' = [dest EXCEPT ![Stage(p)] =
                                  [first |-> Output(p), last |-> dest[Stage(p)].last]]
            /\ WriteLast(p) => dest' = [dest EXCEPT ![Stage(p)] =
                                  [first |-> dest[Stage(p)].first, last |-> Output(p)]]
        BY <3>2, Writes
      <4>2. QED
        BY <2>7, <4>1, Zenon
    <3>4. dest' = [s \in Stages |-> [first |-> dest'[s].first, last |-> dest'[s].last]]
      BY <3>2, <3>3 DEF Shape
    <3>5. QED
      BY <2>7, <3>1, <3>4 DEF WritesFirst, WriteFirst, ReplaceMap, WriteLast, Write, Shape
  <2>8. CASE MakePending(p) \/ MarkPending(p) \/ ResumePending(p) \/ BuildPart(p)
    <3>1. Stage(p) \in Stages
      BY <2>2, <2>8 DEF MakePending, MarkPending, ResumePending, BuildPart
    <3>2. Parted(pending[Stage(p)].parts) /\ Parted(<<>>)
      BY <3>1 DEF Shape, Parted
    <3>3. /\ Parted(KeptParts(Stage(p), pending[Stage(p)].parts))
          /\ BuildPart(p) => Parted(Append(pending[Stage(p)].parts, Output(p)))
      BY <3>2, Parts DEF BuildPart
    <3>4. PICK t, o, d : /\ pending' = [pending EXCEPT ![Stage(p)] =
                                            [there |-> t, owner |-> o, parts |-> d]]
                         /\ Parted(d)
      <4>1. MakePending(p) => pending' = [pending EXCEPT ![Stage(p)] =
                                            [there |-> TRUE, owner |-> None, parts |-> <<>>]]
        BY DEF MakePending, Unmarked
      <4>2. CASE MarkPending(p)
        BY <3>1, <3>2, <4>2, Writes
      <4>3. CASE ResumePending(p)
        BY <3>1, <3>3, <4>3, Writes
      <4>4. CASE BuildPart(p)
        <5>1. pending' = [pending EXCEPT ![Stage(p)] =
                             [there |-> pending[Stage(p)].there,
                              owner |-> pending[Stage(p)].owner,
                              parts |-> Append(pending[Stage(p)].parts, Output(p))]]
          BY <3>1, <4>4, Writes
        <5>2. QED
          BY <3>3, <4>4, <5>1, Zenon
      <4>5. QED
        BY <2>8, <3>2, <4>1, <4>2, <4>3, <4>4, Zenon
    <3>5. /\ pending' = [s \in Stages |-> [there |-> pending'[s].there,
                                           owner |-> pending'[s].owner,
                                           parts |-> pending'[s].parts]]
          /\ \A s \in Stages : Parted(pending'[s].parts)
      BY <3>1, <3>4 DEF Shape
    <3>6. QED
      BY <2>8, <3>5 DEF MakePending, MarkPending, ResumePending, BuildPart, Shape
  <2>10. CASE PublishPending(p)
    <3>1. Parted(<<>>)
      BY DEF Parted
    <3>2. QED
      BY <2>2, <2>10, <3>1 DEF PublishPending, NoPending, Shape
  <2>11. CASE LoadState(p)
    BY <2>11 DEF LoadState, Shape
  <2>12. CASE ReplaceState(p)
    BY <2>12 DEF ReplaceState, Leave, Shape, Commands, Placed
  <2>13. QED
    BY <2>1, <2>3, <2>4, <2>5, <2>6, <2>7, <2>8, <2>10, <2>11, <2>12
       DEF Goes
<1>3. QED
  BY <1>1, <1>2

\* The other processes stay where they are.
LEMMA Alone ==
  ASSUME Shape, NEW p \in Procs, NEW q \in Procs \ {p},
         Over(p) \/ Launches(p) \/ Goes(p) \/ ReplaceState(p)
  PROVE  /\ pc'[q] = pc[q] /\ job'[q] = job[q] /\ resolved'[q] = resolved[q]
         /\ built'[q] = built[q] /\ seen'[q] = seen[q]
<1> USE DEF locals, Goto
<1>1. CASE Over(p) \/ ReplaceState(p)
  BY <1>1 DEF Over, ReplaceState, Leave, Shape
<1>2. CASE Launches(p)
  BY <1>2 DEF Launches, Launch, Shape
<1>3. CASE Goes(p)
  BY <1>3 DEF Goes, Shape, ResolveParents, ReadParents, Train, HashCheckpoint,
     ResumeTraining, MakeTemporary, WritesFirst, WriteFirst, ReplaceMap,
     WriteLast, Write, AdoptDestination, NothingThere, MakePending, MarkPending,
     ResumePending, BuildPart, PublishPending, LoadState
<1>4. QED
  BY <1>1, <1>2, <1>3

\* A command keeps its stage and its environment; what it resolved, read and loaded
\* changes only where it resolves, reads and loads.
LEMMA Keeps ==
  ASSUME Shape, NEW p \in Procs, Goes(p)
  PROVE  /\ pc[p] # "idle" /\ job' = job
         /\ ResolveParents(p) \/ resolved' = resolved
         /\ ReadParents(p) \/ ResumeTraining(p) \/ built' = built
         /\ LoadState(p) \/ seen' = seen
BY DEF Goes, locals, ResolveParents, ReadParents, Train, HashCheckpoint, ResumeTraining,
   MakeTemporary, WritesFirst, WriteFirst, ReplaceMap,
     WriteLast, Write, AdoptDestination, NothingThere, MakePending, MarkPending,
     ResumePending, BuildPart, PublishPending, LoadState

\* The statement a command goes to.
LEMMA Order ==
  ASSUME Shape, NEW p \in Procs, Goes(p)
  PROVE  /\ ResolveParents(p) =>
              pc'[p] = IF Stage(p) \in Building THEN "reuse" ELSE "read"
         /\ ReadParents(p) =>
              /\ pc[p] = "read"
              /\ pc'[p] = CASE Stage(p) \in Building         -> "open"
                            [] Stage(p) = "evidence_warmup" -> "train"
                            [] OTHER                        -> "write"
         /\ Train(p) => pc[p] = "train" /\ pc'[p] = "hash"
         /\ HashCheckpoint(p) => pc[p] = "hash" /\ pc'[p] = "write"
         /\ ResumeTraining(p) => pc[p] = "train" /\ pc'[p] = "write"
         /\ MakeTemporary(p) => pc[p] = "write" /\ pc'[p] = "swap"
         /\ WritesFirst(p) => pc[p] \in {"write", "swap"} /\ pc'[p] = "rewrite"
         /\ WriteLast(p) => pc[p] = "rewrite" /\ pc'[p] = "record"
         /\ AdoptDestination(p) => pc[p] = "reuse" /\ pc'[p] = "record"
         /\ NothingThere(p) => pc[p] = "reuse" /\ pc'[p] = "read"
         /\ MakePending(p) =>
              /\ pc[p] = "open"
              /\ pc'[p] = IF Stage(p) = "audit_export" THEN "build" ELSE "mark"
         /\ MarkPending(p) => pc[p] = "mark" /\ pc'[p] = "build"
         /\ ResumePending(p) => pc[p] = "open" /\ pc'[p] = "build"
         /\ BuildPart(p) => pc[p] = "build" /\ pc'[p] = "build"
         /\ PublishPending(p) => pc[p] = "build" /\ pc'[p] = "record"
         /\ LoadState(p) => pc[p] = "record" /\ pc'[p] = "replace"
BY DEF Shape, Goto, ResolveParents, ReadParents, Train, HashCheckpoint, ResumeTraining,
   MakeTemporary, WritesFirst, WriteFirst, ReplaceMap,
     WriteLast, Write, AdoptDestination, NothingThere, MakePending, MarkPending,
     ResumePending, BuildPart, PublishPending, LoadState

\* A command that goes on is at a statement of its stage.
LEMMA PlacedStep ==
  ASSUME Shape, Commands, NEW p \in Procs, Goes(p)
  PROVE  Placed(p)'
<1> USE DEF Stage, Resolved
<1>0. /\ pc[p] # "idle" /\ job' = job /\ job[p] # Idle /\ Placed(p)
      /\ Stage(p) \in Stages
  BY Keeps DEF Commands, Placed, Shape
<1>1. CASE ResolveParents(p)
  BY <1>0, <1>1, Order, Keeps DEF ResolveParents, Placed, Shape
<1>2. CASE ReadParents(p)
  BY <1>0, <1>2, Order, Keeps, Kinds DEF ReadParents, Placed, locals
<1>3. CASE Train(p) \/ HashCheckpoint(p) \/ ResumeTraining(p) \/ MakeTemporary(p)
           \/ WritesFirst(p) \/ WriteLast(p)
  <2>0. MakeTemporary(p) => Stage(p) = "validate_data"
    BY DEF MakeTemporary
  <2>1. resolved' = resolved
    BY <1>3 DEF Train, HashCheckpoint, ResumeTraining, MakeTemporary, WritesFirst,
       WriteFirst, ReplaceMap, WriteLast, Write, locals
  <2>2. QED
    BY <1>0, <1>3, <2>0, <2>1, Order, Kinds DEF Placed
<1>4. CASE AdoptDestination(p) \/ NothingThere(p) \/ MakePending(p) \/ MarkPending(p)
           \/ ResumePending(p) \/ BuildPart(p) \/ PublishPending(p)
  <2>1. resolved' = resolved
    BY <1>4 DEF AdoptDestination, NothingThere, MakePending, MarkPending, ResumePending,
                BuildPart, PublishPending, locals
  <2>2. QED
    BY <1>0, <1>4, <2>1, Order DEF Placed
<1>5. CASE LoadState(p)
  <2>1. seen'[p] = [state EXCEPT ![Stage(p)] = Value(p)]
    BY <1>5 DEF LoadState, Shape
  <2>2. Value(p) # NoRecord
    BY Something DEF Value
  <2>3. seen'[p] = [s \in Stages |-> seen'[p][s]] /\ seen'[p][Stage(p)] = Value(p)
    BY <1>0, <2>1 DEF Shape
  <2>4. resolved' = resolved
    BY <1>5 DEF LoadState
  <2>5. QED
    BY <1>0, <1>5, <2>2, <2>3, <2>4, Order DEF Placed
<1>6. QED
  BY <1>1, <1>2, <1>3, <1>4, <1>5 DEF Goes

\* The checkpoint of the warm-up is made by Train and keeps what it is of.
LEMMA Checkpoints ==
  ASSUME Shape, Commands, NEW p \in Procs,
         Over(p) \/ Launches(p) \/ Goes(p) \/ ReplaceState(p)
  PROVE  /\ Train(p) => trained' = Training(p)
         /\ ~Train(p) /\ Checkpointed' =>
              /\ Checkpointed /\ IsCheckpoint(trained')
              /\ trained'.parents = trained.parents /\ trained'.from = trained.from
<1>1. Train(p) => trained' = Training(p)
  BY DEF Train
<1>2. ASSUME ~Train(p), Checkpointed'
      PROVE  /\ Checkpointed /\ IsCheckpoint(trained')
             /\ trained'.parents = trained.parents /\ trained'.from = trained.from
  <2>1. pc'[p] # "hash"
    <3>1. CASE Over(p) \/ ReplaceState(p)
      BY <3>1 DEF Over, ReplaceState, Leave, Goto, Shape
    <3>2. CASE Launches(p)
      BY <3>2 DEF Launches, Launch, Goto, Shape
    <3>3. CASE Goes(p)
      BY <1>2, <3>3, Order DEF Goes
    <3>4. QED
      BY <3>1, <3>2, <3>3
  <2>2. \A q \in Procs \ {p} : pc'[q] = pc[q]
    BY Alone
  <2>3. CASE HashCheckpoint(p)
    <3>1. Checkpointed /\ trained' = [trained EXCEPT !.hashed = TRUE]
      BY <2>3 DEF HashCheckpoint, Checkpointed
    <3>2. IsCheckpoint(trained)
      BY <3>1 DEF Commands
    <3>3. trained' = [config |-> trained.config, parents |-> trained.parents,
                      from |-> trained.from, hashed |-> TRUE]
      BY <3>1, <3>2 DEF IsCheckpoint
    <3>4. QED
      BY <3>1, <3>3 DEF IsCheckpoint
  <2>4. CASE trained' = trained
    <3>1. Checkpointed
      BY <1>2, <2>1, <2>2, <2>4 DEF Checkpointed
    <3>2. QED
      BY <2>4, <3>1 DEF Commands
  <2>5. trained' = trained \/ HashCheckpoint(p)
    BY <1>2 DEF Over, Launches, Launch, Goes, ReplaceState, files, ResolveParents, ReadParents,
       Train, ResumeTraining, MakeTemporary, WritesFirst, WriteFirst, ReplaceMap, WriteLast,
       Write, AdoptDestination, NothingThere, MakePending, MarkPending, ResumePending,
       BuildPart, PublishPending, LoadState
  <2>6. QED
    BY <2>3, <2>4, <2>5
<1>3. QED
  BY <1>1, <1>2

LEMMA CommandsStep == ASSUME Shape, Commands, [Next]_vars PROVE Commands'
<1>1. CASE UNCHANGED vars
  BY <1>1 DEF Commands, Placed, Apart, Stage, Resolved, Checkpointed, vars, files, locals
<1>2. CASE Next
  <2>1. PICK p \in Procs : Over(p) \/ Launches(p) \/ Goes(p) \/ ReplaceState(p)
    BY <1>2, OneStep
  <2>2. ASSUME NEW q \in Procs \ {p} PROVE Placed(q)'
    <3>1. /\ pc'[q] = pc[q] /\ job'[q] = job[q] /\ resolved'[q] = resolved[q]
          /\ seen'[q] = seen[q]
      BY <2>1, Alone
    <3>2. Placed(q)
      BY DEF Commands
    <3>3. QED
      BY <3>1, <3>2 DEF Placed, Stage, Resolved
  <2>3. Placed(p)'
    <3>1. CASE Over(p) \/ ReplaceState(p)
      BY <3>1 DEF Over, ReplaceState, Leave, Goto, Placed, Resolved, Shape
    <3>2. CASE Launches(p)
      BY <3>2, Kinds DEF Launches, Launch, Goto, Placed, Resolved, Shape, Idle
    <3>3. QED
      BY <2>1, <3>1, <3>2, PlacedStep
  <2>4. Apart'
    <3>1. \A q \in Procs \ {p} : pc'[q] = pc[q] /\ job'[q] = job[q]
      BY <2>1, Alone
    <3>2. CASE Over(p) \/ ReplaceState(p)
      <4>1. pc'[p] = "idle" /\ job'[p] = Idle
        BY <3>2 DEF Over, ReplaceState, Leave, Goto, Shape
      <4>2. \A q \in Procs : pc[q] # "idle" => Stage(q) # None
        BY Kinds DEF Commands, Placed, Shape, Stage
      <4>3. QED
        BY <3>1, <4>1, <4>2 DEF Apart, Commands, Stage, Idle
    <3>3. CASE Launches(p)
      BY <3>1, <3>3 DEF Launches, Launch, Apart, Commands, Stage, Shape
    <3>4. CASE Goes(p)
      BY <3>1, <3>4, Keeps DEF Apart, Commands, Stage
    <3>5. QED
      BY <2>1, <3>2, <3>3, <3>4
  <2>5. \A s \in Stages : pending'[s].there => s \in Building
    <3>1. CASE MakePending(p) \/ MarkPending(p) \/ ResumePending(p) \/ BuildPart(p)
                 \/ PublishPending(p)
      <4>1. Stage(p) \in Stages /\ Stage(p) \in Building
        <5>1. pc[p] \in {"open", "mark", "build"}
          BY <3>1 DEF MakePending, MarkPending, ResumePending, BuildPart, PublishPending
        <5>2. QED
          BY <5>1 DEF Commands, Placed, Shape, Stage
      <4>2. \A s \in Stages : s # Stage(p) => pending'[s] = pending[s]
        BY <3>1, <4>1 DEF Shape, MakePending, MarkPending, ResumePending,
                    BuildPart, PublishPending
      <4>3. QED
        BY <4>1, <4>2 DEF Commands
    <3>2. CASE pending' = pending
      BY <3>2 DEF Commands
    <3>3. QED
      BY <2>1, <3>1, <3>2 DEF Over, Launches, Launch, Goes, ReplaceState, files,
         ResolveParents, ReadParents, Train, HashCheckpoint, ResumeTraining,
         MakeTemporary, WritesFirst, WriteFirst, ReplaceMap,
         WriteLast, Write, AdoptDestination, NothingThere, LoadState
  <2>6. Checkpointed' => IsCheckpoint(trained')
    BY <2>1, Checkpoints DEF Training, IsCheckpoint
  <2>7. QED
    BY <2>2, <2>3, <2>4, <2>5, <2>6 DEF Commands
<1>3. QED
  BY <1>1, <1>2

(***************************************************************************)
(* Outputs appear and stay                                                 *)
(***************************************************************************)

\* Which actions move the outputs, the run state and the pending directories.
LEMMA Moves ==
  ASSUME NEW p \in Procs, Over(p) \/ Launches(p) \/ Goes(p) \/ ReplaceState(p)
  PROVE  /\ WritesFirst(p) \/ WriteLast(p) \/ PublishPending(p) \/ dest' = dest
         /\ ReplaceState(p) \/ (state' = state /\ ever' = ever)
         /\ MakePending(p) \/ MarkPending(p) \/ ResumePending(p) \/ BuildPart(p)
              \/ PublishPending(p) \/ pending' = pending
         /\ ReplaceMap(p) \/ MakeTemporary(p) \/ strays' = strays
         /\ LoadState(p) \/ raced' = raced
         /\ WritesFirst(p) \/ WriteLast(p) \/ healed' = healed
         /\ Launches(p) \/ foreign' = foreign
BY DEF Over, Launches, Launch, Goes, ReplaceState, files, ghosts, bounds,
     ResolveParents, ReadParents, Train, HashCheckpoint, ResumeTraining, MakeTemporary,
     WritesFirst, WriteFirst, ReplaceMap, WriteLast, Write,
     AdoptDestination, NothingThere, MakePending, MarkPending, ResumePending, BuildPart,
     PublishPending, LoadState

\* An output that is there stays there; only the stage of the process is touched,
\* and one that is built only where nothing was.
LEMMA OutputsStay ==
  ASSUME Shape, Commands, Whole, NEW p \in Procs,
         Over(p) \/ Launches(p) \/ Goes(p) \/ ReplaceState(p)
  PROVE  /\ \A s \in Stages : dest[s].first # NoOutput => dest'[s].first # NoOutput
         /\ \A s \in Stages : dest[s].last # NoOutput => dest'[s].last # NoOutput
         /\ \A s \in Stages \cap Building :
               dest'[s] = dest[s] \/ dest[s].last = NoOutput
         /\ \A s \in Stages : s # Stage(p) => dest'[s] = dest[s]
<1>1. CASE dest' = dest
  BY <1>1
<1>2. CASE WritesFirst(p) \/ WriteLast(p)
  <2>1. Stage(p) \in Stages /\ Stage(p) \notin Building
    <3>1. pc[p] \in {"write", "swap", "rewrite"}
      BY <1>2 DEF WritesFirst, WriteFirst, ReplaceMap, WriteLast
    <3>2. QED
      BY <3>1, Kinds DEF Commands, Placed, Shape, Stage
  <2>2. Output(p) # NoOutput
    BY Something DEF Output
  <2>3. \A s \in Stages : s # Stage(p) => dest'[s] = dest[s]
    BY <1>2, <2>1, Entries
  <2>4. /\ dest'[Stage(p)].first \in {dest[Stage(p)].first, Output(p)}
        /\ dest'[Stage(p)].last \in {dest[Stage(p)].last, Output(p)}
    <3>1. CASE WritesFirst(p)
      <4>1. dest'[Stage(p)] = [first |-> Output(p), last |-> dest[Stage(p)].last]
        BY <2>1, <3>1, Entries
      <4>2. QED
        BY <4>1
    <3>2. CASE WriteLast(p)
      <4>1. dest'[Stage(p)] = [first |-> dest[Stage(p)].first, last |-> Output(p)]
        BY <2>1, <3>2, Entries
      <4>2. QED
        BY <4>1
    <3>3. QED
      BY <1>2, <3>1, <3>2
  <2>5. QED
    BY <2>1, <2>2, <2>3, <2>4
<1>3. CASE PublishPending(p)
  <2>1. Stage(p) \in Stages /\ Stage(p) \in Building /\ pc[p] = "build"
    BY <1>3 DEF PublishPending, Commands, Placed, Shape, Stage
  <2>2. dest[Stage(p)].last = NoOutput /\ dest[Stage(p)].first = NoOutput
    BY <2>1 DEF Whole, Finds
  <2>3. \A s \in Stages : s # Stage(p) => dest'[s] = dest[s]
    BY <1>3, <2>1 DEF PublishPending, Shape
  <2>4. QED
    BY <2>1, <2>2, <2>3
<1>4. QED
  BY <1>1, <1>2, <1>3, Moves

\* What the finished parts of a pending directory are after a step: the ones that
\* were there and those the process of that stage builds.
LEMMA PartsMove ==
  ASSUME Shape, Commands, NEW p \in Procs,
         Over(p) \/ Launches(p) \/ Goes(p) \/ ReplaceState(p),
         NEW s \in Stages, NEW i \in DOMAIN pending'[s].parts
  PROVE  \/ i \in DOMAIN pending[s].parts /\ pending'[s].parts[i] = pending[s].parts[i]
         \/ s = Stage(p) /\ BuildPart(p) /\ pending'[s].parts[i] = Output(p)
<1>1. CASE pending' = pending
  BY <1>1
<1>2. CASE MakePending(p) \/ PublishPending(p)
  <2>1. pending'[s] = pending[s] \/ pending'[s] \in {Unmarked, NoPending}
    BY <1>2 DEF MakePending, PublishPending, Shape
  <2>2. Unmarked.parts = <<>> /\ NoPending.parts = <<>>
    BY DEF Unmarked, NoPending
  <2>3. QED
    BY <2>1, <2>2
<1>3. CASE MarkPending(p) \/ ResumePending(p) \/ BuildPart(p)
  <2>1. Stage(p) \in Stages
    BY <1>3 DEF MarkPending, ResumePending, BuildPart, Commands, Placed, Shape, Stage
  <2>2. CASE s # Stage(p)
    BY <1>3, <2>1, <2>2, Entries
  <2>3. CASE s = Stage(p) /\ MarkPending(p)
    <3>1. pending'[s] = [there |-> pending[s].there, owner |-> Provenance(p),
                         parts |-> pending[s].parts]
      BY <2>1, <2>3, Entries
    <3>2. QED
      BY <3>1
  <2>4. CASE s = Stage(p) /\ ResumePending(p)
    <3>1. pending'[s] = [there |-> pending[s].there, owner |-> pending[s].owner,
                         parts |-> KeptParts(s, pending[s].parts)]
      BY <2>1, <2>4, Entries
    <3>2. Parted(pending[s].parts)
      BY DEF Shape
    <3>3. \A k \in DOMAIN KeptParts(s, pending[s].parts) :
             /\ k \in DOMAIN pending[s].parts
             /\ KeptParts(s, pending[s].parts)[k] = pending[s].parts[k]
      BY <3>2, Parts
    <3>4. QED
      BY <3>1, <3>3
  <2>5. CASE s = Stage(p) /\ BuildPart(p)
    <3>1. pending'[s] = [there |-> pending[s].there, owner |-> pending[s].owner,
                         parts |-> Append(pending[s].parts, Output(p))]
      BY <2>1, <2>5, Entries
    <3>2. Parted(pending[s].parts) /\ Len(pending[s].parts) < 2
      BY <2>5 DEF Shape, BuildPart
    <3>3. \A k \in DOMAIN Append(pending[s].parts, Output(p)) :
             \/ Append(pending[s].parts, Output(p))[k] = Output(p)
             \/ /\ k \in DOMAIN pending[s].parts
                /\ Append(pending[s].parts, Output(p))[k] = pending[s].parts[k]
      BY <3>2, Parts
    <3>4. QED
      BY <2>5, <3>1, <3>3
  <2>6. QED
    BY <1>3, <2>2, <2>3, <2>4, <2>5
<1>4. QED
  BY <1>1, <1>2, <1>3, Moves

\* A record keeps what it is of.
LEMMA KeptStays ==
  ASSUME Shape, Commands, Whole, NEW p \in Procs,
         Over(p) \/ Launches(p) \/ Goes(p) \/ ReplaceState(p),
         NEW s \in Stages, NEW r, Kept(s, r)
  PROVE  Kept(s, r)'
  BY OutputsStay, HashedBuilt DEF Kept, Present

\* A process that did not move finds what it found.
LEMMA FindsStays ==
  ASSUME Shape, Commands, Whole, NEW p \in Procs,
         Over(p) \/ Launches(p) \/ Goes(p) \/ ReplaceState(p),
         NEW q \in Procs \ {p}
  PROVE  Finds(q)'
<1>1. /\ pc'[q] = pc[q] /\ job'[q] = job[q] /\ seen'[q] = seen[q]
  BY Alone
<1>2. CASE pc[q] = "idle"
  BY <1>1, <1>2 DEF Finds, Resolved
<1>3. CASE pc[q] # "idle"
  <2>1. Stage(q) \in Stages /\ Stage(q) # Stage(p) /\ Parents(Stage(q)) \subseteq Stages
    <3>1. Stage(q) \in Stages
      BY <1>3 DEF Commands, Placed, Shape, Stage
    <3>2. QED
      BY <1>3, <3>1, Kinds DEF Commands, Apart
  <2>2. Finds(q)
    BY DEF Whole
  <2>3. dest'[Stage(q)] = dest[Stage(q)]
    BY <2>1, OutputsStay
  <2>4. pc[q] = "replace" => \A s \in Stages : Kept(s, seen[q][s])'
    BY <1>1, <2>2, KeptStays DEF Finds
  <2>5. Resolved(q) => \A t \in Parents(Stage(q)) : Present(t)'
    BY <2>1, <2>2, OutputsStay DEF Finds, Present
  <2>6. QED
    BY <1>1, <2>1, <2>2, <2>3, <2>4, <2>5 DEF Finds, Resolved, Stage, Present
<1>4. QED
  BY <1>2, <1>3

\* A process that goes on finds what its next statement relies on.
LEMMA FindsStep ==
  ASSUME Shape, Commands, Whole, NEW p \in Procs, Goes(p)
  PROVE  Finds(p)'
<1>0. /\ pc[p] # "idle" /\ job' = job /\ Finds(p)
      /\ Stage(p) \in Stages /\ Parents(Stage(p)) \subseteq Stages
      /\ Stage(p)' = Stage(p) /\ Placed(p)
  BY Keeps, Kinds DEF Commands, Placed, Shape, Stage, Whole
<1>1. Resolved(p) => \A q \in Parents(Stage(p)) : Present(q)'
  BY <1>0, OutputsStay DEF Finds, Present
<1>2. CASE ResolveParents(p)
  <2>1. dest' = dest /\ \A q \in Parents(Stage(p)) : Present(q)
    BY <1>0, <1>2 DEF ResolveParents, Resolves, Registered, Whole, Kept, files
  <2>2. Stage(p) \notin Building => pc'[p] = "read"
    BY <1>2, Order
  <2>3. Stage(p) \in Building => pc'[p] = "reuse"
    BY <1>2, Order
  <2>4. QED
    BY <1>0, <2>1, <2>2, <2>3 DEF Finds, Resolved, Present
<1>3. CASE ReadParents(p)
  <2>1. pc[p] = "read" /\ pc'[p] \in {"open", "train", "write"} /\ dest' = dest
    BY <1>3, Order DEF ReadParents, files
  <2>2. QED
    BY <1>0, <1>1, <2>1 DEF Finds, Resolved
<1>4. CASE Train(p) \/ HashCheckpoint(p) \/ ResumeTraining(p) \/ MakeTemporary(p)
           \/ AdoptDestination(p) \/ NothingThere(p)
  <2>1. /\ dest' = dest /\ pc[p] \in {"train", "hash", "write", "reuse"}
        /\ pc'[p] \in {"hash", "write", "swap", "record", "read"}
    BY <1>4, Order DEF Train, HashCheckpoint, ResumeTraining, MakeTemporary,
       AdoptDestination, NothingThere, files
  <2>2. pc'[p] = "record" => Present(Stage(p))
    BY <1>0, <1>4, Order DEF AdoptDestination, Placed, Whole, Present
  <2>3. pc'[p] = "read" => dest[Stage(p)].last = NoOutput
    BY <1>4, Order DEF NothingThere
  <2>4. QED
    BY <1>0, <1>1, <2>1, <2>2, <2>3 DEF Finds, Resolved, Present
<1>5. CASE WritesFirst(p)
  <2>1. dest'[Stage(p)] = [first |-> Output(p), last |-> dest[Stage(p)].last]
    BY <1>0, <1>5, Entries
  <2>2. Output(p) # NoOutput
    BY Something DEF Output
  <2>3. pc[p] \in {"write", "swap"} /\ pc'[p] = "rewrite"
    BY <1>5, Order
  <2>4. QED
    BY <1>0, <1>1, <2>1, <2>2, <2>3 DEF Finds, Resolved
<1>6. CASE WriteLast(p)
  <2>1. dest'[Stage(p)] = [first |-> dest[Stage(p)].first, last |-> Output(p)]
    BY <1>0, <1>6, Entries
  <2>2. Output(p) # NoOutput
    BY Something DEF Output
  <2>3. pc[p] = "rewrite" /\ pc'[p] = "record"
    BY <1>6, Order
  <2>4. Present(Stage(p))'
    BY <1>0, <2>1, <2>2, <2>3 DEF Finds, Present
  <2>5. QED
    BY <1>0, <1>1, <2>3, <2>4 DEF Finds, Resolved
<1>7. CASE MakePending(p) \/ MarkPending(p) \/ ResumePending(p) \/ BuildPart(p)
  <2>1. /\ dest' = dest
        /\ pc[p] \in {"open", "mark", "build"} /\ pc'[p] \in {"mark", "build"}
    BY <1>7, Order DEF MakePending, MarkPending, ResumePending, BuildPart
  <2>2. QED
    BY <1>0, <1>1, <2>1 DEF Finds, Resolved
<1>8. CASE PublishPending(p)
  <2>1. Parted(pending[Stage(p)].parts) /\ Len(pending[Stage(p)].parts) = 2
    BY <1>0, <1>8 DEF PublishPending, Shape
  <2>2. {1, 2} \subseteq DOMAIN pending[Stage(p)].parts
    BY <2>1, Parts
  <2>3. pending[Stage(p)].parts[1] # NoOutput /\ pending[Stage(p)].parts[2] # NoOutput
    BY <1>0, <2>2 DEF Whole
  <2>4. dest'[Stage(p)] = [first |-> pending[Stage(p)].parts[1],
                           last  |-> pending[Stage(p)].parts[2]]
    BY <1>0, <1>8 DEF PublishPending, Shape
  <2>5. Present(Stage(p))'
    BY <1>0, <2>3, <2>4 DEF Present
  <2>6. pc[p] = "build" /\ pc'[p] = "record"
    BY <1>8, Order
  <2>7. QED
    BY <1>0, <1>1, <2>5, <2>6 DEF Finds, Resolved
<1>9. CASE LoadState(p)
  <2>1. seen'[p] = [state EXCEPT ![Stage(p)] = Value(p)]
    BY <1>9 DEF LoadState, Shape
  <2>2. dest' = dest /\ pc[p] = "record" /\ pc'[p] = "replace"
    BY <1>9, Order DEF LoadState, files
  <2>3. Kept(Stage(p), Value(p))
    <3>1. resolved[p] = [q \in Parents(Stage(p)) |-> resolved[p][q]]
      BY <1>0, <2>2 DEF Placed, Resolved
    <3>2. Present(Stage(p))
      BY <1>0, <2>2 DEF Finds
    <3>3. Stage(p) \in Building => Value(p).outputs = Hashed(Stage(p))
      BY DEF Value
    <3>4. QED
      BY <3>1, <3>2, <3>3 DEF Kept, Value
  <2>4. \A s \in Stages : Kept(s, seen'[p][s])
    BY <1>0, <2>1, <2>3 DEF Whole, Shape
  <2>5. \A s \in Stages : Kept(s, seen[p][s])'
    BY <2>2, <2>4, HashedBuilt DEF Kept, Present
  <2>6. QED
    BY <1>0, <1>1, <2>2, <2>5 DEF Finds, Resolved
<1>10. QED
  BY <1>2, <1>3, <1>4, <1>5, <1>6, <1>7, <1>8, <1>9 DEF Goes

LEMMA WholeInit == Init => Whole
<1> SUFFICES ASSUME Init PROVE Whole
  OBVIOUS
<1>1. \A s \in Stages : pending[s].parts = <<>> /\ state[s] = NoRecord
                        /\ dest[s].first = NoOutput /\ dest[s].last = NoOutput
  BY DEF Init, NoPending
<1>2. \A p \in Procs : pc[p] = "idle"
  BY DEF Init
<1>3. QED
  BY <1>1, <1>2 DEF Whole, Finds, Resolved, Kept

LEMMA WholeStep == ASSUME Shape, Commands, Whole, [Next]_vars PROVE Whole'
<1>1. CASE UNCHANGED vars
  BY <1>1 DEF Whole, Finds, Kept, Present, Hashed, Stage, Resolved, vars, files, locals
<1>2. CASE Next
  <2>1. PICK p \in Procs : Over(p) \/ Launches(p) \/ Goes(p) \/ ReplaceState(p)
    BY <1>2, OneStep
  <2>2. \A s \in Stages : \A i \in DOMAIN pending'[s].parts : pending'[s].parts[i] # NoOutput
    <3>1. Output(p) # NoOutput
      BY Something DEF Output
    <3>2. QED
      BY <2>1, <3>1, PartsMove DEF Whole
  <2>3. \A s \in Stages : Kept(s, state[s])'
    <3>1. CASE ReplaceState(p)
      <4>1. Finds(p) /\ pc[p] = "replace" /\ state' = seen[p]
        BY <3>1 DEF ReplaceState, Whole
      <4>2. \A s \in Stages : Kept(s, seen[p][s])
        BY <4>1 DEF Finds
      <4>3. dest' = dest
        BY <3>1 DEF ReplaceState
      <4>4. QED
        BY <4>1, <4>2, <4>3, HashedBuilt DEF Kept, Present
    <3>2. CASE state' = state
      BY <2>1, <3>2, OutputsStay, HashedBuilt DEF Whole, Kept, Present
    <3>3. QED
      BY <2>1, <3>1, <3>2, Moves
  <2>4. \A s \in Stages \cap Building : dest'[s].first = NoOutput <=> dest'[s].last = NoOutput
    <3>1. CASE PublishPending(p)
      <4>1. Finds(p)' /\ pc'[p] = "record" /\ Stage(p)' = Stage(p)
        BY <3>1, FindsStep, Order, Keeps DEF Goes, Stage
      <4>2. QED
        BY <2>1, <4>1, OutputsStay DEF Finds, Present, Whole
    <3>2. CASE WritesFirst(p) \/ WriteLast(p)
      <4>1. Stage(p) \in Stages /\ Stage(p) \notin Building
        <5>1. pc[p] \in {"write", "swap", "rewrite"}
          BY <3>2 DEF WritesFirst, WriteFirst, ReplaceMap, WriteLast
        <5>2. QED
          BY <5>1, Kinds DEF Commands, Placed, Shape, Stage
      <4>2. QED
        BY <2>1, <4>1, OutputsStay DEF Whole
    <3>3. CASE dest' = dest
      BY <3>3 DEF Whole
    <3>4. QED
      BY <2>1, <3>1, <3>2, <3>3, Moves
  <2>5. Finds(p)'
    <3>1. CASE Over(p) \/ ReplaceState(p)
      BY <3>1 DEF Over, ReplaceState, Leave, Goto, Shape, Finds, Resolved
    <3>2. CASE Launches(p)
      BY <3>2 DEF Launches, Launch, Goto, Shape, Finds, Resolved
    <3>3. QED
      BY <2>1, <3>1, <3>2, FindsStep
  <2>6. QED
    BY <2>1, <2>2, <2>3, <2>4, <2>5, FindsStays DEF Whole
<1>3. QED
  BY <1>1, <1>2

\* Once an output is there it is not taken away, and the record of a stage that is
\* built is of what its directory holds.
LEMMA WholeStore == Spec => [](Shape /\ Commands /\ Whole)
<1>1. Init => Shape /\ Commands /\ Whole
  BY ShapeInit, WholeInit
<1>2. Shape /\ Commands /\ Whole /\ [Next]_vars => (Shape /\ Commands /\ Whole)'
  BY ShapeStep, CommandsStep, WholeStep
<1>3. QED
  BY <1>1, <1>2, PTL DEF Spec

\* The records and directories of the store are well formed in every state of every
\* instance: a record names all the parents of its stage, a directory never holds more
\* than its two parts, and a renamed one appears whole.
THEOREM StoreTypeCorrect == Spec => []TypeOK
<1>1. Shape /\ Commands /\ Whole => TypeOK
  <2> SUFFICES ASSUME Shape, Commands, Whole PROVE TypeOK
    OBVIOUS
  <2>1. ASSUME NEW s \in Stages
        PROVE  /\ Registered(s) => DOMAIN state[s].parents = Parents(s)
               /\ pending[s].there => s \in Building /\ Len(pending[s].parts) <= 2
               /\ s \in Building => (dest[s].first = NoOutput) = (dest[s].last = NoOutput)
    <3>1. Len(pending[s].parts) <= 2
      BY Parts DEF Shape
    <3>2. s \in Building => (dest[s].first = NoOutput <=> dest[s].last = NoOutput)
      BY DEF Whole
    <3>3. QED
      BY <3>1, <3>2 DEF Commands, Whole, Kept, Registered
  <2>2. /\ \A p \in Procs : pc[p] = "idle" <=> job[p] = Idle
        /\ crashes \in 0..MaxCrashes /\ extras \in 0..MaxExtras
    BY DEF Commands, Placed, Shape
  <2>3. QED
    BY <2>1, <2>2 DEF TypeOK
<1>2. QED
  BY <1>1, WholeStore, PTL

\* A registered stage that is built in a pending directory and renamed resolves for
\* ever after, whatever runs, is killed or races: artifacts.py compares its hashes
\* with those of files that no command writes over.
THEOREM BuiltWhole == Spec => []BuiltStaysWhole
<1>1. Whole => BuiltStaysWhole
  BY DEF Whole, Kept, BuiltStaysWhole, Registered, Resolves
<1>2. QED
  BY <1>1, WholeStore, PTL

(***************************************************************************)
(* Outputs carry the environment of their command                          *)
(***************************************************************************)

\* A process touches no pending directory but that of its stage.
LEMMA Elsewhere ==
  ASSUME Shape, Commands, NEW p \in Procs,
         Over(p) \/ Launches(p) \/ Goes(p) \/ ReplaceState(p),
         NEW s \in Stages, s # Stage(p)
  PROVE  pending'[s] = pending[s]
<1>1. CASE MarkPending(p) \/ ResumePending(p) \/ BuildPart(p)
  <2>1. Stage(p) \in Stages
    BY <1>1 DEF MarkPending, ResumePending, BuildPart, Commands, Placed, Shape, Stage
  <2>2. QED
    BY <1>1, <2>1, Entries
<1>2. CASE MakePending(p) \/ PublishPending(p)
  BY <1>2 DEF MakePending, PublishPending, Shape
<1>3. QED
  BY <1>1, <1>2, Moves

LEMMA SignsStays ==
  ASSUME Shape, Commands, Whole, Signed, NEW p \in Procs,
         Over(p) \/ Launches(p) \/ Goes(p) \/ ReplaceState(p),
         NEW q \in Procs \ {p}
  PROVE  Signs(q)'
<1>1. /\ pc'[q] = pc[q] /\ job'[q] = job[q]
  BY Alone
<1>2. CASE pc[q] = "idle"
  BY <1>1, <1>2 DEF Signs
<1>3. CASE pc[q] # "idle"
  <2>1. Stage(q) \in Stages /\ Stage(q) # Stage(p)
    BY <1>3 DEF Commands, Placed, Shape, Stage, Apart
  <2>2. dest'[Stage(q)] = dest[Stage(q)] /\ pending'[Stage(q)] = pending[Stage(q)]
    BY <2>1, OutputsStay, Elsewhere
  <2>3. Signs(q)
    BY DEF Signed
  <2>4. QED
    BY <1>1, <2>2, <2>3 DEF Signs, Stage, Env
<1>4. QED
  BY <1>2, <1>3

LEMMA SignsStep ==
  ASSUME Shape, Commands, Whole, Signed, NEW p \in Procs, Goes(p)
  PROVE  Signs(p)'
<1>0. /\ pc[p] # "idle" /\ job' = job /\ Signs(p) /\ Placed(p)
      /\ Stage(p) \in Stages /\ Stage(p)' = Stage(p) /\ Env(p)' = Env(p)
  BY Keeps DEF Commands, Placed, Shape, Stage, Env, Signed
<1>1. CASE ResolveParents(p) \/ ReadParents(p) \/ Train(p) \/ HashCheckpoint(p)
           \/ ResumeTraining(p) \/ MakeTemporary(p) \/ WritesFirst(p) \/ NothingThere(p)
           \/ LoadState(p)
  <2>1. pc'[p] \notin {"mark", "build", "record"}
    BY <1>1, Order
  <2>2. QED
    BY <2>1 DEF Signs
<1>2. CASE WriteLast(p)
  <2>1. dest'[Stage(p)] = [first |-> dest[Stage(p)].first, last |-> Output(p)]
    BY <1>0, <1>2, Entries
  <2>2. pc'[p] = "record"
    BY <1>2, Order
  <2>3. QED
    BY <1>0, <2>1, <2>2 DEF Signs, Output
<1>3. CASE AdoptDestination(p)
  <2>1. pc'[p] = "record" /\ dest' = dest
    BY <1>3, Order DEF AdoptDestination, files
  <2>2. dest[Stage(p)].last.env = Seen(Stage(p), Env(p))
    BY <1>3 DEF AdoptDestination, SameProvenance, Provenance
  <2>3. QED
    BY <1>0, <2>1, <2>2 DEF Signs
<1>4. CASE MakePending(p)
  <2>1. /\ pc'[p] \in {"mark", "build"} /\ (pc'[p] = "build" => Stage(p) = "audit_export")
        /\ pending'[Stage(p)].parts = <<>>
    BY <1>0, <1>4, Order DEF MakePending, Unmarked, Shape
  <2>2. QED
    BY <1>0, <2>1 DEF Signs
<1>5. CASE MarkPending(p)
  <2>1. pending'[Stage(p)] = [there |-> pending[Stage(p)].there, owner |-> Provenance(p),
                              parts |-> pending[Stage(p)].parts]
    BY <1>0, <1>5, Entries
  <2>2. pc[p] = "mark" /\ pc'[p] = "build"
    BY <1>5, Order
  <2>3. pending'[Stage(p)].parts = <<>>
    BY <1>0, <2>1, <2>2 DEF Signs
  <2>4. pending'[Stage(p)].owner.env = Seen(Stage(p), Env(p))
    BY <2>1 DEF Provenance
  <2>5. QED
    BY <1>0, <2>2, <2>3, <2>4 DEF Signs
<1>6. CASE ResumePending(p)
  <2>1. /\ pending[Stage(p)].owner = Provenance(p) /\ Stage(p) # "audit_export"
        /\ pc'[p] = "build"
    BY <1>6, Order DEF ResumePending, Resumable
  <2>2. pending'[Stage(p)].owner = pending[Stage(p)].owner
    <3>1. pending'[Stage(p)] = [there |-> pending[Stage(p)].there,
                                owner |-> pending[Stage(p)].owner,
                                parts |-> KeptParts(Stage(p), pending[Stage(p)].parts)]
      BY <1>0, <1>6, Entries
    <3>2. QED
      BY <3>1
  <2>3. pending[Stage(p)].owner.env = Seen(Stage(p), Env(p))
    BY <2>1 DEF Provenance
  <2>4. \A i \in DOMAIN pending'[Stage(p)].parts :
           pending'[Stage(p)].parts[i].env = Seen(Stage(p), Env(p))
    <3>1. ~BuildPart(p)
      BY <1>6 DEF ResumePending, BuildPart
    <3>2. QED
      BY <1>0, <2>1, <2>3, <3>1, PartsMove DEF Signed
  <2>5. QED
    BY <1>0, <2>1, <2>2, <2>3, <2>4 DEF Signs
<1>7. CASE BuildPart(p)
  <2>1. pc[p] = "build" /\ pc'[p] = "build"
    BY <1>7, Order
  <2>2. pending'[Stage(p)].owner = pending[Stage(p)].owner
    <3>1. pending'[Stage(p)] = [there |-> pending[Stage(p)].there,
                                owner |-> pending[Stage(p)].owner,
                                parts |-> Append(pending[Stage(p)].parts, Output(p))]
      BY <1>0, <1>7, Entries
    <3>2. QED
      BY <3>1
  <2>3. \A i \in DOMAIN pending'[Stage(p)].parts :
           pending'[Stage(p)].parts[i].env = Seen(Stage(p), Env(p))
    <3>1. Output(p).env = Seen(Stage(p), Env(p))
      BY DEF Output
    <3>2. \A i \in DOMAIN pending[Stage(p)].parts :
             pending[Stage(p)].parts[i].env = Seen(Stage(p), Env(p))
      BY <1>0, <2>1 DEF Signs
    <3>3. QED
      BY <1>0, <3>1, <3>2, PartsMove
  <2>4. QED
    BY <1>0, <2>1, <2>2, <2>3 DEF Signs
<1>8. CASE PublishPending(p)
  <2>1. Parted(pending[Stage(p)].parts) /\ Len(pending[Stage(p)].parts) = 2
    BY <1>0, <1>8 DEF PublishPending, Shape
  <2>2. 2 \in DOMAIN pending[Stage(p)].parts
    BY <2>1, Parts
  <2>3. pc[p] = "build" /\ pc'[p] = "record"
    BY <1>8, Order
  <2>4. pending[Stage(p)].parts[2].env = Seen(Stage(p), Env(p))
    BY <1>0, <2>2, <2>3 DEF Signs
  <2>5. dest'[Stage(p)].last = pending[Stage(p)].parts[2]
    BY <1>0, <1>8 DEF PublishPending, Shape
  <2>6. QED
    BY <1>0, <2>3, <2>4, <2>5 DEF Signs
<1>9. QED
  BY <1>1, <1>2, <1>3, <1>4, <1>5, <1>6, <1>7, <1>8 DEF Goes

LEMMA SignedInit == Init => Signed
<1> SUFFICES ASSUME Init PROVE Signed
  OBVIOUS
<1>1. (\A s \in Stages : pending[s].parts = <<>>) /\ \A p \in Procs : pc[p] = "idle"
  BY DEF Init, NoPending
<1>2. QED
  BY <1>1 DEF Signed, Signs

LEMMA SignedStep == ASSUME Shape, Commands, Whole, Signed, [Next]_vars PROVE Signed'
<1>1. CASE UNCHANGED vars
  BY <1>1 DEF Signed, Signs, Stage, Env, vars, files, locals
<1>2. CASE Next
  <2>1. PICK p \in Procs : Over(p) \/ Launches(p) \/ Goes(p) \/ ReplaceState(p)
    BY <1>2, OneStep
  <2>2. Signs(p)'
    <3>1. CASE Over(p) \/ ReplaceState(p)
      BY <3>1 DEF Over, ReplaceState, Leave, Goto, Shape, Signs
    <3>2. CASE Launches(p)
      BY <3>2 DEF Launches, Launch, Goto, Shape, Signs
    <3>3. QED
      BY <2>1, <3>1, <3>2, SignsStep
  <2>3. ASSUME NEW s \in Stages \ {"audit_export"}, NEW i \in DOMAIN pending'[s].parts
        PROVE  pending'[s].parts[i].env = pending'[s].owner.env
    <3>1. CASE s = Stage(p) /\ MarkPending(p)
      <4>1. pc[p] = "mark" /\ Stage(p) \in Stages
        BY <3>1 DEF MarkPending
      <4>2. pending[s].parts = <<>>
        BY <3>1, <4>1 DEF Signed, Signs
      <4>3. ~BuildPart(p)
        BY <4>1 DEF BuildPart
      <4>4. QED
        BY <2>1, <4>2, <4>3, PartsMove
    <3>2. CASE s = Stage(p) /\ BuildPart(p)
      <4>1. pending'[s] = [there |-> pending[s].there, owner |-> pending[s].owner,
                           parts |-> Append(pending[s].parts, Output(p))]
        BY <3>2, Entries
      <4>2. pending[s].owner.env = Seen(s, Env(p))
        BY <3>2 DEF Signed, Signs, BuildPart
      <4>3. Output(p).env = Seen(s, Env(p))
        BY <3>2 DEF Output
      <4>4. pending'[s].parts[i].env = Seen(s, Env(p))
        BY <2>1, <4>2, <4>3, PartsMove DEF Signed
      <4>5. QED
        BY <4>1, <4>2, <4>4
    <3>3. CASE s = Stage(p) /\ ResumePending(p)
      <4>1. pending'[s] = [there |-> pending[s].there, owner |-> pending[s].owner,
                           parts |-> KeptParts(s, pending[s].parts)]
        BY <3>3, Entries
      <4>2. ~BuildPart(p)
        BY <3>3 DEF BuildPart, ResumePending
      <4>3. QED
        BY <2>1, <4>1, <4>2, PartsMove DEF Signed
    <3>4. CASE s = Stage(p) /\ (MakePending(p) \/ PublishPending(p))
      BY <3>4 DEF MakePending, PublishPending, Unmarked, NoPending, Shape
    <3>5. CASE s # Stage(p) \/ pending' = pending
      <4>1. pending'[s] = pending[s]
        BY <2>1, <3>5, Elsewhere
      <4>2. QED
        BY <4>1 DEF Signed
    <3>6. QED
      BY <2>1, <3>1, <3>2, <3>3, <3>4, <3>5, Moves
  <2>4. QED
    BY <2>1, <2>2, <2>3, SignsStays DEF Signed
<1>3. QED
  BY <1>1, <1>2

(***************************************************************************)
(* Registrations stay                                                      *)
(***************************************************************************)

\* A registration is replaced by itself.
LEMMA RecordsStay ==
  ASSUME Shape, Commands, Once, NEW p \in Procs,
         Over(p) \/ Launches(p) \/ Goes(p) \/ ReplaceState(p),
         NEW s \in Stages, Registered(s)
  PROVE  state'[s] = state[s]
<1>1. CASE ReplaceState(p)
  <2>1. state' = seen[p] /\ pc[p] = "replace"
    BY <1>1 DEF ReplaceState
  <2>2. /\ seen[p] = [state EXCEPT ![Stage(p)] = seen[p][Stage(p)]]
        /\ state[Stage(p)] \in {NoRecord, seen[p][Stage(p)]}
    BY <2>1 DEF Once, Extends
  <2>3. DOMAIN state = Stages
    BY DEF Shape
  <2>4. QED
    BY <2>1, <2>2, <2>3 DEF Registered
<1>2. QED
  BY <1>1, Moves

\* What is registered for the parents stays what it is.
LEMMA KnownStays ==
  ASSUME Shape, Commands, Once, NEW p \in Procs,
         Over(p) \/ Launches(p) \/ Goes(p) \/ ReplaceState(p),
         NEW s, NEW ps, Known(s, ps)
  PROVE  Known(s, ps)'
<1>1. \A q \in Parents(s) : q \in Stages
  BY DEF Parents
<1>2. \A q \in Parents(s) : Registered(q) /\ ps[q] = state[q].outputs
  BY DEF Known
<1>3. \A q \in Parents(s) : state'[q] = state[q]
  BY <1>1, <1>2, RecordsStay
<1>4. QED
  BY <1>2, <1>3 DEF Known, Registered

\* A command that loads the run state composes one that names registered parents.
LEMMA LoadKnown ==
  ASSUME Shape, Commands, NEW p \in Procs, LoadState(p)
  PROVE  /\ Stage(p) \in Stages /\ Stage(p)' = Stage(p)
         /\ seen'[p] = [state EXCEPT ![Stage(p)] = Value(p)]
         /\ seen'[p][Stage(p)] = Value(p)
         /\ state' = state
         /\ state[Stage(p)] \in {NoRecord, Value(p)}
         /\ Known(Stage(p), Value(p).parents)
<1>1. Stage(p) \in Stages
  BY DEF LoadState, Commands, Placed, Shape, Stage
<1>2. seen'[p] = [state EXCEPT ![Stage(p)] = Value(p)]
  BY DEF LoadState, Shape
<1>3. resolved[p] = [q \in Parents(Stage(p)) |-> resolved[p][q]]
  BY DEF LoadState, Commands, Placed, Resolved
<1>4. \A q \in Parents(Stage(p)) : Registered(q) /\ resolved[p][q] = state[q].outputs
  BY DEF LoadState, ParentsUnchanged, Resolves
<1>5. Known(Stage(p), Value(p).parents)
  BY <1>3, <1>4 DEF Known, Value
<1>6. seen'[p][Stage(p)] = Value(p)
  BY <1>1, <1>2 DEF Shape
<1>7. state' = state /\ job' = job /\ state[Stage(p)] \in {NoRecord, Value(p)}
  BY DEF LoadState, Registrable, files
<1>8. QED
  BY <1>1, <1>2, <1>5, <1>6, <1>7 DEF Stage

LEMMA OnceStep ==
  ASSUME Shape, Commands, ~raced => Once, [Next]_vars, ~raced'
  PROVE  Once'
<1>1. CASE UNCHANGED vars
  BY <1>1 DEF Once, Extends, Known, Registered, Stage, vars, files, locals, ghosts
<1>2. CASE Next
  <2>1. PICK p \in Procs : Over(p) \/ Launches(p) \/ Goes(p) \/ ReplaceState(p)
    BY <1>2, OneStep
  <2>2. Once
    BY <2>1, Moves DEF LoadState
  <2>3. \A q \in Procs \ {p} : pc'[q] = pc[q] /\ job'[q] = job[q] /\ seen'[q] = seen[q]
    BY <2>1, Alone
  <2>4. CASE LoadState(p)
    <3>1. \A q \in Procs \ {p} : pc[q] # "replace"
      BY <2>4 DEF LoadState
    <3>2. Extends(p)'
      <4>1. PICK s, v : s = Stage(p) /\ v = Value(p)
        OBVIOUS
      <4>2. /\ s \in Stages /\ Known(s, v.parents) /\ state[s] \in {NoRecord, v}
            /\ seen'[p] = [state EXCEPT ![s] = v] /\ seen'[p][s] = v
            /\ state' = state /\ Stage(p)' = s
        BY <2>4, <4>1, LoadKnown
      <4>3. Known(s, v.parents)'
        BY <2>1, <2>2, <4>2, KnownStays
      <4>4. QED
        BY <4>2, <4>3 DEF Extends, Known, Registered
    <3>3. \A q \in Procs \ {p} : Extends(q)'
      BY <2>3, <3>1 DEF Extends
    <3>4. state' = state /\ ever' = ever
      BY <2>4 DEF LoadState, files
    <3>5. QED
      BY <2>2, <2>3, <3>1, <3>2, <3>3, <3>4 DEF Once, Known, Registered
  <2>5. CASE ReplaceState(p)
    <3>1. /\ pc[p] = "replace" /\ state' = seen[p] /\ Extends(p)
          /\ ever' = ever \cup {<<Stage(p), seen[p][Stage(p)]>>}
      BY <2>2, <2>5 DEF ReplaceState, Once
    <3>2. Stage(p) \in Stages /\ DOMAIN state = Stages /\ seen[p][Stage(p)] # NoRecord
      BY <3>1 DEF Commands, Placed, Shape, Stage
    <3>3. \A q \in Procs : pc'[q] # "replace"
      BY <2>2, <2>3, <2>5, <3>1 DEF Once, ReplaceState, Leave, Goto, Shape
    <3>4. \A s \in Stages : s # Stage(p) => state'[s] = state[s]
      BY <3>1, <3>2 DEF Extends
    <3>5. ASSUME NEW s \in Stages, Registered(s)' PROVE Known(s, state[s].parents)'
      <4>1. PICK v : v = state'[s]
        OBVIOUS
      <4>2. Known(s, v.parents)
        BY <2>2, <3>1, <3>4, <3>5, <4>1 DEF Extends, Once, Registered
      <4>3. Known(s, v.parents)'
        BY <2>1, <2>2, <4>2, KnownStays
      <4>4. QED
        BY <4>1, <4>3 DEF Known, Registered
    <3>6. ASSUME NEW r \in ever' PROVE r[1] \in Stages /\ r[2] # NoRecord /\ state'[r[1]] = r[2]
      <4>1. CASE r \in ever
        BY <2>1, <2>2, <4>1, RecordsStay DEF Once, Registered
      <4>2. CASE r = <<Stage(p), seen[p][Stage(p)]>>
        BY <3>1, <3>2, <4>2
      <4>3. QED
        BY <3>1, <3>6, <4>1, <4>2
    <3>7. QED
      BY <3>3, <3>5, <3>6 DEF Once, Extends
  <2>6. CASE ~LoadState(p) /\ ~ReplaceState(p)
    <3>1. state' = state /\ ever' = ever
      BY <2>1, <2>6, Moves
    <3>2. pc'[p] # "replace"
      <4>1. CASE Over(p)
        BY <4>1 DEF Over, Leave, Goto, Shape
      <4>2. CASE Launches(p)
        BY <4>2 DEF Launches, Launch, Goto, Shape
      <4>3. CASE Goes(p)
        BY <2>6, <4>3, Order DEF Goes
      <4>4. QED
        BY <2>1, <2>6, <4>1, <4>2, <4>3
    <3>3. \A q \in Procs : Extends(q)'
      <4>1. ASSUME NEW q \in Procs \ {p} PROVE Extends(q)'
        <5>1. /\ pc'[q] = pc[q] /\ job'[q] = job[q] /\ seen'[q] = seen[q] /\ Extends(q)
          BY <2>2, <2>3 DEF Once
        <5>2. QED
          BY <3>1, <5>1 DEF Extends, Known, Registered, Stage
      <4>2. Extends(p)'
        BY <3>2 DEF Extends
      <4>3. QED
        BY <4>1, <4>2
    <3>4. QED
      BY <2>2, <2>3, <3>1, <3>2, <3>3 DEF Once, Known, Registered
  <2>7. QED
    BY <2>4, <2>5, <2>6
<1>3. QED
  BY <1>1, <1>2

LEMMA OnceInit == Init => Once
  BY DEF Init, Once, Extends, Registered

\* A registration is never replaced by another one, unless two commands have been
\* between the load and the replacement of run_state.json at once (artifacts.py:265-275).
THEOREM RegistrationsAreKept == Spec => []RegistrationsStay
<1>1. Init => Shape /\ Commands /\ (~raced => Once)
  BY ShapeInit, OnceInit
<1>2. Shape /\ Commands /\ (~raced => Once) /\ [Next]_vars
        => (Shape /\ Commands /\ (~raced => Once))'
  BY ShapeStep, CommandsStep, OnceStep
<1>3. (~raced => Once) => RegistrationsStay
  BY DEF Once, RegistrationsStay
<1>4. QED
  BY <1>1, <1>2, <1>3, PTL DEF Spec

\* As long as that has not happened, the run state is one chain: the parents a
\* registered stage names are registered, with the outputs it names.
THEOREM ChainIsOne == Spec => []OneChain
<1>1. Init => Shape /\ Commands /\ (~raced => Once)
  BY ShapeInit, OnceInit
<1>2. Shape /\ Commands /\ (~raced => Once) /\ [Next]_vars
        => (Shape /\ Commands /\ (~raced => Once))'
  BY ShapeStep, CommandsStep, OnceStep
<1>3. (~raced => Once) => OneChain
  BY DEF Once, Known, OneChain
<1>4. QED
  BY <1>1, <1>2, <1>3, PTL DEF Spec

(***************************************************************************)
(* Lineage                                                                 *)
(***************************************************************************)

\* An altered stage stays altered unless the step heals it.
LEMMA AlteredStays ==
  ASSUME Shape, Commands, Whole, Once, NEW p \in Procs,
         Over(p) \/ Launches(p) \/ Goes(p) \/ ReplaceState(p), ~healed',
         NEW s \in Stages, Altered(s)
  PROVE  Altered(s)'
<1>1. Registered(s) /\ state'[s] = state[s] /\ dest[s] # state[s].outputs.files
  BY RecordsStay DEF Altered
<1>2. dest'[s] # state[s].outputs.files
  <2>1. CASE s = Stage(p) /\ (WritesFirst(p) \/ WriteLast(p))
    BY <1>1, <2>1 DEF WritesFirst, WriteFirst, ReplaceMap, WriteLast, Write, Altered
  <2>2. CASE s = Stage(p) /\ PublishPending(p)
    <3>1. s \in Building
      BY <2>2 DEF PublishPending, Commands, Placed
    <3>2. dest[s].last # NoOutput
      BY <1>1 DEF Whole, Kept, Present, Registered
    <3>3. dest'[s] = dest[s]
      BY <3>1, <3>2, OutputsStay
    <3>4. QED
      BY <1>1, <3>3
  <2>3. CASE s # Stage(p) \/ dest' = dest
    BY <1>1, <2>3, OutputsStay
  <2>4. QED
    BY <2>1, <2>2, <2>3, Moves
<1>3. QED
  BY <1>1, <1>2 DEF Altered, Registered

\* What was read stays what is registered, or altered.
LEMMA ReadTrueStays ==
  ASSUME Shape, Commands, Whole, Once, NEW p \in Procs,
         Over(p) \/ Launches(p) \/ Goes(p) \/ ReplaceState(p), ~healed',
         NEW s, NEW fs, ReadTrue(s, fs)
  PROVE  ReadTrue(s, fs)'
<1>1. \A q \in Parents(s) : q \in Stages
  BY DEF Parents
<1>2. \A q \in Parents(s) : Registered(q) /\ (Altered(q) \/ fs[q] = state[q].outputs.files)
  BY DEF ReadTrue
<1>3. \A q \in Parents(s) : state'[q] = state[q]
  BY <1>1, <1>2, RecordsStay
<1>4. \A q \in Parents(s) : Altered(q) => Altered(q)'
  BY <1>1, AlteredStays
<1>5. QED
  BY <1>2, <1>3, <1>4 DEF ReadTrue, Registered

LEMMA HonestStays ==
  ASSUME Shape, Commands, Whole, Once, NEW p \in Procs,
         Over(p) \/ Launches(p) \/ Goes(p) \/ ReplaceState(p), ~healed',
         NEW s \in Stages, NEW o, Honest(s, o)
  PROVE  Honest(s, o)'
  BY KnownStays, ReadTrueStays DEF Honest

\* What a command that has read its parents writes is honest.
LEMMA HonestOutput ==
  ASSUME Shape, Commands, Lineage, NEW p \in Procs, Reading(p)
  PROVE  Stage(p) \in Stages /\ Honest(Stage(p), Output(p))
<1>1. Stage(p) \in Stages
  BY DEF Reading, Commands, Placed, Shape, Stage
<1>2. /\ Known(Stage(p), resolved[p]) /\ ReadTrue(Stage(p), built[p])
      /\ BoundTo(Stage(p), built[p], Hash(Env(p)))
  BY DEF Lineage, Reads, Reading, Resolved
<1>3. /\ Output(p).parents = resolved[p] /\ Output(p).from = built[p]
      /\ Output(p).env.config = Hash(Env(p))
  BY DEF Output, Seen
<1>4. QED
  BY <1>1, <1>2, <1>3 DEF Honest

\* What a command may register names what its outputs were computed from: a parent
\* that resolves is not altered.
LEMMA FaithfulValue ==
  ASSUME Shape, Commands, Whole, Signed, Lineage, NEW p \in Procs, LoadState(p)
  PROVE  Faithful(Stage(p), Value(p))
<1>1. /\ pc[p] = "record" /\ Stage(p) \in Stages /\ Placed(p)
      /\ \A q \in Parents(Stage(p)) : Resolves(q) /\ Hashed(q) = resolved[p][q]
  BY DEF LoadState, ParentsUnchanged, Commands, Placed, Shape, Stage
<1>2. Present(Stage(p)) /\ dest[Stage(p)].last.env = Seen(Stage(p), Env(p))
  BY <1>1 DEF Whole, Finds, Signed, Signs
<1>3. resolved[p] = [q \in Parents(Stage(p)) |-> resolved[p][q]]
  BY <1>1 DEF Placed, Resolved
<1>4. ASSUME NEW fs, ReadTrue(Stage(p), fs) PROVE fs = FilesOf(resolved[p])
  <2>1. \A q \in Parents(Stage(p)) : fs[q] = resolved[p][q].files
    <3>1. \A q : Hashed(q).files = dest[q]
      BY DEF Hashed
    <3>2. \A q \in Parents(Stage(p)) : ~Altered(q) /\ resolved[p][q] = state[q].outputs
      BY <1>1, <3>1 DEF Altered, Resolves
    <3>3. QED
      BY <1>4, <3>2 DEF ReadTrue
  <2>2. fs = [q \in Parents(Stage(p)) |-> fs[q]] /\ DOMAIN resolved[p] = Parents(Stage(p))
    BY <1>3, <1>4 DEF ReadTrue
  <2>3. QED
    BY <2>1, <2>2 DEF FilesOf
<1>5. /\ ReadTrue(Stage(p), dest[Stage(p)].first.from)
      /\ ReadTrue(Stage(p), dest[Stage(p)].last.from)
      /\ BoundTo(Stage(p), dest[Stage(p)].last.from, dest[Stage(p)].last.env.config)
  BY <1>1, <1>2 DEF Lineage, Honest, Present
<1>6. dest[Stage(p)].last.env.config = Hash(Env(p))
  BY <1>2 DEF Seen
<1>7. QED
  BY <1>4, <1>5, <1>6 DEF Faithful, Value, Hashed

\* A process that did not move has read what it read.
LEMMA ReadsStays ==
  ASSUME Shape, Commands, Whole, Once, Lineage, NEW p \in Procs,
         Over(p) \/ Launches(p) \/ Goes(p) \/ ReplaceState(p), ~healed',
         NEW q \in Procs \ {p}
  PROVE  Reads(q)'
<1>1. /\ pc'[q] = pc[q] /\ job'[q] = job[q] /\ resolved'[q] = resolved[q]
      /\ built'[q] = built[q] /\ seen'[q] = seen[q]
  BY Alone
<1>2. Reads(q)
  BY DEF Lineage
<1>3. CASE pc[q] = "idle"
  BY <1>1, <1>3 DEF Reads, Resolved, Reading
<1>4. CASE pc[q] # "idle"
  <2>1. PICK s, ps, fs : s = Stage(q) /\ ps = resolved[q] /\ fs = built[q]
    OBVIOUS
  <2>2. s \in Stages
    BY <1>4, <2>1 DEF Commands, Placed, Shape, Stage
  <2>3. Known(s, ps) => Known(s, ps)'
    BY <2>2, KnownStays
  <2>4. ReadTrue(s, fs) => ReadTrue(s, fs)'
    BY <2>2, ReadTrueStays
  <2>5. /\ Resolved(q)' = Resolved(q) /\ Reading(q)' = Reading(q)
        /\ Stage(q)' = s /\ Env(q)' = Env(q) /\ resolved'[q] = ps /\ built'[q] = fs
    BY <1>1, <2>1 DEF Resolved, Reading, Stage, Env
  <2>6. Resolved(q)' => Known(Stage(q), resolved[q])'
    BY <1>2, <2>1, <2>3, <2>5 DEF Reads, Known, Registered
  <2>7. Reading(q)' => ReadTrue(Stage(q), built[q])'
    BY <1>2, <2>1, <2>4, <2>5 DEF Reads, ReadTrue, Registered, Altered
  <2>8. Reading(q)' => BoundTo(Stage(q), built[q], Hash(Env(q)))'
    BY <1>2, <2>1, <2>5 DEF Reads, BoundTo, Expected, Hash
  <2>9. pc'[q] = "replace" => Faithful(Stage(q), seen[q][Stage(q)])'
    BY <1>1, <1>2, <2>1, <2>5 DEF Reads, Faithful, BoundTo, Expected
  <2>10. QED
    BY <2>6, <2>7, <2>8, <2>9 DEF Reads
<1>5. QED
  BY <1>3, <1>4

\* A process that goes on has read what is registered, or something broken.
LEMMA ReadsStep ==
  ASSUME Shape, Commands, Whole, Signed, Once, Lineage, NEW p \in Procs, Goes(p), ~healed'
  PROVE  Reads(p)'
<1>0. PICK s, e : /\ s = Stage(p) /\ e = Env(p) /\ s \in Stages
                  /\ Stage(p)' = s /\ Env(p)' = e /\ pc[p] # "idle"
  BY Keeps DEF Commands, Placed, Shape, Stage, Env
<1>1. Reads(p) /\ Placed(p)
  BY DEF Lineage, Commands
<1>2. Known(s, resolved[p])'
  <2>1. CASE ResolveParents(p)
    <3>1. /\ resolved'[p] = [q \in Parents(s) |-> Hashed(q)] /\ state' = state
          /\ \A q \in Parents(s) : Registered(q) /\ Hashed(q) = state[q].outputs
      BY <1>0, <2>1 DEF ResolveParents, Resolves, files, Shape
    <3>2. QED
      BY <3>1 DEF Known, Registered
  <2>2. CASE ~ResolveParents(p)
    <3>1. PICK ps : ps = resolved[p]
      OBVIOUS
    <3>2. resolved'[p] = ps /\ pc[p] \notin {"idle", "resolve"}
      BY <2>2, <3>1, Keeps, Order DEF Goes
    <3>3. Known(s, ps)
      BY <1>0, <1>1, <3>1, <3>2 DEF Reads, Resolved
    <3>4. Known(s, ps)'
      BY <1>0, <3>3, KnownStays
    <3>5. QED
      BY <3>2, <3>4 DEF Known, Registered
  <2>3. QED
    BY <2>1, <2>2
<1>3. Reading(p)' => ReadTrue(s, built[p])' /\ BoundTo(s, built[p], Hash(e))'
  <2>1. CASE ReadParents(p)
    <3>1. /\ built'[p] = [q \in Parents(s) |-> dest[q]] /\ state' = state /\ dest' = dest
          /\ pc[p] = "read" /\ Acceptable(p)
      BY <1>0, <2>1 DEF ReadParents, files, Shape
    <3>2. \A q \in Parents(s) : Registered(q)
      BY <1>0, <1>1, <3>1 DEF Reads, Resolved, Known
    <3>3. ReadTrue(s, built[p])'
      BY <3>1, <3>2 DEF ReadTrue, Altered, Registered
    <3>4. BoundHash(s, e) = Expected(s, Hash(e))
      BY DEF BoundHash, Expected, Hash, PreAuditHash
    <3>5. \A q \in BoundParents(s) \cap Stages :
             q \in Parents(s) /\ dest[q].last.env.config = BoundHash(s, e)
      BY <1>0, <3>1, Kinds DEF Acceptable
    <3>6. BoundTo(s, built[p], Hash(e))'
      BY <3>1, <3>4, <3>5 DEF BoundTo, Expected, Hash
    <3>7. QED
      BY <3>3, <3>6
  <2>2. CASE ResumeTraining(p)
    <3>1. /\ built'[p] = trained.from /\ Checkpointed
          /\ s = "evidence_warmup"
      BY <1>0, <1>1, <2>2 DEF ResumeTraining, Shape, Placed, Checkpointed
    <3>2. PICK fs : fs = trained.from /\ ReadTrue(s, fs)
      BY <3>1 DEF Lineage
    <3>3. ReadTrue(s, fs)'
      BY <1>0, <3>2, ReadTrueStays
    <3>4. BoundParents(s) = {}
      BY <1>0, <3>1, Kinds
    <3>5. QED
      BY <3>1, <3>2, <3>3, <3>4 DEF ReadTrue, BoundTo, Registered, Altered
  <2>3. CASE ~ReadParents(p) /\ ~ResumeTraining(p)
    <3>1. PICK fs : fs = built[p]
      OBVIOUS
    <3>2. built'[p] = fs /\ (Reading(p)' => Reading(p))
      <4>1. built' = built
        BY <2>3, Keeps
      <4>2. Reading(p)' => Reading(p)
        BY <2>3, Order DEF Goes, Reading
      <4>3. QED
        BY <3>1, <4>1, <4>2
    <3>3. Reading(p) => ReadTrue(s, fs) /\ BoundTo(s, fs, Hash(e))
      BY <1>0, <1>1, <3>1 DEF Reads
    <3>4. ReadTrue(s, fs) => ReadTrue(s, fs)'
      BY <1>0, ReadTrueStays
    <3>5. QED
      BY <3>2, <3>3, <3>4 DEF ReadTrue, BoundTo, Expected, Hash, Registered, Altered
  <2>4. QED
    BY <2>1, <2>2, <2>3
<1>4. pc'[p] = "replace" => Faithful(s, seen[p][s])'
  <2>1. pc'[p] = "replace" => LoadState(p)
    BY Order DEF Goes
  <2>2. CASE LoadState(p)
    <3>1. PICK v : v = Value(p)
      OBVIOUS
    <3>2. Faithful(s, v) /\ seen'[p][s] = v
      BY <1>0, <2>2, <3>1, FaithfulValue, LoadKnown
    <3>3. QED
      BY <3>2 DEF Faithful, BoundTo, Expected
  <2>3. QED
    BY <2>1, <2>2
<1>5. QED
  BY <1>0, <1>2, <1>3, <1>4 DEF Reads, Known, ReadTrue, BoundTo, Faithful, Expected,
     Hash, Registered, Altered

LEMMA LineageInit == Init => Lineage
<1> SUFFICES ASSUME Init PROVE Lineage
  OBVIOUS
<1>1. /\ \A s \in Stages : pending[s].parts = <<>> /\ state[s] = NoRecord
                           /\ dest[s].first = NoOutput /\ dest[s].last = NoOutput
      /\ trained = None
  BY DEF Init, NoPending
<1>2. \A p \in Procs : pc[p] = "idle"
  BY DEF Init
<1>3. QED
  BY <1>1, <1>2 DEF Lineage, Honest, Faithful, Reads, Resolved, Reading, Checkpointed

LEMMA LineageStep ==
  ASSUME Shape, Commands, Whole, Signed, ~raced => Once, ~raced /\ ~healed => Lineage,
         [Next]_vars, ~raced', ~healed'
  PROVE  Lineage'
<1>1. CASE UNCHANGED vars
  <2>1. /\ state' = state /\ dest' = dest /\ pending' = pending /\ trained' = trained
        /\ pc' = pc /\ job' = job /\ resolved' = resolved /\ built' = built /\ seen' = seen
        /\ raced' = raced /\ healed' = healed
    BY <1>1 DEF vars, files, locals, ghosts
  <2>2. Lineage
    BY <2>1
  <2>3. /\ \A s \in Stages : Honest(s, dest[s].first)' /\ Honest(s, dest[s].last)'
        /\ \A s \in Stages : \A i \in DOMAIN pending'[s].parts :
              Honest(s, pending[s].parts[i])'
    <3>1. ASSUME NEW s \in Stages, NEW o, Honest(s, o) PROVE Honest(s, o)'
      BY <2>1, <3>1 DEF Honest, Known, ReadTrue, BoundTo, Expected, Registered, Altered
    <3>2. ASSUME NEW s \in Stages
          PROVE  Honest(s, dest[s].first)' /\ Honest(s, dest[s].last)'
      <4>1. PICK a, b : a = dest[s].first /\ b = dest[s].last
        OBVIOUS
      <4>2. Honest(s, a)' /\ Honest(s, b)'
        BY <2>2, <3>1, <4>1 DEF Lineage
      <4>3. QED
        BY <2>1, <4>1, <4>2 DEF Honest, Known, ReadTrue, BoundTo, Expected, Registered, Altered
    <3>3. ASSUME NEW s \in Stages, NEW i \in DOMAIN pending'[s].parts
          PROVE  Honest(s, pending[s].parts[i])'
      <4>1. PICK o : o = pending[s].parts[i]
        OBVIOUS
      <4>2. Honest(s, o)'
        BY <2>1, <2>2, <3>1, <4>1 DEF Lineage
      <4>3. QED
        BY <2>1, <4>1, <4>2 DEF Honest, Known, ReadTrue, BoundTo, Expected, Registered, Altered
    <3>4. QED
      BY <3>2, <3>3
  <2>4. Checkpointed' => /\ Known("evidence_warmup", trained.parents)'
                         /\ ReadTrue("evidence_warmup", trained.from)'
    BY <2>1, <2>2 DEF Lineage, Checkpointed, Known, ReadTrue, Registered, Altered
  <2>5. \A s \in Stages : Faithful(s, state[s])'
    BY <2>1, <2>2 DEF Lineage, Faithful, BoundTo, Expected
  <2>6. \A p \in Procs : Reads(p)'
    <3>1. ASSUME NEW p \in Procs PROVE Reads(p)'
      <4>1. Reads(p)
        BY <2>2 DEF Lineage
      <4>2. (Resolved(p) => Known(Stage(p), resolved[p]))'
        BY <2>1, <4>1 DEF Reads, Known, Registered, Resolved, Stage
      <4>3. (Reading(p) => /\ ReadTrue(Stage(p), built[p])
                           /\ BoundTo(Stage(p), built[p], Hash(Env(p))))'
        BY <2>1, <4>1 DEF Reads, ReadTrue, BoundTo, Expected, Hash, Registered, Altered,
           Reading, Stage, Env
      <4>4. (pc[p] = "replace" => Faithful(Stage(p), seen[p][Stage(p)]))'
        BY <2>1, <4>1 DEF Reads, Faithful, BoundTo, Expected, Stage
      <4>5. QED
        BY <4>2, <4>3, <4>4 DEF Reads
    <3>2. QED
      BY <3>1
  <2>7. QED
    BY <2>3, <2>4, <2>5, <2>6 DEF Lineage
<1>2. CASE Next
  <2>1. PICK p \in Procs : Over(p) \/ Launches(p) \/ Goes(p) \/ ReplaceState(p)
    BY <1>2, OneStep
  <2>2. Once /\ Lineage
    <3>1. ~raced
      BY <2>1, Moves DEF LoadState
    <3>2. ~healed
      BY <2>1, Moves DEF WritesFirst, WriteFirst, ReplaceMap, WriteLast, Write
    <3>3. QED
      BY <3>1, <3>2
  <2>3. ASSUME NEW s \in Stages, NEW o, Honest(s, o) PROVE Honest(s, o)'
    BY <2>1, <2>2, <2>3, HonestStays
  <2>4. ASSUME NEW s \in Stages PROVE Honest(s, dest[s].first)' /\ Honest(s, dest[s].last)'
    <3>1. PICK a, b : a = dest'[s].first /\ b = dest'[s].last
      OBVIOUS
    <3>2. Honest(s, a) /\ Honest(s, b)
      <4>1. CASE s = Stage(p) /\ WritesFirst(p)
        <5>1. Reading(p)
          BY <4>1 DEF WritesFirst, WriteFirst, ReplaceMap, Reading
        <5>2. dest'[s] = [first |-> Output(p), last |-> dest[s].last]
          BY <4>1, Entries
        <5>3. a = Output(p) /\ b = dest[s].last
          BY <3>1, <5>2
        <5>4. QED
          BY <2>2, <4>1, <5>1, <5>3, HonestOutput DEF Lineage
      <4>2. CASE s = Stage(p) /\ WriteLast(p)
        <5>1. Reading(p)
          BY <4>2 DEF WriteLast, Reading
        <5>2. dest'[s] = [first |-> dest[s].first, last |-> Output(p)]
          BY <4>2, Entries
        <5>3. a = dest[s].first /\ b = Output(p)
          BY <3>1, <5>2
        <5>4. QED
          BY <2>2, <4>2, <5>1, <5>3, HonestOutput DEF Lineage
      <4>3. CASE s = Stage(p) /\ PublishPending(p)
        <5>1. Parted(pending[s].parts) /\ Len(pending[s].parts) = 2
          BY <4>3 DEF PublishPending, Shape
        <5>2. {1, 2} \subseteq DOMAIN pending[s].parts
          BY <5>1, Parts
        <5>3. a = pending[s].parts[1] /\ b = pending[s].parts[2]
          BY <3>1, <4>3 DEF PublishPending, Shape
        <5>4. QED
          BY <2>2, <5>2, <5>3 DEF Lineage
      <4>4. CASE s # Stage(p) \/ dest' = dest
        <5>1. dest'[s] = dest[s]
          BY <2>1, <4>4, OutputsStay
        <5>2. QED
          BY <2>2, <3>1, <5>1 DEF Lineage
      <4>5. QED
        BY <2>1, <4>1, <4>2, <4>3, <4>4, Moves
    <3>3. Honest(s, a)' /\ Honest(s, b)'
      BY <2>3, <3>2
    <3>4. QED
      BY <3>1, <3>3 DEF Honest, Known, ReadTrue, BoundTo, Expected, Registered, Altered
  <2>5. ASSUME NEW s \in Stages, NEW i \in DOMAIN pending'[s].parts
        PROVE  Honest(s, pending[s].parts[i])'
    <3>1. PICK o : o = pending'[s].parts[i]
      OBVIOUS
    <3>2. CASE i \in DOMAIN pending[s].parts /\ o = pending[s].parts[i]
      <4>1. Honest(s, o)'
        BY <2>2, <2>3, <3>2 DEF Lineage
      <4>2. QED
        BY <3>1, <4>1 DEF Honest, Known, ReadTrue, BoundTo, Expected, Registered, Altered
    <3>3. CASE s = Stage(p) /\ BuildPart(p) /\ o = Output(p)
      <4>1. Reading(p)
        BY <3>3 DEF BuildPart, Reading
      <4>2. Honest(s, o)'
        BY <2>2, <2>3, <3>3, <4>1, HonestOutput
      <4>3. QED
        BY <3>1, <4>2 DEF Honest, Known, ReadTrue, BoundTo, Expected, Registered, Altered
    <3>4. QED
      BY <2>1, <3>1, <3>2, <3>3, PartsMove
  <2>6. Checkpointed' => /\ Known("evidence_warmup", trained.parents)'
                         /\ ReadTrue("evidence_warmup", trained.from)'
    <3>1. CASE Train(p)
      <4>1. PICK s, ps, fs : s = Stage(p) /\ ps = resolved[p] /\ fs = built[p]
        OBVIOUS
      <4>2. s = "evidence_warmup" /\ s \in Stages /\ Resolved(p) /\ Reading(p)
        BY <3>1, <4>1 DEF Train, Commands, Placed, Shape, Stage, Resolved, Reading
      <4>3. trained'.parents = ps /\ trained'.from = fs
        BY <3>1, <4>1 DEF Train, Training
      <4>4. Known(s, ps) /\ ReadTrue(s, fs)
        BY <2>2, <4>1, <4>2 DEF Lineage, Reads
      <4>5. Known(s, ps)' /\ ReadTrue(s, fs)'
        BY <2>1, <2>2, <4>2, <4>4, KnownStays, ReadTrueStays
      <4>6. QED
        BY <4>2, <4>3, <4>5 DEF Known, ReadTrue, Registered, Altered
    <3>2. CASE ~Train(p) /\ Checkpointed'
      <4>1. PICK ps, fs : ps = trained.parents /\ fs = trained.from
        OBVIOUS
      <4>2. Checkpointed /\ trained'.parents = ps /\ trained'.from = fs
        BY <2>1, <3>2, <4>1, Checkpoints
      <4>3. Known("evidence_warmup", ps) /\ ReadTrue("evidence_warmup", fs)
        BY <2>2, <4>1, <4>2 DEF Lineage
      <4>4. Known("evidence_warmup", ps)' /\ ReadTrue("evidence_warmup", fs)'
        BY <2>1, <2>2, <4>3, KnownStays, ReadTrueStays
      <4>5. QED
        BY <4>2, <4>4 DEF Known, ReadTrue, Registered, Altered
    <3>3. QED
      BY <3>1, <3>2
  <2>7. ASSUME NEW s \in Stages PROVE Faithful(s, state[s])'
    <3>1. CASE ReplaceState(p) /\ s = Stage(p)
      <4>1. state' = seen[p] /\ Faithful(Stage(p), seen[p][Stage(p)])
        BY <2>2, <3>1 DEF ReplaceState, Lineage, Reads
      <4>2. QED
        BY <3>1, <4>1 DEF Faithful, BoundTo, Expected
    <3>2. CASE ReplaceState(p) /\ s # Stage(p)
      <4>1. state' = seen[p] /\ seen[p] = [state EXCEPT ![Stage(p)] = seen[p][Stage(p)]]
        BY <2>2, <3>2 DEF ReplaceState, Once, Extends
      <4>2. state'[s] = state[s]
        BY <3>2, <4>1 DEF Shape
      <4>3. QED
        BY <2>2, <4>2 DEF Lineage, Faithful, BoundTo, Expected
    <3>3. CASE ~ReplaceState(p)
      BY <2>1, <2>2, <3>3, Moves DEF Lineage, Faithful, BoundTo, Expected
    <3>4. QED
      BY <3>1, <3>2, <3>3
  <2>8. Reads(p)'
    <3>1. CASE Over(p) \/ ReplaceState(p)
      BY <3>1 DEF Over, ReplaceState, Leave, Goto, Shape, Reads, Resolved, Reading
    <3>2. CASE Launches(p)
      BY <3>2 DEF Launches, Launch, Goto, Shape, Reads, Resolved, Reading
    <3>3. QED
      BY <2>1, <2>2, <3>1, <3>2, ReadsStep
  <2>9. QED
    BY <2>1, <2>2, <2>4, <2>5, <2>6, <2>7, <2>8, ReadsStays DEF Lineage
<1>3. QED
  BY <1>1, <1>2

\* A registered output was computed from the parents its record names, unless a broken
\* parent was meanwhile made whole again or two commands registered at once.
THEOREM LineageIsTrue == Spec => []LineageTrue
<1>1. Init => Shape /\ Commands /\ Whole /\ Signed /\ (~raced => Once)
                /\ (~raced /\ ~healed => Lineage)
  BY ShapeInit, WholeInit, SignedInit, OnceInit, LineageInit
<1>2. Shape /\ Commands /\ Whole /\ Signed /\ (~raced => Once)
        /\ (~raced /\ ~healed => Lineage) /\ [Next]_vars
      => (Shape /\ Commands /\ Whole /\ Signed /\ (~raced => Once)
            /\ (~raced /\ ~healed => Lineage))'
  BY ShapeStep, CommandsStep, WholeStep, SignedStep, OnceStep, LineageStep
<1>3. (~raced /\ ~healed => Lineage) => LineageTrue
  BY DEF Lineage, Faithful, LineageTrue, Registered
<1>4. QED
  BY <1>1, <1>2, <1>3, PTL DEF Spec

\* A stage that demands the configuration of a parent (finalize_runner.py:267-277) is
\* registered over outputs made under it, adopted and resumed ones included.
THEOREM ConfigurationIsBound == Spec => []BoundConfiguration
<1>1. Init => Shape /\ Commands /\ Whole /\ Signed /\ (~raced => Once)
                /\ (~raced /\ ~healed => Lineage)
  BY ShapeInit, WholeInit, SignedInit, OnceInit, LineageInit
<1>2. Shape /\ Commands /\ Whole /\ Signed /\ (~raced => Once)
        /\ (~raced /\ ~healed => Lineage) /\ [Next]_vars
      => (Shape /\ Commands /\ Whole /\ Signed /\ (~raced => Once)
            /\ (~raced /\ ~healed => Lineage))'
  BY ShapeStep, CommandsStep, WholeStep, SignedStep, OnceStep, LineageStep
<1>3. Whole /\ (~raced /\ ~healed => Lineage) => BoundConfiguration
  <2>1. ASSUME Whole, Lineage, NEW s \in Stages, Registered(s),
               NEW q \in BoundParents(s) \cap Stages
        PROVE  state[s].parents[q].files.last.env.config = Expected(s, state[s].config)
    <3>1. q \in DOMAIN state[s].parents
      BY <2>1, Kinds DEF Whole, Kept, Registered
    <3>2. FilesOf(state[s].parents)[q] = state[s].parents[q].files
      BY <3>1 DEF FilesOf
    <3>3. BoundTo(s, FilesOf(state[s].parents), state[s].config)
      BY <2>1 DEF Lineage, Faithful, Registered
    <3>4. QED
      BY <3>2, <3>3 DEF BoundTo
  <2>2. QED
    BY <2>1 DEF BoundConfiguration, Expected
<1>4. QED
  BY <1>1, <1>2, <1>3, PTL DEF Spec

(***************************************************************************)
(* What the operator's own commands make                                   *)
(***************************************************************************)

\* The parents of a stage stay registered with what they are registered with.
LEMMA ProperStays ==
  ASSUME Shape, Commands, Once, NEW p \in Procs,
         Over(p) \/ Launches(p) \/ Goes(p) \/ ReplaceState(p),
         NEW s, Rooted(s)
  PROVE  Rooted(s)' /\ ReadOf(s)' = ReadOf(s) /\ Proper(s)' = Proper(s)
<1>1. \A q \in Parents(s) : Registered(q) /\ state'[q] = state[q]
  BY RecordsStay DEF Rooted, Parents
<1>2. Rooted(s)'
  BY <1>1 DEF Rooted, Registered
<1>3. ReadOf(s)' = ReadOf(s)
  BY <1>1 DEF ReadOf
<1>4. [q \in Parents(s) |-> state[q].outputs]' = [q \in Parents(s) |-> state[q].outputs]
  BY <1>1
<1>5. QED
  BY <1>2, <1>3, <1>4 DEF Proper

LEMMA OwnStays ==
  ASSUME Shape, Commands, Once, NEW p \in Procs,
         Over(p) \/ Launches(p) \/ Goes(p) \/ ReplaceState(p),
         NEW s, NEW x
  PROVE  /\ Own(s, x) => Own(s, x)'
         /\ OwnRecord(s, x) => OwnRecord(s, x)'
  BY ProperStays DEF Own, OwnRecord, Both

\* Parents that were resolved are those the stage names.
LEMMA KnownParents ==
  ASSUME NEW s, NEW ps, Known(s, ps)
  PROVE  Rooted(s) /\ ps = [q \in Parents(s) |-> state[q].outputs]
  BY DEF Known, Rooted

\* A command that has read its parents writes what its stage makes.
LEMMA OwnOutput ==
  ASSUME Shape, Commands, OwnOutputs, NEW p \in Procs, Reading(p)
  PROVE  Stage(p) \in Stages /\ Own(Stage(p), Output(p))
<1>1. Stage(p) \in Stages
  BY DEF Reading, Commands, Placed, Shape, Stage
<1>2. /\ Env(p) = Homes[Stage(p)] /\ Known(Stage(p), resolved[p])
      /\ built[p] = ReadOf(Stage(p))
  BY DEF OwnOutputs, OwnCommand, Reading, Resolved
<1>3. QED
  BY <1>1, <1>2, KnownParents DEF Output, Own, Proper

\* A registered stage is what was registered, as far as it is read.
LEMMA OwnPresent ==
  ASSUME Shape, OwnOutputs, NEW s \in Stages, Present(s), Registered(s)
  PROVE  dest[s] = Both(Proper(s)) /\ dest[s] = state[s].outputs.files
<1>1. dest[s].first = Proper(s) /\ dest[s].last = Proper(s)
  BY DEF OwnOutputs, Own, Present
<1>2. dest[s] = [first |-> dest[s].first, last |-> dest[s].last]
  BY Zenon DEF Shape
<1>3. state[s].outputs.files = Both(Proper(s))
  BY DEF OwnOutputs, OwnRecord, Registered
<1>4. QED
  BY <1>1, <1>2, <1>3 DEF Both

LEMMA OwnCommandStep ==
  ASSUME Shape, Commands, Whole, Once, OwnOutputs, NEW p \in Procs, Goes(p)
  PROVE  OwnCommand(p)'
<1>0. PICK s, e : /\ s = Stage(p) /\ e = Env(p) /\ s \in Stages
                  /\ Stage(p)' = s /\ Env(p)' = e /\ pc[p] # "idle"
  BY Keeps DEF Commands, Placed, Shape, Stage, Env
<1>1. Placed(p) /\ Finds(p) /\ OwnCommand(p) /\ e = Homes[s]
  BY <1>0 DEF Commands, Whole, OwnOutputs, OwnCommand
<1>2. Known(s, resolved[p])'
  <2>1. CASE ResolveParents(p)
    <3>1. /\ resolved'[p] = [q \in Parents(s) |-> Hashed(q)] /\ state' = state
          /\ \A q \in Parents(s) : Registered(q) /\ Hashed(q) = state[q].outputs
      BY <1>0, <2>1 DEF ResolveParents, Resolves, files, Shape
    <3>2. QED
      BY <3>1 DEF Known, Registered
  <2>2. CASE ~ResolveParents(p)
    <3>1. PICK ps : ps = resolved[p]
      OBVIOUS
    <3>2. resolved'[p] = ps /\ pc[p] \notin {"idle", "resolve"}
      BY <2>2, <3>1, Keeps, Order DEF Goes
    <3>3. Known(s, ps)
      BY <1>0, <1>1, <3>1, <3>2 DEF OwnCommand, Resolved
    <3>4. Known(s, ps)'
      BY <1>0, <3>3, KnownStays
    <3>5. QED
      BY <3>2, <3>4 DEF Known, Registered
  <2>3. QED
    BY <2>1, <2>2
<1>3. Reading(p)' => built'[p] = ReadOf(s)'
  <2>1. CASE ReadParents(p)
    <3>1. /\ pc[p] = "read" /\ built'[p] = [q \in Parents(s) |-> dest[q]] /\ state' = state
      BY <1>0, <2>1 DEF ReadParents, Shape, files
    <3>2. \A q \in Parents(s) : q \in Stages /\ Present(q) /\ Registered(q)
      BY <1>0, <1>1, <3>1, Kinds DEF Finds, Resolved, OwnCommand, Known
    <3>3. \A q \in Parents(s) : dest[q] = state[q].outputs.files
      BY <3>2, OwnPresent
    <3>4. QED
      BY <3>1, <3>3 DEF ReadOf
  <2>2. CASE ResumeTraining(p)
    <3>1. s = "evidence_warmup" /\ Checkpointed /\ built'[p] = trained.from /\ state' = state
      BY <1>0, <1>1, <2>2 DEF ResumeTraining, Shape, Placed, Checkpointed, files
    <3>2. QED
      BY <3>1 DEF OwnOutputs, ReadOf
  <2>3. CASE ~ReadParents(p) /\ ~ResumeTraining(p)
    <3>1. built' = built
      BY <2>3, Keeps
    <3>2. Reading(p)' => Reading(p)
      BY <2>3, Order DEF Goes, Reading
    <3>3. Reading(p) => Rooted(s) /\ built[p] = ReadOf(s)
      BY <1>0, <1>1, KnownParents DEF OwnCommand, Reading, Resolved
    <3>4. QED
      BY <3>1, <3>2, <3>3, ProperStays
  <2>4. QED
    BY <2>1, <2>2, <2>3
<1>4. pc'[p] = "replace" => OwnRecord(s, seen[p][s])'
  <2>1. CASE LoadState(p)
    <3>1. PICK v : v = Value(p)
      OBVIOUS
    <3>2. seen'[p][s] = v /\ Known(s, v.parents) /\ Present(s)
      BY <1>0, <1>1, <2>1, <3>1, LoadKnown DEF Finds, LoadState
    <3>3. Rooted(s)
      BY <3>2, KnownParents
    <3>4. dest[s].first = Proper(s) /\ dest[s].last = Proper(s)
      BY <1>0, <3>2 DEF OwnOutputs, Own, Present
    <3>5. dest[s] = [first |-> dest[s].first, last |-> dest[s].last]
      BY <1>0, Zenon DEF Shape
    <3>6. v.outputs.files = dest[s]
      BY <1>0, <3>1 DEF Value, Hashed
    <3>7. OwnRecord(s, v)
      BY <3>3, <3>4, <3>5, <3>6 DEF OwnRecord, Both
    <3>8. OwnRecord(s, v)'
      BY <3>7, OwnStays
    <3>9. QED
      BY <3>2, <3>8 DEF OwnRecord
  <2>2. QED
    BY <2>1, Order DEF Goes
<1>5. QED
  BY <1>0, <1>1, <1>2, <1>3, <1>4 DEF OwnCommand, Known, OwnRecord, ReadOf, Registered

\* A process that did not move keeps what it resolved and read.
LEMMA OwnCommandStays ==
  ASSUME Shape, Commands, Once, OwnOutputs, NEW p \in Procs,
         Over(p) \/ Launches(p) \/ Goes(p) \/ ReplaceState(p),
         NEW q \in Procs \ {p}
  PROVE  OwnCommand(q)'
<1>1. /\ pc'[q] = pc[q] /\ job'[q] = job[q] /\ resolved'[q] = resolved[q]
      /\ built'[q] = built[q] /\ seen'[q] = seen[q] /\ OwnCommand(q)
  BY Alone DEF OwnOutputs
<1>2. PICK s, ps, r : s = Stage(q) /\ ps = resolved[q] /\ r = seen[q][s]
  OBVIOUS
<1>3. /\ Resolved(q)' = Resolved(q) /\ Reading(q)' = Reading(q)
      /\ Stage(q)' = s /\ Env(q)' = Env(q)
  BY <1>1, <1>2 DEF Resolved, Reading, Stage, Env
<1>4. Known(s, ps) => Known(s, ps)'
  BY KnownStays
<1>5. OwnRecord(s, r) => OwnRecord(s, r)'
  BY OwnStays
<1>6. Known(s, ps) => ReadOf(s)' = ReadOf(s)
  BY KnownParents, ProperStays
<1>7. Reading(q) => Resolved(q)
  BY DEF Reading, Resolved
<1>8. (Resolved(q) => Known(Stage(q), resolved[q]))'
  BY <1>1, <1>2, <1>3, <1>4 DEF OwnCommand, Known, Registered
<1>9. (Reading(q) => built[q] = ReadOf(Stage(q)))'
  BY <1>1, <1>2, <1>3, <1>6, <1>7 DEF OwnCommand, ReadOf
<1>10. (pc[q] = "replace" => OwnRecord(Stage(q), seen[q][Stage(q)]))'
  BY <1>1, <1>2, <1>3, <1>5 DEF OwnCommand, OwnRecord
<1>11. (pc[q] # "idle" => Env(q) = Homes[Stage(q)])'
  BY <1>1, <1>2, <1>3 DEF OwnCommand
<1>12. QED
  BY <1>8, <1>9, <1>10, <1>11 DEF OwnCommand

LEMMA OwnInit == Init => OwnOutputs
<1> SUFFICES ASSUME Init PROVE OwnOutputs
  OBVIOUS
<1>1. /\ \A s \in Stages : pending[s].parts = <<>> /\ state[s] = NoRecord
                           /\ dest[s].first = NoOutput /\ dest[s].last = NoOutput
      /\ trained = None
  BY DEF Init, NoPending
<1>2. \A p \in Procs : pc[p] = "idle"
  BY DEF Init
<1>3. QED
  BY <1>1, <1>2 DEF OwnOutputs, Own, OwnRecord, OwnCommand, Resolved, Reading, Checkpointed

LEMMA OwnStep ==
  ASSUME Shape, Commands, Whole, ~raced => Once, ~foreign /\ ~raced => OwnOutputs,
         [Next]_vars, ~foreign', ~raced'
  PROVE  OwnOutputs'
<1>1. CASE UNCHANGED vars
  <2>1. /\ state' = state /\ dest' = dest /\ pending' = pending /\ trained' = trained
        /\ pc' = pc /\ job' = job /\ resolved' = resolved /\ built' = built /\ seen' = seen
        /\ raced' = raced /\ foreign' = foreign
    BY <1>1 DEF vars, files, locals, ghosts, bounds
  <2>2. OwnOutputs
    BY <2>1
  <2>3. \A s : Rooted(s)' = Rooted(s) /\ ReadOf(s)' = ReadOf(s) /\ Proper(s)' = Proper(s)
    BY <2>1 DEF Rooted, ReadOf, Proper, Registered
  <2>4. ASSUME NEW p \in Procs PROVE OwnCommand(p)'
    BY <2>1, <2>2, <2>3 DEF OwnOutputs, OwnCommand, OwnRecord, Both, Resolved, Reading,
       Stage, Env, Known, Registered
  <2>5. QED
    BY <2>1, <2>2, <2>3, <2>4 DEF OwnOutputs, Own, OwnRecord, Both, Checkpointed
<1>2. CASE Next
  <2>1. PICK p \in Procs : Over(p) \/ Launches(p) \/ Goes(p) \/ ReplaceState(p)
    BY <1>2, OneStep
  <2>2. OwnOutputs /\ Once
    BY <2>1, Moves DEF Launches, Launch, LoadState
  <2>3. ASSUME NEW s \in Stages PROVE Own(s, dest[s].first)' /\ Own(s, dest[s].last)'
    <3>1. PICK a, b : a = dest'[s].first /\ b = dest'[s].last
      OBVIOUS
    <3>2. Own(s, a) /\ Own(s, b)
      <4>1. CASE s = Stage(p) /\ WritesFirst(p)
        <5>1. Own(s, Output(p))
          BY <2>2, <4>1, OwnOutput DEF WritesFirst, WriteFirst, ReplaceMap, Reading
        <5>2. dest'[s] = [first |-> Output(p), last |-> dest[s].last]
          BY <4>1, Entries
        <5>3. a = Output(p) /\ b = dest[s].last
          BY <3>1, <5>2
        <5>4. QED
          BY <2>2, <5>1, <5>3 DEF OwnOutputs
      <4>2. CASE s = Stage(p) /\ WriteLast(p)
        <5>1. Own(s, Output(p))
          BY <2>2, <4>2, OwnOutput DEF WriteLast, Reading
        <5>2. dest'[s] = [first |-> dest[s].first, last |-> Output(p)]
          BY <4>2, Entries
        <5>3. a = dest[s].first /\ b = Output(p)
          BY <3>1, <5>2
        <5>4. QED
          BY <2>2, <5>1, <5>3 DEF OwnOutputs
      <4>3. CASE s = Stage(p) /\ PublishPending(p)
        <5>1. Parted(pending[s].parts) /\ Len(pending[s].parts) = 2
          BY <4>3 DEF PublishPending, Shape
        <5>2. {1, 2} \subseteq DOMAIN pending[s].parts
          BY <5>1, Parts
        <5>3. a = pending[s].parts[1] /\ b = pending[s].parts[2]
          BY <3>1, <4>3 DEF PublishPending, Shape
        <5>4. QED
          BY <2>2, <5>2, <5>3 DEF OwnOutputs
      <4>4. CASE s # Stage(p) \/ dest' = dest
        <5>1. dest'[s] = dest[s]
          BY <2>1, <4>4, OutputsStay
        <5>2. QED
          BY <2>2, <3>1, <5>1 DEF OwnOutputs
      <4>5. QED
        BY <2>1, <4>1, <4>2, <4>3, <4>4, Moves
    <3>3. Own(s, a)' /\ Own(s, b)'
      BY <2>1, <2>2, <3>2, OwnStays
    <3>4. QED
      BY <3>1, <3>3 DEF Own
  <2>4. ASSUME NEW s \in Stages, NEW i \in DOMAIN pending'[s].parts
        PROVE  Own(s, pending[s].parts[i])'
    <3>1. PICK o : o = pending'[s].parts[i]
      OBVIOUS
    <3>2. BuildPart(p) => Own(Stage(p), Output(p))
      BY <2>2, OwnOutput DEF BuildPart, Reading
    <3>3. Own(s, o)
      BY <2>1, <2>2, <3>1, <3>2, PartsMove DEF OwnOutputs
    <3>4. Own(s, o)'
      BY <2>1, <2>2, <3>3, OwnStays
    <3>5. QED
      BY <3>1, <3>4 DEF Own
  <2>5. Checkpointed' => /\ Rooted("evidence_warmup")'
                         /\ trained'.from = ReadOf("evidence_warmup")'
    <3>1. CASE Train(p)
      <4>1. /\ Stage(p) = "evidence_warmup" /\ trained'.from = built[p]
            /\ Reading(p) /\ Resolved(p)
        BY <3>1 DEF Train, Training, Commands, Placed, Reading, Resolved
      <4>2. Rooted("evidence_warmup") /\ built[p] = ReadOf("evidence_warmup")
        BY <2>2, <4>1, KnownParents DEF OwnOutputs, OwnCommand
      <4>3. QED
        BY <2>1, <2>2, <4>1, <4>2, ProperStays
    <3>2. CASE ~Train(p) /\ Checkpointed'
      <4>1. Checkpointed /\ trained'.from = trained.from
        BY <2>1, <3>2, Checkpoints
      <4>2. Rooted("evidence_warmup") /\ trained.from = ReadOf("evidence_warmup")
        BY <2>2, <4>1 DEF OwnOutputs
      <4>3. QED
        BY <2>1, <2>2, <4>1, <4>2, ProperStays
    <3>3. QED
      BY <3>1, <3>2
  <2>6. ASSUME NEW s \in Stages PROVE OwnRecord(s, state[s])'
    <3>1. PICK r : r = state'[s]
      OBVIOUS
    <3>2. OwnRecord(s, r)
      <4>1. CASE ReplaceState(p) /\ s = Stage(p)
        BY <2>2, <3>1, <4>1 DEF ReplaceState, OwnOutputs, OwnCommand
      <4>2. CASE ReplaceState(p) /\ s # Stage(p)
        <5>1. state' = seen[p] /\ seen[p] = [state EXCEPT ![Stage(p)] = seen[p][Stage(p)]]
          BY <2>2, <4>2 DEF ReplaceState, Once, Extends
        <5>2. state'[s] = state[s]
          BY <4>2, <5>1 DEF Shape
        <5>3. QED
          BY <2>2, <3>1, <5>2 DEF OwnOutputs
      <4>3. CASE ~ReplaceState(p)
        BY <2>1, <2>2, <3>1, <4>3, Moves DEF OwnOutputs
      <4>4. QED
        BY <4>1, <4>2, <4>3
    <3>3. OwnRecord(s, r)'
      BY <2>1, <2>2, <3>2, OwnStays
    <3>4. QED
      BY <3>1, <3>3 DEF OwnRecord
  <2>7. OwnCommand(p)'
    <3>1. CASE Over(p) \/ ReplaceState(p)
      BY <3>1 DEF Over, ReplaceState, Leave, Goto, Shape, OwnCommand, Resolved, Reading
    <3>2. CASE Launches(p)
      <4>1. PICK s \in Stages, e \in Envs : Launch(p, s, e)
        BY <3>2 DEF Launches
      <4>2. pc'[p] = "resolve" /\ job'[p] = [stage |-> s, env |-> e] /\ e = Homes[s]
        BY <4>1 DEF Launch, Goto, Shape
      <4>3. Env(p)' = Homes[Stage(p)']
        BY <4>2 DEF Stage, Env
      <4>4. QED
        BY <4>2, <4>3 DEF OwnCommand, Resolved, Reading
    <3>3. QED
      BY <2>1, <2>2, <3>1, <3>2, OwnCommandStep
  <2>8. QED
    BY <2>1, <2>2, <2>3, <2>4, <2>5, <2>6, <2>7, OwnCommandStays DEF OwnOutputs
<1>3. QED
  BY <1>1, <1>2

(***************************************************************************)
(* Temporary files in the registered directories                           *)
(***************************************************************************)

\* A temporary file is made for one map, becomes that map, or is left by a kill.
LEMMA LitterMoves ==
  ASSUME Shape, Commands, Litter, NEW p \in Procs,
         Over(p) \/ Launches(p) \/ Goes(p) \/ ReplaceState(p)
  PROVE  /\ strays' \in Nat /\ Live' <= strays' /\ strays' <= crashes' + Live'
         /\ strays - Live <= strays' - Live'
<1>0. /\ strays \in Nat /\ Live \in {0, 1} /\ Live' \in {0, 1} /\ crashes \in Nat
      /\ Live <= strays /\ strays <= crashes + Live
  BY DEF Litter, Live, Shape
<1>1. \A q \in Procs \ {p} : pc'[q] = pc[q]
  BY Alone
<1>2. \A q \in Procs : pc[q] = "swap" => Stage(q) = "validate_data"
  BY DEF Commands, Placed
<1>3. crashes' = crashes \/ Over(p)
  BY DEF Launches, Launch, Goes, ReplaceState, bounds, ResolveParents, ReadParents, Train,
     HashCheckpoint, ResumeTraining, MakeTemporary, WritesFirst, WriteFirst, ReplaceMap,
     WriteLast, Write, AdoptDestination, NothingThere, MakePending, MarkPending,
     ResumePending, BuildPart, PublishPending, LoadState
<1>4. CASE MakeTemporary(p)
  <2>1. ~Writing
    BY <1>2, <1>4 DEF MakeTemporary, Writing, Commands, Apart
  <2>2. Writing'
    BY <1>4, Order DEF Writing, Goes
  <2>3. Live = 0 /\ Live' = 1
    BY <2>1, <2>2 DEF Live
  <2>4. strays' = strays + 1 /\ crashes' = crashes
    BY <1>4 DEF MakeTemporary, bounds
  <2>5. QED
    BY <1>0, <2>3, <2>4
<1>5. CASE ReplaceMap(p)
  <2>1. pc[p] = "swap" /\ pc'[p] = "rewrite"
    BY <1>5, Order DEF ReplaceMap, WritesFirst, Goes
  <2>2. Writing /\ ~Writing'
    BY <1>1, <1>2, <2>1 DEF Writing, Commands, Apart
  <2>3. Live = 1 /\ Live' = 0
    BY <2>2 DEF Live
  <2>4. strays' = strays - 1 /\ crashes' = crashes
    BY <1>5 DEF ReplaceMap, Write, bounds
  <2>5. QED
    BY <1>0, <2>3, <2>4
<1>6. CASE Over(p) /\ pc[p] = "swap"
  <2>1. pc'[p] = "idle" /\ strays' = strays /\ crashes' = crashes + 1
    BY <1>6 DEF Over, Leave, Goto, Shape, files
  <2>2. Writing /\ ~Writing'
    BY <1>1, <1>2, <1>6, <2>1 DEF Writing, Commands, Apart
  <2>3. Live = 1 /\ Live' = 0
    BY <2>2 DEF Live
  <2>4. QED
    BY <1>0, <2>1, <2>3
<1>7. CASE ~MakeTemporary(p) /\ ~ReplaceMap(p) /\ ~(Over(p) /\ pc[p] = "swap")
  <2>1. strays' = strays
    BY <1>7, Moves
  <2>2. pc[p] # "swap" /\ pc'[p] # "swap"
    <3>1. CASE Over(p)
      BY <1>7, <3>1 DEF Over, Leave, Goto, Shape
    <3>2. CASE ReplaceState(p)
      BY <3>2 DEF ReplaceState, Leave, Goto, Shape
    <3>3. CASE Launches(p)
      BY <3>3 DEF Launches, Launch, Goto, Shape
    <3>4. CASE WriteFirst(p)
      BY <3>4, Order DEF WriteFirst, WritesFirst, Goes
    <3>5. CASE Goes(p) /\ ~WriteFirst(p)
      <4>1. ~WritesFirst(p)
        BY <1>7, <3>5 DEF WritesFirst
      <4>2. pc'[p] # "swap"
        BY <1>7, <3>5, <4>1, Order DEF Goes
      <4>3. pc[p] # "swap"
        BY <1>7, <3>5, <4>1, Order DEF Goes, ResolveParents
      <4>4. QED
        BY <4>2, <4>3
    <3>6. QED
      BY <3>1, <3>2, <3>3, <3>4, <3>5
  <2>3. Writing' = Writing
    BY <1>1, <2>2 DEF Writing
  <2>4. Live' = Live
    BY <2>3 DEF Live
  <2>5. crashes' = crashes \/ crashes' = crashes + 1
    BY <1>3 DEF Over
  <2>6. QED
    BY <1>0, <2>1, <2>4, <2>5
<1>8. QED
  BY <1>4, <1>5, <1>6, <1>7

LEMMA LitterInit == Init => Litter
<1> SUFFICES ASSUME Init PROVE Litter
  OBVIOUS
<1>1. strays = 0 /\ crashes = 0 /\ \A p \in Procs : pc[p] = "idle"
  BY DEF Init
<1>2. \A s \in Stages : state[s] = NoRecord
  BY DEF Init
<1>3. Live = 0
  BY <1>1 DEF Live, Writing
<1>4. QED
  BY <1>1, <1>2, <1>3 DEF Litter, Counted

LEMMA LitterStep == ASSUME Shape, Commands, Litter, [Next]_vars PROVE Litter'
<1>1. CASE UNCHANGED vars
  <2>1. /\ state' = state /\ strays' = strays /\ pc' = pc /\ seen' = seen /\ crashes' = crashes
    BY <1>1 DEF vars, files, locals, bounds
  <2>2. Live' = Live
    BY <2>1 DEF Live, Writing
  <2>3. \A s, r : Counted(s, r)' = Counted(s, r)
    BY <2>1, <2>2 DEF Counted
  <2>4. QED
    BY <2>1, <2>2, <2>3 DEF Litter, Counted
<1>2. CASE Next
  <2>1. PICK p \in Procs : Over(p) \/ Launches(p) \/ Goes(p) \/ ReplaceState(p)
    BY <1>2, OneStep
  <2>2. /\ strays' \in Nat /\ Live' <= strays' /\ strays' <= crashes' + Live'
        /\ strays - Live <= strays' - Live'
    BY <2>1, LitterMoves
  <2>3. strays \in Nat /\ Live \in {0, 1} /\ Live' \in {0, 1}
    BY DEF Litter, Live
  <2>4. ASSUME NEW s, NEW r, Counted(s, r) PROVE Counted(s, r)'
    <3>1. PICK l, m, x, y : l = Live /\ m = Live' /\ x = strays /\ y = strays'
      OBVIOUS
    <3>2. /\ x \in Nat /\ y \in Nat /\ l \in {0, 1} /\ m \in {0, 1}
          /\ x - l <= y - m
      BY <2>2, <2>3, <3>1
    <3>3. \A n \in Nat : n + l <= x => n + m <= y
      BY ONLY <3>2
    <3>4. QED
      BY <2>4, <3>1, <3>3 DEF Counted
  <2>5. ASSUME NEW s \in Stages PROVE Counted(s, state[s])'
    <3>1. PICK r : r = state'[s]
      OBVIOUS
    <3>2. Counted(s, r)
      <4>1. CASE ReplaceState(p)
        BY <3>1, <4>1 DEF ReplaceState, Litter
      <4>2. CASE ~ReplaceState(p)
        BY <2>1, <3>1, <4>2, Moves DEF Litter
      <4>3. QED
        BY <4>1, <4>2
    <3>3. Counted(s, r)'
      BY <2>4, <3>2
    <3>4. QED
      BY <3>1, <3>3 DEF Counted
  <2>6. ASSUME NEW q \in Procs, pc'[q] = "replace", NEW s \in Stages
        PROVE  Counted(s, seen[q][s])'
    <3>1. PICK r : r = seen'[q][s]
      OBVIOUS
    <3>2. CASE q # p
      <4>1. pc[q] = "replace" /\ seen'[q] = seen[q]
        BY <2>1, <2>6, <3>2, Alone
      <4>2. Counted(s, r)'
        BY <2>4, <3>1, <4>1 DEF Litter
      <4>3. QED
        BY <3>1, <4>2 DEF Counted
    <3>3. CASE q = p
      <4>1. LoadState(p)
        <5>1. CASE Over(p) \/ ReplaceState(p)
          BY <2>6, <3>3, <5>1 DEF Over, ReplaceState, Leave, Goto, Shape
        <5>2. CASE Launches(p)
          BY <2>6, <3>3, <5>2 DEF Launches, Launch, Goto, Shape
        <5>3. CASE Goes(p)
          BY <2>6, <3>3, <5>3, Order DEF Goes
        <5>4. QED
          BY <2>1, <5>1, <5>2, <5>3
      <4>2. CASE s # Stage(p)
        <5>1. r = state[s]
          BY <3>1, <3>3, <4>1, <4>2, LoadKnown DEF Shape
        <5>2. Counted(s, r)'
          BY <2>4, <5>1 DEF Litter
        <5>3. QED
          BY <3>1, <5>2 DEF Counted
      <4>3. CASE s = Stage(p)
        <5>1. r = Value(p)
          BY <3>1, <3>3, <4>1, <4>3, LoadKnown
        <5>2. r.outputs = [files |-> dest[s],
                           strays |-> IF s = "validate_data" THEN strays ELSE 0]
          BY <4>3, <5>1 DEF Value, Hashed
        <5>3. s = "validate_data" => Live = 0
          BY <4>1, <4>3 DEF Live, Writing, LoadState, Commands, Placed, Apart
        <5>4. Counted(s, r)
          BY <2>3, <5>2, <5>3 DEF Counted
        <5>5. Counted(s, r)'
          BY <2>4, <5>4
        <5>6. QED
          BY <3>1, <5>5 DEF Counted
      <4>4. QED
        BY <4>2, <4>3
    <3>4. QED
      BY <3>2, <3>3
  <2>7. QED
    BY <2>2, <2>5, <2>6 DEF Litter
<1>3. QED
  BY <1>1, <1>2

\* Reruns of the operator's own commands, killed or resumed, write the same again over
\* every registered output; what they can break is the hash of the map directories of
\* validate_data, by a temporary file of a run that goes on or was killed
\* (validation.py:60-66, artifacts.py:46-66).
THEOREM OwnRerunsBreakNothing == Spec => []OwnRerunsHarmless
<1>1. Init => Shape /\ Commands /\ Whole /\ (~raced => Once)
                /\ (~foreign /\ ~raced => OwnOutputs) /\ Litter
  BY ShapeInit, WholeInit, OnceInit, OwnInit, LitterInit
<1>2. Shape /\ Commands /\ Whole /\ (~raced => Once)
        /\ (~foreign /\ ~raced => OwnOutputs) /\ Litter /\ [Next]_vars
      => (Shape /\ Commands /\ Whole /\ (~raced => Once)
            /\ (~foreign /\ ~raced => OwnOutputs) /\ Litter)'
  BY ShapeStep, CommandsStep, WholeStep, OnceStep, OwnStep, LitterStep
<1>3. Shape /\ Whole /\ (~foreign /\ ~raced => OwnOutputs) /\ Litter => OwnRerunsHarmless
  <2>1. ASSUME Shape, Whole, OwnOutputs, Litter, NEW s \in Stages, Broken(s)
        PROVE  /\ s = "validate_data" /\ ~Altered(s)
               /\ strays > state[s].outputs.strays
               /\ crashes > 0 \/ \E p \in Procs : pc[p] = "swap"
    <3>1. Registered(s) /\ Present(s) /\ Counted(s, state[s])
      BY <2>1 DEF Whole, Kept, Broken, Registered, Litter
    <3>2. dest[s] = state[s].outputs.files
      BY <2>1, <3>1, OwnPresent
    <3>3. /\ state[s].outputs = [files |-> dest[s], strays |-> state[s].outputs.strays]
          /\ state[s].outputs.strays \in Nat
      BY <3>1, <3>2 DEF Counted, Registered
    <3>4. Hashed(s).strays # state[s].outputs.strays
      BY <2>1, <3>3 DEF Broken, Hashed
    <3>5. s = "validate_data"
      BY <3>1, <3>4 DEF Counted, Registered, Hashed
    <3>6. state[s].outputs.strays + Live <= strays /\ strays # state[s].outputs.strays
      BY <3>1, <3>4, <3>5 DEF Counted, Registered, Hashed
    <3>7. /\ strays \in Nat /\ Live \in {0, 1} /\ crashes \in Nat
          /\ strays <= crashes + Live
      BY <2>1 DEF Litter, Live, Shape
    <3>8. strays > state[s].outputs.strays /\ (crashes > 0 \/ Live = 1)
      BY <3>3, <3>6, <3>7
    <3>9. QED
      BY <3>2, <3>5, <3>8 DEF Altered, Live, Writing
  <2>2. QED
    BY <2>1 DEF OwnRerunsHarmless
<1>4. QED
  BY <1>1, <1>2, <1>3, PTL DEF Spec
=============================================================================
