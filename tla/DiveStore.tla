------------------------------ MODULE DiveStore ------------------------------
(***************************************************************************)
(* The shared run state of dive (methods/dive/src/dive): the commands that *)
(* resolve registered parents, produce their outputs and register them in  *)
(* run_state.json.  A sha256 is modelled by the content it digests: that   *)
(* of a directory by all the files in it, temporary ones included.         *)
(*                                                                         *)
(* Commands of different stages run at once and may be killed.  Stages in  *)
(* InPlace write their outputs over the ones that are there; the others    *)
(* build a pending directory and rename it.                                *)
(*                                                                         *)
(* A command resolves a stage as a whole.  In the code it names outputs of *)
(* it; all but audit_export name a map directory of validate_data.         *)
(***************************************************************************)
EXTENDS Naturals, Sequences

CONSTANTS
    Procs,          \* the operator's terminals
    Stages,         \* the stages that are run; others are inputs
    Envs,           \* what a command runs under: configuration, audit, revision
    Homes,          \* the environment the operator keeps relaunching each stage in
    None,           \* nothing: no stage, no build state
    MaxCrashes,     \* bound of the model: commands killed
    MaxExtras       \* bound of the model: commands the operator did not need

\* The parents each stage resolves before it does anything.
StageParents == [
    validate_data      |-> {},
    baseline_validate  |-> {"validate_data", "baseline_train"},
    baseline_train     |-> {"validate_data"},
    evidence_warmup    |-> {"validate_data", "baseline_validate", "baseline_train"},
    cache_frozen_train |-> {"validate_data", "baseline_validate", "baseline_train",
                            "evidence_warmup"},
    mine_propose       |-> {"validate_data", "cache_frozen_train"},
    audit_export       |-> {"validate_data", "mine_propose"},
    mine_finalize      |-> {"validate_data", "mine_propose", "audit_export",
                            "baseline_validate", "evidence_warmup",
                            "cache_frozen_train"}]

Building == {"cache_frozen_train", "mine_propose", "audit_export", "mine_finalize"}
InPlace  == {"validate_data", "baseline_validate", "evidence_warmup"}

ASSUME StoreAssumption ==
    /\ Stages \subseteq Building \cup InPlace
    /\ Envs \subseteq [config : STRING, audit : {"none", "accepted", "rejected"},
                       revision : STRING]
    /\ Homes \in [Stages -> Envs]
    /\ None \notin Stages
    /\ MaxCrashes \in Nat /\ MaxExtras \in Nat

Parents(s) == StageParents[s] \cap Stages

\* The outputs of validate_data and of baseline_validate name no revision.
Unversioned == {"validate_data", "baseline_validate"}

Hash(e) == <<e.config, e.audit>>
PreAuditHash(e) == <<e.config, "none">>
Seen(s, e) == [config   |-> Hash(e),
               revision |-> IF s \in Unversioned THEN "any" ELSE e.revision]

\* Nothing was digested: a stage without record, an output that is not there.
NoRecord == [config |-> <<>>]
NoOutput == [env |-> [config |-> <<>>]]

\* A pending directory: whether it is there, its build state, its finished parts.
NoPending == [there |-> FALSE, owner |-> None, parts |-> <<>>]
Unmarked  == [there |-> TRUE, owner |-> None, parts |-> <<>>]

\* Stages whose report must carry the configuration of the command that reads it.
BoundParents(s) ==
    CASE s = "cache_frozen_train" -> {"evidence_warmup"}
      [] s = "mine_propose"       -> {"cache_frozen_train"}
      [] s = "audit_export"       -> {"mine_propose"}
      [] s = "mine_finalize"      -> {"mine_propose", "audit_export"}
      [] OTHER                    -> {}
BoundHash(s, e) == IF s = "mine_finalize" THEN PreAuditHash(e) ELSE Hash(e)

VARIABLES
    state,      \* run_state.json: the value registered for each stage
    dest,       \* the first and the last output each stage writes
    strays,     \* temporary files in the map directories of validate_data
    pending,    \* the pending directory of each stage
    trained,    \* the checkpoints of the evidence warm-up
    pc, job,    \* the statement and the command of each process
    resolved,   \* the parents a command resolved: their contents when hashed
    built,      \* the parents as it read them
    seen,       \* the run state it loaded to extend
    ever,       \* every registration made so far
    raced,      \* two commands have been inside record_stage at once
    healed,     \* outputs that no longer matched their record do again
    foreign,    \* a command has been launched under another environment
    crashes, extras

files == <<state, dest, strays, pending, trained>>
locals == <<job, resolved, built, seen>>
ghosts == <<ever, raced, healed>>
bounds == <<foreign, crashes, extras>>
vars == <<files, pc, locals, ghosts, bounds>>

Stage(p) == job[p].stage
Env(p)   == job[p].env
Idle     == [stage |-> None, env |-> None]

Init ==
    /\ state = [s \in Stages |-> NoRecord]
    /\ dest = [s \in Stages |-> [first |-> NoOutput, last |-> NoOutput]]
    /\ strays = 0
    /\ pending = [s \in Stages |-> NoPending]
    /\ trained = None
    /\ pc = [p \in Procs |-> "idle"]
    /\ job = [p \in Procs |-> Idle]
    /\ resolved = [p \in Procs |-> None]
    /\ built = [p \in Procs |-> None]
    /\ seen = [p \in Procs |-> None]
    /\ ever = {} /\ raced = FALSE /\ healed = FALSE
    /\ foreign = FALSE /\ crashes = 0 /\ extras = 0

(***************************************************************************)
(* The store                                                               *)
(***************************************************************************)
Registered(s) == state[s] # NoRecord

\* What is hashed of a stage.  The maps of validate_data are registered as whole
\* directories, which hold whatever temporary file lies in them.
Hashed(s) == [files |-> dest[s], strays |-> IF s = "validate_data" THEN strays ELSE 0]

\* Variant: the recorded hash is not compared.
ResolvesUnhashed(s) == Registered(s)

\* resolve(): the stage is registered and its files have the recorded hashes.
Resolves(s) == Registered(s) /\ Hashed(s) = state[s].outputs

Broken(s) == Registered(s) /\ Hashed(s) # state[s].outputs

\* What a command that reads it would find is not what was registered.
Altered(s) == Registered(s) /\ dest[s] # state[s].outputs.files

Goto(p, next) == pc' = [pc EXCEPT ![p] = next]

\* The command is over: done, refused or dead.
Leave(p) ==
    /\ Goto(p, "idle")
    /\ job' = [job EXCEPT ![p] = Idle]
    /\ resolved' = [resolved EXCEPT ![p] = None]
    /\ built' = [built EXCEPT ![p] = None]
    /\ seen' = [seen EXCEPT ![p] = None]

(***************************************************************************)
(* Commands                                                                *)
(***************************************************************************)

\* A command the operator needs: his own, of a stage that does not resolve.
Needed(s, e) == e = Homes[s] /\ ~Resolves(s)

\* An operator runs one command of a stage at a time.
Launch(p, s, e) ==
    /\ pc[p] = "idle"
    /\ \A q \in Procs : Stage(q) # s
    /\ Needed(s, e) \/ extras < MaxExtras
    /\ extras' = IF Needed(s, e) THEN extras ELSE extras + 1
    /\ foreign' = (foreign \/ e # Homes[s])
    /\ Goto(p, "resolve")
    /\ job' = [job EXCEPT ![p] = [stage |-> s, env |-> e]]
    /\ UNCHANGED <<files, resolved, built, seen, ghosts, crashes>>

\* Every parent is resolved; their hashes are kept for the registration.
ResolveParents(p) ==
    /\ pc[p] = "resolve"
    /\ \A q \in Parents(Stage(p)) : Resolves(q)
    /\ resolved' = [resolved EXCEPT ![p] = [q \in Parents(Stage(p)) |-> Hashed(q)]]
    /\ Goto(p, IF Stage(p) \in Building THEN "reuse" ELSE "read")
    /\ UNCHANGED <<files, job, built, seen, ghosts, bounds>>

MissingParent(p) ==
    /\ pc[p] = "resolve"
    /\ \E q \in Parents(Stage(p)) : ~Resolves(q)
    /\ Leave(p)
    /\ UNCHANGED <<files, ghosts, bounds>>

\* Variant: the configuration of a parent is not compared.
AcceptableAudited(p) == Stage(p) = "mine_finalize" => Env(p).audit = "accepted"

\* The parents are read; some must carry the configuration of the command, and
\* a bank is finalized only after an accepted audit.
Acceptable(p) ==
    /\ \A q \in BoundParents(Stage(p)) \cap Stages :
          dest[q].last.env.config = BoundHash(Stage(p), Env(p))
    /\ Stage(p) = "mine_finalize" => Env(p).audit = "accepted"

ReadParents(p) ==
    /\ pc[p] = "read"
    /\ Acceptable(p)
    /\ built' = [built EXCEPT ![p] = [q \in Parents(Stage(p)) |-> dest[q]]]
    /\ Goto(p, CASE Stage(p) \in Building         -> "open"
                 [] Stage(p) = "evidence_warmup" -> "train"
                 [] OTHER                        -> "write")
    /\ UNCHANGED <<files, job, resolved, seen, ghosts, bounds>>

Unacceptable(p) ==
    /\ pc[p] = "read"
    /\ ~Acceptable(p)
    /\ Leave(p)
    /\ UNCHANGED <<files, ghosts, bounds>>

Provenance(p) == [env |-> Seen(Stage(p), Env(p)), parents |-> resolved[p]]
\* Variant: an output names the command that wrote it.
OutputSigned(p) == [env |-> Seen(Stage(p), Env(p)), parents |-> resolved[p], from |-> built[p],
                    by |-> p]
Output(p) == [env |-> Seen(Stage(p), Env(p)), parents |-> resolved[p], from |-> built[p]]

(* Stages that write in place *)

\* The warm-up is trained once: its checkpoint is replaced, and after it the sha256
\* beside it.  A rerun resumes the checkpoint when it has its sha256 and carries the
\* configuration and the parents it resolved, whatever the revision, and exports what
\* was trained.
Training(p) == [config |-> Hash(Env(p)), parents |-> resolved[p], from |-> built[p],
                hashed |-> FALSE]

Train(p) ==
    /\ pc[p] = "train"
    /\ trained = None
    /\ trained' = Training(p)
    /\ Goto(p, "hash")
    /\ UNCHANGED <<state, dest, strays, pending, locals, ghosts, bounds>>

HashCheckpoint(p) ==
    /\ pc[p] = "hash"
    /\ trained' = [trained EXCEPT !.hashed = TRUE]
    /\ Goto(p, "write")
    /\ UNCHANGED <<state, dest, strays, pending, locals, ghosts, bounds>>

ResumesTraining(p) ==
    /\ trained.hashed
    /\ trained.config = Hash(Env(p))
    /\ trained.parents = resolved[p]

ResumeTraining(p) ==
    /\ pc[p] = "train"
    /\ trained # None
    /\ ResumesTraining(p)
    /\ built' = [built EXCEPT ![p] = trained.from]
    /\ Goto(p, "write")
    /\ UNCHANGED <<files, job, resolved, seen, ghosts, bounds>>

RefuseTraining(p) ==
    /\ pc[p] = "train"
    /\ trained # None
    /\ ~ResumesTraining(p)
    /\ Leave(p)
    /\ UNCHANGED <<files, ghosts, bounds>>

\* One output is replaced; a registered one that was broken may match again.
Write(p, field, next) ==
    /\ dest' = [dest EXCEPT ![Stage(p)][field] = Output(p)]
    /\ healed' = (healed \/ /\ Altered(Stage(p))
                            /\ dest'[Stage(p)] = state[Stage(p)].outputs.files)
    /\ Goto(p, next)
    /\ UNCHANGED <<state, pending, trained, locals, ever, raced, bounds>>

\* _atomic_jsonl writes the map of a split beside the one it replaces, inside the
\* directory, under a name that is its process's own: no later run removes it.
MakeTemporary(p) ==
    /\ pc[p] = "write"
    /\ Stage(p) = "validate_data"
    /\ strays' = strays + 1
    /\ Goto(p, "swap")
    /\ UNCHANGED <<state, dest, pending, trained, locals, ghosts, bounds>>

ReplaceMap(p) ==
    /\ pc[p] = "swap"
    /\ strays' = strays - 1
    /\ Write(p, "first", "rewrite")

\* The other outputs are files, whose temporary files lie beside what is registered.
WriteFirst(p) ==
    /\ pc[p] = "write"
    /\ Stage(p) # "validate_data"
    /\ Write(p, "first", "rewrite")
    /\ UNCHANGED strays

WriteLast(p) == pc[p] = "rewrite" /\ Write(p, "last", "record") /\ UNCHANGED strays

(* Stages that build a pending directory *)

SameProvenance(p) ==
    /\ dest[Stage(p)].last.env = Provenance(p).env
    /\ dest[Stage(p)].last.parents = Provenance(p).parents

\* _registered_result: what is registered is returned, or refused.
ReturnRegistered(p) ==
    /\ pc[p] = "reuse"
    /\ Registered(Stage(p))
    /\ Leave(p)
    /\ UNCHANGED <<files, ghosts, bounds>>

\* Variant: a finished directory that is not registered is always refused.
AdoptRefused(p) ==
    /\ pc[p] = "reuse"
    /\ ~Registered(Stage(p)) /\ dest[Stage(p)].last # NoOutput
    /\ SameProvenance(p)
    /\ Leave(p)
    /\ UNCHANGED <<files, ghosts, bounds>>

\* A finished directory that is not registered is adopted when it is of this
\* command, and refused otherwise.
AdoptDestination(p) ==
    /\ pc[p] = "reuse"
    /\ ~Registered(Stage(p)) /\ dest[Stage(p)].last # NoOutput
    /\ SameProvenance(p)
    /\ Goto(p, "record")
    /\ UNCHANGED <<files, locals, ghosts, bounds>>

RefuseDestination(p) ==
    /\ pc[p] = "reuse"
    /\ ~Registered(Stage(p)) /\ dest[Stage(p)].last # NoOutput
    /\ ~SameProvenance(p)
    /\ Leave(p)
    /\ UNCHANGED <<files, ghosts, bounds>>

\* Variant: what is there is not looked at.
NothingThereAnyway(p) ==
    /\ pc[p] = "reuse"
    /\ Goto(p, "read")
    /\ UNCHANGED <<files, locals, ghosts, bounds>>

NothingThere(p) ==
    /\ pc[p] = "reuse"
    /\ ~Registered(Stage(p)) /\ dest[Stage(p)].last = NoOutput
    /\ Goto(p, "read")
    /\ UNCHANGED <<files, locals, ghosts, bounds>>

\* mkdir, and then build_state.json: in between the directory says nothing.  The
\* audit export has no build state.
MakePending(p) ==
    /\ pc[p] = "open"
    /\ ~pending[Stage(p)].there
    /\ pending' = [pending EXCEPT ![Stage(p)] = Unmarked]
    /\ Goto(p, IF Stage(p) = "audit_export" THEN "build" ELSE "mark")
    /\ UNCHANGED <<state, dest, strays, trained, locals, ghosts, bounds>>

MarkPending(p) ==
    /\ pc[p] = "mark"
    /\ pending' = [pending EXCEPT ![Stage(p)].owner = Provenance(p)]
    /\ Goto(p, "build")
    /\ UNCHANGED <<state, dest, strays, trained, locals, ghosts, bounds>>

\* What an interrupted command of the same provenance left is taken up: shards and
\* shortlists are kept, reports and banks written again.
KeptParts(s, parts) ==
    IF s \in {"cache_frozen_train", "mine_propose"} /\ parts # <<>>
    THEN <<Head(parts)>>
    ELSE <<>>

Resumable(p) ==
    /\ Stage(p) # "audit_export"
    /\ pending[Stage(p)].owner = Provenance(p)

ResumePending(p) ==
    /\ pc[p] = "open"
    /\ pending[Stage(p)].there
    /\ Resumable(p)
    /\ pending' = [pending EXCEPT ![Stage(p)].parts = KeptParts(Stage(p), @)]
    /\ Goto(p, "build")
    /\ UNCHANGED <<state, dest, strays, trained, locals, ghosts, bounds>>

RefusePending(p) ==
    /\ pc[p] = "open"
    /\ pending[Stage(p)].there
    /\ ~Resumable(p)
    /\ Leave(p)
    /\ UNCHANGED <<files, ghosts, bounds>>

\* Variant: parts are built again though all are there.
BuildPartAgain(p) ==
    /\ pc[p] = "build"
    /\ pending' = [pending EXCEPT ![Stage(p)].parts = Append(@, Output(p))]
    /\ UNCHANGED <<state, dest, strays, trained, pc, locals, ghosts, bounds>>

\* A part that is complete in the pending directory is not built again.
BuildPart(p) ==
    /\ pc[p] = "build"
    /\ Len(pending[Stage(p)].parts) < 2
    /\ pending' = [pending EXCEPT ![Stage(p)].parts = Append(@, Output(p))]
    /\ UNCHANGED <<state, dest, strays, trained, pc, locals, ghosts, bounds>>

PublishPending(p) ==
    /\ pc[p] = "build"
    /\ Len(pending[Stage(p)].parts) = 2
    /\ dest' = [dest EXCEPT ![Stage(p)] = [first |-> pending[Stage(p)].parts[1],
                                           last  |-> pending[Stage(p)].parts[2]]]
    /\ pending' = [pending EXCEPT ![Stage(p)] = NoPending]
    /\ Goto(p, "record")
    /\ UNCHANGED <<state, strays, trained, locals, ghosts, bounds>>

(* record_stage *)

Value(p) == [config  |-> Hash(Env(p)),
             parents |-> resolved[p],
             outputs |-> Hashed(Stage(p))]

\* Variant: the parents are not resolved again.
ParentsTrusted(p) == TRUE

\* Each parent must still be what was resolved.
ParentsUnchanged(p) ==
    \A q \in Parents(Stage(p)) : Resolves(q) /\ Hashed(q) = resolved[p][q]

\* Variant: a later registration replaces the earlier one.
RegistrableAgain(p) == TRUE

\* A stage is registered once: again only with the same value.
Registrable(p) == state[Stage(p)] \in {NoRecord, Value(p)}

LoadState(p) ==
    /\ pc[p] = "record"
    /\ ParentsUnchanged(p)
    /\ Registrable(p)
    /\ seen' = [seen EXCEPT ![p] = [state EXCEPT ![Stage(p)] = Value(p)]]
    /\ raced' = (raced \/ \E q \in Procs \ {p} : pc[q] = "replace")
    /\ Goto(p, "replace")
    /\ UNCHANGED <<files, job, resolved, built, ever, healed, bounds>>

RefuseRecord(p) ==
    /\ pc[p] = "record"
    /\ ~(ParentsUnchanged(p) /\ Registrable(p))
    /\ Leave(p)
    /\ UNCHANGED <<files, ghosts, bounds>>

\* os.replace: the whole file becomes the one this command composed.
ReplaceState(p) ==
    /\ pc[p] = "replace"
    /\ state' = seen[p]
    /\ ever' = ever \cup {<<Stage(p), seen[p][Stage(p)]>>}
    /\ Leave(p)
    /\ UNCHANGED <<dest, strays, pending, trained, raced, healed, bounds>>

Crash(p) ==
    /\ pc[p] # "idle"
    /\ crashes < MaxCrashes
    /\ crashes' = crashes + 1
    /\ Leave(p)
    /\ UNCHANGED <<files, ghosts, foreign, extras>>

Step(p) ==
    \/ ResolveParents(p) \/ MissingParent(p) \/ ReadParents(p) \/ Unacceptable(p)
    \/ Train(p) \/ HashCheckpoint(p) \/ ResumeTraining(p) \/ RefuseTraining(p)
    \/ MakeTemporary(p) \/ ReplaceMap(p) \/ WriteFirst(p) \/ WriteLast(p)
    \/ ReturnRegistered(p) \/ AdoptDestination(p) \/ RefuseDestination(p) \/ NothingThere(p)
    \/ MakePending(p) \/ MarkPending(p) \/ ResumePending(p) \/ RefusePending(p)
    \/ BuildPart(p) \/ PublishPending(p)
    \/ LoadState(p) \/ RefuseRecord(p) \/ ReplaceState(p)

Next == \E p \in Procs :
           \/ Step(p)
           \/ Crash(p)
           \/ \E s \in Stages, e \in Envs : Launch(p, s, e)

Spec == Init /\ [][Next]_vars

\* A live command continues; the operator relaunches what he still needs.
FairSpec ==
    /\ Spec
    /\ \A p \in Procs : WF_vars(Step(p))
    /\ \A s \in Stages : SF_vars(\E p \in Procs : Needed(s, Homes[s]) /\ Launch(p, s, Homes[s]))

(***************************************************************************)
(* Properties                                                              *)
(***************************************************************************)
TypeOK ==
    /\ \A s \in Stages :
          /\ Registered(s) => DOMAIN state[s].parents = Parents(s)
          /\ pending[s].there => s \in Building /\ Len(pending[s].parts) <= 2
          /\ s \in Building => (dest[s].first = NoOutput) = (dest[s].last = NoOutput)
    /\ \A p \in Procs : pc[p] = "idle" <=> job[p] = Idle
    /\ crashes \in 0..MaxCrashes /\ extras \in 0..MaxExtras

\* "Atomically register an immutable stage result": a registration stays as it is,
\* unless two commands have been between the load and the replacement of
\* run_state.json at once.
RegistrationsStay == ~raced => \A r \in ever : state[r[1]] = r[2]

\* The run state is one chain: what a registered stage names as its parents is
\* what is registered for them.
OneChain ==
    ~raced => \A s \in Stages : Registered(s) =>
        \A q \in Parents(s) : Registered(q) /\ state[q].outputs = state[s].parents[q]

\* What there is to read of what was hashed.
FilesOf(parents) == [q \in DOMAIN parents |-> parents[q].files]

\* A registered output was computed from the parents its record names, however
\* many commands built it, unless a broken parent was meanwhile made whole again
\* (its hash is compared before and after, not while it is read).
LineageTrue ==
    ~healed /\ ~raced => \A s \in Stages : Registered(s) =>
        /\ state[s].outputs.files.first.from = FilesOf(state[s].parents)
        /\ state[s].outputs.files.last.from = FilesOf(state[s].parents)

\* A stage that is built in a pending directory and renamed never stops resolving.
BuiltStaysWhole == \A s \in Building \cap Stages : Registered(s) => Resolves(s)

\* Reruns of the operator's own commands, killed or not, write the same again over
\* every registered output; only a command under another configuration or revision
\* alters one, before record_stage refuses it.  All they can break is the hash of the
\* map directories, by a temporary file: while validate_data is run again, or for
\* good when such a run was killed.  (Two commands that registered at once may leave
\* a stage registered over parents that are no longer the ones that are there.)
OwnRerunsHarmless ==
    ~foreign /\ ~raced => \A s \in Stages : Broken(s) =>
        /\ s = "validate_data" /\ ~Altered(s)
        /\ strays > state[s].outputs.strays
        /\ crashes > 0 \/ \E p \in Procs : pc[p] = "swap"

\* What is bound to the configuration of its parent was made under it.
BoundConfiguration ==
    ~healed /\ ~raced => \A s \in Stages : Registered(s) =>
        \A q \in BoundParents(s) \cap Stages :
            state[s].parents[q].files.last.env.config =
                IF s = "mine_finalize" THEN <<state[s].config[1], "none">>
                ELSE state[s].config

\* What the code cannot get out of by itself: a pending directory with no build
\* state or of another provenance, a finished one of another provenance, a
\* checkpoint of other parents or without its sha256, a temporary file that a killed
\* rerun left in a registered directory.
HomeProvenance(s) == [env |-> Seen(s, Homes[s]),
                      parents |-> [q \in Parents(s) |-> Hashed(q)]]
Untrainable(s) ==
    /\ s = "evidence_warmup" /\ trained # None
    /\ \/ ~trained.hashed
       \/ trained.config # Hash(Homes[s])
       \/ trained.parents # HomeProvenance(s).parents

Stuck(s) ==
    /\ s \in Building /\ ~Registered(s)
    /\ \/ pending[s].there /\ (s = "audit_export" \/ pending[s].owner # HomeProvenance(s))
       \/ /\ dest[s].last # NoOutput
          /\ \/ dest[s].last.env # HomeProvenance(s).env
             \/ dest[s].last.parents # HomeProvenance(s).parents

Littered(s) == Registered(s) /\ Hashed(s).strays # state[s].outputs.strays

Foreign(s) == /\ Registered(s)
              /\ \/ state[s].outputs.files.first.env # Seen(s, Homes[s])
                 \/ state[s].outputs.files.last.env # Seen(s, Homes[s])
                 \/ state[s].config # Hash(Homes[s])

\* The operator who relaunches his stages gets them all registered, or one of four
\* obstacles stays: a directory no command resumes, a checkpoint no command resumes,
\* a stage that was registered under something else, a registered directory with a
\* file that was not hashed.
Settles ==
    <>[](\/ \A s \in Stages : Registered(s) /\ Resolves(s)
         \/ \E s \in Stages : Stuck(s) \/ Untrainable(s) \/ Foreign(s) \/ Littered(s))
=============================================================================
