------------------------------- MODULE MCBuilds -------------------------------
(***************************************************************************)
(* The builders of artifacts, one at a time: the variables are those of    *)
(* the builder that `which` names.                                         *)
(***************************************************************************)
EXTENDS Builder

CONSTANTS Caches, Batches, Vectors, NumChunks, Accepted, Broken

VARIABLE which

vars == <<which, bvars>>

Frozen  == INSTANCE FrozenCache
Mining  == INSTANCE ProposalMining
Export  == INSTANCE AuditExport
Bank    == INSTANCE BankFinalization
Aux     == INSTANCE AuxCache
Spans   == INSTANCE SpanCaches

\* Batches, caches and vectors are ordered; None and Torn are not what a command
\* writes.
ASSUME BuildsAssumption ==
    /\ Caches \cup Batches \cup Vectors \subseteq Nat /\ NumChunks \in Nat
    /\ Torn \notin Contents
    /\ \A S \in SUBSET Mining!Chunks : S \notin {None, Torn}
    /\ None \notin Contents \cup Spans!Encodings
    /\ None \notin [done : 0..NumChunks, sha : BOOLEAN] \cup [Batches -> Maybe(Contents)]
    /\ None \notin Frozen!Directories \cup Mining!Directories \cup Export!Directories
                       \cup Bank!Directories \cup Aux!Directories \cup Aux!Published
                       \cup Spans!PendingReferences \cup Spans!References

Init ==
    /\ which \in {"frozen", "mining", "export", "bank", "aux", "spans"}
    /\ Begin(Inputs)

Work ==
    /\ UNCHANGED which
    /\ \/ which = "frozen" /\ Frozen!Work
       \/ which = "mining" /\ Mining!Work
       \/ which = "export" /\ Export!Work
       \/ which = "bank" /\ Bank!Work
       \/ which = "aux" /\ Aux!Work
       \/ which = "spans" /\ Spans!Work

Interruptions ==
    /\ UNCHANGED which
    /\ \/ which = "frozen" /\ Frozen!Cut
       \/ which = "mining" /\ Mining!Cut
       \/ which = "export" /\ Export!Cut
       \/ which = "bank" /\ Bank!Cut
       \/ which = "aux" /\ Aux!Cut
       \/ which = "spans" /\ Spans!Cut

Changes == UNCHANGED which /\ Change

Next == Work \/ Interruptions \/ Changes

\* The operator relaunches, and a command that runs takes its steps.
Spec == Init /\ [][Next]_vars /\ WF_vars(Work)

Finished(dir) ==
    CASE which = "frozen" -> Frozen!Complete(dir)
      [] which = "mining" -> Mining!Complete(dir)
      [] which = "export" -> Export!Complete(dir)
      [] which = "bank"   -> Bank!Complete(dir)
      [] which = "aux"    -> Aux!Complete(dir.files)
      [] which = "spans"  -> Spans!Complete(dir)

\* A build is atomic, as the store takes it to be: what is published is complete,
\* of the one input it was begun with, and is registered later and never replaced.
Promise == INSTANCE StageBuild WITH
    pending   <- IF pending = None \/ final # None THEN None ELSE pending.state,
    published <- IF final = None THEN None
                 ELSE IF ~Finished(final) THEN Broken
                 ELSE IF which = "aux" THEN final.files.state ELSE final.report
BuildsAtomically == Promise!Spec

\* The files of an artifact agree with each other, published or being written.
Whole ==
    CASE which = "frozen" -> Frozen!Whole
      [] which = "mining" -> Mining!Whole
      [] which = "export" -> Export!Whole
      [] which = "bank"   -> Bank!Whole
      [] which = "aux"    -> Aux!Whole
      [] which = "spans"  -> Spans!Whole

\* Relaunching ends with a registered artifact, or at one of the obstacles that
\* a kill at the named statements, or a change of the inputs, leaves.
Completes ==
    <>(pc = "done" \/ CASE which = "frozen" -> Frozen!Obstacle
                        [] which = "mining" -> Mining!Obstacle
                        [] which = "export" -> Export!Obstacle
                        [] which = "bank"   -> Bank!Obstacle
                        [] which = "aux"    -> Aux!Obstacle
                        [] which = "spans"  -> Spans!Obstacle)
=============================================================================
