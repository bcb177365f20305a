----------------------------- MODULE AuditExport -----------------------------
(***************************************************************************)
(* export_proposal_audit (methods/dive/src/dive/mining/audit_runner.py):   *)
(* the sheet that a human fills, the template of the decision, and a       *)
(* report with the hashes of both.  A pending directory is never taken up. *)
(***************************************************************************)
EXTENDS Builder

\* `state` is the input of the launch that made the directory.
Empty == [state |-> now, annotation |-> None, decision |-> None, report |-> None, hashes |-> None]

Init == Begin(Inputs)

Hashes(dir) == <<dir.annotation, dir.decision>>

Directories ==
    [state : Inputs, annotation : Maybe(Contents), decision : Maybe(Contents),
     report : Maybe(Inputs), hashes : Maybe(Maybe(Contents) \X Maybe(Contents))]

Adopt == Find(final.hashes = Hashes(final))

Make ==
    /\ Step("down", "annotation")
    /\ final = None /\ pending = None
    /\ pending' = Empty
    /\ Loaded /\ UNCHANGED <<final, registered>>

WriteSheet == Step("annotation", "decision") /\ Put("annotation", Made)
WriteTemplate == Step("decision", "report") /\ Put("decision", Made)

SaveReport ==
    /\ Step("report", "publish")
    /\ pending' = [pending EXCEPT !.report = mem.input, !.hashes = Hashes(pending)]
    /\ UNCHANGED <<mem, final, registered>>

Work == Adopt \/ Make \/ WriteSheet \/ WriteTemplate \/ SaveReport \/ Publish \/ Register

Cut == Kill({})

Complete(dir) ==
    /\ dir.hashes = Hashes(dir)
    /\ {dir.annotation.input, dir.decision.input} = {dir.report}

Whole == final # None => Complete(final)

\* Killed between the creation of the directory and its publication.
Obstacle ==
    cuts \cap {"annotation", "decision", "report", "publish"} # {} \/ Outdated
=============================================================================
