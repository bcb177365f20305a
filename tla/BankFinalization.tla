--------------------------- MODULE BankFinalization ---------------------------
(***************************************************************************)
(* finalize_train_contrasts (methods/dive/src/dive/mining/finalize_runner  *)
(* .py): the bank of an accepted human audit.  The input that matters here *)
(* is the decision and its annotation, two files that the human may still  *)
(* edit: the command reads the decision, hashes it, and copies both when   *)
(* the bank is written.                                                    *)
(***************************************************************************)
EXTENDS Builder

CONSTANT Accepted    \* decisions whose audit_status is accepted

Init == Begin(Inputs)

Empty ==
    [state |-> None, bank |-> None, bankMeta |-> None, decision |-> None,
     annotation |-> None, rejections |-> None, report |-> None]

Banks == [input : Inputs, hash : Inputs]
Directories ==
    [state : Maybe(Inputs), bank : Maybe(Banks), bankMeta : Maybe(Banks),
     decision : Maybe(Inputs), annotation : Maybe(Inputs), rejections : Maybe(Banks),
     report : Maybe(Inputs)]

Relaunched(to) == Step("down", to) /\ UNCHANGED <<pending, final, registered>>

\* A bank that is not registered must agree with the hashes of its report.
Adopt ==
    /\ final # None
    /\ registered \/ /\ final.bank = final.bankMeta
                     /\ {final.decision, final.annotation} = {final.report}
    /\ Relaunched(IF registered THEN "done" ELSE "register")
    /\ Loaded

ReadDecision == final = None /\ now \in Accepted /\ Relaunched("hash") /\ Loaded

HashDecision ==
    /\ Step("hash", "open")
    /\ mem' = [input |-> mem.input, hash |-> now]
    /\ UNCHANGED <<pending, final, registered>>

Make == pending = None /\ Step("open", "state")
            /\ pending' = Empty /\ UNCHANGED <<mem, final, registered>>

\* A directory begun under another decision is refused.
Resume ==
    /\ pending # None
    /\ Step("open", IF pending.state = mem.hash THEN "bank" ELSE "down")
    /\ mem' = IF pending.state = mem.hash THEN mem ELSE None
    /\ UNCHANGED <<pending, final, registered>>

SaveState == Step("state", "bank") /\ Put("state", mem.hash)
WriteBank == Step("bank", "bankMeta") /\ Put("bank", mem)
WriteBankMeta == Step("bankMeta", "decision") /\ Put("bankMeta", mem)
CopyDecision == Step("decision", "annotation") /\ Put("decision", now)
CopyAnnotation == Step("annotation", "rejections") /\ Put("annotation", now)
WriteRejections == Step("rejections", "report") /\ Put("rejections", mem)
SaveReport == Step("report", "publish") /\ Put("report", mem.hash)

Work ==
    \/ Adopt \/ ReadDecision \/ HashDecision \/ Make \/ Resume \/ SaveState
    \/ WriteBank \/ WriteBankMeta \/ CopyDecision \/ CopyAnnotation \/ WriteRejections
    \/ SaveReport \/ Publish \/ Register

Cut == Kill({})

\* An edit while the command is between the reading and the copies: nothing
\* compares the copies with the hash before the bank is registered.
Edited == swaps \cap {"hash", "open", "state", "bank", "bankMeta", "decision", "annotation"} # {}

Complete(dir) ==
    /\ dir.bank = dir.bankMeta /\ dir.bank = dir.rejections
    /\ dir.bank.input \in Accepted /\ dir.bank.hash = dir.report

Whole ==
    final # None =>
        /\ Complete(final)
        /\ Edited \/ {final.decision, final.annotation, final.bank.input} = {final.report}

\* Killed before build_state.json; another decision than the one begun with; a
\* decision that is not an acceptance; copies that differ from the report.
Obstacle ==
    \/ "state" \in cuts
    \/ pc = "down" /\ pending # None /\ pending.state \notin {None, now}
    \/ now \notin Accepted
    \/ final # None /\ ~registered /\ {final.decision, final.annotation} # {final.report}
=============================================================================
