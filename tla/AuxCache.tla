------------------------------- MODULE AuxCache -------------------------------
(***************************************************************************)
(* build_cache (methods/elsc/elsc/mining/build_cache.py): the auxiliary    *)
(* cache mined with a teacher checkpoint.  The files go straight into the  *)
(* cache directory, the metadata last; the metadata hashes the inputs, the *)
(* teacher and the manifest, as they are then.  A directory without        *)
(* metadata is refused.                                                    *)
(***************************************************************************)
EXTENDS Builder

Init == Begin(Inputs)

Empty == [state |-> mem.input, bank |-> None, vocab |-> None, graph |-> None, records |-> None]

Directories ==
    [state : Inputs, bank : Contents \cup {Torn}, vocab : Maybe(Contents),
     graph : Maybe(Contents), records : Maybe(Contents \cup {Torn})]
Published == [files : Directories, report : Inputs]

\* The metadata names the inputs there are, and the hashes of the files.
Reuse ==
    /\ final # None /\ final.report = now
    /\ Step("down", "done")
    /\ Loaded /\ UNCHANGED <<pending, final, registered>>

Mine ==
    /\ final = None /\ pending = None
    /\ Step("down", "bank")
    /\ Loaded /\ UNCHANGED <<pending, final, registered>>

SaveBank ==
    /\ Step("bank", "vocab")
    /\ pending' = [Empty EXCEPT !.bank = Made]
    /\ UNCHANGED <<mem, final, registered>>

SaveVocab == Step("vocab", "graph") /\ Put("vocab", Made)
SaveGraph == Step("graph", "records") /\ Put("graph", Made)
SaveRecords == Step("records", "meta") /\ Put("records", Made)

SaveMeta ==
    /\ Step("meta", "done")
    /\ final' = [files |-> pending, report |-> now]
    /\ pending' = None /\ UNCHANGED <<mem, registered>>

Work == Reuse \/ Mine \/ SaveBank \/ SaveVocab \/ SaveGraph \/ SaveRecords \/ SaveMeta

\* The arrays and the records are not written to a temporary file first.
Cut ==
    Kill(CASE pc = "bank"    -> {[Empty EXCEPT !.bank = Torn]}
           [] pc = "records" -> {[pending EXCEPT !.records = Torn]}
           [] OTHER          -> {})

Complete(files) ==
    /\ Torn \notin {files.bank, files.vocab, files.graph, files.records}
    /\ {files.bank.input, files.vocab.input, files.graph.input, files.records.input}
           = {files.state}

\* The cache is of the inputs its metadata names, unless they were replaced
\* while it was being mined.
Whole ==
    final # None => /\ Complete(final.files)
                    /\ swaps # {} \/ final.report = final.files.state

\* Killed between the first file and the metadata.
Obstacle ==
    \/ cuts \cap {"vocab", "graph", "records", "meta"} # {}
    \/ pending # None /\ pending.bank = Torn
    \/ Outdated
=============================================================================
