---------------------------- MODULE ProposalMining ----------------------------
(***************************************************************************)
(* propose_train_contrasts (methods/dive/src/dive/mining/runner.py) and    *)
(* the persistent pair scorer of pair_scorer.py: shortlists, the vectors   *)
(* of pair scores, each filled chunk by chunk beside a progress file, and  *)
(* the proposals.  A relaunched command reads the shortlists again and     *)
(* continues the vectors; what follows it writes again.                    *)
(***************************************************************************)
EXTENDS Builder

CONSTANTS Vectors, NumChunks    \* Vectors is 1..n: the scorer's calls in order

Chunks == 1..NumChunks
Progress(done, sha) == [done |-> done, sha |-> sha]

\* The file names of a vector contain the inputs it is computed from.
Empty ==
    [state    |-> None, lists |-> None, listsMeta |-> None,
     progress |-> [k \in Vectors \X Inputs |-> None],
     scores   |-> [k \in Vectors \X Inputs |-> None],
     coverage |-> None, proposals |-> None, proposalsMeta |-> None,
     rejections |-> None, report |-> None]

Init == Begin(Inputs)

Directories ==
    [state : Maybe(Inputs), lists : Maybe(Contents), listsMeta : Maybe(Contents),
     progress : [Vectors \X Inputs -> Maybe([done : 0..NumChunks, sha : BOOLEAN])],
     scores : [Vectors \X Inputs -> {None, Torn} \cup SUBSET Chunks],
     coverage : Maybe(Contents), proposals : Maybe(Contents), proposalsMeta : Maybe(Contents),
     rejections : Maybe(Contents), report : Maybe(Inputs)]

\* validate_persistent_pair_score_cache
Scored(dir, input) ==
    /\ {k \in Vectors \X Inputs : dir.progress[k] # None} =
       {k \in Vectors \X Inputs : dir.scores[k] # None}
    /\ \A k \in Vectors \X Inputs : dir.progress[k] # None =>
           k[2] = input /\ dir.progress[k] = Progress(NumChunks, TRUE)

Adopt ==
    Find(/\ final.proposals = final.proposalsMeta /\ final.proposalsMeta.input = final.report
         /\ final.lists = final.listsMeta /\ final.listsMeta.input = final.report
         /\ Scored(final, final.report)
         /\ final.coverage.input = final.report)

Make == MakePending(Empty)
Resume == Reopen(TRUE)

(***************************************************************************)
(* Shortlists                                                              *)
(***************************************************************************)
LoadLists ==
    /\ Step("build", "vector")
    /\ pending.lists # None /\ pending.lists = pending.listsMeta
    /\ pending.lists.input = mem.input
    /\ UNCHANGED <<mem, pending, final, registered>>

WriteLists ==
    /\ Step("build", "listsMeta")
    /\ pending.lists = None /\ pending.listsMeta = None
    /\ Put("lists", Made)

WriteListsMeta == Step("listsMeta", "vector") /\ Put("listsMeta", pending.lists)

(***************************************************************************)
(* Pair scores                                                             *)
(***************************************************************************)
Key(v) == <<v, mem.input>>
Verified(v) == pending.progress[Key(v)] # None /\ pending.progress[Key(v)].sha
Unscored == {v \in Vectors : ~Verified(v)}
Current == CHOOSE v \in Unscored : \A w \in Unscored : v <= w

SetProgress(done, sha) ==
    [pending.progress EXCEPT ![Key(Current)] = Progress(done, sha)]

Scoring == pc = "vector" /\ Unscored # {}

CreateProgress ==
    /\ Scoring /\ pending.progress[Key(Current)] = None
    /\ pending.scores[Key(Current)] = None
    /\ Step("vector", "scores")
    /\ Put("progress", SetProgress(0, FALSE))

CreateScores ==
    /\ Step("scores", "chunk")
    /\ pending' = [pending EXCEPT !.scores[Key(Current)] = {}]
    /\ mem' = [input |-> mem.input, chunk |-> 0]
    /\ UNCHANGED <<final, registered>>

\* Variant: the recorded progress is taken for the last chunk that is there.
ResumedPast(done) == IF done = 0 THEN 0 ELSE done + 1

Resumed(done) == done

\* A vector that is full but has no checksum is refused, and a torn one.
OpenVector ==
    LET progress == pending.progress[Key(Current)] IN
    /\ Scoring /\ progress # None
    /\ progress.done < NumChunks /\ pending.scores[Key(Current)] # Torn
    /\ IF pending.scores[Key(Current)] = None
       THEN /\ progress.done = 0
            /\ Step("vector", "scores") /\ UNCHANGED mem
       ELSE /\ Step("vector", "chunk")
            /\ mem' = [input |-> mem.input, chunk |-> Resumed(progress.done)]
    /\ UNCHANGED <<pending, final, registered>>

WriteChunk ==
    /\ Step("chunk", "progress")
    /\ Put("scores", [pending.scores EXCEPT ![Key(Current)] =
                          @ \cup ({mem.chunk + 1} \cap Chunks)])

SaveProgress ==
    LET stop == IF mem.chunk < NumChunks THEN mem.chunk + 1 ELSE NumChunks IN
    /\ Step("progress", IF stop = NumChunks THEN "checksum" ELSE "chunk")
    /\ pending' = [pending EXCEPT !.progress = SetProgress(stop, FALSE)]
    /\ mem' = [mem EXCEPT !.chunk = stop]
    /\ UNCHANGED <<final, registered>>

SaveChecksum == Step("checksum", "vector") /\ Put("progress", SetProgress(NumChunks, TRUE))

(***************************************************************************)
(* Coverage, proposals, rejections                                         *)
(***************************************************************************)
WriteCoverage == Step("vector", "proposals") /\ Unscored = {} /\ Put("coverage", Made)
WriteProposals == Step("proposals", "proposalsMeta") /\ Put("proposals", Made)
WriteProposalsMeta == Step("proposalsMeta", "rejections") /\ Put("proposalsMeta", Made)
WriteRejections == Step("rejections", "report") /\ Put("rejections", Made)

Score ==
    \/ CreateProgress \/ CreateScores \/ OpenVector \/ WriteChunk
    \/ SaveProgress \/ SaveChecksum

Work ==
    \/ Adopt \/ Make \/ WriteState \/ Resume \/ LoadLists \/ WriteLists \/ WriteListsMeta
    \/ Score \/ WriteCoverage \/ WriteProposals \/ WriteProposalsMeta \/ WriteRejections
    \/ WriteReport \/ Publish \/ Register

\* The data file is created empty before its header is written.
Cut == Kill(IF pc = "scores" THEN {[pending EXCEPT !.scores[Key(Current)] = Torn]} ELSE {})

Filled(dir) ==
    \A k \in Vectors \X Inputs :
        dir.progress[k] # None /\ dir.scores[k] \notin {None, Torn} =>
            1..dir.progress[k].done \subseteq dir.scores[k]

Complete(dir) ==
    /\ \A v \in Vectors : dir.scores[<<v, dir.report>>] = Chunks
    /\ Scored(dir, dir.report) /\ Filled(dir)
    /\ dir.lists = dir.listsMeta /\ dir.proposals = dir.proposalsMeta
    /\ {dir.lists.input, dir.coverage.input, dir.proposals.input, dir.rejections.input}
           = {dir.report}

Whole ==
    /\ final # None => Complete(final)
    /\ pending # None => Filled(pending)

\* Killed before build_state.json; between the shortlists and their metadata;
\* after a vector's last chunk and before its checksum.
Obstacle ==
    \/ cuts \cap {"state", "listsMeta", "checksum"} # {}
    \/ pending # None /\ \E k \in Vectors \X Inputs : pending.scores[k] = Torn
    \/ Outdated
=============================================================================
