----------------------------- MODULE SpanCaches -----------------------------
(***************************************************************************)
(* create_reference_cache and mine_reference_negatives                     *)
(* (methods/sssc/method1/): two commands, one after the other, that build  *)
(* the cache of spans and, inside it, the bundle of mined negatives, which *)
(* a trainer then reads.  Each is written into a directory of its own      *)
(* launch and renamed; a killed launch leaves that directory to nobody.    *)
(* The identity of the inputs is hashed first, and is what every reader    *)
(* compares; the inputs themselves are read later.                         *)
(***************************************************************************)
EXTENDS Builder

Init == Begin(Inputs)

\* The hashes of teacher, tokenizer, manifests and code.
Identify == mem' = [input |-> now, teacher |-> None, data |-> None, label |-> None]
Reads(part) == mem' = [mem EXCEPT ![part] = now]

Unwritten == UNCHANGED <<pending, final, registered>>

\* The reference cache.
HashIdentity == final = None /\ Step("down", "teacher") /\ Identify /\ Unwritten
LoadTeacher == Step("teacher", "manifests") /\ Reads("teacher") /\ Unwritten
LoadRecords == Step("manifests", "arrays") /\ Reads("data") /\ Unwritten

Encoded == [teacher |-> mem.teacher, data |-> mem.data, try |-> kills]

Encodings == [teacher : Inputs, data : Inputs, try : 0..MaxKills]
Bundles ==
    [state : Inputs, label : Inputs, edits : Encodings, negatives : Maybe(Encodings)]
References ==
    [report : Inputs, arrays : Encodings, indexes : Encodings, bundle : Maybe(Bundles)]
PendingReferences ==
    [state : Inputs, arrays : Encodings, indexes : Maybe(Encodings)]

StageArrays ==
    /\ Step("arrays", "indexes")
    /\ pending' = [state |-> mem.input, arrays |-> Encoded, indexes |-> None]
    /\ UNCHANGED <<mem, final, registered>>

StageIndexes == Step("indexes", "reference") /\ Put("indexes", Encoded)

ReplaceReference ==
    /\ Step("reference", "down")
    /\ final' = [report |-> pending.state, arrays |-> pending.arrays,
                 indexes |-> pending.indexes, bundle |-> None]
    /\ pending' = None /\ mem' = None /\ UNCHANGED registered

ValidReference == final # None /\ final.report = now

\* The bundle of mined negatives: the teacher is loaded once more, and the
\* manifests are hashed at the end.
ValidateReference ==
    /\ Step("down", "captions") /\ ValidReference /\ final.bundle = None
    /\ Identify /\ Unwritten
LoadCaptions == Step("captions", "encode") /\ Reads("data") /\ Unwritten
EncodeNegatives == Step("encode", "hash") /\ Reads("teacher") /\ Unwritten
HashManifests == Step("hash", "mining") /\ Reads("label") /\ Unwritten

StageMining ==
    /\ Step("mining", "negatives")
    /\ pending' = [state |-> mem.input, label |-> mem.label, edits |-> Encoded,
                   negatives |-> None]
    /\ UNCHANGED <<mem, final, registered>>

StageNegatives == Step("negatives", "bundle") /\ Put("negatives", Encoded)

ReplaceBundle ==
    /\ Step("bundle", "down")
    /\ final' = [final EXCEPT !.bundle = pending]
    /\ registered' = TRUE
    /\ pending' = None /\ mem' = None

\* The trainer opens both.
Open ==
    /\ Step("down", "done") /\ ValidReference
    /\ final.bundle # None /\ final.bundle.state = now
    /\ Identify /\ Unwritten

Work == \/ HashIdentity \/ LoadTeacher \/ LoadRecords \/ StageArrays \/ StageIndexes
        \/ ReplaceReference
        \/ ValidateReference \/ LoadCaptions \/ EncodeNegatives \/ HashManifests
        \/ StageMining \/ StageNegatives \/ ReplaceBundle
        \/ Open

Cut == Kill({None}) /\ pending' = None

Complete(dir) == dir.arrays # None /\ dir.indexes = dir.arrays

\* A trainer is given spans and negatives made from the teacher and the captions
\* of the run, and made together, unless an input was replaced in the short time
\* between its hash and its reading: nobody compares again.
Whole ==
    LET Read == {final.arrays.teacher, final.arrays.data}
        Mined == {final.bundle.edits.teacher, final.bundle.edits.data, final.bundle.label}
    IN  /\ final # None =>
              /\ Complete(final)
              /\ swaps \cap {"teacher", "manifests"} = {} => Read = {final.report}
        /\ registered =>
              /\ final.bundle.negatives = final.bundle.edits
              /\ final.bundle.state = final.report
              /\ swaps \cap {"captions", "encode", "hash"} = {} => Mined = {final.report}

\* Neither cache is replaced: other inputs than those it names are refused.
Obstacle == Outdated
=============================================================================
