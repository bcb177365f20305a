------------------------- MODULE TrainRunRefinement -------------------------
(* TrainRun implements DevSelection, for every value of the constants. *)
EXTENDS TrainRunProofs, SequenceTheorems

\* The registered choice among a whole path is the abstract one.
LEMMA SameChoice ==
  ASSUME last # NoFile, NEW k, FirstBest(last.weights, Len(last.weights), k),
         last.weights \in Seq(Models)
  PROVE  Promise!FirstBest(k)
<1>1. DOMAIN last.weights = 1..Len(last.weights)
  OBVIOUS
<1>2. \A m, n : Promise!Beats(m, n) <=> Better(Dev(m), Dev(n))
  BY DEF Promise!Beats, Better, Dev
<1>3. QED
  BY <1>1, <1>2 DEF FirstBest, Promise!FirstBest

LEMMA InitImplements == Init => Promise!Init
  BY DEF Init, Promise!Init

\* Most actions write neither last.pt nor selection.json and lose nothing.
LEMMA Silent ==
  [Next]_vars => \/ SaveLast \/ WriteSelection \/ Crash
                 \/ UNCHANGED <<last, selection, torn>>
  BY DEF Next, vars, files, ResourcesShort, Launch, SkipCompleted,
         RefuseOverwrite, StartFresh, StartResume, Resume, ResumeMismatch,
         Step, OpenResolved, CloseResolved, EvaluateInit, SaveInit,
         SaveInitMetrics, StartEpoch, EndTraining, LeaveLoop, TrainBatch,
         EvaluateEpoch, NewBest, KeepBest, SaveBest, SaveMetrics,
         WriteSummary, Verify

LEMMA NextImplements ==
  RunInv /\ [Next]_vars => [Promise!Next]_(Promise!avars)
<1> SUFFICES ASSUME RunInv, [Next]_vars
             PROVE  Promise!Next \/ UNCHANGED Promise!avars
  OBVIOUS
<1> USE ModelsAssumption, BoundsAssumption, FilesAssumption
<1>0. TypeOK /\ FilesInv /\ MemoryInv
  BY DEF RunInv
<1>1. CASE SaveLast
  <2>1. /\ selection = NoFile /\ selection' = NoFile /\ torn' = torn
        /\ last' # NoFile /\ last'.weights = weights
        /\ weights \in Seq(Models) /\ epoch \in Nat /\ epoch < Epochs
        /\ Len(weights) = epoch + 2
    BY <1>0, <1>1, Written
    DEF SaveLast, SaveLastWith, MemoryInv, TypeOK, InEpoch
  <2>2. CASE epoch = 0
    <3>1. last = NoFile
      BY <1>0, <1>1, <2>2 DEF SaveLast, SaveLastWith, MemoryInv, InEpoch
    <3>2. /\ weights = <<weights[1], weights[2]>>
          /\ weights[1] \in Models /\ weights[2] \in Models
      <4>1. weights[1] \in Models /\ weights[2] \in Models
        <5>1. 1 \in 1..Len(weights) /\ 2 \in 1..Len(weights)
          BY <2>1, <2>2
        <5>2. QED
          BY <2>1, <5>1
      <4>2. PICK t \in Seq(Models) : t = <<weights[1], weights[2]>>
        <5>1. <<weights[1], weights[2]>> \in Seq(Models)
          BY <4>1
        <5>2. QED
          BY <5>1, Zenon
      <4>3. Len(t) = 2 /\ t[1] = weights[1] /\ t[2] = weights[2]
        BY <4>2
      <4>4. Len(weights) = Len(t) /\ \A i \in 1..Len(weights) : weights[i] = t[i]
        BY <2>1, <2>2, <4>3
      <4>5. weights = t
        BY <2>1, <4>4, SeqEqual
      <4>6. QED
        BY <4>1, <4>2, <4>5
    <3>3. Promise!Register
      <4>1. \E m \in Models, i \in Models : last'.weights = <<i, m>>
        BY <2>1, <3>2
      <4>2. Len(<<>>) < Epochs + 1
        OBVIOUS
      <4>3. QED
        BY <2>1, <3>1, <4>1, <4>2 DEF Promise!Register
    <3>4. QED
      BY <3>3 DEF Promise!Next
  <2>3. CASE epoch # 0
    <3>1. /\ last # NoFile /\ last.epoch = epoch - 1
          /\ weights = Append(last.weights, Outcome(weights))
      BY <1>0, <1>1, <2>3 DEF SaveLast, SaveLastWith, MemoryInv, InEpoch
    <3>2. Len(last.weights) = epoch + 1
      BY <1>0, <2>1, <3>1 DEF FilesInv
    <3>3. Outcome(weights) \in Models
      BY <2>1, OutcomeType
    <3>4. last.weights # <<>>
      BY <2>1, <3>2
    <3>5. Promise!Register
      <4>1. Len(last.weights) < Epochs + 1
        BY <2>1, <3>2
      <4>2. \E m \in Models : last'.weights = Append(last.weights, m)
        BY <2>1, <3>1, <3>3
      <4>3. QED
        BY <2>1, <3>1, <3>4, <4>1, <4>2 DEF Promise!Register
    <3>6. QED
      BY <3>5 DEF Promise!Next
  <2>4. QED
    BY <2>2, <2>3
<1>2. CASE WriteSelection
  <2>1. /\ selection = NoFile /\ last # NoFile /\ last.epoch = Epochs - 1
        /\ best # NoFile /\ last' = last /\ torn' = torn
        /\ selection' # NoFile /\ selection'.checkpoint = best
    BY <1>0, <1>2, Written DEF WriteSelection, MemoryInv, FilesInv, Finishing
  <2>2. /\ last \in Checkpoint /\ best \in Checkpoint
        /\ last.weights \in Seq(Models) /\ Len(last.weights) = Epochs + 1
        /\ Len(best.weights) \in 1..Len(last.weights)
    BY <1>0, <2>1 DEF TypeOK, FilesInv, Checkpoint, Prefix
  <2>3. ~torn => Promise!FirstBest(Len(best.weights))
    <3>1. SUFFICES ASSUME ~torn PROVE Promise!FirstBest(Len(best.weights))
      OBVIOUS
    <3>2. Records(last.weights, Len(last.weights))
      BY <1>2, <2>1, <3>1 DEF RunInv, ChoiceInv, WriteSelection, Comparing
    <3>3. QED
      BY <2>1, <2>2, <3>2, SameChoice DEF Records
  <2>4. Promise!Choose
    <3>1. Len(best.weights) \in DOMAIN last.weights
      BY <2>2
    <3>2. QED
      BY <2>1, <2>2, <2>3, <3>1 DEF Promise!Choose
  <2>5. QED
    BY <2>4 DEF Promise!Next
<1>3. CASE Crash
  <2>1. last' = last /\ selection' = selection
    BY <1>3 DEF Crash, files
  <2>2. CASE torn' = torn
    BY <2>1, <2>2 DEF Promise!avars
  <2>3. CASE torn' # torn
    <3>1. torn' = TRUE /\ pc \in Comparing
      BY <1>0, <1>3, <2>3 DEF Crash, TypeOK, Comparing
    <3>2. last # NoFile /\ selection = NoFile
      BY <1>0, <3>1 DEF MemoryInv, Comparing
    <3>3. Len(last.weights) = last.epoch + 2 /\ last.epoch \in Nat
      BY <1>0, <3>2 DEF FilesInv
    <3>4. last.weights # <<>>
      BY <3>3
    <3>5. Promise!Lose
      BY <2>1, <3>1, <3>2, <3>4 DEF Promise!Lose
    <3>6. QED
      BY <3>5 DEF Promise!Next
  <2>4. QED
    BY <2>2, <2>3
<1>4. CASE UNCHANGED <<last, selection, torn>>
  BY <1>4 DEF Promise!avars
<1>5. QED
  BY <1>1, <1>2, <1>3, <1>4, Silent

\* Through every crash and resume a run only ever adds candidates to one path
\* and makes one choice from it, by the registered rule unless a candidate was
\* lost.
THEOREM Implementation == Spec => ImplementsSelection
<1>1. Init => Promise!Init
  BY InitImplements
<1>2. RunInv /\ [Next]_vars => [Promise!Next]_(Promise!avars)
  BY NextImplements
<1>3. QED
  BY <1>1, <1>2, RunInvariant, PTL DEF Spec, ImplementsSelection, Promise!Spec
=============================================================================
