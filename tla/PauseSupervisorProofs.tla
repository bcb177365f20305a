------------------------ MODULE PauseSupervisorProofs ------------------------
(* Proofs about PauseSupervisor, for any number of signals and kills.      *)
EXTENDS PauseSupervisor, TLAPS

\* The files and steps that the actions tell apart.
LEMMA FinalStatuses ==
  /\ Final \subseteq Statuses
  /\ Verdict \in Final
  BY DEF Final, Statuses, Verdict

\* What is written to status.json is what it may hold.
LEMMA Written ==
  /\ \A s \in Statuses, b \in BOOLEAN :
        [status |-> s, verified |-> b] \in [status : Statuses, verified : BOOLEAN]
  /\ {"none", "STARTING", "RUNNING", "INTERRUPTED"} \subseteq Statuses
  BY DEF Statuses, Final

(***************************************************************************)
(* Type correctness                                                        *)
(***************************************************************************)

LEMMA InitType == Init => TypeOK
<1> SUFFICES ASSUME Init PROVE TypeOK
  OBVIOUS
<1>1. Flags
  BY Zenon DEF Init, Flags
<1>2. file \in [status : Statuses, verified : BOOLEAN]
  BY Zenon, Written DEF Init, Statuses
<1>3. QED
  BY <1>1, <1>2, PauseBounds DEF Init, TypeOK

\* Every step leaves truth values in the local variables.
LEMMA FlagsKept ==
  ASSUME TypeOK, Next
  PROVE  Flags'
<1> USE DEF TypeOK, Flags, locals
<1>1. CASE Launch \/ Supervisor
  BY <1>1, Zenon DEF Launch, Supervisor, InstallHandlers, Verify, Watch, StopTarget,
              MarkPaused, CheckStopped, SpawnWorker, HoldWorker, ReportRunning,
              Collect, HardTimeout, Terminate, RecordError, IgnoreSignals,
              Cleanup, ContinueTarget, ConfirmRunning, ReportFinal
<1>2. CASE Watchdog \/ Faults
  BY <1>2, Zenon DEF Watchdog, Notice, Recover, ConfirmRecovery, Settle,
              Faults, Signal, KillSupervisor, KillWatcher
<1>3. CASE World
  <2>1. file.verified \in BOOLEAN
    BY DEF TypeOK
  <2>2. QED
    BY <1>3, <2>1, Zenon DEF World, LoadStatus, Heartbeat, WorkerEnds,
                   OthersContinue, TargetEnds
<1>4. QED
  BY <1>1, <1>2, <1>3 DEF Next

\* ... and a status in status.json.
LEMMA FileKept ==
  ASSUME TypeOK, Next
  PROVE  file' \in [status : Statuses, verified : BOOLEAN]
<1> DEFINE File == [status : Statuses, verified : BOOLEAN]
<1>1. file \in File /\ held \in BOOLEAN /\ resumed \in BOOLEAN /\ file.verified \in BOOLEAN
  BY DEF TypeOK, Flags
<1>2. (action \in {"SIGCONT", "none"}) = TRUE
  BY DEF TypeOK
<1>3. file' \in File
  <2>1. CASE UNCHANGED file
    BY <1>1, <2>1
  <2>2. CASE Launch \/ ReportRunning
    BY <2>2, Zenon, Written DEF Launch, ReportRunning
  <2>3. CASE ReportFinal \/ LoadStatus \/ Heartbeat
    BY <2>3, <1>1, Zenon, Written, FinalStatuses DEF ReportFinal, LoadStatus, Heartbeat
  <2>4. CASE Settle
    BY <2>4, <1>1, <1>2, Zenon, Written DEF Settle
  <2>5. QED
    BY <2>1, <2>2, <2>3, <2>4 DEF Next, Supervisor, InstallHandlers, Verify, Watch,
       StopTarget, MarkPaused, CheckStopped, SpawnWorker, HoldWorker, Collect,
       HardTimeout, Terminate, RecordError, IgnoreSignals, Cleanup, ContinueTarget,
       ConfirmRunning, Watchdog, Notice, Recover, ConfirmRecovery, Faults, Signal,
       KillSupervisor, KillWatcher, World, WorkerEnds, OthersContinue, TargetEnds
<1>4. QED
  BY <1>3

\* The other variables take the values their actions name.
LEMMA PlacesKept ==
  ASSUME TypeOK, Next
  PROVE  /\ target' \in {"running", "stopped", "suspended", "gone"}
         /\ worker' \in {"none", "started", "running", "ok", "bad"}
         /\ pc' \in {"off", "done", "dead"} \cup Alive
         /\ watcher' \in {"none", "watching", "recover", "confirm", "settle", "done", "dead"}
         /\ action' \in {"none", "SIGCONT"}
         /\ signals' \in 0..MaxSignals /\ kills' \in 0..MaxKills
<1> USE PauseBounds DEF TypeOK, dog, bounds, Alive, Guarded, Closing, Goto, Raise
<1>1. CASE Launch \/ InstallHandlers \/ Verify \/ Watch
  BY <1>1 DEF Launch, InstallHandlers, Verify, Watch
<1>2. CASE StopTarget \/ MarkPaused \/ CheckStopped
  BY <1>2 DEF StopTarget, MarkPaused, CheckStopped
<1>3. CASE SpawnWorker \/ HoldWorker \/ ReportRunning
  BY <1>3 DEF SpawnWorker, HoldWorker, ReportRunning
<1>4. CASE Collect \/ HardTimeout \/ Terminate
  BY <1>4 DEF Collect, HardTimeout, Terminate
<1>5. CASE RecordError \/ IgnoreSignals \/ Cleanup
  BY <1>5 DEF RecordError, IgnoreSignals, Cleanup
<1>6. CASE ContinueTarget \/ ConfirmRunning \/ ReportFinal
  BY <1>6 DEF ContinueTarget, ConfirmRunning, ReportFinal
<1>7. CASE Watchdog
  BY <1>7 DEF Watchdog, Notice, Recover, ConfirmRecovery, Settle
<1>8. CASE Faults
  BY <1>8 DEF Faults, Signal, KillSupervisor, KillWatcher
<1>9. CASE World
  BY <1>9 DEF World, LoadStatus, Heartbeat, WorkerEnds, OthersContinue, TargetEnds
<1>10. QED
  BY <1>1, <1>2, <1>3, <1>4, <1>5, <1>6, <1>7, <1>8, <1>9 DEF Next, Supervisor

LEMMA NextType == TypeOK /\ [Next]_vars => TypeOK'
<1>1. CASE UNCHANGED vars
  BY <1>1 DEF vars, locals, dog, bounds, TypeOK, Flags
<1>2. CASE Next
  BY <1>2, FlagsKept, FileKept, PlacesKept DEF TypeOK
<1>3. QED
  BY <1>1, <1>2

(***************************************************************************)
(* The inductive invariant                                                 *)
(***************************************************************************)

LEMMA InitInv == Init => PauseInv
<1> SUFFICES ASSUME Init PROVE PauseInv
  OBVIOUS
<1>1. Order /\ Late /\ Reaped /\ Marked /\ Recorded
  BY DEF Init, Order, Late, Reaped, Marked, Recorded, Guarded, Closing
<1>2. QED
  BY <1>1, InitType DEF PauseInv

\* The watchdog precedes the pause: only Watch starts one, for a target that
\* Verify found running, and only StopTarget stops the target.
LEMMA OrderKept ==
  ASSUME PauseInv, [Next]_vars
  PROVE  Order'
<1> USE DEF PauseInv, TypeOK, Order, Guarded, locals, dog, bounds, Goto, Raise
<1>1. CASE Launch \/ Supervisor
  <2>1. CASE Launch \/ InstallHandlers \/ Verify \/ Watch
    BY <1>1, <2>1 DEF Launch, InstallHandlers, Verify, Watch
  <2>2. CASE StopTarget \/ MarkPaused \/ CheckStopped
    BY <1>1, <2>2 DEF StopTarget, MarkPaused, CheckStopped
  <2>3. CASE SpawnWorker \/ HoldWorker \/ ReportRunning \/ Collect
    BY <1>1, <2>3 DEF SpawnWorker, HoldWorker, ReportRunning, Collect
  <2>4. CASE HardTimeout \/ Terminate \/ RecordError \/ IgnoreSignals
    BY <1>1, <2>4 DEF HardTimeout, Terminate, RecordError, IgnoreSignals
  <2>5. CASE Cleanup \/ ContinueTarget \/ ConfirmRunning \/ ReportFinal
    BY <1>1, <2>5 DEF Cleanup, ContinueTarget, ConfirmRunning, ReportFinal
  <2>6. QED
    BY <1>1, <2>1, <2>2, <2>3, <2>4, <2>5 DEF Supervisor
<1>2. CASE Watchdog
  BY <1>2 DEF Watchdog, Notice, Recover, ConfirmRecovery, Settle
<1>3. CASE Faults
  BY <1>3 DEF Faults, Signal, KillSupervisor, KillWatcher, Closing
<1>4. CASE World
  BY <1>4 DEF World, LoadStatus, Heartbeat, WorkerEnds, OthersContinue, TargetEnds
<1>5. CASE UNCHANGED vars
  BY <1>5 DEF vars
<1>6. QED
  BY <1>1, <1>2, <1>3, <1>4, <1>5 DEF Next

\* Notice waits for the end of the supervisor, which alone stops the target.
LEMMA LateKept ==
  ASSUME PauseInv, [Next]_vars
  PROVE  Late'
<1> USE DEF PauseInv, TypeOK, Late, locals, dog, bounds, Goto, Raise
<1>1. CASE Launch \/ Supervisor
  <2>1. pc \notin {"done", "dead"}
    BY <1>1 DEF Launch, Supervisor, InstallHandlers, Verify, Watch, StopTarget,
                MarkPaused, CheckStopped, SpawnWorker, HoldWorker, ReportRunning,
                Collect, HardTimeout, Terminate, RecordError, IgnoreSignals,
                Cleanup, ContinueTarget, ConfirmRunning, ReportFinal
  <2>2. watcher' \in {watcher, "watching"}
    BY <1>1 DEF Launch, Supervisor, InstallHandlers, Verify, Watch, StopTarget,
                MarkPaused, CheckStopped, SpawnWorker, HoldWorker, ReportRunning,
                Collect, HardTimeout, Terminate, RecordError, IgnoreSignals,
                Cleanup, ContinueTarget, ConfirmRunning, ReportFinal
  <2>3. QED
    BY <2>1, <2>2
<1>2. CASE Watchdog
  BY <1>2 DEF Watchdog, Notice, Recover, ConfirmRecovery, Settle, Halted
<1>3. CASE Faults
  BY <1>3 DEF Faults, Signal, KillSupervisor, KillWatcher, Alive, Guarded, Closing
<1>4. CASE World
  BY <1>4 DEF World, LoadStatus, Heartbeat, WorkerEnds, OthersContinue, TargetEnds
<1>5. CASE UNCHANGED vars
  BY <1>5 DEF vars
<1>6. QED
  BY <1>1, <1>2, <1>3, <1>4, <1>5 DEF Next

\* Cleanup stops the worker the supervisor knows of, and starts no other.
LEMMA ReapedKept ==
  ASSUME PauseInv, [Next]_vars
  PROVE  Reaped'
<1> USE DEF PauseInv, TypeOK, Reaped, Busy, locals, dog, bounds, Goto, Raise
<1>1. CASE Launch \/ Supervisor
  <2>1. CASE Cleanup
    BY <2>1 DEF Cleanup
  <2>2. CASE ContinueTarget \/ ConfirmRunning \/ ReportFinal
    BY <2>2 DEF ContinueTarget, ConfirmRunning, ReportFinal
  <2>3. CASE ~(Cleanup \/ ContinueTarget \/ ConfirmRunning \/ ReportFinal)
    BY <1>1, <2>3 DEF Launch, Supervisor, InstallHandlers, Verify, Watch, StopTarget,
                MarkPaused, CheckStopped, SpawnWorker, HoldWorker, ReportRunning,
                Collect, HardTimeout, Terminate, RecordError, IgnoreSignals
  <2>4. QED
    BY <2>1, <2>2, <2>3
<1>2. CASE Watchdog
  BY <1>2 DEF Watchdog, Notice, Recover, ConfirmRecovery, Settle
<1>3. CASE Faults
  BY <1>3 DEF Faults, Signal, KillSupervisor, KillWatcher, Guarded, Closing
<1>4. CASE World
  BY <1>4 DEF World, LoadStatus, Heartbeat, WorkerEnds, OthersContinue, TargetEnds
<1>5. CASE UNCHANGED vars
  BY <1>5 DEF vars
<1>6. QED
  BY <1>1, <1>2, <1>3, <1>4, <1>5 DEF Next

\* Between SIGSTOP and the record of it only a signal or a kill can come, and
\* the target is not stopped again.
LEMMA MarkedKept ==
  ASSUME PauseInv, [Next]_vars
  PROVE  Marked'
<1> USE DEF PauseInv, TypeOK, Marked, locals, dog, bounds, Goto, Raise
<1>1. CASE Launch \/ Supervisor
  <2>1. CASE StopTarget \/ MarkPaused
    BY <2>1 DEF StopTarget, MarkPaused
  <2>2. CASE Cleanup \/ ContinueTarget \/ ConfirmRunning \/ ReportFinal
    BY <2>2 DEF Cleanup, ContinueTarget, ConfirmRunning, ReportFinal
  <2>3. CASE ~(StopTarget \/ MarkPaused \/ Cleanup \/ ContinueTarget
               \/ ConfirmRunning \/ ReportFinal)
    BY <1>1, <2>3 DEF Launch, Supervisor, InstallHandlers, Verify, Watch,
                CheckStopped, SpawnWorker, HoldWorker, ReportRunning,
                Collect, HardTimeout, Terminate, RecordError, IgnoreSignals
  <2>4. QED
    BY <2>1, <2>2, <2>3
<1>2. CASE Watchdog
  BY <1>2 DEF Watchdog, Notice, Recover, ConfirmRecovery, Settle
<1>3. CASE Faults
  BY <1>3 DEF Faults, Signal, KillSupervisor, KillWatcher, Guarded, Closing
<1>4. CASE World
  BY <1>4 DEF World, LoadStatus, Heartbeat, WorkerEnds, OthersContinue, TargetEnds
<1>5. CASE UNCHANGED vars
  BY <1>5 DEF vars
<1>6. QED
  BY <1>1, <1>2, <1>3, <1>4, <1>5 DEF Next

\* COMPLETED is written last, by a supervisor that has no error on record.
LEMMA RecordedKept ==
  ASSUME PauseInv, [Next]_vars
  PROVE  Recorded'
<1> USE DEF PauseInv, TypeOK, Recorded, Busy, locals, dog, bounds, Goto, Raise, Closing
<1>1. CASE Launch \/ Supervisor
  <2>1. CASE Cleanup \/ ContinueTarget
    BY <2>1 DEF Cleanup, ContinueTarget
  <2>2. CASE ConfirmRunning \/ IgnoreSignals
    BY <2>2 DEF ConfirmRunning, IgnoreSignals
  <2>3. CASE ReportFinal
    <3>1. /\ file' = [status |-> Verdict, verified |-> resumed] /\ pc' = "done"
          /\ UNCHANGED <<worker, paused, signals>> /\ pc = "final"
      BY <2>3 DEF ReportFinal
    <3>2. Verdict = "COMPLETED" => ~failed /\ ~timedOut
      BY DEF Verdict
    <3>3. QED
      BY <3>1, <3>2
  <2>4. CASE Collect \/ Terminate \/ RecordError
    BY <2>4 DEF Collect, Terminate, RecordError
  <2>5. CASE ~(Cleanup \/ ContinueTarget \/ ConfirmRunning \/ IgnoreSignals
               \/ ReportFinal \/ Collect \/ Terminate \/ RecordError)
    BY <1>1, <2>5 DEF Launch, Supervisor, InstallHandlers, Verify, Watch, StopTarget,
                MarkPaused, CheckStopped, SpawnWorker, HoldWorker, ReportRunning,
                HardTimeout
  <2>6. QED
    BY <2>1, <2>2, <2>3, <2>4, <2>5
<1>2. CASE Watchdog
  BY <1>2 DEF Watchdog, Notice, Recover, ConfirmRecovery, Settle
<1>3. CASE Faults
  BY <1>3, PauseBounds DEF Faults, Signal, KillSupervisor, KillWatcher, Alive, Guarded
<1>4. CASE World
  BY <1>4 DEF World, LoadStatus, Heartbeat, WorkerEnds, OthersContinue, TargetEnds
<1>5. CASE UNCHANGED vars
  BY <1>5 DEF vars
<1>6. QED
  BY <1>1, <1>2, <1>3, <1>4, <1>5 DEF Next

(***************************************************************************)
(* Theorems                                                                *)
(***************************************************************************)

\* The inductive invariant of the pause: types, the order of watchdog and pause,
\* who acts after whom, and what the supervisor has recorded.
THEOREM Supervision == Spec => []PauseInv
<1>1. PauseInv /\ [Next]_vars => PauseInv'
  BY NextType, OrderKept, LateKept, ReapedKept, MarkedKept, RecordedKept DEF PauseInv
<1>2. QED
  BY InitInv, <1>1, PTL DEF Spec

\* "An independent local watchdog covers supervisor death": a target that the
\* supervisor stopped has a watchdog that has not yet looked at it, unless the
\* watchdog was killed.
THEOREM WatchdogCovers == Spec => []Covered
<1>1. PauseInv => Covered
  BY DEF PauseInv, TypeOK, Order, Late, Covered
<1>2. QED
  BY <1>1, Supervision, PTL

\* The final status COMPLETED of a run that paused the target carries the
\* evidence that the target ran again.
THEOREM CompletedMeansReleased == Spec => []CompletedReleased
<1>1. PauseInv => CompletedReleased
  BY DEF PauseInv, Recorded, CompletedReleased
<1>2. QED
  BY <1>1, Supervision, PTL

\* A supervisor that has finished leaves the target stopped only if a signal came
\* between SIGSTOP and the line that records it.
THEOREM SupervisorAlwaysReleases == Spec => []SupervisorReleases
<1>1. PauseInv => SupervisorReleases
  BY DEF PauseInv, TypeOK, Flags, Marked, SupervisorReleases
<1>2. QED
  BY <1>1, Supervision, PTL

\* Without signals, COMPLETED is said of a worker that ended well.
THEOREM CompletedMeansTrue == Spec => []CompletedTruthful
<1>1. PauseInv => CompletedTruthful
  BY DEF PauseInv, Recorded, CompletedTruthful
<1>2. QED
  BY <1>1, Supervision, PTL

\* "refusing ownership": a target that its user had suspended is not continued.
THEOREM OwnershipRefused == Spec => RefusesOwnership
<1>1. ASSUME PauseInv, [Next]_vars, target = "suspended"
      PROVE  target' # "running"
  <2> USE <1>1 DEF PauseInv, TypeOK, Order, Late, Recorded, Guarded, locals, dog, bounds
  <2>1. watcher = "none" /\ ~paused
    OBVIOUS
  <2>2. CASE Launch \/ Supervisor
    BY <2>1, <2>2 DEF Launch, Supervisor, InstallHandlers, Verify, Watch, StopTarget,
              MarkPaused, CheckStopped, SpawnWorker, HoldWorker, ReportRunning,
              Collect, HardTimeout, Terminate, RecordError, IgnoreSignals,
              Cleanup, ContinueTarget, ConfirmRunning, ReportFinal
  <2>3. CASE Watchdog
    BY <2>1, <2>3 DEF Watchdog, Notice, Recover, ConfirmRecovery, Settle
  <2>4. CASE Faults \/ World \/ UNCHANGED vars
    BY <2>4 DEF Faults, Signal, KillSupervisor, KillWatcher, World, LoadStatus,
                Heartbeat, WorkerEnds, OthersContinue, TargetEnds, vars
  <2>5. QED
    BY <2>2, <2>3, <2>4 DEF Next
<1>2. PauseInv /\ [Next]_vars => [target = "suspended" => target' # "running"]_vars
  BY <1>1
<1>3. QED
  BY Supervision, <1>2, PTL DEF Spec, RefusesOwnership

\* The supervisor continues the target when the worker it started is gone.
THEOREM TargetAfterWorker == Spec => ReleaseAfterWorker
<1>1. PauseInv => ((pc = "resume" /\ pc' = "confirm") => (known => ~Busy))
  BY DEF PauseInv, Reaped
<1>2. PauseInv /\ [Next]_vars =>
        [(pc = "resume" /\ pc' = "confirm") => (known => ~Busy)]_vars
  BY <1>1
<1>3. QED
  BY Supervision, <1>2, PTL DEF Spec, ReleaseAfterWorker

\* The state of target, worker, watchdog and status keeps its type.
THEOREM PauseTypes == Spec => []TypeOK
<1>1. PauseInv => TypeOK
  BY DEF PauseInv
<1>2. QED
  BY <1>1, Supervision, PTL
=============================================================================
