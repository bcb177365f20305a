--------------------------- MODULE PauseSupervisor ---------------------------
(***************************************************************************)
(* research/slret_dataset_first/tools/run_c26_with_pause.py: a supervisor  *)
(* that stops another process of its user, the target, runs a worker on    *)
(* the GPU, and continues the target; and a watchdog that continues it     *)
(* when the supervisor is gone.  All of them, and the worker, live in      *)
(* sessions of their own, so each can die alone.                           *)
(*                                                                         *)
(* Python runs a signal handler between two bytecodes: a handler that      *)
(* raises takes effect after a system call and before the assignment that  *)
(* records it.                                                             *)
(***************************************************************************)
EXTENDS Naturals

CONSTANTS
    MaxSignals,  \* bound: SIGTERM and SIGINT to the supervisor
    MaxKills     \* bound: SIGKILL to the supervisor or the watchdog

ASSUME PauseBounds == MaxSignals \in Nat /\ MaxKills \in Nat

VARIABLES
    target,   \* the process to be paused: stopped by us, suspended by its user
    worker,   \* the process on the GPU
    held,     \* resume_verified in the status that the worker has read
    pc,       \* next step of the supervisor
    paused,   \* its local variables paused,
    known,    \* child is not None,
    timedOut, \* timed_out,
    failed,   \* error is not None,
    resumed,  \* resumed
    watcher,  \* next step of the watchdog
    action,   \* record["action"] of the watchdog
    file,     \* status.json
    signals, kills

locals == <<paused, known, timedOut, failed, resumed>>
dog    == <<watcher, action>>
bounds == <<signals, kills>>
vars   == <<target, worker, held, pc, locals, dog, file, bounds>>

Final    == {"COMPLETED", "FAILED", "TIMED_OUT", "INTERRUPTED"}
Statuses == {"none", "STARTING", "RUNNING"} \cup Final

\* Steps in the try block, and the steps after it, when signals are ignored.
Guarded == {"verify", "watch", "stop", "mark", "check", "spawn", "hold",
            "report", "wait", "terminate"}
Closing == {"cleanup", "resume", "confirm", "final"}
Alive   == {"setup", "except", "finally"} \cup Guarded \cup Closing

Flags ==
    /\ paused \in BOOLEAN /\ known \in BOOLEAN /\ timedOut \in BOOLEAN
    /\ failed \in BOOLEAN /\ resumed \in BOOLEAN /\ held \in BOOLEAN

TypeOK ==
    /\ target \in {"running", "stopped", "suspended", "gone"}
    /\ worker \in {"none", "started", "running", "ok", "bad"}
    /\ pc \in {"off", "done", "dead"} \cup Alive
    /\ watcher \in {"none", "watching", "recover", "confirm", "settle", "done", "dead"}
    /\ action \in {"none", "SIGCONT"}
    /\ file \in [status : Statuses, verified : BOOLEAN]
    /\ signals \in 0..MaxSignals /\ kills \in 0..MaxKills
    /\ Flags

Init ==
    /\ target \in {"running", "suspended", "gone"}
    /\ worker = "none" /\ held = FALSE /\ pc = "off"
    /\ paused = FALSE /\ known = FALSE /\ timedOut = FALSE
    /\ failed = FALSE /\ resumed = FALSE
    /\ watcher = "none" /\ action = "none"
    /\ file = [status |-> "none", verified |-> FALSE]
    /\ signals = 0 /\ kills = 0

\* State T of /proc, whoever stopped the process.
Halted == target \in {"stopped", "suspended"}

\* The worker is there; it has read the status when it runs.
Busy == worker \in {"started", "running"}

-----------------------------------------------------------------------------
(* The supervisor                                                          *)

Goto(step) == pc' = step

\* An exception in the try block; its text is not recorded yet.
Raise == Goto("except")

\* A run directory that has a status is refused.
Launch ==
    /\ pc = "off" /\ file.status = "none"
    /\ file' = [status |-> "STARTING", verified |-> FALSE]
    /\ Goto("setup")
    /\ UNCHANGED <<target, worker, held, locals, dog, bounds>>

InstallHandlers ==
    /\ pc = "setup"
    /\ Goto("verify")
    /\ UNCHANGED <<target, worker, held, locals, dog, file, bounds>>

\* Variant: a stopped target is taken over.
VerifyAny ==
    /\ pc = "verify"
    /\ IF target # "gone" THEN Goto("watch") ELSE Raise
    /\ UNCHANGED <<target, worker, held, locals, dog, file, bounds>>

\* "was stopped before C26; refusing ownership", or it is gone.
Verify ==
    /\ pc = "verify"
    /\ IF target = "running" THEN Goto("watch") ELSE Raise
    /\ UNCHANGED <<target, worker, held, locals, dog, file, bounds>>

\* Variant: the watchdog is left out.
WatchNot ==
    /\ pc = "watch"
    /\ Goto("stop")
    /\ UNCHANGED <<target, worker, held, locals, dog, file, bounds>>

Watch ==
    /\ pc = "watch"
    /\ watcher' = "watching"
    /\ Goto("stop")
    /\ UNCHANGED <<target, worker, held, locals, action, file, bounds>>

\* os.kill(TARGET_PID, SIGSTOP)
StopTarget ==
    /\ pc = "stop"
    /\ IF target = "gone"
          THEN Raise /\ UNCHANGED target
          ELSE /\ target' = IF target = "running" THEN "stopped" ELSE target
               /\ Goto("mark")
    /\ UNCHANGED <<worker, held, locals, dog, file, bounds>>

MarkPaused ==
    /\ pc = "mark"
    /\ paused' = TRUE
    /\ Goto("check")
    /\ UNCHANGED <<target, worker, held, known, timedOut, failed, resumed, dog, file, bounds>>

\* wait_state(True)
CheckStopped ==
    /\ pc = "check"
    /\ IF Halted THEN Goto("spawn") ELSE Raise
    /\ UNCHANGED <<target, worker, held, locals, dog, file, bounds>>

SpawnWorker ==
    /\ pc = "spawn"
    /\ worker' = "started"
    /\ Goto("hold")
    /\ UNCHANGED <<target, held, locals, dog, file, bounds>>

\* child = the process just started
HoldWorker ==
    /\ pc = "hold"
    /\ known' = TRUE
    /\ Goto("report")
    /\ UNCHANGED <<target, worker, held, paused, timedOut, failed, resumed, dog, file, bounds>>

ReportRunning ==
    /\ pc = "report"
    /\ file' = [status |-> "RUNNING", verified |-> FALSE]
    /\ Goto("wait")
    /\ UNCHANGED <<target, worker, held, locals, dog, bounds>>

\* Variant: the end of the worker is taken for its success.
CollectUnjudged ==
    /\ pc = "wait" /\ worker \in {"ok", "bad"}
    /\ Goto("finally")
    /\ UNCHANGED <<target, worker, held, locals, dog, file, bounds>>

\* The exit status and worker_summary.json are judged.
Collect ==
    /\ pc = "wait" /\ worker \in {"ok", "bad"}
    /\ IF worker = "bad" THEN Raise ELSE Goto("finally")
    /\ UNCHANGED <<target, worker, held, locals, dog, file, bounds>>

HardTimeout ==
    /\ pc = "wait" /\ Busy
    /\ timedOut' = TRUE
    /\ Goto("terminate")
    /\ UNCHANGED <<target, worker, held, paused, known, failed, resumed, dog, file, bounds>>

\* stop_child after the timeout; the exit status is judged all the same.
Terminate ==
    /\ pc = "terminate"
    /\ worker' = IF Busy THEN "bad" ELSE worker
    /\ IF worker' = "bad" THEN Raise ELSE Goto("finally")
    /\ UNCHANGED <<target, held, locals, dog, file, bounds>>

\* error = traceback.format_exc()
RecordError ==
    /\ pc = "except"
    /\ failed' = TRUE
    /\ Goto("finally")
    /\ UNCHANGED <<target, worker, held, paused, known, timedOut, resumed, dog, file, bounds>>

IgnoreSignals ==
    /\ pc = "finally"
    /\ Goto("cleanup")
    /\ UNCHANGED <<target, worker, held, locals, dog, file, bounds>>

\* Variant: only a timeout stops the worker.
CleanupTimedOut ==
    /\ pc = "cleanup"
    /\ worker' = IF timedOut /\ Busy THEN "bad" ELSE worker
    /\ Goto(IF paused THEN "resume" ELSE "final")
    /\ UNCHANGED <<target, held, locals, dog, file, bounds>>

\* Variant: only a supervisor that has started its worker continues the target.
CleanupPaused ==
    /\ pc = "cleanup"
    /\ worker' = IF known /\ Busy THEN "bad" ELSE worker
    /\ Goto(IF paused /\ known THEN "resume" ELSE "final")
    /\ UNCHANGED <<target, held, locals, dog, file, bounds>>

\* stop_child of the worker it knows of
Cleanup ==
    /\ pc = "cleanup"
    /\ worker' = IF known /\ Busy THEN "bad" ELSE worker
    /\ Goto(IF paused THEN "resume" ELSE "final")
    /\ UNCHANGED <<target, held, locals, dog, file, bounds>>

ContinueTarget ==
    /\ pc = "resume"
    /\ IF target = "gone"
          THEN failed' = TRUE /\ Goto("final") /\ UNCHANGED target
          ELSE target' = "running" /\ Goto("confirm") /\ UNCHANGED failed
    /\ UNCHANGED <<worker, held, paused, known, timedOut, resumed, dog, file, bounds>>

\* Variant: a target that was not seen running is no error.
ConfirmUnread ==
    /\ pc = "confirm"
    /\ resumed' = (target = "running")
    /\ Goto("final")
    /\ UNCHANGED <<target, worker, held, paused, known, timedOut, failed, dog, file, bounds>>

\* wait_state(False)
ConfirmRunning ==
    /\ pc = "confirm"
    /\ IF target = "running"
          THEN resumed' = TRUE /\ UNCHANGED failed
          ELSE failed' = TRUE /\ UNCHANGED resumed
    /\ Goto("final")
    /\ UNCHANGED <<target, worker, held, paused, known, timedOut, dog, file, bounds>>

Verdict == IF timedOut THEN "TIMED_OUT" ELSE IF failed THEN "FAILED" ELSE "COMPLETED"

ReportFinal ==
    /\ pc = "final"
    /\ file' = [status |-> Verdict, verified |-> resumed]
    /\ Goto("done")
    /\ UNCHANGED <<target, worker, held, locals, dog, bounds>>

\* The handler raises in the try block; in the except clause, before the first
\* error is recorded; at the head of finally, where the exception leaves run().
\* Before the handlers are there the process dies, and later it is ignored.
Signal ==
    /\ pc \in Alive
    /\ signals < MaxSignals
    /\ signals' = signals + 1
    /\ \/ pc \in Guarded /\ Raise
       \/ pc = "except" /\ Goto("finally")
       \/ pc \in {"setup", "finally"} /\ Goto("dead")
       \/ pc \in Closing /\ UNCHANGED pc
    /\ UNCHANGED <<target, worker, held, locals, dog, file, kills>>

KillSupervisor ==
    /\ pc \in Alive
    /\ kills < MaxKills
    /\ kills' = kills + 1
    /\ Goto("dead")
    /\ UNCHANGED <<target, worker, held, locals, dog, file, signals>>

-----------------------------------------------------------------------------
(* The watchdog                                                            *)

\* Variant: only a supervisor that was lost is noticed.
NoticeLost ==
    /\ watcher = "watching" /\ pc = "dead"
    /\ watcher' = "recover"
    /\ UNCHANGED <<target, worker, held, pc, locals, action, file, bounds>>

\* not parent_alive
Notice ==
    /\ watcher = "watching" /\ pc \in {"done", "dead"}
    /\ watcher' = "recover"
    /\ UNCHANGED <<target, worker, held, pc, locals, action, file, bounds>>

Recover ==
    /\ watcher = "recover"
    /\ IF Halted THEN target' = "running" /\ watcher' = "confirm"
                 ELSE UNCHANGED target /\ watcher' = "settle"
    /\ UNCHANGED <<worker, held, pc, locals, action, file, bounds>>

\* action="SIGCONT" is recorded when wait_state(False) returns.
ConfirmRecovery ==
    /\ watcher = "confirm"
    /\ action' = IF target = "running" THEN "SIGCONT" ELSE "none"
    /\ watcher' = "settle"
    /\ UNCHANGED <<target, worker, held, pc, locals, file, bounds>>

\* Variant: a status of STARTING is left.
SettleRunning ==
    /\ watcher = "settle"
    /\ file' = IF file.status = "RUNNING"
                  THEN [status |-> "INTERRUPTED", verified |-> action \in {"SIGCONT", "none"}]
                  ELSE file
    /\ watcher' = "done"
    /\ UNCHANGED <<target, worker, held, pc, locals, action, bounds>>

Settle ==
    /\ watcher = "settle"
    /\ file' = IF file.status \in {"STARTING", "RUNNING"}
                  THEN [status |-> "INTERRUPTED", verified |-> action \in {"SIGCONT", "none"}]
                  ELSE file
    /\ watcher' = "done"
    /\ UNCHANGED <<target, worker, held, pc, locals, action, bounds>>

KillWatcher ==
    /\ watcher \in {"watching", "recover", "confirm", "settle"}
    /\ kills < MaxKills
    /\ kills' = kills + 1
    /\ watcher' = "dead"
    /\ UNCHANGED <<target, worker, held, pc, locals, action, file, signals>>

-----------------------------------------------------------------------------
(* The worker and the target                                               *)

\* Progress takes over the status it finds.
LoadStatus ==
    /\ worker = "started"
    /\ worker' = "running"
    /\ held' = file.verified
    /\ file' = [status |-> "RUNNING", verified |-> file.verified]
    /\ UNCHANGED <<target, pc, locals, dog, bounds>>

\* ... and rewrites it every 30 seconds.
Heartbeat ==
    /\ worker = "running"
    /\ file' = [status |-> "RUNNING", verified |-> held]
    /\ UNCHANGED <<target, worker, held, pc, locals, dog, bounds>>

\* With worker_summary.json or without it.
WorkerEnds ==
    /\ \/ worker = "started" /\ worker' = "bad"
       \/ worker = "running" /\ worker' \in {"ok", "bad"}
    /\ UNCHANGED <<target, held, pc, locals, dog, file, bounds>>

\* Its user, or the shell it runs under, continues the target.
OthersContinue ==
    /\ target = "stopped"
    /\ target' = "running"
    /\ UNCHANGED <<worker, held, pc, locals, dog, file, bounds>>

\* It ends by itself or is killed.
TargetEnds ==
    /\ target # "gone"
    /\ target' = "gone"
    /\ UNCHANGED <<worker, held, pc, locals, dog, file, bounds>>

-----------------------------------------------------------------------------
Supervisor ==
    \/ InstallHandlers \/ Verify \/ Watch \/ StopTarget \/ MarkPaused
    \/ CheckStopped \/ SpawnWorker \/ HoldWorker \/ ReportRunning
    \/ Collect \/ HardTimeout \/ Terminate \/ RecordError
    \/ IgnoreSignals \/ Cleanup \/ ContinueTarget
    \/ ConfirmRunning \/ ReportFinal

Watchdog == Notice \/ Recover \/ ConfirmRecovery \/ Settle

Faults == Signal \/ KillSupervisor \/ KillWatcher

World == LoadStatus \/ Heartbeat \/ WorkerEnds \/ OthersContinue \/ TargetEnds

Next == Launch \/ Supervisor \/ Watchdog \/ Faults \/ World

Spec == Init /\ [][Next]_vars

\* Two live processes run; the hard timeout is one of the supervisor's steps.
Fairness == WF_vars(Supervisor) /\ WF_vars(Watchdog)
FairSpec == Spec /\ Fairness
-----------------------------------------------------------------------------
(* Properties                                                              *)

\* "An independent local watchdog covers supervisor death": while the target is
\* stopped by the supervisor, a watchdog that has not yet looked at it is there,
\* unless the watchdog itself was killed.
Covered == target = "stopped" => watcher \in {"watching", "recover", "dead"}

\* COMPLETED is never said of a pause whose end was not seen.
CompletedReleased == (file.status = "COMPLETED" /\ paused) => file.verified

\* "Normal exits, worker errors, SIGTERM/SIGINT and hard timeout all attempt to
\* resume the exact worker": a supervisor that has finished leaves the target
\* stopped only if a signal came between SIGSTOP and the line that records it.
SupervisorReleases ==
    (pc = "done" /\ target = "stopped") => (~paused /\ signals > 0)

\* COMPLETED is said of a worker that ended well, unless a signal came: an error
\* is lost when a second exception comes before it is recorded.
CompletedTruthful == (file.status = "COMPLETED" /\ signals = 0) => worker = "ok"

\* "refusing ownership": neither of the two continues a target that its own user
\* had suspended.
RefusesOwnership == [][target = "suspended" => target' # "running"]_vars

\* The supervisor continues the target only when the worker it knows of is gone.
ReleaseAfterWorker ==
    [][(pc = "resume" /\ pc' = "confirm") => (known => ~Busy)]_vars

\* A target that the supervisor stopped is continued or gone in the end, whatever
\* becomes of the supervisor, as long as the watchdog lives.
Released == (pc = "mark") ~> (target # "stopped" \/ watcher = "dead")

\* Once there is a watchdog the status does not stay STARTING or RUNNING for ever.
Settled == (watcher = "watching") ~> (file.status \in Final \/ watcher = "dead")

\* "The pause supervisor owns terminal job status": a final status stays.
TerminalStays == [][file.status \in Final => file' = file]_vars

-----------------------------------------------------------------------------
(* The inductive invariant                                                 *)

\* A watchdog is there from the moment the target may be stopped, and it was
\* started for a target that nobody else had suspended.
Order ==
    /\ pc = "watch" => target # "suspended"
    /\ pc \in Guarded \ {"verify", "watch"} => watcher # "none"
    /\ (target = "stopped" \/ paused) => watcher # "none"
    /\ target = "suspended" => watcher = "none"

\* It acts when the supervisor is gone, and nobody stops the target after that.
Late ==
    /\ watcher \in {"recover", "confirm", "settle", "done"} => pc \in {"done", "dead"}
    /\ watcher \in {"confirm", "settle", "done"} => target # "stopped"

\* The worker that the supervisor knows of is gone before the target goes on.
Reaped == pc \in {"resume", "confirm", "final", "done"} => (known => ~Busy)

\* A stopped target is on record, or a signal came before the record.
Marked ==
    /\ (target = "stopped" /\ ~paused) => pc \in {"mark", "dead"} \/ signals > 0
    /\ (paused /\ pc \in {"confirm", "final", "done"}) => target # "stopped"

\* A pause whose end was not seen, and a worker that failed, are errors when the
\* verdict is written.
Recorded ==
    /\ pc = "terminate" => timedOut
    /\ pc \in {"resume", "confirm"} => paused
    /\ (pc = "final" /\ paused /\ ~resumed) => failed
    /\ (pc \in {"finally"} \cup Closing /\ ~timedOut /\ ~failed /\ signals = 0)
          => worker = "ok"
    /\ file.status = "COMPLETED" =>
          /\ pc = "done"
          /\ paused => file.verified
          /\ signals = 0 => worker = "ok"

PauseInv == TypeOK /\ Order /\ Late /\ Reaped /\ Marked /\ Recorded
=============================================================================
