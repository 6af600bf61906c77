---------------------------- MODULE HistoryRuns ----------------------------
(***************************************************************************)
(* The queue of history runs (src/src/assembly/history_runs.py): the robot *)
(* keeps one row per run in core.sqlite3, starts at most MaxRuns processes *)
(* at once from its queue thread, and learns from a watcher thread per     *)
(* process how a run ended.  The control API stops runs from its own       *)
(* threads; a run process stops on a line in stdin, on the flag of its row *)
(* or on the robot's heartbeat.  The robot may be stopped (Ctrl+C) or      *)
(* killed, and its next start adopts the runs that survived.               *)
(*                                                                         *)
(* A row write is one SQLite transaction.  Code that reads a row and       *)
(* writes it later is two actions, because other threads write in between. *)
(***************************************************************************)
EXTENDS Integers, FiniteSets, Sequences

CONSTANTS
  Runs,        \* the runs ever submitted
  MaxRuns,     \* [contours] max_history_runs
  MaxStarts    \* bound: starts of the robot

ASSUME RunsAssumption == IsFiniteSet(Runs)
ASSUME MaxRunsAssumption == MaxRuns \in Nat \ {0}
ASSUME MaxStartsAssumption == MaxStarts \in Nat

VARIABLES
  state,      \* history_runs.state of every run, "absent" before submit
  stopFlag,   \* history_runs.stop_requested
  accepted,   \* the rows in the order of accepted_at
  robot,      \* the phase of the robot process
  beat,       \* core_heartbeat: "running" or "stopped"
  pending,    \* rows recover() has still to look at
  processes,  \* HistoryRuns._processes: "own", "adopted" or "none"
  stopping,   \* the process object's _stopping
  thread,     \* the queue thread: where it is and the run it holds
  watcher,    \* the watcher thread of every run
  call,       \* the API thread inside HistoryRuns.stop
  signal,     \* close(): processes still to be told to stop
  await,      \* close(): processes whose exit it waits for
  child,      \* the run process itself
  stdin,      \* "stop" written to the pipe and not yet read
  starts

rowVars   == <<state, stopFlag, accepted>>
robotVars == <<robot, beat, pending, signal, await, starts>>
procVars  == <<processes, stopping, watcher>>
childVars == <<child, stdin>>
vars == <<rowVars, robotVars, procVars, thread, call, childVars>>

ActiveStates   == {"queued", "starting", "running", "stopping"}
FinishedStates == {"finished", "stopped", "failed", "cancelled", "interrupted"}
RunStates      == {"absent"} \cup ActiveStates \cup FinishedStates

\* "boot": the process exists but has not taken its lock and written
\* status.json yet; "told": HistoryProgress.stop_reason is set.  "ok" and
\* "failed" leave exited_at and exit_code in status.json, "died" leaves none.
LiveChild  == {"boot", "run", "told"}
ChildStates == {"none", "ok", "failed", "died"} \cup LiveChild

RobotPhases == {"down", "recovering", "up", "stopping", "halted", "closing"}
\* Phases in which the threads of the robot process are alive.
Serving == {"up", "stopping", "halted", "closing"}

NoRun == "none"
QueueSteps == {"idle", "claim", "prepare", "check", "cancel", "register", "start", "record"}
CallSteps  == {"idle", "cancel", "mark", "signal"}

Alive(r)  == child[r] \in LiveChild
Tracked   == {r \in Runs : processes[r] # "none"}
ActiveRow(r) == state[r] \in ActiveStates
Idle(step) == [at |-> step, run |-> NoRun]

-----------------------------------------------------------------------------
Init ==
  /\ state = [r \in Runs |-> "absent"]
  /\ stopFlag = [r \in Runs |-> FALSE]
  /\ accepted = <<>>
  /\ robot = "down" /\ beat = "stopped" /\ pending = {}
  /\ processes = [r \in Runs |-> "none"]
  /\ stopping = [r \in Runs |-> FALSE]
  /\ thread = Idle("idle")
  /\ watcher = [r \in Runs |-> "none"]
  /\ call = Idle("idle")
  /\ signal = {} /\ await = {}
  /\ child = [r \in Runs |-> "none"]
  /\ stdin = [r \in Runs |-> FALSE]
  /\ starts = 0

-----------------------------------------------------------------------------
(* The life of the robot process.                                          *)

\* _run_robot: the pulse is written "running" before recover() reads the rows.
RobotStart ==
  /\ robot = "down" /\ starts < MaxStarts
  /\ starts' = starts + 1
  /\ robot' = "recovering" /\ beat' = "running"
  /\ pending' = {r \in Runs : ActiveRow(r)}
  /\ UNCHANGED <<rowVars, signal, await, procVars, thread, call, childVars>>

\* A bug: a restart resumes the launch it interrupted.
RecoverRequeues(r) ==
  /\ robot = "recovering" /\ r \in pending
  /\ state[r] \in {"queued", "starting"}
  /\ state' = [state EXCEPT ![r] = "queued"]
  /\ pending' = pending \ {r}
  /\ UNCHANGED <<stopFlag, accepted, robot, beat, signal, await, starts, procVars, thread, call, childVars>>

\* recover(): a run that was not handed to a process is cancelled.
RecoverQueued(r) ==
  /\ robot = "recovering" /\ r \in pending
  /\ state[r] \in {"queued", "starting"}
  /\ state' = [state EXCEPT ![r] = "cancelled"]
  /\ pending' = pending \ {r}
  /\ UNCHANGED <<stopFlag, accepted, robot, beat, signal, await, starts, procVars, thread, call, childVars>>

\* recover() and _adopt(): the lock names a live pid and status.json, fresh and
\* without exited_at, names the same one.  A booting process has no status yet.
RecoverAdopt(r) ==
  /\ robot = "recovering" /\ r \in pending
  /\ state[r] \in {"running", "stopping"}
  /\ child[r] \in {"run", "told"}
  /\ processes' = [processes EXCEPT ![r] = "adopted"]
  /\ stopping' = [stopping EXCEPT ![r] = FALSE]
  /\ watcher' = [watcher EXCEPT ![r] = "waiting"]
  /\ pending' = pending \ {r}
  /\ UNCHANGED <<rowVars, robot, beat, signal, await, starts, thread, call, childVars>>

\* A bug: a run that is gone keeps the row it had.
RecoverSkips(r) ==
  /\ robot = "recovering" /\ r \in pending
  /\ state[r] \in {"running", "stopping"}
  /\ child[r] \notin {"run", "told"}
  /\ pending' = pending \ {r}
  /\ UNCHANGED <<rowVars, robot, beat, signal, await, starts, procVars, thread, call, childVars>>

RecoverInterrupt(r) ==
  /\ robot = "recovering" /\ r \in pending
  /\ state[r] \in {"running", "stopping"}
  /\ child[r] \notin {"run", "told"}
  /\ state' = [state EXCEPT ![r] = "interrupted"]
  /\ pending' = pending \ {r}
  /\ UNCHANGED <<stopFlag, accepted, robot, beat, signal, await, starts, procVars, thread, call, childVars>>

\* recover() is done: the API and the queue thread start.
RobotUp ==
  /\ robot = "recovering" /\ pending = {}
  /\ robot' = "up"
  /\ UNCHANGED <<rowVars, beat, pending, signal, await, starts, procVars, thread, call, childVars>>

\* The memory and the threads of the robot process are gone.
ProcessGone ==
  /\ processes' = [r \in Runs |-> "none"]
  /\ stopping' = [r \in Runs |-> FALSE]
  /\ watcher' = [r \in Runs |-> "none"]
  /\ thread' = Idle("idle")
  /\ call' = Idle("idle")
  /\ signal' = {} /\ await' = {}

\* _run_robot: the port of the API is taken.  The robot leaves without close();
\* what it adopted learns of it from the heartbeat.
StartRefused ==
  /\ robot = "recovering" /\ pending = {}
  /\ robot' = "down" /\ beat' = "stopped"
  /\ ProcessGone
  /\ UNCHANGED <<rowVars, pending, starts, childVars>>

\* Ctrl+C: pulse.stop() runs before history.close().
PulseStop ==
  /\ robot = "up"
  /\ robot' = "stopping" /\ beat' = "stopped"
  /\ UNCHANGED <<rowVars, pending, signal, await, starts, procVars, thread, call, childVars>>

\* close(): _halt is set and the rows still queued are cancelled.
CloseHalt ==
  /\ robot = "stopping"
  /\ robot' = "halted"
  /\ state' = [r \in Runs |-> IF state[r] = "queued" THEN "cancelled" ELSE state[r]]
  /\ UNCHANGED <<stopFlag, accepted, beat, pending, signal, await, starts, procVars, thread, call, childVars>>

\* close(): the copy of _processes under the lock.
CloseSnapshot ==
  /\ robot = "halted"
  /\ robot' = "closing"
  /\ signal' = Tracked /\ await' = Tracked
  /\ UNCHANGED <<rowVars, beat, pending, starts, procVars, thread, call, childVars>>

\* ContourProcess.request_stop does nothing before the process is started or
\* after its exit; AdoptedProcess.request_stop only marks itself.
RequestStop(r) ==
  IF watcher[r] # "waiting"
  THEN UNCHANGED <<stopping, stdin>>
  ELSE /\ stopping' = [stopping EXCEPT ![r] = TRUE]
       /\ stdin' = [stdin EXCEPT ![r] = IF processes[r] = "own" THEN TRUE ELSE @]

\* close(): the row and then the process of one run of the copy.
CloseSignal(r) ==
  /\ robot = "closing" /\ r \in signal
  /\ state' = [state EXCEPT ![r] = "stopping"]
  /\ stopFlag' = [stopFlag EXCEPT ![r] = TRUE]
  /\ RequestStop(r)
  /\ signal' = signal \ {r}
  /\ UNCHANGED <<accepted, robot, beat, pending, await, starts, processes, watcher, thread, call, child>>

\* process.stop(): asks a process that was started after the first request.
CloseStop(r) ==
  /\ robot = "closing" /\ signal = {} /\ r \in await
  /\ watcher[r] = "waiting" /\ ~stopping[r]
  /\ RequestStop(r)
  /\ UNCHANGED <<rowVars, robotVars, processes, watcher, thread, call, child>>

\* process.stop(): no exit within stop_timeout, the process is killed.
CloseKill(r) ==
  /\ robot = "closing" /\ signal = {} /\ r \in await
  /\ watcher[r] = "waiting" /\ stopping[r] /\ Alive(r)
  /\ child' = [child EXCEPT ![r] = "died"]
  /\ UNCHANGED <<rowVars, robotVars, procVars, thread, call, stdin>>

\* process.stop() returns: at once for a process not started yet, otherwise
\* when the exit was seen and the watcher joined.
CloseReturn(r) ==
  /\ robot = "closing" /\ signal = {} /\ r \in await
  /\ watcher[r] \in {"none", "done"}
  /\ await' = await \ {r}
  /\ UNCHANGED <<rowVars, robot, beat, pending, signal, starts, procVars, thread, call, childVars>>

\* close() joins the queue thread for five seconds at most and its threads are
\* daemons: the robot exits wherever the queue thread and the API are.
RobotExit ==
  /\ robot = "closing" /\ signal = {} /\ await = {}
  /\ robot' = "down"
  /\ ProcessGone
  /\ UNCHANGED <<rowVars, beat, pending, starts, childVars>>

\* kill -9: memory and threads are lost, the heartbeat row still says
\* "running", run processes live on without a reader of their pipe's end.
RobotCrash ==
  /\ robot # "down"
  /\ robot' = "down" /\ pending' = {}
  /\ ProcessGone
  /\ UNCHANGED <<rowVars, beat, starts, childVars>>

-----------------------------------------------------------------------------
(* The control API.                                                        *)

\* submit(): the row is added as queued under the lock.
Submit(r) ==
  /\ robot \in Serving
  /\ state[r] = "absent"
  /\ state' = [state EXCEPT ![r] = "queued"]
  /\ accepted' = Append(accepted, r)
  /\ UNCHANGED <<stopFlag, robotVars, procVars, thread, call, childVars>>

\* stop(): reads the row and decides.  A finished run is a 409 and a repeated
\* stop a 200: neither changes anything.
StopRead(r) ==
  /\ robot \in Serving /\ call.at = "idle"
  /\ \/ state[r] = "queued" /\ call' = [at |-> "cancel", run |-> r]
     \/ /\ state[r] \in {"starting", "running"} /\ ~stopFlag[r]
        /\ call' = [at |-> "mark", run |-> r]
  /\ UNCHANGED <<rowVars, robotVars, procVars, thread, childVars>>

\* stop(): the unconditional UPDATE to cancelled of a run it read as queued.
StopCancel ==
  /\ call.at = "cancel"
  /\ state' = [state EXCEPT ![call.run] = "cancelled"]
  /\ call' = Idle("idle")
  /\ UNCHANGED <<stopFlag, accepted, robotVars, procVars, thread, childVars>>

\* stop(): the unconditional UPDATE to stopping of a run it read as active.
StopMark ==
  /\ call.at = "mark"
  /\ state' = [state EXCEPT ![call.run] = "stopping"]
  /\ stopFlag' = [stopFlag EXCEPT ![call.run] = TRUE]
  /\ call' = [call EXCEPT !.at = "signal"]
  /\ UNCHANGED <<accepted, robotVars, procVars, thread, childVars>>

\* stop(): the process, if _processes has one, is asked to stop.
StopSignal ==
  /\ call.at = "signal"
  /\ RequestStop(call.run)
  /\ call' = Idle("idle")
  /\ UNCHANGED <<rowVars, robotVars, processes, watcher, thread, child>>

-----------------------------------------------------------------------------
(* The queue thread.                                                       *)

\* The first row still queued, in the order of accepted_at.
FirstQueued(r) ==
  \E i \in DOMAIN accepted :
    /\ accepted[i] = r /\ state[r] = "queued"
    /\ \A j \in 1 .. (i - 1) : state[accepted[j]] # "queued"

\* A bug: the limit is compared off by one.
FillPickOneMore ==
  /\ robot \in {"up", "stopping"} /\ thread.at = "idle"
  /\ Cardinality(Tracked) <= MaxRuns
  /\ \E r \in Runs : FirstQueued(r) /\ thread' = [at |-> "claim", run |-> r]
  /\ UNCHANGED <<rowVars, robotVars, procVars, call, childVars>>

\* _fill(): a free slot and the first row still queued.
FillPick ==
  /\ robot \in {"up", "stopping"} /\ thread.at = "idle"
  /\ Cardinality(Tracked) < MaxRuns
  /\ \E r \in Runs : FirstQueued(r) /\ thread' = [at |-> "claim", run |-> r]
  /\ UNCHANGED <<rowVars, robotVars, procVars, call, childVars>>

Step(from, to) == /\ thread.at = from
                  /\ thread' = IF to = "idle" THEN Idle("idle") ELSE [thread EXCEPT !.at = to]
WriteState(value) == state' = [state EXCEPT ![thread.run] = value]

\* _launch(): the row is starting, whatever was written since it was read.
LaunchClaim ==
  /\ Step("claim", "prepare")
  /\ WriteState("starting")
  /\ UNCHANGED <<stopFlag, accepted, robotVars, procVars, call, childVars>>

\* _launch(): the import check of the data emulator, a slow HTTP request.
LaunchPrepare ==
  /\ Step("prepare", "check")
  /\ UNCHANGED <<rowVars, robotVars, procVars, call, childVars>>

\* An exception other than EmulatorError is only logged by _run().
LaunchRaises ==
  /\ Step("prepare", "idle")
  /\ UNCHANGED <<rowVars, robotVars, procVars, call, childVars>>

\* _launch(): the row is read again; a stop or the halt of the robot cancels.
LaunchCheck ==
  /\ thread.at = "check"
  /\ IF stopFlag[thread.run] \/ robot \in {"halted", "closing"}
     THEN Step("check", "cancel") ELSE Step("check", "register")
  /\ UNCHANGED <<rowVars, robotVars, procVars, call, childVars>>

LaunchCancel ==
  /\ Step("cancel", "idle")
  /\ WriteState("cancelled")
  /\ UNCHANGED <<stopFlag, accepted, robotVars, procVars, call, childVars>>

\* _launch(): launch.json is written and the process object takes its slot.
LaunchRegister ==
  /\ Step("register", "start")
  /\ processes' = [processes EXCEPT ![thread.run] = "own"]
  /\ stopping' = [stopping EXCEPT ![thread.run] = FALSE]
  /\ UNCHANGED <<rowVars, robotVars, watcher, call, childVars>>

\* ContourProcess.start(): the process and its watcher thread.
LaunchStart ==
  /\ Step("start", "record")
  /\ child' = [child EXCEPT ![thread.run] = "boot"]
  /\ watcher' = [watcher EXCEPT ![thread.run] = "waiting"]
  /\ UNCHANGED <<rowVars, robotVars, processes, stopping, call, stdin>>

\* launch.json or the process could not be started: the slot is given back
\* and the row fails.
LaunchFails ==
  /\ Step("register", "idle") \/ Step("start", "idle")
  /\ processes' = [processes EXCEPT ![thread.run] = "none"]
  /\ WriteState("failed")
  /\ UNCHANGED <<stopFlag, accepted, robotVars, stopping, watcher, call, childVars>>

\* _launch(): the unconditional UPDATE to running with the pid.
LaunchRecord ==
  /\ Step("record", "idle")
  /\ WriteState("running")
  /\ UNCHANGED <<stopFlag, accepted, robotVars, procVars, call, childVars>>

-----------------------------------------------------------------------------
(* The watcher thread of a run.                                            *)

\* _watch() sees the exit, _exited() gives the slot back under the lock.
ExitSeen(r) ==
  /\ watcher[r] = "waiting" /\ ~Alive(r)
  /\ watcher' = [watcher EXCEPT ![r] = "popped"]
  /\ processes' = [processes EXCEPT ![r] = "none"]
  /\ UNCHANGED <<rowVars, robotVars, stopping, thread, call, childVars>>

\* A bug: the word of the process is written into the row.
OutcomeRaw(r) == IF child[r] # "ok" THEN child[r] ELSE "finished"

\* A bug: a requested stop hides the exit code.
OutcomeStopFirst(r) ==
  IF stopping[r] \/ stopFlag[r] THEN "stopped"
  ELSE IF child[r] # "ok" THEN "failed" ELSE "finished"

\* _exited(): code zero (of an adopted run: in status.json) is an end, told
\* apart by the stop; everything else failed.
Outcome(r) ==
  IF child[r] # "ok" THEN "failed"
  ELSE IF stopping[r] \/ stopFlag[r] THEN "stopped" ELSE "finished"

ExitRecord(r) ==
  /\ watcher[r] = "popped"
  /\ watcher' = [watcher EXCEPT ![r] = "done"]
  /\ state' = [state EXCEPT ![r] = Outcome(r)]
  /\ UNCHANGED <<stopFlag, accepted, robotVars, processes, stopping, thread, call, childVars>>

-----------------------------------------------------------------------------
(* The run process (HistoryProgress and the history path of run.py).       *)

\* A bug: the run looks at one of its two sources only.
StopSeenInRow(r) == stopFlag[r]

\* check(): the heartbeat of the robot says "stopped", or the own row does.
StopSeen(r) == beat = "stopped" \/ stopFlag[r]

\* The lock is taken, launch.json is read and progress.start() checks at once.
ChildBoot(r) ==
  /\ child[r] = "boot"
  /\ child' = [child EXCEPT ![r] = IF StopSeen(r) THEN "told" ELSE "run"]
  /\ UNCHANGED <<rowVars, robotVars, procVars, thread, call, stdin>>

\* check(): the heartbeat of the robot or the flag of the own row; a failed
\* read leaves it for the next check.
ChildCheck(r) ==
  /\ child[r] = "run" /\ StopSeen(r)
  /\ child' = [child EXCEPT ![r] = "told"]
  /\ UNCHANGED <<rowVars, robotVars, procVars, thread, call, stdin>>

\* StdinStop: the line in the pipe sets the event the loop looks at.
ChildStdin(r) ==
  /\ child[r] = "run" /\ stdin[r]
  /\ child' = [child EXCEPT ![r] = "told"]
  /\ stdin' = [stdin EXCEPT ![r] = FALSE]
  /\ UNCHANGED <<rowVars, robotVars, procVars, thread, call>>

\* The session stops after its tick; finish() writes exited_at and the code.
ChildStops(r) ==
  /\ child[r] = "told"
  /\ \E end \in {"ok", "failed"} : child' = [child EXCEPT ![r] = end]
  /\ UNCHANGED <<rowVars, robotVars, procVars, thread, call, stdin>>

\* The range is over, or the run failed or was refused.
ChildEnds(r) ==
  /\ child[r] = "run"
  /\ \E end \in {"ok", "failed"} : child' = [child EXCEPT ![r] = end]
  /\ UNCHANGED <<rowVars, robotVars, procVars, thread, call, stdin>>

\* Killed from outside, or no lock and no launch.json: no mark of the exit.
ChildDies(r) ==
  /\ Alive(r)
  /\ child' = [child EXCEPT ![r] = "died"]
  /\ UNCHANGED <<rowVars, robotVars, procVars, thread, call, stdin>>

-----------------------------------------------------------------------------
RobotStep ==
  \/ RobotStart \/ RobotUp \/ StartRefused \/ PulseStop \/ CloseHalt \/ CloseSnapshot \/ RobotExit \/ RobotCrash
  \/ \E r \in Runs : \/ RecoverQueued(r) \/ RecoverAdopt(r) \/ RecoverInterrupt(r)
                     \/ CloseSignal(r) \/ CloseStop(r) \/ CloseKill(r) \/ CloseReturn(r)

ApiStep == StopCancel \/ StopMark \/ StopSignal \/ \E r \in Runs : Submit(r) \/ StopRead(r)

QueueStep ==
  \/ FillPick \/ LaunchClaim \/ LaunchPrepare \/ LaunchRaises \/ LaunchCheck \/ LaunchCancel
  \/ LaunchRegister \/ LaunchStart \/ LaunchFails \/ LaunchRecord

WatcherStep == \E r \in Runs : ExitSeen(r) \/ ExitRecord(r)

ChildStep == \E r \in Runs : \/ ChildBoot(r) \/ ChildCheck(r) \/ ChildStdin(r)
                              \/ ChildStops(r) \/ ChildEnds(r) \/ ChildDies(r)

Next == RobotStep \/ ApiStep \/ QueueStep \/ WatcherStep \/ ChildStep

Spec == Init /\ [][Next]_vars

\* Threads of a running robot are scheduled, a run process looks at its stop
\* every five seconds and ends within a tick of it.  Nothing obliges a run to
\* end by itself, the operator to stop anything, or the robot to start again.
Fairness ==
  /\ WF_vars(QueueStep)
  /\ WF_vars(StopCancel \/ StopMark \/ StopSignal)
  /\ WF_vars(RobotUp) /\ WF_vars(CloseHalt) /\ WF_vars(CloseSnapshot) /\ WF_vars(RobotExit)
  /\ \A r \in Runs :
       /\ WF_vars(RecoverQueued(r) \/ RecoverAdopt(r) \/ RecoverInterrupt(r))
       /\ WF_vars(CloseSignal(r) \/ CloseStop(r) \/ CloseKill(r) \/ CloseReturn(r))
       /\ WF_vars(ExitSeen(r) \/ ExitRecord(r))
       /\ WF_vars(ChildBoot(r)) /\ WF_vars(ChildCheck(r)) /\ WF_vars(ChildStops(r))

FairSpec == Spec /\ Fairness

-----------------------------------------------------------------------------
(* Properties.                                                             *)

\* The types of the variables.
TypeOK ==
  /\ state \in [Runs -> RunStates]
  /\ stopFlag \in [Runs -> BOOLEAN]
  /\ accepted \in Seq(Runs)
  /\ robot \in RobotPhases
  /\ beat \in {"running", "stopped"}
  /\ pending \in SUBSET Runs
  /\ processes \in [Runs -> {"none", "own", "adopted"}]
  /\ stopping \in [Runs -> BOOLEAN]
  /\ thread \in [at : QueueSteps, run : Runs \cup {NoRun}]
  /\ watcher \in [Runs -> {"none", "waiting", "popped", "done"}]
  /\ call \in [at : CallSteps, run : Runs \cup {NoRun}]
  /\ signal \in SUBSET Runs /\ await \in SUBSET Runs
  /\ child \in [Runs -> ChildStates]
  /\ stdin \in [Runs -> BOOLEAN]
  /\ starts \in 0 .. MaxStarts

\* The robot never supervises more than max_history_runs processes, the
\* adopted ones included: the slot is counted before the slow import check and
\* taken after it, and a restart adopts whatever survived (_fill, _adopt).
SlotLimit == Cardinality(Tracked) <= MaxRuns

\* A run gets one process in its life: no mix of stops, crashes and restarts
\* brings a row that was launched back into the queue.
NeverRelaunched ==
  [][\A r \in Runs : child[r] \notin {"none", "boot"} => child'[r] # "boot"]_vars

\* When the robot comes up again every row it still shows as active has a
\* watcher that will record its end: recover() leaves no row behind.
RecoveredIsWatched ==
  [][robot = "recovering" /\ robot' = "up" =>
       \A r \in Runs : ActiveRow(r)' => watcher'[r] \in {"waiting", "popped", "done"}]_vars

\* What is over is accounted for. A slot that is taken has the queue thread on
\* its way to start that run or a watcher waiting for its process: no failed
\* check, failed start or early death blocks the runs that are queued. A row says
\* "finished" or "stopped" only of a process that exited with code zero, and
\* "stopped" only if a stop was recorded, whatever the order of stop(), close(),
\* _exited() and a restart between them.
EndIsAccounted ==
  /\ \A r \in Tracked : thread.run = r \/ watcher[r] = "waiting"
  /\ \A r \in Runs : /\ state[r] \in {"finished", "stopped"} => child[r] = "ok"
                     /\ state[r] = "stopped" => stopFlag[r]

\* A stop recorded in the row ends the process, also one that was started after
\* stop() looked for it, and also if the robot dies before telling it; after
\* Ctrl+C no run outlives the robot, the one whose process was started behind the
\* back of close() included, unless the robot is started again.
StopReaches ==
  \A r \in Runs :
    /\ (stopFlag[r] /\ Alive(r)) ~> ~Alive(r)
    /\ (beat = "stopped" /\ Alive(r)) ~> (~Alive(r) \/ beat = "running")
=============================================================================
