--------------------------- MODULE LaunchControl ---------------------------
(* The robot's main thread, the HTTP threads that hand it commands, the       *)
(* contour process it supervises and the record it leaves for its next life   *)
(* (bot/launch_control.py, assembly/core.py, assembly/process.py,              *)
(* assembly/recovery.py, assembly/core_state.py, run.py).                      *)
EXTENDS Naturals, Sequences, FiniteSets

CONSTANTS
    Calls,       \* commands of the operator, each sent at most once
    MaxProcs,    \* processes of the contour over all lives of the robot
    MaxLives,    \* starts of the robot
    MaxAttempts, \* failed starts of the core in one life
    Versions     \* versions of the robot

ASSUME LaunchAssumption ==
    /\ MaxProcs \in Nat /\ MaxLives \in Nat /\ MaxAttempts \in Nat
    /\ IsFiniteSet(Calls) /\ Versions # {}

VARIABLES
    main,     \* where the main thread is
    lives,    \* starts of the robot so far
    version,  \* version of the robot that runs
    starter,  \* CoreStarter: state and attempts
    pulse,    \* the core's heartbeat: "on" or "stopped"
    ctl,      \* fields of LaunchControl under its lock
    launchQueue, memberQueue,
    holding,  \* the command the main thread has taken
    calls,    \* the commands and their HTTP threads
    row,      \* the contour's row in core.sqlite3
    proc,     \* the process object the main thread supervises
    life,     \* the contour's processes
    lockFile, \* pid in the contour's robot.pid
    snapshot  \* status.json of the contour

launchVars == <<main, lives, version, starter, pulse, ctl, launchQueue, memberQueue,
                holding, calls, row, proc, life, lockFile, snapshot>>

NoCall == "none"
ASSUME NoCallAssumption == NoCall \notin Calls
Procs == 1..MaxProcs
StopKinds == {"no_entries", "close_all"}
Kinds == {"start", "member"} \cup StopKinds
Revisions == 0..Cardinality(Calls)
AnyRevision == Cardinality(Calls) + 1 \* no If-Match

Alive(p) == p # 0 /\ life[p] \in {"boot", "trade", "ending"}
Up == main # "down"
Idle == ctl.state \in {"waiting", "stopped", "failed"} /\ ctl.pid = 0
(* What it would be if the state alone kept a second launch out.               *)
CanStartIdle == Idle /\ ctl.accepting
CanStart == Idle /\ ctl.accepting /\ ctl.pending = NoCall
NoProc == [id |-> 0, adopted |-> FALSE, exited |-> FALSE, marked |-> FALSE]
FreshControl == [state |-> "waiting", pid |-> 0, accepting |-> TRUE, pending |-> NoCall,
                 recorded |-> FALSE, rise |-> "command"]
Command(k, e) == [kind |-> k, expected |-> e, step |-> "sent", answer |-> "none", made |-> 0]
Expected(c) == calls[c].expected \in {AnyRevision, row.gen}

LaunchInit ==
    /\ main = "down" /\ lives = 0 /\ version \in Versions
    /\ starter = [state |-> "starting", attempts |-> 0]
    /\ pulse = "stopped" /\ ctl = FreshControl
    /\ launchQueue = <<>> /\ memberQueue = <<>> /\ holding = NoCall
    /\ calls = [c \in Calls |-> [Command("start", AnyRevision) EXCEPT !.step = "unsent"]]
    /\ row = [running |-> FALSE, mode |-> "none", gen |-> 0]
    /\ proc = NoProc /\ life = [p \in Procs |-> "unborn"]
    /\ lockFile = 0
    /\ snapshot = [pid |-> 0, version |-> version, fresh |-> FALSE, stopping |-> FALSE, exited |-> FALSE]

-----------------------------------------------------------------------------
(* Answers. The HTTP thread of a call ends when it has one: "done" is 200 or   *)
(* 202, "refused" any 4xx or 500, "late" the 202 of a reply timeout.           *)

Done(c, a) == [calls EXCEPT ![c].step = "done", ![c].answer = a]
Made(c, a, g) == [calls EXCEPT ![c].step = "done", ![c].answer = a, ![c].made = g]
(* A waiter that gave up has its 202 already.                                 *)
Reply(c, a) == IF calls[c].step = "waits" THEN Done(c, a) ELSE calls
ReplyMade(c, a, g) ==
    IF calls[c].step = "waits" THEN Made(c, a, g) ELSE [calls EXCEPT ![c].made = g]

(* A robot that dies takes its HTTP threads with it.                          *)
Hangup == [c \in Calls |-> IF calls[c].step \in {"unsent", "done"} THEN calls[c]
                           ELSE [calls[c] EXCEPT !.step = "done", !.answer = "lost"]]

-----------------------------------------------------------------------------
(* HTTP threads                                                               *)

mainVars == <<main, lives, version, starter, pulse, holding, proc>>
contour == <<life, lockFile, snapshot>>

(* The operator sends what he likes, with If-Match of what he read or without. *)
Send(c) ==
    /\ Up /\ calls[c].step = "unsent"
    /\ \E k \in Kinds, e \in {AnyRevision, row.gen} : calls' = [calls EXCEPT ![c] = Command(k, e)]
    /\ UNCHANGED <<mainVars, contour, ctl, launchQueue, memberQueue, row>>

(* submit() until its lock: core, the contour's directory, quick revision.    *)
ConfirmedStatus(s) == s.pid = lockFile /\ ~s.exited /\ s.fresh
ContourBusy == Alive(lockFile) /\ ~(snapshot.pid = lockFile /\ snapshot.exited) /\ ~ConfirmedStatus(snapshot)

SubmitChecks(c) ==
    /\ Up /\ calls[c].step = "sent" /\ calls[c].kind = "start"
    /\ calls' = IF starter.state # "ready" \/ ContourBusy \/ ~Expected(c) THEN Done(c, "refused")
                ELSE [calls EXCEPT ![c].step = "checked"]
    /\ UNCHANGED <<mainVars, contour, ctl, launchQueue, memberQueue, row>>

(* Under the lock, one launch at a time.                                      *)
SubmitDecides(c) ==
    /\ Up /\ calls[c].step = "checked" /\ calls[c].kind = "start"
    /\ IF CanStart
       THEN /\ ctl' = [ctl EXCEPT !.state = "starting", !.pending = c]
            /\ calls' = [calls EXCEPT ![c].step = "decided"]
       ELSE ctl' = ctl /\ calls' = Done(c, "refused")
    /\ UNCHANGED <<mainVars, contour, launchQueue, memberQueue, row>>

SubmitPuts(c) ==
    /\ Up /\ calls[c].step = "decided"
    /\ launchQueue' = Append(launchQueue, c)
    /\ calls' = [calls EXCEPT ![c].step = "waits"]
    /\ UNCHANGED <<mainVars, contour, ctl, memberQueue, row>>

(* stop() looks for the process under the lock and records after it.          *)
StopLooks(c) ==
    /\ Up /\ calls[c].step = "sent" /\ calls[c].kind \in StopKinds
    /\ calls' = IF ctl.pid = 0 THEN Done(c, "refused") ELSE [calls EXCEPT ![c].step = "checked"]
    /\ UNCHANGED <<mainVars, contour, ctl, launchQueue, memberQueue, row>>

(* What it would be with If-Match compared before the transaction only.       *)
RecordStopUnchecked(c) ==
    IF ~row.running /\ (row.mode = calls[c].kind \/ row.mode = "close_all")
    THEN row' = row /\ calls' = Done(c, "refused")
    ELSE /\ row' = [running |-> FALSE, mode |-> calls[c].kind, gen |-> row.gen + 1]
         /\ calls' = Made(c, "done", row.gen + 1)

(* record_stop: one transaction with the check of If-Match in it.             *)
RecordStopMode(c) ==
    LET m == calls[c].kind
    IN IF \/ ~Expected(c) \/ row.gen = 0
          \/ ~row.running /\ row.mode = "close_all" /\ m # row.mode
       THEN row' = row /\ calls' = Done(c, "refused")
       ELSE IF ~row.running /\ row.mode = m THEN row' = row /\ calls' = Done(c, "done")
       ELSE
              /\ row' = [running |-> FALSE, mode |-> m, gen |-> row.gen + 1]
              /\ calls' = Made(c, "done", row.gen + 1)

StopRecords(c) ==
    /\ Up /\ calls[c].step = "checked" /\ calls[c].kind \in StopKinds
    /\ RecordStopMode(c)
    /\ UNCHANGED <<mainVars, contour, ctl, launchQueue, memberQueue>>

(* change_membership(): desired state first, then the process, then If-Match. *)
MemberReads(c) ==
    /\ Up /\ calls[c].step = "sent" /\ calls[c].kind = "member"
    /\ calls' = [calls EXCEPT ![c].step = IF row.gen = 0 \/ row.running THEN "runs" ELSE "stops"]
    /\ UNCHANGED <<mainVars, contour, ctl, launchQueue, memberQueue, row>>

MemberPuts(c) ==
    /\ Up /\ calls[c].step \in {"runs", "stops"}
    /\ IF ctl.pid = 0 \/ calls[c].step = "stops"
            \/ ~Expected(c)
       THEN memberQueue' = memberQueue /\ calls' = Done(c, "refused")
       ELSE /\ memberQueue' = Append(memberQueue, c)
            /\ calls' = [calls EXCEPT ![c].step = "waits"]
    /\ UNCHANGED <<mainVars, contour, ctl, launchQueue, row>>

(* REPLY_TIMEOUT_SECS: 202 while the command is still on its way.             *)
CallTimesOut(c) ==
    /\ Up /\ calls[c].step = "waits"
    /\ calls' = Done(c, "late")
    /\ UNCHANGED <<mainVars, contour, ctl, launchQueue, memberQueue, row>>

-----------------------------------------------------------------------------
(* The main thread: start of the robot and of its core                        *)

RobotBoots ==
    /\ main = "down" /\ lives < MaxLives
    /\ main' = "core" /\ lives' = lives + 1 /\ version' \in Versions
    /\ starter' = [state |-> "starting", attempts |-> 1]
    /\ pulse' = "on" /\ ctl' = FreshControl /\ proc' = NoProc
    /\ launchQueue' = <<>> /\ memberQueue' = <<>> /\ holding' = NoCall
    /\ UNCHANGED <<calls, row, contour>>

(* CoreStarter.run: reset, wait, try again; without a token never.            *)
CoreFails ==
    /\ main = "core" /\ starter.state = "starting" /\ starter.attempts <= MaxAttempts
    /\ starter' = [starter EXCEPT !.state = "retrying"]
    /\ UNCHANGED <<main, lives, version, pulse, ctl, launchQueue, memberQueue, holding, calls,
                   row, proc, contour>>

CoreRetries ==
    /\ main = "core" /\ starter.state = "retrying"
    /\ starter' = [state |-> "starting", attempts |-> starter.attempts + 1]
    /\ UNCHANGED <<main, lives, version, pulse, ctl, launchQueue, memberQueue, holding, calls,
                   row, proc, contour>>

NoToken ==
    /\ main = "core" /\ starter = [state |-> "starting", attempts |-> 1]
    /\ main' = "tokenless" /\ starter' = [starter EXCEPT !.state = "failed"]
    /\ UNCHANGED <<lives, version, pulse, ctl, launchQueue, memberQueue, holding, calls, row,
                   proc, contour>>

\* From here on the attempts are for reports only.
CoreReady ==
    /\ main = "core" /\ starter.state = "starting"
    /\ main' = "recover" /\ starter' = [state |-> "ready", attempts |-> 0]
    /\ UNCHANGED <<lives, version, pulse, ctl, launchQueue, memberQueue, holding, calls, row,
                   proc, contour>>

(* plan_recovery, automatic start switched on.                                *)
OughtToRun == row.gen > 0 /\ (row.running \/ snapshot.stopping)
Plan == IF Alive(lockFile)
        THEN CASE snapshot.pid = lockFile /\ snapshot.exited -> "replace"
               [] ContourBusy -> "blocked"
               [] OTHER -> IF snapshot.version = version THEN "adopt" ELSE "replace"
        ELSE IF OughtToRun THEN "autostart" ELSE "wait"

MarkRecovered(how) ==
    ctl' = [ctl EXCEPT !.state = "starting", !.accepting = FALSE, !.rise = how, !.recorded = FALSE]
AcceptCommands ==
    ctl' = [ctl EXCEPT !.accepting = TRUE,
                       !.state = IF @ \in {"stopped", "failed"} THEN @ ELSE "waiting"]

Decide(plan) ==
    /\ CASE plan = "adopt" -> /\ MarkRecovered("adopted") /\ main' = "adopt"
                              /\ proc' = [NoProc EXCEPT !.id = lockFile, !.adopted = TRUE]
         [] plan = "autostart" -> MarkRecovered("autostart") /\ main' = "prepare" /\ proc' = NoProc
         [] plan = "replace" -> main' = "replace" /\ UNCHANGED <<ctl, proc>>
         [] OTHER -> AcceptCommands /\ main' = "await" /\ proc' = NoProc
    /\ UNCHANGED <<lives, version, starter, pulse, launchQueue, memberQueue, holding, calls, row>>

Recover == main = "recover" /\ Decide(Plan) /\ UNCHANGED contour

(* Wait for the other process, or kill it, and plan once more.                *)
Replan == IF Plan \in {"adopt", "replace"} THEN "blocked" ELSE Plan
ReplaceGone == main = "replace" /\ ~Alive(lockFile) /\ Decide(Replan) /\ UNCHANGED contour
ReplaceKills ==
    /\ main = "replace" /\ Alive(lockFile)
    /\ life' = [life EXCEPT ![lockFile] = "killed"]
    /\ UNCHANGED <<mainVars, ctl, launchQueue, memberQueue, calls, row, lockFile, snapshot>>

-----------------------------------------------------------------------------
(* The main thread: a launch                                                  *)

TakeLaunch ==
    /\ main = "await" /\ launchQueue # <<>>
    /\ main' = "resolve" /\ holding' = Head(launchQueue) /\ launchQueue' = Tail(launchQueue)
    /\ UNCHANGED <<lives, version, starter, pulse, ctl, memberQueue, calls, row, proc, contour>>

Forget(a) ==
    /\ calls' = Reply(holding, a) /\ holding' = NoCall /\ main' = "await"
    /\ ctl' = [ctl EXCEPT !.state = "waiting", !.pending = NoCall]
    /\ UNCHANGED <<lives, version, starter, pulse, launchQueue, memberQueue, row, proc, contour>>

(* The instruments do not resolve, or their resolution fails: reject().       *)
Reject == main = "resolve" /\ Forget("refused")

(* mark_launched() with a revision that has changed meanwhile.                *)
LaunchStale == main = "resolve" /\ ~Expected(holding) /\ Forget("refused")

(* mark_launched(): record_launch and, after it, the lock.                    *)
MarkLaunched ==
    /\ main = "resolve" /\ Expected(holding)
    /\ row' = [running |-> TRUE, mode |-> "none", gen |-> row.gen + 1]
    /\ ctl' = [ctl EXCEPT !.state = "starting", !.accepting = FALSE, !.pending = NoCall,
                          !.rise = "command", !.recorded = TRUE]
    /\ calls' = ReplyMade(holding, "done", row.gen + 1)
    /\ main' = "prepare" /\ holding' = NoCall
    /\ UNCHANGED <<lives, version, starter, pulse, launchQueue, memberQueue, proc, contour>>

(* The journal's move, the cards of contracts, launch.json: any may fail.     *)
Prepare ==
    /\ main = "prepare" /\ (ctl.recorded \/ ctl.rise = "autostart")
    /\ main' = "start"
    /\ UNCHANGED <<lives, version, starter, pulse, ctl, launchQueue, memberQueue, holding, calls,
                   row, proc, contour>>

(* The robot leaves; beat first, so that an adopted contour learns of it.      *)
Leave ==
    /\ main' = "close" /\ pulse' = "stopped" /\ holding' = NoCall
    /\ UNCHANGED <<lives, version, starter, ctl, launchQueue, memberQueue, calls, row, proc, contour>>

PrepareFails == main = "prepare" /\ Leave

StartContour ==
    /\ main = "start"
    /\ \E p \in Procs :
          /\ life[p] = "unborn" /\ \A q \in 1..(p - 1) : life[q] # "unborn"
          /\ life' = [life EXCEPT ![p] = "boot"]
          /\ proc' = [NoProc EXCEPT !.id = p]
    /\ main' = "mark"
    /\ UNCHANGED <<lives, version, starter, pulse, ctl, launchQueue, memberQueue, holding, calls,
                   row, lockFile, snapshot>>

(* Supervision of a living process begins after the core has warmed up.       *)
AdoptProcess ==
    /\ main = "adopt" /\ main' = "mark"
    /\ UNCHANGED <<lives, version, starter, pulse, ctl, launchQueue, memberQueue, holding, calls,
                   row, proc, contour>>

MarkProcess ==
    /\ main = "mark" /\ main' = "supervise"
    /\ ctl' = [ctl EXCEPT !.pid = proc.id, !.recorded = FALSE]
    /\ UNCHANGED <<lives, version, starter, pulse, launchQueue, memberQueue, holding, calls, row,
                   proc, contour>>

-----------------------------------------------------------------------------
(* The main thread: supervision                                               *)

MarkRunning ==
    /\ main = "supervise" /\ ~proc.exited /\ life[proc.id] = "trade"
    /\ ctl.state = "starting" /\ ctl.pid # 0
    /\ ctl' = [ctl EXCEPT !.state = "running"]
    /\ UNCHANGED <<mainVars, contour, launchQueue, memberQueue, calls, row>>

TakeMember ==
    /\ main = "supervise" /\ ~proc.exited /\ memberQueue # <<>>
    /\ main' = "member" /\ holding' = Head(memberQueue) /\ memberQueue' = Tail(memberQueue)
    /\ UNCHANGED <<lives, version, starter, pulse, ctl, launchQueue, calls, row, proc, contour>>

MemberAnswered(a) ==
    /\ main = "member" /\ calls' = Reply(holding, a)
    /\ row' = row /\ main' = "supervise" /\ holding' = NoCall
    /\ UNCHANGED <<lives, version, starter, pulse, ctl, launchQueue, memberQueue, proc, contour>>

(* Instruments that do not resolve, or an exception: 422, 500.                *)
MemberRefused == MemberAnswered("refused")
MemberIgnored == main = "member" /\ Expected(holding) /\ row.running /\ MemberAnswered("done")
MemberStale == main = "member" /\ ~Expected(holding) /\ MemberAnswered("refused")
MemberConflicts == main = "member" /\ Expected(holding) /\ MemberAnswered("refused")
MemberChanged ==
    /\ main = "member" /\ Expected(holding) /\ row.running
    /\ row' = [row EXCEPT !.gen = @ + 1]
    /\ calls' = ReplyMade(holding, "done", row.gen + 1)
    /\ main' = "supervise" /\ holding' = NoCall
    /\ UNCHANGED <<lives, version, starter, pulse, ctl, launchQueue, memberQueue, proc, contour>>

SuperviseEnds ==
    /\ main = "supervise" /\ proc.exited
    /\ AcceptCommands /\ main' = "await"
    /\ UNCHANGED <<lives, version, starter, pulse, launchQueue, memberQueue, holding, calls, row,
                   proc, contour>>

Interrupt == main \notin {"down", "close"} /\ Leave

(* stop() of the process: a wait with a deadline, then kill.                  *)
CloseKills ==
    /\ main = "close" /\ Alive(proc.id)
    /\ life' = [life EXCEPT ![proc.id] = "killed"]
    /\ UNCHANGED <<mainVars, ctl, launchQueue, memberQueue, calls, row, lockFile, snapshot>>

RobotEnds ==
    /\ main = "close" /\ ~Alive(proc.id)
    /\ main' = "down" /\ calls' = Hangup
    /\ UNCHANGED <<lives, version, starter, pulse, ctl, launchQueue, memberQueue, holding, row,
                   proc, contour>>

RobotCrashes ==
    /\ Up /\ main' = "down" /\ calls' = Hangup
    /\ UNCHANGED <<lives, version, starter, pulse, ctl, launchQueue, memberQueue, holding, row,
                   proc, contour>>

-----------------------------------------------------------------------------
(* Watchers                                                                   *)

WatcherSees ==
    /\ Up /\ proc.id # 0 /\ ~proc.exited /\ ~Alive(proc.id)
    /\ main # "adopt" \* the watcher starts with supervision
    /\ proc' = [proc EXCEPT !.exited = TRUE]
    /\ UNCHANGED <<main, lives, version, starter, pulse, ctl, launchQueue, memberQueue, holding,
                   calls, row, contour>>

CleanExit == IF proc.adopted THEN snapshot.pid = proc.id /\ snapshot.exited ELSE life[proc.id] = "gone"

AfterExit == [ctl EXCEPT !.pid = 0, !.state = IF CleanExit THEN "stopped" ELSE "failed"]

MarkExited ==
    /\ Up /\ proc.exited /\ ~proc.marked
    /\ proc' = [proc EXCEPT !.marked = TRUE]
    /\ ctl' = AfterExit
    /\ UNCHANGED <<main, lives, version, starter, pulse, launchQueue, memberQueue, holding, calls,
                   row, contour>>

-----------------------------------------------------------------------------
(* The contour's process                                                      *)

robot == <<main, lives, version, starter, pulse, ctl, launchQueue, memberQueue, holding, calls,
           row, proc>>

(* Lock, then work; the lock taken by another living process ends it.         *)
ContourBoots(p) ==
    /\ life[p] = "boot"
    /\ IF Alive(lockFile) THEN life' = [life EXCEPT ![p] = "killed"] /\ UNCHANGED <<lockFile, snapshot>>
       ELSE /\ life' = [life EXCEPT ![p] = "trade"] /\ lockFile' = p
            /\ \E v \in Versions :
                  /\ Up => v = version
                  /\ snapshot' = [pid |-> p, version |-> v, fresh |-> TRUE, stopping |-> FALSE,
                                exited |-> FALSE]
    /\ UNCHANGED robot

(* alive_at follows the pulse's checks; a process that hangs lets it age.     *)
ContourAges ==
    /\ snapshot.fresh /\ snapshot' = [snapshot EXCEPT !.fresh = FALSE]
    /\ UNCHANGED <<robot, life, lockFile>>

ContourTouches(p) ==
    /\ life[p] = "trade" /\ ~snapshot.fresh /\ snapshot' = [snapshot EXCEPT !.fresh = TRUE]
    /\ UNCHANGED <<robot, life, lockFile>>

(* The boundary of a tick reads the stop and says so.                         *)
ContourStops(p) ==
    /\ life[p] = "trade" /\ ~row.running /\ ~snapshot.stopping
    /\ snapshot' = [snapshot EXCEPT !.stopping = TRUE]
    /\ UNCHANGED <<robot, life, lockFile>>

(* finish(): stopped for good, the core's "stopped", or another version.      *)
ContourFinishes(p) ==
    /\ life[p] = "trade"
    /\ \/ snapshot.stopping
       \/ pulse = "stopped"
       \/ Up /\ version # snapshot.version
    /\ life' = [life EXCEPT ![p] = "ending"]
    /\ snapshot' = [snapshot EXCEPT !.exited = TRUE, !.stopping = FALSE]
    /\ UNCHANGED <<robot, lockFile>>

ContourGone(p) ==
    /\ life[p] = "ending" /\ life' = [life EXCEPT ![p] = "gone"]
    /\ UNCHANGED <<robot, lockFile, snapshot>>

ContourCrashes(p) ==
    /\ life[p] \in {"boot", "trade"} /\ life' = [life EXCEPT ![p] = "killed"]
    /\ UNCHANGED <<robot, lockFile, snapshot>>

-----------------------------------------------------------------------------
CallStep(c) ==
    \/ SubmitChecks(c) \/ SubmitDecides(c) \/ SubmitPuts(c)
    \/ StopLooks(c) \/ StopRecords(c)
    \/ MemberReads(c) \/ MemberPuts(c)

MainStep ==
    \/ CoreRetries \/ CoreReady \/ Recover \/ ReplaceGone \/ ReplaceKills
    \/ TakeLaunch \/ Reject \/ LaunchStale \/ MarkLaunched
    \/ Prepare \/ StartContour \/ AdoptProcess \/ MarkProcess
    \/ MarkRunning \/ TakeMember
    \/ MemberRefused \/ MemberIgnored \/ MemberStale \/ MemberConflicts \/ MemberChanged
    \/ SuperviseEnds

ContourStep(p) ==
    \/ ContourBoots(p) \/ ContourTouches(p) \/ ContourStops(p) \/ ContourFinishes(p)
    \/ ContourGone(p) \/ ContourCrashes(p)

LaunchNext ==
    \/ \E c \in Calls : Send(c) \/ CallStep(c) \/ CallTimesOut(c)
    \/ MainStep \/ WatcherSees \/ MarkExited
    \/ RobotBoots \/ CoreFails \/ NoToken \/ PrepareFails \/ Interrupt
    \/ CloseKills \/ RobotEnds \/ RobotCrashes
    \/ ContourAges \/ \E p \in Procs : ContourStep(p)

LaunchSpec == LaunchInit /\ [][LaunchNext]_launchVars

-----------------------------------------------------------------------------
LaunchTypeOK ==
    /\ main \in {"down", "core", "tokenless", "recover", "replace", "await", "resolve", "prepare",
                 "start", "adopt", "mark", "supervise", "member", "close"}
    /\ lives \in 0..MaxLives /\ version \in Versions /\ pulse \in {"on", "stopped"}
    /\ starter \in [state : {"starting", "retrying", "ready", "failed"}, attempts : 0..(MaxAttempts + 2)]
    /\ ctl \in [state : {"waiting", "starting", "running", "stopped", "failed"}, pid : {0} \cup Procs,
                accepting : BOOLEAN, pending : Calls \cup {NoCall}, recorded : BOOLEAN,
                rise : {"command", "autostart", "adopted"}]
    /\ launchQueue \in Seq(Calls) /\ memberQueue \in Seq(Calls) /\ holding \in Calls \cup {NoCall}
    /\ calls \in [Calls -> [kind : Kinds, expected : {AnyRevision} \cup Revisions, made : Revisions,
                            step : {"unsent", "sent", "checked", "decided", "runs", "stops", "waits", "done"},
                            answer : {"none", "done", "refused", "late", "lost"}]]
    /\ row \in [running : BOOLEAN, mode : StopKinds \cup {"none"}, gen : Revisions]
    /\ proc \in [id : {0} \cup Procs, adopted : BOOLEAN, exited : BOOLEAN, marked : BOOLEAN]
    /\ life \in [Procs -> {"unborn", "boot", "trade", "ending", "gone", "killed"}]
    /\ lockFile \in {0} \cup Procs
    /\ snapshot \in [pid : {0} \cup Procs, version : Versions, fresh : BOOLEAN, stopping : BOOLEAN,
                   exited : BOOLEAN]

(* Launches that were accepted and that the main thread has not settled.      *)
OpenLaunches ==
    {c \in Calls : /\ calls[c].kind = "start"
                   /\ \/ calls[c].step = "decided"
                      \/ c = holding
                      \/ \E i \in DOMAIN launchQueue : launchQueue[i] = c}

(* One launch at a time: submit() of any number of HTTP threads, a robot that *)
(* recovers a contour by itself and answers that come late leave at most one  *)
(* accepted launch open, and it is the one LaunchControl knows as pending.    *)
OneLaunch ==
    (Up /\ main # "close") => OpenLaunches = {ctl.pending} \ {NoCall}

(* If-Match: a command that made a generation, whenever it was applied, made  *)
(* the one after the revision its sender had read; and what was refused made   *)
(* none, neither before nor after its answer.                                 *)
AppliedAsExpected ==
    \A c \in Calls : calls[c].made # 0 =>
        /\ calls[c].expected # AnyRevision => calls[c].made = calls[c].expected + 1
        /\ calls[c].answer # "refused"

(* While the main thread waits for a command it names no process of the       *)
(* contour: the last one has been reported as ended.                          *)
WaitsWithoutPid == main \in {"await", "resolve"} /\ (proc.marked \/ proc.id = 0) => ctl.pid = 0
=============================================================================
