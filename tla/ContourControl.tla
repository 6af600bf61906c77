--------------------------- MODULE ContourControl ---------------------------
(***************************************************************************)
(* How the process of the emulation contour follows the desired state the  *)
(* core keeps in core.sqlite3 (src/src/assembly/contour_control.py): the   *)
(* stop modes, the membership of instruments, and what survives a crash of *)
(* the process or of the core.                                             *)
(*                                                                         *)
(* Three records outlive the contour's process: the desired state, written *)
(* only by the core; the row contour_state in the contour's own journal;   *)
(* and status.json, the snapshot the core reads.  Everything in "mem" is   *)
(* lost with the process.  A tick is: before_tick (read and apply),        *)
(* execution of the bars, after_tick (count, retire, finish), and the      *)
(* analysis that admits new entries.                                       *)
(***************************************************************************)
EXTENDS Integers, FiniteSets

CONSTANTS
  Keys,           \* instruments
  MaxGeneration,  \* bound: generations of the desired state
  Faults,         \* the failures that may happen, a subset of FaultKinds
  OrphanLaunch,   \* may a launch leave out an instrument with a live trade?
  LiveGuard       \* live_dispatch: is a delivery checked against the step it is in?

FaultKinds == {"contour", "core", "start read", "tick read"}

ASSUME KeysAssumption == IsFiniteSet(Keys) /\ Keys # {}
ASSUME MaxGenerationAssumption == MaxGeneration \in Nat
ASSUME FaultsAssumption == Faults \subseteq FaultKinds
ASSUME OrphanLaunchAssumption == OrphanLaunch \in BOOLEAN
ASSUME LiveGuardAssumption == LiveGuard \in BOOLEAN

VARIABLES
  desired,  \* core.sqlite3: contours and contour_members
  applied,  \* contour_state: the generation and state last saved
  status,   \* status.json: state and members of the last snapshot
  core,     \* the core process: "down", "up", "stopping"
  beat,     \* its heartbeat as a reader finds it: "running", "silent", "stopped"
  phase,    \* the contour's process: where in its tick it is
  read,     \* the desired state before_tick holds between its steps
  mem,      \* its memory: ContourControl and the trade manager's blocks
  roster,   \* instruments in its cycle (bot._instruments)
  trade,    \* journal: the trade of each instrument
  orders    \* journal: open CANCEL orders of an entry, CLOSE orders of a position

coreVars  == <<desired, core, beat>>
fileVars  == <<applied, status>>
tradeVars == <<trade, orders>>
vars == <<coreVars, fileVars, phase, read, mem, roster, tradeVars>>

StopModes   == {"no_entries", "close_all"}
Modes       == {"on"} \cup StopModes
States      == {"running", "stopping_no_entries", "stopping_close_all", "stopped"}
MemberGoals == {"absent", "active"} \cup StopModes
\* "warmed": the core was told what the instrument needs, its pairs are not ready.
MemberStates == {"none", "warming", "warmed", "trading", "draining", "closing"}
Holders     == {"none", "pending", "open"}

\* "launched": the core recorded a launch and has not started the process;
\* "save": before_tick applied a generation and has not written contour_state.
Phases  == {"down", "launched", "boot", "idle", "save", "exec", "analysis"}
Running == {"boot", "idle", "save", "exec", "analysis"}

\* A bug: the prefix should_run looks for is missing.
BareStateOf(mode) == IF mode = "on" THEN "running" ELSE mode

\* ContourControl._apply.
StateOf(mode) == CASE mode = "on" -> "running"
                   [] mode = "no_entries" -> "stopping_no_entries"
                   [] mode = "close_all" -> "stopping_close_all"

Members(d) == {k \in Keys : d.members[k] # "absent"}
Launched   == desired.generation > 0
Held       == {k \in Keys : trade[k] # "none"}

\* ContourControl.__init__ and the manager's blocks of a new process.
Fresh == [generation |-> 0, mode |-> "on", state |-> "running",
          members |-> [k \in Keys |-> "none"],
          stops |-> [k \in Keys |-> "none"],
          link |-> "ok", hold |-> FALSE, stop |-> FALSE]

NoRead == [generation |-> -1]
NoStatus == [state |-> "none", members |-> {}]

Init ==
  /\ desired = [generation |-> 0, mode |-> "on", members |-> [k \in Keys |-> "absent"]]
  /\ applied = [generation |-> 0, state |-> "running"]
  /\ status = NoStatus
  /\ core = "up" /\ beat = "running"
  /\ phase = "down" /\ read = NoRead /\ mem = Fresh /\ roster = {}
  /\ trade = [k \in Keys |-> "none"]
  /\ orders = [k \in Keys |-> 0]

-----------------------------------------------------------------------------
(* The core: commands, and its own life.                                   *)

\* CoreStateStore.record_launch: a new generation, running, with a new set of
\* members.  The core starts no process while the contour's is alive.
RecordLaunch(S) ==
  /\ core = "up" /\ phase = "down"
  /\ desired.generation < MaxGeneration
  /\ OrphanLaunch \/ Held \subseteq S
  /\ desired' = [generation |-> desired.generation + 1, mode |-> "on",
                 members |-> [k \in Keys |-> IF k \in S THEN "active" ELSE "absent"]]
  /\ phase' = "launched" /\ roster' = S
  /\ UNCHANGED <<core, beat, fileVars, mem, tradeVars, read>>

\* CoreStateStore.record_stop: a mode replaces "on" or the weaker mode only.
RecordStop(mode) ==
  /\ core = "up" /\ phase \in Running
  /\ desired.generation < MaxGeneration
  /\ desired.mode # mode /\ desired.mode # "close_all"
  /\ desired' = [desired EXCEPT !.mode = mode, !.generation = @ + 1]
  /\ UNCHANGED <<core, beat, fileVars, phase, mem, roster, tradeVars, read>>

\* CoreStateStore._membership with add: a new member or one returned.
AddMember(k) ==
  /\ core = "up" /\ phase \in Running /\ desired.mode = "on"
  /\ desired.generation < MaxGeneration
  /\ desired.members[k] # "active"
  /\ desired' = [desired EXCEPT !.members[k] = "active", !.generation = @ + 1]
  /\ UNCHANGED <<core, beat, fileVars, phase, mem, roster, tradeVars, read>>

\* CoreStateStore._membership with remove: close_all may replace no_entries,
\* never the other way round.
RemoveMember(k, mode) ==
  /\ core = "up" /\ phase \in Running /\ desired.mode = "on"
  /\ desired.generation < MaxGeneration
  /\ \/ desired.members[k] = "active"
     \/ desired.members[k] = "no_entries" /\ mode = "close_all"
  /\ desired' = [desired EXCEPT !.members[k] = mode, !.generation = @ + 1]
  /\ UNCHANGED <<core, beat, fileVars, phase, mem, roster, tradeVars, read>>

\* _start_contour_process: launch.json names the roster, then Popen.
StartProcess ==
  /\ core = "up" /\ phase = "launched"
  /\ phase' = "boot" /\ mem' = Fresh
  /\ UNCHANGED <<coreVars, fileVars, roster, tradeVars, read>>

\* should_run: running is wanted, or a stop had not come to "stopped".
ShouldRun ==
  /\ Launched
  /\ \/ desired.mode = "on"
     \/ status.state \in {"stopping_no_entries", "stopping_close_all"}

\* autostart_members: the active ones and the removed ones still held.
AutostartMembers ==
  {k \in Members(desired) : \/ desired.members[k] = "active"
                            \/ status = NoStatus
                            \/ k \in status.members}

Autostarts == phase = "down" /\ ShouldRun /\ Members(desired) # {}

\* _run_robot and _recover_contour: the pulse first, then the contour's fate.  A
\* live contour is adopted as it is.
CoreStart ==
  /\ core = "down"
  /\ core' = "up" /\ beat' = "running"
  /\ phase' = IF Autostarts THEN "launched" ELSE phase
  /\ roster' = IF Autostarts THEN AutostartMembers ELSE roster
  /\ UNCHANGED <<desired, fileVars, mem, tradeVars, read>>

\* Ctrl+C: CorePulseWriter.stop, then ContourProcess.stop tells the contour.
CoreStop ==
  /\ "core" \in Faults /\ core = "up"
  /\ core' = "stopping" /\ beat' = "stopped"
  /\ phase' = IF phase = "launched" THEN "down" ELSE phase
  /\ mem' = IF phase \in Running THEN [mem EXCEPT !.stop = TRUE] ELSE mem
  /\ UNCHANGED <<desired, fileVars, roster, tradeVars, read>>

CoreStopped ==
  /\ core = "stopping" /\ phase = "down"
  /\ core' = "down"
  /\ UNCHANGED <<desired, beat, fileVars, phase, mem, roster, tradeVars, read>>

\* kill -9 or a power cut of the core alone.
CoreCrash ==
  /\ "core" \in Faults /\ core # "down"
  /\ core' = "down"
  /\ phase' = IF phase = "launched" THEN "down" ELSE phase
  /\ UNCHANGED <<desired, beat, fileVars, mem, roster, tradeVars, read>>

\* No beat for heartbeat_timeout_secs.
BeatAges ==
  /\ core = "down" /\ beat = "running"
  /\ beat' = "silent"
  /\ UNCHANGED <<desired, core, fileVars, phase, mem, roster, tradeVars, read>>

-----------------------------------------------------------------------------
(* Applying the desired state.                                             *)

\* A bug: no look at the orders already open (_open_order).
StopTradesAgain(old, mode, keys) ==
  [k \in Keys |->
     IF /\ k \in keys
        /\ \/ trade[k] = "pending"
           \/ trade[k] = "open" /\ mode = "close_all"
     THEN IF old[k] = 2 THEN 2 ELSE old[k] + 1 ELSE old[k]]

\* TradeManager._stop_trades over a set of instruments: one CANCEL of a waiting
\* entry, with close_all one CLOSE of a position; none while one is open.
StopTrades(old, mode, keys) ==
  [k \in Keys |->
     IF /\ k \in keys /\ old[k] = 0
        /\ \/ trade[k] = "pending"
           \/ trade[k] = "open" /\ mode = "close_all"
     THEN 1 ELSE old[k]]

\* TradeManager.stop_contour.
StopContour(old, mode) == IF mode = "on" THEN old ELSE StopTrades(old, mode, Keys)

\* _activate and _deactivate for one member of the desired state.
MemberNext(k, goal, m) ==
  LET now == IF m.members[k] = "none" /\ k \in roster THEN "trading" ELSE m.members[k]
  IN CASE goal = "absent" -> m.members[k]
       [] goal = "active" /\ now = "none" -> "warming"
       [] goal = "active" /\ now \in {"draining", "closing"} -> "trading"
       [] goal = "active" /\ now \in {"warming", "warmed", "trading"} -> now
       [] goal \in StopModes /\ now \in {"none", "warming", "warmed"} -> "none"
       [] goal = "no_entries" /\ now \in {"trading", "draining", "closing"} -> "draining"
       [] goal = "close_all" /\ now \in {"trading", "draining", "closing"} -> "closing"

\* TradeManager.stop_instrument, called by _activate with None and by
\* _deactivate with the mode, on every boundary.
StopNext(k, goal, m) ==
  CASE MemberNext(k, goal, m) \in {"draining", "closing"} /\ goal # "absent" -> goal
    [] m.members[k] \in {"draining", "closing"} /\ goal = "active" -> "none"
    [] OTHER -> m.stops[k]

\* _apply_members: the memory after it, before _progress_warming.
WithMembers(m, d) ==
  [m EXCEPT !.members = [k \in Keys |-> MemberNext(k, d.members[k], m)],
            !.stops = [k \in Keys |-> StopNext(k, d.members[k], m)]]

\* The instruments _deactivate takes out of the cycle before they traded.
Dropped(m, d) == {k \in Keys : m.members[k] \in {"warming", "warmed"} /\ d.members[k] \in StopModes}

\* The orders _apply_members submits for the removed instruments.
StopMembers(old, m, d) ==
  [k \in Keys |->
     IF MemberNext(k, d.members[k], m) \in {"draining", "closing"} /\ d.members[k] \in StopModes
     THEN StopTrades(old, d.members[k], {k})[k] ELSE old[k]]

\* _progress_warming: the core is told first; "ready" are the instruments whose
\* pairs are warm, or whose warm_timeout has passed.
Progress(m, ready) ==
  [m EXCEPT !.members = [k \in Keys |->
     CASE m.members[k] = "warming" -> "warmed"
       [] m.members[k] = "warmed" /\ k \in ready -> "trading"
       [] OTHER -> m.members[k]]]

Warmed(m) == {k \in Keys : m.members[k] = "warmed"}

\* A bug: the mode is not remembered.
WithState(m, d) == [m EXCEPT !.state = StateOf(d.mode), !.generation = d.generation]

\* _apply: the stop goes to the manager, then the generation is remembered.
WithDesired(m, d) ==
  [m EXCEPT !.mode = d.mode, !.state = StateOf(d.mode), !.generation = d.generation]

Snapshot(m) == [state |-> m.state, members |-> {k \in Keys : m.members[k] # "none"}]

-----------------------------------------------------------------------------
(* The contour's process.                                                  *)

\* A bug: start() leaves a generation it has already applied alone.
BootResumes ==
  /\ phase = "boot"
  /\ LET m == IF applied.generation = desired.generation
              THEN [mem EXCEPT !.generation = applied.generation]
              ELSE WithDesired(mem, desired)
         n == WithMembers(m, desired)
     IN /\ mem' = n
        /\ orders' = StopMembers(orders, m, desired)
        /\ applied' = [applied EXCEPT !.generation = m.generation]
        /\ status' = Snapshot(n)
  /\ phase' = "idle"
  /\ UNCHANGED <<coreVars, read, roster, trade>>

\* ContourControl.start: the generation comes from contour_state, and the
\* desired state is applied even when it is the same generation.
Boot ==
  /\ phase = "boot"
  /\ LET m == WithDesired(mem, desired)
         n == WithMembers(m, desired)
     IN /\ mem' = n
        /\ orders' = StopMembers(StopContour(orders, desired.mode), m, desired)
        /\ applied' = [generation |-> desired.generation, state |-> m.state]
        /\ status' = Snapshot(n)
  /\ phase' = "idle"
  /\ UNCHANGED <<coreVars, read, roster, trade>>

\* start() when core.sqlite3 cannot be read: only the generation is known.
BootUnread ==
  /\ "start read" \in Faults /\ phase = "boot"
  /\ mem' = [mem EXCEPT !.generation = applied.generation]
  /\ status' = Snapshot(mem')
  /\ phase' = "idle"
  /\ UNCHANGED <<coreVars, applied, read, roster, tradeVars>>

\* TradingBot._loop_live: the flag is read at the boundary of a tick.
TickBegins == phase = "idle" /\ ~mem.stop

\* hold_entries: the link of the last pulse check becomes the manager's block.
Linked(m) == [m EXCEPT !.hold = (m.link = "lost")]

\* before_tick with a new generation: applied in memory, its orders submitted,
\* and not yet saved.
ApplyGeneration ==
  /\ TickBegins /\ desired.generation # mem.generation
  /\ read' = desired
  /\ mem' = WithDesired(Linked(mem), desired)
  /\ orders' = StopContour(orders, desired.mode)
  /\ phase' = "save"
  /\ UNCHANGED <<coreVars, fileVars, roster, trade>>

\* _apply_members and _progress_warming with the desired state d read before.
ApplyMembers(m, old, d) ==
  LET n == WithMembers(m, d)
  IN \E ready \in SUBSET Warmed(n) :
       /\ mem' = Progress(n, ready)
       /\ roster' = (roster \ Dropped(m, d)) \cup ready
       /\ orders' = StopMembers(old, m, d)

\* ContourControl._save, then the members.
SaveGeneration ==
  /\ phase = "save"
  /\ applied' = [generation |-> mem.generation, state |-> mem.state]
  /\ ApplyMembers(mem, orders, read)
  /\ read' = NoRead
  /\ phase' = "exec"
  /\ UNCHANGED <<coreVars, status, trade>>

\* before_tick with the generation it has: the stop is repeated until nothing is
\* left, because an entry may have filled or a closing may have been refused.
RepeatStop ==
  /\ TickBegins /\ desired.generation = mem.generation
  /\ ApplyMembers(Linked(mem), StopContour(orders, mem.mode), desired)
  /\ phase' = "exec"
  /\ UNCHANGED <<coreVars, fileVars, read, trade>>

\* before_tick when core.sqlite3 cannot be read: what is known goes on.
TickUnread ==
  /\ "tick read" \in Faults /\ TickBegins
  /\ mem' = Linked(mem)
  /\ orders' = StopContour(orders, mem.mode)
  /\ phase' = "exec"
  /\ UNCHANGED <<coreVars, fileVars, read, roster, trade>>

-----------------------------------------------------------------------------
(* Execution: bars are simulated for the instruments in the cycle only.    *)

Executes(k, holder) == phase = "exec" /\ trade[k] = holder

Becomes(k, holder) ==
  /\ trade' = [trade EXCEPT ![k] = holder]
  /\ orders' = [orders EXCEPT ![k] = 0]
  /\ UNCHANGED <<coreVars, fileVars, read, phase, mem, roster>>

\* before_tick runs before on_bar notes the beginning of the step, so to the guard
\* every command of the stop was created before the step that could deliver it:
\* freshness-unconfirmed.
Delivered(k) == orders[k] > 0 /\ ~LiveGuard

\* The bar fills the entry; an open CANCEL is refused: trade-already-open.
EntryFills(k)    == Executes(k, "pending") /\ k \in roster /\ Becomes(k, "open")
\* Its CANCEL, by the stop or by entry-timeout, or the local withdrawal of an
\* entry the broker never got.
EntryEnds(k)     == Executes(k, "pending") /\ Becomes(k, "none")
\* A CLOSE is executed at the next bar of its instrument.
CloseFills(k)    == Executes(k, "open") /\ Delivered(k) /\ k \in roster /\ Becomes(k, "none")
\* stale-state-revision, trade-not-open.
CloseRefused(k)  == Executes(k, "open") /\ Delivered(k) /\ Becomes(k, "open")
\* Stop or target of the plan, a close of its profile, the contract's expiry.
PositionExits(k) == Executes(k, "open") /\ k \in roster /\ Becomes(k, "none")

\* A bug: only open positions keep an instrument.
DrainedOfPositions == {k \in Keys : mem.members[k] \in {"draining", "closing"} /\ trade[k] # "open"}

\* _retire_drained: a removed instrument without trades leaves the cycle.
Drained == {k \in Keys : mem.members[k] \in {"draining", "closing"} /\ trade[k] = "none"}

Retired(m) ==
  [m EXCEPT !.members = [k \in Keys |-> IF k \in Drained THEN "none" ELSE m.members[k]],
            !.stops = [k \in Keys |-> IF k \in Drained THEN "none" ELSE m.stops[k]]]

\* A bug: waiting entries are not counted.
EmptyOfPositions == \A k \in Keys : trade[k] # "open"

\* contour_remainder: positions and entries of the whole journal.
Empty == \A k \in Keys : trade[k] = "none"

Finishes == mem.mode # "on" /\ mem.state # "stopped" /\ Empty

\* after_tick.
AfterTick ==
  /\ phase = "exec"
  /\ mem' = IF Finishes
            THEN [Retired(mem) EXCEPT !.state = "stopped", !.stop = TRUE]
            ELSE Retired(mem)
  /\ roster' = roster \ Drained
  /\ applied' = IF Finishes THEN [generation |-> mem.generation, state |-> "stopped"] ELSE applied
  /\ status' = Snapshot(mem')
  /\ phase' = "analysis"
  /\ UNCHANGED <<coreVars, read, tradeVars>>

\* _entry_block: the three blocks of a new entry.
Allowed(k) == mem.mode = "on" /\ mem.stops[k] = "none" /\ ~mem.hold

\* actions_for_signal: an instrument of the cycle enters.
Admit(k) ==
  /\ phase = "analysis" /\ k \in roster /\ trade[k] = "none" /\ Allowed(k)
  /\ trade' = [trade EXCEPT ![k] = "pending"]
  /\ UNCHANGED <<coreVars, fileVars, read, phase, mem, roster, orders>>

TickEnds ==
  /\ phase = "analysis"
  /\ phase' = "idle"
  /\ UNCHANGED <<coreVars, fileVars, read, mem, roster, tradeVars>>

\* The loop leaves between ticks, on the flag.
Exit ==
  /\ phase = "idle" /\ mem.stop
  /\ phase' = "down" /\ mem' = Fresh /\ roster' = {}
  /\ UNCHANGED <<coreVars, fileVars, read, tradeVars>>

\* The process dies, or the stopping core kills it after STOP_TIMEOUT_SECS.
Crash ==
  /\ phase \in Running /\ ("contour" \in Faults \/ core = "stopping")
  /\ phase' = "down" /\ mem' = Fresh /\ roster' = {} /\ read' = NoRead
  /\ UNCHANGED <<coreVars, fileVars, tradeVars>>

\* CorePulse.check, on its own thread.
PulseCheck ==
  /\ phase \in Running
  /\ mem' = CASE beat = "stopped" -> [mem EXCEPT !.stop = TRUE]
              [] beat = "running" -> [mem EXCEPT !.link = "ok"]
              [] beat = "silent" -> [mem EXCEPT !.link = "lost"]
  /\ UNCHANGED <<coreVars, fileVars, read, phase, roster, tradeVars>>

-----------------------------------------------------------------------------
Commands ==
  \/ \E S \in SUBSET Keys \ {{}} : RecordLaunch(S)
  \/ \E mode \in StopModes : RecordStop(mode)
  \/ \E k \in Keys : AddMember(k)
  \/ \E k \in Keys, mode \in StopModes : RemoveMember(k, mode)

CoreSteps == StartProcess \/ CoreStart \/ CoreStop \/ CoreStopped \/ CoreCrash \/ BeatAges

BeforeTick == ApplyGeneration \/ SaveGeneration \/ RepeatStop \/ TickUnread

Execution ==
  \E k \in Keys : EntryFills(k) \/ EntryEnds(k) \/ CloseFills(k) \/ CloseRefused(k) \/ PositionExits(k)

ContourSteps ==
  \/ Boot \/ BootUnread \/ BeforeTick \/ Execution \/ AfterTick
  \/ (\E k \in Keys : Admit(k)) \/ TickEnds \/ Exit \/ Crash \/ PulseCheck

Next == Commands \/ CoreSteps \/ ContourSteps

Spec == Init /\ [][Next]_vars

\* The process runs its tick; a read that keeps succeeding now and then, an entry
\* whose time runs out, and a broker that executes an order it keeps being given.
Fairness ==
  /\ WF_vars(StartProcess) /\ WF_vars(Boot)
  /\ SF_vars(ApplyGeneration) /\ WF_vars(SaveGeneration) /\ SF_vars(RepeatStop)
  /\ WF_vars(AfterTick) /\ WF_vars(TickEnds) /\ WF_vars(Exit)
  /\ \A k \in Keys : SF_vars(EntryEnds(k)) /\ SF_vars(CloseFills(k))

FairSpec == Spec /\ Fairness

\* Every position comes to its stop, its target or the expiry of its contract.
EndingSpec == FairSpec /\ \A k \in Keys : SF_vars(PositionExits(k))

-----------------------------------------------------------------------------
(* Properties.                                                             *)

TypeOK ==
  /\ desired \in [generation : 0..MaxGeneration, mode : Modes,
                  members : [Keys -> MemberGoals]]
  /\ applied \in [generation : 0..MaxGeneration, state : States]
  /\ status \in [state : States \cup {"none"}, members : SUBSET Keys]
  /\ core \in {"down", "up", "stopping"}
  /\ beat \in {"running", "silent", "stopped"}
  /\ phase \in Phases
  /\ mem \in [generation : 0..MaxGeneration, mode : Modes, state : States,
              members : [Keys -> MemberStates], stops : [Keys -> {"none"} \cup StopModes],
              link : {"ok", "lost"}, hold : BOOLEAN, stop : BOOLEAN]
  /\ read \in [generation : 0..MaxGeneration, mode : Modes,
               members : [Keys -> MemberGoals]] \cup {NoRead}
  /\ roster \in SUBSET Keys
  /\ trade \in [Keys -> Holders]
  /\ orders \in [Keys -> 0..2]

\* Once contour_state says "stopped" for the desired generation, the journal
\* holds no trade and gets none until the next launch (after_tick writes it
\* before the analysis of the same tick).
StoppedIsFlat ==
  applied.state = "stopped" /\ applied.generation = desired.generation => Held = {}

\* An instrument with a live trade is in the cycle of the process that ticks:
\* through removal, retirement, restarts and the choice of members of
\* autostart_members (orchestration/spec.md, "Контур меняет состав").
HeldInCycle ==
  phase \in Running => Held \subseteq roster

\* Of one trade at most one CANCEL or CLOSE is open, although every boundary
\* and every restart repeats the stop.
OneStopOrder == \A k \in Keys : orders[k] <= 1

\* A process that knows the desired generation admits an entry only for an
\* active member of a contour that is to run, restarts included.
EntryNeedsGoal ==
  [][\A k \in Keys :
       trade[k] = "none" /\ trade'[k] = "pending" /\ mem.generation = desired.generation
       => desired.mode = "on" /\ desired.members[k] = "active"]_vars

\* A close_all the contour lives to apply ends with an empty journal and the
\* exit of the process, once the trades have come to their own ends.
CloseAllFinishes ==
  (desired.mode = "close_all" /\ phase \in Running) ~> (phase = "down" /\ Held = {})

\* An instrument removed with close_all ends without a trade and outside the
\* cycle, unless it is returned (contour_control.py, _deactivate to _retire_drained).
RemovedLeaves ==
  \A k \in Keys :
    (desired.members[k] = "close_all" /\ phase \in Running)
    ~> (trade[k] = "none" /\ k \notin roster) \/ desired.members[k] = "active"

\* orchestration/spec.md, "Остановка «закрыть всё»": the open positions are
\* closed, whether or not their stop or target is ever reached.
CloseAllCloses == (desired.mode = "close_all" /\ phase \in Running) ~> phase = "down"
=============================================================================
