--------------------------- MODULE TradeExecution ---------------------------
(***************************************************************************)
(* One trade of the emulation contour, from its entry to its last          *)
(* execution: the journal (src/src/trade_journal, SQLite), the simulated   *)
(* broker (src/src/broker/journal_broker.py, in memory), and the live step *)
(* that carries commands from the first to the second and executions back  *)
(* (src/src/trade_management/manager.py, src/src/assembly/contour.py).     *)
(*                                                                         *)
(* The trade is a BUY of algorithm economics-v2: every increase is a limit *)
(* order; a SELL is its mirror image.  A step of the process is: withdraw  *)
(* the increases an earlier step left unsent, simulate every closed bar    *)
(* and journal its executions, then decide, queue and deliver commands.    *)
(* The process may die between any two transactions of the journal, and a  *)
(* transaction may fail.  The simulation of one bar is in memory only; its *)
(* stages are separate actions of a process that does nothing else.        *)
(***************************************************************************)
EXTENDS Integers, Sequences, FiniteSets

CONSTANTS
  MaxCommands,  \* bound: commands the trade may have
  MaxBars,      \* bound: bars that close
  MaxFaults,    \* bound: deaths of the process and failed writes
  Bars,         \* the bars that may close: [open, low, high]
  Delays,       \* bars that may begin between a command's bar and its delivery
  EntrySize, AddSize,    \* contracts of the entry and of an addition
  EntryLimit, AddLimit,  \* their limit prices
  EntryStop, AddStop,    \* the stop the average price implies after each
  StopLevels,   \* prices the profile may move the stop to
  TargetPrice,  \* its only target, half of what was entered
  Ttl           \* bars a limit order waits

ASSUME BoundsAssumption == MaxCommands \in Nat /\ MaxBars \in Nat /\ MaxFaults \in Nat
ASSUME BarsAssumption ==
  /\ Bars \subseteq [open : Nat, low : Nat, high : Nat]
  /\ \A b \in Bars : b.low <= b.open /\ b.open <= b.high
ASSUME DelaysAssumption == Delays \subseteq Nat
ASSUME SizesAssumption == EntrySize \in Nat \ {0} /\ AddSize \in Nat \ {0}
ASSUME PricesAssumption ==
  /\ {EntryLimit, AddLimit, EntryStop, AddStop, TargetPrice} \subseteq Nat \ {0}
  /\ StopLevels \subseteq Nat \ {0}
  /\ EntryStop <= AddStop /\ AddStop < AddLimit /\ EntryStop < EntryLimit
ASSUME TtlAssumption == Ttl \in Nat \ {0}

VARIABLES
  bars,     \* the market: the bars closed so far
  trade,    \* journal: the row of the trade, its position, stop and target
  order,    \* journal: orders, outbox and reservations, by command
  applied,  \* journal: ids of the executions applied (events.event_id)
  broker,   \* memory: the broker's trade, its schedule and its answers
  queue,    \* memory: events of the broker nobody has drained
  due,      \* memory: scheduled commands the bar in hand takes up
  batch,    \* memory: pending_bar, the drained events of the bar in hand
  done,     \* memory: how many of them this attempt has consumed
  cursor,   \* memory: execution_cursors, the last bar committed
  fresh,    \* memory: commands queued since intent_since
  inflight, \* memory: the command between claim and answer, and the answer
  pc,       \* where the step is
  faults,   \* deaths and failed writes so far
  cut       \* history: what a failure has come between

journal == <<trade, order, applied>>
memory  == <<broker, queue, due, batch, done, cursor, fresh, inflight>>
vars    == <<bars, journal, memory, pc, faults, cut>>

Commands  == 1..MaxCommands
Increases == {"OPEN", "ADD"}
Exits     == {"CLOSE", "REDUCE"}
Kinds     == Increases \cup Exits \cup {"MOVESTOP", "CANCEL"}

\* Command ids of the broker's own closes (":pv:stop", ":pv:tp").
StopHit   == 0
TargetHit == -1

Manageable == {"OPEN", "BUILDING", "REDUCING"}
Finished   == {"CLOSED", "CANCELLED", "REJECTED"}
Live       == Manageable \cup {"ENTRY_PENDING"}
Waiting    == {"PENDING", "ACK"}

\* The stages of one simulated bar, in their order.
Simulating == {"moves", "opens", "limits"}
Steps == Simulating \cup {"down", "idle", "withdraw", "commit", "confirm",
                          "work", "sent", "answer"}

Event(cmd, status, qty, bar, price) ==
  [cmd |-> cmd, status |-> status, qty |-> qty, bar |-> bar, price |-> price]
NoEvent == Event(0, "none", 0, 0, 0)

Kind(c) == IF c = StopHit THEN "STOP" ELSE IF c = TargetHit THEN "TARGET" ELSE order[c].kind

\* execution_id: an execution on a bar carries the bar's time, an answer to a
\* command and a fill of an exit do not.
ExecutionId(e) ==
  <<e.cmd, e.status,
    IF \/ e.status = "ACTIVE"
       \/ e.status = "FILL" /\ Kind(e.cmd) \in Increases \cup {"STOP", "TARGET"}
    THEN e.bar ELSE 0>>

Larger(a, b) == IF a < b THEN b ELSE a
First(c, S) == c \in S /\ \A d \in S : c <= d
Of(S, kinds) == {c \in S : order[c].kind \in kinds}

NoOrder == [kind |-> "none", status |-> "none", outbox |-> "none", rev |-> 0,
            size |-> 0, filled |-> 0, level |-> 0, since |-> 0,
            reserved |-> FALSE, late |-> FALSE]
NoTrade == [phase |-> "none", rev |-> 0, qty |-> 0, entered |-> 0, taken |-> 0,
            stop |-> 0, moving |-> 0, increased |-> 0, paid |-> 0,
            executed |-> 0, observed |-> 0]
NoBroker == [known |-> FALSE, rev |-> 0, qty |-> 0, entered |-> 0, taken |-> 0,
             stop |-> 0, opened |-> 0, paid |-> 0, sched |-> {},
             since |-> [c \in Commands |-> 0],
             answer |-> [c \in Commands |-> "none"]]

Init ==
  /\ bars = <<>> /\ faults = 0 /\ cut = {}
  /\ trade = NoTrade /\ applied = {} /\ order = [c \in Commands |-> NoOrder]
  /\ broker = NoBroker /\ queue = <<>> /\ due = {} /\ batch = <<>> /\ done = 0
  /\ cursor = 0 /\ fresh = {} /\ inflight = NoEvent /\ pc = "idle"

-----------------------------------------------------------------------------
(* The market.                                                             *)

\* A bar closes while the process waits for it, or while it is down.  Bars before
\* the plan, or after the end with nothing scheduled, concern nobody.
BarCloses(b) ==
  /\ pc \in {"idle", "down"} /\ Len(bars) < MaxBars
  /\ trade.phase \in Live \/ broker.sched # {}
  /\ bars' = Append(bars, b)
  /\ UNCHANGED <<journal, memory, pc, faults, cut>>

-----------------------------------------------------------------------------
(* The reducer: one event, one transaction (ExecutionReducer.apply).       *)

Share(entered) == entered \div 2

Reduces(e) == e.status = "FILL" /\ Kind(e.cmd) \notin Increases

\* apply_fill and _update_target: nothing is taken that the position does not hold.
Held(e) ==
  Reduces(e) => /\ e.qty <= trade.qty
                /\ e.cmd = TargetHit => trade.taken + e.qty <= Share(trade.entered)

\* An order is not filled beyond its quantity; the broker's own closes have an
\* order made for them.
WithinOrder(e) ==
  e.status = "FILL" /\ e.cmd \in Commands => order[e.cmd].filled + e.qty <= order[e.cmd].size

Applicable(e) == Held(e) /\ WithinOrder(e)
Applied(e) == ExecutionId(e) \in applied

\* A bug: the side of the order is not looked at.
LeftAsSold(e) == trade.qty - e.qty

\* A bug: a reduction is taken for a close.
LeftByClose(e) == IF Kind(e.cmd) \in Increases THEN trade.qty + e.qty ELSE 0

\* apply_fill: what a fill leaves.
Left(e) == IF Kind(e.cmd) \in Increases THEN trade.qty + e.qty ELSE trade.qty - e.qty

\* _update_phase, after a fill that leaves q.
PhaseAfterFill(e, q) ==
  LET kind == Kind(e.cmd) IN
  CASE kind \in Increases /\ trade.phase = "REDUCING" -> "REDUCING"
    [] kind = "OPEN" /\ trade.phase # "REDUCING" -> "OPEN"
    [] kind = "ADD" /\ trade.phase # "REDUCING" -> "BUILDING"
    [] kind \in {"REDUCE", "TARGET"} -> IF q > 0 THEN "REDUCING" ELSE "CLOSED"
    [] kind \in {"CLOSE", "STOP"} -> IF q > 0 THEN trade.phase ELSE "CLOSED"

\* _states, _write_states, _measure_position, _update_target, _update_phase.
TradeAfterFill(e) ==
  LET kind == Kind(e.cmd)
      grows == kind \in Increases
      q == Left(e)
      basis == IF kind = "OPEN" THEN EntryStop ELSE AddStop
  IN [trade EXCEPT
        !.phase = PhaseAfterFill(e, q),
        !.rev = IF kind \in {"CLOSE", "STOP"} /\ q > 0 THEN @ ELSE @ + 1,
        !.qty = q,
        !.entered = IF grows THEN @ + e.qty ELSE @,
        !.taken = IF e.cmd = TargetHit THEN @ + e.qty ELSE @,
        !.stop = IF grows THEN Larger(@, basis) ELSE @,
        !.increased = IF grows THEN e.bar ELSE @,
        !.paid = IF grows THEN e.price ELSE @,
        !.executed = Larger(@, e.bar)]

\* _update_terminal_outcome: an entry refused, or a cancellation with nothing held.
TradeAfterRefusal(e) ==
  LET kind == Kind(e.cmd)
      phase == IF e.status = "REJECT" /\ kind = "OPEN" THEN "REJECTED" ELSE "CANCELLED"
      ends == \/ e.status = "REJECT" /\ kind = "OPEN"
              \/ kind \in {"OPEN", "CANCEL"} /\ trade.qty = 0
  IN IF ends /\ trade.phase \notin Finished
       THEN [trade EXCEPT !.phase = phase, !.rev = @ + 1]
       ELSE trade

TradeAfter(e) ==
  CASE e.status = "FILL" -> TradeAfterFill(e)
    [] e.status \in {"CANCEL", "REJECT"} -> TradeAfterRefusal(e)
    [] OTHER -> trade

\* A bug: any final answer to any order of the trade releases its reservations.
EndsAlways(e) == e.status \in {"FILL", "CANCEL", "REJECT"}

\* A bug: a trade cancelled by a command of its own keeps its reservation.
EndsOfFill(e) == e.status = "FILL" /\ TradeAfter(e).phase \in Finished

\* _release_reservations_if_terminal.
Ends(e) == e.status \in {"FILL", "CANCEL", "REJECT"} /\ TradeAfter(e).phase \in Finished

\* The order of the event, then the reservations of a trade that ends.
OrderAfter(e, c) ==
  LET o == order[c]
      total == o.filled + e.qty
      own == CASE c # e.cmd -> o
               [] c = e.cmd /\ e.status = "FILL" ->
                    [o EXCEPT !.filled = total,
                              !.status = IF total = o.size THEN "FILLED" ELSE "PARTIAL",
                              !.reserved = @ /\ total # o.size]
               [] c = e.cmd /\ e.status \in {"CANCEL", "REJECT"} ->
                    [o EXCEPT !.status = e.status, !.reserved = FALSE]
               [] c = e.cmd /\ e.status = "ACK" ->
                    [o EXCEPT !.status = "ACK", !.since = e.bar]
               [] c = e.cmd /\ e.status = "ACTIVE" -> [o EXCEPT !.status = "ACK"]
  IN [own EXCEPT !.reserved = @ /\ ~Ends(e)]

Apply(e) ==
  /\ trade' = TradeAfter(e)
  /\ order' = [c \in Commands |-> OrderAfter(e, c)]
  /\ applied' = applied \cup {ExecutionId(e)}

-----------------------------------------------------------------------------
(* A step begins: what an earlier step left unsent is withdrawn            *)
(* (TradeManager.cancel_undelivered_increases).                            *)

Undelivered == {c \in Of(Commands, Increases) :
                  order[c].status = "PENDING" /\ order[c].outbox \in {"PENDING", "UNDELIVERED"}}

\* A bar whose events are not all written comes before the next one.
Executes == IF batch = <<>> THEN "work" ELSE "commit"

StepBegins ==
  /\ pc = "idle"
  /\ pc' = IF Undelivered = {} THEN Executes ELSE "withdraw"
  /\ UNCHANGED <<bars, journal, memory, faults, cut>>

\* mark_outbox_undelivered: one transaction for all of them.
WithdrawMark ==
  /\ pc = "withdraw" /\ \E c \in Undelivered : order[c].outbox = "PENDING"
  /\ order' = [c \in Commands |->
                 IF c \in Undelivered THEN [order[c] EXCEPT !.outbox = "UNDELIVERED"] ELSE order[c]]
  /\ UNCHANGED <<bars, trade, applied, memory, pc, faults, cut>>

WithdrawCancel(c) ==
  /\ pc = "withdraw" /\ c \in Undelivered /\ order[c].outbox = "UNDELIVERED"
  /\ Apply(Event(c, "CANCEL", 0, 0, 0))
  /\ UNCHANGED <<bars, memory, pc, faults, cut>>

WithdrawEnds ==
  /\ pc = "withdraw" /\ Undelivered = {}
  /\ pc' = Executes
  /\ UNCHANGED <<bars, journal, memory, faults, cut>>

Fails == faults < MaxFaults /\ faults' = faults + 1

\* A transaction fails: that is logged and the step goes on.
WithdrawFails ==
  /\ pc = "withdraw" /\ Undelivered # {} /\ Fails
  /\ pc' = Executes
  /\ UNCHANGED <<bars, journal, memory, cut>>

-----------------------------------------------------------------------------
(* One bar in the broker (JournalBroker._track_addressed_bars).  A         *)
(* simulation is the broker with its queue; `rest` is what the bar has     *)
(* still to take up (_processing_due).                                     *)

Sim == [b |-> broker, q |-> queue]

Answered(s, e) ==
  [b |-> [s.b EXCEPT !.answer[e.cmd] = IF e.status = "ACTIVE" THEN "ACK" ELSE e.status],
   q |-> Append(s.q, e)]

\* A bug: the increases the bar has taken up are forgotten.
CancelledInSchedule(s, rest, t) ==
  LET open == {c \in Of(s.b.sched, Increases) : s.b.answer[c] = "ACK"}
      out == IF open = {} THEN s ELSE Answered(s, Event(CHOOSE c \in open : TRUE, "CANCEL", 0, t, 0))
  IN [out EXCEPT !.b.sched = @ \ Of(@, Increases)]

\* _cancel_increases; at most one increase is open (OneOpenIncrease).
Cancelled(s, rest, t) ==
  LET open == {c \in Of(s.b.sched \cup rest, Increases) : s.b.answer[c] \notin {"FILL", "CANCEL", "REJECT"}}
      out == IF open = {} THEN s ELSE Answered(s, Event(CHOOSE c \in open : TRUE, "CANCEL", 0, t, 0))
  IN [out EXCEPT !.b.sched = @ \ Of(@, Increases)]

\* A bug: touching the stop is not enough.
TriggeredBelow(b, low) == b.qty > 0 /\ b.stop # 0 /\ low < b.stop

\* _process_addressed_stop.
Triggered(b, low) == b.qty > 0 /\ b.stop # 0 /\ low <= b.stop
StopOut(s, rest, t, low) ==
  IF ~Triggered(s.b, low) THEN s
  ELSE Cancelled([b |-> [s.b EXCEPT !.qty = 0, !.stop = 0, !.rev = @ + 1],
                  q |-> Append(s.q, Event(StopHit, "FILL", s.b.qty, t, 0))], rest, t)

\* The target loop of _process_addressed_protection.
TakeTarget(s, rest, t, high) ==
  LET left == Share(s.b.entered) - s.b.taken
      n == IF left < s.b.qty THEN left ELSE s.b.qty
  IN IF s.b.qty = 0 \/ high < TargetPrice \/ left <= 0 THEN s
     ELSE Cancelled([b |-> [s.b EXCEPT !.qty = @ - n, !.taken = @ + n, !.rev = @ + 1,
                                       !.stop = IF n = s.b.qty THEN 0 ELSE @],
                     q |-> Append(s.q, Event(TargetHit, "FILL", n, t, 0))], rest, t)

\* A bar that saw an increase fill inside it may only stop, unless the restored
\* fill was at its open.
Protected(s, rest, t, bar) ==
  LET atOpen == s.b.paid # 0 /\ s.b.paid = bar.open
      b == IF s.b.qty > 0 /\ s.b.opened = t /\ atOpen
             THEN [s.b EXCEPT !.opened = 0, !.paid = 0] ELSE s.b
      stopped == StopOut([s EXCEPT !.b = b], rest, t, bar.low)
  IN IF b.opened = t THEN stopped ELSE TakeTarget(stopped, rest, t, bar.high)

\* _execute_action for an increase.
Increased(s, c, t, price, opened) ==
  LET basis == IF order[c].kind = "OPEN" THEN EntryStop ELSE AddStop IN
  IF order[c].kind = "ADD" /\ s.b.qty = 0 THEN Answered(s, Event(c, "REJECT", 0, t, 0))
  ELSE Answered([b |-> [s.b EXCEPT !.qty = @ + order[c].size, !.entered = @ + order[c].size,
                                   !.stop = Larger(@, basis), !.rev = @ + 1, !.opened = opened],
                 q |-> s.q],
                Event(c, "FILL", order[c].size, t, price))

\* _execute_action for a close or a reduction, then the increases are cancelled.
Exited(s, c, rest, t) ==
  LET n == IF order[c].kind = "CLOSE" THEN s.b.qty ELSE order[c].size IN
  IF s.b.qty = 0 \/ n > s.b.qty THEN Answered(s, Event(c, "REJECT", 0, t, 0))
  ELSE Cancelled(Answered([b |-> [s.b EXCEPT !.qty = @ - n, !.rev = @ + 1,
                                             !.stop = IF n = s.b.qty THEN 0 ELSE @],
                           q |-> s.q],
                          Event(c, "FILL", n, t, 0)), rest, t)

\* _execute_action for a stop: active at the bar's open.
Moved(s, c, t) ==
  IF s.b.qty = 0 THEN Answered(s, Event(c, "REJECT", 0, t, 0))
  ELSE Answered([b |-> [s.b EXCEPT !.stop = order[c].level, !.rev = @ + 1], q |-> s.q],
                Event(c, "ACTIVE", 0, t, 0))

Becomes(s) == broker' = s.b /\ queue' = s.q

Simulates == /\ pc \in Simulating
             /\ UNCHANGED <<bars, journal, batch, done, cursor, fresh, inflight, faults, cut>>

Limit(c) == IF order[c].kind = "OPEN" THEN EntryLimit ELSE AddLimit
Expired(c, t) == t >= broker.since[c] + Ttl

\* The next closed bar; what was submitted before it opened is due.
TrackBegins ==
  LET t == cursor + 1
      taken == {c \in broker.sched : broker.since[c] <= t}
  IN /\ pc = "work" /\ cursor < Len(bars)
     /\ due' = taken /\ broker' = [broker EXCEPT !.sched = @ \ taken]
     /\ pc' = "moves"
     /\ UNCHANGED <<bars, journal, queue, batch, done, cursor, fresh, inflight, faults, cut>>

TakeMove(c) ==
  /\ Simulates /\ pc = "moves" /\ First(c, Of(due, {"MOVESTOP"}))
  /\ Becomes(Moved(Sim, c, cursor + 1))
  /\ due' = due \ {c} /\ UNCHANGED pc

\* A gap through the stop wins at the open.
Opening ==
  /\ Simulates /\ pc = "moves" /\ Of(due, {"MOVESTOP"}) = {}
  /\ Becomes(StopOut(Sim, due, cursor + 1, bars[cursor + 1].open))
  /\ pc' = "opens" /\ UNCHANGED due

TakeExit(c) ==
  /\ Simulates /\ pc = "opens" /\ First(c, Of(due, Exits))
  /\ Becomes(Exited(Sim, c, due \ {c}, cursor + 1))
  /\ due' = due \ {c} /\ UNCHANGED pc

\* A limit order the bar opens at or under is filled at the open.
FillAtOpen(c) ==
  LET t == cursor + 1  bar == bars[cursor + 1] IN
  /\ Simulates /\ pc = "opens" /\ Of(due, Exits) = {} /\ c \in due
  /\ broker.answer[c] # "CANCEL" /\ ~Expired(c, t) /\ bar.open <= Limit(c)
  /\ Becomes(Increased(Sim, c, t, bar.open, 0))
  /\ due' = due \ {c} /\ UNCHANGED pc

Protection ==
  LET t == cursor + 1  bar == bars[cursor + 1] IN
  /\ Simulates /\ pc = "opens" /\ Of(due, Exits) = {}
  /\ \A c \in due : broker.answer[c] = "CANCEL" \/ Expired(c, t) \/ bar.open > Limit(c)
  /\ Becomes(Protected(Sim, due, t, bar))
  /\ pc' = "limits" /\ UNCHANGED due

LimitExpires(c) ==
  /\ Simulates /\ pc = "limits" /\ c \in due /\ broker.answer[c] # "CANCEL" /\ Expired(c, cursor + 1)
  /\ Becomes(Answered(Sim, Event(c, "CANCEL", 0, cursor + 1, 0)))
  /\ due' = due \ {c} /\ UNCHANGED pc

LimitWaits(c) ==
  /\ Simulates /\ pc = "limits" /\ c \in due /\ broker.answer[c] # "CANCEL" /\ ~Expired(c, cursor + 1)
  /\ bars[cursor + 1].low > Limit(c)
  /\ broker' = [broker EXCEPT !.sched = @ \cup {c}] /\ due' = due \ {c}
  /\ UNCHANGED <<queue, pc>>

\* A limit order the bar comes down to is filled at its price; the bar may
\* still stop the trade, never reach its target.
FillAtLimit(c) ==
  LET t == cursor + 1
      filled == Increased(Sim, c, t, Limit(c), t)
  IN /\ Simulates /\ pc = "limits" /\ c \in due /\ broker.answer[c] # "CANCEL" /\ ~Expired(c, t)
     /\ bars[t].low <= Limit(c)
     /\ Becomes(IF filled.b.answer[c] = "REJECT" THEN filled
                ELSE StopOut(filled, due \ {c}, t, bars[t].low))
     /\ due' = due \ {c} /\ UNCHANGED pc

\* drain_addressed_events, pending_bar.
Drain ==
  /\ pc = "limits" /\ \A c \in due : broker.answer[c] = "CANCEL"
  /\ batch' = queue /\ queue' = <<>> /\ done' = 0 /\ due' = {}
  /\ pc' = "commit"
  /\ UNCHANGED <<bars, journal, broker, cursor, fresh, inflight, faults, cut>>

-----------------------------------------------------------------------------
(* Journalling the bar's executions (_build_runtime.commit_bar,            *)
(* TradeManager.consume): one transaction each, and one more for a stop.   *)

Upcoming == batch[done + 1]
HasNext == pc = "commit" /\ done < Len(batch)

Consume ==
  /\ HasNext /\ ~Applied(Upcoming) /\ Applicable(Upcoming)
  /\ Apply(Upcoming)
  /\ done' = done + 1
  /\ pc' = IF Upcoming.status = "ACTIVE" THEN "confirm" ELSE "commit"
  /\ UNCHANGED <<bars, broker, queue, due, batch, cursor, fresh, inflight, faults, cut>>

ConsumeAgain ==
  /\ HasNext /\ Applied(Upcoming)
  /\ done' = done + 1
  /\ UNCHANGED <<bars, journal, broker, queue, due, batch, cursor, fresh, inflight, pc, faults, cut>>

\* _confirm_stop, the second transaction of a stop's event.
ConfirmStop ==
  LET e == batch[done] IN
  /\ pc = "confirm"
  /\ trade' = [trade EXCEPT !.stop = order[e.cmd].level, !.moving = 0, !.rev = @ + 1,
                            !.executed = Larger(@, e.bar)]
  /\ pc' = "commit"
  /\ UNCHANGED <<bars, order, applied, memory, faults, cut>>

\* The reducer refuses the event: the step ends, the next begins the batch again.
Refused ==
  /\ HasNext /\ ~Applied(Upcoming) /\ ~Applicable(Upcoming)
  /\ pc' = "idle" /\ done' = 0
  /\ UNCHANGED <<bars, journal, broker, queue, due, batch, cursor, fresh, inflight, faults, cut>>

\* A transaction fails, with the same outcome.
Gap == IF pc = "confirm" THEN {"stop"} ELSE {}
CommitFails ==
  /\ (pc = "confirm" \/ HasNext) /\ Fails
  /\ pc' = "idle" /\ done' = 0 /\ cut' = cut \cup Gap
  /\ UNCHANGED <<bars, journal, broker, queue, due, batch, cursor, fresh, inflight>>

\* observe_bars, then the cursors.
CommitEnds ==
  LET t == cursor + 1 IN
  /\ pc = "commit" /\ done = Len(batch)
  /\ trade' = [trade EXCEPT !.observed = IF trade.qty > 0 \/ trade.executed = t THEN t ELSE @]
  /\ cursor' = t /\ batch' = <<>> /\ done' = 0 /\ pc' = "work"
  /\ UNCHANGED <<bars, order, applied, broker, queue, due, fresh, inflight, faults, cut>>

-----------------------------------------------------------------------------
(* Decisions: a command enters the journal with the revision it was        *)
(* decided on (TradeManager.submit_plan, submit_action, _insert_action).   *)

\* Every closed bar is executed before anything is decided.
Decides == pc = "work" /\ cursor >= Len(bars)

\* A bug: an increase that is not accepted yet does not count.
OpenAccepted(kinds) == \E c \in Of(Commands, kinds) : order[c].status = "ACK"

Free == {c \in Commands : order[c].kind = "none"}
OpenOrder(kinds) == \E c \in Of(Commands, kinds) : order[c].status \in Waiting \cup {"PARTIAL"}

Insert(c, kind, size, level, late) ==
  /\ Decides /\ First(c, Free)
  /\ order' = [order EXCEPT ![c] = [NoOrder EXCEPT
                 !.kind = kind, !.status = "PENDING", !.outbox = "PENDING", !.rev = trade.rev,
                 !.size = size, !.level = level, !.reserved = (kind \in Increases), !.late = late]]
  /\ fresh' = fresh \cup {c}
  /\ UNCHANGED <<bars, applied, queue, due, batch, done, cursor, inflight, pc, faults, cut>>

SubmitPlan(c) ==
  /\ trade.phase = "none"
  /\ Insert(c, "OPEN", EntrySize, 0, FALSE)
  /\ trade' = [trade EXCEPT !.phase = "ENTRY_PENDING"]
  /\ broker' = [broker EXCEPT !.known = TRUE]

SubmitAdd(c) ==
  /\ trade.phase \in {"OPEN", "BUILDING"} /\ trade.qty > 0 /\ ~OpenOrder(Increases)
  /\ Insert(c, "ADD", AddSize, 0, FALSE)
  /\ UNCHANGED <<trade, broker>>

SubmitClose(c) ==
  /\ trade.phase \in Manageable /\ trade.qty > 0
  /\ Insert(c, "CLOSE", trade.qty, 0, FALSE)
  /\ UNCHANGED <<trade, broker>>

SubmitReduce(c) ==
  /\ trade.phase \in Manageable /\ trade.qty > 1
  /\ Insert(c, "REDUCE", 1, 0, FALSE)
  /\ UNCHANGED <<trade, broker>>

\* A stop moves up, and not beyond the market (_assert_stop_within_market).
SubmitMove(c, level) ==
  /\ trade.phase \in Manageable /\ trade.qty > 0 /\ level > trade.stop
  /\ Len(bars) > 0 /\ level < bars[Len(bars)].high
  /\ Insert(c, "MOVESTOP", 1, level, FALSE)
  /\ trade' = [trade EXCEPT !.moving = c] /\ UNCHANGED broker

\* The entry's time has run out since it was accepted.
Late == \E c \in Of(Commands, {"OPEN"}), d \in Delays :
          order[c].status = "ACK" /\ Len(bars) + 1 + d >= order[c].since + Ttl

\* entry-timeout needs a late entry; the contract's expiry does not.  Neither
\* looks for a cancellation that is already queued.
SubmitCancel(c, late) ==
  /\ trade.phase = "ENTRY_PENDING"
  /\ late => Late
  /\ Insert(c, "CANCEL", 1, 0, late)
  /\ UNCHANGED <<trade, broker>>

-----------------------------------------------------------------------------
(* Delivery (TradeManager._dispatch_guarded): claim, broker, mark, answer. *)

PhaseAllows(kind) ==
  CASE kind = "OPEN" -> trade.phase = "ENTRY_PENDING" /\ trade.qty = 0
    [] kind = "CANCEL" -> trade.phase = "ENTRY_PENDING"
    [] kind = "ADD" -> trade.phase \in {"OPEN", "BUILDING"}
    [] OTHER -> trade.phase \in Manageable /\ trade.qty > 0

\* _dispatch_eligible.
Eligible(c) ==
  /\ order[c].status = "PENDING" /\ order[c].outbox = "PENDING"
  /\ order[c].rev = trade.rev /\ PhaseAllows(order[c].kind)
  /\ order[c].kind = "REDUCE" => order[c].size <= trade.qty
  /\ IF order[c].late THEN Late ELSE c \in fresh

\* JournalBroker.submit: the answer to a command that arrives d bars late.
Answer(c, d) ==
  LET now == Len(bars) + 1 + d
      waiting == Of(broker.sched, Increases) IN
  CASE broker.answer[c] # "none" -> Event(c, broker.answer[c], 0, broker.since[c], 0)
    [] broker.answer[c] = "none" /\ (~broker.known \/ order[c].rev # broker.rev) -> Event(c, "REJECT", 0, now, 0)
    [] broker.answer[c] = "none" /\ broker.known /\ order[c].rev = broker.rev ->
         IF order[c].kind # "CANCEL" THEN Event(c, "ACK", 0, now, 0)
         ELSE IF broker.qty > 0 /\ waiting = {} THEN Event(c, "REJECT", 0, now, 0)
         ELSE Event(c, "CANCEL", 0, now, 0)

\* A bug: a cancellation is confirmed and the entry stays in the schedule.
SubmittedInSchedule(e) ==
  [b |-> [broker EXCEPT !.answer[e.cmd] = e.status, !.since[e.cmd] = e.bar,
                        !.sched = IF e.status = "ACK" THEN @ \cup {e.cmd} ELSE @,
                        !.rev = IF e.status = "CANCEL" THEN @ + 1 ELSE @],
   q |-> queue]

\* What the broker is left with: a schedule, or its increases cancelled.
Submitted(e) ==
  LET c == e.cmd
      cancels == Cancelled(Sim, {}, 0)
      known == [broker EXCEPT !.answer[c] = e.status, !.since[c] = e.bar]
  IN CASE broker.answer[c] # "none" \/ e.status = "REJECT" -> [b |-> known, q |-> queue]
       [] broker.answer[c] = "none" /\ e.status = "ACK" ->
            [b |-> [known EXCEPT !.sched = @ \cup {c}], q |-> queue]
       [] broker.answer[c] = "none" /\ e.status = "CANCEL" ->
            [cancels EXCEPT !.b.answer[c] = "CANCEL", !.b.since[c] = e.bar,
                            !.b.rev = IF cancels.b.qty = 0 THEN @ + 1 ELSE @]

Deliver(c, d) ==
  LET e == Answer(c, d) IN
  /\ Decides /\ First(c, {x \in Commands : Eligible(x)})
  /\ order' = [order EXCEPT ![c].outbox = "CLAIMED"]
  /\ Becomes(Submitted(e))
  /\ inflight' = e /\ pc' = "sent"
  /\ UNCHANGED <<bars, trade, applied, due, batch, done, cursor, fresh, faults, cut>>

\* mark_outbox_sent.
MarkSent ==
  /\ pc = "sent"
  /\ order' = [order EXCEPT ![inflight.cmd].outbox = "SENT"]
  /\ pc' = "answer"
  /\ UNCHANGED <<bars, trade, applied, memory, faults, cut>>

ConsumeAnswer ==
  /\ pc = "answer"
  /\ Apply(inflight)
  /\ inflight' = NoEvent /\ pc' = "work"
  /\ UNCHANGED <<bars, broker, queue, due, batch, done, cursor, fresh, faults, cut>>

\* The mark or the answer is not written: the dispatch ends.
AnswerFails ==
  /\ pc \in {"sent", "answer"} /\ Fails
  /\ inflight' = NoEvent /\ pc' = "work" /\ cut' = cut \cup {"answer"}
  /\ UNCHANGED <<bars, journal, broker, queue, due, batch, done, cursor, fresh>>

\* expire_pending_entries drains the cancellations of its own dispatch.
DrainQueue ==
  /\ Decides /\ queue # <<>> /\ ~Applied(Head(queue))
  /\ Apply(Head(queue)) /\ queue' = Tail(queue)
  /\ UNCHANGED <<bars, broker, due, batch, done, cursor, fresh, inflight, pc, faults, cut>>

\* The next step's intent_since is later than anything queued so far.
StepEnds ==
  /\ Decides
  /\ pc' = "idle" /\ fresh' = {}
  /\ UNCHANGED <<bars, journal, broker, queue, due, batch, done, cursor, inflight, faults, cut>>

-----------------------------------------------------------------------------
(* Death and restart.                                                      *)

\* An execution of the bar in hand is written and the rest of its events is not,
\* in this attempt or since an earlier one failed.
Torn == \E i, j \in 1..Len(batch) :
          batch[i].status = "FILL" /\ Applied(batch[i]) /\ ~Applied(batch[j])

Lost == Gap
        \cup (IF Torn THEN {"batch"} ELSE {})
        \cup (IF pc \in {"sent", "answer"} THEN {"answer"} ELSE {})

Crash ==
  /\ pc \notin Simulating \cup {"down"} /\ Fails
  /\ cut' = cut \cup Lost /\ pc' = "down"
  /\ broker' = NoBroker /\ queue' = <<>> /\ due' = {} /\ batch' = <<>> /\ done' = 0
  /\ cursor' = 0 /\ fresh' = {} /\ inflight' = NoEvent
  /\ UNCHANGED <<bars, journal>>

\* A bug: accepted exits are not resumed.
ResumedIncreases ==
  {c \in Of(Commands, Increases) :
     order[c].status = "ACK" /\ order[c].outbox = "SENT" /\ order[c].filled < order[c].size}

\* What load_trades hands to resume_trade: accepted, sent, unfinished.
Resumed ==
  {c \in Commands :
     /\ order[c].status = "ACK" /\ order[c].outbox = "SENT"
     /\ CASE order[c].kind \in Increases -> order[c].filled < order[c].size
          [] order[c].kind \in Exits -> trade.qty > 0
          [] order[c].kind = "MOVESTOP" -> trade.qty > 0 /\ trade.moving = c
          [] OTHER -> FALSE}

\* A bug: what the trade entered is taken for what it still holds.
RestoredAsHeld ==
  IF trade.phase \notin Live THEN NoBroker
  ELSE [NoBroker EXCEPT
          !.known = TRUE, !.sched = Resumed, !.rev = trade.rev, !.qty = trade.qty,
          !.entered = trade.qty, !.taken = trade.taken, !.stop = trade.stop,
          !.opened = trade.increased, !.paid = trade.paid,
          !.since = [c \in Commands |-> order[c].since],
          !.answer = [c \in Commands |-> IF c \in Resumed THEN "ACK" ELSE "none"]]

\* register_trade, resume_trade.
Restored ==
  LET idle == [NoBroker EXCEPT
                 !.known = TRUE, !.sched = Resumed,
                 !.since = [c \in Commands |-> IF c \in Resumed THEN order[c].since ELSE 0],
                 !.answer = [c \in Commands |-> IF c \in Resumed THEN "ACK" ELSE "none"]]
  IN CASE trade.phase \notin Live -> NoBroker
       [] trade.phase \in Live /\ trade.qty = 0 -> idle
       [] trade.phase \in Live /\ trade.qty > 0 ->
            [idle EXCEPT !.rev = trade.rev, !.qty = trade.qty, !.entered = trade.entered,
                         !.taken = trade.taken, !.stop = trade.stop,
                         !.opened = trade.increased, !.paid = trade.paid]

\* execution_bar_boundaries: an observed bar is complete, one with an execution
\* and no observation is simulated again.  Bars before the first execution
\* find nothing due, so the boundary before it is 0.
Boundary ==
  CASE trade.phase \notin Live -> Len(bars)
    [] trade.phase \in Live /\ trade.executed > trade.observed -> trade.executed - 1
    [] trade.phase \in Live /\ trade.executed <= trade.observed -> trade.observed

\* requeue_claimed_outbox, release_terminal_reservations.
Recover ==
  /\ pc = "down"
  /\ order' = [c \in Commands |->
                 [order[c] EXCEPT !.outbox = IF @ = "CLAIMED" THEN "PENDING" ELSE @,
                                  !.reserved = @ /\ trade.phase \notin Finished]]
  /\ broker' = Restored /\ cursor' = Boundary /\ pc' = "idle"
  /\ UNCHANGED <<bars, trade, applied, queue, due, batch, done, fresh, inflight, faults, cut>>

-----------------------------------------------------------------------------
Simulation ==
  \/ Opening \/ Protection \/ Drain
  \/ \E c \in Commands : TakeMove(c) \/ TakeExit(c) \/ FillAtOpen(c)
                         \/ LimitExpires(c) \/ LimitWaits(c) \/ FillAtLimit(c)

Journalling == Consume \/ ConsumeAgain \/ ConfirmStop \/ Refused \/ CommitFails \/ CommitEnds

Deciding ==
  \E c \in Commands :
    \/ SubmitPlan(c) \/ SubmitAdd(c) \/ SubmitClose(c) \/ SubmitReduce(c)
    \/ \E level \in StopLevels : SubmitMove(c, level)
    \/ \E late \in BOOLEAN : SubmitCancel(c, late)

Delivering ==
  \/ \E c \in Commands, d \in Delays : Deliver(c, d)
  \/ MarkSent \/ ConsumeAnswer \/ AnswerFails \/ DrainQueue

Next ==
  \/ \E b \in Bars : BarCloses(b)
  \/ StepBegins \/ WithdrawMark \/ (\E c \in Commands : WithdrawCancel(c)) \/ WithdrawEnds \/ WithdrawFails
  \/ TrackBegins \/ Simulation \/ Journalling
  \/ Deciding \/ Delivering \/ StepEnds
  \/ Crash \/ Recover

Spec == Init /\ [][Next]_vars

-----------------------------------------------------------------------------
(* What the trade promises.                                                *)

\* Types of the journal's rows, of the broker's memory and of the step.
TypeOK ==
  /\ bars \in Seq(Bars) /\ pc \in Steps /\ faults \in Nat
  /\ cut \subseteq {"batch", "stop", "answer"}
  /\ trade.phase \in Manageable \cup Finished \cup {"none", "ENTRY_PENDING"}
  /\ trade.moving \in Commands \cup {0}
  /\ \A f \in {"rev", "qty", "entered", "taken", "stop", "increased", "paid", "executed", "observed"} :
       trade[f] \in Nat
  /\ \A c \in Commands :
       /\ order[c].kind \in Kinds \cup {"none"}
       /\ order[c].status \in {"none", "PENDING", "ACK", "PARTIAL", "FILLED", "CANCEL", "REJECT"}
       /\ order[c].outbox \in {"none", "PENDING", "CLAIMED", "SENT", "UNDELIVERED"}
       /\ order[c].filled <= order[c].size
  /\ broker.sched \cup due \cup fresh \subseteq Commands
  /\ \A f \in {"rev", "qty", "entered", "taken", "stop", "opened", "paid"} : broker[f] \in Nat
  /\ done <= Len(batch) /\ cursor \in Nat /\ inflight.cmd \in Commands \cup {0}

\* Nothing is on its way between the broker and the journal.
Settled == pc \in {"idle", "work"} /\ batch = <<>> /\ queue = <<>>

\* The two books agree, through any death, failed write and repeated bar. Of a
\* live trade the broker holds, has entered and has taken at targets what the
\* journal says, the revision and the stop too unless a failure came between an
\* execution's two transactions or before an answer was written; of a finished
\* trade it keeps no position and no increase that could fill.
BookAgrees ==
  Settled =>
    /\ trade.phase \in Live =>
         /\ broker.known
         /\ broker.qty = trade.qty /\ broker.entered = trade.entered /\ broker.taken = trade.taken
         /\ cut \cap {"stop", "answer"} = {} => broker.rev = trade.rev /\ broker.stop = trade.stop
    /\ trade.phase \in Finished =>
         trade.qty = 0 /\ broker.qty = 0 /\ Of(broker.sched, Increases) = {}

\* No executed bar went through the stop of a position that is still open, unless
\* a failure came between the two transactions of a stop and the journal has
\* kept a higher one than the broker; and none reached the target without its
\* share being taken, unless the position grew inside that bar.
ProtectionActs ==
  Decides /\ trade.qty > 0 =>
    /\ trade.stop > 0
    /\ "stop" \notin cut => bars[cursor].low > trade.stop
    /\ bars[cursor].high >= TargetPrice /\ trade.increased # cursor =>
         trade.taken >= Share(trade.entered)

\* An order the broker accepted waits in the broker until it has an outcome,
\* also after a restart.
AcceptedWaits ==
  Settled /\ trade.phase \in Live =>
    \A c \in Commands : order[c].status = "ACK" /\ order[c].outbox = "SENT" =>
      \/ c \in broker.sched
      \/ order[c].kind = "MOVESTOP" /\ (trade.moving # c \/ "stop" \in cut)

\* Risk is reserved for nothing but the open remainder of an increase: a settled
\* order has no reservation, and a finished trade has none at all.
ReservedIsOpen ==
  \A c \in Commands : order[c].reserved =>
    /\ order[c].kind \in Increases
    /\ order[c].status \in Waiting \cup {"PARTIAL"}
    /\ trade.phase \notin Finished

\* Of all increases the journal takes at most one for waiting, on its way to the
\* broker or in it.
OneOpenIncrease ==
  \A c, d \in Of(Commands, Increases) :
    order[c].status \in Waiting /\ order[d].status \in Waiting => c = d

\* The broker can fill at most one increase, also when the journal did not learn
\* what became of one, and an increase the journal waits for keeps its risk
\* reserved, whatever becomes of the other orders of its trade.
IncreaseIsCovered ==
  /\ \A c, d \in Of(broker.sched \cup due, Increases) :
       {broker.answer[c], broker.answer[d]} \cap {"FILL", "CANCEL", "REJECT"} = {} => c = d
  /\ \A c \in Of(Commands, Increases) :
       order[c].status \in Waiting /\ trade.phase \notin Finished => order[c].reserved

\* Outcomes are final: no event, late or repeated, changes a finished trade or
\* reopens an order that was filled, cancelled or refused.
OutcomesAreFinal ==
  [][/\ trade.phase \in Finished => trade'.phase = trade.phase /\ trade'.qty = trade.qty
     /\ \A c \in Commands : order[c].status \in {"FILLED", "CANCEL", "REJECT"} =>
          order'[c].status = order[c].status]_vars

\* The journal never takes from a position more than it holds.
NeverOversold == HasNext /\ ~Applied(Upcoming) => Held(Upcoming)

\* No increase is journalled after the first reduction, unless the process died
\* with the rest of that bar's events unwritten.
AddsStopAtReduction ==
  [][trade.phase = "REDUCING" /\ "batch" \notin cut => trade'.entered <= trade.entered]_vars

\* contour.py: the events of a bar whose write failed are retried until they
\* are written; the journal can take every one of them.
ExecutionsApply == HasNext /\ ~Applied(Upcoming) => Applicable(Upcoming)
=============================================================================
