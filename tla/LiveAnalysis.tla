---------------------------- MODULE LiveAnalysis ----------------------------
(* The live step: bot/live_analysis.py, the cursors of data/market_store.py,   *)
(* and the admission of a signal by trading_bot.py and the trade manager.      *)
(*                                                                             *)
(* One instrument and one timeframe. Bars are numbered; due is the last one    *)
(* whose close the calendar expects. Every calculated bar is a signal of its   *)
(* binding; identity of the event is the binding and the bar.                  *)
EXTENDS Integers, FiniteSetsExt

CONSTANTS
    Assignments,  \* bindings of the instrument on this timeframe, in their order
    LiveBars,     \* bound: bars 1 .. LiveBars
    Depth,        \* bars a calculation needs: management_requirement() asks for 15 at least
    CatchUp,      \* CATCH_UP_BARS
    MaxFaults     \* bound: failed marks and restarts, of the core too, in all

ASSUME LiveAssumption ==
    /\ {Assignments, LiveBars} \subseteq Nat \ {0} /\ Depth \in Nat \ {0, 1} /\ {CatchUp, MaxFaults} \subseteq Nat

VARIABLES
    due,          \* the last bar the calendar expects
    series,       \* the bars the frame of the pair holds
    minutes,      \* the 1m prefix is proven through the close of this bar
    absent,       \* bars resolved without a candle: source_absent, confirmed_no_trade
    floor,        \* live_floor() of the pair, 0 where it is strict
    liveAt,       \* "down", "idle", "bars", "decide" or "admit"
    view,         \* the frame the step reads
    complete,     \* post_tick executed every minute
    turn,         \* the binding the step serves
    looked,       \* the bar under decision, 0 when there is none
    cursors,      \* LiveAnalysis.cursors, 0 for none
    saved,        \* analysis_cursors in the market base, 0 for none
    candidates,   \* signals that wait for the end of the step
    managed,      \* bars the manager has been given in this step
    analysed,     \* per binding, the bars calculated so far
    first,        \* per binding, the bar the overview started from
    passed,       \* per binding, the gaps the coverage has let its cursor pass
    handled,      \* processed_signals
    owned,        \* bindings with an unfinished trade
    opened,       \* the signals trades were opened from, in order
    liveFaults

liveVars == <<due, series, minutes, absent, floor, liveAt, view, complete, turn, looked, cursors,
              saved, candidates, managed, analysed, first, passed, handled, owned, opened, liveFaults>>
marketView == <<due, series, minutes, absent, floor>>
books == <<handled, owned, opened>>
step == <<view, complete, turn, looked, candidates, managed>>

Bindings == 1 .. Assignments
LatestBar(s) == IF s = {} THEN 0 ELSE Max(s)

LiveInit ==
    /\ due = 1 /\ series = {1} /\ minutes = 1 /\ absent = {} /\ floor = 0
    /\ liveAt = "down" /\ view = {} /\ complete = TRUE /\ turn = 1 /\ looked = 0
    /\ cursors = [b \in Bindings |-> 0] /\ saved = [b \in Bindings |-> 0]
    /\ candidates = {} /\ managed = {}
    /\ analysed = [b \in Bindings |-> {}] /\ first = [b \in Bindings |-> 0]
    /\ passed = [b \in Bindings |-> {}]
    /\ handled = {} /\ owned = {} /\ opened = {} /\ liveFaults = 0

(* _quality() -> coverage_for(): the frame has Depth bars up to this one (those *)
(* before bar 1 are all there), and what is missing between them is resolved   *)
(* without a candle or lies before the live floor.                             *)
Gaps(frame, bar) == {m \in 1 .. bar : m \notin frame /\ Cardinality({k \in frame : m < k /\ k <= bar}) < Depth}
Excused(m) == m \in absent \/ m < floor
Quality(frame, bar) == \A m \in Gaps(frame, bar) : Excused(m)

(* current(): in a session, at most CATCH_UP_BARS behind.                      *)
Current(bar, trading) == trading /\ bar <= due /\ due - bar <= CatchUp

(* execution_ready(): the minutes below the close of the bar are proven.       *)
Ready(bar) == minutes >= bar
-----------------------------------------------------------------------------
(* The market: a bar closes, arrives (late bars too), is proven minute by      *)
(* minute, or is found to have no candle. Whether a session is open is the     *)
(* word of the calendar at the moment it is asked.                             *)
CloseBar ==
    /\ due < LiveBars /\ due' = due + 1
    /\ UNCHANGED <<series, minutes, absent, floor, liveAt, step, cursors, saved, analysed, first, passed, books, liveFaults>>
Arrive == \E bar \in (1 .. due) \ series :
    /\ series' = series \cup {bar} /\ absent' = absent \ {bar}
    /\ UNCHANGED <<due, minutes, floor, liveAt, step, cursors, saved, analysed, first, passed, books, liveFaults>>
Prove ==
    /\ minutes < due /\ minutes' = minutes + 1
    /\ UNCHANGED <<due, series, absent, floor, liveAt, step, cursors, saved, analysed, first, passed, books, liveFaults>>
Absent == \E bar \in (1 .. due) \ (series \cup absent) :
    /\ absent' = absent \cup {bar}
    /\ UNCHANGED <<due, series, minutes, floor, liveAt, step, cursors, saved, analysed, first, passed, books, liveFaults>>

(* The core starts anew, or learns that an unfinished trade needs the minutes  *)
(* of the pair: the floor is the last closed candle of the grid, in a break    *)
(* one behind the last bar, or there is none.                                  *)
Cutover ==
    /\ liveFaults < MaxFaults /\ liveFaults' = liveFaults + 1
    /\ floor' \in {0, due, due + 1}
    /\ UNCHANGED <<due, series, minutes, absent, liveAt, step, cursors, saved, analysed, first, passed, books>>

Resumed(b) == IF saved[b] # 0 THEN saved[b] ELSE LatestBar(series)

(* bootstrap_instrument(): the cursor is the saved one or the newest bar; an   *)
(* overview that could calculate saves it.                                     *)
Bootstrap ==
    /\ liveAt = "down"
    /\ LET from == [b \in Bindings |-> Resumed(b)]
       IN /\ cursors' = from
          /\ first' = [b \in Bindings |-> IF saved[b] # 0 THEN first[b] ELSE from[b]]
          /\ saved' = [b \in Bindings |-> IF saved[b] = 0 /\ series # {} /\ Quality(series, LatestBar(series))
                                          THEN from[b] ELSE saved[b]]
    /\ liveAt' = "idle"
    /\ UNCHANGED <<marketView, step, analysed, passed, books, liveFaults>>

(* step(): the frame is read once; the execution before it may have failed.    *)
StepBegin == \E ok \in BOOLEAN :
    /\ liveAt = "idle"
    /\ liveAt' = "bars" /\ view' = series /\ complete' = ok
    /\ turn' = 1 /\ looked' = 0 /\ candidates' = {} /\ managed' = {}
    /\ UNCHANGED <<marketView, cursors, saved, analysed, first, passed, books, liveFaults>>

Fresh(b) == {bar \in view : bar > cursors[b]}

(* Only the newest bar can be acted on.                                        *)
Timely(bar, trading) == bar = LatestBar(view) /\ Current(bar, trading)

(* The next bar of a binding: the binding is done when it has none, when its   *)
(* warm-up has a hole, or when the newest bar waits for its minutes.           *)
Look == \E trading \in BOOLEAN :
    /\ liveAt = "bars" /\ turn \in Bindings
    /\ LET b == turn
           bar == Min(Fresh(b))
       IN \/ /\ Fresh(b) = {} \/ (Fresh(b) # {} /\ ~Quality(view, bar))
                \/ (Fresh(b) # {} /\ Timely(bar, trading) /\ ~Ready(bar))
             /\ turn' = turn + 1 /\ UNCHANGED <<liveAt, looked, passed>>
          \/ /\ Fresh(b) # {} /\ Quality(view, bar)
             /\ ~Timely(bar, trading) \/ Ready(bar)
             /\ looked' = [binding |-> b, bar |-> bar] /\ liveAt' = "decide" /\ UNCHANGED turn
             /\ passed' = [passed EXCEPT ![b] = @ \cup {m \in cursors[b] + 1 .. bar : m \notin view /\ Excused(m)}]
    /\ UNCHANGED <<marketView, view, complete, candidates, managed, cursors, saved, analysed, first, books, liveFaults>>

(* mark_analyzed(): the saved cursor never goes back.                          *)
Marked(b, bar) == [saved EXCEPT ![b] = Max({@, bar})]

(* A current bar is managed once and becomes a candidate; any other is only    *)
(* told of. The cursor moves in memory, then in the base, which may refuse; a  *)
(* refusal ends the turn of the binding.                                       *)
Decide == \E trading \in BOOLEAN, marked \in (IF liveFaults < MaxFaults THEN BOOLEAN ELSE {TRUE}) :
    /\ liveAt = "decide"
    /\ LET b == looked.binding
           bar == looked.bar
           live == Timely(bar, trading) /\ complete
       IN /\ candidates' = IF live THEN candidates \cup {looked} ELSE candidates
          /\ managed' = IF live THEN managed \cup {bar} ELSE managed
          /\ cursors' = [cursors EXCEPT ![b] = bar]
          /\ saved' = IF marked THEN Marked(b, bar) ELSE saved
          /\ turn' = IF marked THEN turn ELSE turn + 1
          /\ analysed' = [analysed EXCEPT ![b] = @ \cup {bar}]
    /\ liveFaults' = IF marked THEN liveFaults ELSE liveFaults + 1
    /\ looked' = 0 /\ liveAt' = "bars"
    /\ UNCHANGED <<marketView, view, complete, first, passed, books>>

(* What only the bindings used is forgotten.                                   *)
Served ==
    /\ liveAt = "bars" /\ turn \notin Bindings
    /\ liveAt' = "admit" /\ complete' = TRUE /\ turn' = 1 /\ managed' = {}
    /\ UNCHANGED <<marketView, view, looked, candidates, cursors, saved, analysed, first, passed, books, liveFaults>>

(* open_trade(): the signal is looked up and recorded in one transaction.      *)
AlreadyHandled(c) == c \in handled
Seen(c) == AlreadyHandled(c)

(* actions_for_signal(): the trade a binding owns is managed instead.           *)
MayOpen(c) == c.binding \notin owned

(* _admit_candidate(): an owned trade is managed, a blocked or failed entry is *)
(* refused, a new one opened. sort_key(): bindings in their order.             *)
Admit == \E c \in candidates :
    /\ liveAt = "admit" /\ \A d \in candidates : c.binding <= d.binding
    /\ candidates' = candidates \ {c}
    /\ \/ UNCHANGED books
       \/ /\ MayOpen(c) /\ ~Seen(c)
          /\ handled' = handled \cup {c}
          /\ owned' = owned \cup {c.binding}
          /\ opened' = opened \cup {[n |-> Cardinality(opened), signal |-> c]}
    /\ UNCHANGED <<marketView, liveAt, view, complete, turn, looked, managed, cursors, saved, analysed, first, passed, liveFaults>>

StepEnd ==
    /\ liveAt = "admit" /\ candidates = {}
    /\ liveAt' = "idle" /\ view' = {}
    /\ UNCHANGED <<marketView, complete, turn, looked, candidates, managed, cursors, saved, analysed, first, passed, books, liveFaults>>

TradeEnds == \E b \in owned :
    /\ owned' = owned \ {b}
    /\ UNCHANGED <<marketView, liveAt, step, cursors, saved, analysed, first, passed, handled, opened, liveFaults>>

(* The process dies: what it held in memory is gone, also the candidates.      *)
Crash ==
    /\ liveAt # "down" /\ liveFaults < MaxFaults
    /\ liveAt' = "down" /\ liveFaults' = liveFaults + 1
    /\ cursors' = [b \in Bindings |-> 0]
    /\ view' = {} /\ complete' = TRUE /\ turn' = 1 /\ looked' = 0 /\ candidates' = {} /\ managed' = {}
    /\ UNCHANGED <<marketView, saved, analysed, first, passed, books>>

LiveNext == CloseBar \/ Arrive \/ Prove \/ Absent \/ Cutover \/ Bootstrap \/ StepBegin \/ Look \/ Decide \/ Served
            \/ Admit \/ StepEnd \/ TradeEnds \/ Crash
-----------------------------------------------------------------------------
LiveTypeOK ==
    /\ series \subseteq 1 .. due /\ minutes \in 1 .. due
    /\ absent \subseteq (1 .. due) \ series /\ floor \in 0 .. due + 1
    /\ liveAt \in {"down", "idle", "bars", "decide", "admit"} /\ turn \in 1 .. Assignments + 1
    /\ \A b \in Bindings : cursors[b] \in 0 .. LiveBars /\ saved[b] \in 0 .. LiveBars
    /\ candidates \subseteq [binding : Bindings, bar : 1 .. LiveBars]

(* A bar trades once: the trades of a binding are opened from ever newer bars, *)
(* also when the mark of a bar was refused, the process has died and the bar,  *)
(* still current, is calculated again after its trade has ended.               *)
SignalOnce == \A x, y \in opened :
    x.signal.binding = y.signal.binding /\ x.n < y.n => x.signal.bar < y.signal.bar

(* Bars are not collapsed: a binding has calculated every bar between the one  *)
(* it started from and its cursor, however many arrived at once, late, or      *)
(* around a restart, but for the bars that were missing when it passed them,   *)
(* and were then proven to be without a candle or lay before the live floor.   *)
BarsInOrder == \A b \in Bindings : (first[b] + 1) .. cursors[b] \subseteq analysed[b] \cup passed[b]
=============================================================================
