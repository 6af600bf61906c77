---------------------------- MODULE HistoryLoop ----------------------------
(* The loop of a historical run: bot/trading_bot.py (_loop, _tick),            *)
(* bot/run_session.py, scheduler/clock.py, scheduler/timing.py, the historical *)
(* side of data/cache.py, and the bounds history/preflight.py has proved.      *)
(*                                                                             *)
(* Market time is virtual: a tick moves it by one minute, a hole in the data   *)
(* moves it to the next candle, and the run must say truly how it ended. One   *)
(* timeframe drives the ticks and the warm-up is loaded.                       *)
EXTENDS Integers, FiniteSets, FiniteSetsExt

CONSTANTS
    Papers,       \* the instruments of the run
    RangeEnd,     \* the run's minutes are 0 .. RangeEnd - 1
    Lookahead,    \* GAP_SEARCH_LOOKAHEAD, in minutes
    MaxMisses     \* bound: failed reads, failed commits and stops of the operator, in all

ASSUME LoopAssumption ==
    /\ IsFiniteSet(Papers) /\ Papers # {}
    /\ {RangeEnd, Lookahead} \subseteq Nat \ {0} /\ MaxMisses \in Nat

VARIABLES
    bars,      \* external: the opens of the candles the source has
    pauses,    \* external: instruments whose session is closed by schedule before the end
    event,     \* when the chain's contract event is due, 0 when it has none
    loopAt,    \* the phase of the tick
    now,       \* HistoricalClock
    loaded,    \* the frame holds the candles that open before this minute
    noted,     \* MarketDataCache._seen
    failed,    \* _failed_reads
    fresh,     \* _tick_progressed and _tick_expected
    hole,      \* _gap, _empty_ticks and what _resolve_gap has put aside
    played,    \* per instrument, the candles executed
    proven,    \* _processed_drivers
    session,   \* HistoricalRunSession
    tally,     \* _missed_bars and _gaps
    misses     \* failures so far

loopVars == <<bars, pauses, event, loopAt, now, loaded, noted, failed, fresh, hole,
              played, proven, session, tally, misses>>
market == <<bars, pauses>>

ConsecutiveEmptyTicks == 2
None == -1
NoHole == [open |-> FALSE, last |-> None, empty |-> 0, found |-> "nothing", at |-> None]

LastBar(p) == Max(bars[p])

(* check_right_boundary(), for an end that preflight accepts.                  *)
BoundaryStatus(p) == IF LastBar(p) = RangeEnd - 1 THEN "covered"
                     ELSE IF p \in pauses THEN "planned_pause" ELSE "confirmed_gap"

(* _check_pair() refuses a run without a candle in its first minute.           *)
LoopInit ==
    /\ bars \in [Papers -> {b \in SUBSET (0 .. RangeEnd - 1) : 0 \in b}]
    /\ pauses \in SUBSET {p \in Papers : LastBar(p) # RangeEnd - 1}
    /\ event \in 0 .. RangeEnd - 1
    /\ loopAt = "idle" /\ now = 0
    /\ loaded = [p \in Papers |-> 0] /\ noted = [p \in Papers |-> None]
    /\ failed = {} /\ fresh = [seen |-> 0, due |-> FALSE] /\ hole = NoHole
    /\ played = [p \in Papers |-> {}] /\ proven = [p \in Papers |-> None]
    /\ session = [stop |-> FALSE, broken |-> FALSE, exhausted |-> FALSE, limited |-> FALSE,
                  terminal |-> FALSE, source |-> FALSE, complete |-> TRUE]
    /\ tally = [missed |-> 0, gaps |-> 0] /\ misses = 0

(* _closed_only(): candles that have closed by now.                            *)
Closed(p, until) == {m \in bars[p] : m < until /\ m < now}
Newest(s) == IF s = {} THEN None ELSE Max(s)
LastClosed == Newest(UNION {Closed(p, loaded[p]) : p \in Papers})
Ceiling == IF now + Lookahead < RangeEnd THEN now + Lookahead ELSE RangeEnd

(* _end_driver_checks(): the proof holds for what has been processed.          *)
DriversComplete(ok, done) == ok = {} /\ \A p \in Papers : done[p] >= LastBar(p)
DriversProven(ok, done) == DriversComplete(ok, done)

Finished == now >= RangeEnd
Step == IF Finished THEN now ELSE now + 1
Jump(to) == IF Finished \/ to <= now THEN now ELSE Min({to, RangeEnd})
Stopped == session.stop \/ session.broken \/ session.exhausted \/ Finished
Covered == ~session.broken /\ ~session.source /\ session.complete /\ ~session.exhausted /\ Finished
-----------------------------------------------------------------------------
RequestStop ==
    /\ ~session.stop /\ loopAt # "ended" /\ misses < MaxMisses
    /\ session' = [session EXCEPT !.stop = TRUE] /\ misses' = misses + 1
    /\ UNCHANGED <<market, event, loopAt, now, loaded, noted, failed, fresh, hole, played, proven, tally>>

(* _refresh_legacy() and _note_new_bar(), for the instruments the source has   *)
(* answered for.                                                               *)
Reach(got, t) == [p \in Papers |-> IF p \in got THEN t ELSE loaded[p]]
Note(got, reach) == [p \in Papers |-> IF p \in got THEN Newest({m \in bars[p] : m < reach[p]}) ELSE noted[p]]

(* wait_until_bar_published() moves the clock and each instrument is loaded:   *)
(* by _bar_is_ready(), where a read that fails ends the tick, or in _tick()    *)
(* when no candle was due, where it is only reported. Earlier loads stay.      *)
Advance == \E got \in {Papers} \cup (IF misses < MaxMisses THEN SUBSET Papers ELSE {}) :
    /\ loopAt = "idle" /\ ~Stopped
    /\ now' = Step
    /\ loaded' = Reach(got, Step)
    /\ noted' = Note(got, Reach(got, Step))
    /\ fresh' = IF got = Papers
                THEN [seen |-> Cardinality({p \in Papers : noted'[p] > noted[p]}), due |-> TRUE]
                ELSE fresh
    /\ \/ got = Papers /\ failed' = failed \ got
       \/ \E first \in Papers \ got : failed' = (failed \ got) \cup {first}
    /\ misses' = IF got = Papers THEN misses ELSE misses + 1
    /\ loopAt' \in (IF got = Papers THEN {"close"} ELSE {"idle", "route"})
    /\ UNCHANGED <<market, event, hole, played, proven, session, tally>>

Between(last, resume) == IF last = None \/ resume - last < 1 THEN 0 ELSE resume - last - 1

(* close_tick() -> _register_tick(); the second empty tick looks for a candle. *)
CloseTick ==
    /\ loopAt = "close"
    /\ fresh' = [seen |-> 0, due |-> FALSE]
    /\ \/ /\ fresh.seen > 0
          /\ hole' = NoHole
          /\ tally' = IF hole.open THEN [missed |-> tally.missed + Between(hole.last, LastClosed), gaps |-> tally.gaps + 1]
                      ELSE tally
          /\ loopAt' = "route"
       \/ /\ fresh.seen = 0
          /\ hole' = [hole EXCEPT !.open = TRUE, !.empty = @ + 1, !.last = IF hole.open THEN @ ELSE LastClosed]
          /\ loopAt' = IF hole.empty + 1 < ConsecutiveEmptyTicks THEN "route" ELSE "search"
          /\ UNCHANGED tally
    /\ UNCHANGED <<market, event, now, loaded, noted, failed, played, proven, session, misses>>

(* _confirm_terminal_gap(): what preflight has seen beyond the end, once every *)
(* tail is processed and no contract event is left before the end.             *)
TerminalGap(ok) ==
    /\ DriversComplete(ok, proven)
    /\ \E p \in Papers : BoundaryStatus(p) = "confirmed_gap"
    /\ event <= now
    /\ now > Max({LastBar(p) : p \in Papers})

(* _find_next_bar() and _resolve_gap(): the candle that opens now has not      *)
(* closed and is not looked at.                                                *)
Later(got) == {m \in UNION {bars[p] : p \in got} : now < m /\ m < Ceiling}
Search == \E got \in {Papers} \cup (IF misses < MaxMisses THEN SUBSET Papers ELSE {}) :
    /\ loopAt = "search"
    /\ LET asked == IF Ceiling <= now THEN {} ELSE Papers \ got
           bad == IF Ceiling <= now THEN failed ELSE (failed \ got) \cup asked
           resume == IF Later(got) = {} THEN None ELSE Min(Later(got))
           lower == Max({LastBar(p) : p \in Papers}) + 1
       IN /\ failed' = bad
          /\ misses' = IF asked = {} THEN misses ELSE misses + 1
          /\ \/ /\ resume = None /\ asked # {}
                /\ UNCHANGED <<hole, tally>>
             \/ /\ resume # None \/ asked = {}
                /\ now < event /\ event <= Ceiling /\ (resume = None \/ event <= resume)
                /\ hole' = [hole EXCEPT !.found = "event", !.at = event, !.empty = 0]
                /\ UNCHANGED tally
             \/ /\ resume # None \/ asked = {}
                /\ event <= now \/ event > Ceiling \/ (resume # None /\ event > resume)
                /\ \/ /\ resume # None
                      /\ hole' = [NoHole EXCEPT !.found = "gap", !.at = resume]
                      /\ tally' = [missed |-> tally.missed + Between(hole.last, resume), gaps |-> tally.gaps + 1]
                   \/ /\ resume = None /\ TerminalGap(bad)
                      /\ hole' = [NoHole EXCEPT !.found = "terminal"]
                      /\ tally' = IF lower >= RangeEnd THEN tally
                                  ELSE [missed |-> tally.missed + RangeEnd - lower, gaps |-> tally.gaps + 1]
                   \/ /\ resume = None /\ ~TerminalGap(bad)
                      /\ hole' = [NoHole EXCEPT !.found = IF Ceiling < RangeEnd THEN "limited" ELSE "end"]
                      /\ UNCHANGED tally
    /\ loopAt' = "route"
    /\ UNCHANGED <<market, event, now, loaded, noted, fresh, played, proven, session>>

(* update_data_status(), then what close_tick() has put aside, in this order:  *)
(* contract event, terminal gap, exhaustion, gap; all but the third skip the   *)
(* rest of the tick.                                                           *)
Route ==
    /\ loopAt = "route"
    /\ LET status == [session EXCEPT !.source = failed # {}, !.complete = DriversProven(failed, proven)]
       IN \/ /\ hole.found = "event"
             /\ now' = Jump(hole.at)
             /\ \E broken \in BOOLEAN : \* before_tick() may find the rollover impossible
                  session' = [status EXCEPT !.broken = broken]
             /\ loopAt' = "idle"
          \/ /\ hole.found = "terminal"
             /\ now' = Jump(RangeEnd)
             /\ session' = [status EXCEPT !.terminal = TRUE]
             /\ loopAt' = "idle"
          \/ /\ hole.found \in {"end", "limited"}
             /\ session' = [status EXCEPT !.exhausted = TRUE, !.limited = hole.found = "limited"]
             /\ loopAt' = "execute" /\ UNCHANGED now
          \/ /\ hole.found = "gap"
             /\ now' = Jump(hole.at)
             /\ session' = status
             /\ loopAt' = "idle"
          \/ /\ hole.found = "nothing"
             /\ session' = status
             /\ loopAt' = "execute" /\ UNCHANGED now
    /\ hole' = [hole EXCEPT !.found = "nothing", !.at = None]
    /\ UNCHANGED <<market, event, loaded, noted, failed, fresh, played, proven, tally, misses>>

(* on_bar() executes minute by minute from the boundary of each instrument; it *)
(* starts with the newest candle. A commit that fails leaves the rest for the  *)
(* next tick, and the tails are noted only of a tick that went through.        *)
Unplayed(p) == IF played[p] = {} THEN {Newest(Closed(p, loaded[p]))} \ {None}
               ELSE {m \in Closed(p, loaded[p]) : m > Max(played[p])}
Execute ==
    /\ loopAt = "execute"
    /\ \E upto \in (IF misses < MaxMisses THEN 0 .. now ELSE {now}) :
         /\ played' = [p \in Papers |-> played[p] \cup {m \in Unplayed(p) : m < upto}]
         /\ misses' = IF upto = now THEN misses ELSE misses + 1
         /\ IF upto = now
            THEN /\ proven' = [p \in Papers |-> IF Closed(p, loaded[p]) = {} THEN proven[p]
                                                ELSE Max(Closed(p, loaded[p]))]
                 /\ session' = [session EXCEPT !.source = failed # {}, !.complete = DriversProven(failed, proven')]
            ELSE UNCHANGED <<proven, session>>
    /\ loopAt' = "idle"
    /\ UNCHANGED <<market, event, now, loaded, noted, failed, fresh, hole, tally>>

End ==
    /\ loopAt = "idle" /\ Stopped
    /\ loopAt' = "ended"
    /\ UNCHANGED <<market, event, now, loaded, noted, failed, fresh, hole, played, proven, session, tally, misses>>

LoopNext == RequestStop \/ Advance \/ CloseTick \/ Search \/ Route \/ Execute \/ End
LoopSpec == LoopInit /\ [][LoopNext]_loopVars
-----------------------------------------------------------------------------
LoopTypeOK ==
    /\ loopAt \in {"idle", "close", "search", "route", "execute", "ended"} /\ now \in 0 .. RangeEnd
    /\ failed \subseteq Papers /\ hole.empty \in 0 .. ConsecutiveEmptyTicks + MaxMisses
    /\ \A p \in Papers : played[p] \subseteq bars[p] /\ loaded[p] \in 0 .. RangeEnd
    /\ DOMAIN session = {"stop", "broken", "exhausted", "limited", "terminal", "source", "complete"}

(* The end of a run is what its report says. A run that calls its range        *)
(* covered has executed every candle of the source from its first executed     *)
(* minute on, also after holes, failed reads and failed commits; a run that    *)
(* stopped for want of data over the whole rest of its range has none there,   *)
(* but the one that opens at the moment of the search.                         *)
EndIsHonest == loopAt = "ended" =>
    /\ Covered => \A p \in Papers : /\ played[p] # {}
                                    /\ \A m \in bars[p] : m > Min(played[p]) => m \in played[p]
    /\ session.exhausted /\ ~session.limited =>
           \A p \in Papers : \A m \in bars[p] : m <= now

(* "An error of the source keeps the coverage incomplete" (openspec/specs/     *)
(* historical-mode/spec.md:173): a covered run has executed something. It does *)
(* not hold when every read fails to the end of the range: what the session    *)
(* assumes at its start is never revised (bot/run_session.py:86).              *)
CoveredIsExecuted == loopAt = "ended" /\ Covered => \A p \in Papers : played[p] # {}
=============================================================================
