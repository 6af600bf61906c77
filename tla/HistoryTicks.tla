---------------------------- MODULE HistoryTicks ----------------------------
(* The ticks of a run over history with several timeframes: which of them a    *)
(* tick asks, which are ready, when the data have a hole, and what is analysed.*)
(*   src/src/scheduler/timing.py (CandleScheduler, MultiTimeframeScheduler)    *)
(*   src/src/data/cache.py (has_fresh_closed_bar, _refresh_legacy, close_tick) *)
(*   src/src/bot/trading_bot.py (_bootstrap, _tick, _process, _analyze)        *)
(* HistoryLoop models what is executed and how the run ends; events of the     *)
(* chain and the pause at the end of the range are left to it.                 *)
EXTENDS Integers, Sequences, SequencesExt, FiniteSets, FiniteSetsExt
CONSTANTS
    TickMarkets,  \* records [trades, needs, open]: minutes with trades and assigned timeframes by paper, and the
                  \* minutes the calendar calls open, {} where the calendar does not know
    Grids,        \* per timeframe of the rhythm, the starts of its candles
    TickStart, TickEnd,  \* the range of the run
    Tolerance,    \* tick_catch_up_bars
    TickLookahead,\* GAP_SEARCH_LOOKAHEAD
    MaxTrouble    \* bound: failed reads and failed analyses
ASSUME TicksAssumption ==
    /\ {TickStart, TickEnd, Tolerance, TickLookahead, MaxTrouble} \subseteq Nat /\ TickStart < TickEnd
    /\ 1 \in DOMAIN Grids /\ DOMAIN Grids \subseteq Nat \ {0} /\ 0 .. TickEnd + 1 \subseteq Grids[1]
    /\ \A tf \in DOMAIN Grids : 0 \in Grids[tf] /\ (\E s \in Grids[tf] : s > TickEnd) /\ Grids[tf] \subseteq Nat
    /\ \A m \in TickMarkets : DOMAIN m.trades = DOMAIN m.needs /\ \A p \in DOMAIN m.needs : m.needs[p] \subseteq DOMAIN Grids
VARIABLES
    tickMarket,   \* external: the record of TickMarkets
    tickPhase, tickClock,
    lastTick,     \* _last_tick, 0 before the first
    starting,     \* the first tick has not gone through
    toAsk,        \* timeframes the tick still asks for
    readyFrames,  \* timeframes with a fresh candle
    rowsUpTo,     \* per pair, the moment of its last load; 0: not loaded
    watched,      \* _observed
    lastSeen,     \* _seen
    gained, dues, \* _tick_progressed (any or none), _tick_expected
    emptyTicks,
    analysedBars, \* history of the tick: <<paper, timeframe, candle>> given to a strategy,
    disturbed,    \*   papers that did not get as far, or whose read or analysis has failed,
    leaps,        \*   and <<from, to, the papers whose source answered>> where the clock was moved
    trouble, dried
ticksVars == <<tickMarket, tickPhase, tickClock, lastTick, starting, toAsk, readyFrames, rowsUpTo, watched, lastSeen, gained,
               dues, emptyTicks, analysedBars, disturbed, leaps, trouble, dried>>

------------------------------------------------------------------------------
(* The grid of a timeframe                                                     *)
Rhythm == DOMAIN Grids
Starts == [tf \in Rhythm |-> [t \in 0 .. TickEnd |-> Max({s \in Grids[tf] : s <= t})]]
Closes == [tf \in Rhythm |-> [t \in 0 .. TickEnd |-> Min({s \in Grids[tf] : s > t})]]
CandleStart(tf, t) == Starts[tf][t]
CandleClose(tf, t) == Closes[tf][t]
Span(tf, t) == CandleClose(tf, t) - CandleStart(tf, t)
PreviousStart(tf, t) == CandleStart(tf, t) - Span(tf, t)
CrossedSince(t0, t) == {tf \in Rhythm : CandleStart(tf, t) > CandleStart(tf, t0)}

(* The pairs: the assigned timeframes and the minute, which protects.          *)
TickPapers == DOMAIN tickMarket.trades
Timeframes(p) == tickMarket.needs[p] \union {1}
AllPairs == UNION {{<<p, tf>> : tf \in Timeframes(p)} : p \in TickPapers}
Pairs == DOMAIN rowsUpTo
PairsOf(tf) == {pair \in Pairs : pair[2] = tf}
CandlesOf(pair, until) ==
    {s \in Grids[pair[2]] : /\ s < until /\ CandleClose(pair[2], s) <= until
                            /\ \E m \in tickMarket.trades[pair[1]] : s <= m /\ m < CandleClose(pair[2], s)}
NewestOf(starts) == Max(starts \union {-1})
(* _closed_only() of the frame: the rows of the last load that have closed.    *)
LastRow(pair, loadedAt, t) == NewestOf(CandlesOf(pair, Min({loadedAt, t})))

------------------------------------------------------------------------------
(* has_fresh_closed_bar()                                                      *)

(* due_open(): by the calendar of the run, or by the grid where it is unknown; *)
(* -1 where nothing was due yet.                                               *)
DueOpen(tf, t) ==
    IF tickMarket.open = {} THEN PreviousStart(tf, t)
    ELSE NewestOf({s \in Grids[tf] : s < t /\ CandleClose(tf, s) <= t /\ \E m \in tickMarket.open : s <= m /\ m < CandleClose(tf, s)})
(* A pair further behind than the tolerance does not count; of those that do,  *)
(* none may be behind at all, and there must be one.                           *)
Outside(last, tf, t) == Tolerance > 0 /\ (last = -1 \/ last < DueOpen(tf, t) - Tolerance * Span(tf, t))
FreshOf(tf, t, last) ==
    LET counting == {pair \in PairsOf(tf) : DueOpen(tf, t) # -1 /\ ~Outside(last[pair], tf, t)}
    IN  \/ PairsOf(tf) = {} \/ (Tolerance = 0 /\ counting = {})
        \/ counting # {} /\ \A pair \in counting : last[pair] >= DueOpen(tf, t)
HasFresh(tf, rows) == FreshOf(tf, tickClock, [pair \in Pairs |-> LastRow(pair, rows[pair], tickClock)])

Troubled == trouble < MaxTrouble /\ trouble' = trouble + 1

(* A load of some pairs, and whether one of them has a newer candle.           *)
LoadedNow(got) == [pair \in Pairs |-> IF pair \in got THEN tickClock ELSE rowsUpTo[pair]]
WatchedNow(got) == [pair \in Pairs |-> IF pair \in got THEN CandleStart(pair[2], tickClock) ELSE watched[pair]]
SeenNow(got) == [pair \in Pairs |-> IF pair \in got THEN LastRow(pair, tickClock, tickClock) ELSE lastSeen[pair]]
Progress(got) == \E pair \in got : SeenNow(got)[pair] > lastSeen[pair]
Load(got) == rowsUpTo' = LoadedNow(got) /\ watched' = WatchedNow(got) /\ lastSeen' = SeenNow(got)
(* _collect_tick()                                                             *)
Collect(tf, got) == gained' = (gained \/ Progress(got)) /\ dues' = IF got = {} THEN dues ELSE dues \union {tf}

TicksInit ==
    /\ tickMarket \in TickMarkets /\ tickPhase = "boot" /\ tickClock = TickStart /\ lastTick = 0 /\ starting = TRUE
    /\ toAsk = {} /\ readyFrames = {}
    /\ rowsUpTo = [pair \in AllPairs |-> 0] /\ watched = [pair \in AllPairs |-> 0] /\ lastSeen = [pair \in AllPairs |-> -1]
    /\ gained = FALSE /\ dues = {} /\ emptyTicks = 0
    /\ analysedBars = {} /\ disturbed = TickPapers /\ leaps = {} /\ trouble = 0 /\ dried = FALSE

------------------------------------------------------------------------------
(* _bootstrap(): the frames that are not there yet. A failed read is tried     *)
(* again.                                                                      *)
Missing == {pair \in Pairs : rowsUpTo[pair] = 0}
Boot ==
    /\ tickPhase = "boot"
    /\ \E got \in SUBSET Missing :
         /\ rowsUpTo' = LoadedNow(got) /\ watched' = WatchedNow(got)
         /\ IF got = Missing THEN tickPhase' = "rest" /\ UNCHANGED trouble ELSE tickPhase' = "boot" /\ Troubled
    /\ UNCHANGED <<tickMarket, tickClock, lastTick, starting, toAsk, readyFrames, lastSeen, gained, dues, emptyTicks,
                   analysedBars, disturbed, leaps, dried>>

(* wait_until_bar_published(): the clock moves first, then the timeframes are  *)
(* asked whose candle has closed since the last tick; all of them at first.    *)
TickOver == dried \/ tickClock >= TickEnd
AskAgain == CrossedSince(lastTick, tickClock') \* after the clock has moved
BeginTicks ==
    /\ tickPhase = "rest" /\ ~TickOver
    /\ tickClock' = tickClock + 1 /\ lastTick' = tickClock + 1
    /\ toAsk' = IF starting THEN Rhythm ELSE AskAgain
    /\ readyFrames' = {} /\ tickPhase' = "ask"
    /\ analysedBars' = {} /\ disturbed' = {} /\ leaps' = {}
    /\ UNCHANGED <<tickMarket, starting, rowsUpTo, watched, lastSeen, gained, dues, emptyTicks, trouble, dried>>

(* _bar_is_ready(): a timeframe that is not fresh is loaded and judged again.  *)
(* A failed read ends the tick; what was loaded stays.                         *)
AskFrame ==
    /\ tickPhase = "ask"
    /\ \E tf \in toAsk :
         \/ /\ HasFresh(tf, rowsUpTo)
            /\ toAsk' = toAsk \ {tf} /\ readyFrames' = readyFrames \union {tf}
            /\ UNCHANGED <<tickPhase, rowsUpTo, watched, lastSeen, gained, dues, disturbed, trouble>>
         \/ /\ ~HasFresh(tf, rowsUpTo)
            /\ Load(PairsOf(tf)) /\ Collect(tf, PairsOf(tf))
            /\ toAsk' = toAsk \ {tf}
            /\ readyFrames' = IF HasFresh(tf, LoadedNow(PairsOf(tf))) THEN readyFrames \union {tf} ELSE readyFrames
            /\ UNCHANGED <<tickPhase, disturbed, trouble>>
         \/ /\ ~HasFresh(tf, rowsUpTo)
            /\ Troubled /\ \E got \in SUBSET PairsOf(tf) : got # PairsOf(tf) /\ Load(got)
            /\ toAsk' = {} /\ readyFrames' = {} /\ disturbed' = TickPapers
            /\ tickPhase' = (IF starting THEN "boot" ELSE "rest")
            /\ UNCHANGED <<gained, dues>>
    /\ UNCHANGED <<tickMarket, tickClock, lastTick, starting, emptyTicks, analysedBars, leaps, dried>>
AskedAll ==
    /\ tickPhase = "ask" /\ toAsk = {} /\ tickPhase' = "refresh" /\ toAsk' = readyFrames
    /\ UNCHANGED <<tickMarket, tickClock, lastTick, starting, readyFrames, rowsUpTo, watched, lastSeen, gained, dues, emptyTicks,
                   analysedBars, disturbed, leaps, trouble, dried>>

(* refresh_if_new_candle() of the ready ones: the pairs whose candle is not    *)
(* watched yet. A failed read is reported and counts for nothing.              *)
Unwatched(tf) == {pair \in PairsOf(tf) : watched[pair] < CandleStart(tf, tickClock)}
RefreshFrame ==
    /\ tickPhase = "refresh"
    /\ \E tf \in toAsk :
         /\ toAsk' = toAsk \ {tf}
         /\ \/ Load(Unwatched(tf)) /\ Collect(tf, Unwatched(tf)) /\ UNCHANGED <<disturbed, trouble>>
            \/ /\ Troubled /\ UNCHANGED <<gained, dues>>
               /\ \E got \in SUBSET Unwatched(tf) :
                    /\ got # Unwatched(tf) /\ Load(got)
                    /\ disturbed' = disturbed \union {pair[1] : pair \in Unwatched(tf) \ got}
    /\ UNCHANGED <<tickMarket, tickPhase, tickClock, lastTick, starting, readyFrames, emptyTicks, analysedBars, leaps, dried>>

(* close_tick(): one record for the tick. The second empty one looks for the   *)
(* next minute that has trades, in the finest frames; a candle that opens now  *)
(* is not looked at. A search that fails is repeated by the next empty tick.   *)
DriverFrame == Min({pair[2] : pair \in Pairs})
SearchEnd == Min({tickClock + TickLookahead, TickEnd})
LaterCandles(papers) ==
    {s \in Grids[DriverFrame] : /\ tickClock < s /\ s < SearchEnd
                                /\ \E p \in papers : \E m \in tickMarket.trades[p] : s <= m /\ m < CandleClose(DriverFrame, s)}
NextCandle(papers) == Min(LaterCandles(papers))
EmptyTick == dues # {} /\ ~gained
EmptiesNow == IF dues = {} THEN emptyTicks ELSE IF gained THEN 0 ELSE emptyTicks + 1
TickClosed == tickPhase = "refresh" /\ toAsk = {} /\ gained' = FALSE /\ dues' = {}
CloseOrdinary ==
    /\ TickClosed /\ ~(EmptyTick /\ EmptiesNow >= 2)
    /\ emptyTicks' = EmptiesNow /\ tickPhase' = "analyse"
    /\ UNCHANGED <<tickMarket, tickClock, lastTick, starting, toAsk, readyFrames, rowsUpTo, watched, lastSeen, analysedBars, disturbed,
                   leaps, trouble, dried>>
LeapOver ==
    /\ TickClosed /\ EmptyTick /\ EmptiesNow >= 2
    /\ \E answered \in SUBSET TickPapers :
         /\ IF answered = TickPapers THEN UNCHANGED trouble ELSE Troubled
         /\ \/ /\ LaterCandles(answered) # {}
               /\ tickClock' = NextCandle(answered) /\ lastTick' = tickClock'
               /\ leaps' = {<<tickClock, tickClock', answered>>}
               /\ emptyTicks' = 0 /\ starting' = FALSE /\ tickPhase' = "rest" /\ disturbed' = TickPapers /\ UNCHANGED dried
            \/ /\ LaterCandles(answered) = {}
               /\ dried' = (answered = TickPapers) /\ emptyTicks' = EmptiesNow /\ tickPhase' = "analyse"
               /\ UNCHANGED <<tickClock, lastTick, starting, disturbed, leaps>>
    /\ UNCHANGED <<tickMarket, toAsk, readyFrames, rowsUpTo, watched, lastSeen, analysedBars>>

(* _process() and _analyze() of each paper: the last row of every ready        *)
(* timeframe it is assigned, the minute first. A strategy that fails takes     *)
(* what is left of its paper.                                                  *)
RowsOf(p) == {<<p, tf, LastRow(<<p, tf>>, rowsUpTo[<<p, tf>>], tickClock)>> : tf \in readyFrames \intersect tickMarket.needs[p]}
RowsKept(p, upto) == {row \in RowsOf(p) : row[2] < upto}
Analyse ==
    /\ tickPhase = "analyse" /\ starting' = FALSE /\ tickPhase' = "rest"
    /\ \/ /\ analysedBars' = UNION {RowsOf(p) : p \in TickPapers}
          /\ UNCHANGED <<disturbed, trouble>>
       \/ /\ Troubled
          /\ \E p \in TickPapers, upto \in {row[2] : row \in UNION {RowsOf(q) : q \in TickPapers}} :
               /\ RowsOf(p) # RowsKept(p, upto)
               /\ analysedBars' = RowsKept(p, upto) \union UNION {RowsOf(q) : q \in TickPapers \ {p}}
               /\ disturbed' = disturbed \union {p}
    /\ UNCHANGED <<tickMarket, tickClock, lastTick, toAsk, readyFrames, rowsUpTo, watched, lastSeen, gained, dues, emptyTicks,
                   leaps, dried>>

TicksNext ==
    Boot \/ BeginTicks \/ AskFrame \/ AskedAll \/ RefreshFrame \/ CloseOrdinary \/ LeapOver \/ Analyse

------------------------------------------------------------------------------
TicksTypeOK ==
    /\ tickPhase \in {"boot", "rest", "ask", "refresh", "analyse"} /\ tickClock \in TickStart .. TickEnd
    /\ toAsk \subseteq Rhythm /\ readyFrames \subseteq Rhythm /\ dues \subseteq Rhythm
    /\ emptyTicks \in Nat /\ trouble \in 0 .. MaxTrouble

(* A candle that closes at a tick nothing has disturbed is analysed at it,     *)
(* where every other pair of its timeframe is as far as the calendar asks or   *)
(* further behind than the tolerance: whatever was loaded, watched, failed or  *)
(* leapt over before.                                                          *)
TrueLast == [pair \in Pairs |-> NewestOf(CandlesOf(pair, tickClock))]
NobodyLags(tf) ==
    \A pair \in PairsOf(tf) :
        \/ TrueLast[pair] >= DueOpen(tf, tickClock)
        \/ Tolerance > 0 /\ TrueLast[pair] < DueOpen(tf, tickClock) - Tolerance * Span(tf, tickClock)
BoundariesServed ==
    tickPhase = "rest" =>
    \A p \in TickPapers \ disturbed : \A tf \in tickMarket.needs[p] :
        LET s == TrueLast[<<p, tf>>] IN
        s # -1 /\ CandleClose(tf, s) = tickClock /\ DueOpen(tf, tickClock) \in 0 .. s /\ NobodyLags(tf) => <<p, tf, s>> \in analysedBars

(* The clock leaps only from two silent ticks, and over a silence of those     *)
(* whose source has answered, but for the candle that opens at the leap. A read *)
(* that failed can hide a trade of the last minute the calendar knows nothing  *)
(* of, and one of the minute before.                                           *)
InCalendar(m) == tickMarket.open = {} \/ m \in tickMarket.open
LeapsAreSilent ==
    \A leap \in leaps :
        /\ \A p \in TickPapers : /\ trouble = 0 \/ InCalendar(leap[1] - 1) => leap[1] - 1 \notin tickMarket.trades[p]
                                 /\ trouble = 0 => leap[1] - 2 \notin tickMarket.trades[p]
        /\ \A p \in leap[3] : tickMarket.trades[p] \intersect (leap[1] + 1 .. leap[2] - 1) = {}

(* The search asks the finest frames alone, for the candles of the others in a *)
(* hole "are missing too and would not change the answer".                     *)
LeapsLoseNothing ==
    \A leap \in leaps : \A p \in TickPapers : \A tf \in tickMarket.needs[p] :
        \A s \in CandlesOf(<<p, tf>>, leap[2]) : CandleClose(tf, s) <= leap[1]
=============================================================================
