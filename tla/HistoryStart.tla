---------------------------- MODULE HistoryStart ----------------------------
(* The way of a historical run from its process to its first tick: the check   *)
(* of the data, the shift of the start to the first candle there is, and the   *)
(* one repetition of the whole attempt from that start.                        *)
(*   src/run.py (_run_history, _launch)                                        *)
(*   src/src/history/preflight.py                                              *)
(*   src/src/assembly/history_runs.py (HistoryProgress.attach, request_stop)   *)
(* The clock starts at the beginning of the range the attempt is given. The    *)
(* candles are those of one snapshot and do not change; a read of them may     *)
(* fail. The plan of the contracts is that of ContractRollover, for catalogues *)
(* that reach over the range. A minute is two units of time.                   *)
EXTENDS Integers, Sequences, SequencesExt, FiniteSets, FiniteSetsExt
CONSTANTS
    Requests,     \* what may be asked: [start, end, fixed, families]
    LookAround,   \* LOOKAHEAD
    WarmBars,     \* _warmup_bars()
    MaxLosses     \* bound: reads that fail
MinuteUnits == 2
ASSUME StartAssumption ==
    /\ {LookAround, WarmBars} \subseteq Nat \ {0} /\ MaxLosses \in Nat
    /\ \A r \in Requests :
         /\ r.start < r.end /\ Len(r.fixed) + Len(r.families) > 0
         /\ \A f \in DOMAIN r.families : \A c \in DOMAIN r.families[f] : r.families[f][c].frames[1].period = MinuteUnits
VARIABLES
    asked,        \* the request, with the candles of its pairs
    attempt,      \* which of the two attempts of _run_history()
    from,         \* session.start
    stage,        \* how far the attempt is
    passFrom,     \* start_dt of the pass over the fixed pairs
    pass,         \* the first pass over them, or the one from the shifted start
    pair,         \* the fixed pair, or the timeframe of the part, looked at next
    parcel,       \* the part of a contract chain looked at next
    reach,        \* how far back the warm-up of that timeframe is read; 0 at first
    offers,       \* shift_candidates
    refusals,     \* problems: <<what, part of the chain, pair>>
    shifted,      \* the start the report proposes
    stopReason,   \* HistoryProgress.stop_reason is set
    telling,      \* the session request_stop() has looked up and not told yet
    attached,     \* HistoryProgress._session, by its attempt
    recalled,     \* the stop attach() has found
    halted,       \* sessions that were told to stop
    losses
progressVars == <<stopReason, telling, attached, recalled, halted>>
passVars == <<passFrom, pass, offers>>
startVars == <<asked, attempt, from, stage, passVars, pair, parcel, reach, refusals, shifted, progressVars, losses>>

-----------------------------------------------------------------------------
Opens(p, lower, upper) == {m \in p.bars : lower <= m /\ m < upper}
FloorTo(t, grid) == (t \div grid) * grid
AlignUp(t, grid) == FloorTo(t + grid - 1, grid)
NearestOpens(p, t, lost) == IF lost = "nearest" THEN {} ELSE Opens(p, t, t + LookAround)
PreviousOpen(p, t) == FloorTo(t, p.period) - p.period
DriverPeriod(pairs) == Min({pairs[i].period : i \in DOMAIN pairs})

(* check_right_boundary(): the tail that has been read, then the whole week    *)
(* before the boundary, the calendar, and the week behind it.                  *)
EndHolds(p, start, bound, until, first, lost) ==
    LET wide == Max({start, bound - LookAround})
        near == Opens(p, first, bound)
        tail == IF first > wide THEN Opens(p, wide, bound) ELSE near
        after == Opens(p, bound, Min({bound + LookAround, until}))
        covers(bars) == \E m \in bars : m >= PreviousOpen(p, bound)
    IN  /\ lost # "tail"
        /\ \/ covers(near)
           \/ /\ first > wide => lost # "wide"
              /\ tail # {}
              /\ \/ covers(tail)
                 \/ p.due > 0 /\ Max(tail) >= p.due
                 \/ lost # "after" /\ after # {} /\ Min(after) - (Max(tail) + p.period) <= LookAround

(* HistorySelection.planned(): each family's contracts over the range.         *)
Parcels(cards, start, end) ==
    LET live == SelectSeq(cards, LAMBDA c : c.cutoff > start)
        upto == Min({k \in DOMAIN live : live[k].cutoff >= end})
    IN  [k \in 1 .. upto |-> [card |-> live[k], start |-> IF k = 1 THEN start ELSE live[k - 1].cutoff,
                             end |-> Min({live[k].cutoff, end})]]
PlanFrom(start) == FlattenSeq([f \in DOMAIN asked.families |-> Parcels(asked.families[f], start, asked.end)])
Plan == PlanFrom(from)

Reads == {"head", "nearest", "tail", "wide", "after"}
Lossy(lost) == losses' = losses + (IF lost = "no" THEN 0 ELSE 1)
Losses(reads) == {"no"} \union (IF losses < MaxLosses THEN reads ELSE {})

StartInit ==
    /\ asked \in Requests /\ attempt = 1 /\ from = asked.start /\ stage = "attach"
    /\ passFrom = asked.start /\ pass = 1 /\ pair = 1 /\ parcel = 1 /\ reach = 0
    /\ offers = {} /\ refusals = {} /\ shifted = asked.start
    /\ stopReason = FALSE /\ telling = 0 /\ attached = 0 /\ recalled = FALSE /\ halted = {} /\ losses = 0

-----------------------------------------------------------------------------
(* The stop of the operator comes from another thread: it looks up the session *)
(* under the lock and tells it afterwards.                                     *)
AskStop ==
    /\ ~stopReason /\ stopReason' = TRUE /\ telling' = attached
    /\ UNCHANGED <<asked, attempt, from, stage, passVars, pair, parcel, reach, refusals, shifted, attached, recalled, halted, losses>>
TellStop ==
    /\ telling > 0 /\ telling' = 0 /\ halted' = halted \union {telling}
    /\ UNCHANGED <<asked, attempt, from, stage, passVars, pair, parcel, reach, refusals, shifted, stopReason, attached, recalled,
                   losses>>

(* attach(): the attempt's own session; a stop that was asked for applies.     *)
Recalls == stopReason
Attach ==
    /\ stage = "attach" /\ stage' = "attached" /\ attached' = attempt /\ recalled' = Recalls
    /\ UNCHANGED <<asked, attempt, from, passVars, pair, parcel, reach, refusals, shifted, stopReason, telling, halted, losses>>
AttachTells ==
    /\ stage = "attached" /\ stage' = "ping"
    /\ halted' = IF recalled THEN halted \union {attempt} ELSE halted
    /\ UNCHANGED <<asked, attempt, from, passVars, pair, parcel, reach, refusals, shifted, stopReason, telling, attached, recalled,
                   losses>>

PingSource == \E lost \in Losses({"ping"}) :
    /\ stage = "ping" /\ stage' = "fixed" /\ Lossy(lost)
    /\ refusals' = IF lost = "ping" THEN {<<"ping", 0, 0>>} ELSE {}
    /\ UNCHANGED <<asked, attempt, from, passVars, pair, parcel, reach, shifted, progressVars>>

(* _check_pair(): the candles before the start and the one that opens in it;   *)
(* without it the smallest timeframe proposes the next candle there is.        *)
CheckPair == \E lost \in Losses(Reads) :
    /\ stage = "fixed" /\ pair \in DOMAIN asked.fixed
    /\ LET p == asked.fixed[pair]
           drives == p.period = DriverPeriod(asked.fixed)
           lower == passFrom - WarmBars * p.period
           head == Opens(p, lower, passFrom + p.period)
           unstarted == head = {} \/ (drives /\ Max(head) < passFrom)
           nearest == IF drives THEN NearestOpens(p, passFrom, lost) ELSE {}
           first == Max({PreviousOpen(p, asked.end) - p.period, passFrom})
           found == IF lost = "head" THEN {"unread"}
                    ELSE IF unstarted THEN {"start"}
                    ELSE (IF Min(head) > lower + p.period THEN {"warm"} ELSE {})
                         \union (IF EndHolds(p, passFrom, asked.end, asked.end + LookAround, first, lost) THEN {} ELSE {"end"})
       IN  /\ refusals' = refusals \union (found \X {0} \X {pair})
           /\ offers' = offers \union (IF found = {"start"} /\ nearest # {} THEN {Min(nearest)} ELSE {})
    /\ pair' = pair + 1 /\ Lossy(lost)
    /\ UNCHANGED <<asked, attempt, from, stage, passFrom, pass, parcel, reach, shifted, progressVars>>

(* run_preflight(): a second pass from the proposed start, and no third one.   *)
Proposed == IF offers = {} THEN from ELSE AlignUp(Max(offers), DriverPeriod(asked.fixed))
Repeats == /\ pass = 1 /\ refusals # {} /\ \A r \in refusals : r[1] # "ping"
           /\ from < Proposed /\ Proposed < asked.end
CheckAgain ==
    /\ stage = "fixed" /\ pair > Len(asked.fixed) /\ Repeats
    /\ passFrom' = Proposed /\ pass' = 2 /\ pair' = 1 /\ offers' = {} /\ refusals' = {}
    /\ UNCHANGED <<asked, attempt, from, stage, parcel, reach, shifted, progressVars, losses>>
FixedChecked ==
    /\ stage = "fixed" /\ pair > Len(asked.fixed) /\ ~Repeats
    /\ stage' = "chains" /\ shifted' = passFrom /\ pair' = 1
    /\ UNCHANGED <<asked, attempt, from, passVars, parcel, reach, refusals, progressVars, losses>>

-----------------------------------------------------------------------------
(* run_chain_preflight(): the warm-up of a contract is read over a window that *)
(* doubles until it holds the closed bars needed or all of its history.        *)
ThisParcel == Plan[parcel]
ClosedBy(bars, p, t) == {m \in bars : m + p.period <= t}
CheckFrame == \E lost \in Losses(Reads \ {"nearest", "wide"}) :
    /\ stage = "chains" /\ parcel \in DOMAIN Plan /\ pair \in DOMAIN ThisParcel.card.frames
    /\ LET s == ThisParcel
           p == s.card.frames[pair]
           drives == p.period = DriverPeriod(s.card.frames)
           span == IF reach = 0 THEN Max({LookAround, p.needed * p.period}) ELSE reach
           lower == Max({s.card.first, s.start - span})
           head == Opens(p, lower, Min({s.end, s.start + LookAround}))
           warm == ClosedBy(head, p, s.start)
           trading == {m \in head : s.start <= m}
           short == Cardinality(warm) < p.needed
           found == IF lost = "head" THEN {"unread"} ELSE IF head = {} THEN {"start"}
                    ELSE IF short THEN {"few"} ELSE IF drives /\ trading = {} THEN {"start"} ELSE {}
           bound == IF EndHolds(p, s.start, s.end, s.card.deadline, Max({s.start, s.end - LookAround}), lost) THEN {} ELSE {"end"}
       IN  \/ /\ found = {"few"} /\ lower # s.card.first
              /\ reach' = 2 * span /\ UNCHANGED <<pair, refusals, shifted>>
           \/ /\ ~(found = {"few"} /\ lower # s.card.first)
              /\ reach' = 0 /\ pair' = pair + 1
              /\ refusals' = refusals \union ((IF found = {} THEN bound ELSE found) \X {parcel} \X {pair})
              /\ shifted' = IF found = {} /\ drives /\ s.start = from THEN Max({shifted, Min(trading)}) ELSE shifted
    /\ Lossy(lost)
    /\ UNCHANGED <<asked, attempt, from, stage, passVars, parcel, progressVars>>

(* The old contract is closed at a minute that begins behind the cutoff.       *)
CheckExit == \E lost \in Losses({"head"}) :
    /\ stage = "chains" /\ parcel \in DOMAIN Plan /\ pair > Len(ThisParcel.card.frames)
    /\ LET s == ThisParcel
           exits == Opens(s.card.frames[1], AlignUp(s.card.cutoff, MinuteUnits), Min({s.card.deadline, asked.end}))
           rolls == s.card.cutoff < asked.end
       IN  /\ refusals' = refusals \union (IF rolls /\ (exits = {} \/ lost = "head") THEN {<<"exit", parcel, 0>>} ELSE {})
           /\ rolls \/ lost = "no"
    /\ parcel' = parcel + 1 /\ pair' = 1 /\ Lossy(lost)
    /\ UNCHANGED <<asked, attempt, from, stage, passVars, reach, shifted, progressVars>>

(* _launch() and _run_history(): a report that is not whole refuses the run; a *)
(* start that has moved needs another clock, and the attempt is made again.    *)
AllChecked == stage = "chains" /\ parcel > Len(Plan)
Moved == shifted # from
Begin ==
    /\ AllChecked /\ (refusals # {} \/ ~Moved)
    /\ stage' = IF refusals # {} THEN "refused" ELSE "running"
    /\ UNCHANGED <<asked, attempt, from, passVars, pair, parcel, reach, refusals, shifted, progressVars, losses>>
Repeat ==
    /\ AllChecked /\ refusals = {} /\ Moved
    /\ \/ /\ attempt = 1 /\ attempt' = 2 /\ from' = shifted /\ stage' = "attach"
          /\ passFrom' = shifted /\ pass' = 1 /\ pair' = 1 /\ parcel' = 1 /\ offers' = {}
       \/ /\ attempt = 2 /\ stage' = "moved"
          /\ UNCHANGED <<attempt, from, passVars, pair, parcel>>
    /\ UNCHANGED <<asked, reach, refusals, shifted, progressVars, losses>>

StartNext ==
    \/ AskStop \/ TellStop \/ Attach \/ AttachTells \/ PingSource \/ CheckPair \/ CheckAgain \/ FixedChecked
    \/ CheckFrame \/ CheckExit \/ Begin \/ Repeat
StartSpec == StartInit /\ [][StartNext]_startVars
-----------------------------------------------------------------------------
StartTypeOK ==
    /\ asked \in Requests /\ attempt \in {1, 2} /\ from \in asked.start .. asked.end /\ passFrom \in from .. asked.end
    /\ stage \in {"attach", "attached", "ping", "fixed", "chains", "refused", "running", "moved"}
    /\ pass \in {1, 2} /\ {pair, parcel} \subseteq Nat /\ reach \in Nat /\ shifted \in from .. asked.end
    /\ offers \subseteq from .. asked.end + LookAround
    /\ {stopReason, recalled} \subseteq BOOLEAN /\ telling \in 0 .. attempt /\ attached \in 0 .. attempt
    /\ halted \subseteq {1, 2} /\ losses \in 0 .. MaxLosses

Fixed == {asked.fixed[i] : i \in DOMAIN asked.fixed}
FixedDrivers == {p \in Fixed : p.period = DriverPeriod(asked.fixed)}
FirstParcels == {k \in DOMAIN Plan : Plan[k].start = from}
DriverOf(k) == Plan[k].card.frames[1]

(* A run that begins has, at the start its clock was built for, a candle of    *)
(* every stream that drives it, though the start may have moved after one part *)
(* of the pairs was checked and the check of that part was made elsewhere.     *)
StartIsPlayable ==
    stage = "running" =>
      /\ \A p \in FixedDrivers : Opens(p, from, from + p.period) # {}
      /\ \A k \in FirstParcels : from \in DriverOf(k).bars

(* Only time in which some driving stream has no candle at all is left out at  *)
(* the start.                                                                  *)
ShiftIsNeeded ==
    stage = "running" /\ from > asked.start =>
      \/ \E p \in FixedDrivers : Opens(p, asked.start, from) = {}
      \/ \E k \in FirstParcels : Opens(DriverOf(k), asked.start, from) = {}

(* The window that doubles finds the bars of the warm-up whenever the contract *)
(* has them, and never counts one that has not closed.                         *)
WarmIsWhole ==
    LET bars(k, i) == ClosedBy(Opens(Plan[k].card.frames[i], Plan[k].card.first, Plan[k].start), Plan[k].card.frames[i], Plan[k].start)
        enough(k, i) == Cardinality(bars(k, i)) >= Plan[k].card.frames[i].needed
    IN  stage \in {"chains", "running", "refused"} =>
          \A k \in DOMAIN Plan : \A i \in DOMAIN Plan[k].card.frames :
            /\ stage = "running" => enough(k, i)
            /\ <<"few", k, i>> \in refusals => ~enough(k, i)

(* The verdict on the end of the range is that of the whole week around it, or *)
(* of two candles where they are longer, though most of it is read only when   *)
(* the last candles do not decide.                                             *)
WholeEnd(p, start) ==
    LET left == Opens(p, Max({start, Min({asked.end - LookAround, PreviousOpen(p, asked.end) - p.period})}), asked.end)
        right == Opens(p, asked.end, asked.end + LookAround)
    IN  \E last \in left :
          /\ \A m \in left : m <= last
          /\ \/ last + 2 * p.period > asked.end
             \/ p.due > 0 /\ p.due <= last
             \/ \E m \in right : m - last <= LookAround + p.period
EndIsWhole ==
    \A i \in DOMAIN asked.fixed :
      /\ stage = "running" => WholeEnd(asked.fixed[i], from)
      /\ losses = 0 /\ <<"end", 0, i>> \in refusals => ~WholeEnd(asked.fixed[i], passFrom)

(* A position of a contract that ends inside the range has a minute to be      *)
(* closed in.                                                                  *)
ExitIsThere ==
    stage = "running" =>
      \A k \in DOMAIN Plan : Plan[k].card.cutoff < asked.end =>
        \E m \in DriverOf(k).bars : Plan[k].card.cutoff <= m /\ m < Plan[k].card.deadline /\ m < asked.end

(* A stop the operator asked for in any attempt, however it crosses the change *)
(* of the session, reaches the session of the run that begins.                 *)
StopReachesRun == stage = "running" /\ stopReason /\ telling = 0 => attempt \in halted

(* Without contract chains the repetition never moves the start again.         *)
FixedConverges == Len(asked.families) = 0 => stage # "moved"

(* With them it does: the start is moved to the latest of the first candles,   *)
(* where another family need not have one.                                     *)
RepeatConverges == stage # "moved"
=============================================================================
