---------------------------- MODULE GapResolution ----------------------------
(* What becomes of a minute without a candle, and how the contour passes it:   *)
(* data/market_store.py (interval states), data/lanes.py (EvidenceLane,        *)
(* CompletenessLane), data/ingestion.py (_confirm_no_trades),                  *)
(* data/reconciliation.py, data/cache.py (contiguous_after), data/follower.py  *)
(* and assembly/contour.py (on_bar).                                           *)
(*                                                                             *)
(* The lanes of the core, the stream that may bring a candle at any moment,    *)
(* the contour's copy of the feed and its tick interleave.                     *)
EXTENDS Naturals, FiniteSets

CONSTANTS
    LastOpen,       \* the minutes are 1..LastOpen
    Rechecks,       \* length of completeness_recheck_secs
    ClosedOpens,    \* minutes outside of the trading session
    MaxLaneStarts   \* bound: restarts of the core

ASSUME GapAssumption ==
    /\ LastOpen \in Nat \ {0} /\ {Rechecks, MaxLaneStarts} \subseteq Nat
    /\ ClosedOpens \subseteq 1..LastOpen

VARIABLES
    traded,    \* external: the minutes with a trade
    aged,      \* minutes up to this one have left the evidence window
    state,     \* interval_coverage
    candles,   \* candle_current
    checks,    \* interval_checks
    evidence,  \* the evidence lane: its minute and what GetLastTrades said
    complete,  \* the completeness lane: its minute and its step
    closing,   \* interval_state() has found this minute outside of the session
    copy,      \* the contour's frame of 1m candles, as far as its feed is applied
    pass,      \* on_bar: the frame taken, the minutes allowed
    bar,       \* the contour's execution boundary
    skipped,   \* minutes recorded as source-absent in the journal of the trades
    starts     \* restarts so far

gapVars == <<traded, aged, state, candles, checks, evidence, complete, closing,
             copy, pass, bar, skipped, starts>>
coverage == <<state, candles, checks>>
lanes == <<evidence, complete, closing>>
execution == <<copy, pass, bar, skipped>>

Opens == 1..LastOpen
Waiting == {"pending", "unresolved"}
FinalEvidence == {"confirmed_no_trade", "source_absent"}
Resolved == {"received", "scheduled_closed"} \cup FinalEvidence
IdleLane == [at |-> "idle", minute |-> 0]
NoPass == [at |-> "idle", frame |-> {}, allowed |-> {}]

GapInit ==
    /\ traded \in SUBSET Opens /\ aged = 0
    /\ state = [m \in Opens |-> "none"] /\ candles = {}
    /\ checks = [m \in Opens |-> 0]
    /\ evidence = IdleLane /\ complete = IdleLane /\ closing = 0
    /\ copy = {} /\ pass = NoPass /\ bar = 0 /\ skipped = {} /\ starts = 0
-----------------------------------------------------------------------------
(* The store.                                                                  *)

(* set_interval_states(): a received interval stays, a final one does not wait *)
(* again.                                                                      *)
WritesOver(m, s) == ~(state[m] \in FinalEvidence /\ s \in Waiting) \* what if a candle could be hidden
MayWrite(m, s) == state[m] # "received" /\ ~(state[m] \in FinalEvidence /\ s \in Waiting)
WithState(m, s) == IF MayWrite(m, s) THEN [state EXCEPT ![m] = s] ELSE state

Missing(m) == m \notin candles /\ state[m] \notin Resolved

(* Stream or history: accepted at any time, also after an outcome.             *)
Receive(m) ==
    /\ m \in traded /\ m \notin candles
    /\ candles' = candles \cup {m}
    /\ state' = [state EXCEPT ![m] = "received"]
    /\ UNCHANGED <<traded, aged, checks, lanes, execution, starts>>

(* _reconcile_calendar(): the gaps between candles and the tail; without an    *)
(* applicable schedule nothing is closed.                                      *)
Scan(m) == \E known \in BOOLEAN :
    /\ m \notin candles
    /\ state' = WithState(m, IF ~known THEN "unresolved"
                             ELSE IF m \in ClosedOpens THEN "scheduled_closed" ELSE "pending")
    /\ UNCHANGED <<traded, aged, candles, checks, lanes, execution, starts>>

(* interval_state() reads, and writes what the calendar says in another        *)
(* transaction; only waiting states are kept off a final one there.            *)
FindClosed(m) ==
    /\ closing = 0 /\ m \in ClosedOpens /\ state[m] \in Waiting
    /\ closing' = m
    /\ UNCHANGED <<traded, aged, coverage, evidence, complete, execution, starts>>
WriteClosed ==
    /\ closing # 0
    /\ state' = [state EXCEPT ![closing] = "scheduled_closed"]
    /\ closing' = 0
    /\ UNCHANGED <<traded, aged, candles, checks, evidence, complete, execution, starts>>

(* Time: the oldest minute leaves the window in which trades can be asked for; *)
(* environment: an answer does not take the five minutes of its margin.        *)
Age ==
    /\ aged < LastOpen /\ evidence.at # "asked"
    /\ aged' = aged + 1
    /\ UNCHANGED <<traded, coverage, lanes, execution, starts>>
-----------------------------------------------------------------------------
(* The evidence lane. GetCandles has left the minute missing: GetLastTrades.   *)
AskTrades(m) ==
    /\ evidence.at = "idle" /\ m > aged /\ Missing(m)
    /\ evidence' = [at |-> "asked", minute |-> m]
    /\ UNCHANGED <<traded, aged, coverage, complete, closing, execution, starts>>

(* The answer holds the minute's trades, unless it was cut at the limit.       *)
TradesSay(m, cut) == IF m \in traded \/ cut THEN "idle" ELSE "empty"
TradesAnswer == \E cut \in BOOLEAN :
    /\ evidence.at = "asked"
    /\ evidence' = [evidence EXCEPT !.at = TradesSay(evidence.minute, cut)]
    /\ UNCHANGED <<traded, aged, coverage, complete, closing, execution, starts>>

ConfirmNoTrade ==
    /\ evidence.at = "empty"
    /\ state' = IF evidence.minute \in candles THEN state
                ELSE WithState(evidence.minute, "confirmed_no_trade")
    /\ evidence' = IdleLane
    /\ UNCHANGED <<traded, aged, candles, checks, complete, closing, execution, starts>>
-----------------------------------------------------------------------------
(* The completeness lane asks the source again for a hole; a failed request is *)
(* no check, an answer with the candle is Receive.                             *)
CheckHole(m) ==
    /\ complete.at = "idle" /\ m <= aged /\ Missing(m)
    /\ complete' = [at |-> "loaded", minute |-> m]
    /\ UNCHANGED <<traded, aged, coverage, evidence, closing, execution, starts>>

CheckFails ==
    /\ complete.at = "loaded"
    /\ complete' = IdleLane
    /\ UNCHANGED <<traded, aged, coverage, evidence, closing, execution, starts>>

(* The last empty check of the schedule is the outcome; both are written, one  *)
(* after the other.                                                            *)
LastCheckLate(n) == n > Rechecks + 1 \* what if a check came after the last
LastCheck(n) == n > Rechecks
CheckEmpty ==
    LET m == complete.minute
    IN /\ complete.at = "loaded" /\ Missing(m)
       /\ checks' = [checks EXCEPT ![m] = IF LastCheck(@) THEN @ ELSE @ + 1]
       /\ complete' = IF LastCheck(checks[m] + 1) THEN [complete EXCEPT !.at = "final"] ELSE IdleLane
       /\ UNCHANGED <<traded, aged, state, candles, evidence, closing, execution, starts>>

CheckFull ==
    /\ complete.at = "loaded" /\ ~Missing(complete.minute)
    /\ complete' = IdleLane
    /\ UNCHANGED <<traded, aged, coverage, evidence, closing, execution, starts>>

SourceAbsent ==
    /\ complete.at = "final"
    /\ state' = WithState(complete.minute, "source_absent")
    /\ complete' = IdleLane
    /\ UNCHANGED <<traded, aged, candles, checks, evidence, closing, execution, starts>>

LanesStart ==
    /\ starts < MaxLaneStarts /\ starts' = starts + 1
    /\ evidence' = IdleLane /\ complete' = IdleLane /\ closing' = 0
    /\ UNCHANGED <<traded, aged, coverage, execution>>
-----------------------------------------------------------------------------
(* The contour: its reader applies the feed up to the end ...                  *)
FeedApplies ==
    /\ copy # candles
    /\ copy' = candles
    /\ UNCHANGED <<traded, aged, coverage, lanes, pass, bar, skipped, starts>>

(* ... its tick takes the frame ...                                            *)
TakeFrame ==
    /\ pass.at = "idle" /\ \E m \in copy : m > bar
    /\ pass' = [NoPass EXCEPT !.at = "framed", !.frame = copy]
    /\ UNCHANGED <<traded, aged, coverage, lanes, copy, bar, skipped, starts>>

(* ... contiguous_after keeps the candles up to the first minute that neither  *)
(* is in the frame nor is resolved, as the database and the calendar say now.  *)
Passable(m) == state[m] \in Resolved \/ (m \in ClosedOpens /\ state[m] \in Waiting)
Allowed == {m \in pass.frame : m > bar /\ \A n \in bar + 1..m : n \in pass.frame \/ Passable(n)}
KeepContiguous ==
    /\ pass.at = "framed"
    /\ pass' = IF Allowed = {} THEN NoPass ELSE [pass EXCEPT !.at = "allowed", !.allowed = Allowed]
    /\ UNCHANGED <<traded, aged, coverage, lanes, copy, bar, skipped, starts>>

(* source_absent_between(), the record in the journal, then the simulation.    *)
AbsentBetween == {m \in Opens : m > bar /\ state[m] = "source_absent" /\ m \notin candles
                                /\ \E n \in pass.allowed : m < n}
Execute ==
    /\ pass.at = "allowed"
    /\ skipped' = skipped \cup AbsentBetween
    /\ bar' = CHOOSE m \in pass.allowed : \A n \in pass.allowed : n <= m
    /\ pass' = NoPass
    /\ UNCHANGED <<traded, aged, coverage, lanes, copy, starts>>
-----------------------------------------------------------------------------
GapNext ==
    \/ \E m \in Opens : Receive(m) \/ Scan(m) \/ FindClosed(m) \/ AskTrades(m) \/ CheckHole(m)
    \/ WriteClosed \/ Age \/ TradesAnswer \/ ConfirmNoTrade
    \/ CheckFails \/ CheckEmpty \/ CheckFull \/ SourceAbsent \/ LanesStart
    \/ FeedApplies \/ TakeFrame \/ KeepContiguous \/ Execute

GapSpec == GapInit /\ [][GapNext]_gapVars
-----------------------------------------------------------------------------
GapTypeOK ==
    /\ state \in [Opens -> Resolved \cup Waiting \cup {"none"}]
    /\ checks \in [Opens -> 0..Rechecks + 1]
    /\ copy \subseteq candles /\ candles \subseteq traded
    /\ evidence.at \in {"idle", "asked", "empty"} /\ complete.at \in {"idle", "loaded", "final"}
    /\ bar \in 0..LastOpen /\ skipped \subseteq Opens /\ aged \in 0..LastOpen

(* An outcome without a candle is earned, whatever arrives or restarts between *)
(* its reads and its write: no trade in the minute, or every check of the      *)
(* schedule empty, and never over a candle that has come (a candle outside of  *)
(* the session excepted: WriteClosed may cover it).                            *)
ResolvedIsProved == \A m \in Opens :
    /\ state[m] = "source_absent" => checks[m] > Rechecks /\ m \notin candles \ ClosedOpens
    /\ state[m] = "confirmed_no_trade" => m \notin traded

(* spec execution: after a gap execution goes on in order, without silently    *)
(* skipping a minute: a minute passed over has no candle, or it is recorded.   *)
NoMinuteIsSkipped == [][\A m \in Opens : bar < m /\ m < bar' /\ m \notin pass.allowed =>
                          m \notin candles \/ m \in skipped']_gapVars
=============================================================================
