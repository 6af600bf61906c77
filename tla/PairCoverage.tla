---------------------------- MODULE PairCoverage ----------------------------
(* How the candles of one live pair come to be complete: the needs, the proved *)
(* prefix and its lower bound (data/cache.py), warm-up, fresh polling and the  *)
(* recovery rounds (data/ingestion.py), the lanes of evidence and of           *)
(* completeness that replace the rounds (data/lanes.py).                       *)
(*                                                                             *)
(* Time is in minutes, bars are named by the minute they open. No calendar is  *)
(* applied: every bar of the grid is expected. One step of a lane is one       *)
(* action, a warm-up load lasts; what two lanes do to the rows in between is   *)
(* in GapResolution.                                                           *)
EXTENDS Integers, Sequences, FiniteSets, FiniteSetsExt
LOCAL INSTANCE SequencesExt

CONSTANTS
    Setups,         \* period: minutes of a candle, 1 is the base timeframe; stream or polling; lanes or rounds;
                    \* supply, per minute: "traded", "late", "quiet" (no trades), "lost" (trades, no candle);
                    \* depths: numbers of bars asked for; events: what may happen besides
    LateBy,         \* minutes a late candle comes after its close
    FirstMinute, ClockEnd, \* the core starts, and the bound of the clock
    EvidenceSpan, EvidenceRetry,     \* evidence_window_secs, evidence_retry_secs
    RecheckAfter, RescanAfter, FailurePause, \* completeness_recheck_secs, ..._rescan_interval_secs, 60 seconds
    PublicationDelay,                \* candle_publication_timeout_secs
    WarmupSpans,                     \* WARMUP_DAYS, in minutes; CHART_BARS is 1
    GridSlack, ChunkMinutes, BackfillSpan, \* GRID_SLACK, CHUNK_SPAN, data_backfill_window_seconds
    RoundAttempts, RoundSpan, RecoveryPause, \* recovery_max_attempts, _round_timeout_secs, _recheck_interval_secs
    DutyBars,       \* boundaries of unfinished trades
    MaxMishaps, MaxTurns             \* bounds: failed requests and lost bars; restarts, released demands, obligations

ASSUME CoverageAssumption ==
    /\ {LateBy, FirstMinute, ClockEnd, PublicationDelay, MaxMishaps, MaxTurns} \subseteq Nat
    /\ {EvidenceSpan, RescanAfter, FailurePause, GridSlack, ChunkMinutes, BackfillSpan, RoundAttempts,
        RoundSpan, RecoveryPause} \subseteq Nat \ {0}
    /\ DutyBars \subseteq 0 .. ClockEnd
    /\ \A s \in {EvidenceRetry, RecheckAfter, WarmupSpans} : s # <<>> /\ s \in Seq(Nat \ {0})
    /\ Setups \subseteq [period : Nat \ {0}, stream : BOOLEAN, lanes : BOOLEAN, depths : SUBSET (Nat \ {0}),
                          events : SUBSET {"restart", "release", "duty"},
                          supply : [0 .. ClockEnd -> {"traded", "late", "quiet", "lost"}]]

VARIABLES
    moment,    \* the clock
    setup,     \* one of Setups
    received,  \* the closed candles in the store and the frame
    proof,     \* interval_coverage: "none", "no_trade", "absent"
    prefix,    \* coverage_lower and resolved_through
    pair,      \* the member: registered, min_bars, history, warmup_days, error, execution_lower, cutover
    needs,     \* _pending_live_history and the load on its way
    duty,      \* _execution_obligations and _pending_execution_lower
    tally,     \* interval_checks: number, first, last and next check
    watch,     \* memory of the lanes: _losses, _next, _attempts, _skip_until, _fresh_at
    book,      \* RecoveryRange, what detect() saw, and next_attempt of single minutes
    demanded,    \* what has been asked for since the registration, and what the roster registered
    widened,   \* when the window of completeness last reached further back
    mishaps, turns

coverageVars == <<moment, setup, received, proof, prefix, pair, needs, duty, tally, watch, book,
                  demanded, widened, mishaps, turns>>
lanesMemory == <<tally, watch, book>>

NoBar == -1
NoMember(at) == [on |-> FALSE, depth |-> 0, done |-> FALSE, days |-> 0, short |-> FALSE, exec |-> NoBar, cutover |-> at]
NoNeed == [asked |-> 0, depth |-> 0, at |-> 0, span |-> 0, earliest |-> NoBar, retry |-> 0]
NoWatch == [loss |-> NoBar, next |-> 0, attempts |-> [b \in 0 .. ClockEnd |-> 0], skip |-> 0, fresh |-> NoBar]
NoRange == [state |-> "none", lower |-> 0, upper |-> 0, started |-> 0, retry |-> 0, checkpoint |-> 0, attempts |-> 0]
NoRounds == [range |-> NoRange, detected |-> NoBar, detectAt |-> 0, again |-> [b \in 0 .. ClockEnd |-> 0]]
NoCheck == [count |-> 0, last |-> 0, next |-> 0]

CoverageInit ==
    /\ moment = FirstMinute
    /\ setup \in Setups
    /\ received = {} /\ proof = [b \in 0 .. ClockEnd |-> "none"]
    /\ prefix = [lower |-> NoBar, resolved |-> NoBar]
    /\ pair = NoMember(FirstMinute) /\ needs = NoNeed
    /\ duty = [from |-> NoBar, pending |-> NoBar]
    /\ tally = [b \in 0 .. ClockEnd |-> NoCheck] /\ watch = NoWatch /\ book = NoRounds
    /\ demanded = [depth |-> 0, roster |-> 0] /\ widened = FirstMinute /\ mishaps = 0 /\ turns = 0
-----------------------------------------------------------------------------
(* The grid of the pair.                                                       *)
BarOf(t) == t - (t % setup.period)
After(b) == b + setup.period
Grid(from, to) == {b \in from .. to : b \in 0 .. ClockEnd /\ b % setup.period = 0}
Base == setup.period = 1

Proved(b) == b \in received \/ proof[b] # "none"
Supplied(b) == \/ setup.supply[b] = "traded" /\ After(b) <= moment
               \/ setup.supply[b] = "late" /\ After(b) + LateBy <= moment
Loaded(from, to) == received \cup {b \in Grid(from, to - 1) : Supplied(b)}
NthNewest(n, bars) == CHOOSE b \in bars : Cardinality({c \in bars : c >= b}) = n

(* live_floor() of a member.                                                   *)
FloorOf(m) == IF m.exec # NoBar THEN NoBar ELSE BarOf(m.cutover) - setup.period
LiveFloor == FloorOf(pair)
ExpectedOpen(t) == BarOf(t) - setup.period                       \* expected_live_open() without a calendar
Horizon == ExpectedOpen(moment - PublicationDelay)
FirstMissing(from, to) == LET holes == {b \in Grid(from, to) : ~Proved(b)}
                          IN  IF holes = {} THEN NoBar ELSE Min(holes)
-----------------------------------------------------------------------------
(* The proved prefix.                                                          *)

(* _advance_live_coverage(): the lower bound.                                  *)
Bounds(rec, m) == {NthNewest(m.depth, b) : b \in {c \in {rec} : Cardinality(c) >= m.depth /\ c # {}}}
                  \cup ({m.exec} \ {NoBar})
KeptLower(low, m) ==
    LET floored == Max({low, FloorOf(m)})
        keeps == /\ prefix.lower # NoBar /\ (FloorOf(m) = NoBar \/ prefix.lower >= FloorOf(m))
                 /\ prefix.resolved < floored
    IN  IF keeps THEN Min({prefix.lower, floored}) ELSE floored

(* _advance_live_coverage() of a member over these candles and proofs; the     *)
(* store's own prefix, reached to the end of a batch of proofs, is known.      *)
AdvanceOver(rec, prf, m, known) ==
    IF rec = {} \/ Bounds(rec, m) = {} THEN [prefix EXCEPT !.resolved = known]
    ELSE LET low == KeptLower(Min(Bounds(rec, m)), m)
             probe == IF known >= low THEN After(known) ELSE low
             sure == {b \in rec : b >= probe /\ \A c \in Grid(probe, b) : c \in rec \/ prf[c] # "none"}
         IN  [lower |-> low, resolved |-> Max({known} \cup sure)]
Advance(rec, m) == AdvanceOver(rec, proof, m, prefix.resolved)

(* set_interval_states() with its prefix, then refresh_live_coverage().        *)
Prove(prf, rec, rows) ==
    LET edge == IF rows = {} \/ rec = {} THEN NoBar ELSE Max(rows \cup rec)
        from == IF prefix.resolved >= prefix.lower THEN After(prefix.resolved) ELSE prefix.lower
        sure == {b \in Grid(from, edge) : \A c \in Grid(from, b) : c \in rec \/ prf[c] # "none"}
        known == IF prefix.lower = NoBar THEN prefix.resolved ELSE Max({prefix.resolved} \cup sure)
    IN  /\ proof' = prf /\ received' = rec
        /\ prefix' = IF pair.on THEN AdvanceOver(rec, prf, pair, known) ELSE [prefix EXCEPT !.resolved = known]

(* A page accepted by the cache.                                               *)
TakePage(rec) ==
    /\ received' = rec
    /\ prefix' = IF pair.on THEN Advance(rec, pair) ELSE prefix
    /\ UNCHANGED proof
-----------------------------------------------------------------------------
(* Needs and their warm-up.                                                    *)

(* request_live_history()                                                      *)
AskForBars == \E n \in setup.depths :
    /\ n > demanded.depth /\ demanded' = [demanded EXCEPT !.depth = n]
    /\ needs' = IF pair.on /\ pair.done /\ pair.depth >= n THEN needs
                ELSE [needs EXCEPT !.asked = Max({@, n})]
    /\ UNCHANGED <<moment, setup, received, proof, prefix, pair, duty, lanesMemory, mishaps, turns>>

(* register_live_pair()                                                        *)
Registered(n) ==
    LET m == IF pair.on THEN pair ELSE [NoMember(pair.cutover) EXCEPT !.on = TRUE, !.exec = IF Base THEN duty.pending ELSE NoBar]
    IN  [m EXCEPT !.depth = Max({@, n}),
                  !.done = @ /\ (n <= m.depth \/ Cardinality(received) >= n)]

(* finish_live_need(): a deeper need that came meanwhile stays.                *)
Finished(n) == IF needs.asked <= n THEN 0 ELSE needs.asked

NextSpan(days) == LET more == {i \in DOMAIN WarmupSpans : WarmupSpans[i] > days}
                  IN  IF more = {} THEN 0 ELSE WarmupSpans[Min(more)]

(* _service_need(), to the load or without one.                                *)
NeedStarts ==
    LET n == needs.asked
        m == Registered(n)
        enough == Cardinality(received) >= n
        span == NextSpan(m.days)
        served == enough \/ span = 0
    IN  /\ n > 0 /\ needs.depth = 0 /\ moment >= needs.retry
        /\ pair' = IF enough THEN [m EXCEPT !.done = TRUE, !.short = @ /\ m.done]
                   ELSE IF span = 0 THEN [m EXCEPT !.done = TRUE, !.short = TRUE] ELSE m
        /\ prefix' = Advance(received, m)
        /\ needs' = IF served THEN [needs EXCEPT !.asked = 0]
                    ELSE [needs EXCEPT !.depth = n, !.at = moment, !.span = span,
                                       !.earliest = IF received = {} THEN NoBar ELSE Min(received)]
        /\ duty' = [duty EXCEPT !.pending = NoBar]
        /\ UNCHANGED <<moment, setup, received, proof, lanesMemory, demanded, mishaps, turns>>

(* The load has come back. Without the pair, released meanwhile, the step ends *)
(* in an error and the need stays.                                             *)
NeedLoads ==
    LET rec == Loaded(needs.at - needs.span, needs.at)
        enough == Cardinality(rec) >= needs.depth
        nothingOlder == needs.span > WarmupSpans[1] /\ needs.earliest # NoBar /\ Min(rec) = needs.earliest
        m == [pair EXCEPT !.days = Max({@, needs.span}), !.done = @ \/ enough \/ nothingOlder,
                          !.short = IF enough THEN FALSE ELSE nothingOlder \/ @]
    IN  /\ needs.depth > 0
        /\ received' = IF pair.on THEN rec ELSE received
        /\ pair' = IF pair.on THEN m ELSE pair
        /\ prefix' = IF pair.on THEN Advance(rec, m) ELSE prefix
        /\ needs' = [needs EXCEPT !.depth = 0, !.asked = IF pair.on /\ (enough \/ nothingOlder) THEN Finished(needs.depth) ELSE @]
        /\ UNCHANGED <<moment, setup, proof, duty, lanesMemory, demanded, mishaps, turns>>

Turn(event) == event \in setup.events /\ turns < MaxTurns /\ turns' = turns + 1
Mishap == mishaps < MaxMishaps /\ mishaps' = mishaps + 1
NeedFails ==
    /\ needs.depth > 0 /\ Mishap
    /\ needs' = [needs EXCEPT !.depth = 0, !.retry = moment + 1]
    /\ UNCHANGED <<moment, setup, received, proof, prefix, pair, duty, lanesMemory, demanded, turns>>

(* _release_unneeded(): the demand is gone and nothing obliges; the pending    *)
(* need stays where it is.                                                     *)
Release ==
    /\ pair.on /\ duty.from = NoBar /\ demanded.depth > 0 /\ Turn("release")
    /\ pair' = NoMember(pair.cutover) /\ demanded' = [demanded EXCEPT !.depth = 0, !.roster = 0]
    /\ UNCHANGED <<moment, setup, received, proof, prefix, needs, duty, lanesMemory, mishaps>>

(* apply_obligations(): set_execution_obligations() and note_execution_lower().*)
Oblige == \E b \in DutyBars :
    /\ Base /\ duty.from = NoBar /\ b < moment /\ Turn("duty")
    /\ LET m == [pair EXCEPT !.exec = IF @ = NoBar THEN b ELSE Min({@, b})]
       IN  /\ pair' = IF pair.on THEN m ELSE pair
           /\ prefix' = IF pair.on THEN Advance(received, m) ELSE prefix
    /\ duty' = [from |-> b, pending |-> IF pair.on THEN duty.pending ELSE b]
    /\ watch' = [watch EXCEPT !.skip = 0]
    /\ UNCHANGED <<moment, setup, received, proof, needs, tally, book, demanded, mishaps>>
Discharge ==
    /\ duty.from # NoBar /\ duty' = [duty EXCEPT !.from = NoBar]
    /\ watch' = [watch EXCEPT !.skip = 0]
    /\ UNCHANGED <<moment, setup, received, proof, prefix, pair, needs, tally, book, demanded, mishaps, turns>>
-----------------------------------------------------------------------------
(* Recovery rounds, without the lanes.                                         *)

(* _merge_range()                                                              *)
MergedRange(r, from, to, atOnce) ==
    LET resumed == received # {} /\ Max(received) > r.upper
        wide == [r EXCEPT !.lower = Min({@, from}), !.upper = Max({@, to}), !.checkpoint = Min({@, from})]
    IN  IF r.state = "none"
        THEN [state |-> "active", lower |-> from, upper |-> to, started |-> moment, retry |-> moment,
              checkpoint |-> from, attempts |-> 0]
        ELSE IF r.state = "parked" /\ (atOnce \/ resumed)
        THEN [wide EXCEPT !.state = "active", !.attempts = 0, !.started = moment, !.retry = moment]
        ELSE [wide EXCEPT !.retry = IF atOnce THEN Min({@, moment}) ELSE @]

(* _clip_to_floor()                                                            *)
Clipped(r) == IF r.state = "none" \/ LiveFloor = NoBar \/ r.lower >= LiveFloor THEN r
              ELSE IF r.upper < LiveFloor THEN NoRange
              ELSE [r EXCEPT !.lower = LiveFloor, !.checkpoint = Max({@, LiveFloor})]

(* _first_missing() of the whole prefix.                                       *)
PrefixStart == IF prefix.resolved # NoBar THEN After(prefix.resolved) ELSE prefix.lower
PrefixMissing == IF PrefixStart = NoBar THEN NoBar ELSE FirstMissing(Max({PrefixStart, LiveFloor}), Horizon)

(* detect()                                                                    *)
Detected(r, missing) ==
    IF missing # NoBar THEN MergedRange(r, missing, Horizon, FALSE)
    ELSE IF r.upper <= Horizon THEN NoRange ELSE r
Detect ==
    /\ ~setup.lanes /\ pair.on /\ pair.done /\ moment >= book.detectAt
    /\ book' = [book EXCEPT !.detectAt = moment + 1, !.detected = Horizon,
                            !.range = Detected(Clipped(book.range), PrefixMissing)]
    /\ UNCHANGED <<moment, setup, received, proof, prefix, pair, needs, duty, tally, watch, demanded, mishaps, turns>>

(* _confirm_no_trades(): bars wholly within the last hour, without a candle    *)
(* and without a trade.                                                        *)
Quiet(rec, from, to) ==
    {b \in Grid(Max({from, moment - EvidenceSpan}), Min({to, ExpectedOpen(moment)})) :
        b \notin rec /\ setup.supply[b] = "quiet" /\ (After(b) > ClockEnd \/ setup.supply[After(b) - 1] = "quiet")}
ProvedBy(rows, state) == [b \in DOMAIN proof |-> IF b \in rows /\ b \notin received THEN state ELSE proof[b]]

Backoff(n) == Min({RecoveryPause, 2 ^ (n - 1)})
Exhausted(r) == r.attempts >= RoundAttempts \/ moment - r.started >= RoundSpan
Parked(r, missing) == [r EXCEPT !.state = "parked", !.retry = moment + RecoveryPause,
                                !.checkpoint = IF missing = NoBar THEN @ ELSE missing]
MayPark(r, missing) == IF r.state = "active" /\ Exhausted(r) THEN Parked(r, missing) ELSE r

(* chunk_windows(): the end of the first window, and the start of the next.    *)
ChunkEnd(r) == Min({r.checkpoint + ChunkMinutes, After(r.upper)})
NextChunk(r) == IF BarOf(ChunkEnd(r) - 1) > r.checkpoint THEN BarOf(ChunkEnd(r) - 1) ELSE ChunkEnd(r)

(* _recover_chunk(), after a load and what GetLastTrades said of the rest.     *)
Recovered(r, missing) ==
    LET tried == [r EXCEPT !.checkpoint = missing, !.attempts = IF r.state = "active" THEN @ + 1 ELSE @]
        again == [tried EXCEPT !.retry = moment + (IF r.state = "active" THEN Backoff(tried.attempts) ELSE RecoveryPause)]
    IN  IF missing = NoBar THEN NoRange ELSE MayPark(again, missing)

RecoverRange == \E answer \in {"fails", "mute", "told"} :
    LET r == book.range
        rec == Loaded(r.checkpoint, ChunkEnd(r))
        gap(prf) == {b \in Grid(Max({r.lower, LiveFloor}), r.upper) : b \notin rec /\ prf[b] = "none"}
        rows == IF answer = "told" /\ gap(proof) # {} THEN Quiet(rec, Min(gap(proof)), r.upper) ELSE {}
        rest == gap(ProvedBy(rows, "no_trade"))
    IN  /\ ~setup.lanes /\ pair.on /\ pair.done /\ r.state # "none" /\ moment >= r.retry
        /\ IF answer = "told" THEN UNCHANGED mishaps ELSE Mishap
        /\ \/ /\ r.state = "active" /\ Exhausted(r) /\ answer = "told"
              /\ book' = [book EXCEPT !.range = Parked(r, FirstMissing(Max({r.checkpoint, LiveFloor}), r.upper))]
              /\ UNCHANGED <<received, proof, prefix>>
           \/ /\ ~(r.state = "active" /\ Exhausted(r)) /\ answer = "fails"
              /\ LET tried == [r EXCEPT !.attempts = @ + 1, !.retry = moment + Backoff(r.attempts + 1)]
                 IN  book' = [book EXCEPT !.range = MayPark(tried, r.checkpoint)]
              /\ UNCHANGED <<received, proof, prefix>>
           \/ /\ ~(r.state = "active" /\ Exhausted(r)) /\ answer # "fails"
              /\ IF r.state = "active" /\ ChunkEnd(r) < After(r.upper)
                 THEN /\ answer = "told" /\ TakePage(rec)
                      /\ book' = [book EXCEPT !.range.checkpoint = NextChunk(r), !.range.retry = moment]
                 ELSE /\ Prove(ProvedBy(rows, "no_trade"), rec, rows)
                      /\ book' = [book EXCEPT !.range = Recovered(r, IF rest = {} THEN NoBar ELSE Min(rest))]
        /\ UNCHANGED <<moment, setup, pair, needs, duty, tally, watch, demanded, turns>>

(* _service_execution_gap(): the first minute an unfinished trade still needs. *)
DutyMissing == FirstMissing(Max({duty.from, LiveFloor}), Horizon)
RecoverDuty == \E answered \in BOOLEAN :
    /\ ~setup.lanes /\ pair.on /\ pair.done /\ duty.from # NoBar
    /\ DutyMissing # NoBar /\ book.again[DutyMissing] <= moment
    /\ IF answered THEN UNCHANGED mishaps ELSE Mishap
    /\ TakePage(IF answered THEN Loaded(DutyMissing, After(DutyMissing)) ELSE received)
    /\ book' = [book EXCEPT !.again[DutyMissing] = moment + RecoveryPause]
    /\ UNCHANGED <<moment, setup, pair, needs, duty, tally, watch, demanded, turns>>
-----------------------------------------------------------------------------
(* The live lane.                                                              *)

(* note_loss() of the lane of evidence or of the worker.                       *)
NoteLoss(b) ==
    IF setup.lanes
    THEN /\ watch' = [watch EXCEPT !.loss = IF @ = NoBar THEN b ELSE Min({@, b}), !.next = 0]
         /\ UNCHANGED book
    ELSE /\ book' = [book EXCEPT !.range = MergedRange(@, b, ExpectedOpen(moment), TRUE)]
         /\ UNCHANGED watch

LastClosed == IF received = {} THEN NoBar ELSE Max(received)

(* _service_fresh(): from the last candle on, no further back than the window. *)
PollFresh == \E answered \in BOOLEAN :
    LET expected == ExpectedOpen(moment)
        start == IF LastClosed = NoBar THEN moment - BackfillSpan ELSE Max({moment - BackfillSpan, LastClosed})
    IN  /\ ~setup.stream /\ pair.on /\ pair.done /\ LastClosed < expected /\ watch.fresh < moment
        /\ IF answered THEN UNCHANGED mishaps ELSE Mishap
        /\ TakePage(IF answered THEN Loaded(Min({start, expected}), moment) ELSE received)
        /\ watch' = [watch EXCEPT !.fresh = moment]
        /\ UNCHANGED <<moment, setup, pair, needs, duty, tally, book, demanded, turns>>

(* The stream brings the bar that has closed, or loses it and tells.           *)
Streamed ==
    LET b == ExpectedOpen(moment)
    IN  /\ setup.stream /\ pair.on /\ b >= 0 /\ b \notin received /\ Supplied(b) /\ setup.supply[b] = "traded"
        /\ moment = After(b)
        /\ \/ TakePage(received \cup {b}) /\ UNCHANGED <<watch, book, mishaps>>
           \/ Mishap /\ NoteLoss(b) /\ UNCHANGED <<received, proof, prefix>>
        /\ UNCHANGED <<moment, setup, pair, needs, duty, tally, demanded, turns>>
-----------------------------------------------------------------------------
(* The lanes of evidence and of completeness.                                  *)

(* window_lower(); without contours no cursor floor of theirs widens it.       *)
WindowDepth == IF pair.depth = 0 THEN 1 ELSE pair.depth
WindowBounds ==
    {IF Cardinality(received) >= n THEN NthNewest(n, received)
     ELSE BarOf(Max({moment - setup.period * n * GridSlack, 0})) : n \in {WindowDepth}}
    \cup (IF Base THEN {duty.from, LiveFloor} \ {NoBar} ELSE {})
WindowLower == Min(WindowBounds)

(* _upper(): the last bar that has left the window of evidence as a whole.     *)
LaneUpper == Min({Horizon, BarOf(moment - EvidenceSpan) - setup.period})
LaneHoles == {b \in Grid(WindowLower, LaneUpper) : ~Proved(b)}
DueHoles == {b \in LaneHoles : tally[b].next <= moment}
LaterChecks == {tally[b].next : b \in LaneHoles \ DueHoles}

(* EvidenceLane._bounds() and _pending_pair()                                  *)
FirstWhole(t) == IF BarOf(t) < t THEN After(BarOf(t)) ELSE BarOf(t)
EvidenceTo == IF watch.loss = NoBar THEN Horizon ELSE ExpectedOpen(moment)
EvidenceMissing == FirstMissing(Max({FirstWhole(Max({moment - EvidenceSpan, 0})), watch.loss, WindowLower}), EvidenceTo)

(* _schedule()                                                                 *)
Scheduled(missing) ==
    LET n == watch.attempts[missing]
    IN  [watch EXCEPT !.attempts = [b \in DOMAIN @ |-> IF b < moment - EvidenceSpan THEN 0 ELSE IF b = missing THEN n + 1 ELSE @[b]],
                      !.next = moment + EvidenceRetry[Min({n + 1, Len(EvidenceRetry)})]]

(* EvidenceLane.step() with something to look for, and without.                *)
LookForEvidence == \E answer \in {"fails", "mute", "told"} :
    LET missing == EvidenceMissing
        to == EvidenceTo
        rec == Loaded(missing, After(to))
        gap(prf) == {b \in Grid(missing, to) : b \notin rec /\ prf[b] = "none"}
        rows == IF answer = "told" /\ gap(proof) # {} THEN Quiet(rec, Min(gap(proof)), to) ELSE {}
        rest == gap(ProvedBy(rows, "no_trade"))
    IN  /\ setup.lanes /\ pair.on /\ pair.done /\ moment >= watch.next /\ missing # NoBar
        /\ IF answer = "told" THEN UNCHANGED mishaps ELSE Mishap
        /\ IF answer = "fails" THEN watch' = Scheduled(missing) /\ UNCHANGED <<received, proof, prefix>>
           ELSE /\ Prove(ProvedBy(rows, "no_trade"), rec, rows)
                /\ watch' = IF rest = {} THEN [watch EXCEPT !.loss = NoBar, !.next = 0]
                            ELSE Scheduled(Min(rest))
        /\ UNCHANGED <<moment, setup, pair, needs, duty, tally, book, demanded, turns>>
NothingToProve ==
    /\ setup.lanes /\ pair.on /\ pair.done /\ moment >= watch.next /\ EvidenceMissing = NoBar
    /\ watch.loss # NoBar /\ watch' = [watch EXCEPT !.loss = NoBar]
    /\ UNCHANGED <<moment, setup, received, proof, prefix, pair, needs, duty, tally, book, demanded, mishaps, turns>>

(* CompletenessLane.step() without a hole to check now: asleep until the next  *)
(* check or the next count of the window.                                      *)
AsleepUntil(later) == Min({moment + RescanAfter} \cup later)
LaneAwake == setup.lanes /\ pair.on /\ moment >= watch.skip
NoHoles ==
    /\ LaneAwake /\ DueHoles = {}
    /\ watch' = [watch EXCEPT !.skip = AsleepUntil(LaterChecks)]
    /\ UNCHANGED <<moment, setup, received, proof, prefix, pair, needs, duty, tally, book, demanded, mishaps, turns>>

(* _first_run(): the first holes in a row, within one request.                 *)
FirstRun == LET due == DueHoles
                first == Min(due)
            IN  {b \in due : Grid(first, b) \subseteq due /\ After(b) - first <= ChunkMinutes}

(* _record(): the next check of a bar that is still not there, or its end.     *)
Recorded(missing) ==
    [b \in DOMAIN tally |->
        IF b \notin missing THEN tally[b]
        ELSE [count |-> tally[b].count + 1, last |-> moment,
              next |-> IF tally[b].count + 1 > Len(RecheckAfter) THEN 0 ELSE moment + RecheckAfter[tally[b].count + 1]]]
GivenUpEarly(missing) == {b \in missing : tally[b].count + 1 >= Len(RecheckAfter)} \* one check too few
GivenUp(missing) == {b \in missing : tally[b].count + 1 > Len(RecheckAfter)}

(* CompletenessLane._check(): a failed request is no check.                    *)
CheckHoles == \E answered \in BOOLEAN :
    /\ LaneAwake /\ DueHoles # {}
    /\ IF answered
       THEN LET run == FirstRun
                rec == Loaded(Min(run), After(Max(run)))
                missing == {b \in run : b \notin rec}
            IN  /\ Prove(ProvedBy(GivenUp(missing), "absent"), rec, GivenUp(missing))
                /\ tally' = Recorded(missing)
                /\ UNCHANGED <<watch, mishaps>>
       ELSE /\ Mishap /\ watch' = [watch EXCEPT !.skip = moment + FailurePause]
            /\ UNCHANGED <<received, proof, prefix, tally>>
    /\ UNCHANGED <<moment, setup, pair, needs, duty, book, demanded, turns>>
-----------------------------------------------------------------------------
(* The clock; the lanes and the worker do what is due within the minute, only  *)
(* the load of a warm-up may last.                                             *)
Busy == /\ pair.on
        /\ \/ LaneAwake
           \/ pair.done /\ setup.lanes /\ moment >= watch.next /\ (EvidenceMissing # NoBar \/ watch.loss # NoBar)
           \/ pair.done /\ ~setup.stream /\ LastClosed < ExpectedOpen(moment) /\ watch.fresh < moment
           \/ pair.done /\ ~setup.lanes /\ moment >= book.detectAt
           \/ pair.done /\ ~setup.lanes /\ book.range.state # "none" /\ moment >= book.range.retry
Minute ==
    /\ moment < ClockEnd /\ ~Busy
    /\ moment' = moment + 1
    /\ UNCHANGED <<setup, received, proof, prefix, pair, needs, duty, lanesMemory, demanded, mishaps, turns>>

(* The core starts again: memory is gone, the rows stay; with lanes the saved  *)
(* roster registers its pairs before anything is asked.                        *)
CoreRestarts ==
    /\ Turn("restart")
    /\ LET m == [NoMember(moment) EXCEPT !.on = pair.on /\ setup.lanes, !.depth = IF setup.lanes THEN pair.depth ELSE 0]
       IN  /\ pair' = m
           /\ prefix' = IF m.on THEN Advance(received, m) ELSE prefix
    /\ needs' = NoNeed /\ duty' = [from |-> NoBar, pending |-> NoBar] /\ watch' = NoWatch
    /\ book' = IF setup.lanes THEN NoRounds ELSE [NoRounds EXCEPT !.range = book.range, !.again = book.again]
    /\ demanded' = [demanded EXCEPT !.depth = 0, !.roster = pair'.depth]
    /\ UNCHANGED <<moment, setup, received, proof, tally, mishaps>>

CoverageStep ==
    \/ AskForBars \/ NeedStarts \/ NeedLoads \/ NeedFails \/ Release \/ Oblige \/ Discharge
    \/ Detect \/ RecoverRange \/ RecoverDuty \/ PollFresh \/ Streamed
    \/ LookForEvidence \/ NothingToProve \/ NoHoles \/ CheckHoles \/ Minute \/ CoreRestarts
CoverageNext ==
    /\ CoverageStep
    /\ widened' = IF pair'.on /\ (~pair.on \/ WindowLower' < WindowLower \/ turns' > turns) THEN moment' ELSE widened
-----------------------------------------------------------------------------
CoverageTypeOK ==
    LET Minutes == 0 .. ClockEnd
        Bar == Minutes \cup {NoBar}
        Clock == 0 .. ClockEnd + Max(ToSet(RecheckAfter) \cup ToSet(EvidenceRetry)
                                     \cup {RescanAfter, FailurePause, RecoveryPause, RoundSpan, setup.period})
    IN  /\ moment \in Minutes /\ setup \in Setups /\ received \subseteq Minutes
        /\ proof \in [Minutes -> {"none", "no_trade", "absent"}]
        /\ prefix \in [lower : Int, resolved : Bar]
        /\ pair \in [on : BOOLEAN, depth : {0} \cup setup.depths, done : BOOLEAN, days : {0} \cup ToSet(WarmupSpans),
                      short : BOOLEAN, exec : Bar, cutover : Minutes]
        /\ needs \in [asked : {0} \cup setup.depths, depth : {0} \cup setup.depths, at : Minutes,
                       span : {0} \cup ToSet(WarmupSpans), earliest : Bar, retry : Clock]
        /\ duty \in [from : Bar, pending : Bar]
        /\ tally \in [Minutes -> [count : 0 .. Len(RecheckAfter) + 1, last : Minutes, next : Clock]]
        /\ watch \in [loss : Bar, next : Clock, attempts : [Minutes -> Nat], skip : Clock, fresh : Bar]
        /\ book \in [range : [state : {"none", "active", "parked"}, lower : Int, upper : Int, started : Minutes,
                               retry : Clock, checkpoint : Int, attempts : Nat],
                      detected : Int, detectAt : Clock, again : [Minutes -> Clock]]
        /\ demanded \in [depth : {0} \cup setup.depths, roster : {0} \cup setup.depths]
        /\ widened \in Minutes /\ mishaps \in 0 .. MaxMishaps /\ turns \in 0 .. MaxTurns

(* A bar is given up as absent at its source only after a check made the whole *)
(* schedule of rechecks after the bar had left the window of evidence.         *)
AbsentIsEarned ==
    \A b \in DOMAIN proof :
        proof[b] = "absent" => tally[b].last >= After(b) + EvidenceSpan + FoldSeq(LAMBDA x, y : x + y, 0, RecheckAfter)

(* When nothing is pending any more, a registered pair has the bars that were  *)
(* asked of it, or is marked as one whose source has no more; what the roster  *)
(* of an earlier life asked is taken over as it was.                           *)
NeedIsServed ==
    needs.asked = 0 /\ pair.on /\ demanded.depth > demanded.roster =>
        /\ pair.done /\ pair.depth >= demanded.depth
        /\ Cardinality(received) >= demanded.depth \/ pair.short

(* No hole of the window of completeness waits for its check longer than one   *)
(* count of the window after it is due, failed requests put aside.             *)
DueFrom(b) == Max({After(b) + EvidenceSpan, After(b) + PublicationDelay, tally[b].next, widened})
HolesAreAttended ==
    setup.lanes /\ pair.on =>
        \A b \in Grid(WindowLower, moment) :
            Proved(b) \/ moment <= DueFrom(b) + RescanAfter + MaxMishaps * FailurePause
=============================================================================
