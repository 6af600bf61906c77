--------------------------- MODULE ClusterEvents ---------------------------
(* The cluster filter of entries: a Redis stream read by a consumer group into *)
(* the core's store, the verdict a contour reads from it, and the verdict a    *)
(* history run gives later from a copy.                                        *)
(*   src/src/clusters/consumer.py, store.py, gate.py, verdict.py               *)
(* Prices are logarithms in units of sigma, one candle closes per minute; the  *)
(* history for sigma is long enough.                                           *)
EXTENDS Integers, Sequences, FiniteSets, FiniteSetsExt
CONSTANTS
    Markets,      \* [stream, course, bar, side]: a sequence of [what, paper, dir, of, at] in
                  \* order of publication, a function from the minutes with a candle to its
                  \* close, the bar that gives a signal and its side
    Batch, MaxLag,
    PreWindow, RangeWindow, StaleAfter, ClimaxWindow, InitiativeWindow,
    PreVeto, InitiativeMax, ExtremePct, EnforceLevel,
    LastTick, MaxBreaks     \* bounds
What == {"volume_spike", "large_aggressor", "absorption", "signal_revoked", "signal_confirmed",
         "data_degraded", "data_restored"}
ASSUME ClusterAssumption ==
    /\ \A s \in {m.stream : m \in Markets} : \A i \in DOMAIN s : s[i].what \in What /\ s[i].paper \in {"ours", "sister"}
                                              /\ s[i].dir \in {-1, 0, 1} /\ s[i].at \in Nat
    /\ {Batch, PreWindow, RangeWindow, StaleAfter, ClimaxWindow, InitiativeWindow} \subseteq Nat \ {0}
    /\ InitiativeMax < PreVeto /\ ClimaxWindow <= InitiativeWindow
    /\ {MaxLag, ExtremePct, LastTick, MaxBreaks} \subseteq Nat /\ EnforceLevel \in {"veto", "veto_strong"}
VARIABLES
    stream, course, entrySignal,    \* what is published, what the market does, [bar, side]
    tick,
    group,        \* the group exists
    delivered,    \* its last delivered entry
    waiting,      \* delivered and not acknowledged
    eventStore, lastStreamId, readAt,    \* the core's database; readAt = -1: never
    consuming,    \* idle, write, ack
    ready, pendingDone, batch,           \* the consumer's memory
    judged,       \* the live verdict of one signal
    copied,       \* what a history run works on
    breaks
clusterVars == <<stream, course, entrySignal, tick, group, delivered, waiting, eventStore, lastStreamId, readAt, consuming, ready,
                 pendingDone, batch, judged, copied, breaks>>
consumerVars == <<consuming, ready, pendingDone, batch>>

NotYet == [at |-> -1]
NoCopy == [taken |-> FALSE]
ClustersInit ==
    /\ \E market \in Markets : /\ stream = market.stream /\ course = market.course
                              /\ entrySignal = [bar |-> market.bar, side |-> market.side]
    /\ tick = 0
    /\ group = FALSE /\ delivered = 0 /\ waiting = {} /\ eventStore = {} /\ lastStreamId = 0 /\ readAt = -1
    /\ consuming = "idle" /\ ready = FALSE /\ pendingDone = FALSE /\ batch = {}
    /\ judged = NotYet /\ copied = NoCopy /\ breaks = 0

Published == {i \in DOMAIN stream : stream[i].at <= tick}
Storable(ids) == {i \in ids : stream[i].what # "signal_confirmed"}
Leading(ids) == {i \in ids : Cardinality({j \in ids : j < i}) < Batch}

(* Where reading goes on.                                                      *)
Cursor(ids) == Max(ids)
------------------------------------------------------------------------------
(* The verdict                                                                 *)

(* close_at: the last close not later than t; a minute before all is -1.       *)
CandleOf(prices, t) == LET past == {m \in DOMAIN prices : m <= t} IN IF past = {} THEN -1 ELSE Max(past)
MoveInto(prices, t) ==
    LET now == CandleOf(prices, t) before == CandleOf(prices, t - PreWindow)
    IN  [known |-> now # -1 /\ before # -1,
         size |-> IF now # -1 /\ before # -1 THEN prices[now] - prices[before] ELSE 0]
(* How near the extreme of the range in its own direction an entry is.         *)
AtExtreme(prices, t, side) ==
    LET range == {prices[m] : m \in {k \in DOMAIN prices : t - RangeWindow < k /\ k <= t}}
        last  == prices[CandleOf(prices, t)]
    IN  IF range = {} \/ Max(range) = Min(range) THEN 50 >= ExtremePct
        ELSE (IF side = 1 THEN last - Min(range) ELSE Max(range) - last) * 100
                 >= ExtremePct * (Max(range) - Min(range))

(* The label of an event by the move of the price before it. An absorption's   *)
(* direction is against the side it absorbed.                                  *)
Label(prices, e, side) ==
    LET move == MoveInto(prices, e.at)
        own  == e.dir * move.size
    IN  IF e.what = "absorption" /\ e.dir = -side THEN "absorption_against"
        ELSE IF move.known /\ own >= PreVeto THEN "climax"
        ELSE IF move.known /\ own < InitiativeMax THEN "initiative" ELSE "other"
Against(prices, e, side, t) ==
    /\ e.at > t - ClimaxWindow
    /\ LET label == Label(prices, e, side)
       IN  \/ label = "climax" /\ e.dir = side
           \/ label = "absorption_against"
           \/ label = "initiative" /\ e.dir = -side
Supports(prices, e, side) ==
    e.what = "large_aggressor" /\ e.dir = side /\ Label(prices, e, side) = "initiative"

Weighed(prices, events, t, side) ==
    LET pre == MoveInto(prices, t)
        against(e) == Against(prices, e, side, t)
    IN  IF ~pre.known \/ t - CandleOf(prices, t) > StaleAfter THEN "candles_missing"
        ELSE IF side * pre.size >= PreVeto /\ \E e \in events : against(e)
        THEN IF AtExtreme(prices, t, side) THEN "veto_strong" ELSE "veto"
        ELSE IF \E e \in events : Supports(prices, e, side) THEN "confirm" ELSE "neutral"

(* What the store answers about the paper up to t.                             *)
RevokedEver(ids, t) ==   \* mutant: whenever it was revoked
    {stream[i].of : i \in {j \in ids : stream[j].what = "signal_revoked"}}
Revoked(ids, t) == {stream[i].of : i \in {j \in ids : stream[j].what = "signal_revoked" /\ stream[j].at <= t}}
Signals(ids, t) ==
    {stream[i] : i \in {j \in ids \ Revoked(ids, t) : /\ stream[j].what \in {"volume_spike", "large_aggressor", "absorption"}
                                                    /\ stream[j].paper = "ours" /\ stream[j].dir # 0
                                                    /\ t - InitiativeWindow < stream[j].at /\ stream[j].at <= t}}
HasEvents(ids, t) == \E i \in ids : stream[i].paper = "ours" /\ stream[i].at <= t
Uncovered(ids, t) ==
    IF \E i \in ids : stream[i].paper = "sister" /\ stream[i].at <= t THEN "contract_mismatch" ELSE "no_coverage"
LastQuality(ids, t) ==
    LET said == {i \in ids : stream[i].what \in {"data_degraded", "data_restored"} /\ stream[i].paper = "ours"
                             /\ stream[i].at <= t}
    IN  IF said = {} THEN "none" ELSE stream[Max(said)].what
(* _evaluate without the check of the reading's lag.                           *)
Verdict(ids, t, side) ==
    IF ~HasEvents(ids, t) THEN Uncovered(ids, t)
    ELSE IF LastQuality(ids, t) = "data_degraded" THEN "data_degraded"
    ELSE Weighed(course, Signals(ids, t), t, side)
ReadsLately == readAt # -1 /\ tick - readAt <= MaxLag
LiveVerdict(t, side) ==
    IF ~ReadsLately THEN "consumer_lag" ELSE Verdict(eventStore, t, side)
BlocksEntry(mode, verdict) ==
    mode = "enforce" /\ (verdict = "veto_strong" \/ (verdict = "veto" /\ EnforceLevel = "veto"))

------------------------------------------------------------------------------
(* The consumer                                                                *)

(* The group is made if it is not there, or found.                             *)
GroupMade == group' = TRUE /\ IF group THEN UNCHANGED <<delivered, waiting>> ELSE delivered' = 0 /\ waiting' = {}
(* XREADGROUP: its own unacknowledged entries until none is left, then new     *)
(* ones.                                                                       *)
ReadGroup ==
    /\ consuming = "idle" /\ (ready => group)
    /\ LET at   == IF group THEN delivered ELSE 0
           own  == IF group THEN waiting ELSE {}
           got  == Leading(IF pendingDone THEN {i \in Published : i > at} ELSE own)
       IN  /\ group' = TRUE /\ ready' = TRUE /\ batch' = got
           /\ delivered' = IF pendingDone /\ got # {} THEN Cursor(got) ELSE at
           /\ waiting' = own \cup got
           /\ pendingDone' = (pendingDone \/ got = {})
           /\ consuming' = IF got = {} THEN "idle" ELSE "write"
           /\ readAt' = IF got = {} THEN tick ELSE readAt
    /\ UNCHANGED <<stream, course, entrySignal, tick, eventStore, lastStreamId, judged, copied, breaks>>
GroupIsGone ==   \* NOGROUP: made anew, from the beginning of the stream
    /\ consuming = "idle" /\ ready /\ ~group /\ GroupMade /\ pendingDone' = FALSE
    /\ UNCHANGED <<stream, course, entrySignal, tick, eventStore, lastStreamId, readAt, consuming, ready, batch, judged, copied, breaks>>
WriteBatch ==
    /\ consuming = "write" /\ consuming' = "ack"
    /\ eventStore' = eventStore \cup Storable(batch) /\ lastStreamId' = Cursor(batch)
    /\ UNCHANGED <<stream, course, entrySignal, tick, group, delivered, waiting, readAt, ready, pendingDone, batch, judged, copied, breaks>>
AckBatch ==
    /\ consuming = "ack" /\ consuming' = "idle" /\ batch' = {} /\ waiting' = waiting \ batch /\ readAt' = tick
    /\ UNCHANGED <<stream, course, entrySignal, tick, group, delivered, eventStore, lastStreamId, ready, pendingDone, judged, copied, breaks>>
(* The store or Redis refuses: the loop goes on with a new step.               *)
StepFails ==
    /\ consuming # "idle" /\ breaks < MaxBreaks /\ breaks' = breaks + 1 /\ consuming' = "idle" /\ batch' = {}
    /\ UNCHANGED <<stream, course, entrySignal, tick, group, delivered, waiting, eventStore, lastStreamId, readAt, ready, pendingDone,
                   judged, copied>>
ConsumerRestarts ==
    /\ ready /\ breaks < MaxBreaks /\ breaks' = breaks + 1
    /\ consuming' = "idle" /\ batch' = {} /\ ready' = FALSE /\ pendingDone' = FALSE
    /\ UNCHANGED <<stream, course, entrySignal, tick, group, delivered, waiting, eventStore, lastStreamId, readAt, judged, copied>>
RedisForgetsGroup ==
    /\ group /\ consuming = "idle" /\ breaks < MaxBreaks /\ breaks' = breaks + 1
    /\ group' = FALSE /\ delivered' = 0 /\ waiting' = {}
    /\ UNCHANGED <<stream, course, entrySignal, tick, eventStore, lastStreamId, readAt, consumerVars, judged, copied>>

StreamMinute ==
    /\ tick < LastTick /\ tick' = tick + 1
    /\ UNCHANGED <<stream, course, entrySignal, group, delivered, waiting, eventStore, lastStreamId, readAt, consumerVars, judged,
                   copied, breaks>>
(* A bar closes, and an entry is judged.                                       *)
JudgeEntry ==
    /\ judged = NotYet /\ tick >= entrySignal.bar
    /\ judged' = [at |-> entrySignal.bar, verdict |-> LiveVerdict(entrySignal.bar, entrySignal.side),
                  whole |-> {i \in Storable(DOMAIN stream) : stream[i].at <= entrySignal.bar} \subseteq eventStore]
    /\ UNCHANGED <<stream, course, entrySignal, tick, group, delivered, waiting, eventStore, lastStreamId, readAt, consumerVars,
                   copied, breaks>>
(* A history run copies the store, then reads the rest of the stream itself,   *)
(* if Redis answers.                                                           *)
CopyForHistory ==
    /\ copied = NoCopy /\ judged # NotYet
    /\ \E answers \in BOOLEAN :
          copied' = [taken |-> TRUE, redis |-> answers, owed |-> (waiting \cup (delivered + 1 .. lastStreamId)) \ eventStore,
                     ids |-> eventStore \cup IF answers THEN Storable({i \in Published : i > lastStreamId}) ELSE {}]
    /\ UNCHANGED <<stream, course, entrySignal, tick, group, delivered, waiting, eventStore, lastStreamId, readAt, consumerVars,
                   judged, breaks>>

ClustersNext ==
    \/ ReadGroup \/ GroupIsGone \/ WriteBatch \/ AckBatch \/ StepFails \/ ConsumerRestarts \/ RedisForgetsGroup
    \/ StreamMinute \/ JudgeEntry \/ CopyForHistory

------------------------------------------------------------------------------
ClustersTypeOK ==
    /\ [stream |-> stream, course |-> course, bar |-> entrySignal.bar, side |-> entrySignal.side] \in Markets
    /\ tick \in 0 .. LastTick /\ group \in BOOLEAN
    /\ {delivered, lastStreamId} \subseteq 0 .. Len(stream) /\ waiting \cup eventStore \cup batch \subseteq DOMAIN stream
    /\ readAt \in -1 .. LastTick /\ consuming \in {"idle", "write", "ack"} /\ {ready, pendingDone} \subseteq BOOLEAN
    /\ breaks \in 0 .. MaxBreaks
    /\ (judged = NotYet \/ judged.at \in 0 .. LastTick)
    /\ (copied = NoCopy \/ copied.ids \subseteq DOMAIN stream)

(* An entry acknowledged is in the store; the others of the group still wait.  *)
AckedIsStored == group => \A i \in Storable(1 .. delivered) : i \in eventStore \cup waiting

(* A history run that reached Redis has every event but those whose writing    *)
(* failed and which the live group has still to read again.                    *)
CopyIsWhole ==
    copied # NoCopy /\ copied.redis =>
        \A i \in Storable(DOMAIN stream) : stream[i].at <= judged.at => i \in copied.ids \cup copied.owed

(* What was published or revoked after the bar does not matter: the history    *)
(* run gives the verdict the live robot gave when it had read everything, and  *)
(* buying is judged as selling in a mirror.                                    *)
Mirror(prices) == [m \in DOMAIN prices |-> -prices[m]]
Mirrored(events) == {[e EXCEPT !.dir = -@] : e \in events}
HistoryAgrees ==
    /\ copied # NoCopy /\ judged.whole /\ judged.verdict # "consumer_lag" =>
          /\ Verdict(copied.ids, judged.at, entrySignal.side) = judged.verdict
          /\ \A mode \in {"shadow", "enforce"} :
                BlocksEntry(mode, judged.verdict) = BlocksEntry(mode, Verdict(copied.ids, judged.at, entrySignal.side))
    /\ judged # NotYet =>
          LET events == Signals(DOMAIN stream, judged.at)
          IN  Weighed(course, events, judged.at, entrySignal.side)
                  = Weighed(Mirror(course), Mirrored(events), judged.at, -entrySignal.side)
=============================================================================
