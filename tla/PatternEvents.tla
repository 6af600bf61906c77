--------------------------- MODULE PatternEvents ---------------------------
(* The publisher of candle patterns: a watch puts closed bars into a queue, a  *)
(* thread analyses them and sends what it finds to Redis through an outbox.    *)
(*   src/src/market_structure/worker.py, trigger.py, patterns/                 *)
(*   src/src/data/market_store.py (pattern_context, the outbox)                *)
(* A candle keeps its first content here, and retention of the stream is left  *)
(* out.                                                                        *)
EXTENDS Integers, Sequences, SequencesExt, FiniteSets, FiniteSetsExt, TLC
CONSTANTS
    PatternPairs, \* pairs of the contours' demand
    Shapes,       \* the bars of a pair in order, records [open, close]
    WarmBars,     \* the first bars that are there from the start
    PatternQueue, \* queue_maxsize
    MaxPatternFaults \* bound: failures of Redis and of the database, restarts
ASSUME PatternAssumption ==
    /\ PatternPairs # {} /\ WarmBars \in 2 .. Len(Shapes) /\ PatternQueue \in Nat \ {0} /\ MaxPatternFaults \in Nat
    /\ Shapes \in Seq([open : Int, close : Int])
VARIABLES
    lastBar,      \* external: the number of bars that have closed
    intervals,      \* external: the state of each bar in the database, none where nothing is recorded
    warmed,       \* pairs whose history is done
    sentMark,     \* trigger._sent, 0: not there
    watermark, patternQueue, deferredTasks, pendingTasks,
    doing,        \* the task the thread has taken, <<>> without one
    workerAt, batch, \* where it is, and the events it has read to send
    sending,      \* the event sent and not marked yet, <<>> without one
    outbox,       \* per event recorded: due, held (a second after a failure) or delivered
    streamed,     \* external: per event, its copies in market.events
    primed, analysedTasks, \* history of one life: where a pair's watch began, the tasks carried to the end,
    unsure,       \*   and for each event, how often it went without a mark
    patternFaults
watchVars == <<warmed, sentMark, primed>>
taskVars == <<watermark, patternQueue, deferredTasks, pendingTasks, analysedTasks>>
outboxVars == <<batch, sending, outbox, streamed, unsure>>
patternVars == <<lastBar, intervals, watchVars, taskVars, doing, workerAt, outboxVars, patternFaults>>

Bars == DOMAIN Shapes
Tasks == PatternPairs \X Bars
Kinds == {"bullish_engulfing", "bearish_engulfing"}
Events == PatternPairs \X Bars \X Kinds

------------------------------------------------------------------------------
(* The detectors: the body of the second candle covers that of the first, and  *)
(* turns the other way; a body of no length turns no way.                      *)
Rises(b) == Shapes[b].close > Shapes[b].open
Falls(b) == Shapes[b].close < Shapes[b].open
BodyLow(b) == Min({Shapes[b].open, Shapes[b].close})
BodyHigh(b) == Max({Shapes[b].open, Shapes[b].close})
Engulfs(previous, current) == BodyLow(current) <= BodyLow(previous) /\ BodyHigh(current) >= BodyHigh(previous)
Found(previous, current) ==
    {kind \in Kinds : /\ Engulfs(previous, current)
                      /\ IF kind = "bullish_engulfing" THEN Falls(previous) /\ Rises(current)
                         ELSE Rises(previous) /\ Falls(current)}

(* pattern_context(): the last two candles up to the task's bar and, from the  *)
(* first of them, the intervals known to be open, in one snapshot.             *)
Received(task) == {b \in 1 .. task[2] : intervals[task[1]][b] = "received"}
SecondCandle(task) == Max(Received(task))
FirstCandle(task) == Max(Received(task) \ {SecondCandle(task)})
HasHole(task) ==
    \/ Cardinality(Received(task)) < 2
    \/ \E b \in FirstCandle(task) .. task[2] : intervals[task[1]][b] = "pending"
EventsOf(task) == {<<task[1], task[2], kind>> : kind \in Found(FirstCandle(task), SecondCandle(task))}

Undelivered == {e \in DOMAIN outbox : outbox[e] # "delivered"}
Due == {e \in DOMAIN outbox : outbox[e] = "due"}
Held == {e \in DOMAIN outbox : outbox[e] = "held"}
Troubles == patternFaults < MaxPatternFaults /\ patternFaults' = patternFaults + 1

PatternInit ==
    /\ lastBar = WarmBars
    /\ intervals = [p \in PatternPairs |-> [b \in Bars |-> IF b <= WarmBars THEN "received" ELSE "none"]]
    /\ warmed = {} /\ sentMark = [p \in PatternPairs |-> 0] /\ primed = sentMark
    /\ watermark = sentMark /\ patternQueue = <<>> /\ deferredTasks = {} /\ pendingTasks = {} /\ analysedTasks = {}
    /\ doing = <<>> /\ workerAt = "requeue" /\ batch = {} /\ sending = <<>> /\ outbox = <<>> /\ patternFaults = 0
    /\ streamed = [e \in Events |-> 0] /\ unsure = streamed

------------------------------------------------------------------------------
(* The market database: a bar arrives or not; one that has not is recorded as  *)
(* open later, by the detection of gaps, and settled by recovery.              *)
BarCloses ==
    /\ lastBar < Len(Shapes) /\ lastBar' = lastBar + 1
    /\ \E arrived \in SUBSET PatternPairs :
         intervals' = [p \in PatternPairs |->
                         IF p \in arrived THEN [intervals[p] EXCEPT ![lastBar + 1] = "received"] ELSE intervals[p]]
    /\ UNCHANGED <<watchVars, taskVars, doing, workerAt, outboxVars, patternFaults>>
IntervalSettles ==
    /\ \E p \in PatternPairs, b \in 1 .. lastBar :
         \/ intervals[p][b] = "none" /\ intervals' = [intervals EXCEPT ![p][b] = "pending"]
         \/ /\ intervals[p][b] = "pending"
            /\ \E settled \in {"received", "absent"} : intervals' = [intervals EXCEPT ![p][b] = settled]
    /\ UNCHANGED <<lastBar, watchVars, taskVars, doing, workerAt, outboxVars, patternFaults>>
PairWarms ==
    /\ \E p \in PatternPairs \ warmed : warmed' = warmed \union {p}
    /\ UNCHANGED <<lastBar, intervals, sentMark, primed, taskVars, doing, workerAt, outboxVars, patternFaults>>

(* observe(): the first bar of a warm pair is the mark to start from, a newer  *)
(* one a task. What submit() refuses is not offered again.                     *)
LastOf(p) == Max({b \in Bars : intervals[p][b] = "received"})
Prime(p) ==
    /\ sentMark[p] = 0
    /\ watermark' = [watermark EXCEPT ![p] = Max({LastOf(p), watermark[p]})] /\ primed' = [primed EXCEPT ![p] = LastOf(p)]
    /\ UNCHANGED <<patternQueue, pendingTasks>>
Submit(p) ==
    LET task == <<p, LastOf(p)>> IN
    /\ sentMark[p] > 0 /\ LastOf(p) > sentMark[p]
    /\ IF task \in pendingTasks \/ LastOf(p) <= watermark[p] \/ Cardinality(pendingTasks) >= PatternQueue
       THEN UNCHANGED <<patternQueue, pendingTasks>>
       ELSE patternQueue' = Append(patternQueue, task) /\ pendingTasks' = pendingTasks \union {task}
    /\ UNCHANGED <<watermark, primed>>
Observe ==
    /\ \E p \in warmed : /\ Prime(p) \/ Submit(p)
                         /\ sentMark' = [sentMark EXCEPT ![p] = LastOf(p)]
    /\ UNCHANGED <<lastBar, intervals, warmed, deferredTasks, analysedTasks, doing, workerAt, outboxVars, patternFaults>>

------------------------------------------------------------------------------
(* The thread. A turn puts back the tasks whose second has passed; there must  *)
(* be room for them, nothing catches queue.Full here.                          *)
RequeueDeferred ==
    /\ workerAt = "requeue"
    /\ \E due \in SUBSET deferredTasks :
         /\ Len(patternQueue) + Cardinality(due) <= PatternQueue
         /\ deferredTasks' = deferredTasks \ due
         /\ patternQueue' = patternQueue \o SetToSeq(due)
    /\ workerAt' = "publish"
    /\ UNCHANGED <<lastBar, intervals, watchVars, watermark, pendingTasks, analysedTasks, doing, outboxVars, patternFaults>>

(* _publish_outbox(), of the turn or of a task: the events not delivered whose *)
(* second has passed. The first failure of Redis ends it.                      *)
ReadOutbox ==
    /\ workerAt = "publish" /\ workerAt' = "send"
    /\ \E again \in SUBSET Held : batch' = Due \union again
    /\ UNCHANGED <<lastBar, intervals, watchVars, taskVars, doing, sending, outbox, streamed, unsure, patternFaults>>
Send ==
    /\ workerAt = "send" /\ batch # {}
    /\ \E e \in batch :
         \/ /\ streamed' = [streamed EXCEPT ![e] = @ + 1] /\ sending' = e /\ batch' = batch \ {e}
            /\ workerAt' = "mark" /\ UNCHANGED <<outbox, unsure, patternFaults>>
         \/ /\ Troubles /\ UNCHANGED workerAt /\ outbox' = [outbox EXCEPT ![e] = "held"] /\ batch' = {} /\ UNCHANGED sending
            /\ \/ UNCHANGED <<streamed, unsure>>
               \/ streamed' = [streamed EXCEPT ![e] = @ + 1] /\ unsure' = [unsure EXCEPT ![e] = @ + 1]
    /\ UNCHANGED <<lastBar, intervals, watchVars, taskVars, doing>>
MarkDelivered ==
    /\ workerAt = "mark" /\ workerAt' = "send"
    /\ outbox' = [outbox EXCEPT ![sending] = "delivered"] /\ sending' = <<>>
    /\ UNCHANGED <<lastBar, intervals, watchVars, taskVars, doing, batch, streamed, unsure, patternFaults>>
Published ==
    /\ workerAt = "send" /\ batch = {}
    /\ workerAt' = IF doing = <<>> THEN "take" ELSE "done"
    /\ UNCHANGED <<lastBar, intervals, watchVars, taskVars, doing, outboxVars, patternFaults>>

TakeTask ==
    /\ workerAt = "take"
    /\ IF patternQueue = <<>> THEN workerAt' = "requeue" /\ UNCHANGED <<patternQueue, doing>>
       ELSE workerAt' = "analyse" /\ doing' = Head(patternQueue) /\ patternQueue' = Tail(patternQueue)
    /\ UNCHANGED <<lastBar, intervals, watchVars, watermark, deferredTasks, pendingTasks, analysedTasks, outboxVars, patternFaults>>

(* _analyze(): a hole puts the task off (and asks for its recovery, which is   *)
(* PairCoverage's); an event recorded before keeps its row.                    *)
PutOff == deferredTasks' = deferredTasks \union {doing} /\ doing' = <<>> /\ workerAt' = "requeue"
AnalyseHole ==
    /\ workerAt = "analyse" /\ HasHole(doing) /\ PutOff
    /\ UNCHANGED <<lastBar, intervals, watchVars, watermark, patternQueue, pendingTasks, analysedTasks, outboxVars, patternFaults>>
AnalyseWhole ==
    /\ workerAt = "analyse" /\ ~HasHole(doing)
    /\ outbox' = [e \in DOMAIN outbox \union EventsOf(doing) |-> IF e \in DOMAIN outbox THEN outbox[e] ELSE "due"]
    /\ workerAt' = IF EventsOf(doing) = {} THEN "done" ELSE "publish"
    /\ UNCHANGED <<lastBar, intervals, watchVars, taskVars, doing, batch, sending, streamed, unsure, patternFaults>>
TaskDone ==
    /\ workerAt = "done" /\ workerAt' = "requeue" /\ doing' = <<>>
    /\ pendingTasks' = pendingTasks \ {doing} /\ analysedTasks' = analysedTasks \union {doing}
    /\ watermark' = [watermark EXCEPT ![doing[1]] = Max({doing[2], @})]
    /\ UNCHANGED <<lastBar, intervals, watchVars, patternQueue, deferredTasks, outboxVars, patternFaults>>

(* The database fails: what happens inside a task puts it off, what happens    *)
(* outside ends the thread. A restart loses the memory.                        *)
StoreFails ==
    /\ workerAt \in {"publish", "mark", "analyse"} /\ Troubles
    /\ unsure' = IF sending = <<>> THEN unsure ELSE [unsure EXCEPT ![sending] = @ + 1]
    /\ batch' = {} /\ sending' = <<>>
    /\ IF doing = <<>> THEN workerAt' = "dead" /\ UNCHANGED <<doing, deferredTasks>> ELSE PutOff
    /\ UNCHANGED <<lastBar, intervals, watchVars, watermark, patternQueue, pendingTasks, analysedTasks, outbox, streamed>>
PatternRestart ==
    /\ Troubles
    /\ unsure' = IF sending = <<>> THEN unsure ELSE [unsure EXCEPT ![sending] = @ + 1]
    /\ warmed' = {} /\ sentMark' = [p \in PatternPairs |-> 0] /\ primed' = sentMark' /\ watermark' = sentMark'
    /\ patternQueue' = <<>> /\ deferredTasks' = {} /\ pendingTasks' = {} /\ analysedTasks' = {}
    /\ doing' = <<>> /\ workerAt' = "requeue" /\ batch' = {} /\ sending' = <<>>
    /\ UNCHANGED <<lastBar, intervals, outbox, streamed>>

PatternNext ==
    \/ BarCloses \/ IntervalSettles \/ PairWarms \/ Observe
    \/ RequeueDeferred \/ ReadOutbox \/ Send \/ MarkDelivered \/ Published
    \/ TakeTask \/ AnalyseHole \/ AnalyseWhole \/ TaskDone \/ StoreFails \/ PatternRestart

------------------------------------------------------------------------------
PatternTypeOK ==
    /\ pendingTasks \subseteq Tasks /\ deferredTasks \subseteq pendingTasks /\ batch \subseteq Undelivered
    /\ workerAt \in {"requeue", "publish", "send", "mark", "take", "analyse", "done", "dead"}
    /\ DOMAIN outbox \subseteq Events /\ Range(outbox) \subseteq {"due", "held", "delivered"}

(* An event is in the stream once, and once more for each time its sending was *)
(* cut off before the mark: what a consumer has to tell apart by the event's   *)
(* identity; and a bar is carried to the end of its analysis once in a life.   *)
EventOnce ==
    /\ \A e \in Events : streamed[e] <= 1 + unsure[e]
    /\ pendingTasks \intersect analysedTasks = {}

(* A task accepted is in the queue, put off or in hand, in one place, and      *)
(* there is always room to take back what was put off; an event marked as      *)
(* delivered is in the stream; no bar of the time before the watch is taken.   *)
InHand == IF doing = <<>> THEN {} ELSE {doing}
TaskIsKept ==
    /\ pendingTasks = Range(patternQueue) \union deferredTasks \union InHand
    /\ Cardinality(pendingTasks) = Len(patternQueue) + Cardinality(deferredTasks) + Cardinality(InHand)
    /\ Cardinality(pendingTasks) <= PatternQueue
    /\ \A e \in DOMAIN outbox : outbox[e] = "delivered" => streamed[e] > 0
    /\ \A task \in pendingTasks : primed[task[1]] > 0 /\ task[2] > primed[task[1]]

(* A pattern joins intervals with no expected interval missing between them.     *)
EventsJoinNeighbours ==
    \A e \in DOMAIN outbox : intervals[e[1]][e[2] - 1] # "none"
=============================================================================
