-------------------------- MODULE TelegramDelivery --------------------------
(* Messages of a trade on their way to Telegram: notifier/telegram.py, its     *)
(* repository notifier/telegram_delivery.py, the outcomes of                   *)
(* notifier/telegram_transport.py, and notifier/telegram_recovery.py.          *)
(*                                                                             *)
(* The events of one trade, numbered by their sequence; the first one's post   *)
(* is the root card. An event has two operations, its post and, after the      *)
(* first, an edit of the root; continuations of long texts go the way of the   *)
(* post. When a retry is due, and whether the hour of retries is over, is      *)
(* left open.                                                                  *)
EXTENDS Integers, SequencesExt

CONSTANTS
    MessageEvents,  \* bound: events 1 .. MessageEvents
    QueueSize,      \* QUEUE_SIZE
    MaxAttempts,    \* max_transport_attempts
    MaxSetbacks     \* bound: requests that fail, ends of the process and calls by hand, in all

ASSUME DeliveryAssumption ==
    /\ {MessageEvents, QueueSize, MaxAttempts} \subseteq Nat \ {0} /\ MaxSetbacks \in Nat

VARIABLES
    emitted,   \* events the bus has handed over
    worker,    \* "off", "run" or "closing"
    mail,      \* TelegramChannel._queue
    held,      \* items that wait behind a deferred operation of the trade
    job,       \* what the worker is doing
    opStatus,  \* operations.status, "none" before the row exists
    retried,   \* operations with a row in telegram_auto_retry
    opRows,    \* operations in the order of their opRows
    claimed,   \* trades.sequence: the last event that was claimed
    rootSent,  \* trades.root_id is set
    arrivals,  \* external: per operation, the requests that reached Telegram
    echoed,    \* operations whose request the transport repeated after a lost answer
    worded,    \* operations sent again by hand with --include-uncertain
    arrived,   \* external: the posts sent by the worker, in the order of their arrival
    setbacks

deliveryVars == <<emitted, worker, mail, held, job, opStatus, retried, opRows, claimed, rootSent,
                  arrivals, arrived, echoed, worded, setbacks>>
delivery == <<opStatus, retried, opRows, claimed, rootSent>>
chat == <<arrivals, arrived, echoed, worded>>

Messages == 1 .. MessageEvents
Post(e) == <<e, "post">>
RootEdit(e) == <<e, "root">>
Operations == {Post(e) : e \in Messages} \cup {RootEdit(e) : e \in Messages \ {1}}

(* An item is an event, or the operation of an earlier run; started once an    *)
(* operation of it has been saved and deferred.                                *)
EventItem(e) == [event |-> e, key |-> Post(e), stored |-> FALSE, started |-> FALSE]
StoredItem(k) == [event |-> k[1], key |-> k, stored |-> TRUE, started |-> TRUE]
NoJob == [at |-> "idle", item |-> EventItem(1), key |-> Post(1), tries |-> 0, doubt |-> FALSE]
Working(item, key) == [NoJob EXCEPT !.at = "operation", !.item = item, !.key = key]

DeliveryInit ==
    /\ emitted = 0 /\ worker = "off" /\ mail = <<>> /\ held = <<>> /\ job = NoJob
    /\ opStatus = [k \in Operations |-> "none"] /\ retried = {} /\ opRows = <<>> /\ claimed = 0 /\ rootSent = FALSE
    /\ arrivals = [k \in Operations |-> 0] /\ arrived = <<>>
    /\ echoed = {} /\ worded = {} /\ setbacks = 0

MaySetback == setbacks < MaxSetbacks

(* A set of positions in ascending order, and what a sequence holds there.     *)
InOrder(S) == CHOOSE f \in [1 .. Cardinality(S) -> S] : \A i, j \in DOMAIN f : i < j => f[i] < f[j]
Picked(q, S) == [i \in 1 .. Cardinality(S) |-> q[InOrder(S)[i]]]
-----------------------------------------------------------------------------
(* _enqueue(): a full queue drops its oldest event for the newest.             *)
EmitEvent ==
    /\ emitted < MessageEvents /\ emitted' = emitted + 1
    /\ mail' = IF worker # "run" THEN mail
               ELSE IF Len(mail) < QueueSize THEN Append(mail, emitted + 1)
               ELSE Append(Tail(mail), emitted + 1)
    /\ UNCHANGED <<worker, held, job, delivery, chat, setbacks>>

(* _migrate(): an attempt without an end is uncertain. _restore(): deferred    *)
(* operations in the order of their rows, those whose hour is over failed.     *)
Interrupted(s) == [k \in Operations |-> IF s[k] = "attempting" THEN "uncertain" ELSE s[k]]
Kept(s) == [k \in Operations |-> IF s[k] = "attempting" THEN "deferred" ELSE s[k]] \* what if it were tried again
Migrated(s) == Interrupted(s)
Waiting == Picked(opRows, {i \in DOMAIN opRows : Migrated(opStatus)[opRows[i]] = "deferred"})
WorkerStart ==
    /\ worker = "off" /\ worker' = "run"
    /\ \E over \in 0 .. Len(Waiting) :
         LET expired == {Waiting[i] : i \in 1 .. over}
         IN /\ opStatus' = [k \in Operations |-> IF k \in expired THEN "failed" ELSE Migrated(opStatus)[k]]
            /\ retried' = retried \ expired
            /\ held' = [i \in 1 .. Len(Waiting) - over |-> StoredItem(Waiting[i + over])]
    /\ UNCHANGED <<emitted, mail, job, opRows, claimed, rootSent, chat, setbacks>>

(* _deliver(): an event is claimed once, and never behind a later one.         *)
Claims(item) == item.started \/ item.event > claimed

(* _dispatch(): an event whose trade has something deferred waits behind it.   *)
HeldUp == held # <<>>
MustWait == HeldUp
DispatchEvent ==
    /\ worker # "off" /\ job = NoJob /\ mail # <<>>
    /\ mail' = Tail(mail)
    /\ LET item == EventItem(Head(mail))
           taken == ~MustWait /\ Claims(item)
       IN /\ held' = IF MustWait THEN Append(held, item) ELSE held
          /\ job' = IF taken THEN Working(item, Post(item.event)) ELSE NoJob
          /\ claimed' = IF taken THEN item.event ELSE claimed
    /\ UNCHANGED <<emitted, worker, opStatus, retried, opRows, rootSent, chat, setbacks>>

(* _retry_due() -> _drain(): the head of the gate, when it is due.             *)
RetryHeld ==
    /\ worker = "run" /\ job = NoJob /\ held # <<>>
    /\ LET item == Head(held)
       IN /\ job' = IF Claims(item) THEN Working(item, item.key) ELSE NoJob
          /\ claimed' = IF Claims(item) /\ ~item.started THEN item.event ELSE claimed
          /\ held' = IF Claims(item) THEN held ELSE Tail(held)
    /\ UNCHANGED <<emitted, worker, mail, opStatus, retried, opRows, rootSent, chat, setbacks>>

FromHeld == held # <<>> /\ Head(held).event = job.item.event
ItemDone == /\ job' = NoJob
          /\ held' = IF FromHeld THEN Tail(held) ELSE held

(* What follows an operation that is confirmed: a post registers the root; an  *)
(* event goes on to edit the root, a stored operation ends there.              *)
NextStep(k) ==
    /\ rootSent' = (rootSent \/ k = Post(1))
    /\ IF k = Post(job.item.event) /\ ~job.item.stored /\ k # Post(1) /\ rootSent
       THEN job' = Working(job.item, RootEdit(job.item.event)) /\ UNCHANGED held
       ELSE ItemDone

(* _operation() before the request: a confirmed step is not repeated, one that *)
(* has ended otherwise is left alone; a new one is saved, and begun in a       *)
(* transaction of its own, which the process may not live to see.              *)
Sendable(k) == opStatus[k] \in {"none", "pending", "deferred"}
BeginOperation ==
    /\ job.at = "operation"
    /\ LET k == job.key
       IN IF Sendable(k)
          THEN /\ \/ /\ opStatus[k] = "none" /\ opStatus' = [opStatus EXCEPT ![k] = "pending"]
                     /\ opRows' = Append(opRows, k) /\ job' = job
                  \/ /\ opStatus[k] # "none" /\ opStatus' = [opStatus EXCEPT ![k] = "attempting"]
                     /\ opRows' = opRows /\ job' = [job EXCEPT !.at = "request"]
               /\ UNCHANGED <<held, rootSent>>
          ELSE /\ IF opStatus[k] = "confirmed" THEN NextStep(k) ELSE ItemDone /\ UNCHANGED rootSent
               /\ UNCHANGED <<opStatus, opRows>>
    /\ UNCHANGED <<emitted, worker, mail, retried, claimed, chat, setbacks>>

CallArrives(k) ==
    /\ arrivals' = [arrivals EXCEPT ![k] = @ + 1]
    /\ arrived' = IF k[2] = "post" THEN Append(arrived, k[1]) ELSE arrived

(* The request: accepted, refused, lost (received or not), or never sent. The  *)
(* transport repeats one that was lost or never sent; only the last answer     *)
(* decides, but one never sent after one that was lost is uncertain.           *)
SendOutcomes == {"ok", "refused", "lost", "heard", "unsent"}
SettleOperation(k, s) == opStatus' = [opStatus EXCEPT ![k] = s] /\ retried' = retried \ {k}
Deferred == [job.item EXCEPT !.started = TRUE]
SendRequest == \E outcome \in IF MaySetback THEN SendOutcomes ELSE {"ok"} :
    /\ job.at = "request"
    /\ setbacks' = IF outcome = "ok" THEN setbacks ELSE setbacks + 1
    /\ job' = [job EXCEPT !.at = outcome, !.doubt = @ \/ outcome \in {"lost", "heard"}]
    /\ IF outcome \in {"ok", "heard"} THEN CallArrives(job.key) ELSE UNCHANGED <<arrivals, arrived>>
    /\ UNCHANGED <<emitted, worker, mail, held, delivery, echoed, worded>>

Again == job.at \in {"lost", "heard", "unsent"} /\ job.tries + 1 < MaxAttempts
TakeAnswer ==
    /\ job.at \in SendOutcomes
    /\ LET k == job.key
           outcome == job.at
       IN /\ echoed' = IF Again /\ job.doubt THEN echoed \cup {k} ELSE echoed
          /\ \/ /\ Again
                /\ job' = [job EXCEPT !.at = "request", !.tries = @ + 1]
                /\ UNCHANGED <<held, opStatus, retried, rootSent>>
             \/ /\ outcome = "ok"
                /\ SettleOperation(k, "confirmed") /\ NextStep(k)
             \/ /\ ~Again /\ outcome = "unsent" /\ ~job.doubt
                /\ \/ /\ opStatus' = [opStatus EXCEPT ![k] = "deferred"] \* defer_operation()
                      /\ retried' = retried \cup {k}
                      /\ held' = <<Deferred>> \o (IF FromHeld THEN Tail(held) ELSE <<>>)
                      /\ job' = NoJob
                   \/ k \in retried /\ SettleOperation(k, "failed") /\ ItemDone
                /\ UNCHANGED rootSent
             \/ /\ ~Again /\ outcome # "ok" /\ (outcome # "unsent" \/ job.doubt)
                /\ SettleOperation(k, IF outcome = "refused" THEN "failed" ELSE "uncertain") /\ ItemDone
                /\ UNCHANGED rootSent
    /\ UNCHANGED <<emitted, worker, mail, opRows, claimed, arrivals, arrived, worded, setbacks>>

(* close(): what is queued is served, at most until the deadline; _park() then *)
(* saves the events of the gate as deferred posts.                             *)
CloseChannel ==
    /\ worker = "run" /\ MaySetback
    /\ worker' = "closing" /\ setbacks' = setbacks + 1
    /\ UNCHANGED <<emitted, mail, held, job, delivery, chat>>
Parked == Picked(held, {i \in DOMAIN held : ~held[i].started})
ParkHeld ==
    /\ worker = "closing" /\ job = NoJob
    /\ LET posts == [i \in 1 .. Len(Parked) |-> Post(Parked[i].event)]
       IN /\ opStatus' = [k \in Operations |-> IF k \in Range(posts) THEN "deferred" ELSE opStatus[k]]
          /\ retried' = retried \cup Range(posts)
          /\ opRows' = opRows \o posts
          /\ claimed' = IF posts = <<>> THEN claimed ELSE Last(Parked).event
    /\ worker' = "off" /\ mail' = <<>> /\ held' = <<>>
    /\ UNCHANGED <<emitted, job, rootSent, chat, setbacks>>

(* The process dies; what was in memory is gone.                               *)
WorkerDies ==
    /\ worker # "off" /\ MaySetback
    /\ worker' = "off" /\ mail' = <<>> /\ held' = <<>> /\ job' = NoJob /\ setbacks' = setbacks + 1
    /\ UNCHANGED <<emitted, delivery, chat>>

(* retry(): by hand, while the robot is down. The root card goes first;        *)
(* uncertain ones only by an explicit word.                                    *)
RetryByHand == \E k \in Range(opRows), outcome \in SendOutcomes :
    /\ worker = "off" /\ MaySetback /\ setbacks' = setbacks + 1
    /\ LET now == Migrated(opStatus)[k]
       IN /\ now # "confirmed"
          /\ worded' = IF now = "uncertain" THEN worded \cup {k} ELSE worded
          /\ rootSent \/ k = Post(1) \/ Post(1) \notin Range(opRows)
          /\ opStatus' = [Migrated(opStatus) EXCEPT ![k] =
                           CASE outcome = "ok" -> "confirmed"
                             [] outcome \in {"lost", "heard"} -> "uncertain"
                             [] OTHER -> "failed"]
          /\ retried' = retried \ {k}
          /\ rootSent' = (rootSent \/ (outcome = "ok" /\ k = Post(1)))
          /\ arrivals' = IF outcome \in {"ok", "heard"} THEN [arrivals EXCEPT ![k] = @ + 1] ELSE arrivals
    /\ UNCHANGED <<emitted, worker, mail, held, job, opRows, claimed, arrived, echoed>>

DeliveryNext == EmitEvent \/ WorkerStart \/ DispatchEvent \/ RetryHeld \/ BeginOperation \/ SendRequest \/ TakeAnswer
                \/ CloseChannel \/ ParkHeld \/ WorkerDies \/ RetryByHand
-----------------------------------------------------------------------------
DeliveryTypeOK ==
    /\ emitted \in 0 .. MessageEvents /\ worker \in {"off", "run", "closing"} /\ Len(mail) <= QueueSize
    /\ job.at \in {"idle", "operation", "request"} \cup SendOutcomes /\ job.key \in Operations
    /\ \A k \in Operations : opStatus[k] \in
           {"none", "pending", "attempting", "deferred", "confirmed", "uncertain", "failed"}
    /\ claimed \in 0 .. emitted /\ retried \subseteq Operations

(* Telegram gets a message once: deferred requests, deaths between a request   *)
(* and its receipt, restarts and calls by hand do not send again what may have *)
(* arrived, but for the repeats of the transport and the explicit word.        *)
SentOnce == \A k \in Operations \ (echoed \cup worded) : arrivals[k] <= 1

(* The posts of a trade arrive in the order of its events, also across         *)
(* deferred requests, overflow and restarts.                                   *)
TradeInOrder == \A i, j \in DOMAIN arrived : i < j => arrived[i] <= arrived[j]
=============================================================================
