---------------------------- MODULE StreamHandoff ----------------------------
(* The subscription of candles and its handoff: data/stream_ingestion.py       *)
(* (StreamSupervisor), the handoff of data/ingestion.py, the live pairs of     *)
(* data/cache.py.                                                              *)
(*                                                                             *)
(* The stream's reader, its applier and the worker are threads; a step is what *)
(* one of them does under the supervisor's lock or between two requests. Bars  *)
(* of all pairs close together and are numbered.                               *)
EXTENDS Naturals, Sequences, FiniteSets, SequencesExt

CONSTANTS
    StreamPairs,    \* pairs of a UID and a timeframe
    Capacity,       \* stream_subscription_soft_limit
    BufferMax,      \* stream_buffer_max_events
    NoWork,         \* no request, no event, no check
    MaxBars,        \* bound: bars that close
    MaxEpochs,      \* bound: connections
    MaxUpsets       \* bound: refusals, forgotten subscriptions and checks, releases

ASSUME StreamAssumption ==
    /\ IsFiniteSet(StreamPairs) /\ {Capacity, BufferMax, MaxBars, MaxEpochs, MaxUpsets} \subseteq Nat
    /\ NoWork \notin [pair : StreamPairs, bar : Nat, epoch : Nat] \cup [epoch : Nat, upTo : Nat]

VARIABLES
    polling,   \* stream_fallback_polling
    closed,    \* bars 1..closed have closed
    link,      \* connection, epoch
    info,      \* the supervisor's pairs: status, epoch
    desired,   \* _desired
    server,    \* external: subscribed and served; asked: not answered yet
    events,    \* _buffer, and the event the applier has taken from it
    lastOpen,  \* _last_open
    check,     \* _check_pending
    member,    \* the cache's pairs: registered, bars stored, evidence, transport, ready
    handoffs,  \* the worker's _handoffs
    load,      \* the handoff whose history the worker is loading
    overtaken, \* history: opened by a load that began before the pair's last handoff
    loss,      \* the evidence lane's _losses
    followed,  \* the worker's _stream_pairs and _held_pairs
    upsets

streamVars == <<polling, closed, link, info, desired, server, events, lastOpen, check, member,
                handoffs, load, overtaken, loss, followed, upsets>>

Status == {"desired", "sent", "acknowledged", "ready", "refused", "unable", "busy"}
Served == {"acknowledged", "ready"}
Bars == 1..closed
NewPair == [status |-> "desired", epoch |-> 0]
NewMember == [on |-> TRUE, bars |-> {}, evidence |-> 0, transport |-> "none", ready |-> FALSE]

StreamInit ==
    /\ polling \in BOOLEAN /\ closed = 0
    /\ link = [at |-> "down", epoch |-> 0]
    /\ info = [p \in StreamPairs |-> NewPair] /\ desired = StreamPairs
    /\ server = [live |-> {}, asked |-> {}]
    /\ events = [buffer |-> <<>>, taken |-> NoWork]
    /\ lastOpen = [p \in StreamPairs |-> 0] /\ loss = [p \in StreamPairs |-> 0]
    /\ check = NoWork
    /\ member = [p \in StreamPairs |-> NewMember]
    /\ handoffs = [p \in StreamPairs |-> NoWork] /\ load = NoWork /\ overtaken = {}
    /\ followed = [stream |-> {}, held |-> {}] /\ upsets = 0
-----------------------------------------------------------------------------
(* Helpers of the supervisor, each part of a step.                             *)

(* _publish_membership(): whoever is not ready is polled, or held.             *)
Membership(i) ==
    LET ready == {p \in StreamPairs : i[p].status = "ready"}
    IN [stream |-> ready, held |-> IF polling THEN {} ELSE desired \ ready]

(* set_live_handoff(): nothing for a pair that is not registered.              *)
HandedOff(m, transport, ready) ==
    IF m.on THEN [m EXCEPT !.transport = transport, !.ready = ready] ELSE m

(* _fail(): the fallback takes the pair over, or it is held.                   *)
Failed(m) == HandedOff([m EXCEPT !.evidence = 0], IF polling THEN "polling" ELSE "stream", polling)
Unready(m) == HandedOff(m, "stream", FALSE)

(* note_loss(): the earliest known loss.                                       *)
Noted(p, bar) == IF bar = 0 THEN loss[p] ELSE IF loss[p] = 0 \/ bar < loss[p] THEN bar ELSE loss[p]

(* _subscribe(): who was refused for the rate of requests may be tried again;  *)
(* capacity and control limit; what is over capacity fails.                    *)
Active(i, epoch) == {p \in StreamPairs : i[p].status \in {"sent"} \cup Served /\ i[p].epoch = epoch}
Wanted(i, pairs) == [p \in StreamPairs |-> IF p \in pairs THEN [i[p] EXCEPT !.status = "desired"] ELSE i[p]]
Busy(i) == {p \in StreamPairs : i[p].status = "busy"}
Subscribed(i, epoch, batch, over) ==
    [p \in StreamPairs |-> IF p \in batch THEN [status |-> "sent", epoch |-> epoch]
                           ELSE IF p \in over THEN [i[p] EXCEPT !.status = "unable"] ELSE i[p]]

Subscribe(i, m, asked, epoch, want) ==
    \E cooled \in SUBSET Busy(i) :
    LET tried == Wanted(i, cooled)
        pending == {p \in want : tried[p].status = "desired"}
        room == IF Capacity > Cardinality(Active(i, epoch)) THEN Capacity - Cardinality(Active(i, epoch)) ELSE 0
    IN \E kept \in SUBSET pending : \E batch \in SUBSET kept :
          /\ Cardinality(kept) = IF Cardinality(pending) <= room THEN Cardinality(pending) ELSE room
          /\ info' = Subscribed(tried, epoch, batch, pending \ kept)
          /\ server' = [server EXCEPT !.asked = asked \cup batch]
          /\ member' = [p \in StreamPairs |-> IF p \in pending \ kept THEN Failed(m[p]) ELSE m[p]]
          /\ handoffs' = [p \in StreamPairs |-> IF p \in pending \ kept THEN NoWork ELSE handoffs[p]]
-----------------------------------------------------------------------------
(* The connection.                                                             *)

(* A new generation; refusals worth repeating are.                             *)
Connect ==
    LET retried == Wanted(info, {p \in StreamPairs : info[p].status \in {"unable", "busy"}})
        on == {p \in StreamPairs : member[p].on}
    IN /\ link.at = "down" /\ link.epoch < MaxEpochs
       /\ link' = [at |-> "up", epoch |-> link.epoch + 1]
       /\ desired' = on
       /\ Subscribe(retried, member, server.asked, link.epoch + 1, on)
       /\ followed' = Membership(info')
       /\ UNCHANGED <<polling, closed, events, lastOpen, check, load, overtaken, loss, upsets>>

(* _disconnected(): every pair waits again, what was ready is a known loss, the*)
(* buffer is gone.                                                             *)
Disconnect ==
    LET cut == {p \in StreamPairs : info[p].status \in {"sent"} \cup Served}
    IN /\ link.at = "up"
       /\ link' = [link EXCEPT !.at = "down"]
       /\ info' = [p \in StreamPairs |-> IF p \in cut THEN [info[p] EXCEPT !.status = "desired"] ELSE info[p]]
       /\ member' = [p \in StreamPairs |-> IF p \in cut THEN Unready([member[p] EXCEPT !.evidence = 0]) ELSE member[p]]
       /\ handoffs' = [p \in StreamPairs |-> IF p \in cut THEN NoWork ELSE handoffs[p]]
       /\ loss' = [p \in StreamPairs |-> IF info[p].status = "ready" THEN Noted(p, lastOpen[p]) ELSE loss[p]]
       /\ events' = [events EXCEPT !.buffer = <<>>]
       /\ server' = [live |-> {}, asked |-> {}]
       /\ followed' = Membership(info')
       /\ UNCHANGED <<polling, closed, desired, lastOpen, check, load, overtaken, upsets>>

(* _acknowledge(): evidence and a handoff up to the last bar closed by now.    *)
Unchecked(p) == IF check = NoWork THEN NoWork ELSE check \ {p}
Acknowledged(p) ==
    /\ check' = Unchecked(p)
    /\ server' = [live |-> server.live \cup {p}, asked |-> server.asked \ {p}]
    /\ IF info[p].status \in Served /\ info[p].epoch = link.epoch
       THEN UNCHANGED <<info, member, handoffs>>
       ELSE /\ info' = [info EXCEPT ![p] = [status |-> "acknowledged", epoch |-> link.epoch]]
            /\ member' = [member EXCEPT ![p] = Unready([@ EXCEPT !.evidence = link.epoch])]
            /\ handoffs' = [handoffs EXCEPT ![p] =
                              IF member[p].on THEN [epoch |-> link.epoch, upTo |-> closed] ELSE @]

Ack(p) ==
    /\ link.at = "up" /\ p \in server.asked
    /\ Acknowledged(p)
    /\ UNCHANGED <<polling, closed, link, desired, events, lastOpen, load, overtaken, loss, followed, upsets>>

(* A refusal for good, for this connection or for a while, or no answer in     *)
(* time.                                                                       *)
FailPair(p, status) ==
    /\ info' = [info EXCEPT ![p].status = status]
    /\ member' = [member EXCEPT ![p] = Failed(@)]
    /\ handoffs' = [handoffs EXCEPT ![p] = NoWork]
    /\ followed' = Membership(info')

Refuse(p) == \E status \in {"refused", "unable", "busy"} :
    /\ link.at = "up" /\ p \in server.asked /\ upsets < MaxUpsets
    /\ FailPair(p, status)
    /\ server' = [server EXCEPT !.asked = @ \ {p}] /\ check' = Unchecked(p)
    /\ upsets' = upsets + 1
    /\ UNCHANGED <<polling, closed, link, desired, events, lastOpen, load, overtaken, loss>>

AckTimeout(p) ==
    /\ link.at = "up" /\ info[p].status = "sent" /\ upsets < MaxUpsets
    /\ FailPair(p, "unable")
    /\ upsets' = upsets + 1
    /\ UNCHANGED <<polling, closed, link, desired, server, events, lastOpen, check, load, overtaken, loss>>

(* A bar closes: the server sends it for every pair it serves, in any order.   *)
(* Before the acknowledgement it is dropped, over the limit it is a known loss.*)
Listening(p) == info[p].epoch = link.epoch /\ info[p].status \in Served
Event(p, bar) == [pair |-> p, bar |-> bar, epoch |-> link.epoch]
Buffered(q, order, bar) ==
    LET all == q \o [i \in 1..Len(order) |-> Event(order[i], bar)]
    IN IF Len(all) <= BufferMax THEN all ELSE SubSeq(all, 1, BufferMax)
InBuffer(q, p, bar) == \E i \in 1..Len(q) : q[i].pair = p /\ q[i].bar = bar

BarCloses ==
    LET bar == closed + 1
        arrived == IF link.at = "up" THEN {p \in server.live : Listening(p)} ELSE {}
    IN /\ closed < MaxBars
       /\ closed' = bar
       /\ \E order \in SetToSeqs(arrived) : events' = [events EXCEPT !.buffer = Buffered(@, order, bar)]
       /\ loss' = [p \in StreamPairs |-> IF p \in arrived /\ ~InBuffer(events'.buffer, p, bar)
                                         THEN Noted(p, bar) ELSE loss[p]]
       /\ UNCHANGED <<polling, link, info, desired, server, lastOpen, check, member, handoffs, load, overtaken, followed, upsets>>
-----------------------------------------------------------------------------
(* The applier.                                                                *)

Take ==
    /\ link.at = "up" /\ events.buffer # <<>> /\ events.taken = NoWork
    /\ events' = [buffer |-> Tail(events.buffer), taken |-> Head(events.buffer)]
    /\ UNCHANGED <<polling, closed, link, info, desired, server, lastOpen, check, member, handoffs, load, overtaken, loss, followed, upsets>>

(* Only a candle of the acknowledged generation is closed; of a pair that is   *)
(* not registered it is refused.                                               *)
Accepts(e) == member[e.pair].evidence = e.epoch
Apply ==
    LET e == events.taken
    IN /\ e # NoWork
       /\ member' = IF member[e.pair].on /\ Accepts(e) THEN [member EXCEPT ![e.pair].bars = @ \cup {e.bar}] ELSE member
       /\ lastOpen' = IF member[e.pair].on THEN [lastOpen EXCEPT ![e.pair] = e.bar] ELSE lastOpen
       /\ events' = [events EXCEPT !.taken = NoWork]
       /\ UNCHANGED <<polling, closed, link, info, desired, server, check, handoffs, load, overtaken, loss, followed, upsets>>

(* _watch(): the roster is synchronised; while a pair waits, what is wanted is *)
(* subscribed.                                                                 *)
Watch ==
    LET on == {p \in StreamPairs : member[p].on}
        waiting == \E p \in on : info[p].status = "desired"
    IN /\ link.at = "up" /\ desired' = on
       /\ \/ waiting /\ Subscribe(info, member, server.asked, link.epoch, on)
          \/ ~waiting /\ on # desired /\ UNCHANGED <<info, server, member, handoffs>>
       /\ followed' = Membership(info')
       /\ UNCHANGED <<polling, closed, link, events, lastOpen, check, load, overtaken, loss, upsets>>

(* ... the server is asked which subscriptions it has ...                      *)
CheckStarts ==
    /\ link.at = "up" /\ check = NoWork /\ upsets < MaxUpsets
    /\ check' = {p \in StreamPairs : info[p].status \in Served}
    /\ upsets' = upsets + 1
    /\ UNCHANGED <<polling, closed, link, info, desired, server, events, lastOpen, member, handoffs, load, overtaken, loss, followed>>

CheckAnswered(p) ==
    /\ link.at = "up" /\ check # NoWork /\ p \in check /\ p \in server.live
    /\ Acknowledged(p)
    /\ UNCHANGED <<polling, closed, link, desired, events, lastOpen, load, overtaken, loss, followed, upsets>>

(* ... and whatever it did not name in time is subscribed again, also a pair   *)
(* whose handoff is not over, which is not cancelled. The loss is known from   *)
(* the pair's last bar, if there was one. A late answer is an acknowledgement. *)
CheckExpires ==
    LET on == {p \in StreamPairs : member[p].on}
        closing == [p \in StreamPairs |-> IF p \in check THEN Unready(member[p]) ELSE member[p]]
    IN /\ link.at = "up" /\ check # NoWork
       /\ desired' = on
       /\ Subscribe(Wanted(info, check), closing, server.asked \cup (check \cap server.live), link.epoch, on)
       /\ loss' = [p \in StreamPairs |-> IF p \in check THEN Noted(p, lastOpen[p]) ELSE loss[p]]
       /\ check' = NoWork
       /\ followed' = Membership(info')
       /\ UNCHANGED <<polling, closed, link, events, lastOpen, load, overtaken, upsets>>

(* environment: the server forgets a subscription.                             *)
Forget(p) ==
    /\ p \in server.live /\ upsets < MaxUpsets
    /\ server' = [server EXCEPT !.live = @ \ {p}]
    /\ upsets' = upsets + 1
    /\ UNCHANGED <<polling, closed, link, info, desired, events, lastOpen, check, member, handoffs, load, overtaken, loss, followed>>
-----------------------------------------------------------------------------
(* The worker.                                                                 *)

(* _service_handoff() looks at a copy of the handoffs and loads from the proved*)
(* prefix to the handoff's bar.                                                *)
HandoffStarts(p) ==
    /\ load = NoWork /\ handoffs[p] # NoWork /\ member[p].on
    /\ load' = [pair |-> p, epoch |-> handoffs[p].epoch, upTo |-> handoffs[p].upTo]
    /\ UNCHANGED <<polling, closed, link, info, desired, server, events, lastOpen, check, member, handoffs, overtaken, loss, followed, upsets>>

(* _handoff_ready(): an older generation does not open a newer one.            *)
HandoffOpensAny(p, epoch) == info[p].status = "acknowledged" \* what if the generation were not compared
HandoffOpens(p, epoch) == info[p].status = "acknowledged" /\ info[p].epoch = epoch /\ epoch = link.epoch

(* The answer: the handoff that the pair has by now is taken away, and what was*)
(* loaded is what makes it ready.                                              *)
Overtakes(p) == handoffs[p] # NoWork /\ handoffs[p].epoch = load.epoch /\ handoffs[p].upTo > load.upTo
HandoffEnds ==
    LET p == load.pair
        stored == [member[p] EXCEPT !.bars = IF member[p].on THEN @ \cup 1..load.upTo ELSE @]
    IN /\ load # NoWork
       /\ load' = NoWork
       /\ handoffs' = [handoffs EXCEPT ![p] = NoWork]
       /\ overtaken' = IF HandoffOpens(p, load.epoch) /\ Overtakes(p) THEN overtaken \cup {p}
                       ELSE IF HandoffOpens(p, load.epoch) THEN overtaken \ {p} ELSE overtaken
       /\ info' = IF HandoffOpens(p, load.epoch) THEN [info EXCEPT ![p].status = "ready"] ELSE info
       /\ member' = [member EXCEPT ![p] = IF HandoffOpens(p, load.epoch) THEN HandedOff(stored, "stream", TRUE) ELSE stored]
       /\ followed' = IF HandoffOpens(p, load.epoch) THEN Membership(info') ELSE followed
       /\ UNCHANGED <<polling, closed, link, desired, server, events, lastOpen, check, loss, upsets>>

HandoffFails ==
    /\ load # NoWork
    /\ load' = NoWork
    /\ UNCHANGED <<polling, closed, link, info, desired, server, events, lastOpen, check, member, handoffs, overtaken, loss, followed, upsets>>

(* _service_fresh(): what neither the stream nor a hold keeps is polled, from  *)
(* the last bar.                                                               *)
Polled(p) == p \notin followed.stream \cup followed.held
Poll(p) ==
    /\ member[p].on /\ Polled(p) /\ closed \notin member[p].bars
    /\ member' = [member EXCEPT ![p].bars = @ \cup {b \in Bars : \A c \in @ : c < b}]
    /\ UNCHANGED <<polling, closed, link, info, desired, server, events, lastOpen, check, handoffs, load, overtaken, loss, followed, upsets>>

(* The evidence lane loads from a known loss.                                  *)
Recover(p) ==
    /\ member[p].on /\ loss[p] > 0
    /\ member' = [member EXCEPT ![p].bars = @ \cup loss[p]..closed]
    /\ loss' = [loss EXCEPT ![p] = 0]
    /\ UNCHANGED <<polling, closed, link, info, desired, server, events, lastOpen, check, handoffs, load, overtaken, followed, upsets>>

(* A pair nobody needs is released, and asked for again.                       *)
Unregister(p) ==
    /\ member[p].on /\ upsets < MaxUpsets
    /\ member' = [member EXCEPT ![p] = [@ EXCEPT !.on = FALSE, !.evidence = 0, !.transport = "none", !.ready = FALSE]]
    /\ upsets' = upsets + 1
    /\ UNCHANGED <<polling, closed, link, info, desired, server, events, lastOpen, check, handoffs, load, overtaken, loss, followed>>

(* Registered, and its history warmed up.                                      *)
Register(p) ==
    /\ ~member[p].on
    /\ member' = [member EXCEPT ![p] = [NewMember EXCEPT !.bars = Bars]]
    /\ UNCHANGED <<polling, closed, link, info, desired, server, events, lastOpen, check, handoffs, load, overtaken, loss, followed, upsets>>
-----------------------------------------------------------------------------
StreamNext ==
    \/ Connect \/ Disconnect \/ BarCloses \/ Take \/ Apply \/ Watch
    \/ CheckStarts \/ CheckExpires \/ HandoffEnds \/ HandoffFails
    \/ \E p \in StreamPairs :
          \/ Ack(p) \/ Refuse(p) \/ AckTimeout(p) \/ CheckAnswered(p) \/ Forget(p)
          \/ HandoffStarts(p) \/ Poll(p) \/ Recover(p) \/ Unregister(p) \/ Register(p)

StreamSpec == StreamInit /\ [][StreamNext]_streamVars
-----------------------------------------------------------------------------
StreamTypeOK ==
    /\ info \in [StreamPairs -> [status : Status, epoch : 0..MaxEpochs]]
    /\ \A p \in StreamPairs : member[p].bars \subseteq Bars /\ member[p].evidence \in 0..MaxEpochs
    /\ Len(events.buffer) <= BufferMax
    /\ {lastOpen[p] : p \in StreamPairs} \cup {loss[p] : p \in StreamPairs} \subseteq 0..closed

(* While the stream serves a pair that is ready, no closed bar is missing      *)
(* without somebody on its way to it: it is buffered or being applied, or the  *)
(* evidence lane knows of the loss, or the server has forgotten the pair.      *)
OnItsWay(p, b) ==
    \/ InBuffer(events.buffer, p, b)
    \/ events.taken # NoWork /\ events.taken.pair = p /\ events.taken.bar = b
    \/ loss[p] > 0 /\ loss[p] <= b
Complete(p) ==
    info[p].status = "ready" /\ p \in server.live /\ member[p].on /\ member[p].evidence = link.epoch =>
        \A b \in Bars : b \in member[p].bars \/ OnItsWay(p, b)

(* So is every pair but one: a second acknowledgement of the same connection   *)
(* asks for a later handoff while the load of the first still runs, and that   *)
(* load takes the later handoff away and opens the pair.                       *)
ReadyIsComplete == \A p \in StreamPairs \ overtaken : Complete(p)

(* "A minute is stored or buffered before READY, with no loss"                 *)
(* (openspec/specs/data-cache/spec.md:361): untrue of the code, by that path.  *)
ReadyHasNoLoss == \A p \in StreamPairs : Complete(p)
=============================================================================
