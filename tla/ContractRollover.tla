-------------------------- MODULE ContractRollover --------------------------
(* The contracts of a family of futures in a run over history: the chain built *)
(* from the catalogue, and the passage from a contract to the next one, which  *)
(* waits until nothing is left of the old one.                                 *)
(*   src/src/history/contract_chain.py                                         *)
(*   src/src/history/contract_lifecycle.py (RolloverLifecycle)                 *)
(*   src/src/trade_management/manager.py (drain_contract)                      *)
(* One family. A minute is two units of time, so that a cutoff may fall inside *)
(* one. A run over history is never started again, so a restart is left out.   *)
EXTENDS Integers, Sequences, SequencesExt, FiniteSets, FiniteSetsExt
CONSTANTS
    Catalogs,     \* sets of cards [expiry, last, notice, first, shift]; 0: no such date
    RollStart, RollEnd,  \* the range of the run
    LeadUnits,    \* lead_days
    DateUnits,    \* a date, in units
    WarmUnits,    \* history a contract needs before it is ready
    MaxFaults     \* bound: failed saves, executions and deliveries
ASSUME RolloverAssumption ==
    /\ \A cards \in Catalogs : cards \subseteq [expiry : Nat, last : Nat, notice : Nat, first : Nat, shift : Nat]
    /\ {RollStart, RollEnd, LeadUnits, DateUnits, WarmUnits, MaxFaults} \subseteq Nat
    /\ RollStart < RollEnd /\ DateUnits > 0
VARIABLES
    catalog,
    chain,        \* the segments of the family
    rollClock,    \* the time of the market
    rollStage,    \* how far the tick is
    unplayed,     \* bars that closed and are not executed yet: <<contract, opening>>
    fresh,        \* contracts whose bar closes now
    link,         \* rollover_states: the contract's number, and its phase
    linkPhase,
    activated,    \* activation_at
    passages,     \* rollover_transitions: per old contract; "none" before it begins
    holding,      \* per contract: its quantity, increase, cancel and close
    grown,        \* per contract: the bar its position last grew in, and its signal's origin
    lastBar,      \* per contract: the opening of the last bar executed
    rollEnd,      \* "no", or how the run has ended
    faults
rolloverVars == <<catalog, chain, rollClock, rollStage, unplayed, fresh, link, linkPhase, activated, passages, holding, grown,
                  lastBar, rollEnd, faults>>

------------------------------------------------------------------------------
(* The chain                                                                   *)

(* An expiry at midnight is the name of a day, not a moment, where the last    *)
(* trade of that day is known.                                                 *)
DayOnly(card) == card.last > 0 /\ card.expiry % DateUnits = 0 /\ card.last \div DateUnits = card.expiry \div DateUnits
Deadline(card) == Min(({card.last, card.notice} \ {0}) \union (IF DayOnly(card) THEN {} ELSE {card.expiry}))
CutoffOf(card) == Deadline(card) - LeadUnits - card.shift

Admissible(card, t) == card.first <= t /\ t < CutoffOf(card)
ByExpiry(cards) == SetToSortSeq({c \in cards : c.expiry > RollStart}, LAMBDA c, d : c.expiry < d.expiry)
Ambiguous(cards) == \E c, d \in cards : c # d /\ c.expiry = d.expiry /\ c.expiry > RollStart
Segment(card, start) ==
    [card |-> card, start |-> start, end |-> Min({CutoffOf(card), RollEnd}), cutoff |-> CutoffOf(card), deadline |-> Deadline(card)]

(* The first card in the order of expiry that is admissible at the start, and  *)
(* then every next one up to the end of the range; or none at all.             *)
Starting(cards) == {i \in DOMAIN ByExpiry(cards) : Admissible(ByExpiry(cards)[i], RollStart)}
Reaching(cards) == {i \in DOMAIN ByExpiry(cards) : CutoffOf(ByExpiry(cards)[i]) >= RollEnd}
BuildChain(cards) ==
    LET order == ByExpiry(cards)
        from == Min(Starting(cards))
        upto == Min({i \in Reaching(cards) : i >= from})
        begins(i) == IF i = from THEN RollStart ELSE CutoffOf(order[i - 1])
    IN  IF Ambiguous(cards) \/ Starting(cards) = {} THEN <<>>
        ELSE IF \/ {i \in Reaching(cards) : i >= from} = {}
                \/ \E i \in from .. upto : ~Admissible(order[i], begins(i))
        THEN <<>>
        ELSE [k \in 1 .. upto - from + 1 |-> Segment(order[from + k - 1], begins(from + k - 1))]

------------------------------------------------------------------------------
Contracts == DOMAIN chain
NoTrade == [qty |-> 0, rise |-> "none", since |-> 0, origin |-> 0, cancel |-> FALSE, close |-> "none", sent |-> 0]
NoPassage == [status |-> "none", draining |-> 0, flat |-> 0, active |-> 0]
Ungrown == [open |-> 0, origin |-> 0]

RolloverInit ==
    /\ catalog \in Catalogs /\ chain = BuildChain(catalog)
    /\ rollClock = RollStart /\ rollStage = "rest" /\ unplayed = {} /\ fresh = {}
    /\ link = 1 /\ linkPhase = "WAITING_DATA" /\ activated = 0
    /\ passages = [c \in Contracts |-> NoPassage] /\ holding = [c \in Contracts |-> NoTrade]
    /\ grown = [c \in Contracts |-> Ungrown] /\ lastBar = [c \in Contracts |-> 0]
    /\ rollEnd = (IF chain = <<>> THEN "refused" ELSE "no") /\ faults = 0

Part == chain[link]
Passing == link - 1 \in Contracts /\ passages[link - 1].status # "none"

(* contract_has_obligations()                                                  *)
Owes(c) == holding[c].qty > 0 \/ holding[c].rise # "none" \/ holding[c].cancel \/ holding[c].close # "none"
Rolls(c) == chain[c].cutoff < RollEnd

(* next_event()                                                                *)
CalendarEvents == {IF linkPhase = "DRAINING" THEN Part.deadline ELSE Part.cutoff}
NextEvents == {e \in CalendarEvents : rollClock < e /\ e < RollEnd}

Fault == faults < MaxFaults /\ faults' = faults + 1
(* An exception leaves the tick; what has been saved stays.                    *)
LeaveTick == rollStage' = "rest"

------------------------------------------------------------------------------
(* A tick                                                                      *)

MarketContracts == {link} \union (IF linkPhase = "DRAINING" THEN {link + 1} \intersect Contracts ELSE {})
Trades(c, open) == chain[c].card.first <= open /\ open < chain[c].card.expiry
UpToMinute(t) == 2 * ((t + 2) \div 2)

(* The next minute, with or without bars; or, over a break, the next bar or    *)
(* the next event of the calendar, whichever is first.                         *)
BeginTick ==
    /\ rollStage = "rest" /\ rollEnd = "no" /\ rollClock < RollEnd
    /\ \/ \E t \in {UpToMinute(rollClock)} \union (rollClock + 3 .. RollEnd), bars \in SUBSET MarketContracts :
            /\ t % 2 = 0 /\ t <= RollEnd
            /\ t > UpToMinute(rollClock) => bars # {} /\ \A e \in NextEvents : e > t - 2
            /\ \A c \in bars : Trades(c, t - 2)
            /\ rollClock' = t /\ fresh' = bars /\ unplayed' = unplayed \union {<<c, t - 2>> : c \in bars}
            /\ rollStage' = "opened"
       \/ \E e \in NextEvents : rollClock' = e /\ fresh' = {} /\ rollStage' = "event" /\ UNCHANGED unplayed
    /\ UNCHANGED <<catalog, chain, link, linkPhase, activated, passages, holding, grown, lastBar, rollEnd, faults>>

(* before_tick(): the passage begins at the cutoff. A failed save restores     *)
(* what was stored.                                                            *)
CutoffReached == linkPhase = "ACTIVE" /\ Part.cutoff <= rollClock /\ Rolls(link)
AfterBefore == IF rollStage = "event" THEN "settles-event" ELSE "executes"
BeforeTick ==
    /\ rollStage \in {"opened", "event"}
    /\ \/ CutoffReached /\ linkPhase' = "DRAINING" /\ activated' = 0
          /\ passages' = [passages EXCEPT ![link] = [NoPassage EXCEPT !.status = "draining", !.draining = rollClock]]
          /\ rollStage' = AfterBefore /\ UNCHANGED faults
       \/ CutoffReached /\ Fault /\ LeaveTick /\ UNCHANGED <<linkPhase, activated, passages>>
       \/ ~CutoffReached /\ rollStage' = AfterBefore /\ UNCHANGED <<linkPhase, activated, passages, faults>>
    /\ UNCHANGED <<catalog, chain, rollClock, unplayed, fresh, link, holding, grown, lastBar, rollEnd>>

(* The simulated execution of the oldest bar left: a close at its open, an     *)
(* increase only where the bar lies in the contract's own time, protection     *)
(* inside it. A full exit takes the increases with it.                         *)
IncreaseAllowed(c, open) == chain[c].card.first <= open /\ open + 2 <= chain[c].cutoff /\ open < chain[c].cutoff
AtBroker(t) == t.rise \in {"placed", "unsure"}
Cancelled(t) == [t EXCEPT !.rise = "none", !.since = 0, !.origin = 0]
Left(t) == [(IF AtBroker(t) THEN Cancelled(t) ELSE t) EXCEPT !.qty = 0, !.close = "none", !.sent = 0]
Played(c, open) ==
    LET t == holding[c] IN
    IF t.close = "placed" /\ t.sent <= open THEN {Left(t)}
    ELSE LET opened ==
               IF ~AtBroker(t) \/ t.since > open THEN {t}
               ELSE IF ~IncreaseAllowed(c, open) THEN {Cancelled(t)}
               ELSE {t, [Cancelled(t) EXCEPT !.qty = t.qty + 1]}
         IN  opened \union {Left(u) : u \in {v \in opened : v.qty > 0}}
ExecuteBar ==
    /\ rollStage = "executes"
    /\ \E bar \in unplayed :
         LET c == bar[1] open == bar[2] IN
         /\ \A other \in unplayed : open <= other[2]
         /\ \E t \in Played(c, open) :
              /\ holding' = [holding EXCEPT ![c] = t]
              /\ grown' = IF t.qty > holding[c].qty THEN [grown EXCEPT ![c] = [open |-> open, origin |-> holding[c].origin]]
                          ELSE grown
         /\ unplayed' = unplayed \ {bar} /\ lastBar' = [lastBar EXCEPT ![c] = open]
    /\ UNCHANGED <<catalog, chain, rollClock, rollStage, fresh, link, linkPhase, activated, passages, rollEnd, faults>>
ExecutionDone ==
    /\ rollStage = "executes"
    /\ \/ unplayed = {} /\ rollStage' = "settles" /\ UNCHANGED faults
       \/ unplayed # {} /\ Fault /\ LeaveTick
    /\ UNCHANGED <<catalog, chain, rollClock, unplayed, fresh, link, linkPhase, activated, passages, holding, grown, lastBar, rollEnd>>

------------------------------------------------------------------------------
(* after_execution()                                                           *)
Settling == rollStage \in {"settles", "settles-event"}
Settled == IF rollStage = "settles-event" THEN "rest" ELSE "analyses"

(* Obligations at the deadline end the run.                                    *)
TooLate == linkPhase = "DRAINING" /\ rollClock >= Part.deadline /\ Owes(link)
DeadlineMissed ==
    /\ Settling /\ TooLate
    /\ \/ passages' = [passages EXCEPT ![link].status = "incomplete"] /\ rollEnd' = "failed" /\ UNCHANGED faults
       \/ Fault /\ UNCHANGED <<passages, rollEnd>>
    /\ LeaveTick
    /\ UNCHANGED <<catalog, chain, rollClock, unplayed, fresh, link, linkPhase, activated, holding, grown, lastBar>>

(* drain_contract(): an increase that was not sent is cancelled on the spot,   *)
(* one that was by an order of its own, which is confirmed at once unless the  *)
(* broker never had the increase and a position is open; then what is left is  *)
(* closed. Nothing is ordered a second time. A failed delivery leaves the      *)
(* orders for the next tick.                                                   *)
LocallyCancelled(t) == IF t.rise = "queued" THEN Cancelled(t) ELSE t
Ordered(t) == t.cancel \/ t.rise # "none"
Refused(t) == t.rise = "lost" /\ t.qty > 0
CancelDelivered(t) == [(IF Refused(t) THEN t ELSE Cancelled(t)) EXCEPT !.cancel = FALSE]
CloseOrdered(t, delivered) ==
    IF t.qty = 0 \/ t.close # "none" THEN (IF delivered /\ t.close = "queued" THEN [t EXCEPT !.close = "placed"] ELSE t)
    ELSE [t EXCEPT !.close = IF delivered THEN "placed" ELSE "queued", !.sent = rollClock]
Drained(t, delivered) ==
    LET u == LocallyCancelled(t)
        v == IF ~Ordered(u) THEN u ELSE IF delivered THEN CancelDelivered(u) ELSE [u EXCEPT !.cancel = TRUE]
    IN  CloseOrdered(v, delivered)
Draining == Settling /\ linkPhase = "DRAINING" /\ ~TooLate
DrainFails ==
    /\ Draining /\ Fault
    /\ holding' = [holding EXCEPT ![link] = Drained(holding[link], FALSE)]
    /\ LeaveTick
    /\ UNCHANGED <<catalog, chain, rollClock, unplayed, fresh, link, linkPhase, activated, passages, grown, lastBar, rollEnd>>
Drain ==
    /\ Draining
    /\ LET t == Drained(holding[link], TRUE)
           clean == t.qty = 0 /\ t.rise = "none" /\ ~t.cancel /\ t.close = "none"
       IN  /\ holding' = [holding EXCEPT ![link] = t]
           /\ \/ ~clean /\ rollStage' = Settled /\ UNCHANGED <<link, linkPhase, passages, faults>>
              \/ clean /\ link' = link + 1 /\ linkPhase' = "WAITING_DATA"
                 /\ passages' = [passages EXCEPT ![link].flat = rollClock, ![link].status = "waiting_data"]
                 /\ UNCHANGED <<rollStage, faults>>
              \/ clean /\ Fault /\ LeaveTick /\ UNCHANGED <<link, linkPhase, passages>>
    /\ UNCHANGED <<catalog, chain, rollClock, unplayed, fresh, activated, grown, lastBar, rollEnd>>

(* The segment of a waiting contract is over: it is passed by. Two saves.      *)
SegmentOver == linkPhase = "WAITING_DATA" /\ Part.cutoff <= rollClock /\ Rolls(link)
SkippedBefore == IF Passing THEN [passages EXCEPT ![link - 1].status = "skipped"] ELSE passages
SkipBegun == [SkippedBefore EXCEPT ![link] = [NoPassage EXCEPT !.status = "skipped", !.draining = rollClock]]
SkipSegment ==
    /\ Settling /\ SegmentOver
    /\ \/ /\ passages' = [SkipBegun EXCEPT ![link].flat = rollClock]
          /\ link' = link + 1 /\ activated' = 0 /\ UNCHANGED <<linkPhase, rollStage, faults>>
       \/ Fault /\ passages' \in {passages, SkippedBefore} /\ LeaveTick /\ UNCHANGED <<link, linkPhase, activated>>
       \/ Fault /\ passages' = SkipBegun /\ linkPhase' = "DRAINING" /\ activated' = 0 /\ LeaveTick /\ UNCHANGED link
    /\ UNCHANGED <<catalog, chain, rollClock, unplayed, fresh, holding, grown, lastBar, rollEnd>>

(* A waiting contract with history enough and a bar that closes now is active. *)
Ready == rollClock >= Part.card.first + WarmUnits
MayActivate == linkPhase = "WAITING_DATA" /\ rollClock < Part.cutoff /\ Ready /\ link \in fresh
Activate ==
    /\ Settling /\ MayActivate
    /\ \/ /\ linkPhase' = "ACTIVE" /\ activated' = (IF link = 1 /\ ~Passing THEN Part.start ELSE rollClock)
          /\ passages' = IF Passing THEN [passages EXCEPT ![link - 1].status = "active", ![link - 1].active = rollClock] ELSE passages
          /\ rollStage' = Settled /\ UNCHANGED faults
       \/ Fault /\ LeaveTick /\ UNCHANGED <<linkPhase, activated, passages>>
    /\ UNCHANGED <<catalog, chain, rollClock, unplayed, fresh, link, holding, grown, lastBar, rollEnd>>

NothingToSettle ==
    /\ Settling /\ linkPhase # "DRAINING" /\ ~SegmentOver /\ ~MayActivate
    /\ rollStage' = Settled
    /\ UNCHANGED <<catalog, chain, rollClock, unplayed, fresh, link, linkPhase, activated, passages, holding, grown, lastBar, rollEnd, faults>>

------------------------------------------------------------------------------
(* The analysis                                                                *)

(* can_increase() and signal_allowed(): the working bar and the event it       *)
(* confirms, which may be older, both lie in the contract's active time.       *)
CanIncrease(c) == linkPhase = "ACTIVE" /\ c = link /\ rollClock < chain[c].cutoff
SignalAllowed(c, bar, origin) == CanIncrease(c) /\ bar >= activated /\ origin >= activated
EnterOrAdd(c) ==
    \E bar \in {rollClock - 2, rollClock - 4}, back \in {0, 2}, to \in {"placed", "queued", "unsure", "lost"} :
        /\ SignalAllowed(c, bar, bar - back)
        /\ holding[c].rise = "none" /\ holding[c].close = "none" /\ holding[c].qty < 2
        /\ holding' = [holding EXCEPT ![c].rise = to, ![c].since = rollClock, ![c].origin = bar - back]
        /\ IF to = "placed" THEN UNCHANGED faults ELSE Fault
LeaveTrade(c) ==
    /\ holding[c].qty > 0 /\ holding[c].close = "none"
    /\ holding' = [holding EXCEPT ![c].close = "placed", ![c].sent = rollClock] /\ UNCHANGED faults
Analyse ==
    /\ rollStage = "analyses"
    /\ \/ \E c \in MarketContracts : EnterOrAdd(c) \/ LeaveTrade(c)
       \/ UNCHANGED <<holding, faults>>
    /\ rollStage' = "rest"
    /\ UNCHANGED <<catalog, chain, rollClock, unplayed, fresh, link, linkPhase, activated, passages, grown, lastBar, rollEnd>>

(* An order that was not sent is sent by a later tick.                         *)
SendQueued ==
    /\ rollStage = "executes" /\ \E c \in Contracts : holding[c].rise = "queued" \/ holding[c].close = "queued"
    /\ holding' = [c \in Contracts |->
           [holding[c] EXCEPT !.rise = IF @ = "queued" THEN "placed" ELSE @, !.close = IF @ = "queued" THEN "placed" ELSE @]]
    /\ UNCHANGED <<catalog, chain, rollClock, rollStage, unplayed, fresh, link, linkPhase, activated, passages, grown, lastBar, rollEnd, faults>>

(* finish(): a passage that is not over is called incomplete.                  *)
FinishRun ==
    /\ rollStage = "rest" /\ rollEnd = "no" /\ rollClock >= RollEnd
    /\ passages' = IF Passing /\ passages[link - 1].status \in {"draining", "waiting_data"}
                   THEN [passages EXCEPT ![link - 1].status = "incomplete"]
                   ELSE IF linkPhase = "DRAINING" /\ passages[link].status \in {"draining", "waiting_data"}
                   THEN [passages EXCEPT ![link].status = "incomplete"] ELSE passages
    /\ rollEnd' = IF linkPhase = "DRAINING" THEN "failed" ELSE "done"
    /\ UNCHANGED <<catalog, chain, rollClock, rollStage, unplayed, fresh, link, linkPhase, activated, holding, grown, lastBar, faults>>

RolloverNext ==
    \/ BeginTick \/ BeforeTick \/ ExecuteBar \/ ExecutionDone \/ DeadlineMissed \/ DrainFails \/ Drain \/ SkipSegment
    \/ Activate \/ NothingToSettle \/ Analyse \/ SendQueued \/ FinishRun

------------------------------------------------------------------------------
RolloverTypeOK ==
    /\ rollClock \in RollStart .. RollEnd /\ faults \in 0 .. MaxFaults
    /\ linkPhase \in {"WAITING_DATA", "ACTIVE", "DRAINING"} /\ (chain # <<>> => link \in Contracts)
    /\ rollStage \in {"rest", "opened", "event", "executes", "settles", "settles-event", "analyses"}
    /\ rollEnd \in {"no", "refused", "failed", "done"}
    /\ \A c \in Contracts : holding[c].qty \in 0 .. 2 /\ holding[c].rise \in {"none", "queued", "placed", "unsure", "lost"}

(* The contract in force, hour by hour, as the requirement puts it: at first   *)
(* the nearest expiry among the admissible, then the immediate next one as     *)
(* soon as the cutoff comes.                                                   *)
Nearest(cards, t) == {c \in cards : Admissible(c, t) /\ \A d \in cards : Admissible(d, t) => c.expiry <= d.expiry}
Following(cards, c) == {d \in cards : d.expiry > c.expiry /\ \A e \in cards : e.expiry > c.expiry => d.expiry <= e.expiry}
InForce(cards) ==
    LET at[t \in RollStart .. RollEnd - 1] ==
          IF t = RollStart THEN Nearest(cards, t)
          ELSE UNION {IF t < CutoffOf(c) THEN {c} ELSE {d \in Following(cards, c) : Admissible(d, t)} : c \in at[t - 1]}
    IN  at
(* The chain is refused where no contract is in force at some moment, and says *)
(* the contract in force everywhere else.                                      *)
ChainIsExact ==
    LET due == InForce(catalog) IN
    IF \E t \in DOMAIN due : Cardinality(due[t]) # 1 THEN chain = <<>>
    ELSE \A t \in DOMAIN due : \E c \in Contracts : chain[c].start <= t /\ t < chain[c].end /\ due[t] = {chain[c].card}

(* Never anything in two contracts of the family at once.                      *)
OneContract == \A c, d \in Contracts : Owes(c) /\ Owes(d) => c = d

(* A position grows only in bars of the contract's own time, by signals that   *)
(* arose when the contract was active, which it was not before the old one was *)
(* flat, nor the old one flat before its cutoff.                               *)
ActiveSince(c) == IF c = 1 THEN RollStart ELSE passages[c - 1].active
GrowthIsOwn ==
    \A c \in Contracts : grown[c] # Ungrown =>
        /\ chain[c].card.first <= grown[c].open /\ grown[c].open + 2 <= chain[c].cutoff
        /\ grown[c].origin >= ActiveSince(c)
PassagesInOrder ==
    \A c \in Contracts :
        /\ passages[c].status # "none" => chain[c].cutoff <= passages[c].draining
        /\ c < link => passages[c].status \in {"waiting_data", "active", "skipped", "incomplete"} /\ passages[c].draining <= passages[c].flat
        /\ passages[c].active # 0 => passages[c].flat # 0 /\ passages[c].flat <= passages[c].active
        /\ c > link => passages[c].status = "none"
        /\ c < link - 1 => passages[c].status \in {"active", "skipped"}

(* A tick that ends well leaves nothing in a contract past its deadline, and   *)
(* the run that ends says so.                                                  *)
DeadlineHolds ==
    /\ rollEnd = "no" /\ (rollStage = "analyses" \/ (rollStage = "rest" /\ faults = 0)) =>
           \A c \in Contracts : rollClock >= chain[c].deadline => ~Owes(c)
    /\ rollEnd \in {"failed", "done"} => \A c \in Contracts : passages[c].status \notin {"draining", "waiting_data"}
    /\ rollEnd = "done" => \A c \in Contracts : Owes(c) => c = link /\ (faults = 0 => rollClock < chain[c].cutoff \/ ~Rolls(c))

(* What the check before the run asks for is enough: with one bar of the old   *)
(* contract from the first minute at its cutoff on, a run without faults does  *)
(* not fail for what is left of it.                                            *)
Aligned(t) == 2 * ((t + 1) \div 2)
OneBarSuffices == rollEnd = "failed" /\ faults = 0 => lastBar[link] < Aligned(Part.cutoff)
=============================================================================
