----------------------------- MODULE PairDemand -----------------------------
(* Which pairs the core serves for the contours: assembly/demand.py, the       *)
(* demand side of assembly/feed.py, the rows both share (data/market_store.py),*)
(* and what the follower's cache makes of readiness (data/follower.py).        *)
(*                                                                             *)
(* The contour writes its demand and its obligations as rows; the core polls   *)
(* them, serves what is asked for and releases what nobody needs after a hold. *)
EXTENDS Naturals, FiniteSets

CONSTANTS
    DemandPairs,    \* pairs of an instrument and a timeframe
    Contours,       \* contour_id of the contours that write rows
    Unread,         \* rows that the poll has not read yet
    MaxRestarts     \* bound: restarts of the core and of contours, in all

ASSUME DemandAssumption == MaxRestarts \in Nat

VARIABLES
    demand,   \* contour_demand
    duty,     \* contour_obligations
    unseen,   \* history: of them those written since the poller last read them
    ready,    \* pair_readiness
    poller,   \* ContourDemandPoller: rows read, _applied, _missing_since, the pairs registered
    link,     \* StoreCoreLink._sent and the cache's _wanted, per contour
    bound,    \* the pairs each contour's cache has bound
    restarts  \* restarts so far

demandVars == <<demand, duty, unseen, ready, poller, link, bound, restarts>>

NoPoll == [read |-> Unread, held |-> Unread, served |-> {}, missing |-> {}, members |-> {}]
Off == [on |-> FALSE, sent |-> {}, wanted |-> {}]

DemandInit ==
    /\ demand = [c \in Contours |-> {}] /\ duty = [c \in Contours |-> {}]
    /\ unseen = duty
    /\ ready = {} /\ poller = NoPoll
    /\ link = [c \in Contours |-> Off]
    /\ bound = [c \in Contours |-> {}]
    /\ restarts = 0

Everybody(f) == UNION {f[c] : c \in Contours}
-----------------------------------------------------------------------------
(* serve(): the demand of this contour's earlier starts is replaced.           *)
Start(c) == \E first \in SUBSET DemandPairs :
    /\ ~link[c].on
    /\ link' = [link EXCEPT ![c] = [on |-> TRUE, sent |-> first, wanted |-> first]]
    /\ demand' = [demand EXCEPT ![c] = first]
    /\ UNCHANGED <<duty, unseen, ready, poller, bound, restarts>>

(* frame_for and request_live_history of a pair: the row is written once.      *)
Ask(c, p) ==
    /\ link[c].on /\ p \notin link[c].sent
    /\ link' = [link EXCEPT ![c].sent = @ \cup {p}, ![c].wanted = @ \cup {p}]
    /\ demand' = [demand EXCEPT ![c] = @ \cup {p}]
    /\ UNCHANGED <<duty, unseen, ready, poller, bound, restarts>>

(* forget(): an instrument without trades has left the contour; the cache's    *)
(* own wish stays.                                                             *)
Forget(c, p) ==
    /\ link[c].on /\ p \in link[c].sent /\ p \notin duty[c]
    /\ link' = [link EXCEPT ![c].sent = @ \ {p}]
    /\ demand' = [demand EXCEPT ![c] = @ \ {p}]
    /\ UNCHANGED <<duty, unseen, ready, poller, bound, restarts>>

(* update_obligations() after a tick: a trade on a pair in use begins or ends. *)
Oblige(c, p) ==
    /\ link[c].on /\ p \in link[c].sent \cap bound[c] /\ p \notin duty[c]
    /\ duty' = [duty EXCEPT ![c] = @ \cup {p}] /\ unseen' = [unseen EXCEPT ![c] = @ \cup {p}]
    /\ UNCHANGED <<demand, ready, poller, link, bound, restarts>>

Settle(c, p) ==
    /\ link[c].on /\ p \in duty[c] /\ p \in bound[c]
    /\ duty' = [duty EXCEPT ![c] = @ \ {p}] /\ unseen' = [unseen EXCEPT ![c] = @ \ {p}]
    /\ UNCHANGED <<demand, ready, poller, link, bound, restarts>>

(* apply_readiness(): dropped pairs are unbound, wanted ones bound.            *)
Follow(c) ==
    /\ link[c].on
    /\ bound' = [bound EXCEPT ![c] = ready \cap (link[c].wanted \cup @)]
    /\ UNCHANGED <<demand, duty, unseen, ready, poller, link, restarts>>

(* The process ends: its rows stay, its trades stay in the journal.            *)
Stop(c) ==
    /\ link[c].on /\ restarts < MaxRestarts
    /\ link' = [link EXCEPT ![c] = Off]
    /\ bound' = [bound EXCEPT ![c] = {}]
    /\ restarts' = restarts + 1
    /\ UNCHANGED <<demand, duty, unseen, ready, poller>>
-----------------------------------------------------------------------------
(* poll_once() reads the demand first ...                                      *)
PollReads ==
    /\ poller.read = Unread
    /\ poller' = [poller EXCEPT !.read = Everybody(demand)]
    /\ UNCHANGED <<demand, duty, unseen, ready, link, bound, restarts>>

(* ... asks the cache for new pairs, a pair that is asked for again begins its *)
(* hold anew, and reads the obligations ...                                    *)
HeldIgnored == {} \* what if obligations did not hold a pair
Held == Everybody(duty)

PollHolds ==
    /\ poller.read # Unread /\ poller.held = Unread
    /\ poller' = [poller EXCEPT !.held = Held, !.served = @ \cup poller.read, !.missing = @ \ poller.read,
                                !.members = @ \cup (poller.read \ poller.served)]
    /\ unseen' = [c \in Contours |-> {}]
    /\ UNCHANGED <<demand, duty, ready, link, bound, restarts>>

(* ... and by what it has read releases what has been missed for               *)
(* release_seconds and is not held. What is held begins its hold anew.         *)
ServedKept(served, released) == served \* what if a released pair still counted as served
ServedAfter(served, released) == served \ released

PollActs ==
    /\ poller.held # Unread
    /\ LET lacking == (poller.served \ poller.read) \ poller.held
       IN \E released \in SUBSET (lacking \cap poller.missing) :
            /\ poller' = [read |-> Unread, held |-> Unread, served |-> ServedAfter(poller.served, released),
                          missing |-> lacking \ released, members |-> poller.members \ released]
            /\ ready' = ready \ released
    /\ UNCHANGED <<demand, duty, unseen, link, bound, restarts>>

(* Warmed up and published; unregistering drops it in PollActs.                *)
PublishReadiness(p) ==
    /\ p \in poller.members \ ready
    /\ ready' = ready \cup {p}
    /\ UNCHANGED <<demand, duty, unseen, poller, link, bound, restarts>>

(* The core starts again: no pair is ready until it is published.              *)
CoreRestarts ==
    /\ restarts < MaxRestarts
    /\ poller' = NoPoll /\ ready' = {}
    /\ restarts' = restarts + 1
    /\ UNCHANGED <<demand, duty, unseen, link, bound>>
-----------------------------------------------------------------------------
PollerStep == PollReads \/ PollHolds \/ PollActs
DemandNext ==
    \/ \E c \in Contours :
          \/ Start(c) \/ Stop(c) \/ Follow(c)
          \/ \E p \in DemandPairs : Ask(c, p) \/ Forget(c, p) \/ Oblige(c, p) \/ Settle(c, p)
    \/ \E p \in DemandPairs : PublishReadiness(p)
    \/ PollerStep \/ CoreRestarts

(* Both processes poll in a loop; a served pair is warmed up at last.          *)
DemandFairness ==
    /\ WF_demandVars(PollerStep)
    /\ \A p \in DemandPairs : WF_demandVars(PublishReadiness(p))
    /\ \A c \in Contours : WF_demandVars(Follow(c))

DemandSpec == DemandInit /\ [][DemandNext]_demandVars /\ DemandFairness
-----------------------------------------------------------------------------
DemandTypeOK ==
    /\ demand \in [Contours -> SUBSET DemandPairs] /\ duty \in [Contours -> SUBSET DemandPairs]
    /\ ready \subseteq DemandPairs
    /\ unseen \in [Contours -> SUBSET DemandPairs]
    /\ poller \in [read : {Unread} \cup SUBSET DemandPairs, held : {Unread} \cup SUBSET DemandPairs, served : SUBSET DemandPairs,
                   missing : SUBSET DemandPairs, members : SUBSET DemandPairs]
    /\ link \in [Contours -> [on : BOOLEAN, sent : SUBSET DemandPairs, wanted : SUBSET DemandPairs]]
    /\ bound \in [Contours -> SUBSET DemandPairs]

(* A pair with an unfinished trade is not taken away from its contour while    *)
(* the poller lives: the demand may be gone (an instrument forgotten, a contour*)
(* restarted with other members), the obligation still holds it. Said of every *)
(* obligation that stands since the poller last read them.                     *)
Served(p) == p \in ready /\ restarts' = restarts => p \in ready'
DutyIsServed == [][\A c \in Contours : \A p \in duty[c] \ unseen[c] : Served(p)]_demandVars

(* "A pair without demand and without obligations is released after the hold"  *)
(* (assembly/demand.py:109): untrue of the code for an obligation that is      *)
(* written between that reading and the release.                               *)
ReleasedIsFree == [][\A p \in Everybody(duty) : Served(p)]_demandVars

(* A pair a running contour asks for is bound in its cache at last, or the     *)
(* contour no longer asks: releases race new demands.                          *)
AskedIsBound == \A c \in Contours, p \in DemandPairs :
    p \in link[c].sent ~> (p \in bound[c] \/ p \notin link[c].sent)
=============================================================================
