---------------------------- MODULE RequestBudget ----------------------------
(* The arbiter of the broker's request limits: data/request_budget.py.         *)
(*                                                                             *)
(* One service of the broker, time in ticks. Lanes are numbered in the order   *)
(* of LANE_ORDER; a lane with a lower number goes first. The pace of the old   *)
(* mode without lanes is zero here, as it is when lanes run.                   *)
EXTENDS Integers, Sequences, SequencesExt, FiniteSets, FiniteSetsExt

CONSTANTS
    Lanes,         \* LANE_ORDER is 1 .. Lanes
    BudgetRanges,  \* keys of requests
    RequestLimit,  \* requests of the service in a window
    Guarantee,     \* per lane, its share of the ceiling
    QuotaWindow,   \* the minute, in ticks
    DemandWindow,  \* _DEMAND_WINDOW, in ticks
    MaxTicks,      \* bound: the clock
    MaxPauses      \* bound: replies RESOURCE_EXHAUSTED

ASSUME BudgetAssumption ==
    /\ {Lanes, RequestLimit, QuotaWindow} \subseteq Nat \ {0} /\ {DemandWindow, MaxPauses} \subseteq Nat
    /\ MaxTicks \in Nat \ {0}
    /\ Guarantee \in [1 .. Lanes -> 0 .. RequestLimit]
(* _validate_shares(): at most 100 percent.                                    *)
ASSUME ShareAssumption == MapThenSumSet(LAMBDA l : Guarantee[l], 1 .. Lanes) <= RequestLimit

VARIABLES
    budgetTick,    \* the clock
    recentlySent,  \* _sent: requests of the last window, oldest first
    laneDemand,    \* _demand: per lane, the tick of its last refusal, 0 for none
    everSent,      \* the ticks of all requests ever sent, in order
    pausedTo,      \* _retry_after
    inflight,      \* requests on their way
    limitReplies   \* replies RESOURCE_EXHAUSTED so far

budgetVars == <<budgetTick, recentlySent, laneDemand, everSent, pausedTo, inflight, limitReplies>>

LaneOrder == 1 .. Lanes

BudgetInit ==
    /\ budgetTick = 1 /\ recentlySent = <<>>
    /\ laneDemand = [l \in LaneOrder |-> 0] /\ everSent = <<>>
    /\ pausedTo = 0 /\ inflight = {} /\ limitReplies = 0

(* _prune(): what is older than the window leaves at the head.                 *)
FromFirst(s, fresh) == IF fresh = {} THEN <<>> ELSE SubSeq(s, Min(fresh), Len(s))
RecentShort(s, t) == FromFirst(s, {i \in DOMAIN s : s[i].at > t - QuotaWindow + 1}) \* a window one tick short
RecentWindow(s, t) == FromFirst(s, {i \in DOMAIN s : s[i].at > t - QuotaWindow})
RecentSent(s, t) == RecentWindow(s, t)
UsedBy(s, lane) == Cardinality({i \in DOMAIN s : s[i].lane = lane})

LaneWaits(lane) == laneDemand[lane] # 0 /\ budgetTick - laneDemand[lane] <= DemandWindow

(* What the waiting lanes before this one are still owed.                      *)
OwedTo(s, other) == Max({0, Guarantee[other] - UsedBy(s, other)}) + (IF Guarantee[other] = 0 THEN 1 ELSE 0)
Reserved(s, lane) == MapThenSumSet(LAMBDA l : OwedTo(s, l), {l \in LaneOrder : l < lane /\ LaneWaits(l)})

(* _quota_gate(): the lane's share, or a place nobody before it waits for.     *)
QuotaByShare(s, lane) == \* without the ceiling of the service:
     UsedBy(s, lane) < Guarantee[lane] \/ RequestLimit - Len(s) - Reserved(s, lane) > 0
QuotaLeft(s, lane) ==
    /\ Len(s) < RequestLimit
    /\ \/ UsedBy(s, lane) < Guarantee[lane]
       \/ RequestLimit - Len(s) - Reserved(s, lane) > 0
GateOpen(s, lane) == pausedTo <= budgetTick /\ QuotaLeft(s, lane)
-----------------------------------------------------------------------------
(* call(): a range on its way is put off without a word to the quota; a        *)
(* refused lane is noted as waiting; a request that may go is counted first.   *)
CallBroker == \E lane \in LaneOrder, key \in BudgetRanges :
    LET s == RecentSent(recentlySent, budgetTick)
    IN /\ \A r \in inflight : r.key # key
       /\ \/ /\ GateOpen(s, lane)
             /\ recentlySent' = Append(s, [at |-> budgetTick, lane |-> lane])
             /\ laneDemand' = [laneDemand EXCEPT ![lane] = 0]
             /\ everSent' = Append(everSent, budgetTick)
             /\ inflight' = inflight \cup {[key |-> key, lane |-> lane]}
          \/ /\ ~GateOpen(s, lane)
             /\ recentlySent' = s /\ UNCHANGED <<inflight, everSent>>
             /\ laneDemand' = [laneDemand EXCEPT ![lane] = budgetTick]
       /\ UNCHANGED <<budgetTick, pausedTo, limitReplies>>

(* The reply releases the range; a limit of the broker pauses the service, by        *)
(* the hint of the reply or the default.                                       *)
BrokerReply == \E r \in inflight :
    /\ inflight' = inflight \ {r}
    /\ \/ UNCHANGED <<pausedTo, limitReplies>>
       \/ /\ limitReplies < MaxPauses /\ limitReplies' = limitReplies + 1
          /\ \E reset \in 1 .. 2 : pausedTo' = budgetTick + reset
    /\ UNCHANGED <<budgetTick, recentlySent, laneDemand, everSent>>

TickPasses ==
    /\ budgetTick < MaxTicks /\ budgetTick' = budgetTick + 1
    /\ UNCHANGED <<recentlySent, laneDemand, everSent, pausedTo, inflight, limitReplies>>

BudgetNext == CallBroker \/ BrokerReply \/ TickPasses
-----------------------------------------------------------------------------
BudgetTypeOK ==
    /\ budgetTick \in 1 .. MaxTicks /\ Len(recentlySent) <= RequestLimit
    /\ \A l \in LaneOrder : laneDemand[l] \in 0 .. budgetTick
    /\ pausedTo \in 0 .. MaxTicks + 2 /\ limitReplies \in 0 .. MaxPauses

(* The ceiling holds in every window of the past, wherever it is laid, with    *)
(* all lanes, failures and pauses.                                           *)
CeilingKept == \A from \in 1 .. budgetTick :
    Cardinality({i \in DOMAIN everSent : from <= everSent[i] /\ everSent[i] < from + QuotaWindow}) <= RequestLimit
=============================================================================
