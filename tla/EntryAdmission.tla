-------------------------- MODULE EntryAdmission --------------------------
(* Which increases the trade manager admits: signals of several assignments,   *)
(* each with a trade of its own, share one account, one risk budget and one    *)
(* margin.                                                                     *)
(*   src/src/trade_management/manager.py, src/src/portfolio/risk.py            *)
(* Money is in roubles and one point of price is one rouble.  A trade keeps    *)
(* the total cost of its contracts, not their average, to stay in integers.    *)
EXTENDS Integers, FiniteSets, FiniteSetsExt
CONSTANTS
    Desks,             \* assignments, each with its instrument
    Family,            \* the exposure key of a desk's instrument
    InitialBalance,
    PortfolioPct,      \* percent of the account that may be at risk
    MaxQty,            \* contracts of one trade
    Fee, Slip,         \* per contract: one side's commission, the round trip's slippage
    Margin,            \* of one contract
    MaxDeviation,      \* of the live price from the entry, in percents of the stop's distance
    MinRiskPct,        \* least risk of a trade, percent of the account
    MinRiskCost,       \* least ratio of risk to costs
    TargetR,           \* planned reward, in stop distances; 0: the plan has no complete targets
    AllowedSides,      \* directions open to this type of instrument
    Quotes, Distances, \* prices that occur, and distances of stops
    MaxSignals         \* bound: signals of one desk
ASSUME AdmissionAssumption ==
    /\ InitialBalance \in Nat /\ PortfolioPct \in 0 .. 100 /\ MaxQty \in Nat \ {0}
    /\ {Fee, Slip, Margin, MaxDeviation, MinRiskPct, MinRiskCost, TargetR, MaxSignals} \subseteq Nat
    /\ Quotes \subseteq Nat \ {0}
VARIABLES
    deal,        \* the latest trade of each desk
    rising,      \* its unfilled increase and the reservation for it
    balance,     \* of the account
    equity,      \* at the last revaluation
    equityKnown, \* FALSE: the last revaluation lacked a price or a factor
    quote,       \* the live price, 0 when it is not valid
    processed,   \* signals a desk has traded
    justAdmitted \* the last step admitted an increase (only observed)
admissionVars == <<deal, rising, balance, equity, equityKnown, quote, processed, justAdmitted>>

Sides == {"BUY", "SELL"}
Sign(side) == IF side = "BUY" THEN 1 ELSE -1
Most(a, b) == IF a > b THEN a ELSE b
Least(a, b) == IF a < b THEN a ELSE b
NoDeal == [phase |-> "none", side |-> "BUY", qty |-> 0, paid |-> 0, stop |-> 0, dist |-> 0]
NoRise == [left |-> 0, of |-> 1, price |-> 0, risk |-> 0]
Unfinished(d) == d.phase = "ENTRY_PENDING" \/ d.qty > 0

AdmissionInit ==
    /\ deal = [d \in Desks |-> NoDeal] /\ rising = [d \in Desks |-> NoRise]
    /\ balance = InitialBalance /\ equity = InitialBalance /\ equityKnown = TRUE
    /\ quote \in Quotes /\ processed = [d \in Desks |-> {}] /\ justAdmitted = FALSE

------------------------------------------------------------------------------
(* What is at risk now                                                         *)

(* Weighted exposure to the stop.                                              *)
StopLoss(t) == Most(0, Sign(t.side) * (t.paid - t.stop * t.qty))

(* Loss at the stop with the costs of leaving; half of the slippage of a round *)
(* trip is still to come (doubled, to stay in whole numbers).                  *)
TradeRisk2(t) == 2 * StopLoss(t) + 2 * Fee * t.qty + Slip * t.qty

Account == Most(0, Least(balance, equity))

(* A reservation shrinks with the unfilled part of its order (doubled too; exact *)
(* for orders of two contracts and an even Slip).                              *)
NotCounted(r) == 0 \* what if an order on its way were not counted
PendingRisk2(r) == (r.risk * r.left) \div r.of
UsedRisk2 == MapThenSumSet(LAMBDA d : TradeRisk2(deal[d]) + PendingRisk2(rising[d]), Desks)
UsedMargin == MapThenSumSet(LAMBDA d : Margin * (deal[d].qty + rising[d].left), Desks)
WithinRisk(used2) == 50 * used2 <= Account * PortfolioPct
WithinMargin(used) == used <= Account

(* The largest quantity the limits allow, found by halving.                    *)
LargestAllowed(allowed, maximum) ==
    LET search[low \in 0 .. maximum, high \in 0 .. maximum] ==
          IF low >= high THEN low
          ELSE LET middle == (low + high + 1) \div 2
               IN  IF middle \in allowed THEN search[middle, high] ELSE search[low, middle - 1]
    IN  search[0, maximum]
------------------------------------------------------------------------------
(* A new entry                                                                 *)

RoundTrip == 2 * Fee + Slip

(* A trade of another direction that is not over, on the same exposure.        *)
Opposed(d, side) ==
    \E o \in Desks : Family[o] = Family[d] /\ Unfinished(deal[o]) /\ deal[o].side # side

(* The live price has left the planned entry behind by too much.               *)
Deviates(side, entry, stop) ==
    100 * Most(0, Sign(side) * (quote - entry)) > MaxDeviation * Sign(side) * (entry - stop)

(* What the filled order would risk must fit beside what is at risk already.   *)
OpenQuantity(side, entry, stop, wanted) ==
    LET each == Sign(side) * (entry - stop) + RoundTrip
        fitting == {q \in 0 .. MaxQty : WithinRisk(UsedRisk2 + 2 * each * q) /\ WithinMargin(UsedMargin + Margin * q)}
    IN  IF PortfolioPct = 0 \/ ~WithinRisk(UsedRisk2) \/ Sign(side) * (entry - stop) <= 0 THEN 0
        ELSE LargestAllowed(fitting, Least(MaxQty, wanted))

(* A quantity not worth its costs or its attention.                            *)
PoorEconomics(dist, q) ==
    \/ TargetR > 0 /\ RoundTrip >= TargetR * dist
    \/ 100 * dist * q < Account * MinRiskPct
    \/ RoundTrip > 0 /\ dist < MinRiskCost * RoundTrip

(* A signal of a desk without a trade: refusals in the order of the code, then *)
(* the plan, its reservation and its signal are saved in one transaction.      *)
(* Refusals for the execution cursor and for slippage (manager.py:1963, 2222)  *)
(* only leave a signal without its trade, as no step does.                     *)
AdmitEntry(d) ==
    \E s \in 1 .. MaxSignals, side \in Sides, entry \in Quotes, dist \in Distances, wanted \in 1 .. MaxQty :
      LET stop == entry - Sign(side) * dist
          q == OpenQuantity(side, entry, stop, wanted)
      IN  /\ ~Unfinished(deal[d])
          /\ ~Opposed(d, side)
          /\ quote # 0 /\ side \in AllowedSides
          /\ ~Deviates(side, entry, stop)
          /\ s \notin processed[d]
          /\ equityKnown
          /\ q > 0 /\ ~PoorEconomics(dist, q)
          /\ deal' = [deal EXCEPT ![d] = [NoDeal EXCEPT !.phase = "ENTRY_PENDING", !.side = side,
                                                        !.stop = stop, !.dist = dist]]
          /\ rising' = [rising EXCEPT ![d] = [left |-> q, of |-> q, price |-> entry, risk |-> 2 * (dist + RoundTrip) * q]]
          /\ processed' = [processed EXCEPT ![d] = @ \union {s}]
          /\ justAdmitted' = TRUE
          /\ UNCHANGED <<balance, equity, equityKnown, quote>>

(* An addition to a trade with no increase in flight.                          *)
AddedRisk(t, limit, q) ==
    Most(0, 2 * Most(0, Sign(t.side) * (t.paid - t.stop * t.qty + (limit - t.stop) * q))
            + (2 * Fee + Slip) * t.qty + 2 * RoundTrip * q - TradeRisk2(t))
AdmitAdd(d) ==
    \E limit \in Quotes, wanted \in 1 .. MaxQty :
      LET t == deal[d]
          fitting == {q \in 0 .. MaxQty : /\ WithinRisk(UsedRisk2) /\ WithinRisk(UsedRisk2 + AddedRisk(t, limit, q))
                                           /\ WithinMargin(UsedMargin + Margin * q)}
          q == LargestAllowed(fitting, Least(wanted, Most(0, MaxQty - t.qty)))
      IN  /\ t.phase = "OPEN" /\ rising[d].left = 0
          /\ equityKnown /\ PortfolioPct > 0
          /\ q > 0
          /\ rising' = [rising EXCEPT ![d] = [left |-> q, of |-> q, price |-> limit,
                                              risk |-> AddedRisk(t, limit, q)]]
          /\ justAdmitted' = TRUE
          /\ UNCHANGED <<deal, balance, equity, equityKnown, quote, processed>>

------------------------------------------------------------------------------
(* What happens to the trades meanwhile                                        *)

Settle == justAdmitted' = FALSE

(* The distance to the stop is kept from the average price, on the price grid, *)
(* and the stop never gives way.                                               *)
Rebased(t) ==
    LET kept == Sign(t.side) * ((Sign(t.side) * t.paid) \div t.qty) - Sign(t.side) * t.dist
    IN  IF Sign(t.side) * (kept - t.stop) > 0 THEN kept ELSE t.stop

(* A limit order fills at its price or a better one, in whole or in part.      *)
IncreaseFills(d) ==
    \E f \in 1 .. rising[d].left, better \in 0 .. 1 :
      LET t == deal[d]
          price == rising[d].price - Sign(t.side) * better
          filled == [t EXCEPT !.phase = "OPEN", !.qty = @ + f, !.paid = @ + price * f]
      IN  /\ deal' = [deal EXCEPT ![d] = [filled EXCEPT !.stop = Rebased(filled)]]
          /\ rising' = [rising EXCEPT ![d] = IF f = rising[d].left THEN NoRise ELSE [rising[d] EXCEPT !.left = @ - f]]
          /\ Settle /\ UNCHANGED <<balance, equity, equityKnown, quote, processed>>

(* The rest of the order is cancelled, and its reservation released.           *)
IncreaseCancelled(d) ==
    /\ rising[d].left > 0
    /\ rising' = [rising EXCEPT ![d] = NoRise]
    /\ deal' = [deal EXCEPT ![d].phase = IF deal[d].qty = 0 THEN "CANCELLED" ELSE @]
    /\ Settle /\ UNCHANGED <<balance, equity, equityKnown, quote, processed>>

(* The stop moves closer to the market.                                        *)
StopMoves(d) ==
    /\ deal[d].qty > 0 /\ quote # 0
    /\ Sign(deal[d].side) * (quote - deal[d].stop) > 1
    /\ deal' = [deal EXCEPT ![d].stop = @ + Sign(deal[d].side)]
    /\ Settle /\ UNCHANGED <<rising, balance, equity, equityKnown, quote, processed>>

(* The position closes, at its stop or at the market.                          *)
PositionCloses(d) ==
    \E price \in {deal[d].stop} \union ({quote} \ {0}) :
      /\ deal[d].qty > 0
      /\ balance' = balance + Sign(deal[d].side) * (price * deal[d].qty - deal[d].paid) - 2 * Fee * deal[d].qty
      /\ deal' = [deal EXCEPT ![d] = [NoDeal EXCEPT !.phase = "CLOSED"]]
      /\ rising' = [rising EXCEPT ![d] = NoRise]
      /\ Settle /\ UNCHANGED <<equity, equityKnown, quote, processed>>

(* The whole account is revalued, or its equity is not known.                  *)
MarkToMarket ==
    /\ IF quote = 0 /\ \E d \in Desks : deal[d].qty > 0
       THEN equityKnown' = FALSE /\ UNCHANGED equity
       ELSE /\ equity' = balance + MapThenSumSet(
                   LAMBDA d : Sign(deal[d].side) * (quote * deal[d].qty - deal[d].paid), Desks)
            /\ equityKnown' = TRUE
    /\ Settle /\ UNCHANGED <<deal, rising, balance, quote, processed>>

QuoteMoves ==
    /\ \E p \in Quotes \union {0} : p # quote /\ quote' = p
    /\ Settle /\ UNCHANGED <<deal, rising, balance, equity, equityKnown, processed>>

AdmissionNext ==
    \/ \E d \in Desks : AdmitEntry(d) \/ AdmitAdd(d) \/ IncreaseFills(d) \/ IncreaseCancelled(d)
                        \/ StopMoves(d) \/ PositionCloses(d)
    \/ MarkToMarket \/ QuoteMoves

------------------------------------------------------------------------------
AdmissionTypeOK ==
    /\ \A d \in Desks : /\ deal[d].phase \in {"none", "ENTRY_PENDING", "OPEN", "CLOSED", "CANCELLED"}
                        /\ deal[d].qty \in 0 .. MaxQty /\ rising[d].left \in 0 .. MaxQty
    /\ {balance, equity} \subseteq Int /\ {equityKnown, justAdmitted} \subseteq BOOLEAN
    /\ quote \in Quotes \union {0}

(* Were every order to fill at its limit and every position then to leave at   *)
(* its stop, what an admission adds to is lost within the budget: reservations *)
(* of other desks, made at other prices, count for what they can still cost.   *)
WorstLoss2(d) ==
    LET t == deal[d]  r == rising[d]
    IN  IF t.phase \notin {"ENTRY_PENDING", "OPEN"} THEN 0
        ELSE 2 * Most(0, Sign(t.side) * (t.paid + r.price * r.left - t.stop * (t.qty + r.left)))
             + (2 * Fee + Slip) * t.qty + 2 * RoundTrip * r.left
BudgetKept ==
    justAdmitted => /\ WithinRisk(MapThenSumSet(WorstLoss2, Desks))
                    /\ WithinMargin(UsedMargin)

(* The account never holds, or waits for, both sides of one family.            *)
OneSide ==
    \A d, o \in Desks :
        Family[d] = Family[o] /\ Unfinished(deal[d]) /\ Unfinished(deal[o]) => deal[d].side = deal[o].side
=============================================================================
