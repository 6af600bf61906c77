----------------------------- MODULE MCServices -----------------------------
(* The loops and services of the program that keep to themselves, explored     *)
(* side by side: part says which.                                              *)
EXTENDS HistoryLoop, LiveAnalysis, RequestBudget, TelegramDelivery, EntryAdmission, SessionGuard,
        ProfileTrade, HistoryTicks, PatternEvents, TLC
CONSTANTS q1, q2, t1, t2, Parts
VARIABLE part

Symmetry == Permutations({q1, q2})
SameForAll == [d \in Desks |-> "BR"]
Window(s, e, r) == [start |-> s, end |-> e, raw |-> r]
TwoDays == {Window(0, 3, "morning"), Window(4, 7, "main"), Window(9, 10, "evening"), Window(10, 14, "main"),
            Window(20, 24, "morning")}
TwoTargets == [p \in ProfileNames |-> IF p = "ma_cloud" THEN <<>> ELSE <<1, 2>>]
HalfOrQuarter == [p \in ProfileNames |-> CASE p = "ma_cloud" -> <<>> [] p = "atr_trend" -> <<25, 25>>
                                          [] OTHER -> <<50, 50>>]
Candle(o, w, b, c, f, s) == [open |-> o, worst |-> w, best |-> b, close |-> c, fast |-> f, slow |-> s]
SomeCandles == {Candle(0, -2, 8, 6, -2, -4), Candle(6, 4, 14, 12, 8, 6), Candle(8, 2, 30, 26, 20, 12),
                Candle(4, -4, 4, -2, 0, 2), Candle(-20, -30, 0, -25, 0, 0), Candle(20, 3, 22, 20, 21, 10)}
HalfEach == [l \in 1 .. Lanes |-> 1]

Shape(o, c) == [open |-> o, close |-> c]
FiveShapes == <<Shape(10, 9), Shape(8, 11), Shape(12, 7), Shape(13, 6), Shape(5, 14)>>
Every(n) == {n * k : k \in 0 .. 16}
ThreeGrids == (1 :> Every(1)) @@ (2 :> Every(2)) @@ (4 :> Every(4))
Market(m1, m2, n1, n2, o) ==
    [trades |-> (t1 :> 0 .. 3 \union m1) @@ (t2 :> 0 .. 3 \union m2), needs |-> (t1 :> n1) @@ (t2 :> n2), open |-> o]
OneMarket == Market({4, 5, 6, 9, 10, 11}, {4, 5, 9, 10, 11}, {1, 4}, {2, 4}, {})
FiveMarkets == {OneMarket, Market(4 .. 8, {4}, {1, 2}, {1, 2}, {}),
                Market({4, 8, 9, 13, 14}, 4 .. 12, {2, 4}, {1}, 0 .. 14),
                Market({4, 5, 10, 11, 12, 13}, {4, 5, 10, 12, 13}, {1, 2, 4}, {4}, 0 .. 6 \union 10 .. 14),
                Market(4 .. 9, {4, 9, 10, 12}, {1, 2}, {1}, 0 .. 4)}

vars == <<part, loopVars, liveVars, budgetVars, deliveryVars, admissionVars, sessionVars, profileVars, ticksVars, patternVars>>

Init == /\ part \in Parts /\ LoopInit /\ LiveInit /\ BudgetInit /\ DeliveryInit
        /\ AdmissionInit /\ SessionInit /\ ProfileInit /\ TicksInit /\ PatternInit
        /\ part # "loop" => event = 0 /\ pauses = {} /\ bars = [p \in Papers |-> {0}]
        /\ part # "admission" => quote = 5
        /\ part # "ticks" => tickMarket = OneMarket
Next ==
    \/ part = "loop" /\ LoopNext
       /\ UNCHANGED <<part, liveVars, budgetVars, deliveryVars, admissionVars, sessionVars,
                     profileVars, ticksVars, patternVars>>
    \/ part = "live" /\ LiveNext
       /\ UNCHANGED <<part, loopVars, budgetVars, deliveryVars, admissionVars, sessionVars,
                     profileVars, ticksVars, patternVars>>
    \/ part = "budget" /\ BudgetNext
       /\ UNCHANGED <<part, loopVars, liveVars, deliveryVars, admissionVars, sessionVars,
                     profileVars, ticksVars, patternVars>>
    \/ part = "telegram" /\ DeliveryNext
       /\ UNCHANGED <<part, loopVars, liveVars, budgetVars, admissionVars, sessionVars,
                     profileVars, ticksVars, patternVars>>
    \/ part = "admission" /\ AdmissionNext
       /\ UNCHANGED <<part, loopVars, liveVars, budgetVars, deliveryVars, sessionVars,
                     profileVars, ticksVars, patternVars>>
    \/ part = "session" /\ SessionNext
       /\ UNCHANGED <<part, loopVars, liveVars, budgetVars, deliveryVars, admissionVars,
                     profileVars, ticksVars, patternVars>>
    \/ part = "profile" /\ ProfileNext
       /\ UNCHANGED <<part, loopVars, liveVars, budgetVars, deliveryVars, admissionVars,
                     sessionVars, ticksVars, patternVars>>
    \/ part = "ticks" /\ TicksNext
       /\ UNCHANGED <<part, loopVars, liveVars, budgetVars, deliveryVars, admissionVars,
                     sessionVars, profileVars, patternVars>>
    \/ part = "patterns" /\ PatternNext
       /\ UNCHANGED <<part, loopVars, liveVars, budgetVars, deliveryVars, admissionVars,
                     sessionVars, profileVars, ticksVars>>
Spec == Init /\ [][Next]_vars

(* The variables of the services keep their types.                             *)
ServiceTypes ==
    /\ LoopTypeOK
    /\ LiveTypeOK
    /\ BudgetTypeOK
    /\ DeliveryTypeOK
    /\ AdmissionTypeOK
    /\ SessionTypeOK
    /\ ProfileTypeOK
    /\ TicksTypeOK
    /\ PatternTypeOK

(* What is done once stays done once: a bar trades once, a message reaches     *)
(* Telegram once, and an event Redis, but for what went without a mark. And    *)
(* nothing is passed over: bars are calculated one by one, a bar given to the  *)
(* pattern thread is kept until it is analysed, and a run over history that    *)
(* reports its range as covered with fewer failures than minutes has executed  *)
(* it to the last candle.                                                      *)
OnceAndAll ==
    /\ EventOnce
    /\ SignalOnce
    /\ SentOnce
    /\ TaskIsKept
    /\ BarsInOrder
    /\ EndIsHonest

(* Limits hold whoever asks: requests stay under the broker's ceiling, a       *)
(* family on one side of the market, and an intraday position held past its    *)
(* mark on the word of an approved carry has its stop at break-even.           *)
LimitsKept ==
    /\ CeilingKept
    /\ OneSide
    /\ CarriedIsEven

(* What was planned is kept: the distances of a plan, a target for every       *)
(* contract, break-even, a stop that never loosens; the posts of a trade       *)
(* arrive in the order of its events, a tick over history analyses what closes *)
(* at it, and its clock leaps over silence only.                               *)
PromisesHold ==
    /\ []PlanIsKept
    /\ []AllHasATarget
    /\ []BreakEvenPays
    /\ StopImproves
    /\ []TradeInOrder
    /\ []BoundariesServed
    /\ []LeapsAreSilent
=============================================================================
