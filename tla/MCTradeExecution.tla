------------------------- MODULE MCTradeExecution -------------------------
(* Instances of TradeExecution for TLC: prices are ranks.  The entry waits *)
(* at 5 with its stop at 2, an addition at 6 raises it to 3, the target    *)
(* is 8.                                                                   *)
EXTENDS TradeExecution

Bar(o, l, h) == [open |-> o, low |-> l, high |-> h]
Calm   == Bar(7, 6, 7)  \* an addition at its limit, the entry waits
AtOpen == Bar(4, 4, 9)  \* both limits at the open, then the target
Dip    == Bar(7, 5, 9)  \* both limits and the target, in an order nobody knows
Fall   == Bar(7, 1, 7)  \* both limits, then the stop
MainBars == {Calm, AtOpen, Dip, Fall}
=============================================================================
