------------------------------- MODULE MCData -------------------------------
(* Modules of the market data side, explored side by side: part says which.   *)
EXTENDS MarketFeed, CandleStore, GapResolution, StreamHandoff
CONSTANTS pair1, pair2, value1, value2, source1, source2, Parts
VARIABLE part

vars == <<part, feedVars, candleVars, gapVars, streamVars>>

Init == /\ part \in Parts /\ FeedInit /\ CandleInit /\ GapInit /\ StreamInit
        /\ part # "gap" => traded = {}
        /\ part # "stream" => polling
Next ==
    \/ part = "feed" /\ FeedNext /\ UNCHANGED <<part, candleVars, gapVars, streamVars>>
    \/ part = "candle" /\ CandleNext /\ UNCHANGED <<part, feedVars, gapVars, streamVars>>
    \/ part = "gap" /\ GapNext /\ UNCHANGED <<part, feedVars, candleVars, streamVars>>
    \/ part = "stream" /\ StreamNext /\ UNCHANGED <<part, feedVars, candleVars, gapVars>>
Spec == Init /\ [][Next]_vars

(* The variables of the market data side keep their types.                    *)
DataTypes == FeedTypeOK /\ CandleTypeOK /\ GapTypeOK /\ StreamTypeOK
=============================================================================
