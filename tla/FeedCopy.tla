------------------------------ MODULE FeedCopy ------------------------------
(* What the contour's cache of candles promises: a bound pair shows a state of  *)
(* the pair that the market database has had, and once the reader has said      *)
(* that it applied the feed up to a position, no older one.                     *)
EXTENDS Naturals, Sequences, FiniteSets

CONSTANTS Pairs, Traded, Nothing
VARIABLES source, feed, copy, claim

copyVars == <<source, feed, copy, claim>>

(* The feed's newest candle of a pair among its first n changes, 0 if none.     *)
CandleUpTo(p, n) ==
    LET at == {i \in 1..n : i <= Len(feed) /\ feed[i] = [pair |-> p, kind |-> "candle"]}
    IN IF at = {} THEN 0 ELSE CHOOSE i \in at : \A j \in at : j <= i

(* Nothing older than the claim may be shown.                                   *)
NotOlder(p, n) == copy[p] # Nothing => copy[p].source = source /\ copy[p].at >= CandleUpTo(p, n)

Init ==
    /\ source = 1 /\ feed = <<>>
    /\ copy = [p \in Traded |-> Nothing]
    /\ claim = [source |-> 1, upTo |-> 0]

Change == \E p \in Pairs, k \in {"candle", "absent"} :
    feed' = Append(feed, [pair |-> p, kind |-> k]) /\ UNCHANGED <<source, copy, claim>>

Replace == source' = source + 1 /\ feed' = <<>> /\ UNCHANGED <<copy, claim>>

(* Some of the copies move, each to one of the pair's versions that the claim   *)
(* leaves open; of a source that was replaced nothing is promised.              *)
Take ==
    /\ copy' \in [Traded -> {Nothing} \cup [source : 1..source, at : Nat]]
    /\ \A p \in Traded : copy'[p] \in {Nothing, copy[p]} \/ copy'[p].source # source
        \/ /\ copy'[p].at \in {CandleUpTo(p, n) : n \in 0..Len(feed)}
           /\ claim.source = source => copy'[p].at >= CandleUpTo(p, claim.upTo)
    /\ UNCHANGED <<source, feed, claim>>

(* The claim of a replaced source promises nothing.                             *)
Claim ==
    /\ claim' \in [source : 1..source, upTo : Nat]
    /\ claim'.source = source =>
           /\ claim'.upTo <= Len(feed)
           /\ \A p \in Traded : NotOlder(p, claim'.upTo)
    /\ UNCHANGED <<source, feed, copy>>

Next == Change \/ Replace \/ Take \/ Claim
Spec == Init /\ [][Next]_copyVars
=============================================================================
