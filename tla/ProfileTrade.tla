---------------------------- MODULE ProfileTrade ----------------------------
(* A trade as its profile plans and manages it: where the stop and the targets *)
(* are put, when the stop moves, when contracts are added or given up.  The    *)
(* four profiles share the geometry of the plan and the rules of management;   *)
(* each brings its own levels.  Algorithm economics-v2.                        *)
(*   src/src/trade_management/profiles/                                        *)
(* Prices are in units finer than a tick, so that rounding shows; one unit of  *)
(* price on one contract is one unit of money.  What the broker does with the  *)
(* orders of a bar, in detail, is TradeExecution; here it only answers.        *)
EXTENDS Integers, Sequences, FiniteSets, SequencesExt
CONSTANTS
    Tick,
    ProfileNames,                                     \* of atr_trend, levels_rr, ma_cloud, pattern_targets
    Ratios, Shares,                                   \* by profile: targets in units of risk, parts of the position in percent
    SignalPrice,                                      \* price of the signal
    Structures,                                       \* distances of a support or a formation's point from it
    Formations,                                       \* distances of a formation's end from it
    Atrs, Ranges,                                     \* volatility and range of the last bar
    MinStopAtr, MinStopTicks, BeyondBar, MaxStopAtr,  \* bounds of a stop's distance
    BufferTicks, StopAtr, TrailAtr, AdvanceR, MinEvenR, AddPercent, MaxAdds,
    EntryFee, ExitFee,                                \* per contract
    Lots,                                             \* sizes of an entry
    Candles,                                          \* [open, worst, best, close, fast, slow], distances from the signal's price
    MaxCandles                                        \* bound
ASSUME ProfileAssumption ==
    /\ {Tick, MinStopTicks, StopAtr, TrailAtr, SignalPrice} \subseteq Nat \ {0} /\ Lots \subseteq Nat \ {0}
    /\ {MinStopAtr, BeyondBar, MaxStopAtr, BufferTicks, AdvanceR, MinEvenR, AddPercent, MaxAdds,
        EntryFee, ExitFee, MaxCandles} \subseteq Nat
    /\ Structures \union Formations \union Atrs \union Ranges \subseteq Nat
    /\ \A p \in ProfileNames :
          /\ Ratios[p] \in Seq(Nat) /\ Shares[p] \in Seq(1 .. 100) /\ Len(Shares[p]) = Len(Ratios[p])
          /\ p = "ma_cloud" => Shares[p] = <<>>
          /\ p = "pattern_targets" => Len(Shares[p]) = 2
    /\ \A c \in Candles :
          /\ c \in [{"open", "worst", "best", "close", "fast", "slow"} -> Int]
          /\ {c.open, c.close} \subseteq c.worst .. c.best
VARIABLES
    setup,                                            \* the plan: [profile, dir, entry, stop, goals, atr], or NoSetup
    lots, entered,                                    \* contracts held, and bought in all
    average,                                          \* price they are held at
    protect,                                          \* confirmed stop
    goals,                                            \* prices of the targets, rebased on the average
    taken,                                            \* contracts each target has closed
    gross, fees,                                      \* realised result and fees
    trail, peak,                                      \* trailing is active; best price seen by it
    adds, asked,                                      \* additions made; the live one [price, size]
    moves,                                            \* stops on their way to the broker, in order: [price, even]
    giving,                                           \* contracts to be given up at the next open
    evenAt,                                           \* the last break-even the trade moved its stop to, 0 when never
    candle, candles,                                  \* the last bar, and how many there were
    mover                                             \* whose turn it is: bar, manage, signal
position == <<lots, entered, average, goals, taken, gross, fees, adds>>
stance == <<trail, peak>>
profileVars == <<setup, position, protect, stance, asked, moves, giving, evenAt, candle, candles, mover>>

NoSetup == [profile |-> "none"]
NoAsk == [price |-> 0, size |-> 0]
ProfileInit ==
    /\ setup = NoSetup /\ lots = 0 /\ entered = 0 /\ average = 0 /\ protect = 0
    /\ goals = <<>> /\ taken = <<>> /\ gross = 0 /\ fees = 0 /\ trail = FALSE /\ peak = 0
    /\ adds = 0 /\ asked = NoAsk /\ moves = <<>> /\ giving = 0 /\ evenAt = 0
    /\ candle = [open |-> 0, worst |-> 0, best |-> 0, close |-> 0, fast |-> 0, slow |-> 0]
    /\ candles = 0 /\ mover = "bar"

------------------------------------------------------------------------------
(* Prices: dir is 1 for BUY and -1 for SELL                                    *)

Higher(a, b) == IF a > b THEN a ELSE b
Lower(a, b) == IF a < b THEN a ELSE b
Beyond(dir, a, b) == dir * (a - b) > 0      \* a is more profitable than b
Loss(dir, price) == dir * (((dir * price) \div Tick) * Tick)       \* rounded to the losing side
Gain(dir, price) == Loss(-dir, price)                             \* to the winning one

------------------------------------------------------------------------------
(* The plan                                                                    *)

(* Where the profile itself would put the stop: so many ranges away, or behind  *)
(* a level, the cloud, or the point that breaks the formation.                 *)
Behind(dir, depth) == Loss(dir, SignalPrice - dir * (depth + BufferTicks * Tick))
AtrStop(dir, atr) == Loss(dir, SignalPrice - dir * StopAtr * atr)
LevelStop(dir, depth) == Behind(dir, depth)
CloudStop(dir, depth) == Behind(dir, depth)
Structural(profile, dir, depth, atr) ==
    CASE profile = "atr_trend" -> AtrStop(dir, atr)
      [] profile = "ma_cloud" -> CloudStop(dir, depth)
      [] OTHER -> LevelStop(dir, depth)

(* The distance the shared bounds allow: not inside the noise of the bar, not  *)
(* so far that the targets are out of reach.                                   *)
Floor(atr, range) == Higher(Higher(MinStopAtr * atr, MinStopTicks * Tick), BeyondBar * range)
Cap(atr) == MaxStopAtr * atr
Bounded(distance, atr, range) == Higher(Lower(Higher(distance, Floor(atr, range)), Cap(atr)), Tick)
StopDistance(distance, atr, range) == Bounded(distance, atr, range)

(* Targets in risk units pay their ratio after the costs of the round trip; a  *)
(* formation's own stand where it put them, half-way and at its end.           *)
RTarget(dir, distance, ratio) == Gain(dir, SignalPrice + dir * (distance * ratio + EntryFee + ExitFee))
Goals(profile, dir, distance, reach) ==
    IF profile = "pattern_targets"
    THEN <<Loss(dir, SignalPrice + dir * (reach \div 2)), Loss(dir, SignalPrice + dir * reach)>>
    ELSE [i \in DOMAIN Ratios[profile] |-> RTarget(dir, distance, Ratios[profile][i])]
Ahead(dir, prices) ==
    \A i \in DOMAIN prices : /\ Beyond(dir, prices[i], SignalPrice) /\ prices[i] > 0
                             /\ i > 1 => Beyond(dir, prices[i], prices[i - 1])

(* A plan, unless the structure is on the wrong side, the bounds conflict, or  *)
(* a target is not ahead.                                                      *)
PlanTrade ==
    \E profile \in ProfileNames, dir \in {1, -1}, depth \in Structures, reach \in Formations,
       atr \in Atrs, range \in Ranges :
      LET proposed == Structural(profile, dir, depth, atr)
          stop == Loss(dir, SignalPrice - dir * StopDistance(dir * (SignalPrice - proposed), atr, range))
          prices == Goals(profile, dir, dir * (SignalPrice - stop), reach)
      IN  /\ setup = NoSetup
          /\ Beyond(dir, SignalPrice, proposed)
          /\ Floor(atr, range) <= Cap(atr) /\ Tick <= Cap(atr)
          /\ Ahead(dir, prices)
          /\ setup' = [profile |-> profile, dir |-> dir, entry |-> SignalPrice, stop |-> stop,
                       goals |-> prices, floor |-> Floor(atr, range), cap |-> Cap(atr)]
          /\ goals' = prices /\ taken' = [i \in DOMAIN prices |-> 0]
          /\ UNCHANGED <<lots, entered, average, protect, gross, fees, adds, stance,
                         asked, moves, giving, evenAt, candle, candles, mover>>

Dir == setup.dir
Risk == Dir * (setup.entry - setup.stop)

(* Target orders of a position: each its share in whole contracts, the last    *)
(* one the rest, unless the rest is kept for trailing.                         *)
Allotted(size) ==
    LET part == Shares[setup.profile]
        rest[i \in 0 .. Len(part)] ==
            IF i = 0 THEN size
            ELSE IF setup.profile # "atr_trend" /\ i = Len(part) THEN 0
            ELSE rest[i - 1] - Lower((size * part[i]) \div 100, rest[i - 1])
    IN  [i \in DOMAIN part |-> rest[i - 1] - rest[i]]
Allocation(size) == Allotted(size)
Completed == {i \in DOMAIN taken : taken[i] > 0}

------------------------------------------------------------------------------
(* The broker's answers                                                        *)

(* Stop and targets follow the price the position is held at; the stop never   *)
(* back, and a target that has sold not at all.                                *)
RebasedStop(at) == Loss(Dir, at - Dir * Risk)
RebasedGoals(at) ==
    [i \in DOMAIN goals |-> IF setup.profile = "pattern_targets" \/ taken[i] > 0 THEN goals[i]
                            ELSE Gain(Dir, at + setup.goals[i] - setup.entry)]
Rebasing(stop, other) == other   \* mutant: the stop follows the average, whichever way
Tighter(stop, other) == IF Beyond(Dir, other, stop) THEN other ELSE stop

(* A limit entry fills at its price or at a better open.                       *)
EntryIsFilled ==
    \E size \in Lots, better \in {0, Tick} :
      LET at == SignalPrice - Dir * better
      IN  /\ setup # NoSetup /\ entered = 0
          /\ lots' = size /\ entered' = size /\ average' = at /\ fees' = EntryFee * size
          /\ protect' = RebasedStop(at) /\ goals' = RebasedGoals(at)
          /\ UNCHANGED <<setup, taken, gross, adds, stance, asked, moves, giving, evenAt,
                         candle, candles, mover>>

(* A bar: stops on their way count from its open, where what was to be given up *)
(* goes; then the stop, the targets, and the addition if the bar comes back.   *)
At(distance) == SignalPrice + Dir * distance
Total(f) ==
    LET sum[i \in 0 .. Len(f)] == IF i = 0 THEN 0 ELSE sum[i - 1] + f[i]
    IN  sum[Len(f)]
CandleCloses ==
    \E bar \in Candles :
      LET stop == IF moves = <<>> THEN protect ELSE Last(moves).price
          gapped == ~Beyond(Dir, At(bar.open), stop)
          given == IF gapped THEN 0 ELSE IF giving > lots THEN lots ELSE giving
          stopped == ~Beyond(Dir, At(bar.worst), stop)
          sold == [i \in DOMAIN goals |->
                     IF stopped \/ Beyond(Dir, goals[i], At(bar.best)) THEN 0
                     ELSE Lower(Allocation(entered)[i] - taken[i], lots - given)]
          left == IF stopped THEN lots - given ELSE 0
          out == given + left + Total(sold)
          added == out = 0 /\ asked.size > 0 /\ ~Beyond(Dir, At(bar.worst), asked.price)
          size == IF added THEN asked.size ELSE 0
          cost == average * lots + asked.price * size
          at == IF added THEN cost \div (lots + size) ELSE average
      IN  /\ lots > 0 /\ mover # "manage" /\ candles < MaxCandles
          /\ added => cost % (lots + size) = 0
          /\ mover' = "manage" /\ candle' = bar /\ candles' = candles + 1
          /\ lots' = lots + size - out /\ entered' = entered + size /\ adds' = adds + Lower(size, 1)
          /\ average' = at /\ taken' = [i \in DOMAIN taken |-> taken[i] + sold[i]]
          /\ goals' = IF added THEN RebasedGoals(at) ELSE goals
          /\ protect' = IF added THEN Tighter(stop, RebasedStop(at)) ELSE stop
          /\ fees' = fees + EntryFee * size + ExitFee * out
          /\ gross' = gross + given * Dir * (At(bar.open) - average)
                            + left * Dir * ((IF gapped THEN At(bar.open) ELSE stop) - average)
                            + Total([i \in DOMAIN goals |-> sold[i] * Dir * (goals[i] - average)])
          /\ asked' = IF added \/ out > 0 THEN NoAsk ELSE asked
          /\ evenAt' = IF moves # <<>> /\ Last(moves).even THEN stop ELSE evenAt
          /\ moves' = <<>> /\ giving' = 0
          /\ UNCHANGED <<setup, stance>>

------------------------------------------------------------------------------
(* Management of an open trade                                                 *)

Close == At(candle.close)
Reduced == lots < entered

(* The stop that covers the whole trade: what has been realised, the fees paid *)
(* and those of the contracts left.                                            *)
EvenPrice ==
    LET owed == Dir * average * lots + fees + ExitFee * lots - gross
    IN  Dir * (-((-owed) \div (lots * Tick)) * Tick)
WholeTradeEven == EvenPrice

(* Break-even by profit: the first target has sold, the market is far enough,  *)
(* the stop improves and stays on its side of the market.                      *)
EvenMoves ==
    LET even == WholeTradeEven
        due == /\ 1 \in Completed /\ 100 * Dir * (Close - average) >= MinEvenR * Risk
               /\ Beyond(Dir, even, protect) /\ Beyond(Dir, Close, even)
    IN  IF due THEN <<[price |-> even, even |-> TRUE]>> ELSE <<>>

(* The session guard's: a position with its first profit taken is carried over *)
(* with its stop at break-even.                                                *)
FirstFixation == 1 \in Completed \/ (setup.profile = "ma_cloud" /\ gross > 0 /\ Reduced)
GuardMoves ==
    IF FirstFixation /\ Beyond(Dir, WholeTradeEven, protect) /\ Beyond(Dir, Close, WholeTradeEven)
    THEN <<[price |-> WholeTradeEven, even |-> TRUE]>> ELSE <<>>
Carried == FirstFixation /\ ~Beyond(Dir, WholeTradeEven, protect)

(* Trailing begins with the first target, or when a position too small for a   *)
(* target order touches it, and then stays on.                                 *)
Trailing ==
    \/ trail \/ Completed # {}
    \/ Allocation(entered)[1] = 0 /\ ~Beyond(Dir, goals[1], At(candle.best))
Extreme == IF peak # 0 /\ Beyond(Dir, peak, At(candle.best)) THEN peak ELSE At(candle.best)
Improving(stop) ==
    IF Beyond(Dir, stop, protect) THEN <<[price |-> stop, even |-> FALSE]>> ELSE <<>>

(* The cloud of two averages: leave beyond the slow one, give up a contract    *)
(* inside the cloud or behind the fast one, keep the stop behind both.         *)
CloudLeft == Beyond(Dir, At(candle.slow), Close)
CloudEntered ==
    \/ Beyond(Dir, At(candle.fast), Close)
    \/ ~Beyond(Dir, Close, At(Higher(candle.fast, candle.slow)))
CloudMoves == Improving(Loss(Dir, At(Lower(candle.fast, candle.slow) - BufferTicks * Tick)))

(* What each profile wants of this bar: stops, and contracts to give up.       *)
Wants(stops, give) == [stops |-> stops, give |-> give]
AtrWants ==
    {Wants(IF Trailing THEN Improving(Loss(Dir, Extreme - Dir * TrailAtr * atr)) ELSE <<>>, 0) : atr \in Atrs}
CloudWants ==
    {IF CloudLeft THEN Wants(<<>>, lots)
     ELSE Wants(CloudMoves, IF lots > 1 /\ CloudEntered THEN 1 ELSE 0)}
LevelsWants == {Wants(EvenMoves, 0)}
PatternWants == {Wants(EvenMoves, 0)}
ProfileWants ==
    CASE setup.profile = "atr_trend" -> AtrWants
      [] setup.profile = "ma_cloud" -> CloudWants
      [] setup.profile = "levels_rr" -> LevelsWants
      [] OTHER -> PatternWants

(* Only a stop with the market on its right side is let through; a profile     *)
(* asks for one at most.                                                       *)
WithinMarket(stops) == IF stops # <<>> /\ ~Beyond(Dir, Close, Head(stops).price) THEN <<>> ELSE stops

KeepTrailing ==
    IF setup.profile = "atr_trend" /\ Trailing THEN trail' = TRUE /\ peak' = Extreme
    ELSE UNCHANGED stance

(* One call of manage(): the session guard when the position must leave, then  *)
(* the profile. Both decide against the confirmed stop.                        *)
ManageTrade ==
    /\ lots > 0 /\ mover = "manage" /\ mover' = "signal"
    /\ \E obligated \in BOOLEAN, want \in ProfileWants :
         IF obligated /\ GuardMoves = <<>> /\ ~Carried
         THEN giving' = lots /\ moves' = <<>> /\ UNCHANGED stance
         ELSE /\ moves' = (IF obligated THEN GuardMoves ELSE <<>>) \o WithinMarket(want.stops)
              /\ giving' = want.give /\ KeepTrailing
    /\ UNCHANGED <<setup, position, protect, asked, evenAt, candle, candles>>

(* A signal of the trade's own side at the bar's close may add to it, at that  *)
(* price or better: profitable, and never once a reduction has come.           *)
AddSize ==
    IF asked.size > 0 \/ Reduced \/ Completed # {} \/ trail \/ adds >= MaxAdds
       \/ ~Beyond(Dir, Close, average)
    THEN 0 ELSE (lots * AddPercent) \div 100
AtrAdds == ~Trailing /\ 100 * Dir * (Close - average) >= AdvanceR * Risk
CloudAdds == ~CloudLeft /\ (lots = 1 \/ ~CloudEntered)
PatternAdds == Beyond(Dir, Last(setup.goals), Close)
ProfileAdds ==
    CASE setup.profile = "atr_trend" -> AtrAdds
      [] setup.profile = "ma_cloud" -> CloudAdds
      [] setup.profile = "pattern_targets" -> PatternAdds
      [] OTHER -> TRUE
SignalAdds ==
    /\ lots > 0 /\ mover = "signal" /\ mover' = "bar"
    /\ IF AddSize > 0 /\ ProfileAdds /\ giving = 0
       THEN asked' = [price |-> Close, size |-> AddSize] ELSE UNCHANGED asked
    /\ KeepTrailing
    /\ UNCHANGED <<setup, position, protect, moves, giving, evenAt, candle, candles>>
(* A raw signal of the other side closes it.                                   *)
OppositeSignal ==
    /\ lots > 0 /\ mover = "signal" /\ mover' = "bar" /\ giving' = lots
    /\ UNCHANGED <<setup, position, protect, stance, asked, moves, evenAt, candle, candles>>

ProfileNext ==
    \/ PlanTrade \/ EntryIsFilled \/ CandleCloses \/ ManageTrade \/ SignalAdds \/ OppositeSignal

------------------------------------------------------------------------------
ProfileTypeOK ==
    /\ {lots, entered, fees, adds, giving, candles} \subseteq Nat
    /\ {average, protect, gross, peak, evenAt} \subseteq Int
    /\ lots <= entered /\ giving <= entered /\ trail \in BOOLEAN
    /\ mover \in {"bar", "manage", "signal"} /\ Len(goals) = Len(taken)

(* A stop is planned on the losing side, as far as volatility asks and, but for *)
(* a tick, no farther than the cap; a target in units of risk still pays its   *)
(* ratio net of fees after stop and targets have followed the average.         *)
PlanIsKept ==
    setup # NoSetup =>
        /\ setup.floor <= Risk /\ Risk < setup.cap + Tick
        /\ setup.profile # "pattern_targets" /\ entered > 0 =>
             \A i \in DOMAIN goals \ Completed :
               Dir * (goals[i] - average) - EntryFee - ExitFee >= Ratios[setup.profile][i] * Risk

(* Targets never sell more than was bought, and, unless the rest is kept for   *)
(* trailing, nothing is left without a target to leave at.                     *)
AllHasATarget ==
    goals # <<>> /\ entered > 0 =>
        /\ Total(Allocation(entered)) <= entered
        /\ setup.profile # "atr_trend" => Total(Allocation(entered)) = entered
        /\ lots <= entered - Total(taken)

(* While the stop stands where break-even put it, or better, the trade cannot  *)
(* lose: not by its fees, its rounding, or an addition that fills later.       *)
BreakEvenPays ==
    lots > 0 /\ evenAt # 0 /\ ~Beyond(Dir, evenAt, protect) =>
        gross + lots * Dir * (protect - average) - fees - ExitFee * lots >= 0

(* From one bar to the next the stop of a held position only improves,         *)
(* whatever was sent in between and whatever an addition makes of the average. *)
StopImproves ==
    [][lots > 0 /\ lots' > 0 => ~Beyond(Dir, protect, protect')]_profileVars
=============================================================================
